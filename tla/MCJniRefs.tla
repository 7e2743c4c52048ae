----------------------------- MODULE MCJniRefs -----------------------------
(***************************************************************************)
(* A small instance of JniRefs: the local table's range is 1..2, the index *)
(* 3 belongs to neither table and a third step of local indexes reaches    *)
(* the global range 4..5, as the indexes 2050..4095 and 4096 do in the     *)
(* program.                                                                *)
(***************************************************************************)
EXTENDS JniRefs

CONSTANTS c1, a1, o1, o2

MCClasses == {c1}
MCArrays == {a1}
MCOthers == {o1, o2}
=============================================================================
