--------------------------- MODULE MCClassMirror ---------------------------
(***************************************************************************)
(* ClassMirror with a class in a package, which has a method, a field and  *)
(* no constructor without arguments, and one without a package.  Three     *)
(* mirrors let the first class be added twice.  The global index that is   *)
(* never given out stands for the number GetObjectClass returns, which is  *)
(* the index of the object itself and lies in the range of globals.        *)
(***************************************************************************)
EXTENDS ClassMirror, TLC

CONSTANTS c1, c2, c3, a1, o1

MCClasses == {c1, c2, c3}
MCArrays == {a1}
MCOthers == {o1}

MCSymmetry == Permutations(MCClasses)

MCMembers == [k \in {"pkg.A", "B"} |->
    IF k = "pkg.A" THEN ("call()V" :> "method") @@ ("field" :> "field")
    ELSE ("<init>()V" :> "constructor")]
=============================================================================
