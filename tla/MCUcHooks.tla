----------------------------- MODULE MCUcHooks -----------------------------
(***************************************************************************)
(* A small instance of UcHooks: three hook objects, of which one may be    *)
(* the count hook, a block of two instructions and one nested level.       *)
(***************************************************************************)
EXTENDS UcHooks, TLC

MCSymmetry == Permutations(Handles)
=============================================================================
