----------------------------- MODULE MCUcMemory -----------------------------
(***************************************************************************)
(* A small instance of UcMemory: four pages, so that a range can cut a     *)
(* region in three, span two regions and a hole, or cover several of them. *)
(***************************************************************************)
EXTENDS UcMemory

MCPerms == {"r", "rw"}
MCContents == {"zero", "a"}
MCZero == "zero"
=============================================================================
