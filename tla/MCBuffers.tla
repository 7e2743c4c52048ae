------------------------------ MODULE MCBuffers ------------------------------
(***************************************************************************)
(* A small instance of JniBuffers.  Strings and arrays of the same lengths *)
(* make blocks of size 0 (an empty array) next to blocks in use, exact     *)
(* fits, splits and merges, and the heap ends inside the range of          *)
(* addresses explored.                                                     *)
(***************************************************************************)
EXTENDS JniBuffers

MCSizes == {-1, 0, 1, 2, 3}
MCLengths == 0 .. 2
=============================================================================
