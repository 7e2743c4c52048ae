------------------------------ MODULE MCUcEmu ------------------------------
(***************************************************************************)
(* A small instance of UcEmu: an outer and a nested emulation.             *)
(***************************************************************************)
EXTENDS UcEmu

MCCallbacks == {"stop", "pc", "start"}
=============================================================================
