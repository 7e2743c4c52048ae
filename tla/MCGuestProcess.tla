--------------------------- MODULE MCGuestProcess ---------------------------
(* GuestProcess with one file that is opened and closed but not read. *)
EXTENDS GuestProcess

MCNames == {"file", "/dev/urandom"}

MCNoDirectory == {}

MCCounts == {}

MCDescriptors == {0, 3, 4}
=============================================================================
