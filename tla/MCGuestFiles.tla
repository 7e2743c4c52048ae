---------------------------- MODULE MCGuestFiles ----------------------------
(* GuestFiles with an ordinary file, the random device and a path without a
   directory; descriptor 0 stands for the three standard ones. *)
EXTENDS GuestFiles

MCNames == {"file", "/dev/urandom", "nowhere"}

MCNoDirectory == {"nowhere"}

MCCounts == {0, 1, 2}

MCDescriptors == {0, 3, 4}
=============================================================================
