--------------------------- MODULE MCGuestMemory ---------------------------
(* GuestMemory with pages of two bytes: the modules have pages 4 to 7, the
   heap page 10, the mappings pages 12 and 13. *)
EXTENDS GuestMemory

MCSizes == {0, 1, 4}

MCProts == {{"r", "w"}}

MCAddresses == {8, 9, 20, 24}

(* Segments a page apart, segments that touch at a page boundary, segments
   that share a page, and a file that is not a shared library.  The first
   library defines errno, the others refer to it. *)
Errno(kind) == [name \in {"__errno"} |-> kind]

MCImages ==
  { [shared |-> TRUE, symbols |-> Errno("defined"),
     segments |-> <<[va |-> 0, size |-> 1, flags |-> {"r", "x"}],
                    [va |-> 0, size |-> 0, flags |-> {"r"}],
                    [va |-> 2, size |-> 1, flags |-> {"r", "w"}]>>],
    [shared |-> TRUE, symbols |-> Errno("undefined"),
     segments |-> <<[va |-> 0, size |-> 2, flags |-> {"r", "x"}],
                    [va |-> 2, size |-> 1, flags |-> {"r", "w"}]>>],
    [shared |-> TRUE, symbols |-> Errno("weak"),
     segments |-> <<[va |-> 1, size |-> 3, flags |-> {"r", "x"}]>>],
    [shared |-> FALSE, symbols |-> << >>, segments |-> <<>>] }
=============================================================================
