------------------------------ MODULE MCTbCache ------------------------------
(* The cache of translated code on two pages of two halfwords each, which a wide
   instruction may cross. *)
EXTENDS TbCache

(* The start of the second page, which has a mapped page in front of it, and its
   middle. *)
MCUntils == {2, 3}

(* The first page may get a branch, and get and lose a wide instruction that
   crosses into the second page, which may get a branch. *)
MCPatches == {<<0, "b">>, <<1, "n">>, <<1, "w">>, <<2, "b">>}
=============================================================================
