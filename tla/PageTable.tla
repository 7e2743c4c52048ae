----------------------------- MODULE PageTable -----------------------------
(***************************************************************************)
(* What Unicorn's memory functions promise to the emulator that calls them *)
(* (uc_mem_map, uc_mem_unmap, uc_mem_protect, uc_mem_write): guest memory  *)
(* is a set of mapped pages, each with its permissions and contents.  A    *)
(* call applies to all of the pages it names or, failing, to none.         *)
(***************************************************************************)
EXTENDS Integers

CONSTANTS
  PageCount,  \* the pages are 0 .. PageCount - 1
  Perms,      \* what a page's permissions can be
  Contents,   \* what can be in a page
  Zero        \* the contents of a page just mapped

VARIABLE pages   \* the mapped pages, each with its permissions and contents

Span(addr, n) == addr .. addr + n - 1

PageNumbers == 0 .. PageCount - 1

Requests == {r \in PageNumbers \X (1 .. PageCount) : r[1] + r[2] <= PageCount}

TableInit == pages = [p \in {} |-> Zero]

Map(span, perm) ==
  /\ span \cap DOMAIN pages = {}
  /\ pages' = [p \in DOMAIN pages \cup span |->
                 IF p \in span THEN [perms |-> perm, data |-> Zero] ELSE pages[p]]

Unmap(span) ==
  /\ span \subseteq DOMAIN pages
  /\ pages' = [p \in DOMAIN pages \ span |-> pages[p]]

Protect(span, perm) ==
  /\ span \subseteq DOMAIN pages
  /\ pages' = [p \in DOMAIN pages |->
                 IF p \in span THEN [pages[p] EXCEPT !.perms = perm] ELSE pages[p]]

Write(span, value) ==
  /\ span \subseteq DOMAIN pages
  /\ pages' = [p \in DOMAIN pages |->
                 IF p \in span THEN [pages[p] EXCEPT !.data = value] ELSE pages[p]]

TableNext ==
  \E r \in Requests :
    \/ \E perm \in Perms : Map(Span(r[1], r[2]), perm) \/ Protect(Span(r[1], r[2]), perm)
    \/ Unmap(Span(r[1], r[2]))
    \/ \E value \in Contents : Write(Span(r[1], r[2]), value)

TableSpec == TableInit /\ [][TableNext]_pages
=============================================================================
