------------------------------- MODULE TbCache -------------------------------
(***************************************************************************)
(* The cache of translated code (accel/tcg/translate-all.c, cpu-exec.c):   *)
(* translation blocks, the hash table and the jump cache they are found    *)
(* in, the lists and bitmaps of the pages they come from, the direct jumps *)
(* that chain one block to the next, and what throws blocks away: stores   *)
(* of the guest, uc_ctl_remove_cache, the end of an emulation, and a full  *)
(* buffer.                                                                 *)
(*                                                                         *)
(* Guest code is Thumb: an address is a halfword; "n" is an instruction of *)
(* one halfword, "w" the first halfword of one of two, "b" a conditional   *)
(* branch to BranchTo.  Any instruction may store, and any may call back   *)
(* into the embedding program, which may edit code.  It then calls         *)
(* uc_ctl_remove_cache on what it has edited, as docs/FAQ.md asks.         *)
(*                                                                         *)
(* The pages below PAGES are mapped and contiguous in RAM, nothing is      *)
(* mapped in front of them or behind them, and the MMU is off.  Emulations *)
(* are not nested.                                                         *)
(***************************************************************************)
EXTENDS Integers, Sequences

CONSTANTS
  PAGE_SIZE,       \* halfwords of a page
  PAGES,
  MAX_TBS,         \* blocks that fit the code buffer between two flushes
  SMC_BITMAP_USE_THRESHOLD,
  BranchTo,        \* where every branch goes
  Untils,          \* the `until' arguments of uc_emu_start
  Patches,         \* what may be written: <<address, instruction>> pairs
  RemoveLen        \* the longest range of uc_ctl_remove_cache

ASSUME TbAssumption ==
  /\ {PAGES, MAX_TBS, SMC_BITMAP_USE_THRESHOLD, RemoveLen} \subseteq Nat \ {0}
  /\ PAGE_SIZE \in Nat \ {0, 1}    \* an instruction fits a page
  /\ BranchTo \in 0 .. PAGE_SIZE * PAGES - 1
  /\ Untils \subseteq 0 .. PAGE_SIZE * PAGES - 1
  /\ Patches \subseteq (0 .. PAGE_SIZE * PAGES - 1) \X {"n", "w", "b"}

VARIABLES
  mem,        \* the guest's code
  tbs,        \* the blocks generated since the last flush
  htable,     \* tb_ctx.htable
  jmp_cache,  \* cpu->tb_jmp_cache
  pages,      \* the PageDescs: list of blocks, bitmap, write count
  pc, until,
  cur,        \* the running block
  last        \* last_tb and tb_exit of cpu_exec

cache == <<tbs, htable, jmp_cache, pages>>
tbVars == <<mem, cache, pc, until, cur, last>>

Addr == 0 .. PAGE_SIZE * PAGES - 1
Insn == {"n", "w", "b"}
Page(a) == a \div PAGE_SIZE    \* rounds down: the page in front of 0 is -1
PageIds == 0 .. PAGES - 1

None == 0                      \* the NULL block
NoJump == <<None, 0>>          \* last_tb = NULL
NoPage == -1                   \* page_addr[1] = -1
NoBitmap == {-1}               \* code_bitmap = NULL
Idle == -1                     \* no emulation

EmptyPage == [first_tb |-> <<>>, bitmap |-> NoBitmap, count |-> 0]

(* Linked lists. *)
Has(list, x) == \E i \in DOMAIN list : list[i] = x

Distinct(list) == \A i, j \in DOMAIN list : list[i] = list[j] => i = j

(* The list without the first item that is x. *)
Remove(list, x) ==
  LET at == CHOOSE i \in DOMAIN list :
              list[i] = x /\ \A j \in DOMAIN list : list[j] = x => i <= j
  IN  IF ~Has(list, x) THEN list
      ELSE [n \in 1 .. Len(list) - 1 |-> IF n < at THEN list[n] ELSE list[n + 1]]

-----------------------------------------------------------------------------
(* Translation *)

Width(i) == IF i = "w" THEN 2 ELSE 1

(* The address behind the instruction at a. *)
Behind(a) == a + Width(mem[a])

(* thumb_tr_translate_insn: the address behind the block that starts at p, and
   why it ends there.  insn_crosses_page leaves a wide instruction at the end
   of the page to the next block. *)
BlockEnd(p) ==
  LET end[a \in Addr] ==
        IF a = until THEN <<a, "halt">>
        ELSE IF mem[a] = "b" THEN <<Behind(a), "branch">>
        ELSE IF Page(Behind(a)) # Page(p) \/ Page(Behind(Behind(a)) - 1) # Page(p)
          THEN <<Behind(a), "next">>
        ELSE end[Behind(a)]
  IN  end[p]

(* The load of an instruction fails when a halfword of it is not mapped. *)
Fetchable(p) == p = until \/ (p \in Addr /\ Behind(p) - 1 \in Addr)

(* get_page_addr_code on page n: -1 where there is no RAM. *)
get_page_addr_code(n) == IF n \in PageIds THEN n ELSE NoPage

(* Mutant of SecondPage: a block without instructions counts as one halfword. *)
SecondPageOfOne(p, end) ==
  LET page2 == Page(IF end = p THEN p ELSE end - 1)
  IN  IF page2 # Page(p) THEN get_page_addr_code(page2) ELSE NoPage

(* "check next page if needed": the page of the last halfword.  A block without
   instructions ends in front of its first one. *)
SecondPage(p, end) ==
  LET page2 == Page(end - 1)
  IN  IF page2 # Page(p) THEN get_page_addr_code(page2) ELSE NoPage

(* The block that gen_intermediate_code makes at p. *)
NewTb(p) ==
  LET e == BlockEnd(p)
  IN  [pc |-> p, end |-> e[1], exit |-> e[2],
       code |-> [i \in 1 .. e[1] - p |-> mem[p + i - 1]],
       page2 |-> SecondPage(p, e[1]),
       invalid |-> FALSE,
       dest |-> <<None, None>>,   \* jmp_dest and the jump in the code
       jmp_list |-> <<>>]         \* the jumps to this block

-----------------------------------------------------------------------------
(* The lists of blocks *)

Cache == [tbs |-> tbs, htable |-> htable, jmp_cache |-> jmp_cache, pages |-> pages]

SetCache(c) ==
  /\ tbs' = c.tbs
  /\ htable' = c.htable
  /\ jmp_cache' = c.jmp_cache
  /\ pages' = c.pages

NoCode == [tbs |-> <<>>, htable |-> {},
           jmp_cache |-> [a \in Addr |-> None],
           pages |-> [p \in PageIds |-> EmptyPage]]

(* Mutant of invalidate_page_bitmap: the bitmap stays. *)
KeepBitmap(d) == [d EXCEPT !.count = 0]

invalidate_page_bitmap(d) == [first_tb |-> d.first_tb, bitmap |-> NoBitmap, count |-> 0]

SetList(d, list) == [first_tb |-> list, bitmap |-> d.bitmap, count |-> d.count]

(* tb_page_add: t becomes the first block of page p of the pages ds, or nothing
   happens when there is no such page. *)
tb_page_add(ds, t, p) ==
  IF p = NoPage THEN ds
  ELSE [ds EXCEPT ![p] = invalidate_page_bitmap(SetList(ds[p], <<t>> \o ds[p].first_tb))]

tb_page_remove(ds, t, p) ==
  IF p = NoPage THEN ds
  ELSE [ds EXCEPT ![p] = invalidate_page_bitmap(SetList(ds[p], Remove(ds[p].first_tb, t)))]

SetJumps(b, list) == [b EXCEPT !.jmp_list = list]
SetDest(b, dest) == [b EXCEPT !.dest = dest]

(* tb_remove_from_jmp_list: jump n of t, one of the blocks bs, leaves the list
   of its destination.  The jump in the code of t stays. *)
tb_remove_from_jmp_list(bs, t, n) ==
  LET d == bs[t].dest[n]
  IN  IF d = None THEN bs
      ELSE [bs EXCEPT ![d] = SetJumps(bs[d], Remove(bs[d].jmp_list, <<t, n>>))]

(* The blocks without the jumps in list, and block t without its list. *)
Unlinked(bs, t, list) ==
  [u \in DOMAIN bs |->
    SetJumps(SetDest(bs[u], [n \in 1 .. 2 |-> IF Has(list, <<u, n>>) THEN None
                                              ELSE bs[u].dest[n]]),
             IF u = t THEN <<>> ELSE bs[u].jmp_list)]

(* Mutant of tb_jmp_unlink: the last jump of the list stays. *)
UnlinkButLast(bs, t) ==
  LET list == bs[t].jmp_list
  IN  Unlinked(bs, t, IF list = <<>> THEN list ELSE SubSeq(list, 1, Len(list) - 1))

(* tb_jmp_unlink: every block in the list of t loses its jump to t. *)
tb_jmp_unlink(bs, t) == Unlinked(bs, t, bs[t].jmp_list)

(* The blocks when t is no longer valid. *)
SetInvalid(bs, t) == [bs EXCEPT ![t] = [bs[t] EXCEPT !.invalid = TRUE]]

do_tb_phys_invalidate(c, t) ==
  LET b == c.tbs[t]
      bs1 == tb_remove_from_jmp_list(SetInvalid(c.tbs, t), t, 1)
      bs2 == tb_remove_from_jmp_list(bs1, t, 2)
  IN  IF t \notin c.htable THEN c
      ELSE [tbs |-> tb_jmp_unlink(bs2, t),
            htable |-> c.htable \ {t},
            jmp_cache |-> [c.jmp_cache EXCEPT ![b.pc] = IF c.jmp_cache[b.pc] = t THEN None
                                                        ELSE c.jmp_cache[b.pc]],
            pages |-> tb_page_remove(tb_page_remove(c.pages, t, Page(b.pc)), t, b.page2)]

(* The halfwords of block b on page p, as the page's list sees them: the first
   one and the one behind the last. *)
TbStart(b, p) == IF Page(b.pc) = p THEN b.pc ELSE p * PAGE_SIZE
TbEnd(b, p) == IF Page(b.pc) = p THEN b.end ELSE p * PAGE_SIZE + (b.end % PAGE_SIZE)

(* Block b of page p shares a halfword with start .. end - 1, or has none. *)
Hit(b, p, start, end) ==
  \/ ~(TbEnd(b, p) <= start \/ TbStart(b, p) >= end)
  \/ TbStart(b, p) = TbEnd(b, p)

(* tb_invalidate_phys_page_range__locked: of the blocks of page p, in the order
   of its list, those that are hit go. *)
tb_invalidate_phys_page_range(c, p, start, end) ==
  LET list == c.pages[p].first_tb
      after[n \in 0 .. Len(list)] ==
        IF n = 0 THEN c
        ELSE IF Hit(c.tbs[list[n]], p, start, end)
          THEN do_tb_phys_invalidate(after[n - 1], list[n])
        ELSE after[n - 1]
  IN  after[Len(list)]

(* tb_invalidate_phys_range: page by page, in the pages that have RAM. *)
tb_invalidate_phys_range(c, start, end) ==
  LET first == Page(start)
      page(k, p) == tb_invalidate_phys_page_range(k, p,
                      IF p = first THEN start ELSE p * PAGE_SIZE,
                      IF p = Page(end - 1) THEN end ELSE (p + 1) * PAGE_SIZE)
      after[n \in 0 .. Page(end - 1) - first + 1] ==
        IF n = 0 THEN c
        ELSE IF first + n - 1 \in PageIds THEN page(after[n - 1], first + n - 1)
        ELSE after[n - 1]
  IN  after[Page(end - 1) - first + 1]

(* uc_invalidate_tb: an address without RAM becomes the last one there is, and
   the range wraps. *)
uc_invalidate_tb(c, start, len) ==
  IF start \in Addr THEN tb_invalidate_phys_range(c, start, start + len) ELSE c

(* build_page_bitmap *)
build_page_bitmap(c, p) ==
  {a \in Addr : /\ Page(a) = p
                /\ \E i \in DOMAIN c.pages[p].first_tb :
                     LET b == c.tbs[c.pages[p].first_tb[i]]
                     IN  TbStart(b, p) <= a /\ a < TbEnd(b, p)}

(* tb_invalidate_phys_page_fast: after some writes to a page with code a bitmap
   of its code is made, and a write beside the code is passed over. *)
tb_invalidate_phys_page_fast(c, a) ==
  LET p == Page(a)
      d == c.pages[p]
      d1 == IF d.bitmap # NoBitmap THEN d
            ELSE [first_tb |-> d.first_tb,
                  bitmap |-> IF d.count + 1 < SMC_BITMAP_USE_THRESHOLD THEN NoBitmap
                             ELSE build_page_bitmap(c, p),
                  count |-> d.count + 1]
      c1 == [tbs |-> c.tbs, htable |-> c.htable, jmp_cache |-> c.jmp_cache,
             pages |-> [c.pages EXCEPT ![p] = d1]]
  IN  IF d1.bitmap # NoBitmap /\ a \notin d1.bitmap THEN c1
      ELSE tb_invalidate_phys_page_range(c1, p, a, a + 1)

-----------------------------------------------------------------------------
(* Finding a block *)

(* tb_htable_lookup with tb_lookup_cmp: a block of two pages must continue on
   the page that follows. *)
tb_htable_lookup(c, p) ==
  LET found == {t \in c.htable : /\ c.tbs[t].pc = p
                                 /\ c.tbs[t].page2 \in {NoPage, get_page_addr_code(Page(p) + 1)}}
  IN  IF found = {} THEN None ELSE CHOOSE t \in found : TRUE

(* tb_lookup__cpu_state *)
tb_lookup(c, p) ==
  LET t == c.jmp_cache[p]
  IN  IF t # None /\ ~c.tbs[t].invalid THEN t ELSE tb_htable_lookup(c, p)

(* tb_link_page: the new block, or the equal one that is there already. *)
tb_link_page(c, b) ==
  LET t == Len(c.tbs) + 1
      same == {x \in c.htable : c.tbs[x].pc = b.pc /\ c.tbs[x].page2 = b.page2}
  IN  IF same # {} THEN [c |-> c, tb |-> CHOOSE x \in same : TRUE]
      ELSE [c |-> [tbs |-> Append(c.tbs, b),
                   htable |-> c.htable \cup {t},
                   jmp_cache |-> c.jmp_cache,
                   pages |-> tb_page_add(tb_page_add(c.pages, t, Page(b.pc)), t, b.page2)],
            tb |-> t]

(* tb_add_jump: the jump j is patched to t if t is valid and the jump is still
   free; the jumps of an invalid block are not. *)
tb_add_jump(bs, j, t) ==
  LET b == bs[j[1]]
      new == [bs EXCEPT ![j[1]] = SetDest(b, [b.dest EXCEPT ![j[2]] = t])]
  IN  IF j = NoJump \/ bs[t].invalid \/ b.invalid \/ b.dest[j[2]] # None THEN bs
      ELSE [new EXCEPT ![t] = SetJumps(new[t], <<j>> \o new[t].jmp_list)]

-----------------------------------------------------------------------------
(* An emulation *)

Running == cur # None

(* The running block has an instruction, which may store or call back. *)
Executes == Running /\ tbs[cur].code # <<>>

EmuStart(begin, u) ==
  /\ until = Idle
  /\ pc' = begin
  /\ until' = u
  /\ UNCHANGED <<mem, cache, cur, last>>

(* uc_exit_invalidate_iter *)
uc_exit_invalidate(c) == uc_invalidate_tb(c, until - 1, 1)

(* resume_all_vcpus behind the loop. *)
EmuEnds ==
  /\ SetCache(uc_exit_invalidate(Cache))
  /\ pc' = 0
  /\ until' = Idle
  /\ cur' = None
  /\ last' = NoJump
  /\ UNCHANGED mem

(* tb_gen_code finds the buffer full, flushes it and leaves cpu_exec, which is
   entered again. *)
FlushFull ==
  /\ until # Idle /\ ~Running
  /\ Fetchable(pc)
  /\ tb_lookup(Cache, pc) = None
  /\ Len(tbs) = MAX_TBS
  /\ SetCache(NoCode)
  /\ last' = NoJump
  /\ UNCHANGED <<mem, pc, until, cur>>

(* tb_find: a block is looked up or generated, and the jump that has led here
   is patched unless the block has two pages. *)
tb_find ==
  /\ until # Idle /\ ~Running
  /\ Fetchable(pc)
  /\ LET found == tb_lookup(Cache, pc)
         r == IF found = None THEN tb_link_page(Cache, NewTb(pc))
                              ELSE [c |-> Cache, tb |-> found]
         bs == r.c.tbs
     IN  /\ found = None => Len(tbs) < MAX_TBS
         /\ tbs' = IF bs[r.tb].page2 # NoPage THEN bs ELSE tb_add_jump(bs, last, r.tb)
         /\ htable' = r.c.htable
         /\ jmp_cache' = [jmp_cache EXCEPT ![pc] = r.tb]
         /\ pages' = r.c.pages
         /\ cur' = r.tb
  /\ last' = NoJump
  /\ UNCHANGED <<mem, pc, until>>

FetchFails ==
  /\ until # Idle /\ ~Running
  /\ ~Fetchable(pc)
  /\ EmuEnds

(* notdirty_write, then the store. *)
GuestStore(a, i) ==
  /\ Executes
  /\ SetCache(tb_invalidate_phys_page_fast(Cache, a))
  /\ mem' = [mem EXCEPT ![a] = i]
  /\ UNCHANGED <<pc, until, cur, last>>

(* uc_mem_write of halfword a, and uc_ctl_remove_cache of a range that has it,
   between emulations or in a callback. *)
HostEdit(a, i, start, len) ==
  /\ until = Idle \/ Executes
  /\ a \in start .. start + len - 1 /\ start + len - 1 \in Addr
  /\ mem' = [mem EXCEPT ![a] = i]
  /\ SetCache(uc_invalidate_tb(Cache, start, len))
  /\ UNCHANGED <<pc, until, cur, last>>

(* uc_ctl_flush_tb *)
HostFlush ==
  /\ until = Idle
  /\ SetCache(NoCode)
  /\ UNCHANGED <<mem, pc, until, cur, last>>

(* use_goto_tb *)
use_goto_tb(b, dest) == Page(dest) \in {Page(b.pc), Page(b.end - 1)}

(* Mutant of LeaveBlock: cpu_exec is told of the first jump, whichever it was. *)
LeaveByFirst(n, dest) ==
  /\ Running
  /\ LET b == tbs[cur]
     IN  /\ \/ b.exit # "halt" /\ n = 2 /\ dest = b.end
            \/ b.exit = "branch" /\ n = 1 /\ dest = BranchTo
         /\ cur' = b.dest[n]
         /\ last' = IF use_goto_tb(b, dest) /\ b.dest[n] = None THEN <<cur, 1>> ELSE NoJump
  /\ pc' = dest
  /\ UNCHANGED <<mem, cache, until>>

(* The block is left by its jump n, to dest: straight into the next block, or
   back to cpu_exec, which is told the jump only if it may be patched. *)
LeaveBlock(n, dest) ==
  /\ Running
  /\ LET b == tbs[cur]
     IN  /\ \/ b.exit # "halt" /\ n = 2 /\ dest = b.end
            \/ b.exit = "branch" /\ n = 1 /\ dest = BranchTo
         /\ cur' = b.dest[n]
         /\ last' = IF use_goto_tb(b, dest) /\ b.dest[n] = None THEN <<cur, n>> ELSE NoJump
  /\ pc' = dest
  /\ UNCHANGED <<mem, cache, until>>

(* The guest is at `until'. *)
Halt ==
  /\ Running
  /\ tbs[cur].exit = "halt"
  /\ EmuEnds

(* A callback has called uc_emu_stop. *)
Stop ==
  /\ Executes
  /\ EmuEnds

TbInit ==
  /\ mem = [a \in Addr |-> "n"]
  /\ tbs = NoCode.tbs /\ htable = NoCode.htable
  /\ jmp_cache = NoCode.jmp_cache /\ pages = NoCode.pages
  /\ pc = 0 /\ until = Idle /\ cur = None /\ last = NoJump

TbNext ==
  \/ \E begin \in Addr, u \in Untils : EmuStart(begin, u)
  \/ FlushFull
  \/ tb_find
  \/ FetchFails
  \/ \E w \in Patches : GuestStore(w[1], w[2])
  \/ \E w \in Patches, start \in Addr, len \in 1 .. RemoveLen :
       HostEdit(w[1], w[2], start, len)
  \/ HostFlush
  \/ \E n \in 1 .. 2, dest \in 0 .. PAGE_SIZE * PAGES : LeaveBlock(n, dest)
  \/ Halt
  \/ Stop

TbSpec == TbInit /\ [][TbNext]_tbVars

-----------------------------------------------------------------------------
(* Properties *)

TbIds == DOMAIN tbs

(* The cache and the state of the loop have their types. *)
TbTypeOK ==
  /\ mem \in [Addr -> Insn]
  /\ Len(tbs) <= MAX_TBS
  /\ \A t \in TbIds :
       /\ tbs[t].pc \in Addr /\ tbs[t].end \in Addr \cup {PAGE_SIZE * PAGES}
       /\ tbs[t].exit \in {"halt", "branch", "next"}
       /\ tbs[t].page2 \in PageIds \cup {NoPage}
       /\ tbs[t].dest \in [1 .. 2 -> TbIds \cup {None}]
       /\ tbs[t].jmp_list \in Seq(TbIds \X (1 .. 2))
  /\ htable \subseteq TbIds
  /\ jmp_cache \in [Addr -> TbIds \cup {None}]
  /\ \A p \in PageIds : /\ pages[p].first_tb \in Seq(TbIds)
                        /\ pages[p].count \in 0 .. SMC_BITMAP_USE_THRESHOLD
  /\ pc \in 0 .. PAGE_SIZE * PAGES
  /\ until \in Addr \cup {Idle}
  /\ cur \in TbIds \cup {None}
  /\ last \in (TbIds \X (1 .. 2)) \cup {NoJump}

(* The list of a page has exactly the findable blocks with code on the page,
   once each, and nothing else is found by a lookup: tb_page_remove never gets
   to its g_assert_not_reached, and a lookup never returns a block that an
   invalidation would miss. *)
ListsAgree ==
  /\ htable = {t \in TbIds : ~tbs[t].invalid}
  /\ \A p \in PageIds :
       /\ \A t \in TbIds : Has(pages[p].first_tb, t) <=>
            t \in htable /\ p \in {Page(tbs[t].pc), tbs[t].page2}
       /\ Distinct(pages[p].first_tb)
  /\ \A a \in Addr : jmp_cache[a] # None => tbs[jmp_cache[a]].pc = a

(* The jumps in the code of valid blocks lead to valid blocks and are exactly
   the ones their destinations list, so that invalidating a block cuts all of
   them and tb_remove_from_jmp_list never gets to its g_assert_not_reached.
   A jump is never patched to a block of two pages. *)
ChainsAgree ==
  \A t \in htable :
    /\ \A n \in 1 .. 2 : tbs[t].dest[n] # None =>
         LET d == tbs[tbs[t].dest[n]]
         IN  ~d.invalid /\ d.page2 = NoPage /\ Has(d.jmp_list, <<t, n>>)
    /\ \A i \in DOMAIN tbs[t].jmp_list :
         LET j == tbs[t].jmp_list[i]
         IN  ~tbs[j[1]].invalid /\ tbs[j[1]].dest[j[2]] = t
    /\ Distinct(tbs[t].jmp_list)

(* The structures of the cache have their types and agree with one another, so
   that each way to a block is known to the code that invalidates it. *)
TbInv == TbTypeOK /\ ListsAgree /\ ChainsAgree

Code(b) == [i \in 1 .. b.end - b.pc |-> mem[b.pc + i - 1]]

(* Every block that can be found is a translation of the code that is in memory
   now, however often the guest has stored into code pages (past the bitmap's
   threshold, on either page of a block) and the embedding program has edited
   them. *)
CodeCurrent == \A t \in htable : tbs[t].code = Code(tbs[t])

(* The vCPU enters only blocks that are current and that start where the last
   block has gone to, whether it looks them up or is led there by a patched
   jump.  The exception is the jump out of a block that was invalidated while
   it was running. *)
EntersCurrent ==
  [][(/\ Running => ~tbs[cur].invalid
      /\ cur' # None /\ mem' = mem)
     => (tbs'[cur'].pc = pc' /\ tbs'[cur'].code = Code(tbs'[cur']))]_tbVars

(* cpus.c, 220: "the generated code at that address is to exit emulation, but
   not for the instruction there.  if we dont do this, next time we cannot
   emulate at that address".  A block that can be found stops the guest only
   at the `until' of the emulation in progress. *)
HaltsOnlyAtUntil == \A t \in htable : tbs[t].exit = "halt" => tbs[t].end = until

(* unicorn.h, 820: "@until: address where emulation stops (i.e. when this
   address is hit)".  The instruction at `until' is not executed.  It
   is, in a block that an earlier emulation with another `until' has left. *)
StopsAtUntil == Running /\ tbs[cur].pc = until => tbs[cur].exit = "halt"
=============================================================================
