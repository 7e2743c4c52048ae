------------------------------ MODULE TbProofs ------------------------------
(***************************************************************************)
(* Proofs about TbCache, for every size and number of pages, every size of *)
(* the buffer, every threshold of the bitmaps and every set of exits and   *)
(* patches.                                                                *)
(*                                                                         *)
(* What one invalidation does to the blocks, the jumps and the pages is    *)
(* said for each on its own.  The loops over a list and over a range of    *)
(* pages are recursive functions, and are followed by induction on the     *)
(* number of their iterations.  Then come the lookup and the new block,    *)
(* the patched jump, and the steps.                                        *)
(***************************************************************************)
EXTENDS TbCache, WellFoundedInduction, TLAPS

-----------------------------------------------------------------------------
(* The inductive invariant of TbCache *)

Size == PAGE_SIZE * PAGES

Block == [pc : Addr, end : 0 .. Size, exit : {"halt", "branch", "next"},
          code : Seq(Insn), page2 : PageIds \cup {NoPage}, invalid : BOOLEAN,
          dest : [1 .. 2 -> Nat], jmp_list : Seq(Nat \X (1 .. 2))]

Desc == [first_tb : Seq(Nat), bitmap : SUBSET Int, count : Nat]

(* Where jump n of block b goes. *)
Target(b, n) == IF n = 1 THEN BranchTo ELSE b.end

(* A block reaches at most one halfword into the page that follows its own. *)
Shape(b) ==
  /\ b.pc <= b.end
  /\ b.page2 = SecondPage(b.pc, b.end)
  /\ b.end <= (Page(b.pc) + 1) * PAGE_SIZE + 1

(* The blocks, and where their jumps lead, whether they are valid or not. *)
BlocksOK(bs) ==
  /\ bs \in Seq(Block)
  /\ \A t \in DOMAIN bs :
       /\ Shape(bs[t])
       /\ \A n \in 1 .. 2 : bs[t].dest[n] # None =>
            bs[t].dest[n] \in DOMAIN bs /\ bs[bs[t].dest[n]].pc = Target(bs[t], n)
       /\ \A i \in DOMAIN bs[t].jmp_list : bs[t].jmp_list[i][1] \in DOMAIN bs

Valid(bs) == {t \in DOMAIN bs : ~bs[t].invalid}

(* ListsAgree and ChainsAgree of the blocks bs, of which ht can be found. *)
ChainsOK(bs, ht) ==
  \A t \in ht :
    /\ \A n \in 1 .. 2 : bs[t].dest[n] # None =>
         /\ bs[t].dest[n] \in ht
         /\ bs[bs[t].dest[n]].page2 = NoPage
         /\ Has(bs[bs[t].dest[n]].jmp_list, <<t, n>>)
    /\ \A i \in DOMAIN bs[t].jmp_list :
         /\ bs[t].jmp_list[i][1] \in ht
         /\ bs[bs[t].jmp_list[i][1]].dest[bs[t].jmp_list[i][2]] = t
    /\ Distinct(bs[t].jmp_list)

(* Block b has halfword a. *)
Covers(b, a) == b.pc <= a /\ a < b.end

OnPage(b, p) == p \in {Page(b.pc), b.page2}

(* The list of a page, and its bitmap, which covers the code in the list. *)
PageOK(bs, ht, d, p) ==
  /\ \A i \in DOMAIN d.first_tb : d.first_tb[i] \in DOMAIN bs
  /\ \A t \in DOMAIN bs : Has(d.first_tb, t) <=> t \in ht /\ OnPage(bs[t], p)
  /\ Distinct(d.first_tb)
  /\ d.count <= SMC_BITMAP_USE_THRESHOLD
  /\ d.bitmap = NoBitmap => d.count < SMC_BITMAP_USE_THRESHOLD
  /\ d.bitmap # NoBitmap =>
       \A t \in ht, a \in Addr : Page(a) = p /\ Covers(bs[t], a) => a \in d.bitmap

PagesOK(bs, ht, ds) ==
  /\ ds \in [PageIds -> Desc]
  /\ \A p \in PageIds : PageOK(bs, ht, ds[p], p)

FoundOK(bs, jc) ==
  /\ jc \in [Addr -> Nat]
  /\ \A a \in Addr : jc[a] # None => jc[a] \in DOMAIN bs /\ bs[jc[a]].pc = a

CacheOK(c) ==
  /\ BlocksOK(c.tbs)
  /\ c.htable = Valid(c.tbs)
  /\ ChainsOK(c.tbs, c.htable)
  /\ PagesOK(c.tbs, c.htable, c.pages)
  /\ FoundOK(c.tbs, c.jmp_cache)

(* The code of b as it is in the memory m. *)
CodeOf(b, m) == [i \in 1 .. b.end - b.pc |-> m[b.pc + i - 1]]

(* The running block is at pc, and so is the target of the jump that may be
   patched. *)
RunOK ==
  /\ mem \in [Addr -> Insn]
  /\ pc \in 0 .. Size
  /\ until \in Untils \cup {Idle}
  /\ cur \in Nat
  /\ cur # None => cur \in DOMAIN tbs /\ tbs[cur].pc = pc
  /\ last \in (Nat \X (1 .. 2)) \cup {NoJump}
  /\ last # NoJump => last[1] \in DOMAIN tbs /\ Target(tbs[last[1]], last[2]) = pc
  /\ until = Idle => cur = None /\ last = NoJump

CacheIInv ==
  /\ CacheOK(Cache)
  /\ Len(tbs) <= MAX_TBS
  /\ \A t \in htable : tbs[t].code = CodeOf(tbs[t], mem)

TbIInv == CacheIInv /\ RunOK

-----------------------------------------------------------------------------
(* Numbers, pages and lists *)

(* Every set of numbers that is not empty has a least element. *)
LEMMA LeastNumber ==
  ASSUME NEW T, T \subseteq Nat, T # {}
  PROVE  \E m \in T : \A n \in T : m <= n
<1> DEFINE R == {ss \in Nat \X Nat : ss[1] < ss[2]}
<1>1. IsWellFoundedOn(R, Nat)
  BY NatLessThanWellFounded DEF OpToRel
<1> HIDE DEF R
<1>2. PICK m \in T : \A n \in T : ~(<<n, m>> \in R)
  BY <1>1, WFMin, Zenon
<1>3. SUFFICES ASSUME NEW n \in T PROVE m <= n
  OBVIOUS
<1>4. n < m => <<n, m>> \in R
  BY DEF R
<1> QED
  BY <1>2, <1>4

(* The constants of TbCache are numbers. *)
LEMMA TbConstants ==
  /\ PAGE_SIZE \in Nat /\ PAGE_SIZE > 1 /\ PAGES \in Nat /\ PAGES > 0
  /\ Size \in Nat /\ Size > 0 /\ SMC_BITMAP_USE_THRESHOLD \in Nat /\ MAX_TBS \in Nat
  /\ SMC_BITMAP_USE_THRESHOLD > 0 /\ RemoveLen \in Nat
  /\ Addr = 0 .. Size - 1 /\ BranchTo \in Addr /\ Untils \subseteq Addr
<1>1. /\ PAGE_SIZE \in Nat /\ PAGE_SIZE > 1 /\ PAGES \in Nat /\ PAGES > 0
      /\ SMC_BITMAP_USE_THRESHOLD \in Nat /\ MAX_TBS \in Nat
      /\ SMC_BITMAP_USE_THRESHOLD > 0 /\ RemoveLen \in Nat
  BY TbAssumption
<1>2. Size \in Nat /\ Size > 0
  BY <1>1 DEF Size
<1> QED BY <1>1, <1>2, TbAssumption DEF Size, Addr

(* The place of an address on its page. *)
Offset(a) == a % PAGE_SIZE

(* Division by the size of a page. *)
LEMMA PageDiv ==
  ASSUME NEW a \in Int
  PROVE  /\ Page(a) \in Int /\ Offset(a) \in Int
         /\ a = Page(a) * PAGE_SIZE + Offset(a)
         /\ 0 <= Offset(a) /\ Offset(a) < PAGE_SIZE
<1>1. PAGE_SIZE \in Nat /\ PAGE_SIZE > 1
  BY TbConstants
<1>2. /\ Page(a) \in Int /\ Offset(a) \in Int
      /\ a = PAGE_SIZE * Page(a) + Offset(a)
      /\ 0 <= Offset(a) /\ Offset(a) < PAGE_SIZE
  BY <1>1 DEF Page, Offset
<1>3. Page(a) * PAGE_SIZE = PAGE_SIZE * Page(a)
  BY <1>1, <1>2
<1> QED BY <1>2, <1>3

(* An address is on the page that it is divided into. *)
LEMMA PageBounds ==
  ASSUME NEW a \in Int
  PROVE  Page(a) \in Int /\ Page(a) * PAGE_SIZE <= a /\ a < (Page(a) + 1) * PAGE_SIZE
<1>1. PAGE_SIZE \in Nat /\ PAGE_SIZE > 1
  BY TbConstants
<1>2. /\ Page(a) \in Int /\ Offset(a) \in Int
      /\ a = Page(a) * PAGE_SIZE + Offset(a)
      /\ 0 <= Offset(a) /\ Offset(a) < PAGE_SIZE
  BY PageDiv
<1>3. (Page(a) + 1) * PAGE_SIZE = Page(a) * PAGE_SIZE + PAGE_SIZE /\ Page(a) * PAGE_SIZE \in Int
  BY <1>1, <1>2
<1> QED BY <1>1, <1>2, <1>3

(* The page of an address is the only one it is on. *)
LEMMA PageIs ==
  ASSUME NEW a \in Int, NEW k \in Int, k * PAGE_SIZE <= a, a < (k + 1) * PAGE_SIZE
  PROVE  Page(a) = k
<1> DEFINE q == Page(a)
<1>1. PAGE_SIZE \in Nat /\ PAGE_SIZE > 1
  BY TbConstants
<1>2. q \in Int /\ q * PAGE_SIZE <= a /\ a < (q + 1) * PAGE_SIZE
  BY PageBounds
<1> HIDE DEF q
<1>3. ASSUME NEW x \in Int, NEW y \in Int, x * PAGE_SIZE < (y + 1) * PAGE_SIZE PROVE x <= y
  <2> SUFFICES ASSUME x >= y + 1 PROVE FALSE
    OBVIOUS
  <2>1. PICK z \in Nat : x = y + 1 + z
    <3>1. x - y - 1 \in Nat /\ x = y + 1 + (x - y - 1)
      OBVIOUS
    <3> QED BY <3>1
  <2>2. x * PAGE_SIZE = (y + 1) * PAGE_SIZE + z * PAGE_SIZE
    BY <2>1, <1>1
  <2>3. z * PAGE_SIZE >= 0 /\ z * PAGE_SIZE \in Int /\ (y + 1) * PAGE_SIZE \in Int
    BY <1>1
  <2> QED BY <2>2, <2>3, <1>3
<1>4. k * PAGE_SIZE \in Int /\ q * PAGE_SIZE \in Int /\ (k + 1) * PAGE_SIZE \in Int
      /\ (q + 1) * PAGE_SIZE \in Int
  BY <1>1, <1>2
<1>5. k * PAGE_SIZE < (q + 1) * PAGE_SIZE /\ q * PAGE_SIZE < (k + 1) * PAGE_SIZE
  BY <1>2, <1>4
<1>6. k <= q /\ q <= k
  BY <1>3, <1>5, <1>2
<1> QED BY <1>6, <1>2 DEF q

(* The pages of the addresses. *)
LEMMA AddrPage ==
  ASSUME NEW a \in Int
  PROVE  Page(a) \in PageIds <=> a \in Addr
<1>1. /\ PAGE_SIZE \in Nat /\ PAGE_SIZE > 1 /\ PAGES \in Nat /\ Size = PAGE_SIZE * PAGES
      /\ Addr = 0 .. Size - 1 /\ Size \in Nat
  BY TbConstants DEF Size
<1> DEFINE q == Page(a)
<1>2. q \in Int /\ q * PAGE_SIZE <= a /\ a < (q + 1) * PAGE_SIZE
  BY PageBounds
<1> HIDE DEF q
<1>3. ASSUME q \in PageIds PROVE a \in Addr
  <2>1. q \in Nat /\ q + 1 <= PAGES
    BY <1>3, <1>1 DEF PageIds
  <2>2. PICK z \in Nat : PAGES = q + 1 + z
    <3>1. PAGES - q - 1 \in Nat /\ PAGES = q + 1 + (PAGES - q - 1)
      BY <2>1, <1>1
    <3> QED BY <3>1
  <2>3. Size = (q + 1) * PAGE_SIZE + z * PAGE_SIZE
    BY <2>2, <1>1, <2>1
  <2>4. z * PAGE_SIZE \in Nat /\ q * PAGE_SIZE \in Nat /\ (q + 1) * PAGE_SIZE \in Nat
    BY <1>1, <2>1
  <2> QED BY <1>1, <1>2, <2>3, <2>4
<1>4. ASSUME a \in Addr PROVE q \in PageIds
  <2>1. a \in Nat /\ a < Size
    BY <1>4, <1>1
  <2>2. q >= 0
    <3> SUFFICES ASSUME q <= -1 PROVE FALSE
      BY <1>2
    <3>1. PICK z \in Nat : q + 1 = -z
      <4>1. -(q + 1) \in Nat /\ q + 1 = -(-(q + 1))
        BY <1>2
      <4> QED BY <4>1
    <3>2. (q + 1) * PAGE_SIZE = -(z * PAGE_SIZE) /\ z * PAGE_SIZE \in Nat
      BY <3>1, <1>1
    <3> QED BY <3>2, <1>2, <2>1
  <2>3. q < PAGES
    <3> SUFFICES ASSUME q >= PAGES PROVE FALSE
      BY <1>2, <1>1
    <3>1. PICK z \in Nat : q = PAGES + z
      <4>1. q - PAGES \in Nat /\ q = PAGES + (q - PAGES)
        BY <1>1, <1>2
      <4> QED BY <4>1
    <3>2. q * PAGE_SIZE = Size + z * PAGE_SIZE /\ z * PAGE_SIZE \in Nat
      BY <3>1, <1>1
    <3> QED BY <3>2, <1>1, <1>2, <2>1
  <2> QED BY <2>2, <2>3, <1>1, <1>2 DEF PageIds
<1> QED BY <1>3, <1>4 DEF q

(* What an item leaves behind in a list without repetitions. *)
LEMMA RemoveKeeps ==
  ASSUME NEW S, NEW list \in Seq(S), NEW x, Distinct(list)
  PROVE  /\ Remove(list, x) \in Seq(S) /\ Distinct(Remove(list, x))
         /\ \A y : Has(Remove(list, x), y) <=> Has(list, y) /\ y # x
<1>1. Len(list) \in Nat /\ DOMAIN list = 1 .. Len(list) /\ \A i \in 1 .. Len(list) : list[i] \in S
  OBVIOUS
<1>2. CASE ~Has(list, x)
  <2>1. Remove(list, x) = list
    BY <1>2, Zenon DEF Remove
  <2> QED BY <2>1, <1>2, Zenon DEF Has
<1>3. CASE Has(list, x)
  <2> DEFINE at == CHOOSE i \in DOMAIN list :
                     list[i] = x /\ \A j \in DOMAIN list : list[j] = x => i <= j
             new == [n \in 1 .. Len(list) - 1 |-> IF n < at THEN list[n] ELSE list[n + 1]]
  <2>1. at \in DOMAIN list /\ list[at] = x
    <3>1. PICK i \in DOMAIN list : list[i] = x
      BY <1>3, Zenon DEF Has
    <3>2. \A j \in DOMAIN list : list[j] = x => i <= j
      <4> SUFFICES ASSUME NEW j \in DOMAIN list, list[j] = x PROVE i <= j
        OBVIOUS
      <4>1. i = j
        BY <3>1, Zenon DEF Distinct
      <4> QED BY <4>1, <1>1
    <3> QED BY <3>1, <3>2, Zenon
  <2>2. Remove(list, x) = new
    BY <1>3, Zenon DEF Remove
  <2> HIDE DEF at
  <2>3. at \in 1 .. Len(list) /\ Len(list) - 1 \in Nat
    BY <2>1, <1>1
  <2>4. new \in [1 .. Len(list) - 1 -> S]
    BY <1>1, <2>3
  <2>5. new \in Seq(S) /\ DOMAIN new = 1 .. Len(list) - 1
    <3> HIDE DEF new
    <3> QED BY <2>3, <2>4
  <2>6. Distinct(new)
    <3> SUFFICES ASSUME NEW i \in DOMAIN new, NEW j \in DOMAIN new, new[i] = new[j]
                 PROVE  i = j
      BY Zenon DEF Distinct
    <3> DEFINE k(n) == IF n < at THEN n ELSE n + 1
    <3>1. \A n \in DOMAIN new : k(n) \in DOMAIN list /\ new[n] = list[k(n)]
      BY <2>3, <2>5, <1>1
    <3>2. k(i) = k(j)
      <4> HIDE DEF k, new
      <4> QED BY <3>1, Zenon DEF Distinct
    <3> QED BY <3>2, <2>3, <2>5
  <2>7. \A y : Has(new, y) => Has(list, y) /\ y # x
    <3> HIDE DEF new
    <3> SUFFICES ASSUME NEW i \in DOMAIN new PROVE Has(list, new[i]) /\ new[i] # x
      BY Zenon DEF Has
    <3> USE DEF new
    <3> DEFINE k == IF i < at THEN i ELSE i + 1
    <3>1. k \in DOMAIN list /\ new[i] = list[k] /\ k # at
      BY <2>3, <2>5, <1>1
    <3> HIDE DEF k, new
    <3>2. list[k] # x
      BY <3>1, <2>1, Zenon DEF Distinct
    <3> QED BY <3>1, <3>2, Zenon DEF Has
  <2>8. \A y : Has(list, y) /\ y # x => Has(new, y)
    <3> SUFFICES ASSUME NEW i \in DOMAIN list, list[i] # x PROVE Has(new, list[i])
      BY Zenon DEF Has
    <3> DEFINE k == IF i < at THEN i ELSE i - 1
    <3>1. i # at
      BY <2>1
    <3>2. k \in DOMAIN new /\ new[k] = list[i]
      BY <3>1, <2>3, <2>5, <1>1
    <3> HIDE DEF k, new
    <3> QED BY <3>2, Zenon DEF Has
  <2> HIDE DEF new
  <2> QED BY <2>2, <2>5, <2>6, <2>7, <2>8, Zenon
<1> QED BY <1>2, <1>3, Zenon

(* What a list has with another item in front. *)
LEMMA AddKeeps ==
  ASSUME NEW S, NEW list \in Seq(S), NEW x \in S
  PROVE  /\ <<x>> \o list \in Seq(S)
         /\ \A y : Has(<<x>> \o list, y) <=> Has(list, y) \/ y = x
         /\ Distinct(list) /\ ~Has(list, x) => Distinct(<<x>> \o list)
<1> DEFINE new == <<x>> \o list
<1>1. /\ new \in Seq(S) /\ Len(list) \in Nat /\ DOMAIN new = 1 .. Len(list) + 1
      /\ DOMAIN list = 1 .. Len(list) /\ new[1] = x
      /\ \A i \in 1 .. Len(list) : new[i + 1] = list[i]
  OBVIOUS
<1> HIDE DEF new
<1>2. \A i \in DOMAIN new : i = 1 \/ (i - 1 \in DOMAIN list /\ new[i] = list[i - 1])
  <2> SUFFICES ASSUME NEW i \in DOMAIN new, i # 1
               PROVE  i - 1 \in DOMAIN list /\ new[i] = list[i - 1]
    OBVIOUS
  <2>1. i - 1 \in 1 .. Len(list) /\ i = (i - 1) + 1
    BY <1>1
  <2> QED BY <2>1, <1>1
<1>3. \A i \in DOMAIN list : i + 1 \in DOMAIN new /\ new[i + 1] = list[i]
  BY <1>1
<1>4. 1 \in DOMAIN new
  BY <1>1
<1>5. \A y : Has(new, y) <=> Has(list, y) \/ y = x
  <2> SUFFICES ASSUME NEW y PROVE Has(new, y) <=> Has(list, y) \/ y = x
    OBVIOUS
  <2>1. ASSUME NEW i \in DOMAIN new, new[i] = y PROVE Has(list, y) \/ y = x
    BY <1>1, <1>2, <2>1, Zenon DEF Has
  <2>2. ASSUME NEW i \in DOMAIN list, list[i] = y PROVE Has(new, y)
    BY <1>3, <2>2, Zenon DEF Has
  <2>3. y = x => Has(new, y)
    BY <1>1, <1>4, Zenon DEF Has
  <2> QED BY <2>1, <2>2, <2>3, Zenon DEF Has
<1>6. ASSUME Distinct(list), ~Has(list, x) PROVE Distinct(new)
  <2> SUFFICES ASSUME NEW i \in DOMAIN new, NEW j \in DOMAIN new, new[i] = new[j]
               PROVE  i = j
    BY Zenon DEF Distinct
  <2>1. CASE i # 1 /\ j # 1
    <3>1. i - 1 = j - 1
      BY <1>2, <1>6, <2>1, Zenon DEF Distinct
    <3> QED BY <3>1, <1>1
  <2>2. CASE i = 1 \/ j = 1
    BY <1>1, <1>2, <1>6, <2>2, Zenon DEF Has
  <2> QED BY <2>1, <2>2, Zenon
<1> QED BY <1>1, <1>5, <1>6 DEF new

-----------------------------------------------------------------------------
(* Blocks and pages *)

(* A halfword of a block is on one of the block's pages, which know it. *)
LEMMA CodePages ==
  ASSUME NEW b \in Block, Shape(b), NEW a \in Int, Covers(b, a)
  PROVE  /\ a \in Addr /\ Page(a) \in PageIds /\ OnPage(b, Page(a))
         /\ TbStart(b, Page(a)) <= a /\ a < TbEnd(b, Page(a))
<1>1. /\ b.pc \in Addr /\ b.end \in 0 .. Size /\ b.pc <= a /\ a < b.end
      /\ b.page2 = SecondPage(b.pc, b.end) /\ b.end <= (Page(b.pc) + 1) * PAGE_SIZE + 1
  BY DEF Block, Shape, Covers
<1>2. /\ PAGE_SIZE \in Nat /\ PAGE_SIZE > 1 /\ Addr = 0 .. Size - 1 /\ Size \in Nat
      /\ b.pc \in Int /\ b.end \in Int
  BY <1>1, TbConstants
<1>3. a \in Addr
  BY <1>1, <1>2
<1>4. Page(a) \in PageIds
  BY <1>3, AddrPage, Zenon
<1> DEFINE q == Page(b.pc)
<1>5. q \in Int /\ q * PAGE_SIZE <= b.pc /\ b.pc < (q + 1) * PAGE_SIZE
  BY <1>2, PageBounds, Zenon
<1>6. CASE Page(a) = q
  <2>1. OnPage(b, Page(a))
    BY <1>6 DEF OnPage
  <2>2. TbStart(b, Page(a)) = b.pc /\ TbEnd(b, Page(a)) = b.end
    BY <1>6, Zenon DEF TbStart, TbEnd, Offset
  <2> QED BY <1>1, <1>3, <1>4, <2>1, <2>2
<1>7. CASE Page(a) # q
  <2>1. a >= (q + 1) * PAGE_SIZE /\ (q + 1) * PAGE_SIZE \in Int /\ q * PAGE_SIZE \in Int
    <3>1. (q + 1) * PAGE_SIZE \in Int /\ q * PAGE_SIZE \in Int
      BY <1>2, <1>5
    <3>2. q * PAGE_SIZE <= a
      BY <1>1, <1>2, <1>5, <3>1, SMTT(30)
    <3>3. a < (q + 1) * PAGE_SIZE => Page(a) = q
      <4> HIDE DEF q
      <4> QED BY <3>2, <1>5, PageIs, Zenon
    <3> QED BY <3>1, <3>3, <1>7
  <2> DEFINE k == q + 1
  <2>2. a = k * PAGE_SIZE /\ b.end = k * PAGE_SIZE + 1
    BY <2>1, <1>1, <1>2
  <2>3. k \in Int /\ (k + 1) * PAGE_SIZE = k * PAGE_SIZE + PAGE_SIZE /\ k # q
    <3>1. k \in Int /\ k # q
      BY <1>5
    <3> HIDE DEF k
    <3> QED BY <1>2, <3>1
  <2>4. Page(a) = k
    <3>1. k * PAGE_SIZE <= a /\ a < (k + 1) * PAGE_SIZE
      BY <2>2, <2>3, <1>2, <2>1
    <3> HIDE DEF k
    <3> QED BY <3>1, <2>3, PageIs, Zenon
  <2>5. b.end - 1 = a
    BY <2>2, <1>2, <2>1
  <2>6. b.page2 = Page(a)
    BY <2>5, <1>1, <1>4, <1>7 DEF SecondPage, get_page_addr_code
  <2>7. Offset(b.end) = 1
    <3> DEFINE r == Offset(b.end)
    <3>1. Page(b.end) = k
      <4>1. k * PAGE_SIZE <= b.end /\ b.end < (k + 1) * PAGE_SIZE
        BY <2>2, <2>3, <1>2, <2>1, SMTT(30)
      <4> HIDE DEF k
      <4> QED BY <4>1, <2>3, <1>2, PageIs, Zenon
    <3>2. r \in Int /\ b.end = k * PAGE_SIZE + r
      <4> HIDE DEF k
      <4> QED BY <3>1, <1>2, PageDiv, Zenon
    <3> HIDE DEF r, k
    <3>3. r = 1
      BY <3>2, <2>2, <2>1 DEF k
    <3> QED BY <3>3 DEF r
  <2>8. TbStart(b, Page(a)) = k * PAGE_SIZE /\ TbEnd(b, Page(a)) = k * PAGE_SIZE + 1
    BY <2>4, <2>7, <1>7, Zenon DEF TbStart, TbEnd, Offset
  <2>9. OnPage(b, Page(a))
    BY <2>6 DEF OnPage
  <2> QED BY <1>3, <1>4, <2>2, <2>8, <2>9, <2>1
<1> QED BY <1>6, <1>7, Zenon

(* A block that ends in front of u is on the page of u - 1, and is hit there. *)
LEMMA EndPages ==
  ASSUME NEW b \in Block, Shape(b), b.end - 1 \in Addr
  PROVE  /\ Page(b.end - 1) \in PageIds /\ OnPage(b, Page(b.end - 1))
         /\ Hit(b, Page(b.end - 1), b.end - 1, b.end)
<1>1. /\ b.pc \in Addr /\ b.end \in 0 .. Size /\ b.pc <= b.end
      /\ b.page2 = SecondPage(b.pc, b.end)
  BY DEF Block, Shape
<1>2. /\ PAGE_SIZE \in Nat /\ PAGE_SIZE > 1 /\ Addr = 0 .. Size - 1 /\ Size \in Nat
      /\ b.pc \in Int /\ b.end \in Int /\ b.end - 1 \in Int
  BY <1>1, TbConstants
<1> DEFINE a == b.end - 1
<1>3. Page(a) \in PageIds
  BY <1>2, AddrPage, Zenon
<1>4. CASE b.pc # b.end
  <2>1. Covers(b, a)
    BY <1>1, <1>2, <1>4 DEF Covers
  <2> HIDE DEF a
  <2>2. a \in Int /\ b.end = a + 1
    BY <1>2 DEF a
  <2>3. OnPage(b, Page(a)) /\ TbStart(b, Page(a)) <= a /\ a < TbEnd(b, Page(a))
    BY <2>1, <2>2, CodePages, Zenon
  <2>4. TbStart(b, Page(a)) \in Int /\ TbEnd(b, Page(a)) \in Int
    <3>1. Page(a) \in Int
      BY <2>2, PageBounds, Zenon
    <3> QED BY <1>2, <3>1 DEF TbStart, TbEnd
  <2>5. Hit(b, Page(a), a, b.end)
    BY <2>2, <2>3, <2>4 DEF Hit
  <2> QED BY <1>3, <2>3, <2>5 DEF a
<1>5. CASE b.pc = b.end
  <2>1. OnPage(b, Page(a))
    BY <1>1, <1>3 DEF OnPage, SecondPage, get_page_addr_code
  <2>2. TbStart(b, Page(a)) = TbEnd(b, Page(a))
    <3>1. CASE Page(b.pc) = Page(a)
      BY <3>1, <1>5 DEF TbStart, TbEnd
    <3>2. CASE Page(b.pc) # Page(a)
      <4> DEFINE q == Page(b.pc)
      <4>1. q \in Int /\ q * PAGE_SIZE <= b.pc /\ b.pc < (q + 1) * PAGE_SIZE
        BY <1>2, PageBounds, Zenon
      <4>2. q * PAGE_SIZE \in Int /\ (q + 1) * PAGE_SIZE \in Int
        BY <4>1, <1>2
      <4>3. ~(q * PAGE_SIZE <= a)
        <5>1. a < (q + 1) * PAGE_SIZE
          BY <4>1, <4>2, <1>2, <1>5
        <5>2. q * PAGE_SIZE <= a => Page(a) = q
          <6> HIDE DEF q, a
          <6> QED BY <5>1, <4>1, <1>2, PageIs, Zenon DEF a
        <5> QED BY <5>2, <3>2
      <4>4. b.end = q * PAGE_SIZE
        BY <4>1, <4>2, <4>3, <1>2, <1>5
      <4>5. Offset(b.end) = 0
        <5> DEFINE r == Offset(b.end)
        <5>1. r \in Int /\ b.end = q * PAGE_SIZE + r
          BY <1>2, <1>5, PageDiv, Zenon
        <5> HIDE DEF r, q
        <5>2. r = 0
          BY <5>1, <4>4, <4>2
        <5> QED BY <5>2 DEF r
      <4>6. TbStart(b, Page(a)) = Page(a) * PAGE_SIZE
            /\ TbEnd(b, Page(a)) = Page(a) * PAGE_SIZE + 0
        BY <3>2, <4>5, Zenon DEF TbStart, TbEnd, Offset
      <4>7. Page(a) * PAGE_SIZE \in Int
        <5>1. Page(a) \in Int
          BY <1>2, PageBounds, Zenon
        <5> QED BY <5>1, <1>2
      <4> QED BY <4>6, <4>7
    <3> QED BY <3>1, <3>2
  <2>3. Hit(b, Page(a), a, b.end)
    BY <2>2, Zenon DEF Hit
  <2> QED BY <1>3, <2>1, <2>3
<1> QED BY <1>4, <1>5, Zenon

-----------------------------------------------------------------------------
(* Translation *)

(* The end of the block at p when the translation is at a, given the ends f of
   the translation further on. *)
EndFrom(f, p, a) ==
  IF a = until THEN <<a, "halt">>
  ELSE IF mem[a] = "b" THEN <<Behind(a), "branch">>
  ELSE IF Page(Behind(a)) # Page(p) \/ Page(Behind(Behind(a)) - 1) # Page(p)
    THEN <<Behind(a), "next">>
  ELSE f[Behind(a)]

(* What EndFrom is, case by case. *)
LEMMA EndFromIs ==
  ASSUME NEW f, NEW p \in Addr, NEW a \in Addr, mem \in [Addr -> Insn]
  PROVE  LET next == Behind(a)
         IN  /\ next \in Nat /\ (next = a + 1 \/ next = a + 2)
             /\ \/ a = until /\ EndFrom(f, p, a) = <<a, "halt">>
                \/ EndFrom(f, p, a) = <<next, "branch">>
                \/ EndFrom(f, p, a) = <<next, "next">>
                \/ /\ next \in Addr /\ Page(next) = Page(p)
                   /\ Page(Behind(next) - 1) = Page(p)
                   /\ EndFrom(f, p, a) = f[next]
<1> DEFINE next == Behind(a)
<1>1. a \in Nat /\ p \in Nat
  BY TbConstants
<1>2. next \in Nat /\ (next = a + 1 \/ next = a + 2)
  BY <1>1 DEF Width, Behind
<1>3. Page(next) = Page(p) => next \in Addr
  <2>1. Page(p) \in PageIds
    BY <1>1, AddrPage
  <2> HIDE DEF next
  <2>2. next \in Int
    BY <1>2
  <2> QED BY <2>1, <2>2, AddrPage, Zenon
<1>4. \/ a = until /\ EndFrom(f, p, a) = <<a, "halt">>
      \/ EndFrom(f, p, a) = <<next, "branch">>
      \/ EndFrom(f, p, a) = <<next, "next">>
      \/ /\ Page(next) = Page(p) /\ Page(Behind(next) - 1) = Page(p)
         /\ EndFrom(f, p, a) = f[next]
  <2>1. CASE a = until
    BY <2>1 DEF EndFrom
  <2>2. CASE a # until /\ mem[a] = "b"
    BY <2>2 DEF EndFrom
  <2>3. CASE a # until /\ mem[a] # "b"
    BY <2>3 DEF EndFrom
  <2> QED BY <2>1, <2>2, <2>3
<1> HIDE DEF next
<1>5. \/ a = until /\ EndFrom(f, p, a) = <<a, "halt">>
      \/ EndFrom(f, p, a) = <<next, "branch">>
      \/ EndFrom(f, p, a) = <<next, "next">>
      \/ /\ next \in Addr /\ Page(next) = Page(p)
         /\ Page(Behind(next) - 1) = Page(p)
         /\ EndFrom(f, p, a) = f[next]
  BY <1>3, <1>4, Zenon
<1> QED BY <1>2, <1>5 DEF next

(* The end depends only on the ends of what follows. *)
LEMMA EndFromLocal ==
  ASSUME NEW f, NEW g, NEW p \in Addr, NEW a \in Addr, mem \in [Addr -> Insn],
         \A x \in Addr : x > a => f[x] = g[x]
  PROVE  EndFrom(f, p, a) = EndFrom(g, p, a)
<1> DEFINE next == Behind(a)
<1>1. a \in Nat /\ p \in Nat
  BY TbConstants
<1>2. next \in Nat /\ next > a
  BY <1>1 DEF Width, Behind
<1>3. Page(next) = Page(p) => f[next] = g[next]
  <2>1. Page(p) \in PageIds
    BY <1>1, AddrPage
  <2> HIDE DEF next
  <2>2. next \in Int
    BY <1>2
  <2>3. Page(next) = Page(p) => next \in Addr
    BY <2>1, <2>2, AddrPage, Zenon
  <2> QED BY <2>3, <1>2
<1>4. CASE Page(next) = Page(p)
  BY <1>4, <1>3, Zenon DEF EndFrom
<1>5. CASE Page(next) # Page(p)
  BY <1>5, Zenon DEF EndFrom
<1> QED BY <1>4, <1>5, Zenon

(* The recursion that defines BlockEnd has a solution. *)
LEMMA EndsExist ==
  ASSUME NEW p \in Addr, mem \in [Addr -> Insn]
  PROVE  \E f : f = [a \in Addr |-> EndFrom(f, p, a)]
<1> DEFINE From(n, f) == \A a \in Addr : a >= n => f[a] = EndFrom(f, p, a)
           T == {n \in Nat : \E f : From(n, f)}
<1>1. Addr = 0 .. Size - 1 /\ Size \in Nat
  BY TbConstants
<1>2. Size \in T
  <2>1. \A a \in Addr : ~(a >= Size)
    BY <1>1
  <2>2. From(Size, [a \in Addr |-> a])
    BY <2>1, Zenon
  <2> HIDE DEF From
  <2> QED BY <2>2, <1>1, Zenon
<1>3. PICK m \in T : \A n \in T : m <= n
  <2>1. T \subseteq Nat /\ T # {}
    BY <1>2, Zenon
  <2> HIDE DEF T
  <2> QED BY <2>1, LeastNumber, Zenon
<1>4. m \in Nat /\ \E f : From(m, f)
  <2> HIDE DEF From
  <2> QED BY <1>3, Zenon
<1>5. PICK f : From(m, f)
  BY <1>4, Zenon
<1>6. m = 0
  <2> SUFFICES ASSUME m > 0 PROVE FALSE
    BY <1>4
  <2> DEFINE g == [a \in Addr |-> IF a = m - 1 THEN EndFrom(f, p, a) ELSE f[a]]
  <2>1. ASSUME NEW a \in Addr, a >= m - 1 PROVE g[a] = EndFrom(g, p, a)
    <3>1. g[a] = EndFrom(f, p, a)
      <4>1. CASE a = m - 1
        BY <4>1, Zenon
      <4>2. CASE a # m - 1
        <5>1. a >= m
          BY <4>2, <2>1, <1>4, <1>1
        <5>2. f[a] = EndFrom(f, p, a)
          BY <5>1, <1>5, Zenon
        <5> QED BY <4>2, <5>2, Zenon
      <4> QED BY <4>1, <4>2, Zenon
    <3>2. \A x \in Addr : x > a => f[x] = g[x]
      <4> SUFFICES ASSUME NEW x \in Addr, x > a PROVE f[x] = g[x]
        OBVIOUS
      <4>1. x # m - 1
        BY <2>1, <1>1, <1>4
      <4> QED BY <4>1, Zenon
    <3> HIDE DEF g, From, T
    <3>3. EndFrom(f, p, a) = EndFrom(g, p, a)
      BY <3>2, EndFromLocal
    <3> QED BY <3>1, <3>3, Zenon
  <2> HIDE DEF g
  <2>2. From(m - 1, g)
    BY <2>1, Zenon
  <2> HIDE DEF From
  <2>3. m - 1 \in Nat
    BY <1>4
  <2>4. m - 1 \in T
    BY <2>2, <2>3, Zenon
  <2> HIDE DEF T
  <2>5. m <= m - 1
    BY <2>4, <1>3, Zenon
  <2> QED BY <2>5, <1>4
<1> DEFINE g == [a \in Addr |-> f[a]]
<1>7. ASSUME NEW a \in Addr PROVE g[a] = EndFrom(g, p, a)
  <2>1. a >= m
    BY <1>6, <1>1
  <2>2. g[a] = EndFrom(f, p, a)
    BY <2>1, <1>5, Zenon
  <2>3. \A x \in Addr : x > a => f[x] = g[x]
    BY Zenon
  <2> HIDE DEF g, From, T
  <2>4. EndFrom(f, p, a) = EndFrom(g, p, a)
    BY <2>3, EndFromLocal, Zenon
  <2> QED BY <2>2, <2>4, Zenon
<1>8. g = [a \in Addr |-> EndFrom(g, p, a)]
  <2>1. g = [a \in Addr |-> g[a]]
    BY Zenon
  <2> HIDE DEF g
  <2> QED BY <2>1, <1>7, Zenon
<1> HIDE DEF g
<1> QED BY <1>8, Zenon

(* A block ends behind its start, at most one halfword past its page, and stops
   the guest only at `until'. *)
LEMMA BlockEndIs ==
  ASSUME NEW p \in Addr, mem \in [Addr -> Insn], Fetchable(p), until \in Int
  PROVE  /\ BlockEnd(p)[1] \in p .. Size /\ BlockEnd(p)[2] \in {"halt", "branch", "next"}
         /\ BlockEnd(p)[1] <= (Page(p) + 1) * PAGE_SIZE + 1
         /\ BlockEnd(p)[2] = "halt" => BlockEnd(p)[1] = until
<1> DEFINE F == CHOOSE f : f = [a \in Addr |-> EndFrom(f, p, a)]
<1>1. F = [a \in Addr |-> EndFrom(F, p, a)]
  BY EndsExist, Zenon
<1>2. BlockEnd(p) = F[p]
  BY Zenon DEF BlockEnd, EndFrom
<1> HIDE DEF F
<1>3. \A a \in Addr : F[a] = EndFrom(F, p, a)
  BY <1>1, Zenon
<1>4. /\ Addr = 0 .. Size - 1 /\ Size \in Nat /\ p \in Nat /\ PAGE_SIZE \in Nat
      /\ Page(p) \in PageIds /\ Page(p) \in Int
  <2>1. Addr = 0 .. Size - 1 /\ Size \in Nat /\ PAGE_SIZE \in Nat
    BY TbConstants
  <2>2. p \in Int
    BY <2>1
  <2> QED BY <2>1, <2>2, AddrPage, PageBounds
<1> DEFINE top == (Page(p) + 1) * PAGE_SIZE
           Good(a) == /\ F[a][1] \in a .. Size /\ F[a][2] \in {"halt", "branch", "next"}
                      /\ F[a][1] <= top + 1
                      /\ F[a][2] = "halt" => F[a][1] = until
           Pre(a) == a \in Addr /\ Page(a) = Page(p) /\ Fetchable(a)
           Bad == {d \in Nat : Pre(Size - d) /\ ~Good(Size - d)}
<1>5. top \in Int
  BY <1>4
<1> HIDE DEF top
<1>6. ASSUME NEW a, Pre(a), \A x : Pre(x) /\ x > a => Good(x)
      PROVE  Good(a)
  <2> DEFINE next == Behind(a)
  <2>1. a \in Addr /\ a \in Nat /\ a <= Size /\ a < top
    <3>1. a \in Addr /\ a \in Int
      BY <1>6, <1>4
    <3>2. a < (Page(a) + 1) * PAGE_SIZE
      BY <3>1, PageBounds
    <3> QED BY <3>1, <3>2, <1>6, <1>4 DEF top
  <2>2. /\ next \in Nat /\ (next = a + 1 \/ next = a + 2)
        /\ \/ a = until /\ F[a] = <<a, "halt">>
           \/ a # until /\ F[a] = <<next, "branch">>
           \/ a # until /\ F[a] = <<next, "next">>
           \/ /\ next \in Addr /\ Page(next) = Page(p)
              /\ Page(Behind(next) - 1) = Page(p)
              /\ F[a] = F[next]
    <3>1. F[a] = EndFrom(F, p, a)
      BY <2>1, <1>3
    <3>2. a = until => EndFrom(F, p, a) = <<a, "halt">>
      BY DEF EndFrom
    <3> HIDE DEF next
    <3>3. /\ next \in Nat /\ (next = a + 1 \/ next = a + 2)
          /\ \/ a = until /\ EndFrom(F, p, a) = <<a, "halt">>
             \/ EndFrom(F, p, a) = <<next, "branch">>
             \/ EndFrom(F, p, a) = <<next, "next">>
             \/ /\ next \in Addr /\ Page(next) = Page(p)
                /\ Page(Behind(next) - 1) = Page(p)
                /\ EndFrom(F, p, a) = F[next]
      BY <2>1, EndFromIs DEF next
    <3> QED BY <3>1, <3>2, <3>3, Zenon
  <2>3. a # until => next <= Size
    <3>1. a # until => Behind(a) - 1 \in Addr
      BY <1>6, Zenon DEF Fetchable
    <3> QED BY <3>1, <2>2, <1>4
  <2> HIDE DEF next
  <2>4. CASE a = until /\ F[a] = <<a, "halt">>
    BY <2>4, <2>1, <1>4, <1>5
  <2>5. CASE a # until /\ (F[a] = <<next, "branch">> \/ F[a] = <<next, "next">>)
    BY <2>5, <2>1, <2>2, <2>3, <1>4, <1>5
  <2>6. CASE /\ next \in Addr /\ Page(next) = Page(p)
             /\ Page(Behind(next) - 1) = Page(p)
             /\ F[a] = F[next]
    <3>1. Behind(next) - 1 \in Addr
      <4>1. Behind(next) - 1 \in Int
        BY <2>2 DEF Width, Behind
      <4> QED BY <4>1, <2>6, <1>4, AddrPage, Zenon
    <3>2. Pre(next)
      BY <3>1, <2>6, Zenon DEF Fetchable
    <3>3. next > a
      BY <2>1, <2>2
    <3>4. Good(next)
      <4> HIDE DEF Good, Pre
      <4> QED BY <3>2, <3>3, <1>6, Zenon
    <3> QED BY <3>4, <2>6, <2>1, <2>2, <1>4
  <2> QED BY <2>2, <2>4, <2>5, <2>6, Zenon
<1>7. Bad = {}
  <2> SUFFICES ASSUME Bad # {} PROVE FALSE
    BY Zenon
  <2>1. PICK d \in Bad : \A n \in Bad : d <= n
    <3>1. Bad \subseteq Nat
      BY Zenon
    <3> HIDE DEF Bad
    <3> QED BY <3>1, LeastNumber, Zenon
  <2>2. d \in Nat /\ Pre(Size - d) /\ ~Good(Size - d)
    <3> HIDE DEF Pre, Good
    <3> QED BY <2>1, Zenon
  <2>3. ASSUME NEW x, Pre(x), x > Size - d PROVE Good(x)
    <3>1. x \in Addr
      BY <2>3, Zenon
    <3>2. Size - x \in Nat /\ Size - x < d /\ Size - (Size - x) = x
      BY <3>1, <2>2, <2>3, <1>4
    <3> HIDE DEF Pre, Good
    <3>3. ~Good(x) => Size - x \in Bad
      BY <3>2, <2>3
    <3> HIDE DEF Bad
    <3>4. Size - x \notin Bad
      <4>1. Size - x \in Bad => d <= Size - x
        BY <2>1, Zenon
      <4> QED BY <4>1, <3>2, <2>2, <1>4
    <3> QED BY <3>3, <3>4, Zenon
  <2> HIDE DEF Pre, Good, Bad
  <2> QED BY <2>2, <2>3, <1>6, Zenon
<1>8. Good(p)
  <2>1. Pre(p)
    BY Zenon
  <2>2. Size - p \in Nat /\ Size - (Size - p) = p
    BY <1>4
  <2> HIDE DEF Pre, Good
  <2>3. ~Good(p) => Size - p \in Bad
    BY <2>1, <2>2
  <2> HIDE DEF Bad
  <2> QED BY <2>3, <1>7, Zenon
<1> QED BY <1>2, <1>8, Zenon DEF top

-----------------------------------------------------------------------------
(* What the operations leave of the blocks *)

(* Blocks that were translated from the same code. *)
SameCode(b, d) ==
  d.pc = b.pc /\ d.end = b.end /\ d.exit = b.exit /\ d.code = b.code /\ d.page2 = b.page2

Jumps == Nat \X (1 .. 2)

(* A block with another list. *)
LEMMA JumpsFields ==
  ASSUME NEW b \in Block, NEW list \in Seq(Jumps)
  PROVE  /\ SetJumps(b, list) \in Block /\ SameCode(b, SetJumps(b, list))
         /\ SetJumps(b, list).invalid = b.invalid /\ SetJumps(b, list).dest = b.dest
         /\ SetJumps(b, list).jmp_list = list
  BY Zenon DEF SetJumps, Block, SameCode, Jumps

(* A block with other jumps. *)
LEMMA DestFields ==
  ASSUME NEW b \in Block, NEW dest \in [1 .. 2 -> Nat]
  PROVE  /\ SetDest(b, dest) \in Block /\ SameCode(b, SetDest(b, dest))
         /\ SetDest(b, dest).invalid = b.invalid /\ SetDest(b, dest).dest = dest
         /\ SetDest(b, dest).jmp_list = b.jmp_list
  BY Zenon DEF SetDest, Block, SameCode, Jumps

(* A block that is no longer valid. *)
LEMMA InvalidFields ==
  ASSUME NEW b \in Block
  PROVE  /\ [b EXCEPT !.invalid = TRUE] \in Block /\ SameCode(b, [b EXCEPT !.invalid = TRUE])
         /\ [b EXCEPT !.invalid = TRUE].invalid = TRUE
         /\ [b EXCEPT !.invalid = TRUE].dest = b.dest
         /\ [b EXCEPT !.invalid = TRUE].jmp_list = b.jmp_list
  BY Zenon DEF Block, SameCode, Jumps

(* The types of a block's parts. *)
LEMMA BlockTypes ==
  ASSUME NEW b \in Block
  PROVE  /\ b.pc \in Addr /\ b.end \in 0 .. Size /\ b.page2 \in PageIds \cup {NoPage}
         /\ b.exit \in {"halt", "branch", "next"} /\ b.code \in Seq(Insn)
         /\ b.invalid \in BOOLEAN /\ b.dest \in [1 .. 2 -> Nat] /\ b.jmp_list \in Seq(Jumps)
  BY Zenon DEF Block, Jumps

(* A sequence with one item replaced. *)
LEMMA SeqPut ==
  ASSUME NEW S, NEW s \in Seq(S), NEW k \in DOMAIN s, NEW x \in S
  PROVE  /\ [s EXCEPT ![k] = x] \in Seq(S) /\ DOMAIN [s EXCEPT ![k] = x] = DOMAIN s
         /\ Len([s EXCEPT ![k] = x]) = Len(s)
         /\ \A i \in DOMAIN s : [s EXCEPT ![k] = x][i] = (IF i = k THEN x ELSE s[i])
  OBVIOUS

(* SameCode is transitive. *)
LEMMA SameCodeTrans ==
  ASSUME NEW b, NEW d, NEW e, SameCode(b, d), SameCode(d, e)
  PROVE  SameCode(b, e)
  BY Zenon DEF SameCode

(* Block d is block b without the jumps of R in its list. *)
LessJumps(b, d, R) ==
  /\ SameCode(b, d) /\ d.invalid = b.invalid /\ d.dest = b.dest
  /\ Distinct(b.jmp_list) => Distinct(d.jmp_list)
  /\ \A j : Has(d.jmp_list, j) <=> Has(b.jmp_list, j) /\ j \notin R

(* A block that loses jumps twice. *)
LEMMA LessJumpsTrans ==
  ASSUME NEW b, NEW d, NEW e, NEW R, NEW S, LessJumps(b, d, R), LessJumps(d, e, S)
  PROVE  LessJumps(b, e, R \cup S)
<1>1. SameCode(b, e)
  BY SameCodeTrans, Zenon DEF LessJumps
<1>2. \A j : Has(e.jmp_list, j) <=> Has(b.jmp_list, j) /\ j \notin R \cup S
  BY Zenon DEF LessJumps
<1> QED BY <1>1, <1>2, Zenon DEF LessJumps

(* Jump n of t, if it leads to u. *)
JumpTo(bs, t, n, u) == IF bs[t].dest[n] = u THEN {<<t, n>>} ELSE {}

(* Jump n of t leaves the list of its destination, and nothing else changes. *)
LEMMA JumpRemoved ==
  ASSUME NEW bs \in Seq(Block), NEW t \in DOMAIN bs, NEW n \in 1 .. 2,
         bs[t].dest[n] # None => /\ bs[t].dest[n] \in DOMAIN bs
                                 /\ Distinct(bs[bs[t].dest[n]].jmp_list)
  PROVE  /\ tb_remove_from_jmp_list(bs, t, n) \in Seq(Block)
         /\ DOMAIN tb_remove_from_jmp_list(bs, t, n) = DOMAIN bs
         /\ \A u \in DOMAIN bs :
              LessJumps(bs[u], tb_remove_from_jmp_list(bs, t, n)[u], JumpTo(bs, t, n, u))
<1> DEFINE new == tb_remove_from_jmp_list(bs, t, n)
           d == bs[t].dest[n]
           Goal == /\ new \in Seq(Block) /\ DOMAIN new = DOMAIN bs
                   /\ \A u \in DOMAIN bs : LessJumps(bs[u], new[u], JumpTo(bs, t, n, u))
<1>0. DOMAIN bs \subseteq Nat /\ 0 \notin DOMAIN bs /\ \A u \in DOMAIN bs : bs[u] \in Block
  OBVIOUS
<1>1. CASE d = None
  <2>1. new = bs
    BY <1>1, Zenon DEF tb_remove_from_jmp_list
  <2>2. \A u \in DOMAIN bs : JumpTo(bs, t, n, u) = {}
    BY <1>1, <1>0 DEF None, JumpTo
  <2> HIDE DEF d, new
  <2>3. \A u \in DOMAIN bs : LessJumps(bs[u], new[u], JumpTo(bs, t, n, u))
    <3> SUFFICES ASSUME NEW u \in DOMAIN bs PROVE LessJumps(bs[u], bs[u], {})
      BY <2>1, <2>2, Zenon
    <3> QED BY Zenon DEF LessJumps, SameCode
  <2> QED BY <2>1, <2>3, Zenon DEF new
<1>2. CASE d # None
  <2> DEFINE list == Remove(bs[d].jmp_list, <<t, n>>)
             b == SetJumps(bs[d], list)
  <2>1. new = [bs EXCEPT ![d] = b]
    BY <1>2, Zenon DEF tb_remove_from_jmp_list
  <2>2. d \in DOMAIN bs /\ Distinct(bs[d].jmp_list) /\ bs[d] \in Block
    BY <1>2, <1>0
  <2>3. \A u \in DOMAIN bs : JumpTo(bs, t, n, u) = IF u = d THEN {<<t, n>>} ELSE {}
    BY Zenon DEF JumpTo
  <2> HIDE DEF d
  <2>4. bs[d].jmp_list \in Seq(Jumps) /\ bs[d].dest \in [1 .. 2 -> Nat]
    BY <2>2, BlockTypes, Zenon
  <2>5. /\ list \in Seq(Jumps) /\ Distinct(list)
        /\ \A j : Has(list, j) <=> Has(bs[d].jmp_list, j) /\ j # <<t, n>>
    BY <2>2, <2>4, RemoveKeeps, Zenon
  <2> HIDE DEF list
  <2>6. /\ b \in Block /\ SameCode(bs[d], b) /\ b.invalid = bs[d].invalid
        /\ b.dest = bs[d].dest /\ b.jmp_list = list
    BY <2>2, <2>5, JumpsFields, Zenon
  <2> HIDE DEF b, new
  <2>7. /\ new \in Seq(Block) /\ DOMAIN new = DOMAIN bs
        /\ \A u \in DOMAIN bs : new[u] = (IF u = d THEN b ELSE bs[u])
    BY <2>1, <2>2, <2>6
  <2>8. LessJumps(bs[d], b, {<<t, n>>})
    BY <2>2, <2>5, <2>6, Zenon DEF LessJumps
  <2>9. \A u \in DOMAIN bs : LessJumps(bs[u], new[u], JumpTo(bs, t, n, u))
    <3> SUFFICES ASSUME NEW u \in DOMAIN bs PROVE LessJumps(bs[u], new[u], JumpTo(bs, t, n, u))
      BY Zenon
    <3>1. CASE u = d
      BY <3>1, <2>3, <2>7, <2>8, Zenon
    <3>2. CASE u # d
      <4>1. LessJumps(bs[u], bs[u], {})
        BY Zenon DEF LessJumps, SameCode
      <4> QED BY <3>2, <4>1, <2>3, <2>7, Zenon
    <3> QED BY <3>1, <3>2, Zenon
  <2> QED BY <2>7, <2>9, Zenon DEF new
<1> QED BY <1>1, <1>2, Zenon

(* Block d is block b, which is u, without the jumps in list, and block t has
   lost its own list. *)
LessDest(b, d, u, t, list) ==
  /\ SameCode(b, d) /\ d.invalid = b.invalid
  /\ \A n \in 1 .. 2 : d.dest[n] = IF Has(list, <<u, n>>) THEN None ELSE b.dest[n]
  /\ d.jmp_list = IF u = t THEN <<>> ELSE b.jmp_list

(* The jumps in the list are cut, and the list of t is empty. *)
LEMMA UnlinkedIs ==
  ASSUME NEW bs \in Seq(Block), NEW t \in DOMAIN bs, NEW list
  PROVE  /\ Unlinked(bs, t, list) \in Seq(Block) /\ DOMAIN Unlinked(bs, t, list) = DOMAIN bs
         /\ \A u \in DOMAIN bs : LessDest(bs[u], Unlinked(bs, t, list)[u], u, t, list)
<1> DEFINE new == Unlinked(bs, t, list)
           dest(u) == [n \in 1 .. 2 |-> IF Has(list, <<u, n>>) THEN None ELSE bs[u].dest[n]]
           jl(u) == IF u = t THEN <<>> ELSE bs[u].jmp_list
<1>1. Len(bs) \in Nat /\ DOMAIN bs = 1 .. Len(bs) /\ \A u \in DOMAIN bs : bs[u] \in Block
  OBVIOUS
<1>2. /\ DOMAIN new = DOMAIN bs
      /\ \A u \in DOMAIN bs : new[u] = SetJumps(SetDest(bs[u], dest(u)), jl(u))
  BY Zenon DEF Unlinked
<1>3. ASSUME NEW u \in DOMAIN bs
      PROVE  new[u] \in Block /\ LessDest(bs[u], new[u], u, t, list)
  <2>1. bs[u] \in Block /\ bs[u].jmp_list \in Seq(Jumps) /\ bs[u].dest \in [1 .. 2 -> Nat]
    BY <1>1, BlockTypes, Zenon
  <2> DEFINE f == dest(u)
             l == jl(u)
             b == SetDest(bs[u], f)
             e == SetJumps(b, l)
  <2>2. f \in [1 .. 2 -> Nat]
    BY <2>1 DEF None
  <2>3. l \in Seq(Jumps)
    BY <2>1
  <2>4. \A n \in 1 .. 2 : f[n] = IF Has(list, <<u, n>>) THEN None ELSE bs[u].dest[n]
    BY Zenon
  <2>5. l = IF u = t THEN <<>> ELSE bs[u].jmp_list
    BY Zenon
  <2>6. new[u] = e
    BY <1>2, Zenon
  <2> HIDE DEF f, l, dest, jl, new
  <2>7. /\ b \in Block /\ SameCode(bs[u], b) /\ b.invalid = bs[u].invalid /\ b.dest = f
    BY <2>1, <2>2, DestFields, Zenon
  <2> HIDE DEF b
  <2>8. /\ e \in Block /\ SameCode(b, e) /\ e.invalid = b.invalid /\ e.dest = b.dest
        /\ e.jmp_list = l
    BY <2>3, <2>7, JumpsFields, Zenon
  <2> HIDE DEF e
  <2>9. SameCode(bs[u], e)
    BY <2>7, <2>8, SameCodeTrans, Zenon
  <2> QED BY <2>4, <2>5, <2>6, <2>7, <2>8, <2>9, Zenon DEF LessDest
<1> HIDE DEF new
<1>4. new \in [1 .. Len(bs) -> Block]
  <2>1. new = [u \in DOMAIN new |-> new[u]]
    BY Zenon DEF new, Unlinked
  <2> QED BY <2>1, <1>1, <1>2, <1>3, Zenon
<1>5. new \in Seq(Block)
  BY <1>1, <1>4
<1> QED BY <1>2, <1>3, <1>5, Zenon DEF new

(* The blocks after t has been invalidated. *)
Cut(bs, t) ==
  LET bs1 == tb_remove_from_jmp_list(SetInvalid(bs, t), t, 1)
      bs2 == tb_remove_from_jmp_list(bs1, t, 2)
  IN  tb_jmp_unlink(bs2, t)

(* The jumps of t that lead to u. *)
JumpsTo(bs, t, u) == JumpTo(bs, t, 1, u) \cup JumpTo(bs, t, 2, u)

(* Block u after t has been invalidated. *)
CutBlock(bs, d, t, u) ==
  /\ SameCode(bs[u], d)
  /\ d.invalid = (bs[u].invalid \/ u = t)
  /\ \A n \in 1 .. 2 : d.dest[n] =
       IF u # t /\ Has(bs[t].jmp_list, <<u, n>>) THEN None ELSE bs[u].dest[n]
  /\ u = t => d.jmp_list = <<>>
  /\ u # t => /\ Distinct(bs[u].jmp_list) => Distinct(d.jmp_list)
              /\ \A j : Has(d.jmp_list, j) <=> Has(bs[u].jmp_list, j) /\ j \notin JumpsTo(bs, t, u)

(* Block d is block b, which is u, marked if it is t. *)
MarkedAs(b, d, t, u) ==
  /\ SameCode(b, d) /\ d.invalid = (b.invalid \/ u = t)
  /\ d.dest = b.dest /\ d.jmp_list = b.jmp_list

(* The blocks when t has only been marked. *)
LEMMA InvalidIs ==
  ASSUME NEW bs \in Seq(Block), NEW t \in DOMAIN bs
  PROVE  /\ SetInvalid(bs, t) \in Seq(Block) /\ DOMAIN SetInvalid(bs, t) = DOMAIN bs
         /\ \A u \in DOMAIN bs : MarkedAs(bs[u], SetInvalid(bs, t)[u], t, u)
<1> DEFINE b == [bs[t] EXCEPT !.invalid = TRUE]
           new == SetInvalid(bs, t)
<1>1. \A u \in DOMAIN bs : bs[u] \in Block /\ bs[u].invalid \in BOOLEAN
  <2>1. \A u \in DOMAIN bs : bs[u] \in Block
    OBVIOUS
  <2> QED BY <2>1, BlockTypes, Zenon
<1>2. /\ b \in Block /\ SameCode(bs[t], b) /\ b.invalid = TRUE /\ b.dest = bs[t].dest
      /\ b.jmp_list = bs[t].jmp_list
  BY <1>1, InvalidFields, Zenon
<1>3. new = [bs EXCEPT ![t] = b]
  BY DEF SetInvalid
<1> HIDE DEF b, new
<1>4. /\ new \in Seq(Block) /\ DOMAIN new = DOMAIN bs
      /\ \A u \in DOMAIN bs : new[u] = IF u = t THEN b ELSE bs[u]
  BY <1>2, <1>3
<1>5. ASSUME NEW u \in DOMAIN bs
      PROVE  MarkedAs(bs[u], new[u], t, u)
  <2>1. CASE u = t
    <3>1. new[u] = b /\ bs[u] = bs[t]
      BY <2>1, <1>4, Zenon
    <3> QED BY <2>1, <3>1, <1>2, Zenon DEF MarkedAs
  <2>2. CASE u # t
    <3>1. new[u] = bs[u]
      BY <2>2, <1>4, Zenon
    <3>2. bs[u].invalid = (bs[u].invalid \/ u = t)
      BY <2>2, <1>1, Zenon
    <3> QED BY <3>1, <3>2, Zenon DEF SameCode, MarkedAs
  <2> QED BY <2>1, <2>2, Zenon
<1> QED BY <1>4, <1>5, Zenon DEF new

(* do_tb_phys_invalidate on the blocks: jumps to t are cut, jumps out of t leave
   the lists they are in, and are not cut themselves. *)
LEMMA CutIs ==
  ASSUME NEW bs, NEW ht, BlocksOK(bs), ChainsOK(bs, ht), NEW t \in ht, ht \subseteq DOMAIN bs
  PROVE  /\ Cut(bs, t) \in Seq(Block) /\ DOMAIN Cut(bs, t) = DOMAIN bs
         /\ \A u \in DOMAIN bs : CutBlock(bs, Cut(bs, t)[u], t, u)
<1> DEFINE bs0 == SetInvalid(bs, t)
           bs1 == tb_remove_from_jmp_list(bs0, t, 1)
           bs2 == tb_remove_from_jmp_list(bs1, t, 2)
           new == tb_jmp_unlink(bs2, t)
           list == bs2[t].jmp_list
<1>1. bs \in Seq(Block) /\ t \in DOMAIN bs
  BY Zenon DEF BlocksOK
<1>2. \A n \in 1 .. 2 : bs[t].dest[n] # None =>
        bs[t].dest[n] \in DOMAIN bs /\ Distinct(bs[bs[t].dest[n]].jmp_list)
  BY Zenon DEF ChainsOK
<1>3. 1 \in 1 .. 2 /\ 2 \in 1 .. 2
  OBVIOUS
<1>4. /\ bs0 \in Seq(Block) /\ DOMAIN bs0 = DOMAIN bs
      /\ \A u \in DOMAIN bs : MarkedAs(bs[u], bs0[u], t, u)
  BY <1>1, InvalidIs, Zenon
<1> HIDE DEF bs0
<1>5. /\ bs1 \in Seq(Block) /\ DOMAIN bs1 = DOMAIN bs
      /\ \A u \in DOMAIN bs : LessJumps(bs0[u], bs1[u], JumpTo(bs, t, 1, u))
  <2>1. bs0[t].dest = bs[t].dest /\ t \in DOMAIN bs0
    BY <1>1, <1>4, Zenon DEF MarkedAs
  <2>2. bs[t].dest[1] # None => bs[t].dest[1] \in DOMAIN bs0
                                /\ Distinct(bs0[bs[t].dest[1]].jmp_list)
    BY <1>2, <1>3, <1>4, Zenon DEF MarkedAs
  <2>3. bs0[t].dest[1] # None => bs0[t].dest[1] \in DOMAIN bs0
                                /\ Distinct(bs0[bs0[t].dest[1]].jmp_list)
    BY <2>1, <2>2, Zenon
  <2>4. /\ bs1 \in Seq(Block) /\ DOMAIN bs1 = DOMAIN bs0
        /\ \A u \in DOMAIN bs0 : LessJumps(bs0[u], bs1[u], JumpTo(bs0, t, 1, u))
    BY <1>3, <1>4, <2>1, <2>3, JumpRemoved, Zenon
  <2>5. \A u : JumpTo(bs0, t, 1, u) = JumpTo(bs, t, 1, u)
    BY <2>1, Zenon DEF JumpTo
  <2> HIDE DEF bs1
  <2> QED BY <1>4, <2>4, <2>5, Zenon
<1> HIDE DEF bs1
<1>6. /\ bs2 \in Seq(Block) /\ DOMAIN bs2 = DOMAIN bs
      /\ \A u \in DOMAIN bs : LessJumps(bs0[u], bs2[u], JumpsTo(bs, t, u))
  <2>1. bs1[t].dest = bs[t].dest /\ t \in DOMAIN bs1
    BY <1>1, <1>4, <1>5, Zenon DEF LessJumps, MarkedAs
  <2>2. \A u \in DOMAIN bs : Distinct(bs[u].jmp_list) => Distinct(bs1[u].jmp_list)
    BY <1>4, <1>5, Zenon DEF LessJumps, MarkedAs
  <2>3. bs1[t].dest[2] # None => bs1[t].dest[2] \in DOMAIN bs1
                                /\ Distinct(bs1[bs1[t].dest[2]].jmp_list)
    BY <1>2, <1>3, <1>5, <2>1, <2>2, Zenon
  <2>4. /\ bs2 \in Seq(Block) /\ DOMAIN bs2 = DOMAIN bs1
        /\ \A u \in DOMAIN bs1 : LessJumps(bs1[u], bs2[u], JumpTo(bs1, t, 2, u))
    BY <1>3, <1>5, <2>1, <2>3, JumpRemoved, Zenon
  <2>5. \A u : JumpTo(bs1, t, 2, u) = JumpTo(bs, t, 2, u)
    BY <2>1, Zenon DEF JumpTo
  <2> HIDE DEF bs2
  <2>6. ASSUME NEW u \in DOMAIN bs PROVE LessJumps(bs0[u], bs2[u], JumpsTo(bs, t, u))
    <3>1. LessJumps(bs0[u], bs1[u], JumpTo(bs, t, 1, u))
      BY <1>5, Zenon
    <3>2. LessJumps(bs1[u], bs2[u], JumpTo(bs, t, 2, u))
      BY <1>5, <2>4, <2>5, Zenon
    <3> QED BY <3>1, <3>2, LessJumpsTrans, Zenon DEF JumpsTo
  <2> QED BY <1>5, <2>4, <2>6, Zenon
<1> HIDE DEF bs2
<1>7. /\ new \in Seq(Block) /\ DOMAIN new = DOMAIN bs
      /\ \A u \in DOMAIN bs : LessDest(bs2[u], new[u], u, t, list)
  <2>1. t \in DOMAIN bs2 /\ bs2 \in Seq(Block)
    BY <1>1, <1>6, Zenon
  <2>2. new = Unlinked(bs2, t, list)
    BY Zenon DEF tb_jmp_unlink
  <2> HIDE DEF list, new
  <2>3. /\ new \in Seq(Block) /\ DOMAIN new = DOMAIN bs2
        /\ \A u \in DOMAIN bs2 : LessDest(bs2[u], new[u], u, t, list)
    BY <2>1, <2>2, UnlinkedIs, Zenon
  <2> QED BY <2>3, <1>6, Zenon
<1>8. Cut(bs, t) = new
  BY DEF Cut, bs0, bs1, bs2
<1> HIDE DEF new
<1>9. \A j : Has(list, j) <=> Has(bs[t].jmp_list, j) /\ j \notin JumpsTo(bs, t, t)
  BY <1>1, <1>4, <1>6, Zenon DEF LessJumps, MarkedAs
<1> HIDE DEF list
<1>10. ASSUME NEW u \in DOMAIN bs, NEW n \in 1 .. 2
       PROVE  Has(list, <<u, n>>) <=> u # t /\ Has(bs[t].jmp_list, <<u, n>>)
  <2>1. CASE u = t
    <3>1. <<t, n>>[1] = t /\ <<t, n>>[2] = n
      OBVIOUS
    <3>2. Has(bs[t].jmp_list, <<t, n>>) => bs[t].dest[n] = t
      <4>1. ASSUME NEW i \in DOMAIN bs[t].jmp_list, bs[t].jmp_list[i] = <<t, n>>
            PROVE  bs[t].dest[n] = t
        <5>1. bs[bs[t].jmp_list[i][1]].dest[bs[t].jmp_list[i][2]] = t
          BY Zenon DEF ChainsOK
        <5> QED BY <5>1, <3>1, <4>1, Zenon
      <4> QED BY <4>1, Zenon DEF Has
    <3>3. bs[t].dest[n] = t => <<t, n>> \in JumpsTo(bs, t, t)
      BY DEF JumpsTo, JumpTo
    <3> QED BY <1>9, <2>1, <3>2, <3>3, Zenon
  <2>2. CASE u # t
    <3>1. <<u, n>> \notin JumpsTo(bs, t, t)
      BY <2>2 DEF JumpsTo, JumpTo
    <3> QED BY <1>9, <2>2, <3>1, Zenon
  <2> QED BY <2>1, <2>2, Zenon
<1>11. ASSUME NEW u \in DOMAIN bs PROVE CutBlock(bs, new[u], t, u)
  <2>1. /\ SameCode(bs0[u], bs2[u]) /\ bs2[u].invalid = bs0[u].invalid
        /\ bs2[u].dest = bs0[u].dest
        /\ Distinct(bs0[u].jmp_list) => Distinct(bs2[u].jmp_list)
        /\ \A j : Has(bs2[u].jmp_list, j) <=>
             Has(bs0[u].jmp_list, j) /\ j \notin JumpsTo(bs, t, u)
    BY <1>6, Zenon DEF LessJumps
  <2>2. /\ SameCode(bs2[u], new[u]) /\ new[u].invalid = bs2[u].invalid
        /\ \A n \in 1 .. 2 :
             new[u].dest[n] = IF Has(list, <<u, n>>) THEN None ELSE bs2[u].dest[n]
        /\ new[u].jmp_list = IF u = t THEN <<>> ELSE bs2[u].jmp_list
    BY <1>7, Zenon DEF LessDest
  <2>3. /\ SameCode(bs[u], bs0[u]) /\ bs0[u].invalid = (bs[u].invalid \/ u = t)
        /\ bs0[u].dest = bs[u].dest /\ bs0[u].jmp_list = bs[u].jmp_list
    BY <1>4, Zenon DEF MarkedAs
  <2>4. SameCode(bs[u], new[u])
    <3>1. SameCode(bs[u], bs2[u])
      BY <2>1, <2>3, SameCodeTrans, Zenon
    <3> QED BY <2>2, <3>1, SameCodeTrans, Zenon
  <2>5. new[u].invalid = (bs[u].invalid \/ u = t)
    BY <2>1, <2>2, <2>3, Zenon
  <2>6. bs2[u].dest = bs[u].dest
    BY <2>1, <2>3, Zenon
  <2>7. \A n \in 1 .. 2 : new[u].dest[n] =
          IF u # t /\ Has(bs[t].jmp_list, <<u, n>>) THEN None ELSE bs[u].dest[n]
    <3> SUFFICES ASSUME NEW n \in 1 .. 2
                 PROVE  new[u].dest[n] = IF u # t /\ Has(bs[t].jmp_list, <<u, n>>) THEN None
                                         ELSE bs[u].dest[n]
      BY Zenon
    <3>1. new[u].dest[n] = IF Has(list, <<u, n>>) THEN None ELSE bs[u].dest[n]
      BY <2>2, <2>6, Zenon
    <3> QED BY <3>1, <1>10, Zenon
  <2>8. u = t => new[u].jmp_list = <<>>
    BY <2>2, Zenon
  <2>9. u # t => new[u].jmp_list = bs2[u].jmp_list
    BY <2>2, Zenon
  <2>10. u # t => /\ Distinct(bs[u].jmp_list) => Distinct(new[u].jmp_list)
                  /\ \A j : Has(new[u].jmp_list, j) <=>
                       Has(bs[u].jmp_list, j) /\ j \notin JumpsTo(bs, t, u)
    BY <2>1, <2>3, <2>9, Zenon
  <2> QED BY <2>4, <2>5, <2>7, <2>8, <2>10, Zenon DEF CutBlock
<1> QED BY <1>7, <1>8, <1>11, Zenon

(* The blocks of new are those of bs, and the valid ones, ht, are valid but t. *)
ValidBut(bs, new, ht, t) ==
  /\ BlocksOK(new) /\ ChainsOK(new, ht \ {t}) /\ Valid(new) = ht \ {t}
  /\ DOMAIN new = DOMAIN bs
  /\ \A u \in DOMAIN bs : SameCode(bs[u], new[u])

(* A chain is cut at t on both sides. *)
LEMMA CutChains ==
  ASSUME NEW bs, NEW ht, BlocksOK(bs), ChainsOK(bs, ht), NEW t \in ht, ht = Valid(bs)
  PROVE  ValidBut(bs, Cut(bs, t), ht, t)
<1> DEFINE new == Cut(bs, t)
<1>1. ht \subseteq DOMAIN bs /\ t \in DOMAIN bs /\ bs \in Seq(Block)
  BY Zenon DEF Valid, BlocksOK
<1>2. /\ new \in Seq(Block) /\ DOMAIN new = DOMAIN bs
      /\ \A u \in DOMAIN bs : CutBlock(bs, new[u], t, u)
  BY <1>1, CutIs, Zenon
<1> HIDE DEF new
<1>3. \A u \in DOMAIN bs : SameCode(bs[u], new[u])
  BY <1>2, Zenon DEF CutBlock
<1>4. Valid(new) = ht \ {t}
  <2>1. \A u \in DOMAIN bs : new[u].invalid = (bs[u].invalid \/ u = t)
    BY <1>2, Zenon DEF CutBlock
  <2> QED BY <2>1, <1>2, Zenon DEF Valid
<1>5. \A u \in DOMAIN bs, n \in 1 .. 2 :
        new[u].dest[n] # None => new[u].dest[n] = bs[u].dest[n]
  BY <1>2, Zenon DEF CutBlock
<1>6. \A u \in DOMAIN bs : \A j : Has(new[u].jmp_list, j) => Has(bs[u].jmp_list, j) /\ u # t
  <2> SUFFICES ASSUME NEW u \in DOMAIN bs, NEW j, Has(new[u].jmp_list, j)
               PROVE  Has(bs[u].jmp_list, j) /\ u # t
    BY Zenon
  <2>1. u # t
    <3>1. ~Has(<<>>, j)
      BY DEF Has
    <3> QED BY <3>1, <1>2, Zenon DEF CutBlock
  <2> QED BY <2>1, <1>2, Zenon DEF CutBlock
<1>7. BlocksOK(new)
  <2> SUFFICES ASSUME NEW u \in DOMAIN bs
               PROVE  /\ Shape(new[u])
                      /\ \A n \in 1 .. 2 : new[u].dest[n] # None =>
                           /\ new[u].dest[n] \in DOMAIN bs
                           /\ new[new[u].dest[n]].pc = Target(new[u], n)
                      /\ \A i \in DOMAIN new[u].jmp_list : new[u].jmp_list[i][1] \in DOMAIN bs
    BY <1>2, Zenon DEF BlocksOK
  <2>1. Shape(new[u])
    <3>1. Shape(bs[u])
      BY Zenon DEF BlocksOK
    <3>2. SameCode(bs[u], new[u])
      BY <1>3, Zenon
    <3> QED BY <3>1, <3>2, Zenon DEF Shape, SameCode
  <2>2. ASSUME NEW n \in 1 .. 2, new[u].dest[n] # None
        PROVE  new[u].dest[n] \in DOMAIN bs /\ new[new[u].dest[n]].pc = Target(new[u], n)
    <3>1. new[u].dest[n] = bs[u].dest[n] /\ bs[u].dest[n] # None
      BY <1>5, <2>2, Zenon
    <3>2. bs[u].dest[n] \in DOMAIN bs /\ bs[bs[u].dest[n]].pc = Target(bs[u], n)
      BY <3>1, Zenon DEF BlocksOK
    <3>3. new[bs[u].dest[n]].pc = bs[bs[u].dest[n]].pc /\ new[u].end = bs[u].end
      BY <3>2, <1>3, Zenon DEF SameCode
    <3> QED BY <3>1, <3>2, <3>3, Zenon DEF Target
  <2>3. ASSUME NEW i \in DOMAIN new[u].jmp_list PROVE new[u].jmp_list[i][1] \in DOMAIN bs
    <3> DEFINE j == new[u].jmp_list[i]
    <3>1. Has(new[u].jmp_list, j)
      BY Zenon DEF Has
    <3> HIDE DEF j
    <3>2. Has(bs[u].jmp_list, j)
      BY <3>1, <1>6, Zenon
    <3>3. j[1] \in DOMAIN bs
      BY <3>2, Zenon DEF Has, BlocksOK
    <3> QED BY <3>3 DEF j
  <2> QED BY <2>1, <2>2, <2>3, Zenon
<1>8. ChainsOK(new, ht \ {t})
  <2> SUFFICES ASSUME NEW u \in ht \ {t}
               PROVE  /\ \A n \in 1 .. 2 : new[u].dest[n] # None =>
                           /\ new[u].dest[n] \in ht \ {t}
                           /\ new[new[u].dest[n]].page2 = NoPage
                           /\ Has(new[new[u].dest[n]].jmp_list, <<u, n>>)
                      /\ \A i \in DOMAIN new[u].jmp_list :
                           /\ new[u].jmp_list[i][1] \in ht \ {t}
                           /\ new[new[u].jmp_list[i][1]].dest[new[u].jmp_list[i][2]] = u
                      /\ Distinct(new[u].jmp_list)
    BY Zenon DEF ChainsOK
  <2>1. u \in ht /\ u # t /\ u \in DOMAIN bs /\ CutBlock(bs, new[u], t, u)
    BY <1>1, <1>2, Zenon
  <2>2. ASSUME NEW n \in 1 .. 2, new[u].dest[n] # None
        PROVE  /\ new[u].dest[n] \in ht \ {t}
               /\ new[new[u].dest[n]].page2 = NoPage
               /\ Has(new[new[u].dest[n]].jmp_list, <<u, n>>)
    <3> DEFINE d == bs[u].dest[n]
    <3>1. new[u].dest[n] = d /\ d # None /\ ~Has(bs[t].jmp_list, <<u, n>>)
      BY <2>1, <2>2, Zenon DEF CutBlock
    <3>2. d \in ht /\ bs[d].page2 = NoPage /\ Has(bs[d].jmp_list, <<u, n>>)
      BY <2>1, <3>1, Zenon DEF ChainsOK
    <3> HIDE DEF d
    <3>3. d # t
      BY <3>1, <3>2, Zenon
    <3>4. d \in DOMAIN bs /\ CutBlock(bs, new[d], t, d) /\ SameCode(bs[d], new[d])
      BY <1>1, <1>2, <1>3, <3>2, Zenon
    <3>5. <<u, n>> \notin JumpsTo(bs, t, d)
      BY <2>1 DEF JumpsTo, JumpTo
    <3>6. Has(new[d].jmp_list, <<u, n>>)
      BY <3>2, <3>3, <3>4, <3>5, Zenon DEF CutBlock
    <3>7. new[d].page2 = NoPage
      BY <3>2, <3>4, Zenon DEF SameCode
    <3> QED BY <3>1, <3>2, <3>3, <3>6, <3>7, Zenon
  <2>3. ASSUME NEW i \in DOMAIN new[u].jmp_list
        PROVE  /\ new[u].jmp_list[i][1] \in ht \ {t}
               /\ new[new[u].jmp_list[i][1]].dest[new[u].jmp_list[i][2]] = u
    <3> DEFINE j == new[u].jmp_list[i]
    <3>1. Has(new[u].jmp_list, j)
      BY Zenon DEF Has
    <3>2. j \in Jumps
      <4>1. new[u] \in Block
        BY <1>2, <2>1
      <4>2. new[u].jmp_list \in Seq(Jumps)
        BY <4>1, BlockTypes, Zenon
      <4> QED BY <4>2
    <3> HIDE DEF j
    <3>3. Has(bs[u].jmp_list, j) /\ j \notin JumpsTo(bs, t, u)
      BY <3>1, <2>1, Zenon DEF CutBlock
    <3>4. j[1] \in ht /\ bs[j[1]].dest[j[2]] = u
      <4>1. PICK k \in DOMAIN bs[u].jmp_list : bs[u].jmp_list[k] = j
        BY <3>3, Zenon DEF Has
      <4>2. /\ bs[u].jmp_list[k][1] \in ht
            /\ bs[bs[u].jmp_list[k][1]].dest[bs[u].jmp_list[k][2]] = u
        BY <2>1, Zenon DEF ChainsOK
      <4> QED BY <4>1, <4>2, Zenon
    <3>5. j = <<j[1], j[2]>> /\ j[2] \in 1 .. 2
      BY <3>2 DEF Jumps
    <3>6. j[1] # t
      <4> SUFFICES ASSUME j[1] = t PROVE j \in JumpsTo(bs, t, u)
        BY <3>3, Zenon
      <4>1. j = <<t, 1>> \/ j = <<t, 2>>
        BY <3>5
      <4> QED BY <4>1, <3>4, <3>5 DEF JumpsTo, JumpTo
    <3>7. ~Has(bs[t].jmp_list, <<j[1], j[2]>>)
      <4> SUFFICES ASSUME Has(bs[t].jmp_list, j) PROVE FALSE
        BY <3>5, Zenon
      <4>1. bs[j[1]].dest[j[2]] = t
        BY Zenon DEF Has, ChainsOK
      <4> QED BY <4>1, <3>4, <2>1, Zenon
    <3>8. j[1] \in DOMAIN bs /\ CutBlock(bs, new[j[1]], t, j[1])
      BY <1>1, <1>2, <3>4, Zenon
    <3>9. new[j[1]].dest[j[2]] = bs[j[1]].dest[j[2]]
      BY <3>5, <3>7, <3>8, Zenon DEF CutBlock
    <3>10. j[1] \in ht \ {t} /\ new[j[1]].dest[j[2]] = u
      BY <3>4, <3>6, <3>9, Zenon
    <3> QED BY <3>10 DEF j
  <2>4. Distinct(new[u].jmp_list)
    BY <2>1, Zenon DEF ChainsOK, CutBlock
  <2> QED BY <2>2, <2>3, <2>4, Zenon
<1> QED BY <1>2, <1>3, <1>4, <1>7, <1>8, Zenon DEF new, ValidBut

-----------------------------------------------------------------------------
(* What an invalidation leaves of the cache *)

(* The page e is the page d without block t and without a bitmap. *)
Lost(d, e, t) ==
  /\ Distinct(e.first_tb) /\ e.bitmap = NoBitmap /\ e.count = 0
  /\ \A u : Has(e.first_tb, u) <=> Has(d.first_tb, u) /\ u # t

(* The pages of P have lost t, and the others are as they were. *)
TakenFrom(ds, new, t, P) ==
  /\ new \in [PageIds -> Desc]
  /\ \A q \in PageIds : IF q \in P THEN Lost(ds[q], new[q], t) ELSE new[q] = ds[q]

(* The parts of a page. *)
LEMMA DescParts ==
  ASSUME NEW d \in Desc
  PROVE  d.first_tb \in Seq(Nat) /\ d.bitmap \in SUBSET Int /\ d.count \in Nat
  BY Zenon DEF Desc

(* A page with another list, and no bitmap. *)
LEMMA DescWith ==
  ASSUME NEW d, NEW list \in Seq(Nat)
  PROVE  /\ invalidate_page_bitmap(SetList(d, list)) \in Desc
         /\ invalidate_page_bitmap(SetList(d, list)).first_tb = list
         /\ invalidate_page_bitmap(SetList(d, list)).bitmap = NoBitmap
         /\ invalidate_page_bitmap(SetList(d, list)).count = 0
<1> DEFINE e == [first_tb |-> list, bitmap |-> NoBitmap, count |-> 0]
<1>1. invalidate_page_bitmap(SetList(d, list)) = e
  BY DEF invalidate_page_bitmap, SetList
<1>2. NoBitmap \in SUBSET Int /\ 0 \in Nat
  BY DEF NoBitmap
<1>3. e \in Desc /\ e.first_tb = list /\ e.bitmap = NoBitmap /\ e.count = 0
  BY <1>2, Zenon DEF Desc
<1> QED BY <1>1, <1>3, Zenon

(* tb_page_remove on one page. *)
LEMMA PageRemoved ==
  ASSUME NEW ds \in [PageIds -> Desc], \A q \in PageIds : Distinct(ds[q].first_tb),
         NEW t, NEW p \in PageIds \cup {NoPage}
  PROVE  TakenFrom(ds, tb_page_remove(ds, t, p), t, {p})
<1>0. NoPage \notin PageIds
  BY DEF NoPage, PageIds
<1> DEFINE new == tb_page_remove(ds, t, p)
<1>1. CASE p = NoPage
  <2>1. new = ds
    BY <1>1, Zenon DEF tb_page_remove
  <2>2. \A q \in PageIds : q \notin {p}
    BY <1>0, <1>1, Zenon
  <2> HIDE DEF new
  <2>3. TakenFrom(ds, new, t, {p})
    BY <2>1, <2>2, Zenon DEF TakenFrom
  <2> QED BY <2>3 DEF new
<1>2. CASE p \in PageIds
  <2> DEFINE list == Remove(ds[p].first_tb, t)
             e == invalidate_page_bitmap(SetList(ds[p], list))
  <2>1. new = [ds EXCEPT ![p] = e]
    BY <1>0, <1>2, Zenon DEF tb_page_remove
  <2>2. ds[p] \in Desc /\ ds[p].first_tb \in Seq(Nat) /\ Distinct(ds[p].first_tb)
    BY <1>2, DescParts, Zenon
  <2>3. /\ list \in Seq(Nat) /\ Distinct(list)
        /\ \A u : Has(list, u) <=> Has(ds[p].first_tb, u) /\ u # t
    BY <2>2, RemoveKeeps, Zenon
  <2> HIDE DEF list
  <2>4. e \in Desc /\ e.first_tb = list /\ e.bitmap = NoBitmap /\ e.count = 0
    BY <2>3, DescWith, Zenon
  <2> HIDE DEF e, new
  <2>5. Lost(ds[p], e, t)
    BY <2>3, <2>4, Zenon DEF Lost
  <2>6. /\ new \in [PageIds -> Desc]
        /\ \A q \in PageIds : new[q] = IF q = p THEN e ELSE ds[q]
    BY <1>2, <2>1, <2>4
  <2>7. TakenFrom(ds, new, t, {p})
    BY <2>5, <2>6, Zenon DEF TakenFrom
  <2> QED BY <2>7 DEF new
<1> QED BY <1>1, <1>2, Zenon

(* Both tb_page_remove of an invalidation. *)
LEMMA PagesRemoved ==
  ASSUME NEW ds \in [PageIds -> Desc], \A q \in PageIds : Distinct(ds[q].first_tb),
         NEW t, NEW p \in PageIds \cup {NoPage}, NEW r \in PageIds \cup {NoPage}
  PROVE  TakenFrom(ds, tb_page_remove(tb_page_remove(ds, t, p), t, r), t, {p, r})
<1> DEFINE ds1 == tb_page_remove(ds, t, p)
           new == tb_page_remove(ds1, t, r)
<1>1. TakenFrom(ds, ds1, t, {p})
  BY PageRemoved, Zenon
<1> HIDE DEF ds1
<1>2. ds1 \in [PageIds -> Desc] /\ \A q \in PageIds : Distinct(ds1[q].first_tb)
  BY <1>1, Zenon DEF TakenFrom, Lost
<1>3. TakenFrom(ds1, new, t, {r})
  BY <1>2, PageRemoved, Zenon
<1> HIDE DEF new
<1>4. ASSUME NEW q \in PageIds
      PROVE  IF q \in {p, r} THEN Lost(ds[q], new[q], t) ELSE new[q] = ds[q]
  <2>1. IF q = p THEN Lost(ds[q], ds1[q], t) ELSE ds1[q] = ds[q]
    BY <1>1, Zenon DEF TakenFrom
  <2>2. IF q = r THEN Lost(ds1[q], new[q], t) ELSE new[q] = ds1[q]
    BY <1>3, Zenon DEF TakenFrom
  <2>3. CASE q = r
    <3>1. Lost(ds1[q], new[q], t)
      BY <2>2, <2>3, Zenon
    <3>2. \A u : Has(ds1[q].first_tb, u) /\ u # t <=> Has(ds[q].first_tb, u) /\ u # t
      BY <2>1, Zenon DEF Lost
    <3>3. Lost(ds[q], new[q], t)
      BY <3>1, <3>2, Zenon DEF Lost
    <3> QED BY <2>3, <3>3, Zenon
  <2>4. CASE q # r
    BY <2>1, <2>2, <2>4, Zenon
  <2> QED BY <2>3, <2>4, Zenon
<1>5. TakenFrom(ds, new, t, {p, r})
  BY <1>3, <1>4, Zenon DEF TakenFrom
<1> QED BY <1>5 DEF new, ds1

(* The lists and bitmaps without t, when the blocks have kept their code. *)
LEMMA PagesWithout ==
  ASSUME NEW bs, NEW ht, NEW ds, NEW new, NEW bn, NEW t, PagesOK(bs, ht, ds),
         TakenFrom(ds, new, t, {Page(bs[t].pc), bs[t].page2}),
         DOMAIN bn = DOMAIN bs, \A u \in DOMAIN bs : SameCode(bs[u], bn[u]),
         ht \subseteq DOMAIN bs
  PROVE  PagesOK(bn, ht \ {t}, new)
<1>1. new \in [PageIds -> Desc]
  BY Zenon DEF TakenFrom
<1>2. ASSUME NEW q \in PageIds PROVE PageOK(bn, ht \ {t}, new[q], q)
  <2>1. PageOK(bs, ht, ds[q], q)
    BY Zenon DEF PagesOK
  <2>2. \A u \in DOMAIN bs : OnPage(bn[u], q) <=> OnPage(bs[u], q)
    BY Zenon DEF OnPage, SameCode
  <2>3. \A u \in DOMAIN bs : \A a : Covers(bn[u], a) <=> Covers(bs[u], a)
    BY Zenon DEF Covers, SameCode
  <2>4. CASE q \in {Page(bs[t].pc), bs[t].page2}
    <3>1. Lost(ds[q], new[q], t)
      BY <2>4, Zenon DEF TakenFrom
    <3>2. ASSUME NEW i \in DOMAIN new[q].first_tb PROVE new[q].first_tb[i] \in DOMAIN bn
      <4>1. Has(new[q].first_tb, new[q].first_tb[i])
        BY Zenon DEF Has
      <4>2. Has(ds[q].first_tb, new[q].first_tb[i])
        BY <4>1, <3>1, Zenon DEF Lost
      <4> QED BY <4>2, <2>1, Zenon DEF Has, PageOK
    <3>3. ASSUME NEW u \in DOMAIN bn
          PROVE  Has(new[q].first_tb, u) <=> u \in ht \ {t} /\ OnPage(bn[u], q)
      BY <3>1, <2>1, <2>2, Zenon DEF Lost, PageOK
    <3>4. 0 <= SMC_BITMAP_USE_THRESHOLD /\ 0 < SMC_BITMAP_USE_THRESHOLD
      BY TbConstants
    <3> QED BY <3>1, <3>2, <3>3, <3>4, Zenon DEF Lost, PageOK
  <2>5. CASE q \notin {Page(bs[t].pc), bs[t].page2}
    <3>1. new[q] = ds[q]
      BY <2>5, Zenon DEF TakenFrom
    <3>2. ~OnPage(bs[t], q)
      BY <2>5, Zenon DEF OnPage
    <3>3. ASSUME NEW u \in DOMAIN bn
          PROVE  Has(new[q].first_tb, u) <=> u \in ht \ {t} /\ OnPage(bn[u], q)
      BY <3>1, <3>2, <2>1, <2>2, Zenon DEF PageOK
    <3>4. new[q].bitmap # NoBitmap =>
            \A u \in ht \ {t}, a \in Addr : Page(a) = q /\ Covers(bn[u], a) => a \in new[q].bitmap
      BY <3>1, <2>1, <2>3, Zenon DEF PageOK
    <3> QED BY <3>1, <3>3, <3>4, <2>1, Zenon DEF PageOK
  <2> QED BY <2>4, <2>5, Zenon
<1> QED BY <1>1, <1>2, Zenon DEF PagesOK

(* The cache e is the cache c after some invalidations. *)
Less(c, e) ==
  /\ CacheOK(e) /\ DOMAIN e.tbs = DOMAIN c.tbs /\ e.htable \subseteq c.htable
  /\ \A u \in DOMAIN c.tbs : SameCode(c.tbs[u], e.tbs[u])

(* No invalidation at all. *)
LEMMA LessRefl ==
  ASSUME NEW c, CacheOK(c)
  PROVE  Less(c, c)
  BY Zenon DEF Less, SameCode

(* Losing blocks twice loses blocks. *)
LEMMA LessTrans ==
  ASSUME NEW c, NEW d, NEW e, Less(c, d), Less(d, e)
  PROVE  Less(c, e)
<1>1. \A u \in DOMAIN c.tbs : SameCode(c.tbs[u], e.tbs[u])
  BY SameCodeTrans, Zenon DEF Less
<1> QED BY <1>1, Zenon DEF Less

(* do_tb_phys_invalidate keeps the cache consistent, and t is gone. *)
LEMMA InvalidateStep ==
  ASSUME NEW c, CacheOK(c), NEW t
  PROVE  Less(c, do_tb_phys_invalidate(c, t)) /\ t \notin do_tb_phys_invalidate(c, t).htable
<1>1. CASE t \notin c.htable
  <2>1. do_tb_phys_invalidate(c, t) = c
    BY <1>1, Zenon DEF do_tb_phys_invalidate
  <2> QED BY <1>1, <2>1, LessRefl, Zenon
<1>2. CASE t \in c.htable
  <2> DEFINE b == c.tbs[t]
             bs == Cut(c.tbs, t)
             jc == [c.jmp_cache EXCEPT ![b.pc] = IF c.jmp_cache[b.pc] = t THEN None
                                                 ELSE c.jmp_cache[b.pc]]
             ds == tb_page_remove(tb_page_remove(c.pages, t, Page(b.pc)), t, b.page2)
             e == do_tb_phys_invalidate(c, t)
  <2>1. e = [tbs |-> bs, htable |-> c.htable \ {t}, jmp_cache |-> jc, pages |-> ds]
    BY <1>2, Zenon DEF do_tb_phys_invalidate, Cut
  <2>2. /\ BlocksOK(c.tbs) /\ c.htable = Valid(c.tbs) /\ ChainsOK(c.tbs, c.htable)
        /\ PagesOK(c.tbs, c.htable, c.pages) /\ FoundOK(c.tbs, c.jmp_cache)
    BY Zenon DEF CacheOK
  <2>3. /\ BlocksOK(bs) /\ ChainsOK(bs, c.htable \ {t}) /\ Valid(bs) = c.htable \ {t}
        /\ DOMAIN bs = DOMAIN c.tbs
        /\ \A u \in DOMAIN c.tbs : SameCode(c.tbs[u], bs[u])
    <3>1. ValidBut(c.tbs, bs, c.htable, t)
      BY <1>2, <2>2, CutChains, Zenon
    <3> HIDE DEF bs
    <3> QED BY <3>1, Zenon DEF ValidBut
  <2> HIDE DEF bs
  <2>4. b \in Block /\ t \in DOMAIN c.tbs /\ c.htable \subseteq DOMAIN c.tbs
    <3>1. t \in DOMAIN c.tbs /\ c.htable \subseteq DOMAIN c.tbs
      BY <1>2, <2>2, Zenon DEF Valid
    <3>2. c.tbs \in Seq(Block)
      BY <2>2, Zenon DEF BlocksOK
    <3> QED BY <3>1, <3>2
  <2>5. Page(b.pc) \in PageIds /\ b.page2 \in PageIds \cup {NoPage} /\ b.pc \in Addr
    <3>1. b.pc \in Addr /\ b.page2 \in PageIds \cup {NoPage}
      BY <2>4, Zenon DEF Block
    <3>2. b.pc \in Int
      BY <3>1, TbConstants
    <3> QED BY <3>1, <3>2, AddrPage, Zenon
  <2>6. TakenFrom(c.pages, ds, t, {Page(b.pc), b.page2})
    <3>1. c.pages \in [PageIds -> Desc] /\ \A q \in PageIds : Distinct(c.pages[q].first_tb)
      BY <2>2, Zenon DEF PagesOK, PageOK
    <3> HIDE DEF b
    <3> QED BY <3>1, <2>5, PagesRemoved, Zenon
  <2> HIDE DEF ds
  <2>7. PagesOK(bs, c.htable \ {t}, ds)
    BY <2>2, <2>3, <2>4, <2>6, PagesWithout, Zenon
  <2>8. FoundOK(bs, jc)
    <3>1. c.jmp_cache \in [Addr -> Nat]
      BY <2>2, Zenon DEF FoundOK
    <3>2. 0 \in Nat /\ None = 0
      BY DEF None
    <3>3. jc \in [Addr -> Nat]
      BY <2>5, <3>1, <3>2
    <3>4. \A a \in Addr : jc[a] # None => jc[a] = c.jmp_cache[a]
      BY <2>5, <3>1, Zenon
    <3> HIDE DEF jc
    <3>5. ASSUME NEW a \in Addr, jc[a] # None PROVE jc[a] \in DOMAIN bs /\ bs[jc[a]].pc = a
      <4>1. jc[a] = c.jmp_cache[a] /\ c.jmp_cache[a] # None
        BY <3>4, <3>5, Zenon
      <4>2. c.jmp_cache[a] \in DOMAIN c.tbs /\ c.tbs[c.jmp_cache[a]].pc = a
        BY <2>2, <4>1, Zenon DEF FoundOK
      <4> QED BY <4>1, <4>2, <2>3, Zenon DEF SameCode
    <3> QED BY <3>3, <3>5, Zenon DEF FoundOK
  <2> HIDE DEF jc, e
  <2>9. e.tbs = bs /\ e.htable = c.htable \ {t} /\ e.jmp_cache = jc /\ e.pages = ds
    BY <2>1, Zenon
  <2>10. CacheOK(e)
    BY <2>3, <2>7, <2>8, <2>9, Zenon DEF CacheOK
  <2>11. Less(c, e) /\ t \notin e.htable
    BY <2>3, <2>9, <2>10, Zenon DEF Less
  <2> QED BY <2>11 DEF e
<1> QED BY <1>1, <1>2, Zenon

-----------------------------------------------------------------------------
(* The loop over the blocks of a page *)

(* Induction up to N. *)
LEMMA UpTo ==
  ASSUME NEW S, NEW N \in Nat, 0 \in S, \A n \in Nat : n < N /\ n \in S => n + 1 \in S
  PROVE  \A n \in 0 .. N : n \in S
<1> DEFINE T == {n \in Nat : n <= N /\ n \notin S}
<1> SUFFICES ASSUME T # {} PROVE FALSE
  OBVIOUS
<1>1. PICK m \in T : \A n \in T : m <= n
  <2>1. T \subseteq Nat
    OBVIOUS
  <2> HIDE DEF T
  <2> QED BY <2>1, LeastNumber, Zenon
<1>2. m \in Nat /\ m <= N /\ m \notin S /\ m # 0
  BY <1>1
<1>3. m - 1 \in Nat /\ m - 1 < N /\ (m - 1) + 1 = m
  BY <1>2
<1>4. m - 1 \notin S
  BY <1>2, <1>3, Zenon
<1>5. m - 1 \in T
  BY <1>3, <1>4
<1> HIDE DEF T
<1>6. m <= m - 1
  BY <1>1, <1>5, Zenon
<1> QED BY <1>2, <1>6

(* The cache after block n of the list of page p, when it was k before. *)
RangeStep(c, p, start, end, k, n) ==
  IF Hit(c.tbs[c.pages[p].first_tb[n]], p, start, end)
    THEN do_tb_phys_invalidate(k, c.pages[p].first_tb[n])
  ELSE k

(* The caches f after each of N blocks. *)
RangeRun(c, p, start, end, N, f) ==
  f = [n \in 0 .. N |-> IF n = 0 THEN c ELSE RangeStep(c, p, start, end, f[n - 1], n)]

(* The recursion of tb_invalidate_phys_page_range has a solution. *)
LEMMA RangeExists ==
  ASSUME NEW c, NEW p, NEW start, NEW end, NEW N \in Nat
  PROVE  \E f : RangeRun(c, p, start, end, N, f)
<1> DEFINE Next(k, n) == RangeStep(c, p, start, end, k, n)
           P(m, f) == \A n \in 0 .. m : f[n] = IF n = 0 THEN c ELSE Next(f[n - 1], n)
           S == {m \in Nat : \E f : P(m, f)}
<1>1. 0 \in S
  <2>1. \A n \in 0 .. 0 : n = 0
    OBVIOUS
  <2>2. P(0, [n \in 0 .. 0 |-> c])
    BY <2>1, Zenon
  <2> HIDE DEF P
  <2>3. 0 \in Nat
    OBVIOUS
  <2> QED BY <2>2, <2>3, Zenon
<1>2. ASSUME NEW m \in Nat, m \in S PROVE m + 1 \in S
  <2>1. PICK f : P(m, f)
    <3> HIDE DEF P
    <3> QED BY <1>2, Zenon
  <2> DEFINE g == [n \in 0 .. m + 1 |-> IF n = m + 1 THEN Next(f[m], m + 1) ELSE f[n]]
  <2>2. ASSUME NEW n \in 0 .. m + 1 PROVE g[n] = IF n = 0 THEN c ELSE Next(g[n - 1], n)
    <3>1. CASE n = m + 1
      <4>1. n # 0 /\ n - 1 = m /\ m \in 0 .. m + 1 /\ m # m + 1
        BY <3>1
      <4>2. g[n] = Next(f[m], n) /\ g[m] = f[m]
        <5> HIDE DEF Next
        <5> QED BY <3>1, <4>1, Zenon
      <4> HIDE DEF Next, g
      <4> QED BY <4>1, <4>2, Zenon
    <3>2. CASE n # m + 1
      <4>1. n \in 0 .. m /\ (n # 0 => n - 1 \in 0 .. m + 1 /\ n - 1 # m + 1)
        BY <3>2
      <4>2. f[n] = IF n = 0 THEN c ELSE Next(f[n - 1], n)
        BY <2>1, <4>1, Zenon
      <4>3. g[n] = f[n] /\ (n # 0 => g[n - 1] = f[n - 1])
        <5> HIDE DEF Next
        <5> QED BY <3>2, <4>1, Zenon
      <4> HIDE DEF Next, g
      <4> QED BY <4>2, <4>3, Zenon
    <3> QED BY <3>1, <3>2, Zenon
  <2> HIDE DEF g, Next
  <2>3. P(m + 1, g)
    BY <2>2, Zenon
  <2> HIDE DEF P
  <2>4. m + 1 \in Nat
    OBVIOUS
  <2> QED BY <2>3, <2>4, Zenon
<1>3. N \in S
  <2> HIDE DEF S
  <2>1. \A n \in 0 .. N : n \in S
    BY <1>1, <1>2, UpTo, Zenon
  <2> QED BY <2>1
<1>4. PICK f : P(N, f)
  <2> HIDE DEF P
  <2> QED BY <1>3, Zenon
<1> DEFINE g == [n \in 0 .. N |-> f[n]]
<1>5. ASSUME NEW n \in 0 .. N PROVE g[n] = IF n = 0 THEN c ELSE Next(g[n - 1], n)
  <2>1. n # 0 => n - 1 \in 0 .. N
    OBVIOUS
  <2>2. g[n] = f[n] /\ (n # 0 => g[n - 1] = f[n - 1])
    BY <2>1, Zenon
  <2>3. f[n] = IF n = 0 THEN c ELSE Next(f[n - 1], n)
    BY <1>4, Zenon
  <2> HIDE DEF Next, g
  <2> QED BY <2>2, <2>3, Zenon
<1>6. g = [n \in 0 .. N |-> g[n]]
  BY Zenon
<1> HIDE DEF g, S, P
<1>7. g = [n \in 0 .. N |-> IF n = 0 THEN c ELSE Next(g[n - 1], n)]
  <2> HIDE DEF Next
  <2> QED BY <1>5, <1>6, Zenon
<1>8. RangeRun(c, p, start, end, N, g)
  BY <1>7, Zenon DEF RangeRun
<1> QED BY <1>8, Zenon

(* The cache e is c without the blocks of page p that are hit. *)
Cleared(c, e, p, start, end) ==
  /\ Less(c, e)
  /\ \A u \in e.htable : OnPage(c.tbs[u], p) => ~Hit(c.tbs[u], p, start, end)

(* tb_invalidate_phys_page_range leaves no block of the page that is hit. *)
LEMMA PageRangeIs ==
  ASSUME NEW c, CacheOK(c), NEW p \in PageIds, NEW start, NEW end
  PROVE  Cleared(c, tb_invalidate_phys_page_range(c, p, start, end), p, start, end)
<1> DEFINE list == c.pages[p].first_tb
           F == CHOOSE f : RangeRun(c, p, start, end, Len(list), f)
           e == tb_invalidate_phys_page_range(c, p, start, end)
<1>1. PageOK(c.tbs, c.htable, c.pages[p], p) /\ c.pages[p] \in Desc
  BY Zenon DEF CacheOK, PagesOK
<1>2. Len(list) \in Nat /\ DOMAIN list = 1 .. Len(list)
  <2>1. list \in Seq(Nat)
    BY <1>1, DescParts, Zenon
  <2> HIDE DEF list
  <2> QED BY <2>1
<1>3. e = F[Len(list)]
  BY Zenon DEF tb_invalidate_phys_page_range, RangeStep, RangeRun
<1>4. F = [n \in 0 .. Len(list) |->
             IF n = 0 THEN c ELSE RangeStep(c, p, start, end, F[n - 1], n)]
  <2>1. RangeRun(c, p, start, end, Len(list), F)
    <3> HIDE DEF list
    <3> QED BY <1>2, RangeExists, Zenon
  <2> HIDE DEF F
  <2> QED BY <2>1, Zenon DEF RangeRun
<1> HIDE DEF F, e
<1>5. \A n \in 0 .. Len(list) :
        F[n] = IF n = 0 THEN c ELSE RangeStep(c, p, start, end, F[n - 1], n)
  <2> HIDE DEF list
  <2> QED BY <1>4, Zenon
<1> DEFINE Gone(n) == \A i \in 1 .. n : Hit(c.tbs[list[i]], p, start, end) =>
                                          list[i] \notin F[n].htable
           S == {n \in 0 .. Len(list) : Less(c, F[n]) /\ Gone(n)}
<1>6. 0 \in S
  <2>1. 0 \in 0 .. Len(list) /\ 1 .. 0 = {}
    BY <1>2
  <2>2. F[0] = c
    BY <1>5, <2>1, Zenon
  <2>3. Less(c, F[0])
    BY <2>2, LessRefl, Zenon
  <2>4. Gone(0)
    BY <2>1, Zenon
  <2> HIDE DEF Gone, list
  <2> QED BY <2>1, <2>3, <2>4, Zenon
<1>7. ASSUME NEW n \in Nat, n < Len(list), n \in S PROVE n + 1 \in S
  <2> DEFINE m == n + 1
             t == list[m]
  <2>1. m \in 0 .. Len(list) /\ m # 0 /\ m - 1 = n /\ 1 .. m = 1 .. n \cup {m}
    BY <1>2, <1>7
  <2>2. Less(c, F[n]) /\ Gone(n)
    <3> HIDE DEF Gone, list
    <3> QED BY <1>7, Zenon
  <2> HIDE DEF m
  <2>3. F[m] = RangeStep(c, p, start, end, F[n], m)
    BY <1>5, <2>1, Zenon
  <2>4. CacheOK(F[n])
    BY <2>2, Zenon DEF Less
  <2>5. /\ Less(F[n], F[m])
        /\ Hit(c.tbs[t], p, start, end) => t \notin F[m].htable
    <3>1. CASE Hit(c.tbs[t], p, start, end)
      <4>1. F[m] = do_tb_phys_invalidate(F[n], t)
        BY <2>3, <3>1, Zenon DEF RangeStep
      <4> HIDE DEF t, list, Gone
      <4> DEFINE k == do_tb_phys_invalidate(F[n], t)
      <4>2. Less(F[n], k) /\ t \notin k.htable
        BY <2>4, InvalidateStep, Zenon
      <4> HIDE DEF k
      <4>3. F[m] = k
        BY <4>1 DEF k
      <4> QED BY <4>2, <4>3, Zenon
    <3>2. CASE ~Hit(c.tbs[t], p, start, end)
      <4>1. F[m] = F[n]
        BY <2>3, <3>2, Zenon DEF RangeStep
      <4> QED BY <4>1, <3>2, <2>4, LessRefl, Zenon
    <3> QED BY <3>1, <3>2, Zenon
  <2>6. Less(c, F[m])
    <3> HIDE DEF Gone, t, list
    <3> QED BY <2>2, <2>5, LessTrans, Zenon
  <2>7. F[m].htable \subseteq F[n].htable
    BY <2>5, Zenon DEF Less
  <2>8. Gone(m)
    <3> SUFFICES ASSUME NEW i \in 1 .. m, Hit(c.tbs[list[i]], p, start, end)
                 PROVE  list[i] \notin F[m].htable
      BY Zenon
    <3>1. CASE i = m
      BY <3>1, <2>5, Zenon
    <3>2. CASE i # m
      <4>1. i \in 1 .. n
        BY <3>2, <2>1, Zenon
      <4> QED BY <4>1, <2>2, <2>7, Zenon
    <3> QED BY <3>1, <3>2, Zenon
  <2> HIDE DEF Gone, t, list
  <2>9. m \in S
    BY <2>1, <2>6, <2>8, Zenon
  <2> QED BY <2>9, SMTT(30) DEF m
<1>8. Less(c, e) /\ Gone(Len(list))
  <2>1. \A n \in 0 .. Len(list) : n \in S
    <3> HIDE DEF S, list
    <3> QED BY <1>2, <1>6, <1>7, UpTo, Zenon
  <2>2. Len(list) \in S
    <3> HIDE DEF S, list
    <3> QED BY <1>2, <2>1
  <2>3. Less(c, F[Len(list)]) /\ Gone(Len(list))
    <3> HIDE DEF Gone, list
    <3> QED BY <2>2, Zenon
  <2> HIDE DEF list
  <2> QED BY <1>3, <2>3, Zenon
<1>9. ASSUME NEW u \in e.htable, OnPage(c.tbs[u], p), Hit(c.tbs[u], p, start, end)
      PROVE  FALSE
  <2>1. u \in c.htable /\ u \in DOMAIN c.tbs
    BY <1>8, Zenon DEF Less, CacheOK, Valid
  <2>2. Has(list, u)
    BY <1>1, <1>9, <2>1, Zenon DEF PageOK
  <2>3. PICK i \in 1 .. Len(list) : list[i] = u
    BY <1>2, <2>2, Zenon DEF Has
  <2>4. e = F[Len(list)]
    BY <1>3, Zenon
  <2> QED BY <2>3, <2>4, <1>8, <1>9, Zenon
<1> HIDE DEF Gone, list
<1>10. Cleared(c, e, p, start, end)
  BY <1>8, <1>9, Zenon DEF Cleared
<1> QED BY <1>10 DEF e

-----------------------------------------------------------------------------
(* The loop over the pages of a range *)

(* An address is on the same page as a higher one, or on an earlier page. *)
LEMMA PageMonotone ==
  ASSUME NEW a \in Int, NEW d \in Int, a <= d
  PROVE  Page(a) <= Page(d)
<1> DEFINE x == Page(a)
           y == Page(d)
<1>1. PAGE_SIZE \in Nat /\ PAGE_SIZE > 1
  BY TbConstants
<1>2. x \in Int /\ x * PAGE_SIZE <= a
  BY PageBounds
<1>3. y \in Int /\ d < (y + 1) * PAGE_SIZE
  BY PageBounds
<1> HIDE DEF x, y
<1> SUFFICES ASSUME x >= y + 1 PROVE FALSE
  BY <1>2, <1>3 DEF x, y
<1>4. PICK z \in Nat : x = y + 1 + z
  <2>1. x - y - 1 \in Nat /\ x = y + 1 + (x - y - 1)
    BY <1>2, <1>3
  <2> QED BY <2>1
<1>5. x * PAGE_SIZE = (y + 1) * PAGE_SIZE + z * PAGE_SIZE
  BY <1>4, <1>1, <1>3
<1>6. z * PAGE_SIZE >= 0 /\ z * PAGE_SIZE \in Int /\ (y + 1) * PAGE_SIZE \in Int
  BY <1>1, <1>3
<1> QED BY <1>2, <1>3, <1>5, <1>6

(* The part of start .. end - 1 on page p. *)
RangeStart(start, p) == IF p = Page(start) THEN start ELSE p * PAGE_SIZE
RangeEnd(end, p) == IF p = Page(end - 1) THEN end ELSE (p + 1) * PAGE_SIZE

(* The cache after page n of the range, when it was k before. *)
PhysStep(start, end, k, n) ==
  IF Page(start) + n - 1 \in PageIds
    THEN tb_invalidate_phys_page_range(k, Page(start) + n - 1,
           RangeStart(start, Page(start) + n - 1), RangeEnd(end, Page(start) + n - 1))
  ELSE k

(* The caches f after each of N pages. *)
PhysRun(c, start, end, N, f) ==
  f = [n \in 0 .. N |-> IF n = 0 THEN c ELSE PhysStep(start, end, f[n - 1], n)]

(* The recursion of tb_invalidate_phys_range has a solution. *)
LEMMA PhysExists ==
  ASSUME NEW c, NEW start, NEW end, NEW N \in Nat
  PROVE  \E f : PhysRun(c, start, end, N, f)
<1> DEFINE Next(k, n) == PhysStep(start, end, k, n)
           P(m, f) == \A n \in 0 .. m : f[n] = IF n = 0 THEN c ELSE Next(f[n - 1], n)
           S == {m \in Nat : \E f : P(m, f)}
<1>1. 0 \in S
  <2>1. \A n \in 0 .. 0 : n = 0
    OBVIOUS
  <2>2. P(0, [n \in 0 .. 0 |-> c])
    BY <2>1, Zenon
  <2> HIDE DEF P
  <2>3. 0 \in Nat
    OBVIOUS
  <2> QED BY <2>2, <2>3, Zenon
<1>2. ASSUME NEW m \in Nat, m \in S PROVE m + 1 \in S
  <2>1. PICK f : P(m, f)
    <3> HIDE DEF P
    <3> QED BY <1>2, Zenon
  <2> DEFINE g == [n \in 0 .. m + 1 |-> IF n = m + 1 THEN Next(f[m], m + 1) ELSE f[n]]
  <2>2. ASSUME NEW n \in 0 .. m + 1 PROVE g[n] = IF n = 0 THEN c ELSE Next(g[n - 1], n)
    <3>1. CASE n = m + 1
      <4>1. n # 0 /\ n - 1 = m /\ m \in 0 .. m + 1 /\ m # m + 1
        BY <3>1
      <4>2. g[n] = Next(f[m], n) /\ g[m] = f[m]
        <5> HIDE DEF Next
        <5> QED BY <3>1, <4>1, Zenon
      <4> HIDE DEF Next, g
      <4> QED BY <4>1, <4>2, Zenon
    <3>2. CASE n # m + 1
      <4>1. n \in 0 .. m /\ (n # 0 => n - 1 \in 0 .. m + 1 /\ n - 1 # m + 1)
        BY <3>2
      <4>2. f[n] = IF n = 0 THEN c ELSE Next(f[n - 1], n)
        BY <2>1, <4>1, Zenon
      <4>3. g[n] = f[n] /\ (n # 0 => g[n - 1] = f[n - 1])
        <5> HIDE DEF Next
        <5> QED BY <3>2, <4>1, Zenon
      <4> HIDE DEF Next, g
      <4> QED BY <4>2, <4>3, Zenon
    <3> QED BY <3>1, <3>2, Zenon
  <2> HIDE DEF g, Next
  <2>3. P(m + 1, g)
    BY <2>2, Zenon
  <2> HIDE DEF P
  <2>4. m + 1 \in Nat
    OBVIOUS
  <2> QED BY <2>3, <2>4, Zenon
<1>3. N \in S
  <2> HIDE DEF S
  <2>1. \A n \in 0 .. N : n \in S
    BY <1>1, <1>2, UpTo, Zenon
  <2> QED BY <2>1
<1>4. PICK f : P(N, f)
  <2> HIDE DEF P
  <2> QED BY <1>3, Zenon
<1> DEFINE g == [n \in 0 .. N |-> f[n]]
<1>5. ASSUME NEW n \in 0 .. N PROVE g[n] = IF n = 0 THEN c ELSE Next(g[n - 1], n)
  <2>1. n # 0 => n - 1 \in 0 .. N
    OBVIOUS
  <2>2. g[n] = f[n] /\ (n # 0 => g[n - 1] = f[n - 1])
    BY <2>1, Zenon
  <2>3. f[n] = IF n = 0 THEN c ELSE Next(f[n - 1], n)
    BY <1>4, Zenon
  <2> HIDE DEF Next, g
  <2> QED BY <2>2, <2>3, Zenon
<1>6. g = [n \in 0 .. N |-> g[n]]
  BY Zenon
<1> HIDE DEF g, S, P
<1>7. g = [n \in 0 .. N |-> IF n = 0 THEN c ELSE Next(g[n - 1], n)]
  <2> HIDE DEF Next
  <2> QED BY <1>5, <1>6, Zenon
<1>8. PhysRun(c, start, end, N, g)
  BY <1>7, Zenon DEF PhysRun
<1> QED BY <1>8, Zenon

(* Block b is hit by start .. end - 1 on its page p. *)
HitOn(b, p, start, end) ==
  OnPage(b, p) /\ Hit(b, p, RangeStart(start, p), RangeEnd(end, p))

(* The cache e is c without the blocks that the range hits on one of its pages. *)
Swept(c, e, start, end) ==
  /\ Less(c, e)
  /\ \A u \in e.htable, p \in PageIds :
       Page(start) <= p /\ p <= Page(end - 1) => ~HitOn(c.tbs[u], p, start, end)

(* Being hit depends on the code alone. *)
LEMMA HitSame ==
  ASSUME NEW b, NEW d, SameCode(b, d), NEW p, NEW start, NEW end
  PROVE  HitOn(d, p, start, end) <=> HitOn(b, p, start, end)
<1>1. TbStart(d, p) = TbStart(b, p) /\ TbEnd(d, p) = TbEnd(b, p)
  BY Zenon DEF SameCode, TbStart, TbEnd
<1> QED BY <1>1, Zenon DEF HitOn, OnPage, Hit, SameCode

(* tb_invalidate_phys_range leaves no block that is hit. *)
LEMMA PhysRangeIs ==
  ASSUME NEW c, CacheOK(c), NEW start \in Int, NEW end \in Int, start < end
  PROVE  Swept(c, tb_invalidate_phys_range(c, start, end), start, end)
<1> DEFINE first == Page(start)
           top == Page(end - 1)
           N == top - first + 1
           F == CHOOSE f : PhysRun(c, start, end, N, f)
           e == tb_invalidate_phys_range(c, start, end)
<1>1. first \in Int /\ top \in Int /\ N \in Nat
  <2>1. end - 1 \in Int /\ start <= end - 1
    OBVIOUS
  <2>2. first \in Int /\ top \in Int
    BY <2>1, PageBounds
  <2>3. first <= top
    BY <2>1, PageMonotone
  <2> HIDE DEF first, top
  <2> QED BY <2>2, <2>3
<1>2. e = F[N]
  BY Zenon DEF tb_invalidate_phys_range, PhysStep, PhysRun, RangeStart, RangeEnd
<1>3. PhysRun(c, start, end, N, F)
  <2> HIDE DEF N
  <2> QED BY <1>1, PhysExists, Zenon
<1> HIDE DEF F, e
<1>4. \A n \in 0 .. N : F[n] = IF n = 0 THEN c ELSE PhysStep(start, end, F[n - 1], n)
  <2> HIDE DEF N
  <2> QED BY <1>3, Zenon DEF PhysRun
<1> DEFINE Gone(n) == \A u \in F[n].htable, p \in PageIds :
             first <= p /\ p < first + n => ~HitOn(c.tbs[u], p, start, end)
           S == {n \in 0 .. N : Less(c, F[n]) /\ Gone(n)}
<1> HIDE DEF first, top, N
<1>5. 0 \in S
  <2>1. 0 \in 0 .. N /\ \A p \in PageIds : ~(first <= p /\ p < first + 0)
    BY <1>1, TbConstants DEF PageIds
  <2>2. F[0] = c
    BY <1>4, <2>1, Zenon
  <2>3. Less(c, F[0])
    BY <2>2, LessRefl, Zenon
  <2>4. Gone(0)
    BY <2>1, Zenon
  <2> HIDE DEF Gone
  <2> QED BY <2>1, <2>3, <2>4, Zenon
<1>6. ASSUME NEW n \in Nat, n < N, n \in S PROVE n + 1 \in S
  <2> DEFINE m == n + 1
             q == first + n
             rs == RangeStart(start, q)
             re == RangeEnd(end, q)
  <2>1. /\ m \in 0 .. N /\ m # 0 /\ m - 1 = n /\ first + m - 1 = q
        /\ \A p \in PageIds : first <= p /\ p < first + m => p = q \/ p < first + n
    BY <1>1, <1>6, TbConstants DEF PageIds
  <2>2. Less(c, F[n]) /\ Gone(n)
    <3> HIDE DEF Gone
    <3> QED BY <1>6, Zenon
  <2> HIDE DEF m, q
  <2>3. F[m] = PhysStep(start, end, F[n], m)
    BY <1>4, <2>1, Zenon
  <2>4. CacheOK(F[n])
    BY <2>2, Zenon DEF Less
  <2>5. /\ Less(F[n], F[m])
        /\ q \in PageIds => \A u \in F[m].htable : ~HitOn(F[n].tbs[u], q, start, end)
    <3>1. CASE q \in PageIds
      <4> DEFINE k == tb_invalidate_phys_page_range(F[n], q, rs, re)
      <4>1. F[m] = k
        BY <2>1, <2>3, <3>1, Zenon DEF PhysStep, first
      <4> HIDE DEF rs, re, Gone
      <4>2. Cleared(F[n], k, q, rs, re)
        BY <2>4, <3>1, PageRangeIs, Zenon
      <4> HIDE DEF k
      <4>3. Cleared(F[n], F[m], q, rs, re)
        BY <4>1, <4>2, Zenon
      <4> QED BY <4>3, Zenon DEF Cleared, HitOn, rs, re
    <3>2. CASE q \notin PageIds
      <4>1. F[m] = F[n]
        BY <2>1, <2>3, <3>2, Zenon DEF PhysStep, first
      <4> QED BY <4>1, <3>2, <2>4, LessRefl, Zenon
    <3> QED BY <3>1, <3>2, Zenon
  <2>6. Less(c, F[m])
    <3> HIDE DEF Gone
    <3> QED BY <2>2, <2>5, LessTrans, Zenon
  <2>7. F[m].htable \subseteq F[n].htable
    BY <2>5, Zenon DEF Less
  <2>8. Gone(m)
    <3> SUFFICES ASSUME NEW u \in F[m].htable, NEW p \in PageIds, first <= p, p < first + m
                 PROVE  ~HitOn(c.tbs[u], p, start, end)
      BY Zenon
    <3>1. CASE p = q
      <4>1. ~HitOn(F[n].tbs[u], p, start, end)
        BY <3>1, <2>5, Zenon
      <4>2. u \in c.htable
        BY <2>6, Zenon DEF Less
      <4>3. u \in DOMAIN c.tbs
        BY <4>2, Zenon DEF CacheOK, Valid
      <4>4. SameCode(c.tbs[u], F[n].tbs[u])
        BY <4>3, <2>2, Zenon DEF Less
      <4>5. HitOn(F[n].tbs[u], p, start, end) <=> HitOn(c.tbs[u], p, start, end)
        BY <4>4, HitSame, Zenon
      <4> QED BY <4>1, <4>5, Zenon
    <3>2. CASE p # q
      <4>1. p < first + n
        BY <3>2, <2>1, Zenon
      <4> QED BY <4>1, <2>2, <2>7, Zenon
    <3> QED BY <3>1, <3>2, Zenon
  <2> HIDE DEF Gone
  <2>9. m \in S
    BY <2>1, <2>6, <2>8, Zenon
  <2> QED BY <2>9 DEF m
<1>7. Less(c, e) /\ Gone(N)
  <2>1. \A n \in 0 .. N : n \in S
    <3> HIDE DEF S, Gone
    <3>1. \A n \in Nat : n < N /\ n \in S => n + 1 \in S
      BY <1>6, Zenon
    <3> QED BY <1>1, <1>5, <3>1, UpTo, Zenon
  <2>2. N \in S
    <3> HIDE DEF S
    <3>1. N \in 0 .. N
      BY <1>1
    <3> QED BY <3>1, <2>1, Zenon
  <2> HIDE DEF Gone
  <2> QED BY <1>2, <2>2, Zenon
<1>8. \A p \in PageIds : p <= top => p < first + N
  BY <1>1, TbConstants DEF N, PageIds
<1>9. ASSUME NEW u \in e.htable, NEW p \in PageIds, Page(start) <= p, p <= Page(end - 1)
      PROVE  ~HitOn(c.tbs[u], p, start, end)
  <2>1. first <= p /\ p < first + N
    BY <1>8, <1>9 DEF first, top
  <2>2. u \in F[N].htable
    BY <1>2, <1>9, Zenon
  <2> QED BY <2>1, <2>2, <1>7, Zenon
<1> HIDE DEF Gone, S
<1>10. Swept(c, e, start, end)
  BY <1>7, <1>9, Zenon DEF Swept
<1> QED BY <1>10 DEF e

-----------------------------------------------------------------------------
(* What a store or an edit leaves *)

(* A block with halfword a is hit on the page of a by what includes a. *)
LEMMA HitByCode ==
  ASSUME NEW b \in Block, Shape(b), NEW a \in Int, Covers(b, a),
         NEW s \in Int, NEW e \in Int, s <= a, a < e
  PROVE  Page(a) \in PageIds /\ OnPage(b, Page(a)) /\ Hit(b, Page(a), s, e)
<1>1. /\ Page(a) \in PageIds /\ OnPage(b, Page(a))
      /\ TbStart(b, Page(a)) <= a /\ a < TbEnd(b, Page(a))
  BY CodePages, Zenon
<1>2. TbStart(b, Page(a)) \in Int /\ TbEnd(b, Page(a)) \in Int
  <2>1. Page(a) \in Int /\ PAGE_SIZE \in Nat /\ PAGE_SIZE > 1
    BY PageBounds, TbConstants
  <2>2. b.pc \in Int /\ b.end \in Int
    BY TbConstants DEF Block
  <2> QED BY <2>1, <2>2 DEF TbStart, TbEnd
<1>3. ~(TbEnd(b, Page(a)) <= s \/ TbStart(b, Page(a)) >= e)
  BY <1>1, <1>2
<1> QED BY <1>1, <1>3, Zenon DEF Hit

(* The same for a range of pages. *)
LEMMA HitInRange ==
  ASSUME NEW b \in Block, Shape(b), NEW a \in Int, Covers(b, a),
         NEW start \in Int, NEW end \in Int, start <= a, a < end
  PROVE  /\ Page(a) \in PageIds /\ HitOn(b, Page(a), start, end)
         /\ Page(start) <= Page(a) /\ Page(a) <= Page(end - 1)
<1>1. end - 1 \in Int /\ a <= end - 1 /\ PAGE_SIZE \in Nat
  BY TbConstants
<1>2. Page(start) <= Page(a) /\ Page(a) <= Page(end - 1)
  BY <1>1, PageMonotone
<1>3. Page(a) \in Int /\ Page(a) * PAGE_SIZE <= a /\ a < (Page(a) + 1) * PAGE_SIZE
  BY PageBounds, Zenon
<1> DEFINE s == RangeStart(start, Page(a))
           e == RangeEnd(end, Page(a))
<1>4. s \in Int /\ s <= a
  BY <1>1, <1>3 DEF RangeStart
<1>5. e \in Int /\ a < e
  BY <1>1, <1>3 DEF RangeEnd
<1>6. Page(a) \in PageIds /\ OnPage(b, Page(a)) /\ Hit(b, Page(a), s, e)
  <2> HIDE DEF s, e
  <2> QED BY <1>4, <1>5, HitByCode, Zenon
<1> QED BY <1>2, <1>6, Zenon DEF HitOn

(* The blocks of a cache. *)
LEMMA BlockOf ==
  ASSUME NEW c, CacheOK(c), NEW u \in DOMAIN c.tbs
  PROVE  c.tbs[u] \in Block /\ Shape(c.tbs[u])
<1>1. c.tbs \in Seq(Block) /\ Shape(c.tbs[u])
  BY Zenon DEF CacheOK, BlocksOK
<1> QED BY <1>1

(* No block of e that can be found has a halfword of start .. end - 1. *)
FreeOf(e, start, end) == \A u \in e.htable, a \in start .. end - 1 : ~Covers(e.tbs[u], a)

(* The blocks that are left when the pages are swept. *)
LEMMA SweptCode ==
  ASSUME NEW c, CacheOK(c), NEW e, NEW start \in Int, NEW end \in Int, Swept(c, e, start, end)
  PROVE  FreeOf(e, start, end)
<1> SUFFICES ASSUME NEW u \in e.htable, NEW a \in start .. end - 1, Covers(e.tbs[u], a)
             PROVE  FALSE
  BY Zenon DEF FreeOf
<1>1. a \in Int /\ start <= a /\ a < end
  OBVIOUS
<1>2. u \in DOMAIN c.tbs /\ SameCode(c.tbs[u], e.tbs[u])
  BY Zenon DEF Swept, Less, CacheOK, Valid
<1>3. Covers(c.tbs[u], a) /\ c.tbs[u] \in Block /\ Shape(c.tbs[u])
  BY <1>2, BlockOf, Zenon DEF Covers, SameCode
<1>4. /\ Page(a) \in PageIds /\ HitOn(c.tbs[u], Page(a), start, end)
      /\ Page(start) <= Page(a) /\ Page(a) <= Page(end - 1)
  BY <1>1, <1>3, HitInRange, Zenon
<1> QED BY <1>4, Zenon DEF Swept

(* uc_invalidate_tb *)
LEMMA UcInvalidateIs ==
  ASSUME NEW c, CacheOK(c), NEW start \in Int, NEW len \in Nat, len > 0
  PROVE  /\ Less(c, uc_invalidate_tb(c, start, len))
         /\ start \in Addr => Swept(c, uc_invalidate_tb(c, start, len), start, start + len)
<1>1. CASE start \in Addr
  <2>1. start + len \in Int /\ start < start + len
    OBVIOUS
  <2>2. uc_invalidate_tb(c, start, len) = tb_invalidate_phys_range(c, start, start + len)
    BY <1>1, Zenon DEF uc_invalidate_tb
  <2>3. Swept(c, uc_invalidate_tb(c, start, len), start, start + len)
    BY <2>1, <2>2, PhysRangeIs, Zenon
  <2> QED BY <2>3, Zenon DEF Swept
<1>2. CASE start \notin Addr
  <2>1. uc_invalidate_tb(c, start, len) = c
    BY <1>2, Zenon DEF uc_invalidate_tb
  <2> QED BY <1>2, <2>1, LessRefl, Zenon
<1> QED BY <1>1, <1>2, Zenon

(* The page that tb_invalidate_phys_page_fast has counted a write to. *)
Counted(c, a) ==
  IF c.pages[Page(a)].bitmap # NoBitmap THEN c.pages[Page(a)]
  ELSE [first_tb |-> c.pages[Page(a)].first_tb,
        bitmap |-> IF c.pages[Page(a)].count + 1 < SMC_BITMAP_USE_THRESHOLD THEN NoBitmap
                   ELSE build_page_bitmap(c, Page(a)),
        count |-> c.pages[Page(a)].count + 1]

(* build_page_bitmap marks all code on the page. *)
LEMMA BitmapCovers ==
  ASSUME NEW c, CacheOK(c), NEW p \in PageIds
  PROVE  /\ build_page_bitmap(c, p) \in SUBSET Int
         /\ \A t \in c.htable, a \in Addr :
              Page(a) = p /\ Covers(c.tbs[t], a) => a \in build_page_bitmap(c, p)
<1>1. Addr \subseteq Int
  BY TbConstants
<1>2. build_page_bitmap(c, p) \subseteq Addr
  BY Zenon DEF build_page_bitmap
<1>3. ASSUME NEW t \in c.htable, NEW a \in Addr, Page(a) = p, Covers(c.tbs[t], a)
      PROVE  a \in build_page_bitmap(c, p)
  <2>1. t \in DOMAIN c.tbs
    BY Zenon DEF CacheOK, Valid
  <2>2. c.tbs[t] \in Block /\ Shape(c.tbs[t])
    BY <2>1, BlockOf, Zenon
  <2>3. a \in Int
    BY <1>1
  <2>4. OnPage(c.tbs[t], p) /\ TbStart(c.tbs[t], p) <= a /\ a < TbEnd(c.tbs[t], p)
    BY <1>3, <2>2, <2>3, CodePages, Zenon
  <2>5. PageOK(c.tbs, c.htable, c.pages[p], p)
    BY Zenon DEF CacheOK, PagesOK
  <2>6. Has(c.pages[p].first_tb, t)
    BY <2>1, <2>4, <2>5, Zenon DEF PageOK
  <2> QED BY <1>3, <2>4, <2>6, Zenon DEF Has, build_page_bitmap
<1> QED BY <1>1, <1>2, <1>3, Zenon

(* The page is still in order when a write to it has been counted. *)
LEMMA CountedOK ==
  ASSUME NEW c, CacheOK(c), NEW a \in Addr
  PROVE  /\ Counted(c, a) \in Desc
         /\ PageOK(c.tbs, c.htable, Counted(c, a), Page(a))
         /\ Page(a) \in PageIds
<1> DEFINE p == Page(a)
           d == c.pages[p]
           e == Counted(c, a)
           m == build_page_bitmap(c, p)
<1>1. p \in PageIds
  <2>1. a \in Int
    BY TbConstants
  <2> QED BY <2>1, AddrPage, Zenon
<1>2. d \in Desc /\ PageOK(c.tbs, c.htable, d, p)
  BY <1>1, Zenon DEF CacheOK, PagesOK
<1>3. CASE d.bitmap # NoBitmap
  <2>1. e = d
    BY <1>3, Zenon DEF Counted
  <2> QED BY <1>1, <1>2, <2>1, Zenon
<1>4. CASE d.bitmap = NoBitmap
  <2> DEFINE bm == IF d.count + 1 < SMC_BITMAP_USE_THRESHOLD THEN NoBitmap ELSE m
  <2>1. e = [first_tb |-> d.first_tb, bitmap |-> bm, count |-> d.count + 1]
    BY <1>4, Zenon DEF Counted
  <2>2. /\ m \in SUBSET Int
        /\ \A t \in c.htable, x \in Addr : Page(x) = p /\ Covers(c.tbs[t], x) => x \in m
    BY <1>1, BitmapCovers, Zenon
  <2> HIDE DEF m
  <2>3. d.count \in Nat /\ d.first_tb \in Seq(Nat)
    BY <1>2, DescParts, Zenon
  <2>4. d.count < SMC_BITMAP_USE_THRESHOLD
    BY <1>2, <1>4, Zenon DEF PageOK
  <2>5. NoBitmap \in SUBSET Int
    BY DEF NoBitmap
  <2>6. d.count + 1 \in Nat /\ d.count + 1 <= SMC_BITMAP_USE_THRESHOLD
    BY <2>3, <2>4, TbConstants, SMTT(30)
  <2>7. /\ bm \in SUBSET Int
        /\ bm = NoBitmap => d.count + 1 < SMC_BITMAP_USE_THRESHOLD \/ m = NoBitmap
        /\ bm # NoBitmap => bm = m
    BY <2>2, <2>5, Zenon
  <2>8. m # NoBitmap
    <3>1. m \subseteq Addr
      BY Zenon DEF m, build_page_bitmap
    <3>2. -1 \notin Addr
      BY TbConstants
    <3> QED BY <3>1, <3>2, Zenon DEF NoBitmap
  <2> HIDE DEF d, e, bm, p
  <2>9. e \in Desc
    BY <2>1, <2>3, <2>6, <2>7, Zenon DEF Desc
  <2>10. e.first_tb = d.first_tb /\ e.bitmap = bm /\ e.count = d.count + 1
    BY <2>1, Zenon
  <2>11. PageOK(c.tbs, c.htable, e, p)
    BY <1>2, <2>2, <2>6, <2>7, <2>8, <2>10, Zenon DEF PageOK
  <2> QED BY <1>1, <2>9, <2>11, Zenon DEF e, p
<1> QED BY <1>3, <1>4, Zenon

(* notdirty_write: no block that has the halfword a is left. *)
LEMMA FastIs ==
  ASSUME NEW c, CacheOK(c), NEW a \in Addr
  PROVE  /\ Less(c, tb_invalidate_phys_page_fast(c, a))
         /\ FreeOf(tb_invalidate_phys_page_fast(c, a), a, a + 1)
<1> DEFINE p == Page(a)
           d == Counted(c, a)
           ds == [c.pages EXCEPT ![p] = d]
           c1 == [tbs |-> c.tbs, htable |-> c.htable, jmp_cache |-> c.jmp_cache, pages |-> ds]
           k == tb_invalidate_phys_page_range(c1, p, a, a + 1)
           e == tb_invalidate_phys_page_fast(c, a)
<1>1. e = IF d.bitmap # NoBitmap /\ a \notin d.bitmap THEN c1 ELSE k
  BY Zenon DEF tb_invalidate_phys_page_fast, Counted
<1>2. d \in Desc /\ PageOK(c.tbs, c.htable, d, p) /\ p \in PageIds
  BY CountedOK, Zenon
<1>3. a \in Int /\ a + 1 \in Int /\ a <= a /\ a < a + 1 /\ a .. (a + 1) - 1 = {a}
  BY TbConstants
<1> HIDE DEF d, e
<1>4. PagesOK(c.tbs, c.htable, ds)
  <2>1. /\ c.pages \in [PageIds -> Desc]
        /\ \A q \in PageIds : PageOK(c.tbs, c.htable, c.pages[q], q)
    BY Zenon DEF CacheOK, PagesOK
  <2> HIDE DEF p
  <2>2. ds \in [PageIds -> Desc] /\ \A q \in PageIds : ds[q] = IF q = p THEN d ELSE c.pages[q]
    BY <1>2, <2>1
  <2> HIDE DEF ds
  <2> QED BY <1>2, <2>1, <2>2, Zenon DEF PagesOK
<1> HIDE DEF ds
<1>5. /\ c1.tbs = c.tbs /\ c1.htable = c.htable /\ c1.jmp_cache = c.jmp_cache
      /\ c1.pages = ds
  BY Zenon
<1> HIDE DEF c1
<1>6. CacheOK(c1)
  BY <1>4, <1>5, Zenon DEF CacheOK
<1>7. Less(c, c1)
  BY <1>5, <1>6, Zenon DEF Less, SameCode
<1>8. CASE d.bitmap # NoBitmap /\ a \notin d.bitmap
  <2>1. e = c1
    BY <1>1, <1>8, Zenon
  <2>2. \A u \in c.htable : ~Covers(c.tbs[u], a)
    BY <1>2, <1>8, Zenon DEF PageOK
  <2>3. FreeOf(c1, a, a + 1)
    BY <1>3, <1>5, <2>2, Zenon DEF FreeOf
  <2> QED BY <1>7, <2>1, <2>3, Zenon DEF e
<1>9. CASE ~(d.bitmap # NoBitmap /\ a \notin d.bitmap)
  <2>1. e = k
    BY <1>1, <1>9, Zenon
  <2>2. Cleared(c1, k, p, a, a + 1)
    <3> HIDE DEF p
    <3> QED BY <1>2, <1>6, PageRangeIs, Zenon
  <2> HIDE DEF k
  <2>3. Less(c1, k)
    BY <2>2, Zenon DEF Cleared
  <2>4. Less(c, k)
    BY <1>7, <2>3, LessTrans, Zenon
  <2>5. ASSUME NEW u \in k.htable, Covers(k.tbs[u], a) PROVE FALSE
    <3>1. u \in DOMAIN c1.tbs /\ SameCode(c1.tbs[u], k.tbs[u])
      BY <1>6, <2>3, Zenon DEF Less, CacheOK, Valid
    <3>2. Covers(c1.tbs[u], a) /\ c1.tbs[u] \in Block /\ Shape(c1.tbs[u])
      BY <1>6, <2>5, <3>1, BlockOf, Zenon DEF Covers, SameCode
    <3>3. OnPage(c1.tbs[u], p) /\ Hit(c1.tbs[u], p, a, a + 1)
      BY <1>3, <3>2, HitByCode, Zenon
    <3> QED BY <2>2, <3>3, Zenon DEF Cleared
  <2>6. FreeOf(k, a, a + 1)
    BY <1>3, <2>5, Zenon DEF FreeOf
  <2> QED BY <2>1, <2>4, <2>6, Zenon DEF e
<1> QED BY <1>8, <1>9, Zenon

-----------------------------------------------------------------------------
(* New blocks *)

(* Block b has no jump to or from another block yet. *)
Fresh(b) == ~b.invalid /\ b.jmp_list = <<>> /\ \A n \in 1 .. 2 : b.dest[n] = None

(* The block that gen_intermediate_code makes. *)
LEMMA NewTbIs ==
  ASSUME NEW p \in Addr, mem \in [Addr -> Insn], Fetchable(p), until \in Int
  PROVE  /\ NewTb(p) \in Block /\ Shape(NewTb(p)) /\ Fresh(NewTb(p))
         /\ NewTb(p).pc = p /\ NewTb(p).code = CodeOf(NewTb(p), mem)
         /\ NewTb(p).exit = "halt" => NewTb(p).end = until
<1> DEFINE end == BlockEnd(p)[1]
           exit == BlockEnd(p)[2]
           b == NewTb(p)
           code == [i \in 1 .. end - p |-> mem[p + i - 1]]
           page2 == SecondPage(p, end)
           dest == <<None, None>>
<1>1. b = [pc |-> p, end |-> end, exit |-> exit, code |-> code, page2 |-> page2,
           invalid |-> FALSE, dest |-> dest, jmp_list |-> <<>>]
  BY Zenon DEF NewTb
<1>2. /\ end \in p .. Size /\ exit \in {"halt", "branch", "next"}
      /\ end <= (Page(p) + 1) * PAGE_SIZE + 1
      /\ exit = "halt" => end = until
  BY BlockEndIs
<1>3. Addr = 0 .. Size - 1 /\ Size \in Nat /\ p \in Nat
  BY TbConstants
<1> HIDE DEF end, exit
<1>4. end \in 0 .. Size /\ p <= end /\ end - p \in Nat /\ end \in Nat
  BY <1>2, <1>3
<1>5. code \in Seq(Insn)
  <2>1. \A i \in 1 .. end - p : p + i - 1 \in Addr
    BY <1>2, <1>3
  <2>2. code \in [1 .. end - p -> Insn]
    BY <2>1, Zenon
  <2> HIDE DEF code
  <2> QED BY <1>4, <2>2
<1>6. page2 \in PageIds \cup {NoPage}
  BY Zenon DEF SecondPage, get_page_addr_code
<1>7. dest \in [1 .. 2 -> Nat] /\ \A n \in 1 .. 2 : dest[n] = None
  BY DEF None
<1>8. <<>> \in Seq(Nat \X (1 .. 2)) /\ FALSE \in BOOLEAN
  OBVIOUS
<1>9. code = [i \in 1 .. end - p |-> mem[p + i - 1]] /\ page2 = SecondPage(p, end)
  BY Zenon
<1> HIDE DEF code, page2, dest, b
<1>10. b \in Block
  BY <1>1, <1>2, <1>4, <1>5, <1>6, <1>7, <1>8, Zenon DEF Block
<1>11. /\ b.pc = p /\ b.end = end /\ b.exit = exit /\ b.code = code /\ b.page2 = page2
       /\ b.invalid = FALSE /\ b.dest = dest /\ b.jmp_list = <<>>
  BY <1>1, Zenon
<1>12. Shape(b)
  BY <1>2, <1>4, <1>9, <1>11, Zenon DEF Shape
<1>13. Fresh(b)
  BY <1>7, <1>11, Zenon DEF Fresh
<1>14. b.code = CodeOf(b, mem)
  BY <1>9, <1>11, Zenon DEF CodeOf
<1> QED BY <1>2, <1>10, <1>11, <1>12, <1>13, <1>14, Zenon DEF b

(* The page e is the page d with the block t, and without a bitmap. *)
Gained(d, e, t) ==
  /\ Distinct(d.first_tb) /\ ~Has(d.first_tb, t) => Distinct(e.first_tb)
  /\ e.bitmap = NoBitmap /\ e.count = 0
  /\ \A u : Has(e.first_tb, u) <=> Has(d.first_tb, u) \/ u = t

GivenTo(ds, new, t, P) ==
  /\ new \in [PageIds -> Desc]
  /\ \A q \in PageIds : IF q \in P THEN Gained(ds[q], new[q], t) ELSE new[q] = ds[q]

(* tb_page_add on one page. *)
LEMMA PageAdded ==
  ASSUME NEW ds \in [PageIds -> Desc], NEW t \in Nat, NEW p \in PageIds \cup {NoPage}
  PROVE  GivenTo(ds, tb_page_add(ds, t, p), t, {p})
<1>0. NoPage \notin PageIds
  BY DEF NoPage, PageIds
<1> DEFINE new == tb_page_add(ds, t, p)
<1>1. CASE p = NoPage
  <2>1. new = ds
    BY <1>1, Zenon DEF tb_page_add
  <2>2. \A q \in PageIds : q \notin {p}
    BY <1>0, <1>1, Zenon
  <2> HIDE DEF new
  <2>3. GivenTo(ds, new, t, {p})
    BY <2>1, <2>2, Zenon DEF GivenTo
  <2> QED BY <2>3 DEF new
<1>2. CASE p \in PageIds
  <2> DEFINE list == <<t>> \o ds[p].first_tb
             e == invalidate_page_bitmap(SetList(ds[p], list))
  <2>1. new = [ds EXCEPT ![p] = e]
    BY <1>0, <1>2, Zenon DEF tb_page_add
  <2>2. ds[p] \in Desc /\ ds[p].first_tb \in Seq(Nat)
    BY <1>2, DescParts, Zenon
  <2>3. /\ list \in Seq(Nat)
        /\ \A u : Has(list, u) <=> Has(ds[p].first_tb, u) \/ u = t
        /\ Distinct(ds[p].first_tb) /\ ~Has(ds[p].first_tb, t) => Distinct(list)
    BY <2>2, AddKeeps, Zenon
  <2> HIDE DEF list
  <2>4. e \in Desc /\ e.first_tb = list /\ e.bitmap = NoBitmap /\ e.count = 0
    BY <2>3, DescWith, Zenon
  <2> HIDE DEF e, new
  <2>5. Gained(ds[p], e, t)
    BY <2>3, <2>4, Zenon DEF Gained
  <2>6. /\ new \in [PageIds -> Desc]
        /\ \A q \in PageIds : new[q] = IF q = p THEN e ELSE ds[q]
    BY <1>2, <2>1, <2>4
  <2>7. GivenTo(ds, new, t, {p})
    BY <2>5, <2>6, Zenon DEF GivenTo
  <2> QED BY <2>7 DEF new
<1> QED BY <1>1, <1>2, Zenon

(* Both tb_page_add of a new block. *)
LEMMA PagesAdded ==
  ASSUME NEW ds \in [PageIds -> Desc], NEW t \in Nat,
         NEW p \in PageIds \cup {NoPage}, NEW r \in PageIds \cup {NoPage}, p # r
  PROVE  GivenTo(ds, tb_page_add(tb_page_add(ds, t, p), t, r), t, {p, r})
<1> DEFINE ds1 == tb_page_add(ds, t, p)
           new == tb_page_add(ds1, t, r)
<1>1. GivenTo(ds, ds1, t, {p})
  BY PageAdded, Zenon
<1> HIDE DEF ds1
<1>2. ds1 \in [PageIds -> Desc]
  BY <1>1, Zenon DEF GivenTo
<1>3. GivenTo(ds1, new, t, {r})
  BY <1>2, PageAdded, Zenon
<1> HIDE DEF new
<1>4. ASSUME NEW q \in PageIds
      PROVE  IF q \in {p, r} THEN Gained(ds[q], new[q], t) ELSE new[q] = ds[q]
  <2>1. IF q = p THEN Gained(ds[q], ds1[q], t) ELSE ds1[q] = ds[q]
    BY <1>1, Zenon DEF GivenTo
  <2>2. IF q = r THEN Gained(ds1[q], new[q], t) ELSE new[q] = ds1[q]
    BY <1>3, Zenon DEF GivenTo
  <2>3. CASE q = r
    BY <2>1, <2>2, <2>3, Zenon
  <2>4. CASE q = p
    <3>1. new[q] = ds1[q]
      BY <2>2, <2>4, Zenon
    <3> QED BY <2>1, <2>4, <3>1, Zenon
  <2>5. CASE q # p /\ q # r
    BY <2>1, <2>2, <2>5, Zenon
  <2> QED BY <2>3, <2>4, <2>5, Zenon
<1>5. GivenTo(ds, new, t, {p, r})
  BY <1>3, <1>4, Zenon DEF GivenTo
<1> QED BY <1>5 DEF new, ds1

(* The lists with the new block t, the last of bn. *)
LEMMA PagesWith ==
  ASSUME NEW bs, NEW ht, NEW ds, NEW new, NEW bn, NEW t, PagesOK(bs, ht, ds),
         t \notin DOMAIN bs, DOMAIN bn = DOMAIN bs \cup {t}, \A u \in DOMAIN bs : bn[u] = bs[u],
         GivenTo(ds, new, t, {Page(bn[t].pc), bn[t].page2}), ht \subseteq DOMAIN bs,
         bn[t] \in Block, Shape(bn[t])
  PROVE  PagesOK(bn, ht \cup {t}, new)
<1>1. new \in [PageIds -> Desc]
  BY Zenon DEF GivenTo
<1>2. ASSUME NEW q \in PageIds PROVE PageOK(bn, ht \cup {t}, new[q], q)
  <2>1. PageOK(bs, ht, ds[q], q)
    BY Zenon DEF PagesOK
  <2>2. ~Has(ds[q].first_tb, t)
    BY <2>1, Zenon DEF PageOK, Has
  <2>3. CASE q \in {Page(bn[t].pc), bn[t].page2}
    <3>1. Gained(ds[q], new[q], t)
      BY <2>3, Zenon DEF GivenTo
    <3>2. ASSUME NEW i \in DOMAIN new[q].first_tb PROVE new[q].first_tb[i] \in DOMAIN bn
      <4>1. Has(new[q].first_tb, new[q].first_tb[i])
        BY Zenon DEF Has
      <4>2. Has(ds[q].first_tb, new[q].first_tb[i]) \/ new[q].first_tb[i] = t
        BY <4>1, <3>1, Zenon DEF Gained
      <4> QED BY <4>2, <2>1, Zenon DEF Has, PageOK
    <3>3. ASSUME NEW u \in DOMAIN bn
          PROVE  Has(new[q].first_tb, u) <=> u \in ht \cup {t} /\ OnPage(bn[u], q)
      <4>1. CASE u = t
        BY <4>1, <2>3, <3>1, Zenon DEF Gained, OnPage
      <4>2. CASE u # t
        BY <4>2, <2>1, <3>1, Zenon DEF Gained, PageOK
      <4> QED BY <4>1, <4>2, Zenon
    <3>4. 0 <= SMC_BITMAP_USE_THRESHOLD /\ 0 < SMC_BITMAP_USE_THRESHOLD
      BY TbConstants
    <3>5. Distinct(new[q].first_tb) /\ new[q].bitmap = NoBitmap /\ new[q].count = 0
      BY <2>1, <2>2, <3>1, Zenon DEF Gained, PageOK
    <3> QED BY <3>2, <3>3, <3>4, <3>5, Zenon DEF PageOK
  <2>4. CASE q \notin {Page(bn[t].pc), bn[t].page2}
    <3>1. new[q] = ds[q]
      BY <2>4, Zenon DEF GivenTo
    <3>2. ~OnPage(bn[t], q)
      BY <2>4, Zenon DEF OnPage
    <3>3. ASSUME NEW u \in DOMAIN bn
          PROVE  Has(new[q].first_tb, u) <=> u \in ht \cup {t} /\ OnPage(bn[u], q)
      <4>1. CASE u = t
        BY <4>1, <2>2, <3>1, <3>2, Zenon
      <4>2. CASE u # t
        BY <4>2, <2>1, <3>1, Zenon DEF PageOK
      <4> QED BY <4>1, <4>2, Zenon
    <3>4. ASSUME new[q].bitmap # NoBitmap, NEW u \in ht \cup {t}, NEW a \in Addr,
                 Page(a) = q, Covers(bn[u], a)
          PROVE  a \in new[q].bitmap
      <4>1. u # t
        <5>1. a \in Int
          BY TbConstants
        <5>2. Covers(bn[t], a) => OnPage(bn[t], Page(a))
          BY <5>1, CodePages, Zenon
        <5> QED BY <5>2, <3>2, <3>4, Zenon
      <4> QED BY <4>1, <3>1, <3>4, <2>1, Zenon DEF PageOK
    <3>5. \A i \in DOMAIN new[q].first_tb : new[q].first_tb[i] \in DOMAIN bn
      BY <2>1, <3>1, Zenon DEF PageOK
    <3> QED BY <3>1, <3>3, <3>4, <3>5, <2>1, Zenon DEF PageOK
  <2> QED BY <2>3, <2>4, Zenon
<1> QED BY <1>1, <1>2, Zenon DEF PagesOK

(* What tb_link_page gives for the new block b: a block at the same address that
   was there already, or b itself. *)
LinkedAs(c, b, r) ==
  /\ CacheOK(r.c) /\ r.tb \in r.c.htable /\ r.c.tbs[r.tb].pc = b.pc
  /\ r.c.jmp_cache = c.jmp_cache
  /\ \/ r.c = c
     \/ r.c.tbs = Append(c.tbs, b) /\ r.c.htable = c.htable \cup {Len(c.tbs) + 1}

(* The blocks with a fresh one behind them. *)
LEMMA Appended ==
  ASSUME NEW bs, NEW ht, BlocksOK(bs), ht = Valid(bs), ChainsOK(bs, ht),
         NEW b \in Block, Shape(b), Fresh(b)
  PROVE  LET t == Len(bs) + 1
             bn == Append(bs, b)
         IN  /\ BlocksOK(bn) /\ ChainsOK(bn, ht \cup {t}) /\ Valid(bn) = ht \cup {t}
             /\ t \notin DOMAIN bs /\ DOMAIN bn = DOMAIN bs \cup {t} /\ bn[t] = b
             /\ \A u \in DOMAIN bs : bn[u] = bs[u]
<1> DEFINE t == Len(bs) + 1
           bn == Append(bs, b)
<1>1. bs \in Seq(Block) /\ ht \subseteq DOMAIN bs
  BY Zenon DEF BlocksOK, Valid
<1>2. /\ bn \in Seq(Block) /\ DOMAIN bn = DOMAIN bs \cup {t} /\ t \notin DOMAIN bs /\ bn[t] = b
      /\ \A u \in DOMAIN bs : bn[u] = bs[u]
  BY <1>1
<1>3. \A i : i \notin DOMAIN <<>>
  OBVIOUS
<1> HIDE DEF t, bn
<1>4. BlocksOK(bn)
  <2> SUFFICES ASSUME NEW u \in DOMAIN bn
               PROVE  /\ Shape(bn[u])
                      /\ \A n \in 1 .. 2 : bn[u].dest[n] # None =>
                           bn[u].dest[n] \in DOMAIN bn /\ bn[bn[u].dest[n]].pc = Target(bn[u], n)
                      /\ \A i \in DOMAIN bn[u].jmp_list : bn[u].jmp_list[i][1] \in DOMAIN bn
    BY <1>2, Zenon DEF BlocksOK
  <2>1. CASE u = t
    BY <1>2, <1>3, <2>1, Zenon DEF Fresh
  <2>2. CASE u # t
    <3>1. u \in DOMAIN bs /\ bn[u] = bs[u]
      BY <1>2, <2>2, Zenon
    <3>2. /\ Shape(bs[u])
          /\ \A n \in 1 .. 2 : bs[u].dest[n] # None =>
               bs[u].dest[n] \in DOMAIN bs /\ bs[bs[u].dest[n]].pc = Target(bs[u], n)
          /\ \A i \in DOMAIN bs[u].jmp_list : bs[u].jmp_list[i][1] \in DOMAIN bs
      BY <3>1, Zenon DEF BlocksOK
    <3> QED BY <1>2, <3>1, <3>2, Zenon
  <2> QED BY <2>1, <2>2, Zenon
<1>5. Valid(bn) = ht \cup {t}
  <2>1. ~bn[t].invalid
    BY <1>2, Zenon DEF Fresh
  <2> QED BY <1>2, <2>1, Zenon DEF Valid
<1>6. ChainsOK(bn, ht \cup {t})
  <2> SUFFICES ASSUME NEW u \in ht \cup {t}
               PROVE  /\ \A n \in 1 .. 2 : bn[u].dest[n] # None =>
                           /\ bn[u].dest[n] \in ht \cup {t}
                           /\ bn[bn[u].dest[n]].page2 = NoPage
                           /\ Has(bn[bn[u].dest[n]].jmp_list, <<u, n>>)
                      /\ \A i \in DOMAIN bn[u].jmp_list :
                           /\ bn[u].jmp_list[i][1] \in ht \cup {t}
                           /\ bn[bn[u].jmp_list[i][1]].dest[bn[u].jmp_list[i][2]] = u
                      /\ Distinct(bn[u].jmp_list)
    BY Zenon DEF ChainsOK
  <2>1. CASE u = t
    BY <1>2, <1>3, <2>1, Zenon DEF Fresh, Distinct
  <2>2. CASE u # t
    <3>1. u \in ht /\ u \in DOMAIN bs /\ bn[u] = bs[u]
      BY <1>1, <1>2, <2>2, Zenon
    <3>2. /\ \A n \in 1 .. 2 : bs[u].dest[n] # None =>
               /\ bs[u].dest[n] \in ht
               /\ bs[bs[u].dest[n]].page2 = NoPage
               /\ Has(bs[bs[u].dest[n]].jmp_list, <<u, n>>)
          /\ \A i \in DOMAIN bs[u].jmp_list :
               /\ bs[u].jmp_list[i][1] \in ht
               /\ bs[bs[u].jmp_list[i][1]].dest[bs[u].jmp_list[i][2]] = u
          /\ Distinct(bs[u].jmp_list)
      BY <3>1, Zenon DEF ChainsOK
    <3>3. \A x \in ht : bn[x] = bs[x]
      BY <1>1, <1>2, Zenon
    <3> QED BY <3>1, <3>2, <3>3, ZenonT(30)
  <2> QED BY <2>1, <2>2, Zenon
<1> QED BY <1>2, <1>4, <1>5, <1>6, Zenon DEF t, bn

(* tb_link_page *)
LEMMA LinkIs ==
  ASSUME NEW c, CacheOK(c), NEW b \in Block, Shape(b), Fresh(b)
  PROVE  LinkedAs(c, b, tb_link_page(c, b))
<1> DEFINE r == tb_link_page(c, b)
           same == {x \in c.htable : c.tbs[x].pc = b.pc /\ c.tbs[x].page2 = b.page2}
           t == Len(c.tbs) + 1
           bn == Append(c.tbs, b)
           ds == tb_page_add(tb_page_add(c.pages, t, Page(b.pc)), t, b.page2)
           k == [tbs |-> bn, htable |-> c.htable \cup {t}, jmp_cache |-> c.jmp_cache, pages |-> ds]
<1>1. CASE same # {}
  <2>1. r = [c |-> c, tb |-> CHOOSE x \in same : TRUE]
    BY <1>1, Zenon DEF tb_link_page
  <2>2. (CHOOSE x \in same : TRUE) \in same
    BY <1>1, Zenon
  <2>3. r.c = c /\ r.tb \in same
    <3> DEFINE x == CHOOSE y \in same : TRUE
    <3>1. r = [c |-> c, tb |-> x] /\ x \in same
      BY <2>1, <2>2, Zenon
    <3> HIDE DEF r, x, same
    <3> QED BY <3>1, Zenon
  <2> HIDE DEF r
  <2>4. r.tb \in c.htable /\ c.tbs[r.tb].pc = b.pc
    BY <2>3, Zenon
  <2> HIDE DEF same
  <2>5. LinkedAs(c, b, r)
    BY <2>3, <2>4, Zenon DEF LinkedAs
  <2> QED BY <2>5 DEF r
<1>2. CASE same = {}
  <2>1. r = [c |-> k, tb |-> t]
    BY <1>2, Zenon DEF tb_link_page
  <2> HIDE DEF same
  <2>2. /\ BlocksOK(c.tbs) /\ c.htable = Valid(c.tbs) /\ ChainsOK(c.tbs, c.htable)
        /\ PagesOK(c.tbs, c.htable, c.pages) /\ FoundOK(c.tbs, c.jmp_cache)
    BY Zenon DEF CacheOK
  <2>3. /\ BlocksOK(bn) /\ ChainsOK(bn, c.htable \cup {t}) /\ Valid(bn) = c.htable \cup {t}
        /\ t \notin DOMAIN c.tbs /\ DOMAIN bn = DOMAIN c.tbs \cup {t} /\ bn[t] = b
        /\ \A u \in DOMAIN c.tbs : bn[u] = c.tbs[u]
    BY <2>2, Appended, Zenon
  <2>4. t \in Nat
    <3>1. c.tbs \in Seq(Block)
      BY <2>2, Zenon DEF BlocksOK
    <3> QED BY <3>1
  <2> HIDE DEF t, bn
  <2>5. Page(b.pc) \in PageIds /\ b.page2 \in PageIds \cup {NoPage} /\ Page(b.pc) # b.page2
    <3>1. b.pc \in Addr /\ b.page2 \in PageIds \cup {NoPage}
      BY Zenon DEF Block
    <3>2. b.pc \in Int
      BY <3>1, TbConstants
    <3>3. Page(b.pc) \in PageIds
      BY <3>1, <3>2, AddrPage, Zenon
    <3>4. NoPage \notin PageIds
      BY DEF NoPage, PageIds
    <3>5. b.page2 = NoPage \/ b.page2 # Page(b.pc)
      BY Zenon DEF Shape, SecondPage, get_page_addr_code
    <3> QED BY <3>1, <3>3, <3>4, <3>5, Zenon
  <2>6. GivenTo(c.pages, ds, t, {Page(b.pc), b.page2})
    <3>1. c.pages \in [PageIds -> Desc]
      BY <2>2, Zenon DEF PagesOK
    <3> QED BY <2>4, <2>5, <3>1, PagesAdded, Zenon
  <2> HIDE DEF ds
  <2>7. c.htable \subseteq DOMAIN c.tbs
    BY <2>2, Zenon DEF Valid
  <2>8. PagesOK(bn, c.htable \cup {t}, ds)
    <3>1. GivenTo(c.pages, ds, t, {Page(bn[t].pc), bn[t].page2})
      BY <2>3, <2>6, Zenon
    <3>2. bn[t] \in Block /\ Shape(bn[t])
      BY <2>3, Zenon
    <3> QED BY <2>2, <2>3, <2>7, <3>1, <3>2, PagesWith
  <2>9. FoundOK(bn, c.jmp_cache)
    BY <2>2, <2>3, Zenon DEF FoundOK
  <2>10. /\ k.tbs = bn /\ k.htable = c.htable \cup {t} /\ k.jmp_cache = c.jmp_cache
         /\ k.pages = ds
    BY Zenon
  <2> HIDE DEF k, r
  <2>11. CacheOK(k)
    BY <2>3, <2>8, <2>9, <2>10, Zenon DEF CacheOK
  <2>12. r.c = k /\ r.tb = t
    BY <2>1, Zenon
  <2>13. LinkedAs(c, b, r)
    BY <2>3, <2>10, <2>11, <2>12, Zenon DEF LinkedAs, t, bn
  <2> QED BY <2>13 DEF r
<1> QED BY <1>1, <1>2, Zenon

(* Block d is block b, which is u, when jump j leads to t. *)
Patched(b, d, u, j, t) ==
  /\ SameCode(b, d) /\ d.invalid = b.invalid
  /\ \A k \in 1 .. 2 : d.dest[k] = IF <<u, k>> = j THEN t ELSE b.dest[k]
  /\ d.jmp_list = IF u = t THEN <<j>> \o b.jmp_list ELSE b.jmp_list

(* The blocks of new are those of bs, with other jumps. *)
SameBlocks(bs, new, ht) ==
  /\ BlocksOK(new) /\ ChainsOK(new, ht) /\ Valid(new) = ht
  /\ DOMAIN new = DOMAIN bs /\ \A u \in DOMAIN bs : SameCode(bs[u], new[u])

(* The blocks of new are those of bs when jump j leads to t. *)
PatchedAll(bs, new, j, t) ==
  /\ new \in Seq(Block) /\ DOMAIN new = DOMAIN bs
  /\ \A u \in DOMAIN bs : Patched(bs[u], new[u], u, j, t)

(* The blocks when tb_add_jump patches jump n of x. *)
LEMMA PatchIs ==
  ASSUME NEW bs \in Seq(Block), NEW t \in DOMAIN bs, NEW x \in DOMAIN bs, NEW n \in 1 .. 2,
         ~bs[t].invalid, ~bs[x].invalid, bs[x].dest[n] = None
  PROVE  PatchedAll(bs, tb_add_jump(bs, <<x, n>>, t), <<x, n>>, t)
<1> DEFINE j == <<x, n>>
           dest == [bs[x].dest EXCEPT ![n] = t]
           b == SetDest(bs[x], dest)
           bs1 == [bs EXCEPT ![x] = b]
           list == <<j>> \o bs1[t].jmp_list
           d == SetJumps(bs1[t], list)
           new == [bs1 EXCEPT ![t] = d]
<1>1. j[1] = x /\ j[2] = n /\ j # NoJump /\ DOMAIN bs \subseteq Nat /\ j \in Jumps
  <2>1. x \in Nat /\ x # 0 /\ DOMAIN bs \subseteq Nat
    OBVIOUS
  <2> QED BY <2>1 DEF NoJump, None, Jumps
<1>2. tb_add_jump(bs, j, t) = new
  <2>1. tb_add_jump(bs, j, t) =
          LET nb == [bs EXCEPT ![x] = SetDest(bs[x], [bs[x].dest EXCEPT ![n] = t])]
          IN  [nb EXCEPT ![t] = SetJumps(nb[t], <<j>> \o nb[t].jmp_list)]
    <3> HIDE DEF j
    <3> QED BY <1>1, Zenon DEF tb_add_jump
  <2> QED BY <2>1, Zenon
<1>3. bs[x] \in Block /\ bs[x].dest \in [1 .. 2 -> Nat]
  <2>1. bs[x] \in Block
    OBVIOUS
  <2> QED BY <2>1, BlockTypes, Zenon
<1>4. /\ dest \in [1 .. 2 -> Nat]
      /\ \A k \in 1 .. 2 : dest[k] = IF k = n THEN t ELSE bs[x].dest[k]
  BY <1>1, <1>3
<1> HIDE DEF dest
<1>5. /\ b \in Block /\ SameCode(bs[x], b) /\ b.invalid = bs[x].invalid
      /\ b.dest = dest /\ b.jmp_list = bs[x].jmp_list
  BY <1>3, <1>4, DestFields, Zenon
<1> HIDE DEF b
<1>6. /\ bs1 \in Seq(Block) /\ DOMAIN bs1 = DOMAIN bs
      /\ \A u \in DOMAIN bs : bs1[u] = IF u = x THEN b ELSE bs[u]
  BY <1>5, SeqPut, Zenon
<1> HIDE DEF bs1
<1>7. bs1[t] \in Block /\ bs1[t].jmp_list \in Seq(Jumps) /\ bs1[t].jmp_list = bs[t].jmp_list
  <2>1. bs1[t] \in Block
    BY <1>6
  <2>2. bs1[t].jmp_list = bs[t].jmp_list
    BY <1>5, <1>6, Zenon
  <2> QED BY <2>1, <2>2, BlockTypes, Zenon
<1>8. list \in Seq(Jumps) /\ list = <<j>> \o bs[t].jmp_list
  <2> HIDE DEF j
  <2> QED BY <1>1, <1>7
<1> HIDE DEF list
<1>9. /\ d \in Block /\ SameCode(bs1[t], d) /\ d.invalid = bs1[t].invalid
      /\ d.dest = bs1[t].dest /\ d.jmp_list = list
  BY <1>7, <1>8, JumpsFields, Zenon
<1> HIDE DEF d
<1>10. /\ new \in Seq(Block) /\ DOMAIN new = DOMAIN bs
       /\ \A u \in DOMAIN bs : new[u] = IF u = t THEN d ELSE bs1[u]
  BY <1>6, <1>9, SeqPut, Zenon
<1> HIDE DEF new
<1>11. ASSUME NEW u \in DOMAIN bs PROVE Patched(bs[u], new[u], u, j, t)
  <2>1. /\ SameCode(bs[u], bs1[u]) /\ bs1[u].invalid = bs[u].invalid
        /\ bs1[u].dest = IF u = x THEN dest ELSE bs[u].dest
        /\ bs1[u].jmp_list = bs[u].jmp_list
    BY <1>5, <1>6, Zenon DEF SameCode
  <2>2. /\ SameCode(bs1[u], new[u]) /\ new[u].invalid = bs1[u].invalid
        /\ new[u].dest = bs1[u].dest
        /\ new[u].jmp_list = IF u = t THEN list ELSE bs1[u].jmp_list
    BY <1>9, <1>10, Zenon DEF SameCode
  <2>3. SameCode(bs[u], new[u])
    BY <2>1, <2>2, SameCodeTrans, Zenon
  <2>4. \A k \in 1 .. 2 : (<<u, k>> = j) <=> (u = x /\ k = n)
    OBVIOUS
  <2>5. \A k \in 1 .. 2 : new[u].dest[k] = IF <<u, k>> = j THEN t ELSE bs[u].dest[k]
    <3> HIDE DEF j
    <3>1. CASE u = x
      BY <1>4, <2>1, <2>2, <2>4, <3>1, Zenon
    <3>2. CASE u # x
      BY <2>1, <2>2, <2>4, <3>2, Zenon
    <3> QED BY <3>1, <3>2, Zenon
  <2>6. new[u].jmp_list = IF u = t THEN <<j>> \o bs[u].jmp_list ELSE bs[u].jmp_list
    BY <1>8, <2>1, <2>2, Zenon
  <2> HIDE DEF j
  <2> QED BY <2>1, <2>2, <2>3, <2>5, <2>6, Zenon DEF Patched
<1> QED BY <1>2, <1>10, <1>11, Zenon DEF PatchedAll

(* tb_add_jump: the jump is patched, and its destination knows of it. *)
LEMMA JumpAdded ==
  ASSUME NEW bs, NEW ht, BlocksOK(bs), ht = Valid(bs), ChainsOK(bs, ht),
         NEW t \in ht, bs[t].page2 = NoPage, NEW j \in Jumps \cup {NoJump},
         j # NoJump => j[1] \in DOMAIN bs /\ Target(bs[j[1]], j[2]) = bs[t].pc
  PROVE  SameBlocks(bs, tb_add_jump(bs, j, t), ht)
<1> DEFINE new == tb_add_jump(bs, j, t)
           x == j[1]
           n == j[2]
<1>1. bs \in Seq(Block) /\ ht \subseteq DOMAIN bs /\ t \in DOMAIN bs /\ None \notin DOMAIN bs
  <2>1. bs \in Seq(Block) /\ ht \subseteq DOMAIN bs
    BY Zenon DEF BlocksOK, Valid
  <2> QED BY <2>1 DEF None
<1>2. CASE j = NoJump \/ bs[t].invalid \/ bs[x].invalid \/ bs[x].dest[n] # None
  <2>1. new = bs
    BY <1>2, Zenon DEF tb_add_jump
  <2> QED BY <2>1, Zenon DEF SameBlocks, SameCode
<1>3. CASE ~(j = NoJump \/ bs[t].invalid \/ bs[x].invalid \/ bs[x].dest[n] # None)
  <2>1. j \in Jumps /\ x \in DOMAIN bs /\ Target(bs[x], n) = bs[t].pc
    BY <1>3, Zenon
  <2>2. n \in 1 .. 2 /\ j = <<x, n>> /\ x \in ht /\ bs[x].dest[n] = None
    <3>1. n \in 1 .. 2 /\ j = <<x, n>>
      BY <2>1 DEF Jumps
    <3> QED BY <3>1, <2>1, <1>3, Zenon DEF Valid
  <2> HIDE DEF x, n
  <2>3. /\ new \in Seq(Block) /\ DOMAIN new = DOMAIN bs
        /\ \A u \in DOMAIN bs : Patched(bs[u], new[u], u, j, t)
    <3>1. ~bs[t].invalid /\ ~bs[x].invalid
      BY <1>3, Zenon
    <3>2. PatchedAll(bs, tb_add_jump(bs, <<x, n>>, t), <<x, n>>, t)
      BY <1>1, <2>1, <2>2, <3>1, PatchIs, Zenon
    <3>3. tb_add_jump(bs, <<x, n>>, t) = new /\ <<x, n>> = j
      BY <2>2, Zenon
    <3> HIDE DEF new
    <3> QED BY <3>2, <3>3, Zenon DEF PatchedAll
  <2> HIDE DEF new
  <2>4. \A u \in DOMAIN bs : SameCode(bs[u], new[u]) /\ new[u].invalid = bs[u].invalid
    BY <2>3, Zenon DEF Patched
  <2>5. Valid(new) = ht
    BY <2>3, <2>4, Zenon DEF Valid
  <2>6. ASSUME NEW u \in DOMAIN bs
        PROVE  \A i : Has(new[u].jmp_list, i) <=> Has(bs[u].jmp_list, i) \/ (u = t /\ i = j)
    <3>1. CASE u = t
      <4>1. bs[u].jmp_list \in Seq(Jumps)
        <5>1. bs[u] \in Block
          BY <1>1
        <5> QED BY <5>1, BlockTypes, Zenon
      <4>2. \A i : Has(<<j>> \o bs[u].jmp_list, i) <=> Has(bs[u].jmp_list, i) \/ i = j
        <5> DEFINE list == bs[u].jmp_list
        <5>1. list \in Seq(Jumps) /\ j \in Jumps
          BY <2>1, <4>1, Zenon
        <5> HIDE DEF list
        <5>2. \A i : Has(<<j>> \o list, i) <=> Has(list, i) \/ i = j
          BY <5>1, AddKeeps, Zenon
        <5> QED BY <5>2 DEF list
      <4>3. new[u].jmp_list = <<j>> \o bs[u].jmp_list
        BY <2>3, <3>1, Zenon DEF Patched
      <4> QED BY <3>1, <4>2, <4>3, Zenon
    <3>2. CASE u # t
      BY <2>3, <3>2, Zenon DEF Patched
    <3> QED BY <3>1, <3>2, Zenon
  <2>7. ASSUME NEW u \in DOMAIN bs, NEW k \in 1 .. 2
        PROVE  new[u].dest[k] = IF u = x /\ k = n THEN t ELSE bs[u].dest[k]
    <3>1. (<<u, k>> = <<x, n>>) <=> (u = x /\ k = n)
      OBVIOUS
    <3>2. new[u].dest[k] = IF <<u, k>> = j THEN t ELSE bs[u].dest[k]
      BY <2>3, Zenon DEF Patched
    <3> QED BY <2>2, <3>1, <3>2, Zenon
  <2>8. BlocksOK(new)
    <3> SUFFICES ASSUME NEW u \in DOMAIN bs
                 PROVE  /\ Shape(new[u])
                        /\ \A k \in 1 .. 2 : new[u].dest[k] # None =>
                             /\ new[u].dest[k] \in DOMAIN bs
                             /\ new[new[u].dest[k]].pc = Target(new[u], k)
                        /\ \A i \in DOMAIN new[u].jmp_list : new[u].jmp_list[i][1] \in DOMAIN bs
      BY <2>3, Zenon DEF BlocksOK
    <3>1. Shape(new[u])
      <4>1. Shape(bs[u])
        BY Zenon DEF BlocksOK
      <4>2. SameCode(bs[u], new[u])
        BY <2>4, Zenon
      <4> QED BY <4>1, <4>2, Zenon DEF Shape, SameCode
    <3>2. ASSUME NEW k \in 1 .. 2, new[u].dest[k] # None
          PROVE  new[u].dest[k] \in DOMAIN bs /\ new[new[u].dest[k]].pc = Target(new[u], k)
      <4>1. SameCode(bs[u], new[u]) /\ Target(new[u], k) = Target(bs[u], k)
        BY <2>4, Zenon DEF Target, SameCode
      <4>2. CASE u = x /\ k = n
        <5>1. new[u].dest[k] = t
          BY <2>7, <4>2, Zenon
        <5>2. new[t].pc = bs[t].pc
          BY <1>1, <2>4, Zenon DEF SameCode
        <5> QED BY <1>1, <2>1, <4>1, <4>2, <5>1, <5>2, Zenon
      <4>3. CASE ~(u = x /\ k = n)
        <5> DEFINE e == bs[u].dest[k]
        <5>1. new[u].dest[k] = e /\ e # None
          BY <2>7, <3>2, <4>3, Zenon
        <5>2. e \in DOMAIN bs /\ bs[e].pc = Target(bs[u], k)
          BY <5>1, Zenon DEF BlocksOK
        <5> HIDE DEF e
        <5>3. new[e].pc = bs[e].pc
          BY <2>4, <5>2, Zenon DEF SameCode
        <5> QED BY <4>1, <5>1, <5>2, <5>3, Zenon
      <4> QED BY <4>2, <4>3, Zenon
    <3>3. ASSUME NEW i \in DOMAIN new[u].jmp_list PROVE new[u].jmp_list[i][1] \in DOMAIN bs
      <4> DEFINE h == new[u].jmp_list[i]
      <4>1. Has(new[u].jmp_list, h)
        BY Zenon DEF Has
      <4> HIDE DEF h
      <4>2. Has(bs[u].jmp_list, h) \/ h = j
        BY <2>6, <4>1, Zenon
      <4>3. h[1] \in DOMAIN bs
        BY <2>1, <4>2, Zenon DEF Has, BlocksOK, x
      <4> QED BY <4>3 DEF h
    <3> QED BY <3>1, <3>2, <3>3, Zenon
  <2>9. ChainsOK(new, ht)
    <3> SUFFICES ASSUME NEW u \in ht
                 PROVE  /\ \A k \in 1 .. 2 : new[u].dest[k] # None =>
                             /\ new[u].dest[k] \in ht
                             /\ new[new[u].dest[k]].page2 = NoPage
                             /\ Has(new[new[u].dest[k]].jmp_list, <<u, k>>)
                        /\ \A i \in DOMAIN new[u].jmp_list :
                             /\ new[u].jmp_list[i][1] \in ht
                             /\ new[new[u].jmp_list[i][1]].dest[new[u].jmp_list[i][2]] = u
                        /\ Distinct(new[u].jmp_list)
      BY Zenon DEF ChainsOK
    <3>1. u \in DOMAIN bs /\ u # None
      BY <1>1, Zenon
    <3>2. ASSUME NEW k \in 1 .. 2, new[u].dest[k] # None
          PROVE  /\ new[u].dest[k] \in ht
                 /\ new[new[u].dest[k]].page2 = NoPage
                 /\ Has(new[new[u].dest[k]].jmp_list, <<u, k>>)
      <4>1. CASE u = x /\ k = n
        <5>1. new[u].dest[k] = t /\ <<u, k>> = j
          BY <2>2, <2>7, <3>1, <4>1, Zenon
        <5>2. new[t].page2 = NoPage /\ Has(new[t].jmp_list, j)
          BY <1>1, <2>4, <2>6, Zenon DEF SameCode
        <5> QED BY <5>1, <5>2, Zenon
      <4>2. CASE ~(u = x /\ k = n)
        <5> DEFINE e == bs[u].dest[k]
        <5>1. new[u].dest[k] = e /\ e # None
          BY <2>7, <3>1, <3>2, <4>2, Zenon
        <5>2. e \in ht /\ bs[e].page2 = NoPage /\ Has(bs[e].jmp_list, <<u, k>>)
          BY <5>1, Zenon DEF ChainsOK
        <5> HIDE DEF e
        <5>3. new[e].page2 = NoPage /\ Has(new[e].jmp_list, <<u, k>>)
          BY <1>1, <2>4, <2>6, <5>2, Zenon DEF SameCode
        <5> QED BY <5>1, <5>2, <5>3, Zenon
      <4> QED BY <4>1, <4>2, Zenon
    <3>3. ASSUME NEW i \in DOMAIN new[u].jmp_list
          PROVE  /\ new[u].jmp_list[i][1] \in ht
                 /\ new[new[u].jmp_list[i][1]].dest[new[u].jmp_list[i][2]] = u
      <4> DEFINE h == new[u].jmp_list[i]
      <4>1. Has(new[u].jmp_list, h)
        BY Zenon DEF Has
      <4>2. h \in Jumps /\ h[2] \in 1 .. 2
        <5>1. new[u] \in Block
          BY <2>3, <3>1
        <5>2. new[u].jmp_list \in Seq(Jumps)
          BY <5>1, BlockTypes, Zenon
        <5>3. h \in Jumps
          BY <5>2
        <5> HIDE DEF h
        <5> QED BY <5>3, SMTT(30) DEF Jumps
      <4> HIDE DEF h
      <4>3. Has(bs[u].jmp_list, h) \/ (u = t /\ h = j)
        BY <2>6, <3>1, <4>1, Zenon
      <4>4. CASE u = t /\ h = j
        <5>1. h[1] = x /\ h[2] = n
          BY <4>4, Zenon DEF x, n
        <5>2. new[x].dest[n] = t
          BY <2>1, <2>2, <2>7, Zenon
        <5>3. h[1] \in ht /\ new[h[1]].dest[h[2]] = u
          BY <2>2, <4>4, <5>1, <5>2, Zenon
        <5> QED BY <5>3, Zenon DEF h
      <4>5. CASE Has(bs[u].jmp_list, h)
        <5>1. PICK m \in DOMAIN bs[u].jmp_list : bs[u].jmp_list[m] = h
          BY <4>5, Zenon DEF Has
        <5>2. /\ bs[u].jmp_list[m][1] \in ht
              /\ bs[bs[u].jmp_list[m][1]].dest[bs[u].jmp_list[m][2]] = u
          BY Zenon DEF ChainsOK
        <5>3. h[1] \in ht /\ bs[h[1]].dest[h[2]] = u
          BY <5>1, <5>2, Zenon
        <5>4. ~(h[1] = x /\ h[2] = n)
          BY <2>2, <3>1, <5>3, Zenon
        <5>5. new[h[1]].dest[h[2]] = u
          BY <1>1, <2>7, <4>2, <5>3, <5>4, Zenon
        <5> QED BY <5>3, <5>5, Zenon DEF h
      <4> QED BY <4>3, <4>4, <4>5, Zenon
    <3>4. Distinct(new[u].jmp_list)
      <4>1. Distinct(bs[u].jmp_list)
        BY Zenon DEF ChainsOK
      <4>2. CASE u # t
        BY <2>3, <3>1, <4>1, <4>2, Zenon DEF Patched
      <4>3. CASE u = t
        <5>1. ~Has(bs[t].jmp_list, j)
          <6> SUFFICES ASSUME NEW m \in DOMAIN bs[t].jmp_list, bs[t].jmp_list[m] = j PROVE FALSE
            BY Zenon DEF Has
          <6>1. bs[bs[t].jmp_list[m][1]].dest[bs[t].jmp_list[m][2]] = t
            BY Zenon DEF ChainsOK
          <6>2. bs[x].dest[n] = t
            BY <6>1, Zenon DEF x, n
          <6> QED BY <2>2, <3>1, <4>3, <6>2, Zenon
        <5>2. bs[t].jmp_list \in Seq(Jumps)
          <6>1. bs[t] \in Block
            BY <1>1
          <6> QED BY <6>1, BlockTypes, Zenon
        <5>3. Distinct(<<j>> \o bs[t].jmp_list)
          BY <2>1, <4>1, <4>3, <5>1, <5>2, AddKeeps, Zenon
        <5> QED BY <2>3, <3>1, <4>3, <5>3, Zenon DEF Patched
      <4> QED BY <4>2, <4>3, Zenon
    <3> QED BY <3>2, <3>3, <3>4, Zenon
  <2>10. SameBlocks(bs, new, ht)
    BY <2>3, <2>4, <2>5, <2>8, <2>9, Zenon DEF SameBlocks
  <2> QED BY <2>10 DEF new
<1> QED BY <1>2, <1>3, Zenon

-----------------------------------------------------------------------------
(* The steps *)

(* The parts of the cache of the state. *)
LEMMA CacheParts ==
  /\ Cache.tbs = tbs /\ Cache.htable = htable
  /\ Cache.jmp_cache = jmp_cache /\ Cache.pages = pages
  BY DEF Cache

(* The cache of the state is what it was set to. *)
LEMMA CacheSet ==
  ASSUME NEW c, CacheOK(c), SetCache(c)
  PROVE  CacheOK(Cache)'
<1>1. /\ Cache'.tbs = tbs' /\ Cache'.htable = htable'
      /\ Cache'.jmp_cache = jmp_cache' /\ Cache'.pages = pages'
  BY DEF Cache
<1>2. /\ tbs' = c.tbs /\ htable' = c.htable
      /\ jmp_cache' = c.jmp_cache /\ pages' = c.pages
  BY Zenon DEF SetCache
<1>3. CacheOK(Cache')
  BY <1>1, <1>2, Zenon DEF CacheOK
<1> QED BY <1>3

(* A cache without code is in order. *)
LEMMA NoCodeOK == CacheOK(NoCode) /\ NoCode.tbs = <<>> /\ NoCode.htable = {}
<1> DEFINE bs == <<>>
           jc == [a \in Addr |-> None]
           ds == [p \in PageIds |-> EmptyPage]
<1>1. NoCode.tbs = bs /\ NoCode.htable = {} /\ NoCode.jmp_cache = jc /\ NoCode.pages = ds
  BY Zenon DEF NoCode
<1>2. bs \in Seq(Block) /\ \A t : t \notin DOMAIN bs
  OBVIOUS
<1> HIDE DEF bs
<1>3. BlocksOK(bs)
  BY <1>2, Zenon DEF BlocksOK
<1>4. Valid(bs) = {}
  BY <1>2, Zenon DEF Valid
<1>5. ChainsOK(bs, {})
  BY Zenon DEF ChainsOK
<1>6. FoundOK(bs, jc)
  <2>1. None \in Nat
    BY DEF None
  <2> QED BY <2>1, Zenon DEF FoundOK
<1>7. PagesOK(bs, {}, ds)
  <2>1. <<>> \in Seq(Nat) /\ \A i : i \notin DOMAIN <<>>
    OBVIOUS
  <2>2. NoBitmap \in SUBSET Int /\ 0 \in Nat
    BY DEF NoBitmap
  <2>3. EmptyPage \in Desc
    BY <2>1, <2>2, Zenon DEF EmptyPage, Desc
  <2>4. EmptyPage.first_tb = <<>> /\ EmptyPage.bitmap = NoBitmap /\ EmptyPage.count = 0
    BY Zenon DEF EmptyPage
  <2>5. 0 <= SMC_BITMAP_USE_THRESHOLD /\ 0 < SMC_BITMAP_USE_THRESHOLD
    BY TbConstants
  <2>6. \A p : PageOK(bs, {}, EmptyPage, p)
    BY <1>2, <2>1, <2>4, <2>5, Zenon DEF PageOK, Has, Distinct
  <2> QED BY <2>3, <2>6, Zenon DEF PagesOK
<1> HIDE DEF jc, ds
<1>8. CacheOK(NoCode)
  BY <1>1, <1>3, <1>4, <1>5, <1>6, <1>7, Zenon DEF CacheOK
<1> QED BY <1>1, <1>8, Zenon DEF bs

(* A block is a translation of two memories that agree on its code. *)
LEMMA CodeSame ==
  ASSUME NEW b \in Block, Shape(b), NEW m, NEW w,
         \A a \in Addr : Covers(b, a) => w[a] = m[a]
  PROVE  CodeOf(b, w) = CodeOf(b, m)
<1>1. b.pc \in Addr /\ b.end \in 0 .. Size /\ Addr = 0 .. Size - 1 /\ Size \in Nat
  BY TbConstants DEF Block
<1>2. \A i \in 1 .. b.end - b.pc : w[b.pc + i - 1] = m[b.pc + i - 1]
  <2> SUFFICES ASSUME NEW i \in 1 .. b.end - b.pc PROVE w[b.pc + i - 1] = m[b.pc + i - 1]
    OBVIOUS
  <2>1. b.pc + i - 1 \in Addr /\ Covers(b, b.pc + i - 1)
    BY <1>1 DEF Covers
  <2> QED BY <2>1, Zenon
<1> QED BY <1>2, Zenon DEF CodeOf

(* The code of the blocks that can be found is that of memory m. *)
Current(c, m) == \A t \in c.htable : c.tbs[t].code = CodeOf(c.tbs[t], m)

(* Invalidations leave current code, if they have taken all blocks where the
   memory has changed. *)
LEMMA CurrentLess ==
  ASSUME NEW c, NEW e, NEW m, NEW w, CacheOK(c), Less(c, e), Current(c, m),
         \A u \in e.htable, a \in Addr : Covers(e.tbs[u], a) => w[a] = m[a]
  PROVE  Current(e, w)
<1> SUFFICES ASSUME NEW t \in e.htable PROVE e.tbs[t].code = CodeOf(e.tbs[t], w)
  BY Zenon DEF Current
<1>1. CacheOK(e) /\ t \in DOMAIN e.tbs /\ t \in c.htable /\ SameCode(c.tbs[t], e.tbs[t])
  BY Zenon DEF Less, CacheOK, Valid
<1>2. e.tbs[t].code = CodeOf(e.tbs[t], m)
  <2>1. c.tbs[t].code = CodeOf(c.tbs[t], m)
    BY <1>1, Zenon DEF Current
  <2>2. CodeOf(c.tbs[t], m) = CodeOf(e.tbs[t], m)
    BY <1>1, Zenon DEF SameCode, CodeOf
  <2> QED BY <1>1, <2>1, <2>2, Zenon DEF SameCode
<1>3. e.tbs[t] \in Block /\ Shape(e.tbs[t])
  BY <1>1, BlockOf, Zenon
<1>4. \A a \in Addr : Covers(e.tbs[t], a) => w[a] = m[a]
  BY Zenon
<1>5. CodeOf(e.tbs[t], w) = CodeOf(e.tbs[t], m)
  BY <1>3, <1>4, CodeSame, Zenon
<1> QED BY <1>2, <1>5, Zenon

(* What the cache of the invariant is. *)
LEMMA TbIInvParts ==
  ASSUME TbIInv
  PROVE  /\ CacheOK(Cache) /\ Current(Cache, mem) /\ RunOK /\ Len(tbs) <= MAX_TBS
         /\ tbs \in Seq(Block) /\ htable = Valid(tbs) /\ htable \subseteq DOMAIN tbs
<1>1. CacheOK(Cache) /\ RunOK /\ Len(tbs) <= MAX_TBS
      /\ \A t \in htable : tbs[t].code = CodeOf(tbs[t], mem)
  BY Zenon DEF TbIInv, CacheIInv
<1>2. Current(Cache, mem)
  BY <1>1, CacheParts, Zenon DEF Current
<1>3. tbs \in Seq(Block) /\ htable = Valid(tbs)
  BY <1>1, CacheParts, Zenon DEF CacheOK, BlocksOK
<1> QED BY <1>1, <1>2, <1>3, Zenon DEF Valid

(* The blocks are the same, and some are no longer valid. *)
Kept == /\ DOMAIN tbs' = DOMAIN tbs /\ htable' \subseteq htable
        /\ \A u \in DOMAIN tbs : SameCode(tbs[u], tbs'[u])

(* A step that invalidates blocks, among them all those where it changes the
   memory. *)
LEMMA LessStep ==
  ASSUME TbIInv, NEW e, Less(Cache, e), SetCache(e),
         \A u \in e.htable, a \in Addr : Covers(e.tbs[u], a) => mem'[a] = mem[a]
  PROVE  CacheIInv' /\ Kept
<1>1. CacheOK(Cache) /\ Current(Cache, mem) /\ Len(tbs) <= MAX_TBS /\ tbs \in Seq(Block)
  BY TbIInvParts, Zenon
<1>2. tbs' = e.tbs /\ htable' = e.htable
  BY Zenon DEF SetCache
<1>3. /\ CacheOK(e) /\ DOMAIN e.tbs = DOMAIN tbs /\ e.htable \subseteq htable
      /\ \A u \in DOMAIN tbs : SameCode(tbs[u], e.tbs[u])
  BY CacheParts, Zenon DEF Less
<1>4. CacheOK(Cache)'
  BY <1>3, CacheSet, Zenon
<1>5. Current(e, mem')
  BY <1>1, CurrentLess, Zenon
<1>6. \A t \in htable' : tbs'[t].code = CodeOf(tbs'[t], mem')
  BY <1>2, <1>5, Zenon DEF Current
<1>7. Len(tbs') <= MAX_TBS
  <2>1. tbs' \in Seq(Block) /\ DOMAIN tbs' = DOMAIN tbs
    BY <1>2, <1>3, Zenon DEF CacheOK, BlocksOK
  <2>2. Len(tbs') = Len(tbs)
    BY <2>1, <1>1
  <2> QED BY <1>1, <2>2, Zenon
<1>8. Kept
  BY <1>2, <1>3, Zenon DEF Kept
<1> QED BY <1>4, <1>6, <1>7, <1>8, Zenon DEF CacheIInv

(* The vCPU stays in the block where it is. *)
LEMMA RunKept ==
  ASSUME TbIInv, Kept, UNCHANGED <<pc, until, cur, last>>, mem' \in [Addr -> Insn]
  PROVE  RunOK'
<1>1. RunOK
  BY Zenon DEF TbIInv
<1>2. pc' = pc /\ until' = until /\ cur' = cur /\ last' = last
  OBVIOUS
<1>3. \A u \in DOMAIN tbs : tbs'[u].pc = tbs[u].pc /\ tbs'[u].end = tbs[u].end
  BY Zenon DEF Kept, SameCode
<1>4. cur # None => cur \in DOMAIN tbs' /\ tbs'[cur].pc = pc
  BY <1>1, <1>3, Zenon DEF RunOK, Kept
<1>5. last # NoJump => last[1] \in DOMAIN tbs' /\ Target(tbs'[last[1]], last[2]) = pc
  <2> HAVE last # NoJump
  <2>1. last[1] \in DOMAIN tbs /\ Target(tbs[last[1]], last[2]) = pc
    BY <1>1, Zenon DEF RunOK
  <2>2. Target(tbs'[last[1]], last[2]) = Target(tbs[last[1]], last[2])
    BY <1>3, <2>1, Zenon DEF Target
  <2> QED BY <2>1, <2>2, Zenon DEF Kept
<1> QED BY <1>1, <1>2, <1>4, <1>5, Zenon DEF RunOK

(* The writes that can be made. *)
LEMMA PatchIn ==
  ASSUME NEW w \in Patches
  PROVE  w[1] \in Addr /\ w[2] \in Insn
<1>1. w \in (0 .. PAGE_SIZE * PAGES - 1) \X {"n", "w", "b"}
  BY TbAssumption
<1> HIDE DEF TbAssumption
<1> QED BY <1>1 DEF Addr, Insn

(* A store of the guest. *)
LEMMA StoreStep ==
  ASSUME TbIInv, NEW a \in Addr, NEW i \in Insn, GuestStore(a, i)
  PROVE  TbIInv' /\ Kept
<1> DEFINE e == tb_invalidate_phys_page_fast(Cache, a)
<1>1. /\ SetCache(e) /\ mem' = [mem EXCEPT ![a] = i]
      /\ UNCHANGED <<pc, until, cur, last>>
  BY Zenon DEF GuestStore
<1>2. CacheOK(Cache) /\ mem \in [Addr -> Insn]
  BY TbIInvParts, Zenon DEF RunOK
<1>3. Less(Cache, e) /\ FreeOf(e, a, a + 1)
  BY <1>2, FastIs, Zenon
<1> HIDE DEF e
<1>4. mem' \in [Addr -> Insn] /\ \A x \in Addr : x # a => mem'[x] = mem[x]
  BY <1>1, <1>2
<1>5. a \in a .. (a + 1) - 1
  BY TbConstants
<1>6. \A u \in e.htable, x \in Addr : Covers(e.tbs[u], x) => mem'[x] = mem[x]
  BY <1>3, <1>4, <1>5, Zenon DEF FreeOf
<1>7. CacheIInv' /\ Kept
  BY <1>1, <1>3, <1>6, LessStep, Zenon
<1>8. RunOK'
  BY <1>1, <1>4, <1>7, RunKept, Zenon
<1> QED BY <1>7, <1>8, Zenon DEF TbIInv

(* An edit of the embedding program. *)
LEMMA EditStep ==
  ASSUME TbIInv, NEW a \in Addr, NEW i \in Insn, NEW start \in Addr, NEW len \in 1 .. RemoveLen,
         HostEdit(a, i, start, len)
  PROVE  TbIInv' /\ Kept
<1> DEFINE e == uc_invalidate_tb(Cache, start, len)
<1>1. /\ SetCache(e) /\ mem' = [mem EXCEPT ![a] = i] /\ a \in start .. start + len - 1
      /\ UNCHANGED <<pc, until, cur, last>>
  BY Zenon DEF HostEdit
<1>2. CacheOK(Cache) /\ mem \in [Addr -> Insn]
  BY TbIInvParts, Zenon DEF RunOK
<1>3. start \in Int /\ len \in Nat /\ len > 0 /\ start + len \in Int
  BY TbConstants
<1>4. Less(Cache, e) /\ Swept(Cache, e, start, start + len)
  BY <1>2, <1>3, UcInvalidateIs, Zenon
<1>5. FreeOf(e, start, start + len)
  <2> HIDE DEF e
  <2> QED BY <1>2, <1>3, <1>4, SweptCode, Zenon
<1> HIDE DEF e
<1>6. mem' \in [Addr -> Insn] /\ \A x \in Addr : x # a => mem'[x] = mem[x]
  BY <1>1, <1>2
<1>7. a \in start .. (start + len) - 1
  BY <1>1
<1>8. \A u \in e.htable, x \in Addr : Covers(e.tbs[u], x) => mem'[x] = mem[x]
  BY <1>5, <1>6, <1>7, Zenon DEF FreeOf
<1>9. CacheIInv' /\ Kept
  BY <1>1, <1>4, <1>8, LessStep, Zenon
<1>10. RunOK'
  BY <1>1, <1>6, <1>9, RunKept, Zenon
<1> QED BY <1>9, <1>10, Zenon DEF TbIInv

(* The end of an emulation, after which no block ends in front of `until'. *)
LEMMA EndsStep ==
  ASSUME TbIInv, EmuEnds, until # Idle
  PROVE  /\ TbIInv' /\ Kept /\ cur' = None
         /\ until # 0 => \A t \in htable' : tbs'[t].end # until
<1> DEFINE e == uc_exit_invalidate(Cache)
<1>1. /\ SetCache(e) /\ pc' = 0 /\ until' = Idle /\ cur' = None /\ last' = NoJump /\ mem' = mem
  BY Zenon DEF EmuEnds
<1>2. CacheOK(Cache) /\ RunOK
  BY TbIInvParts, Zenon
<1>3. /\ until \in Addr /\ until \in Int /\ until - 1 \in Int /\ Size \in Nat
      /\ (until # 0 => until - 1 \in Addr) /\ (until - 1) + 1 = until /\ 0 \in 0 .. Size
      /\ 1 \in Nat /\ 1 > 0
  <2>1. until \in Untils
    BY <1>2, Zenon DEF RunOK
  <2> QED BY <2>1, TbConstants
<1>4. e = uc_invalidate_tb(Cache, until - 1, 1)
  BY Zenon DEF uc_exit_invalidate
<1>5. /\ Less(Cache, uc_invalidate_tb(Cache, until - 1, 1))
      /\ until - 1 \in Addr =>
           Swept(Cache, uc_invalidate_tb(Cache, until - 1, 1), until - 1, (until - 1) + 1)
  BY <1>2, <1>3, UcInvalidateIs, Zenon
<1> HIDE DEF e
<1>6. Less(Cache, e) /\ (until # 0 => Swept(Cache, e, until - 1, until))
  BY <1>3, <1>4, <1>5, Zenon
<1>7. CacheIInv' /\ Kept
  BY <1>1, <1>6, LessStep, Zenon
<1>8. RunOK'
  <2>1. None \in Nat
    BY DEF None
  <2> QED BY <1>1, <1>2, <1>3, <2>1, Zenon DEF RunOK
<1>9. ASSUME until # 0, NEW t \in htable', tbs'[t].end = until PROVE FALSE
  <2>1. tbs' = e.tbs /\ htable' = e.htable
    BY <1>1, Zenon DEF SetCache
  <2>2. t \in htable /\ t \in DOMAIN tbs /\ SameCode(tbs[t], tbs'[t])
    BY <1>7, TbIInvParts, Zenon DEF Kept
  <2>3. tbs[t] \in Block /\ Shape(tbs[t]) /\ tbs[t].end = until
    BY <1>2, <1>9, <2>2, BlockOf, CacheParts, Zenon DEF SameCode
  <2>4. /\ Page(until - 1) \in PageIds /\ OnPage(tbs[t], Page(until - 1))
        /\ Hit(tbs[t], Page(until - 1), until - 1, until)
    BY <1>3, <1>9, <2>3, EndPages, Zenon
  <2>5. HitOn(tbs[t], Page(until - 1), until - 1, until)
    BY <2>4, Zenon DEF HitOn, RangeStart, RangeEnd
  <2>6. Page(until - 1) <= Page(until - 1)
    <3>1. Page(until - 1) \in Int
      BY <1>3, PageBounds, Zenon
    <3> QED BY <3>1
  <2>7. Swept(Cache, e, until - 1, until) /\ Cache.tbs = tbs /\ t \in e.htable
    BY <1>6, <1>9, <2>1, CacheParts, Zenon
  <2> QED BY <2>4, <2>5, <2>6, <2>7, Zenon DEF Swept
<1> QED BY <1>1, <1>7, <1>8, <1>9, Zenon DEF TbIInv

(* tb_lookup finds only valid blocks at the address. *)
LEMMA LookupIs ==
  ASSUME NEW c, CacheOK(c), NEW p \in Addr, tb_lookup(c, p) # None
  PROVE  tb_lookup(c, p) \in c.htable /\ c.tbs[tb_lookup(c, p)].pc = p
<1> DEFINE t == c.jmp_cache[p]
           found == {x \in c.htable : /\ c.tbs[x].pc = p
                                      /\ c.tbs[x].page2 \in {NoPage, get_page_addr_code(Page(p) + 1)}}
<1>1. CASE t # None /\ ~c.tbs[t].invalid
  <2>1. tb_lookup(c, p) = t
    BY <1>1, Zenon DEF tb_lookup
  <2>2. t \in DOMAIN c.tbs /\ c.tbs[t].pc = p
    BY <1>1, Zenon DEF CacheOK, FoundOK
  <2>3. t \in c.htable
    BY <1>1, <2>2, Zenon DEF CacheOK, Valid
  <2> QED BY <2>1, <2>2, <2>3, Zenon
<1>2. CASE ~(t # None /\ ~c.tbs[t].invalid)
  <2>1. tb_lookup(c, p) = IF found = {} THEN None ELSE CHOOSE x \in found : TRUE
    BY <1>2, Zenon DEF tb_lookup, tb_htable_lookup
  <2>2. found # {} => (CHOOSE x \in found : TRUE) \in found
    BY Zenon
  <2> HIDE DEF found
  <2>3. tb_lookup(c, p) \in found
    BY <2>1, <2>2, Zenon
  <2> QED BY <2>3, Zenon DEF found
<1> QED BY <1>1, <1>2, Zenon

(* The lists and bitmaps depend on the code of the blocks alone. *)
LEMMA PagesSame ==
  ASSUME NEW bs, NEW ht, NEW ds, NEW bn, PagesOK(bs, ht, ds), ht \subseteq DOMAIN bs,
         DOMAIN bn = DOMAIN bs, \A u \in DOMAIN bs : SameCode(bs[u], bn[u])
  PROVE  PagesOK(bn, ht, ds)
<1>1. ASSUME NEW q \in PageIds PROVE PageOK(bn, ht, ds[q], q)
  <2>1. PageOK(bs, ht, ds[q], q)
    BY Zenon DEF PagesOK
  <2>2. \A u \in DOMAIN bs : OnPage(bn[u], q) <=> OnPage(bs[u], q)
    BY Zenon DEF OnPage, SameCode
  <2>3. \A u \in DOMAIN bs : \A a : Covers(bn[u], a) <=> Covers(bs[u], a)
    BY Zenon DEF Covers, SameCode
  <2>4. \A t \in DOMAIN bn : Has(ds[q].first_tb, t) <=> t \in ht /\ OnPage(bn[t], q)
    BY <2>1, <2>2, Zenon DEF PageOK
  <2>5. ds[q].bitmap # NoBitmap =>
          \A t \in ht, a \in Addr : Page(a) = q /\ Covers(bn[t], a) => a \in ds[q].bitmap
    BY <2>1, <2>3, Zenon DEF PageOK
  <2> QED BY <2>1, <2>4, <2>5, Zenon DEF PageOK
<1> QED BY <1>1, Zenon DEF PagesOK

(* What tb_find has before it patches the jump: the cache r.c with the block
   r.tb. *)
Gives(r) ==
  /\ CacheOK(r.c) /\ Current(r.c, mem) /\ r.tb \in r.c.htable /\ r.c.tbs[r.tb].pc = pc
  /\ r.c.jmp_cache = jmp_cache /\ Len(r.c.tbs) <= MAX_TBS
  /\ DOMAIN tbs \subseteq DOMAIN r.c.tbs /\ \A u \in DOMAIN tbs : r.c.tbs[u] = tbs[u]
  /\ \A t \in r.c.htable : t \in htable \/ (r.c.tbs[t].exit = "halt" => r.c.tbs[t].end = until)

(* The block of tb_find is found, or is the new one. *)
LEMMA FindGives ==
  ASSUME TbIInv, pc \in Addr, Fetchable(pc), NEW r,
         \/ tb_lookup(Cache, pc) # None /\ r = [c |-> Cache, tb |-> tb_lookup(Cache, pc)]
         \/ Len(tbs) < MAX_TBS /\ r = tb_link_page(Cache, NewTb(pc))
  PROVE  Gives(r)
<1>1. /\ CacheOK(Cache) /\ Current(Cache, mem) /\ RunOK /\ Len(tbs) <= MAX_TBS
      /\ tbs \in Seq(Block) /\ htable = Valid(tbs) /\ htable \subseteq DOMAIN tbs
  BY TbIInvParts, Zenon
<1>2. Cache.tbs = tbs /\ Cache.htable = htable /\ Cache.jmp_cache = jmp_cache
  BY CacheParts, Zenon
<1>3. CASE tb_lookup(Cache, pc) # None /\ r = [c |-> Cache, tb |-> tb_lookup(Cache, pc)]
  <2>1. tb_lookup(Cache, pc) \in Cache.htable /\ Cache.tbs[tb_lookup(Cache, pc)].pc = pc
    BY <1>1, <1>3, LookupIs, Zenon
  <2>2. r.c = Cache /\ r.tb = tb_lookup(Cache, pc)
    BY <1>3, Zenon
  <2> QED BY <1>1, <1>2, <2>1, <2>2, Zenon DEF Gives
<1>4. CASE Len(tbs) < MAX_TBS /\ r = tb_link_page(Cache, NewTb(pc))
  <2> DEFINE b == NewTb(pc)
  <2>1. until \in Int /\ mem \in [Addr -> Insn]
    <3>1. until \in Untils \cup {Idle} /\ mem \in [Addr -> Insn]
      BY <1>1, Zenon DEF RunOK
    <3> QED BY <3>1, TbConstants DEF Idle
  <2>2. /\ b \in Block /\ Shape(b) /\ Fresh(b) /\ b.pc = pc /\ b.code = CodeOf(b, mem)
        /\ b.exit = "halt" => b.end = until
    BY <2>1, NewTbIs, Zenon
  <2> HIDE DEF b
  <2>3. LinkedAs(Cache, b, r)
    <3>1. r = tb_link_page(Cache, b)
      BY <1>4, Zenon DEF b
    <3> QED BY <1>1, <2>2, <3>1, LinkIs, Zenon
  <2>4. /\ CacheOK(r.c) /\ r.tb \in r.c.htable /\ r.c.tbs[r.tb].pc = pc
        /\ r.c.jmp_cache = jmp_cache
    BY <1>2, <2>2, <2>3, Zenon DEF LinkedAs
  <2>5. CASE r.c = Cache
    BY <1>1, <1>2, <2>4, <2>5, Zenon DEF Gives
  <2>6. CASE r.c.tbs = Append(tbs, b) /\ r.c.htable = htable \cup {Len(tbs) + 1}
    <3> DEFINE t == Len(tbs) + 1
    <3>1. /\ DOMAIN Append(tbs, b) = DOMAIN tbs \cup {t} /\ t \notin DOMAIN tbs
          /\ Append(tbs, b)[t] = b /\ \A u \in DOMAIN tbs : Append(tbs, b)[u] = tbs[u]
          /\ Len(Append(tbs, b)) <= MAX_TBS
      BY <1>1, <1>4, <2>2, TbConstants, SMTT(30)
    <3>2. /\ DOMAIN r.c.tbs = DOMAIN tbs \cup {t} /\ r.c.tbs[t] = b
          /\ \A u \in DOMAIN tbs : r.c.tbs[u] = tbs[u]
          /\ Len(r.c.tbs) <= MAX_TBS /\ r.c.htable = htable \cup {t}
      BY <2>6, <3>1, Zenon
    <3> HIDE DEF t
    <3>3. Current(r.c, mem)
      BY <1>1, <1>2, <2>2, <3>2, Zenon DEF Current
    <3> QED BY <2>2, <2>4, <3>2, <3>3, Zenon DEF Gives
  <2> QED BY <1>2, <2>3, <2>5, <2>6, Zenon DEF LinkedAs
<1> QED BY <1>3, <1>4, Zenon

(* A block that can be found stops the guest at the exit of this emulation, or
   has been there. *)
HaltKept ==
  \A t \in htable' : tbs'[t].exit = "halt" =>
    \/ tbs'[t].end = until
    \/ t \in htable /\ tbs[t].exit = "halt" /\ tbs[t].end = tbs'[t].end

(* tb_find *)
LEMMA FindStep ==
  ASSUME TbIInv, tb_find
  PROVE  TbIInv' /\ cur' \in htable' /\ HaltKept
<1> DEFINE found == tb_lookup(Cache, pc)
           r == IF found = None THEN tb_link_page(Cache, NewTb(pc)) ELSE [c |-> Cache, tb |-> found]
           bs == r.c.tbs
           jc == [jmp_cache EXCEPT ![pc] = r.tb]
<1>1. /\ until # Idle /\ Fetchable(pc) /\ (found = None => Len(tbs) < MAX_TBS)
      /\ tbs' = (IF bs[r.tb].page2 # NoPage THEN bs ELSE tb_add_jump(bs, last, r.tb))
      /\ htable' = r.c.htable /\ jmp_cache' = jc /\ pages' = r.c.pages /\ cur' = r.tb
      /\ last' = NoJump /\ mem' = mem /\ pc' = pc /\ until' = until
  BY Zenon DEF tb_find
<1>2. RunOK /\ CacheOK(Cache) /\ tbs \in Seq(Block)
  BY TbIInvParts, Zenon
<1>3. pc \in Addr /\ until \in Addr
  <2>1. until \in Addr
    BY <1>1, <1>2, TbConstants, SMTT(30) DEF RunOK
  <2> QED BY <1>1, <2>1, ZenonT(30) DEF Fetchable
<1>4. Gives(r)
  <2>1. \/ found # None /\ r = [c |-> Cache, tb |-> found]
        \/ Len(tbs) < MAX_TBS /\ r = tb_link_page(Cache, NewTb(pc))
    BY <1>1, Zenon
  <2> HIDE DEF r
  <2> QED BY <1>1, <1>3, <2>1, FindGives, Zenon
<1> HIDE DEF r, found
<1>5. /\ BlocksOK(bs) /\ r.c.htable = Valid(bs) /\ ChainsOK(bs, r.c.htable)
      /\ PagesOK(bs, r.c.htable, r.c.pages) /\ FoundOK(bs, jmp_cache)
      /\ Current(r.c, mem) /\ r.tb \in r.c.htable /\ bs[r.tb].pc = pc
      /\ Len(bs) <= MAX_TBS
      /\ DOMAIN tbs \subseteq DOMAIN bs /\ \A u \in DOMAIN tbs : bs[u] = tbs[u]
      /\ \A t \in r.c.htable : t \in htable \/ (bs[t].exit = "halt" => bs[t].end = until)
  BY <1>4, Zenon DEF Gives, CacheOK
<1> HIDE DEF bs
<1>6. SameBlocks(bs, tbs', r.c.htable)
  <2>1. CASE bs[r.tb].page2 # NoPage
    <3>1. tbs' = bs
      BY <1>1, <2>1, Zenon
    <3> QED BY <1>5, <3>1, Zenon DEF SameBlocks, SameCode
  <2>2. CASE bs[r.tb].page2 = NoPage
    <3>1. tbs' = tb_add_jump(bs, last, r.tb)
      BY <1>1, <2>2, Zenon
    <3>2. last \in Jumps \cup {NoJump}
      BY <1>2, Zenon DEF RunOK, Jumps
    <3>3. last # NoJump => last[1] \in DOMAIN bs /\ Target(bs[last[1]], last[2]) = bs[r.tb].pc
      BY <1>2, <1>5, Zenon DEF RunOK
    <3>4. SameBlocks(bs, tb_add_jump(bs, last, r.tb), r.c.htable)
      BY <1>5, <2>2, <3>2, <3>3, JumpAdded, Zenon
    <3> QED BY <3>1, <3>4, Zenon
  <2> QED BY <2>1, <2>2, Zenon
<1>7. /\ BlocksOK(tbs') /\ ChainsOK(tbs', htable') /\ Valid(tbs') = htable'
      /\ DOMAIN tbs' = DOMAIN bs /\ \A u \in DOMAIN bs : SameCode(bs[u], tbs'[u])
  BY <1>1, <1>6, ZenonT(30) DEF SameBlocks
<1>8. r.c.htable \subseteq DOMAIN bs /\ r.tb \in DOMAIN bs /\ r.tb \in Nat /\ r.tb # None
  <2>1. bs \in Seq(Block) /\ r.c.htable \subseteq DOMAIN bs
    BY <1>5, Zenon DEF BlocksOK, Valid
  <2> QED BY <1>5, <2>1 DEF None
<1>9. PagesOK(tbs', htable', pages')
  <2>1. PagesOK(tbs', r.c.htable, r.c.pages)
    BY <1>5, <1>7, <1>8, PagesSame, Zenon
  <2> QED BY <1>1, <2>1, Zenon
<1>10. FoundOK(tbs', jmp_cache')
  <2>1. jmp_cache \in [Addr -> Nat]
    BY <1>5, Zenon DEF FoundOK
  <2>2. jc \in [Addr -> Nat] /\ \A a \in Addr : jc[a] = IF a = pc THEN r.tb ELSE jmp_cache[a]
    BY <1>3, <1>8, <2>1, SMTT(30)
  <2> HIDE DEF jc
  <2>3. ASSUME NEW a \in Addr, jc[a] # None PROVE jc[a] \in DOMAIN tbs' /\ tbs'[jc[a]].pc = a
    <3>1. jc[a] \in DOMAIN bs /\ bs[jc[a]].pc = a
      BY <1>5, <1>8, <2>2, <2>3, Zenon DEF FoundOK
    <3> QED BY <1>7, <3>1, Zenon DEF SameCode
  <2> QED BY <1>1, <2>2, <2>3, Zenon DEF FoundOK
<1>11. CacheOK(Cache)'
  <2>1. /\ Cache'.tbs = tbs' /\ Cache'.htable = htable'
        /\ Cache'.jmp_cache = jmp_cache' /\ Cache'.pages = pages'
    BY DEF Cache
  <2>2. CacheOK(Cache')
    BY <1>7, <1>9, <1>10, <2>1, Zenon DEF CacheOK
  <2> QED BY <2>2
<1>12. Len(tbs') <= MAX_TBS
  <2>1. tbs' \in Seq(Block) /\ bs \in Seq(Block)
    BY <1>5, <1>7, ZenonT(30) DEF BlocksOK
  <2>2. Len(tbs') = Len(bs)
    BY <1>7, <2>1
  <2> QED BY <1>5, <2>2, Zenon
<1>13. \A t \in htable' : tbs'[t].code = CodeOf(tbs'[t], mem')
  <2> SUFFICES ASSUME NEW t \in htable' PROVE tbs'[t].code = CodeOf(tbs'[t], mem')
    BY Zenon
  <2>1. SameCode(bs[t], tbs'[t]) /\ bs[t].code = CodeOf(bs[t], mem)
    BY <1>1, <1>5, <1>7, <1>8, Zenon DEF Current, bs
  <2>2. CodeOf(tbs'[t], mem) = CodeOf(bs[t], mem)
    BY <2>1, Zenon DEF CodeOf, SameCode
  <2> QED BY <1>1, <2>1, <2>2, Zenon DEF SameCode
<1>14. RunOK'
  <2>1. tbs'[r.tb].pc = pc
    BY <1>5, <1>7, <1>8, Zenon DEF SameCode
  <2> QED BY <1>1, <1>2, <1>7, <1>8, <2>1, Zenon DEF RunOK
<1>15. HaltKept
  <2> SUFFICES ASSUME NEW t \in htable', tbs'[t].exit = "halt"
               PROVE  \/ tbs'[t].end = until
                      \/ t \in htable /\ tbs[t].exit = "halt" /\ tbs[t].end = tbs'[t].end
    BY Zenon DEF HaltKept
  <2>1. t \in r.c.htable /\ bs[t].exit = "halt" /\ bs[t].end = tbs'[t].end
    BY <1>1, <1>7, <1>8, Zenon DEF SameCode
  <2>2. CASE bs[t].end = until
    BY <2>1, <2>2, Zenon
  <2>3. CASE t \in htable
    <3>1. bs[t] = tbs[t]
      BY <1>5, <2>3, TbIInvParts, Zenon
    <3> QED BY <2>1, <2>3, <3>1, Zenon
  <2> QED BY <1>5, <2>1, <2>2, <2>3, Zenon
<1> QED BY <1>1, <1>5, <1>11, <1>12, <1>13, <1>14, <1>15, Zenon DEF TbIInv, CacheIInv

(* A flush, of a full buffer or by the embedding program. *)
LEMMA FlushStep ==
  ASSUME TbIInv, FlushFull \/ HostFlush
  PROVE  TbIInv' /\ htable' = {} /\ cur' = None
<1>1. RunOK
  BY TbIInvParts, Zenon
<1>2. /\ SetCache(NoCode) /\ mem' = mem /\ pc' = pc /\ until' = until /\ cur' = None
      /\ last' = NoJump
  <2>1. CASE FlushFull
    BY <2>1, Zenon DEF FlushFull, Running
  <2>2. CASE HostFlush
    BY <1>1, <2>2, Zenon DEF HostFlush, RunOK
  <2> QED BY <2>1, <2>2, Zenon
<1>3. CacheOK(Cache)'
  BY <1>2, NoCodeOK, CacheSet, Zenon
<1>4. tbs' = <<>> /\ htable' = {}
  BY <1>2, NoCodeOK, Zenon DEF SetCache
<1>5. Len(tbs') <= MAX_TBS
  <2>1. MAX_TBS \in Nat
    BY TbConstants
  <2> QED BY <1>4, <2>1
<1>6. CacheIInv'
  BY <1>3, <1>4, <1>5, Zenon DEF CacheIInv
<1>7. RunOK'
  <2>1. None \in Nat
    BY DEF None
  <2> QED BY <1>1, <1>2, <2>1, Zenon DEF RunOK
<1> QED BY <1>2, <1>4, <1>6, <1>7, Zenon DEF TbIInv

(* The cache and the memory stay. *)
LEMMA CacheStays ==
  ASSUME CacheIInv, UNCHANGED <<mem, cache>>
  PROVE  CacheIInv' /\ tbs' = tbs /\ htable' = htable /\ mem' = mem
<1>1. mem' = mem /\ tbs' = tbs /\ htable' = htable /\ jmp_cache' = jmp_cache /\ pages' = pages
  BY DEF cache
<1> QED BY <1>1, Zenon DEF CacheIInv, Cache

(* The start of an emulation. *)
LEMMA BeginStep ==
  ASSUME TbIInv, NEW begin \in Addr, NEW u \in Untils, EmuStart(begin, u)
  PROVE  TbIInv' /\ cur' = None /\ until = Idle
<1>1. /\ until = Idle /\ pc' = begin /\ until' = u /\ cur' = cur /\ last' = last
      /\ UNCHANGED <<mem, cache>>
  BY DEF EmuStart
<1>2. CacheIInv /\ RunOK
  BY Zenon DEF TbIInv
<1>3. CacheIInv' /\ tbs' = tbs /\ mem' = mem
  BY <1>1, <1>2, CacheStays, Zenon
<1>4. cur = None /\ last = NoJump
  BY <1>1, <1>2, Zenon DEF RunOK
<1>5. begin \in 0 .. Size
  BY TbConstants
<1>6. RunOK'
  BY <1>1, <1>2, <1>3, <1>4, <1>5, Zenon DEF RunOK
<1> QED BY <1>1, <1>3, <1>4, <1>6, Zenon DEF TbIInv

(* A block is left. *)
LEMMA LeaveStep ==
  ASSUME TbIInv, NEW n \in 1 .. 2, NEW dest \in 0 .. PAGE_SIZE * PAGES, LeaveBlock(n, dest)
  PROVE  /\ TbIInv' /\ tbs' = tbs /\ htable' = htable /\ until' = until
         /\ cur \in htable /\ cur' # None => cur' \in htable'
<1>1. CacheIInv /\ RunOK /\ CacheOK(Cache)
  BY Zenon DEF TbIInv, CacheIInv
<1>2. /\ cur # None /\ pc' = dest /\ until' = until /\ UNCHANGED <<mem, cache>>
      /\ cur' = tbs[cur].dest[n]
      /\ last' = <<cur, n>> \/ last' = NoJump
      /\ (n = 2 /\ dest = tbs[cur].end) \/ (n = 1 /\ dest = BranchTo)
  <2>1. UNCHANGED <<mem, cache>>
    BY DEF LeaveBlock
  <2>2. cur # None /\ pc' = dest /\ until' = until /\ cur' = tbs[cur].dest[n]
    BY Zenon DEF LeaveBlock, Running
  <2>3. last' = <<cur, n>> \/ last' = NoJump
    BY Zenon DEF LeaveBlock
  <2>4. (n = 2 /\ dest = tbs[cur].end) \/ (n = 1 /\ dest = BranchTo)
    BY Zenon DEF LeaveBlock
  <2> QED BY <2>1, <2>2, <2>3, <2>4, Zenon
<1>3. CacheIInv' /\ tbs' = tbs /\ htable' = htable /\ mem' = mem
  BY <1>1, <1>2, CacheStays, Zenon
<1>4. cur \in DOMAIN tbs /\ until # Idle /\ cur \in Nat
  BY <1>1, <1>2, Zenon DEF RunOK
<1>5. Target(tbs[cur], n) = dest
  BY <1>2 DEF Target
<1>6. BlocksOK(tbs) /\ ChainsOK(tbs, htable)
  BY <1>1, CacheParts, Zenon DEF CacheOK
<1>7. cur' # None => cur' \in DOMAIN tbs /\ tbs[cur'].pc = dest
  BY <1>2, <1>4, <1>5, <1>6, Zenon DEF BlocksOK
<1>8. cur' \in Nat
  <2>1. tbs \in Seq(Block)
    BY <1>6, Zenon DEF BlocksOK
  <2>2. tbs[cur] \in Block
    BY <1>4, <2>1
  <2>3. tbs[cur].dest \in [1 .. 2 -> Nat]
    BY <2>2, BlockTypes, Zenon
  <2> QED BY <1>2, <2>3, Zenon
<1>9. /\ last' \in (Nat \X (1 .. 2)) \cup {NoJump}
      /\ last' # NoJump => last'[1] \in DOMAIN tbs /\ Target(tbs[last'[1]], last'[2]) = dest
  <2>1. <<cur, n>>[1] = cur /\ <<cur, n>>[2] = n /\ <<cur, n>> \in Nat \X (1 .. 2)
    BY <1>4
  <2> QED BY <1>2, <1>4, <1>5, <2>1, Zenon
<1>10. RunOK'
  <2>1. dest \in 0 .. Size
    BY DEF Size
  <2> QED BY <1>1, <1>2, <1>3, <1>4, <1>7, <1>8, <1>9, <2>1, ZenonT(30) DEF RunOK
<1>11. cur \in htable /\ cur' # None => cur' \in htable'
  BY <1>2, <1>3, <1>6, Zenon DEF ChainsOK
<1> QED BY <1>2, <1>3, <1>10, <1>11, Zenon DEF TbIInv

(* An emulation that ends is one. *)
LEMMA EndsWhen ==
  ASSUME TbIInv, FetchFails \/ Halt \/ Stop
  PROVE  EmuEnds /\ until # Idle
<1>1. RunOK
  BY Zenon DEF TbIInv
<1>2. cur # None => until # Idle
  BY <1>1, Zenon DEF RunOK
<1> QED BY <1>2, Zenon DEF FetchFails, Halt, Stop, Executes, Running

(* The cache is empty at first. *)
LEMMA TbIInvInit == TbInit => TbIInv
<1> SUFFICES ASSUME TbInit PROVE TbIInv
  OBVIOUS
<1>1. /\ tbs = NoCode.tbs /\ htable = NoCode.htable
      /\ jmp_cache = NoCode.jmp_cache /\ pages = NoCode.pages
      /\ mem = [a \in Addr |-> "n"] /\ pc = 0 /\ until = Idle /\ cur = None /\ last = NoJump
  BY Zenon DEF TbInit
<1>2. CacheOK(Cache)
  BY <1>1, NoCodeOK, CacheParts, Zenon DEF CacheOK
<1>3. tbs = <<>> /\ htable = {}
  BY <1>1, NoCodeOK, Zenon
<1>4. Len(tbs) <= MAX_TBS
  <2>1. MAX_TBS \in Nat
    BY TbConstants
  <2> QED BY <1>3, <2>1
<1>5. CacheIInv
  BY <1>2, <1>3, <1>4, Zenon DEF CacheIInv
<1>6. RunOK
  <2>1. None \in Nat /\ 0 \in 0 .. Size /\ "n" \in Insn
    BY TbConstants DEF None, Insn
  <2> QED BY <1>1, <2>1, Zenon DEF RunOK
<1> QED BY <1>5, <1>6, Zenon DEF TbIInv

(* A step leaves the blocks as they were but for their jumps and their
   validity, or ends with a valid block or none. *)
LEMMA TbIInvNext ==
  ASSUME TbIInv, TbNext
  PROVE  /\ TbIInv'
         /\ \/ Kept /\ UNCHANGED cur
            \/ cur' = None
            \/ cur' \in htable'
            \/ cur # None /\ cur \notin htable
<1>1. ASSUME NEW begin \in Addr, NEW u \in Untils, EmuStart(begin, u)
      PROVE  TbIInv' /\ cur' = None
  BY <1>1, BeginStep, Zenon
<1>2. CASE FlushFull \/ HostFlush
  BY <1>2, FlushStep, Zenon
<1>3. CASE tb_find
  BY <1>3, FindStep, Zenon
<1>4. CASE FetchFails \/ Halt \/ Stop
  BY <1>4, EndsWhen, EndsStep, Zenon
<1>5. ASSUME NEW w \in Patches, GuestStore(w[1], w[2])
      PROVE  TbIInv' /\ Kept /\ cur' = cur
  <2>1. cur' = cur
    BY <1>5 DEF GuestStore
  <2>2. w[1] \in Addr /\ w[2] \in Insn
    BY PatchIn, Zenon
  <2> QED BY <1>5, <2>1, <2>2, StoreStep, Zenon
<1>6. ASSUME NEW w \in Patches, NEW start \in Addr, NEW len \in 1 .. RemoveLen,
             HostEdit(w[1], w[2], start, len)
      PROVE  TbIInv' /\ Kept /\ cur' = cur
  <2>1. cur' = cur
    BY <1>6 DEF HostEdit
  <2>2. w[1] \in Addr /\ w[2] \in Insn
    BY PatchIn, Zenon
  <2> QED BY <1>6, <2>1, <2>2, EditStep, Zenon
<1>7. ASSUME NEW n \in 1 .. 2, NEW dest \in 0 .. PAGE_SIZE * PAGES, LeaveBlock(n, dest)
      PROVE  TbIInv' /\ cur # None /\ (cur' = None \/ cur' \in htable' \/ cur \notin htable)
  <2>1. cur # None
    BY <1>7, Zenon DEF LeaveBlock, Running
  <2> QED BY <1>7, <2>1, LeaveStep, Zenon
<1> QED BY <1>1, <1>2, <1>3, <1>4, <1>5, <1>6, <1>7, ZenonT(30) DEF TbNext

(* Nothing happens. *)
LEMMA TbIInvStays ==
  ASSUME TbIInv, UNCHANGED tbVars
  PROVE  TbIInv' /\ tbs' = tbs /\ htable' = htable /\ until' = until
<1>1. /\ mem' = mem /\ tbs' = tbs /\ htable' = htable /\ jmp_cache' = jmp_cache
      /\ pages' = pages /\ pc' = pc /\ until' = until /\ cur' = cur /\ last' = last
  BY DEF tbVars, cache
<1>2. CacheIInv'
  BY <1>1, Zenon DEF TbIInv, CacheIInv, Cache
<1>3. RunOK'
  BY <1>1, Zenon DEF TbIInv, RunOK
<1> QED BY <1>1, <1>2, <1>3, Zenon DEF TbIInv

(* The inductive invariant holds in every reachable state. *)
LEMMA TbInductive == TbSpec => []TbIInv
<1>1. TbInit => TbIInv
  BY TbIInvInit
<1>2. TbIInv /\ [TbNext]_tbVars => TbIInv'
  <2> SUFFICES ASSUME TbIInv, [TbNext]_tbVars PROVE TbIInv'
    OBVIOUS
  <2>1. CASE TbNext
    BY <2>1, TbIInvNext, Zenon
  <2>2. CASE UNCHANGED tbVars
    BY <2>2, TbIInvStays, Zenon
  <2> QED BY <2>1, <2>2
<1> QED BY <1>1, <1>2, PTL DEF TbSpec

-----------------------------------------------------------------------------
(* The theorems about TbCache *)

(* A list of things that are all in T is a list of T. *)
LEMMA SeqIn ==
  ASSUME NEW S, NEW T, NEW list \in Seq(S), \A i \in DOMAIN list : list[i] \in T
  PROVE  list \in Seq(T)
  OBVIOUS

(* The types of the blocks. *)
LEMMA BlockTyped ==
  ASSUME TbIInv, NEW t \in DOMAIN tbs
  PROVE  /\ tbs[t].pc \in Addr /\ tbs[t].end \in Addr \cup {PAGE_SIZE * PAGES}
         /\ tbs[t].exit \in {"halt", "branch", "next"}
         /\ tbs[t].page2 \in PageIds \cup {NoPage}
         /\ tbs[t].dest \in [1 .. 2 -> TbIds \cup {None}]
         /\ tbs[t].jmp_list \in Seq(TbIds \X (1 .. 2))
<1>1. BlocksOK(tbs)
  BY TbIInvParts, CacheParts, Zenon DEF CacheOK
<1>2. tbs[t] \in Block
  <2>1. tbs \in Seq(Block)
    BY <1>1, Zenon DEF BlocksOK
  <2> QED BY <2>1
<1>3. /\ tbs[t].pc \in Addr /\ tbs[t].end \in 0 .. Size /\ tbs[t].page2 \in PageIds \cup {NoPage}
      /\ tbs[t].exit \in {"halt", "branch", "next"}
  BY <1>2, Zenon DEF Block
<1>4. tbs[t].end \in Addr \cup {PAGE_SIZE * PAGES}
  BY <1>3, TbConstants, SMTT(30) DEF Size
<1>5. tbs[t].dest \in [1 .. 2 -> TbIds \cup {None}]
  <2>1. tbs[t].dest \in [1 .. 2 -> Nat]
    BY <1>2, BlockTypes, Zenon
  <2>2. \A n \in 1 .. 2 : tbs[t].dest[n] \in TbIds \cup {None}
    BY <1>1, Zenon DEF BlocksOK, TbIds
  <2> QED BY <2>1, <2>2
<1>6. tbs[t].jmp_list \in Seq(TbIds \X (1 .. 2))
  <2> DEFINE list == tbs[t].jmp_list
  <2>1. list \in Seq(Jumps)
    BY <1>2, BlockTypes, Zenon
  <2>2. \A i \in DOMAIN list : list[i][1] \in TbIds
    BY <1>1, Zenon DEF BlocksOK, TbIds
  <2> HIDE DEF list
  <2>3. \A i \in DOMAIN list : list[i] \in TbIds \X (1 .. 2)
    <3> SUFFICES ASSUME NEW i \in DOMAIN list PROVE list[i] \in TbIds \X (1 .. 2)
      OBVIOUS
    <3>1. list[i] \in Jumps
      BY <2>1
    <3>2. list[i][1] \in TbIds
      BY <2>2, Zenon
    <3> QED BY <3>1, <3>2 DEF Jumps
  <2>4. list \in Seq(TbIds \X (1 .. 2))
    BY <2>1, <2>3, SeqIn, Zenon
  <2> QED BY <2>4 DEF list
<1> QED BY <1>3, <1>4, <1>5, <1>6, Zenon

(* The inductive invariant has the properties that the run checks. *)
LEMMA TbIInvImplies ==
  ASSUME TbIInv
  PROVE  TbInv /\ CodeCurrent
<1>1. /\ CacheOK(Cache) /\ Current(Cache, mem) /\ RunOK /\ Len(tbs) <= MAX_TBS
      /\ tbs \in Seq(Block) /\ htable = Valid(tbs) /\ htable \subseteq DOMAIN tbs
  BY TbIInvParts, Zenon
<1>2. /\ BlocksOK(tbs) /\ ChainsOK(tbs, htable) /\ PagesOK(tbs, htable, pages)
      /\ FoundOK(tbs, jmp_cache)
  BY <1>1, CacheParts, Zenon DEF CacheOK
<1>3. TbTypeOK
  <2>1. jmp_cache \in [Addr -> TbIds \cup {None}]
    <3>1. jmp_cache \in [Addr -> Nat] /\ \A a \in Addr : jmp_cache[a] \in TbIds \cup {None}
      BY <1>2, Zenon DEF FoundOK, TbIds
    <3> QED BY <3>1
  <2>2. ASSUME NEW p \in PageIds
        PROVE  /\ pages[p].first_tb \in Seq(TbIds)
               /\ pages[p].count \in 0 .. SMC_BITMAP_USE_THRESHOLD
    <3>1. pages[p] \in Desc /\ PageOK(tbs, htable, pages[p], p)
      BY <1>2, Zenon DEF PagesOK
    <3>2. pages[p].first_tb \in Seq(Nat) /\ pages[p].count \in Nat
      BY <3>1, DescParts, Zenon
    <3>3. /\ \A i \in DOMAIN pages[p].first_tb : pages[p].first_tb[i] \in TbIds
          /\ pages[p].count <= SMC_BITMAP_USE_THRESHOLD
      BY <3>1, Zenon DEF PageOK, TbIds
    <3>4. pages[p].first_tb \in Seq(TbIds)
      BY <3>2, <3>3, SeqIn, Zenon
    <3>5. pages[p].count \in 0 .. SMC_BITMAP_USE_THRESHOLD
      BY <3>2, <3>3, TbConstants, SMTT(30)
    <3> QED BY <3>4, <3>5, Zenon
  <2>3. until \in Addr \cup {Idle}
    BY <1>1, TbConstants, Zenon DEF RunOK
  <2>4. cur \in TbIds \cup {None}
    BY <1>1, Zenon DEF RunOK, TbIds
  <2>5. last \in (TbIds \X (1 .. 2)) \cup {NoJump}
    <3>1. last # NoJump => last \in Nat \X (1 .. 2) /\ last[1] \in TbIds
      BY <1>1, Zenon DEF RunOK, TbIds
    <3> QED BY <3>1
  <2>6. mem \in [Addr -> Insn] /\ pc \in 0 .. PAGE_SIZE * PAGES
    BY <1>1, Zenon DEF RunOK, Size
  <2> QED BY <1>1, <2>1, <2>2, <2>3, <2>4, <2>5, <2>6, BlockTyped, ZenonT(30) DEF TbTypeOK, TbIds
<1>4. ListsAgree
  <2>1. htable = {t \in TbIds : ~tbs[t].invalid}
    BY <1>1, Zenon DEF Valid, TbIds
  <2>2. ASSUME NEW p \in PageIds
        PROVE  /\ \A t \in TbIds : Has(pages[p].first_tb, t) <=>
                    t \in htable /\ p \in {Page(tbs[t].pc), tbs[t].page2}
               /\ Distinct(pages[p].first_tb)
    <3>1. PageOK(tbs, htable, pages[p], p)
      BY <1>2, Zenon DEF PagesOK
    <3> QED BY <3>1, Zenon DEF PageOK, OnPage, TbIds
  <2>3. \A a \in Addr : jmp_cache[a] # None => tbs[jmp_cache[a]].pc = a
    BY <1>2, Zenon DEF FoundOK
  <2> QED BY <2>1, <2>2, <2>3, Zenon DEF ListsAgree
<1>5. ChainsAgree
  <2>1. \A x \in htable : ~tbs[x].invalid
    BY <1>1, Zenon DEF Valid
  <2>2. ASSUME NEW t \in htable, NEW n \in 1 .. 2, tbs[t].dest[n] # None
        PROVE  /\ ~tbs[tbs[t].dest[n]].invalid
               /\ tbs[tbs[t].dest[n]].page2 = NoPage
               /\ Has(tbs[tbs[t].dest[n]].jmp_list, <<t, n>>)
    <3>1. /\ tbs[t].dest[n] \in htable
          /\ tbs[tbs[t].dest[n]].page2 = NoPage
          /\ Has(tbs[tbs[t].dest[n]].jmp_list, <<t, n>>)
      BY <1>2, <2>2, Zenon DEF ChainsOK
    <3> QED BY <2>1, <3>1, Zenon
  <2>3. ASSUME NEW t \in htable, NEW i \in DOMAIN tbs[t].jmp_list
        PROVE  /\ ~tbs[tbs[t].jmp_list[i][1]].invalid
               /\ tbs[tbs[t].jmp_list[i][1]].dest[tbs[t].jmp_list[i][2]] = t
    <3>1. /\ tbs[t].jmp_list[i][1] \in htable
          /\ tbs[tbs[t].jmp_list[i][1]].dest[tbs[t].jmp_list[i][2]] = t
      BY <1>2, Zenon DEF ChainsOK
    <3> QED BY <2>1, <3>1, Zenon
  <2>4. \A t \in htable : Distinct(tbs[t].jmp_list)
    BY <1>2, Zenon DEF ChainsOK
  <2> DEFINE D(t) == \A n \in 1 .. 2 : tbs[t].dest[n] # None =>
                       LET d == tbs[tbs[t].dest[n]]
                       IN  ~d.invalid /\ d.page2 = NoPage /\ Has(d.jmp_list, <<t, n>>)
             J(t) == \A i \in DOMAIN tbs[t].jmp_list :
                       LET j == tbs[t].jmp_list[i]
                       IN  ~tbs[j[1]].invalid /\ tbs[j[1]].dest[j[2]] = t
  <2>5. \A t \in htable : D(t)
    BY <2>2, Zenon
  <2>6. \A t \in htable : J(t)
    BY <2>3, Zenon
  <2>7. ChainsAgree <=> \A t \in htable : D(t) /\ J(t) /\ Distinct(tbs[t].jmp_list)
    BY DEF ChainsAgree
  <2> HIDE DEF D, J
  <2> QED BY <2>4, <2>5, <2>6, <2>7, Zenon
<1>6. CodeCurrent
  BY Zenon DEF TbIInv, CacheIInv, CodeCurrent, CodeOf, Code
<1> QED BY <1>3, <1>4, <1>5, <1>6, Zenon DEF TbInv

(* The lists, bitmaps, tables and jumps of the cache agree with one another,
   whatever the size of the pages and of the buffer, the bitmap's threshold and
   the writes: every way to a block is known to the code that invalidates it. *)
THEOREM TbSafe == TbSpec => []TbInv
<1>1. TbIInv => TbInv
  BY TbIInvImplies, SMTT(30)
<1> QED BY <1>1, TbInductive, PTL

(* A block that can be found is a translation of the code that is in memory,
   after any sequence of stores, edits, flushes and emulations. *)
THEOREM TbCurrent == TbSpec => []CodeCurrent
<1>1. TbIInv => CodeCurrent
  BY TbIInvImplies
<1> QED BY <1>1, TbInductive, PTL

(* The block that the vCPU is in after a step is current, if it was valid
   before the step and memory has not changed. *)
LEMMA EntersStep ==
  ASSUME TbIInv, TbNext, Running => ~tbs[cur].invalid, cur' # None, mem' = mem
  PROVE  tbs'[cur'].pc = pc' /\ tbs'[cur'].code = Code(tbs'[cur'])
<1>1. /\ TbIInv'
      /\ \/ Kept /\ UNCHANGED cur
         \/ cur' = None
         \/ cur' \in htable'
         \/ cur # None /\ cur \notin htable
  BY TbIInvNext, Zenon
<1>2. /\ tbs'[cur'].pc = pc'
      /\ \A t \in htable' : tbs'[t].code = CodeOf(tbs'[t], mem')
  BY <1>1, Zenon DEF TbIInv, CacheIInv, RunOK
<1>3. \A b : CodeOf(b, mem) = Code(b)
  BY Zenon DEF CodeOf, Code
<1>4. cur # None => cur \in htable /\ cur \in DOMAIN tbs
  <2>1. cur # None => cur \in DOMAIN tbs
    BY Zenon DEF TbIInv, RunOK
  <2>2. htable = Valid(tbs)
    BY TbIInvParts, Zenon
  <2> QED BY <2>1, <2>2, Zenon DEF Valid, Running
<1>5. CASE cur' \in htable'
  BY <1>2, <1>3, <1>5, Zenon
<1>6. CASE Kept /\ cur' = cur
  <2>1. SameCode(tbs[cur], tbs'[cur]) /\ tbs[cur].code = CodeOf(tbs[cur], mem)
    BY <1>4, <1>6, Zenon DEF Kept, TbIInv, CacheIInv
  <2>2. CodeOf(tbs'[cur], mem) = CodeOf(tbs[cur], mem)
    BY <2>1, Zenon DEF CodeOf, SameCode
  <2>3. tbs'[cur].code = Code(tbs'[cur])
    BY <1>3, <2>1, <2>2, Zenon DEF SameCode
  <2> QED BY <1>2, <1>6, <2>3, Zenon
<1> QED BY <1>1, <1>4, <1>5, <1>6, Zenon

(* The vCPU enters only current blocks, at the address where it has gone to,
   by a lookup or by a patched jump, unless its block was invalidated while it
   was running. *)
THEOREM TbEnters == TbSpec => EntersCurrent
<1>1. TbIInv /\ [TbNext]_tbVars =>
        [(/\ Running => ~tbs[cur].invalid
          /\ cur' # None /\ mem' = mem)
         => (tbs'[cur'].pc = pc' /\ tbs'[cur'].code = Code(tbs'[cur']))]_tbVars
  <2> SUFFICES ASSUME TbIInv, TbNext, Running => ~tbs[cur].invalid, cur' # None, mem' = mem
               PROVE  tbs'[cur'].pc = pc' /\ tbs'[cur'].code = Code(tbs'[cur'])
    OBVIOUS
  <2> QED BY EntersStep
<1> QED BY <1>1, TbInductive, PTL DEF TbSpec, EntersCurrent

(* A step keeps HaltsOnlyAtUntil: the blocks that stop the guest go when the
   emulation ends. *)
LEMMA HaltsNext ==
  ASSUME TbIInv, HaltsOnlyAtUntil, TbNext, 0 \notin Untils
  PROVE  HaltsOnlyAtUntil'
<1> SUFFICES ASSUME NEW t \in htable', tbs'[t].exit = "halt" PROVE tbs'[t].end = until'
  BY Zenon DEF HaltsOnlyAtUntil
<1>1. RunOK /\ htable \subseteq DOMAIN tbs
  BY TbIInvParts, Zenon
<1>2. \A x \in htable : tbs[x].exit = "halt" => tbs[x].end = until
  BY Zenon DEF HaltsOnlyAtUntil
<1>3. Kept => t \in htable /\ tbs[t].exit = "halt" /\ tbs'[t].end = until
  BY <1>1, <1>2, Zenon DEF Kept, SameCode
<1>4. ASSUME NEW begin \in Addr, NEW u \in Untils, EmuStart(begin, u)
      PROVE  FALSE
  <2>1. until = Idle /\ tbs' = tbs /\ htable' = htable
    BY <1>4 DEF EmuStart, cache
  <2>2. t \in DOMAIN tbs /\ tbs[t].end = Idle
    BY <1>1, <1>2, <2>1, Zenon
  <2>3. tbs[t] \in Block
    BY <2>2, TbIInvParts
  <2>4. tbs[t].end \in 0 .. Size
    BY <2>3, Zenon DEF Block
  <2> QED BY <2>2, <2>4, SMTT(30) DEF Idle
<1>5. CASE FlushFull \/ HostFlush
  BY <1>5, FlushStep, Zenon
<1>6. CASE tb_find
  <2>1. HaltKept /\ until' = until
    BY <1>6, FindStep, Zenon DEF tb_find
  <2> QED BY <1>2, <2>1, Zenon DEF HaltKept
<1>7. CASE FetchFails \/ Halt \/ Stop
  <2>1. EmuEnds /\ until # Idle
    BY <1>7, EndsWhen, Zenon
  <2>2. until # 0
    BY <1>1, <2>1, Zenon DEF RunOK
  <2>3. Kept /\ \A x \in htable' : tbs'[x].end # until
    BY <2>1, <2>2, EndsStep, Zenon
  <2> QED BY <1>3, <2>3, Zenon
<1>8. ASSUME NEW w \in Patches, GuestStore(w[1], w[2]) PROVE tbs'[t].end = until'
  <2>1. until' = until
    BY <1>8 DEF GuestStore
  <2>2. w[1] \in Addr /\ w[2] \in Insn
    BY PatchIn, Zenon
  <2>3. Kept
    BY <1>8, <2>2, StoreStep, Zenon
  <2> QED BY <1>3, <2>1, <2>3, Zenon
<1>9. ASSUME NEW w \in Patches, NEW start \in Addr, NEW len \in 1 .. RemoveLen,
             HostEdit(w[1], w[2], start, len)
      PROVE  tbs'[t].end = until'
  <2>1. until' = until
    BY <1>9 DEF HostEdit
  <2>2. w[1] \in Addr /\ w[2] \in Insn
    BY PatchIn, Zenon
  <2>3. Kept
    BY <1>9, <2>2, EditStep, Zenon
  <2> QED BY <1>3, <2>1, <2>3, Zenon
<1>10. ASSUME NEW n \in 1 .. 2, NEW dest \in 0 .. PAGE_SIZE * PAGES, LeaveBlock(n, dest)
       PROVE  tbs'[t].end = until'
  <2>1. tbs' = tbs /\ htable' = htable /\ until' = until
    BY <1>10, LeaveStep, Zenon
  <2> QED BY <1>2, <2>1, Zenon
<1> QED BY <1>4, <1>5, <1>6, <1>7, <1>8, <1>9, <1>10, Zenon DEF TbNext

(* A block that can be found stops the guest only at the exit of the emulation
   in progress, when no exit is the first mapped address: uc_exit_invalidate
   removes the blocks of an exit by the halfword in front of it. *)
THEOREM TbHalts ==
  ASSUME 0 \notin Untils
  PROVE  TbSpec => []HaltsOnlyAtUntil
<1>1. TbInit => HaltsOnlyAtUntil
  <2>1. TbInit => htable = {}
    BY NoCodeOK, Zenon DEF TbInit
  <2> QED BY <2>1, Zenon DEF HaltsOnlyAtUntil
<1>2. TbIInv /\ HaltsOnlyAtUntil /\ [TbNext]_tbVars => HaltsOnlyAtUntil'
  <2> SUFFICES ASSUME TbIInv, HaltsOnlyAtUntil, [TbNext]_tbVars PROVE HaltsOnlyAtUntil'
    OBVIOUS
  <2>1. CASE TbNext
    BY <2>1, HaltsNext, Zenon
  <2>2. CASE UNCHANGED tbVars
    <3>1. tbs' = tbs /\ htable' = htable /\ until' = until
      BY <2>2, TbIInvStays, Zenon
    <3> QED BY <3>1, Zenon DEF HaltsOnlyAtUntil
  <2> QED BY <2>1, <2>2
<1> QED BY <1>1, <1>2, TbInductive, PTL DEF TbSpec
=============================================================================
