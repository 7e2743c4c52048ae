--------------------------- MODULE UnicornProofs ---------------------------
(***************************************************************************)
(* Proofs about the calls of uc.c.  UcMemory: for every number of pages,   *)
(* all permissions and contents and every MEM_BLOCK_INCR.  UcEmu: for      *)
(* every depth of nesting and every choice of what callbacks do.           *)
(*                                                                         *)
(* The lemmas about UcMemory go from positions to sets: what the calls do  *)
(* to the array is said once as what they do to the set of its regions,    *)
(* and what a search returns as which region of the set holds the page.    *)
(* The ones about UcEmu say that the errors, stop requests and timers of   *)
(* nested uc_emu_start calls stay with the call they belong to.            *)
(***************************************************************************)
EXTENDS UcMemory, UcEmu, TLAPS

LOCAL INSTANCE WellFoundedInduction

-----------------------------------------------------------------------------
(* Numbers *)

(* Every set of numbers that is not empty has a least element. *)
LEMMA LeastNumber ==
  ASSUME NEW T, T \subseteq Nat, T # {}
  PROVE  \E m \in T : \A n \in T : m <= n
<1> DEFINE R == {ss \in Nat \X Nat : ss[1] < ss[2]}
<1>1. IsWellFoundedOn(R, Nat)
  BY NatLessThanWellFounded, Zenon DEF OpToRel
<1> HIDE DEF R
<1>2. PICK m \in T : \A n \in T : ~(<<n, m>> \in R)
  BY <1>1, WFMin, Zenon
<1>3. SUFFICES ASSUME NEW n \in T PROVE m <= n
  BY Zenon
<1>4. n < m => <<n, m>> \in R
  BY Zenon DEF R
<1> QED
  BY <1>2, <1>4

(* Multiplying keeps the order. *)
LEMMA TimesOrder ==
  ASSUME NEW m \in Nat, NEW a \in Int, NEW b \in Int, a <= b
  PROVE  m * a <= m * b
  OBVIOUS

(* One more factor adds the other once. *)
LEMMA TimesNext ==
  ASSUME NEW m \in Int, NEW a \in Int
  PROVE  m * (a + 1) = m * a + m /\ m * a \in Int
  OBVIOUS

(* The multiple of m behind a multiple of m. *)
LEMMA NextMultiple ==
  ASSUME NEW n \in Nat, NEW m \in Nat, m > 0, n % m = 0
  PROVE  (n + m) % m = 0
<1> DEFINE q == n \div m
           q2 == (n + m) \div m
           r2 == (n + m) % m
<1>1. q \in Int /\ n = m * q + (n % m)
  OBVIOUS
<1>2. q2 \in Int /\ n + m = m * q2 + r2 /\ r2 \in 0 .. m - 1
  OBVIOUS
<1> HIDE DEF q, q2, r2
<1>3. n = m * q
  BY <1>1
<1>4. m * (q + 1) = n + m
  BY <1>1, <1>3, TimesNext
<1>5. m * q \in Int /\ m * q2 \in Int
  BY <1>1, <1>2, TimesNext
<1>6. q2 > q
  <2>1. q2 <= q => m * q2 <= m * q
    BY <1>1, <1>2, TimesOrder, Zenon
  <2> QED BY <2>1, <1>1, <1>2, <1>3, <1>5
<1>7. m * (q + 1) <= m * q2
  BY <1>1, <1>2, <1>6, TimesOrder
<1>8. r2 = 0
  BY <1>2, <1>4, <1>7, <1>5
<1> QED BY <1>8, Zenon DEF r2

-----------------------------------------------------------------------------
(* A MemoryRegion: a range of pages with permissions and contents. *)
Region ==
  {r \in [addr : 0 .. PageCount, end : 0 .. PageCount, perms : Perms,
          data : UNION {[S -> Contents] : S \in SUBSET (0 .. PageCount - 1)}] :
     r.addr < r.end /\ r.data \in [r.addr .. r.end - 1 -> Contents]}

Regions(blocks) == {blocks[i] : i \in DOMAIN blocks}

(* Two regions do not overlap. *)
Apart(r, s) == r.end <= s.addr \/ s.end <= r.addr

Holds(r, p) == r.addr <= p /\ p < r.end

(* The array is in the order that the bisection needs. *)
Ordered(blocks) ==
  /\ blocks \in Seq(Region)
  /\ \A i, j \in 1 .. Len(blocks) : i < j => blocks[i].end <= blocks[j].addr

(* The room for n pointers reaches up to a multiple of the increment. *)
RoomFor(n, space) ==
  space \in Nat /\ \E m \in 0 .. space : m % MEM_BLOCK_INCR = 0 /\ n <= m

GoodArray(array) ==
  /\ array = Array(array.blocks, array.room)
  /\ Ordered(array.blocks)
  /\ RoomFor(Len(array.blocks), array.room)

(* The fields of a region. *)
LEMMA RegionFields ==
  ASSUME NEW r \in Region
  PROVE  /\ r.addr \in 0 .. PageCount /\ r.end \in 0 .. PageCount
         /\ r.addr \in Int /\ r.end \in Int /\ r.addr < r.end
         /\ r.perms \in Perms
         /\ r.data \in [r.addr .. r.end - 1 -> Contents]
  BY UcAssumption DEF Region

-----------------------------------------------------------------------------
(* Searching *)

(* The loop of bsearch_mapped_blocks ends at the first region whose end is
   behind the address, or behind the last one. *)
LEMMA Bisected ==
  ASSUME NEW blocks, Ordered(blocks), NEW address \in Int
  PROVE  LET i == bsearch_mapped_blocks(blocks, address)
         IN  /\ i \in 1 .. Len(blocks) + 1
             /\ \A j \in 1 .. i - 1 : blocks[j].end <= address
             /\ i <= Len(blocks) => address < blocks[i].end
<1> DEFINE Behind == {j \in 1 .. Len(blocks) : address < blocks[j].end} \cup {Len(blocks) + 1}
<1>1. Len(blocks) \in Nat /\ \A j \in 1 .. Len(blocks) : blocks[j] \in Region
  BY DEF Ordered
<1>2. \A j \in 1 .. Len(blocks) : blocks[j].end \in Int
  BY <1>1, RegionFields, Zenon
<1>3. PICK i \in Behind : \A j \in Behind : i <= j
  <2>1. Behind \subseteq Nat /\ Behind # {}
    BY <1>1
  <2> QED BY <2>1, LeastNumber, Zenon
<1>4. i \in 1 .. Len(blocks) + 1
  BY <1>1
<1>5. \A j \in 1 .. i - 1 : blocks[j].end <= address
  BY <1>1, <1>2, <1>3, <1>4
<1>6. i <= Len(blocks) => address < blocks[i].end
  BY <1>1, <1>3
<1> QED BY <1>4, <1>5, <1>6, Zenon DEF bsearch_mapped_blocks

(* memory_mapping finds the region that holds the page, if there is one. *)
LEMMA MappingFinds ==
  ASSUME NEW blocks, Ordered(blocks), NEW p \in Int
  PROVE  /\ memory_mapping(blocks, p) \in 0 .. Len(blocks)
         /\ memory_mapping(blocks, p) # 0 =>
              /\ memory_mapping(blocks, p) \in 1 .. Len(blocks)
              /\ blocks[memory_mapping(blocks, p)] \in Regions(blocks)
              /\ Holds(blocks[memory_mapping(blocks, p)], p)
         /\ \A r \in Regions(blocks) : Holds(r, p) =>
              memory_mapping(blocks, p) # 0 /\ blocks[memory_mapping(blocks, p)] = r
<1> DEFINE i == bsearch_mapped_blocks(blocks, p)
           m == memory_mapping(blocks, p)
<1>1. /\ i \in 1 .. Len(blocks) + 1
      /\ \A j \in 1 .. i - 1 : blocks[j].end <= p
      /\ i <= Len(blocks) => p < blocks[i].end
  BY Bisected, Zenon
<1>2. m = IF i <= Len(blocks) /\ blocks[i].addr <= p THEN i ELSE 0
  BY Zenon DEF memory_mapping
<1>3. /\ Len(blocks) \in Nat /\ DOMAIN blocks = 1 .. Len(blocks)
      /\ \A j \in 1 .. Len(blocks) : blocks[j] \in Region
      /\ \A k, j \in 1 .. Len(blocks) : k < j => blocks[k].end <= blocks[j].addr
  BY DEF Ordered
<1> HIDE DEF i, m
<1>4. m \in 0 .. Len(blocks)
  BY <1>1, <1>2, <1>3
<1>5. m # 0 => m \in 1 .. Len(blocks) /\ blocks[m] \in Regions(blocks) /\ Holds(blocks[m], p)
  BY <1>1, <1>2, <1>3 DEF Regions, Holds
<1>6. ASSUME NEW r \in Regions(blocks), Holds(r, p) PROVE m # 0 /\ blocks[m] = r
  <2>1. PICK k \in 1 .. Len(blocks) : r = blocks[k]
    BY <1>3, Zenon DEF Regions
  <2>2. blocks[k].end \in Int /\ blocks[k].addr \in Int
    BY <1>3, RegionFields, Zenon
  <2>3. ~(k < i)
    BY <2>1, <2>2, <1>1, <1>3, <1>6 DEF Holds
  <2>4. i <= Len(blocks)
    BY <2>3, <1>1, <1>3
  <2>5. blocks[i].end \in Int /\ blocks[i].addr \in Int /\ blocks[i].addr < blocks[i].end
    BY <2>4, <1>1, <1>3, RegionFields
  <2>6. ~(i < k)
    <3>1. i < k => blocks[i].end <= blocks[k].addr
      BY <2>4, <1>1, <1>3
    <3>2. p < blocks[i].end /\ blocks[k].addr <= p
      BY <2>1, <2>4, <1>1, <1>6, Zenon DEF Holds
    <3> QED BY <3>1, <3>2, <2>2, <2>5
  <2>7. i = k
    BY <2>3, <2>6, <1>1, <1>3
  <2> QED BY <2>1, <2>4, <2>7, <1>2, <1>6 DEF Holds
<1> QED BY <1>4, <1>5, <1>6, Zenon DEF m

-----------------------------------------------------------------------------
(* Changing the array *)

(* t is s with e at position i and the rest one further. *)
Insertion(t, s, i, e, S) ==
  /\ t \in Seq(S) /\ Len(t) = Len(s) + 1
  /\ \A j \in 1 .. Len(s) + 1 : t[j] = IF j < i THEN s[j] ELSE IF j = i THEN e ELSE s[j - 1]

(* t is s without its position i. *)
Removal(t, s, i, S) ==
  /\ t \in Seq(S) /\ Len(t) = Len(s) - 1
  /\ \A j \in 1 .. Len(s) - 1 : t[j] = IF j < i THEN s[j] ELSE s[j + 1]

(* Inserting at position i, as mem_map does with the pointers behind it. *)
LEMMA Inserted ==
  ASSUME NEW S, NEW s \in Seq(S), NEW i \in 1 .. Len(s) + 1, NEW e \in S
  PROVE  Insertion(SubSeq(s, 1, i - 1) \o <<e>> \o SubSeq(s, i, Len(s)), s, i, e, S)
<1> DEFINE a == SubSeq(s, 1, i - 1)
           c == SubSeq(s, i, Len(s))
           b == a \o <<e>>
<1>1. Len(s) \in Nat /\ i \in Nat
  OBVIOUS
<1>2. a \in Seq(S) /\ Len(a) = i - 1 /\ \A j \in 1 .. i - 1 : a[j] = s[j]
  BY <1>1
<1>3. c \in Seq(S) /\ Len(c) = Len(s) - i + 1 /\ \A j \in 1 .. Len(s) - i + 1 : c[j] = s[i + j - 1]
  BY <1>1
<1> HIDE DEF a, c
<1>4. /\ b \in Seq(S) /\ Len(b) = i /\ b[i] = e
      /\ \A j \in 1 .. i - 1 : b[j] = s[j]
  BY <1>1, <1>2
<1> HIDE DEF b
<1>5. /\ b \o c \in Seq(S) /\ Len(b \o c) = Len(b) + Len(c)
      /\ \A j \in 1 .. Len(b) + Len(c) : (b \o c)[j] = IF j <= Len(b) THEN b[j] ELSE c[j - Len(b)]
  BY <1>3, <1>4
<1> DEFINE t == b \o c
<1> HIDE DEF t
<1>6. /\ t \in Seq(S) /\ Len(t) = Len(s) + 1
      /\ \A j \in 1 .. Len(s) + 1 :
           t[j] = IF j < i THEN s[j] ELSE IF j = i THEN e ELSE s[j - 1]
  <2>1. t \in Seq(S) /\ Len(t) = Len(s) + 1 /\ \A j \in 1 .. Len(s) + 1 : t[j] = IF j <= i THEN b[j] ELSE c[j - i]
    <3>1. Len(b) = i /\ Len(b) + Len(c) = Len(s) + 1
      BY <1>1, <1>3, <1>4
    <3> QED BY <3>1, <1>5, Zenon DEF t
  <2>2. \A j \in 1 .. Len(s) + 1 : j > i => j - i \in 1 .. Len(s) - i + 1 /\ c[j - i] = s[j - 1]
    BY <1>1, <1>3
  <2>3. ASSUME NEW j \in 1 .. Len(s) + 1
        PROVE  t[j] = IF j < i THEN s[j] ELSE IF j = i THEN e ELSE s[j - 1]
    <3>1. CASE j < i
      <4>1. t[j] = b[j] /\ b[j] = s[j]
        BY <3>1, <2>1, <1>1, <1>4
      <4> QED BY <3>1, <4>1, Zenon
    <3>2. CASE j = i
      BY <3>2, <2>1, <1>1, <1>4
    <3>3. CASE j > i
      <4>1. t[j] = c[j - i] /\ ~(j < i) /\ j # i
        BY <3>3, <2>1, <1>1
      <4> QED BY <3>3, <4>1, <2>2, Zenon
    <3> QED BY <3>1, <3>2, <3>3, <1>1
  <2> QED BY <2>1, <2>3, Zenon
<1> QED BY <1>6, Zenon DEF t, b, a, c, Insertion

(* Taking position i out, as memory_unmap does. *)
LEMMA Removed ==
  ASSUME NEW S, NEW s \in Seq(S), NEW i \in 1 .. Len(s)
  PROVE  Removal(SubSeq(s, 1, i - 1) \o SubSeq(s, i + 1, Len(s)), s, i, S)
<1> DEFINE a == SubSeq(s, 1, i - 1)
           c == SubSeq(s, i + 1, Len(s))
<1>1. Len(s) \in Nat /\ i \in Nat
  OBVIOUS
<1>2. a \in Seq(S) /\ Len(a) = i - 1 /\ \A j \in 1 .. i - 1 : a[j] = s[j]
  BY <1>1
<1>3. c \in Seq(S) /\ Len(c) = Len(s) - i /\ \A j \in 1 .. Len(s) - i : c[j] = s[i + j]
  BY <1>1
<1> HIDE DEF a, c
<1>4. /\ a \o c \in Seq(S) /\ Len(a \o c) = Len(a) + Len(c)
      /\ \A j \in 1 .. Len(a) + Len(c) : (a \o c)[j] = IF j <= Len(a) THEN a[j] ELSE c[j - Len(a)]
  <2>1. a \in Seq(S) /\ c \in Seq(S)
    BY <1>2, <1>3, Zenon
  <2>2. Len(a) \in Nat /\ Len(c) \in Nat
    BY <2>1
  <2>3. a \o c \in Seq(S) /\ Len(a \o c) = Len(a) + Len(c)
    BY <2>1
  <2>4. \A j \in 1 .. Len(a) + Len(c) : (a \o c)[j] = IF j <= Len(a) THEN a[j] ELSE c[j - Len(a)]
    BY <2>1, <2>2
  <2> QED BY <2>3, <2>4, Zenon
<1> DEFINE t == a \o c
<1> HIDE DEF t
<1>5. /\ t \in Seq(S) /\ Len(t) = Len(s) - 1
      /\ \A j \in 1 .. Len(s) - 1 : t[j] = IF j < i THEN s[j] ELSE s[j + 1]
  <2>1. /\ t \in Seq(S) /\ Len(t) = Len(s) - 1
        /\ \A j \in 1 .. Len(s) - 1 : t[j] = IF j <= i - 1 THEN a[j] ELSE c[j - (i - 1)]
    BY <1>1, <1>2, <1>3, <1>4 DEF t
  <2>2. \A j \in 1 .. Len(s) - 1 :
          j >= i => j - (i - 1) \in 1 .. Len(s) - i /\ c[j - (i - 1)] = s[j + 1]
    BY <1>1, <1>3
  <2> QED BY <2>1, <2>2, <1>1, <1>2
<1> QED BY <1>5, Zenon DEF t, a, c, Removal

(* The room that mem_map leaves is enough for the region it adds: a length that
   is not a multiple of the increment is below one that there is room for. *)
LEMMA RoomGrows ==
  ASSUME NEW n \in Nat, NEW space, RoomFor(n, space)
  PROVE  RoomFor(n + 1, IF n % MEM_BLOCK_INCR = 0 THEN n + MEM_BLOCK_INCR ELSE space)
<1>1. MEM_BLOCK_INCR \in Nat /\ MEM_BLOCK_INCR > 0
  BY UcAssumption
<1>2. CASE n % MEM_BLOCK_INCR = 0
  <2>1. (n + MEM_BLOCK_INCR) % MEM_BLOCK_INCR = 0
    BY <1>1, <1>2, NextMultiple, Zenon
  <2> QED BY <2>1, <1>1, <1>2 DEF RoomFor
<1>3. CASE n % MEM_BLOCK_INCR # 0
  BY <1>1, <1>3 DEF RoomFor
<1> QED BY <1>2, <1>3, Zenon

(* mem_map of a region that overlaps none of the others adds it. *)
LEMMA MapAdds ==
  ASSUME NEW array, GoodArray(array), NEW r \in Region,
         \A x \in Regions(array.blocks) : Apart(x, r)
  PROVE  /\ GoodArray(mem_map(array, r))
         /\ Regions(mem_map(array, r).blocks) = Regions(array.blocks) \cup {r}
<1> DEFINE s == array.blocks
           i == bsearch_mapped_blocks(s, r.addr)
           t == SubSeq(s, 1, i - 1) \o <<r>> \o SubSeq(s, i, Len(s))
           space == IF Len(s) % MEM_BLOCK_INCR = 0 THEN Len(s) + MEM_BLOCK_INCR ELSE array.room
<1>1. /\ s \in Seq(Region) /\ Len(s) \in Nat /\ DOMAIN s = 1 .. Len(s)
      /\ \A k, j \in 1 .. Len(s) : k < j => s[k].end <= s[j].addr
      /\ \A j \in 1 .. Len(s) : s[j] \in Region
  BY DEF GoodArray, Ordered
<1>2. /\ i \in 1 .. Len(s) + 1
      /\ \A j \in 1 .. i - 1 : s[j].end <= r.addr
      /\ i <= Len(s) => r.addr < s[i].end
  <2>1. r.addr \in Int
    BY RegionFields, Zenon
  <2> QED BY <2>1, Bisected, Zenon DEF GoodArray
<1>3. mem_map(array, r) = Array(t, space)
  BY Zenon DEF mem_map
<1> HIDE DEF i, s
<1>4. /\ t \in Seq(Region) /\ Len(t) = Len(s) + 1
      /\ \A j \in 1 .. Len(s) + 1 :
           t[j] = IF j < i THEN s[j] ELSE IF j = i THEN r ELSE s[j - 1]
  <2>1. Insertion(t, s, i, r, Region)
    BY <1>1, <1>2, Inserted, Zenon
  <2> QED BY <2>1, Zenon DEF Insertion
<1> HIDE DEF t
<1>5. RoomFor(Len(t), space)
  BY <1>1, <1>4, RoomGrows, Zenon DEF GoodArray, s
<1> HIDE DEF space
<1>6. \A j \in 1 .. Len(s) : s[j].addr \in Int /\ s[j].end \in Int /\ s[j].addr < s[j].end
  BY <1>1, RegionFields, Zenon
<1>7. r.addr \in Int /\ r.end \in Int /\ r.addr < r.end
  BY RegionFields, Zenon
<1>8. \A j \in 1 .. Len(s) : j < i => s[j].end <= r.addr
  BY <1>1, <1>2
<1>9. ASSUME NEW j \in 1 .. Len(s), j >= i PROVE r.end <= s[j].addr
  <2>1. Apart(s[j], r)
    BY <1>1, Zenon DEF Regions, s
  <2>2. i \in 1 .. Len(s) /\ r.addr < s[i].end
    BY <1>1, <1>2, <1>9
  <2>3. r.addr < s[j].end
    <3>1. CASE i = j
      BY <3>1, <2>2, Zenon
    <3>2. CASE i < j
      <4>1. s[i].end <= s[j].addr
        BY <3>2, <2>2, <1>1, Zenon
      <4> QED BY <4>1, <2>2, <1>6, <1>7
    <3> QED BY <3>1, <3>2, <1>1, <1>2, <1>9
  <2> QED BY <2>1, <2>3, <1>6, <1>7 DEF Apart
<1>10. Ordered(t)
  <2> SUFFICES ASSUME NEW k \in 1 .. Len(t), NEW j \in 1 .. Len(t), k < j
               PROVE  t[k].end <= t[j].addr
    BY <1>4, Zenon DEF Ordered
  <2>1. CASE j < i
    BY <2>1, <1>1, <1>2, <1>4
  <2>2. CASE j = i
    BY <2>2, <1>1, <1>2, <1>4, <1>8
  <2>3. CASE j > i /\ k < i
    <3>1. t[k] = s[k] /\ t[j] = s[j - 1] /\ k \in 1 .. Len(s) /\ j - 1 \in 1 .. Len(s)
      BY <2>3, <1>1, <1>2, <1>4
    <3>2. s[k].end <= r.addr /\ r.end <= s[j - 1].addr
      BY <3>1, <2>3, <1>2, <1>8, <1>9
    <3>3. s[k].end \in Int /\ s[j - 1].addr \in Int
      BY <3>1, <1>6, Zenon
    <3>4. s[k].end <= s[j - 1].addr
      BY <3>2, <3>3, <1>7
    <3> QED BY <3>1, <3>4, Zenon
  <2>4. CASE j > i /\ k = i
    <3>1. t[k] = r /\ t[j] = s[j - 1] /\ j - 1 \in 1 .. Len(s) /\ j - 1 >= i
      BY <2>4, <1>1, <1>2, <1>4
    <3> QED BY <3>1, <1>9, Zenon
  <2>5. CASE j > i /\ k > i
    <3>1. /\ t[k] = s[k - 1] /\ t[j] = s[j - 1] /\ k - 1 < j - 1
          /\ k - 1 \in 1 .. Len(s) /\ j - 1 \in 1 .. Len(s)
      BY <2>5, <1>1, <1>2, <1>4
    <3> QED BY <3>1, <1>1, Zenon
  <2> QED BY <2>1, <2>2, <2>3, <2>4, <2>5, <1>1, <1>2, <1>4
<1>11. Regions(t) = Regions(s) \cup {r}
  <2>1. DOMAIN t = 1 .. Len(s) + 1
    BY <1>4
  <2>2. ASSUME NEW x \in Regions(t) PROVE x \in Regions(s) \cup {r}
    <3>1. PICK j \in 1 .. Len(s) + 1 : x = t[j]
      BY <2>1, Zenon DEF Regions
    <3>2. CASE j < i
      <4>1. x = s[j] /\ j \in DOMAIN s
        BY <3>1, <3>2, <1>1, <1>2, <1>4
      <4> QED BY <4>1, Zenon DEF Regions
    <3>3. CASE j = i
      BY <3>1, <3>3, <1>4
    <3>4. CASE j > i
      <4>1. x = s[j - 1] /\ j - 1 \in DOMAIN s
        BY <3>1, <3>4, <1>1, <1>2, <1>4
      <4> QED BY <4>1, Zenon DEF Regions
    <3> QED BY <3>2, <3>3, <3>4, <1>2
  <2>3. ASSUME NEW x \in Regions(s) PROVE x \in Regions(t)
    <3>1. PICK j \in 1 .. Len(s) : x = s[j]
      BY <1>1, Zenon DEF Regions
    <3>2. CASE j < i
      <4>1. j \in 1 .. Len(s) + 1 /\ t[j] = s[j]
        BY <3>2, <1>1, <1>2, <1>4
      <4> QED BY <4>1, <3>1, <2>1, Zenon DEF Regions
    <3>3. CASE j >= i
      <4>1. j + 1 \in 1 .. Len(s) + 1 /\ t[j + 1] = s[j]
        BY <3>3, <1>1, <1>2, <1>4
      <4> QED BY <4>1, <3>1, <2>1, Zenon DEF Regions
    <3> QED BY <3>2, <3>3, <1>1, <1>2
  <2>4. r \in Regions(t)
    BY <2>1, <1>1, <1>2, <1>4 DEF Regions
  <2> QED BY <2>2, <2>3, <2>4, Zenon
<1>12. Array(t, space).blocks = t /\ Array(t, space).room = space
  BY Zenon DEF Array
<1> QED BY <1>3, <1>5, <1>10, <1>11, <1>12, Zenon DEF GoodArray, s

(* memory_unmap takes its region out, and nothing else. *)
LEMMA UnmapRemoves ==
  ASSUME NEW array, GoodArray(array), NEW i \in 1 .. Len(array.blocks)
  PROVE  /\ GoodArray(memory_unmap(array, i))
         /\ Regions(memory_unmap(array, i).blocks) = Regions(array.blocks) \ {array.blocks[i]}
<1> DEFINE s == array.blocks
           t == SubSeq(s, 1, i - 1) \o SubSeq(s, i + 1, Len(s))
<1>1. /\ s \in Seq(Region) /\ Len(s) \in Nat /\ DOMAIN s = 1 .. Len(s)
      /\ \A k, j \in 1 .. Len(s) : k < j => s[k].end <= s[j].addr
      /\ \A j \in 1 .. Len(s) : s[j] \in Region
  BY DEF GoodArray, Ordered
<1>2. memory_unmap(array, i) = Array(t, array.room)
  BY Zenon DEF memory_unmap
<1>3. /\ t \in Seq(Region) /\ Len(t) = Len(s) - 1
      /\ \A j \in 1 .. Len(s) - 1 : t[j] = IF j < i THEN s[j] ELSE s[j + 1]
  <2>1. Removal(t, s, i, Region)
    BY <1>1, Removed, Zenon
  <2> QED BY <2>1, Zenon DEF Removal
<1>4. RoomFor(Len(s), array.room)
  BY Zenon DEF GoodArray
<1>5. i \in 1 .. Len(s)
  BY Zenon
<1> HIDE DEF s, t
<1>6. RoomFor(Len(t), array.room)
  BY <1>1, <1>3, <1>4 DEF RoomFor
<1>7. Ordered(t)
  <2> SUFFICES ASSUME NEW k \in 1 .. Len(t), NEW j \in 1 .. Len(t), k < j
               PROVE  t[k].end <= t[j].addr
    BY <1>3, Zenon DEF Ordered
  <2>1. \A x \in 1 .. Len(t) : \E y \in 1 .. Len(s) : t[x] = s[y] /\ y = IF x < i THEN x ELSE x + 1
    BY <1>1, <1>3, <1>5
  <2>2. PICK x \in 1 .. Len(s) : t[k] = s[x] /\ x = IF k < i THEN k ELSE k + 1
    BY <2>1, Zenon
  <2>3. PICK y \in 1 .. Len(s) : t[j] = s[y] /\ y = IF j < i THEN j ELSE j + 1
    BY <2>1, Zenon
  <2>4. x < y
    BY <2>2, <2>3, <1>3, <1>5
  <2> QED BY <2>2, <2>3, <2>4, <1>1, Zenon
<1>8. Regions(t) = Regions(s) \ {s[i]}
  <2>1. DOMAIN t = 1 .. Len(s) - 1
    BY <1>1, <1>3, <1>5
  <2>2. ASSUME NEW j \in 1 .. Len(s), NEW k \in 1 .. Len(s), j < k PROVE s[j] # s[k]
    <3>1. s[j].end <= s[k].addr
      BY <2>2, <1>1, Zenon
    <3>2. s[j].addr < s[j].end /\ s[j].addr \in Int /\ s[j].end \in Int /\ s[k].addr \in Int
      BY <1>1, RegionFields, Zenon
    <3> QED BY <3>1, <3>2
  <2>3. ASSUME NEW x \in Regions(t) PROVE x \in Regions(s) /\ x # s[i]
    <3>1. PICK j \in 1 .. Len(s) - 1 : x = t[j]
      BY <2>1, Zenon DEF Regions
    <3>2. CASE j < i
      <4>1. x = s[j] /\ j \in 1 .. Len(s)
        BY <3>1, <3>2, <1>1, <1>3
      <4> QED BY <4>1, <3>2, <2>2, <1>1, <1>5, Zenon DEF Regions
    <3>3. CASE j >= i
      <4>1. x = s[j + 1] /\ j + 1 \in 1 .. Len(s) /\ i < j + 1
        BY <3>1, <3>3, <1>1, <1>3, <1>5
      <4> QED BY <4>1, <2>2, <1>1, <1>5, Zenon DEF Regions
    <3> QED BY <3>2, <3>3, <1>1, <1>5
  <2>4. ASSUME NEW x \in Regions(s), x # s[i] PROVE x \in Regions(t)
    <3>1. PICK j \in 1 .. Len(s) : x = s[j]
      BY <1>1, Zenon DEF Regions
    <3>2. CASE j < i
      <4>1. j \in 1 .. Len(s) - 1 /\ t[j] = s[j]
        BY <3>2, <1>1, <1>3, <1>5
      <4> QED BY <4>1, <3>1, <2>1, Zenon DEF Regions
    <3>3. CASE j > i
      <4>1. j - 1 \in 1 .. Len(s) - 1 /\ t[j - 1] = s[j]
        BY <3>3, <1>1, <1>3, <1>5
      <4> QED BY <4>1, <3>1, <2>1, Zenon DEF Regions
    <3> QED BY <3>1, <3>2, <3>3, <2>4, <1>1, <1>5
  <2> QED BY <2>3, <2>4, Zenon
<1>9. Array(t, array.room).blocks = t /\ Array(t, array.room).room = array.room
  BY Zenon DEF Array
<1> QED BY <1>2, <1>6, <1>7, <1>8, <1>9, Zenon DEF GoodArray, s

-----------------------------------------------------------------------------
(* Splitting a region *)

(* The part of a region between from and to, as it is mapped again. *)
Piece(r, from, to) ==
  [addr |-> from, end |-> to, perms |-> r.perms, data |-> [p \in from .. to - 1 |-> r.data[p]]]

Pieces(r, from, to) == IF from < to THEN {Piece(r, from, to)} ELSE {}

(* A piece of a region is one. *)
LEMMA PieceRegion ==
  ASSUME NEW r \in Region, NEW from \in Int, NEW to \in Int,
         r.addr <= from, from < to, to <= r.end
  PROVE  Piece(r, from, to) \in Region
<1>1. /\ r.addr \in 0 .. PageCount /\ r.end \in 0 .. PageCount /\ PageCount \in Nat
      /\ r.perms \in Perms /\ r.data \in [r.addr .. r.end - 1 -> Contents]
  BY RegionFields, UcAssumption, Zenon
<1>2. from \in 0 .. PageCount /\ to \in 0 .. PageCount
  BY <1>1
<1> DEFINE data == [p \in from .. to - 1 |-> r.data[p]]
<1>3. data \in [from .. to - 1 -> Contents]
  <2>1. \A p \in from .. to - 1 : p \in r.addr .. r.end - 1
    BY <1>1, <1>2
  <2> QED BY <2>1, <1>1, Zenon
<1>4. Piece(r, from, to) = [addr |-> from, end |-> to, perms |-> r.perms, data |-> data]
  BY Zenon DEF Piece
<1> HIDE DEF data
<1>5. data \in UNION {[S -> Contents] : S \in SUBSET (0 .. PageCount - 1)}
  <2>1. from .. to - 1 \in SUBSET (0 .. PageCount - 1)
    BY <1>1, <1>2
  <2> QED BY <2>1, <1>3, Zenon
<1> QED BY <1>1, <1>2, <1>3, <1>4, <1>5 DEF Region

(* A region that is one piece. *)
LEMMA PieceWhole ==
  ASSUME NEW r \in Region
  PROVE  Piece(r, r.addr, r.end) = r
<1>1. r = [addr |-> r.addr, end |-> r.end, perms |-> r.perms, data |-> r.data]
  BY Zenon DEF Region
<1>2. r.data = [p \in r.addr .. r.end - 1 |-> r.data[p]]
  BY RegionFields, Zenon
<1> QED BY <1>1, <1>2, Zenon DEF Piece

(* The regions of an array do not overlap. *)
LEMMA RegionsApart ==
  ASSUME NEW blocks, Ordered(blocks), NEW x \in Regions(blocks), NEW y \in Regions(blocks), x # y
  PROVE  x \in Region /\ y \in Region /\ Apart(x, y)
<1>1. PICK i \in 1 .. Len(blocks), j \in 1 .. Len(blocks) : x = blocks[i] /\ y = blocks[j]
  BY DEF Regions, Ordered
<1>2. i < j \/ j < i
  BY <1>1 DEF Ordered
<1>3. blocks[i] \in Region /\ blocks[j] \in Region
  BY DEF Ordered
<1> QED BY <1>1, <1>2, <1>3, Zenon DEF Ordered, Apart

(* Every region of an array is one. *)
LEMMA RegionsTyped ==
  ASSUME NEW blocks, Ordered(blocks), NEW x \in Regions(blocks) PROVE x \in Region
  BY DEF Ordered, Regions

(* Mapping a piece again adds it to what is clear of it. *)
LEMMA MapPieceAdds ==
  ASSUME NEW array, GoodArray(array), NEW r \in Region, NEW from \in Int, NEW to \in Int,
         r.addr <= from, to <= r.end,
         from < to => \A x \in Regions(array.blocks) : x.end <= from \/ to <= x.addr
  PROVE  /\ GoodArray(MapPiece(array, r, from, to))
         /\ Regions(MapPiece(array, r, from, to).blocks)
              = Regions(array.blocks) \cup Pieces(r, from, to)
<1>1. CASE ~(from < to)
  BY <1>1, Zenon DEF MapPiece, Pieces
<1>2. CASE from < to
  <2> DEFINE new == Piece(r, from, to)
  <2>1. new \in Region
    BY <1>2, PieceRegion, Zenon
  <2>2. MapPiece(array, r, from, to) = mem_map(array, new)
    BY <1>2, Zenon DEF MapPiece, Piece
  <2>3. new.addr = from /\ new.end = to
    BY Zenon DEF Piece
  <2>4. Pieces(r, from, to) = {new}
    BY <1>2, Zenon DEF Pieces
  <2> HIDE DEF new
  <2>5. \A x \in Regions(array.blocks) : Apart(x, new)
    BY <2>3, <1>2, Zenon DEF Apart
  <2> QED BY <2>1, <2>2, <2>4, <2>5, MapAdds
<1> QED BY <1>1, <1>2, Zenon

(* split is array with the region mr cut at from and to. *)
CutUp(split, array, mr, from, to, do_delete) ==
  /\ GoodArray(split)
  /\ Regions(split.blocks)
       = (Regions(array.blocks) \ {mr}) \cup Pieces(mr, mr.addr, from)
           \cup (IF do_delete THEN {} ELSE {Piece(mr, from, to)})
           \cup Pieces(mr, to, mr.end)

(* split_region inside a region leaves its pieces in its place. *)
LEMMA SplitReplaces ==
  ASSUME NEW array, GoodArray(array), NEW i \in 1 .. Len(array.blocks),
         NEW from \in Int, NEW to \in Int, NEW do_delete \in BOOLEAN,
         array.blocks[i].addr <= from, from < to, to <= array.blocks[i].end,
         ~(from <= array.blocks[i].addr /\ to >= array.blocks[i].end)
  PROVE  CutUp(split_region(array, i, from, to, do_delete), array, array.blocks[i],
               from, to, do_delete)
<1> DEFINE mr == array.blocks[i]
           split == split_region(array, i, from, to, do_delete)
           without == memory_unmap(array, i)
           left == MapPiece(without, mr, mr.addr, from)
           middle == IF do_delete THEN left ELSE MapPiece(left, mr, from, to)
<1>1. split = MapPiece(middle, mr, to, mr.end)
  BY Zenon DEF split_region
<1>2. Ordered(array.blocks) /\ mr \in Regions(array.blocks)
  BY DEF GoodArray, Ordered, Regions
<1>3. mr \in Region /\ mr.addr \in Int /\ mr.end \in Int
  BY <1>2, RegionsTyped, RegionFields, Zenon
<1>4. mr.addr <= from /\ from < to /\ to <= mr.end
  BY Zenon
<1>5. GoodArray(without) /\ Regions(without.blocks) = Regions(array.blocks) \ {mr}
  BY UnmapRemoves, Zenon
<1>6. ASSUME NEW x \in Regions(array.blocks) \ {mr}
      PROVE  (x.end <= mr.addr \/ mr.end <= x.addr) /\ x.addr \in Int /\ x.end \in Int
  <2>1. x \in Region /\ Apart(x, mr)
    BY <1>2, RegionsApart, Zenon
  <2> QED BY <2>1, RegionFields, Zenon DEF Apart
<1> HIDE DEF mr, split, without
<1>7. GoodArray(left) /\ Regions(left.blocks) = Regions(without.blocks) \cup Pieces(mr, mr.addr, from)
  <2> DEFINE a == mr.addr
  <2>1. a \in Int /\ mr \in Region /\ mr.addr <= a /\ from <= mr.end /\ GoodArray(without)
    BY <1>3, <1>4, <1>5
  <2>2. \A x \in Regions(without.blocks) : x.end <= a \/ from <= x.addr
    BY <1>3, <1>4, <1>5, <1>6
  <2>3. left = MapPiece(without, mr, a, from)
    BY Zenon
  <2> HIDE DEF a
  <2>4. /\ GoodArray(MapPiece(without, mr, a, from))
        /\ Regions(MapPiece(without, mr, a, from).blocks)
             = Regions(without.blocks) \cup Pieces(mr, a, from)
    BY <2>1, <2>2, MapPieceAdds
  <2> QED BY <2>3, <2>4, Zenon DEF a
<1> HIDE DEF left
<1>8. \A x \in Pieces(mr, mr.addr, from) : x.end = from /\ x.addr = mr.addr
  BY DEF Pieces, Piece
<1>9. /\ GoodArray(middle)
      /\ Regions(middle.blocks) = Regions(left.blocks)
                                    \cup (IF do_delete THEN {} ELSE {Piece(mr, from, to)})
  <2>1. CASE do_delete
    BY <2>1, <1>7, Zenon
  <2>2. CASE ~do_delete
    <3>1. \A x \in Regions(left.blocks) : x.end <= from \/ to <= x.addr
      BY <1>3, <1>4, <1>5, <1>6, <1>7, <1>8
    <3>2. /\ GoodArray(MapPiece(left, mr, from, to))
          /\ Regions(MapPiece(left, mr, from, to).blocks) = Regions(left.blocks) \cup Pieces(mr, from, to)
      BY <3>1, <1>3, <1>4, <1>7, MapPieceAdds
    <3> QED BY <3>2, <2>2, <1>4, Zenon DEF Pieces
  <2> QED BY <2>1, <2>2, Zenon
<1> HIDE DEF middle
<1>10. \A x \in Regions(middle.blocks) : x.end <= to \/ mr.end <= x.addr
  <2>1. Piece(mr, from, to).end = to
    BY Zenon DEF Piece
  <2> QED BY <2>1, <1>3, <1>4, <1>5, <1>6, <1>7, <1>8, <1>9
<1>11. /\ GoodArray(split)
       /\ Regions(split.blocks) = Regions(middle.blocks) \cup Pieces(mr, to, mr.end)
  <2>1. mr.addr <= to
    BY <1>3, <1>4
  <2> QED BY <2>1, <1>1, <1>3, <1>4, <1>9, <1>10, MapPieceAdds, SMTT(30)
<1> QED BY <1>5, <1>7, <1>9, <1>11, Zenon DEF split, mr, CutUp

(* Changing a region in place, its range apart. *)
LEMMA ChangeInPlace ==
  ASSUME NEW array, GoodArray(array), NEW i \in 1 .. Len(array.blocks), NEW new \in Region,
         new.addr = array.blocks[i].addr, new.end = array.blocks[i].end
  PROVE  LET t == [array.blocks EXCEPT ![i] = new]
         IN  /\ GoodArray(Array(t, array.room))
             /\ Regions(t) = (Regions(array.blocks) \ {array.blocks[i]}) \cup {new}
<1> DEFINE s == array.blocks
           t == [array.blocks EXCEPT ![i] = new]
<1>1. /\ s \in Seq(Region) /\ Len(s) \in Nat /\ DOMAIN s = 1 .. Len(s)
      /\ \A k, j \in 1 .. Len(s) : k < j => s[k].end <= s[j].addr
      /\ \A j \in 1 .. Len(s) : s[j] \in Region
  BY DEF GoodArray, Ordered
<1>2. /\ t \in Seq(Region) /\ Len(t) = Len(s) /\ DOMAIN t = 1 .. Len(s)
      /\ \A j \in 1 .. Len(s) : t[j] = IF j = i THEN new ELSE s[j]
  BY <1>1
<1>3. RoomFor(Len(t), array.room)
  BY <1>2, Zenon DEF GoodArray
<1>4. i \in 1 .. Len(s) /\ new.addr = s[i].addr /\ new.end = s[i].end
  BY Zenon
<1> HIDE DEF s, t
<1>5. \A j \in 1 .. Len(s) : t[j].addr = s[j].addr /\ t[j].end = s[j].end
  BY <1>2, <1>4, Zenon
<1>6. Ordered(t)
  BY <1>1, <1>2, <1>5, Zenon DEF Ordered
<1>7. Array(t, array.room).blocks = t /\ Array(t, array.room).room = array.room
  BY Zenon DEF Array
<1>8. ASSUME NEW j \in 1 .. Len(s), NEW k \in 1 .. Len(s), j # k PROVE s[j] # s[k]
  <2>1. s[j].end <= s[k].addr \/ s[k].end <= s[j].addr
    BY <1>1, <1>8
  <2>2. /\ s[j].addr < s[j].end /\ s[j].addr \in Int /\ s[j].end \in Int
        /\ s[k].addr < s[k].end /\ s[k].addr \in Int /\ s[k].end \in Int
    BY <1>1, RegionFields, Zenon
  <2> QED BY <2>1, <2>2
<1>9. Regions(t) = (Regions(s) \ {s[i]}) \cup {new}
  <2>1. ASSUME NEW x \in Regions(t) PROVE x \in (Regions(s) \ {s[i]}) \cup {new}
    <3>1. PICK j \in 1 .. Len(s) : x = t[j]
      BY <1>2, Zenon DEF Regions
    <3> QED BY <3>1, <1>1, <1>2, <1>4, <1>8, Zenon DEF Regions
  <2>2. ASSUME NEW x \in Regions(s), x # s[i] PROVE x \in Regions(t)
    <3>1. PICK j \in 1 .. Len(s) : x = s[j]
      BY <1>1, Zenon DEF Regions
    <3> QED BY <3>1, <2>2, <1>2, Zenon DEF Regions
  <2>3. new \in Regions(t)
    BY <1>2, <1>4, Zenon DEF Regions
  <2> QED BY <2>1, <2>2, <2>3, Zenon
<1> QED BY <1>3, <1>6, <1>7, <1>9, Zenon DEF GoodArray, s, t

-----------------------------------------------------------------------------
(* One iteration of a loop, on the array *)

(* The regions of an array with mr replaced by what is left of it around the
   pages from .. to - 1. *)
Around(blocks, mr, from, to) ==
  (Regions(blocks) \ {mr}) \cup Pieces(mr, mr.addr, from) \cup Pieces(mr, to, mr.end)

(* None of what is around the pages holds the first of them. *)
LEMMA AroundClear ==
  ASSUME NEW blocks, Ordered(blocks), NEW mr \in Regions(blocks), NEW from \in Int, NEW to \in Int,
         mr.addr <= from, from < to, to <= mr.end, NEW x \in Around(blocks, mr, from, to)
  PROVE  ~Holds(x, from)
<1>1. mr \in Region /\ mr.addr \in Int /\ mr.end \in Int
  BY RegionsTyped, RegionFields, Zenon
<1>2. CASE x \in Regions(blocks) /\ x # mr
  <2>1. x \in Region /\ Apart(x, mr)
    BY <1>2, RegionsApart, Zenon
  <2>2. x.addr \in Int /\ x.end \in Int
    BY <2>1, RegionFields, Zenon
  <2> QED BY <2>1, <2>2, <1>1 DEF Apart, Holds
<1>3. CASE x \in Pieces(mr, mr.addr, from)
  BY <1>3, <1>1 DEF Pieces, Piece, Holds
<1>4. CASE x \in Pieces(mr, to, mr.end)
  BY <1>4, <1>1 DEF Pieces, Piece, Holds
<1> QED BY <1>2, <1>3, <1>4, Zenon DEF Around

(* What an iteration of uc_mem_unmap does to an array. *)
UnmapAt(array, i, from, to) ==
  LET split == split_region(array, i, from, to, TRUE)
      still == memory_mapping(split.blocks, from)
  IN  IF still # 0 THEN memory_unmap(split, still) ELSE split

(* It leaves what is around the chunk. *)
LEMMA UnmapEffect ==
  ASSUME NEW array, GoodArray(array), NEW i \in 1 .. Len(array.blocks),
         NEW from \in Int, NEW to \in Int,
         array.blocks[i].addr <= from, from < to, to <= array.blocks[i].end
  PROVE  /\ GoodArray(UnmapAt(array, i, from, to))
         /\ Regions(UnmapAt(array, i, from, to).blocks)
              = Around(array.blocks, array.blocks[i], from, to)
<1> DEFINE mr == array.blocks[i]
           split == split_region(array, i, from, to, TRUE)
           still == memory_mapping(split.blocks, from)
<1>1. Ordered(array.blocks) /\ mr \in Regions(array.blocks)
  BY DEF GoodArray, Ordered, Regions
<1>2. mr \in Region /\ mr.addr \in Int /\ mr.end \in Int
  BY <1>1, RegionsTyped, RegionFields, Zenon
<1>3. UnmapAt(array, i, from, to) = IF still # 0 THEN memory_unmap(split, still) ELSE split
  BY Zenon DEF UnmapAt
<1>4. CASE from <= mr.addr /\ to >= mr.end
  <2>1. split = array
    BY <1>4, Zenon DEF split_region
  <2>2. Holds(mr, from)
    BY <1>2, <1>4 DEF Holds
  <2>3. still # 0 /\ still \in 1 .. Len(array.blocks) /\ array.blocks[still] = mr
    <3> HIDE DEF mr, split
    <3> QED BY <2>1, <2>2, <1>1, MappingFinds, Zenon
  <2>4. /\ GoodArray(memory_unmap(array, still))
        /\ Regions(memory_unmap(array, still).blocks) = Regions(array.blocks) \ {mr}
    BY <2>3, UnmapRemoves, Zenon
  <2>5. Pieces(mr, mr.addr, from) = {} /\ Pieces(mr, to, mr.end) = {}
    BY <1>2, <1>4 DEF Pieces
  <2>6. Around(array.blocks, mr, from, to) = Regions(array.blocks) \ {mr}
    BY <2>5, Zenon DEF Around
  <2> HIDE DEF mr, split, still
  <2> QED BY <2>1, <2>3, <2>4, <2>6, <1>3, Zenon DEF mr
<1>5. CASE ~(from <= mr.addr /\ to >= mr.end)
  <2>1. GoodArray(split) /\ Regions(split.blocks) = Around(array.blocks, mr, from, to)
    <3>1. CutUp(split, array, mr, from, to, TRUE)
      BY <1>5, SplitReplaces, Zenon
    <3> HIDE DEF split, mr
    <3> QED BY <3>1, Zenon DEF CutUp, Around
  <2>2. Ordered(split.blocks)
    BY <2>1, Zenon DEF GoodArray
  <2>3. mr.addr <= from /\ to <= mr.end
    BY Zenon
  <2> HIDE DEF mr, split
  <2>4. \A x \in Regions(split.blocks) : ~Holds(x, from)
    BY <2>1, <2>3, <1>1, AroundClear, Zenon
  <2>5. still = 0
    BY <2>2, <2>4, MappingFinds, ZenonT(30)
  <2> QED BY <2>1, <2>5, <1>3, Zenon DEF mr
<1> QED BY <1>4, <1>5, Zenon

(* What an iteration of uc_mem_protect does to an array. *)
ProtectAt(array, i, from, to, perms) ==
  LET split == split_region(array, i, from, to, FALSE)
      mr == memory_mapping(split.blocks, from)
  IN  [split EXCEPT !.blocks[mr].perms = perms]

ProtectedPiece(r, from, to, perms) == [Piece(r, from, to) EXCEPT !.perms = perms]

Reprotected(new, blocks, mr, from, to, perms) ==
  /\ GoodArray(new)
  /\ Regions(new.blocks)
       = Around(blocks, mr, from, to) \cup {ProtectedPiece(mr, from, to, perms)}

(* It leaves the chunk as a region of its own with the new permissions. *)
LEMMA ProtectEffect ==
  ASSUME NEW array, GoodArray(array), NEW i \in 1 .. Len(array.blocks),
         NEW from \in Int, NEW to \in Int, NEW perms \in Perms,
         array.blocks[i].addr <= from, from < to, to <= array.blocks[i].end
  PROVE  Reprotected(ProtectAt(array, i, from, to, perms), array.blocks, array.blocks[i],
                     from, to, perms)
<1> DEFINE mr == array.blocks[i]
           split == split_region(array, i, from, to, FALSE)
           k == memory_mapping(split.blocks, from)
           q == Piece(mr, from, to)
           new == [q EXCEPT !.perms = perms]
<1>1. Ordered(array.blocks) /\ mr \in Regions(array.blocks)
  BY DEF GoodArray, Ordered, Regions
<1>2. mr \in Region /\ mr.addr \in Int /\ mr.end \in Int /\ mr.addr <= from /\ to <= mr.end
  BY <1>1, RegionsTyped, RegionFields, Zenon
<1>3. ProtectAt(array, i, from, to, perms) = [split EXCEPT !.blocks[k].perms = perms]
  BY Zenon DEF ProtectAt
<1>4. GoodArray(split) /\ Regions(split.blocks) = Around(array.blocks, mr, from, to) \cup {q}
  <2>1. CASE from <= mr.addr /\ to >= mr.end
    <3>1. split = array
      BY <2>1, Zenon DEF split_region
    <3>2. from = mr.addr /\ to = mr.end
      BY <2>1, <1>2
    <3>3. q = mr
      <4> HIDE DEF mr
      <4> QED BY <3>2, <1>2, PieceWhole, Zenon
    <3>4. Pieces(mr, mr.addr, from) = {} /\ Pieces(mr, to, mr.end) = {}
      BY <3>2, <1>2 DEF Pieces
    <3> HIDE DEF mr, split, q
    <3> QED BY <3>1, <3>3, <3>4, <1>1, Zenon DEF Around
  <2>2. CASE ~(from <= mr.addr /\ to >= mr.end)
    <3>1. CutUp(split, array, mr, from, to, FALSE)
      BY <2>2, SplitReplaces, Zenon
    <3> HIDE DEF split, mr
    <3> QED BY <3>1, Zenon DEF CutUp, Around, q
  <2> QED BY <2>1, <2>2, Zenon
<1>5. q \in Region /\ q.addr = from /\ q.end = to /\ q = [addr |-> q.addr, end |-> q.end, perms |-> q.perms, data |-> q.data]
  <2> HIDE DEF mr
  <2>1. q \in Region
    BY <1>2, PieceRegion, Zenon
  <2> QED BY <2>1, Zenon DEF Piece
<1>6. Holds(q, from)
  BY <1>5 DEF Holds
<1> HIDE DEF mr, q, split
<1>7. Ordered(split.blocks)
  BY <1>4, Zenon DEF GoodArray
<1>8. k \in 1 .. Len(split.blocks) /\ split.blocks[k] = q
  BY <1>4, <1>6, <1>7, MappingFinds, Zenon
<1> HIDE DEF k
<1>9. new \in Region /\ new.addr = q.addr /\ new.end = q.end
  BY <1>5, Zenon DEF Region
<1>10. q \notin Around(array.blocks, mr, from, to)
  BY <1>1, <1>2, <1>6, AroundClear, Zenon
<1>11. [split EXCEPT !.blocks[k].perms = perms] = Array([split.blocks EXCEPT ![k] = new], split.room)
  <2>1. split = Array(split.blocks, split.room)
    BY <1>4, Zenon DEF GoodArray
  <2>2. [split.blocks EXCEPT ![k].perms = perms] = [split.blocks EXCEPT ![k] = new]
    BY <1>8, Zenon
  <2> QED BY <2>1, <2>2 DEF Array
<1> HIDE DEF new
<1>12. /\ GoodArray(Array([split.blocks EXCEPT ![k] = new], split.room))
       /\ Regions([split.blocks EXCEPT ![k] = new]) = (Regions(split.blocks) \ {q}) \cup {new}
  BY <1>4, <1>8, <1>9, ChangeInPlace, SMTT(30)
<1>13. Array([split.blocks EXCEPT ![k] = new], split.room).blocks = [split.blocks EXCEPT ![k] = new]
  BY Zenon DEF Array
<1>14. (Regions(split.blocks) \ {q}) \cup {new} = Around(array.blocks, mr, from, to) \cup {new}
  BY <1>4, <1>10, Zenon
<1> QED BY <1>3, <1>11, <1>12, <1>13, <1>14, Zenon DEF new, q, mr, ProtectedPiece, Reprotected

-----------------------------------------------------------------------------
(* One iteration of a loop, on the pages *)

(* The region that memory_mapping finds for a page. *)
RegionOf(blocks, p) == blocks[memory_mapping(blocks, p)]

IsMapped(blocks, p) == memory_mapping(blocks, p) # 0

(* The page is the same in both arrays. *)
SameAt(b, c, p) ==
  /\ IsMapped(b, p) <=> IsMapped(c, p)
  /\ IsMapped(b, p) => /\ RegionOf(c, p).perms = RegionOf(b, p).perms
                       /\ RegionOf(c, p).data[p] = RegionOf(b, p).data[p]

(* The region that holds a page is the one that is found. *)
LEMMA Found ==
  ASSUME NEW blocks, Ordered(blocks), NEW p \in Int, NEW r \in Regions(blocks), Holds(r, p)
  PROVE  IsMapped(blocks, p) /\ RegionOf(blocks, p) = r
  BY MappingFinds, Zenon DEF IsMapped, RegionOf

(* The region that is found is one of the array and holds the page. *)
LEMMA FoundHolds ==
  ASSUME NEW blocks, Ordered(blocks), NEW p \in Int, IsMapped(blocks, p)
  PROVE  RegionOf(blocks, p) \in Regions(blocks) /\ Holds(RegionOf(blocks, p), p)
  BY MappingFinds, Zenon DEF IsMapped, RegionOf

(* The pages outside from .. to - 1 stay as they are in what is around them,
   and in whatever is added inside. *)
LEMMA AroundSame ==
  ASSUME NEW b, Ordered(b), NEW c, Ordered(c), NEW mr \in Regions(b),
         NEW from \in Int, NEW to \in Int, mr.addr <= from, from < to, to <= mr.end,
         NEW more, Regions(c) = Around(b, mr, from, to) \cup more,
         \A x \in more : x.addr = from /\ x.end = to,
         NEW p \in Int, p \notin from .. to - 1
  PROVE  SameAt(b, c, p)
<1>1. mr \in Region /\ mr.addr \in Int /\ mr.end \in Int
  BY RegionsTyped, RegionFields, Zenon
<1>2. \A x \in more : ~Holds(x, p)
  BY DEF Holds
<1>3. CASE Holds(mr, p)
  <2>1. IsMapped(b, p) /\ RegionOf(b, p) = mr
    BY <1>3, Found, Zenon
  <2>2. CASE p < from
    <3> DEFINE q == Piece(mr, mr.addr, from)
    <3>1. q \in Regions(c)
      BY <1>1, <1>3, <2>2 DEF Around, Pieces, Holds
    <3>2. q.addr = mr.addr /\ q.end = from /\ q.perms = mr.perms /\ q.data[p] = mr.data[p]
      BY <1>1, <1>3, <2>2 DEF Piece, Holds
    <3> HIDE DEF q
    <3>3. Holds(q, p)
      BY <3>2, <1>1, <1>3, <2>2, Zenon DEF Holds
    <3>4. IsMapped(c, p) /\ RegionOf(c, p) = q
      BY <3>1, <3>3, Found, Zenon
    <3> QED BY <3>2, <3>4, <2>1, Zenon DEF SameAt
  <2>3. CASE to <= p
    <3> DEFINE q == Piece(mr, to, mr.end)
    <3>1. q \in Regions(c)
      BY <1>1, <1>3, <2>3 DEF Around, Pieces, Holds
    <3>2. q.addr = to /\ q.end = mr.end /\ q.perms = mr.perms /\ q.data[p] = mr.data[p]
      BY <1>1, <1>3, <2>3 DEF Piece, Holds
    <3> HIDE DEF q
    <3>3. Holds(q, p)
      BY <3>2, <1>1, <1>3, <2>3, Zenon DEF Holds
    <3>4. IsMapped(c, p) /\ RegionOf(c, p) = q
      BY <3>1, <3>3, Found, Zenon
    <3> QED BY <3>2, <3>4, <2>1, Zenon DEF SameAt
  <2> QED BY <2>2, <2>3
<1>4. CASE ~Holds(mr, p) /\ IsMapped(b, p)
  <2>1. RegionOf(b, p) \in Regions(b) /\ Holds(RegionOf(b, p), p)
    BY <1>4, FoundHolds, Zenon
  <2>2. RegionOf(b, p) \in Regions(c)
    BY <1>4, <2>1, Zenon DEF Around
  <2>3. IsMapped(c, p) /\ RegionOf(c, p) = RegionOf(b, p)
    BY <2>1, <2>2, Found, Zenon
  <2> QED BY <2>3, <1>4, Zenon DEF SameAt
<1>5. CASE ~Holds(mr, p) /\ ~IsMapped(b, p)
  <2> SUFFICES ASSUME IsMapped(c, p) PROVE FALSE
    BY <1>5, Zenon DEF SameAt
  <2> DEFINE x == RegionOf(c, p)
  <2>1. x \in Regions(c) /\ Holds(x, p)
    BY FoundHolds, Zenon
  <2> HIDE DEF x
  <2>2. x \notin Regions(b)
    BY <2>1, <1>5, Found, Zenon
  <2>3. x \in Pieces(mr, mr.addr, from) \/ x \in Pieces(mr, to, mr.end)
    BY <2>1, <2>2, <1>2, Zenon DEF Around
  <2>4. Holds(mr, p)
    BY <2>1, <2>3, <1>1 DEF Pieces, Piece, Holds
  <2> QED BY <2>4, <1>5, Zenon
<1> QED BY <1>3, <1>4, <1>5, Zenon

(* The pages inside are in none of what is around them. *)
LEMMA AroundGone ==
  ASSUME NEW b, Ordered(b), NEW c, Ordered(c), NEW mr \in Regions(b),
         NEW from \in Int, NEW to \in Int, mr.addr <= from, from < to, to <= mr.end,
         Regions(c) = Around(b, mr, from, to), NEW p \in from .. to - 1
  PROVE  ~IsMapped(c, p)
<1> SUFFICES ASSUME IsMapped(c, p) PROVE FALSE
  BY Zenon
<1>1. mr \in Region /\ mr.addr \in Int /\ mr.end \in Int /\ p \in Int
  BY RegionsTyped, RegionFields
<1> DEFINE x == RegionOf(c, p)
<1>2. x \in Around(b, mr, from, to) /\ Holds(x, p)
  BY <1>1, FoundHolds, Zenon
<1> HIDE DEF x
<1>3. CASE x \in Regions(b) /\ x # mr
  <2>1. x \in Region /\ Apart(x, mr)
    BY <1>3, RegionsApart, Zenon
  <2>2. x.addr \in Int /\ x.end \in Int
    BY <2>1, RegionFields, Zenon
  <2> QED BY <2>1, <2>2, <1>1, <1>2 DEF Apart, Holds
<1>4. CASE x \in Pieces(mr, mr.addr, from) \/ x \in Pieces(mr, to, mr.end)
  BY <1>4, <1>1, <1>2 DEF Pieces, Piece, Holds
<1> QED BY <1>2, <1>3, <1>4, Zenon DEF Around

-----------------------------------------------------------------------------
(* The invariant *)

Ops ==
  [call : {"unmap"}, addr : Nat, left : Nat, arg : {Zero}]
    \cup [call : {"protect"}, addr : Nat, left : Nat, arg : Perms]
    \cup [call : {"write"}, addr : Nat, left : Nat, arg : Contents]

(* A call in progress has something left to do, inside the address space. *)
OpOK ==
  \/ op = Idle
  \/ op \in Ops /\ op.left > 0 /\ op.addr + op.left <= PageCount

(* The inductive invariant: Sorted and LoopFindsRegion as they are; the room
   for the regions has to be known up to the next multiple of MEM_BLOCK_INCR,
   because in between mem_map does not look at it. *)
UcIInv ==
  /\ GoodArray(Array(mapped_blocks, room))
  /\ OpOK
  /\ LoopFindsRegion

Chunk == op.addr .. ChunkEnd - 1

(* What the fields of a call in progress are. *)
LEMMA OpFields ==
  ASSUME UcIInv, op.call # "none"
  PROVE  /\ op \in Ops /\ op.call \in {"unmap", "protect", "write"}
         /\ op.addr \in Nat /\ op.left \in Nat /\ op.left > 0
         /\ op.addr + op.left <= PageCount
         /\ op.call = "protect" => op.arg \in Perms
         /\ op.call = "write" => op.arg \in Contents
<1>1. op # Idle
  BY DEF Idle
<1>2. op \in Ops /\ op.left > 0 /\ op.addr + op.left <= PageCount
  BY <1>1, Zenon DEF UcIInv, OpOK
<1> QED BY <1>2, Zenon DEF Ops

(* An iteration finds a region that holds its chunk, which is not empty and
   within what is left. *)
LEMMA ChunkInRegion ==
  ASSUME UcIInv, op.call # "none"
  PROVE  /\ RegionAt \in 1 .. Len(mapped_blocks)
         /\ Ordered(mapped_blocks)
         /\ mapped_blocks[RegionAt] \in Regions(mapped_blocks) /\ mapped_blocks[RegionAt] \in Region
         /\ op.addr \in Int /\ ChunkEnd \in Int
         /\ mapped_blocks[RegionAt].addr <= op.addr /\ op.addr < ChunkEnd
         /\ ChunkEnd <= mapped_blocks[RegionAt].end
         /\ ChunkEnd <= op.addr + op.left
<1>1. op.addr \in Int /\ op.left \in Int /\ op.left > 0
  BY OpFields
<1>2. Ordered(mapped_blocks)
  BY Zenon DEF UcIInv, GoodArray, Array
<1>3. RegionAt # 0
  <2>1. op.addr \in op.addr .. op.addr + op.left - 1
    BY <1>1
  <2> QED BY <2>1, Zenon DEF UcIInv, LoopFindsRegion, RegionAt
<1> DEFINE mr == mapped_blocks[RegionAt]
<1>4. RegionAt \in 1 .. Len(mapped_blocks) /\ mr \in Regions(mapped_blocks) /\ Holds(mr, op.addr)
  BY <1>1, <1>2, <1>3, MappingFinds, Zenon DEF RegionAt
<1>5. mr \in Region /\ mr.addr \in Int /\ mr.end \in Int
  BY <1>2, <1>4, RegionsTyped, RegionFields, Zenon
<1>6. ChunkEnd = IF op.left < mr.end - op.addr THEN op.addr + op.left ELSE mr.end
  BY Zenon DEF ChunkEnd
<1> HIDE DEF mr
<1>7. /\ ChunkEnd \in Int /\ op.addr < ChunkEnd
      /\ ChunkEnd <= mr.end /\ ChunkEnd <= op.addr + op.left
  BY <1>1, <1>4, <1>5, <1>6, SMTT(30) DEF Holds
<1> QED BY <1>1, <1>2, <1>4, <1>5, <1>7, Zenon DEF mr, Holds

(* An iteration takes its chunk off what is left, and nothing else. *)
LEMMA ChunkAdvances ==
  ASSUME UcIInv, op.call # "none", Advance
  PROVE  /\ OpOK' /\ op'.left < op.left
         /\ Pending' = Pending \ Chunk
         /\ \/ op' = Idle /\ op'.call = "none" /\ Pending' = {}
            \/ op'.call = op.call /\ op'.arg = op.arg
<1> DEFINE e == ChunkEnd
<1>1. /\ op \in Ops /\ op.addr \in Nat /\ op.left \in Nat /\ op.left > 0
      /\ op.addr + op.left <= PageCount /\ PageCount \in Nat
  BY OpFields, UcAssumption, Zenon
<1>2. e \in Int /\ op.addr < e /\ e <= op.addr + op.left
  BY ChunkInRegion, Zenon
<1>3. op' = IF op.addr + op.left = e THEN Idle
            ELSE [op EXCEPT !.addr = e, !.left = op.addr + op.left - e]
  BY Zenon DEF Advance
<1>4. Chunk = op.addr .. e - 1
  BY Zenon DEF Chunk
<1> HIDE DEF e
<1>5. CASE op.addr + op.left = e
  <2>1. op' = Idle
    BY <1>3, <1>5, Zenon
  <2>2. Pending' = {} /\ op'.left = 0 /\ op'.call = "none"
    BY <2>1 DEF Pending, Idle
  <2>3. Pending \ Chunk = {}
    BY <1>1, <1>2, <1>4, <1>5 DEF Pending
  <2> QED BY <2>1, <2>2, <2>3, <1>1, Zenon DEF OpOK
<1>6. CASE op.addr + op.left # e
  <2> DEFINE n == op.addr + op.left - e
  <2>1. op' = [op EXCEPT !.addr = e, !.left = n]
    BY <1>3, <1>6, Zenon
  <2>2. e \in Nat /\ n \in Nat /\ n > 0 /\ n < op.left /\ e + n = op.addr + op.left
    BY <1>1, <1>2, <1>6
  <2> HIDE DEF n
  <2>3. /\ op' \in Ops /\ op'.addr = e /\ op'.left = n
        /\ op'.call = op.call /\ op'.arg = op.arg
    BY <2>1, <2>2, <1>1, Zenon DEF Ops
  <2>4. OpOK'
    BY <2>2, <2>3, <1>1, Zenon DEF OpOK
  <2>5. Pending' = Pending \ Chunk
    BY <2>2, <2>3, <1>1, <1>2, <1>4, SMTT(30) DEF Pending
  <2> QED BY <2>2, <2>3, <2>4, <2>5, Zenon
<1> QED BY <1>5, <1>6, Zenon

(* What an iteration of uc_mem_unmap does to the pages. *)
LEMMA UnmapPages ==
  ASSUME UcIInv, UnmapChunk
  PROVE  /\ GoodArray(Array(mapped_blocks, room)')
         /\ \A p \in Chunk : ~IsMapped(mapped_blocks', p)
         /\ \A p \in Int \ Chunk : SameAt(mapped_blocks, mapped_blocks', p)
<1> DEFINE array == Array(mapped_blocks, room)
           new == UnmapAt(array, RegionAt, op.addr, ChunkEnd)
           mr == mapped_blocks[RegionAt]
<1>1. op.call # "none"
  BY Zenon DEF UnmapChunk
<1>2. /\ RegionAt \in 1 .. Len(mapped_blocks) /\ Ordered(mapped_blocks)
      /\ mr \in Regions(mapped_blocks) /\ op.addr \in Int /\ ChunkEnd \in Int
      /\ mr.addr <= op.addr /\ op.addr < ChunkEnd /\ ChunkEnd <= mr.end
  BY <1>1, ChunkInRegion, Zenon
<1>3. GoodArray(array) /\ array.blocks = mapped_blocks
  BY Zenon DEF UcIInv, Array
<1>4. mapped_blocks' = new.blocks /\ room' = new.room
  BY Zenon DEF UnmapChunk, Becomes, UnmapAt
<1> HIDE DEF array, new, mr
<1>5. GoodArray(new) /\ Regions(new.blocks) = Around(mapped_blocks, mr, op.addr, ChunkEnd)
  BY <1>2, <1>3, UnmapEffect, Zenon DEF new, mr
<1>6. new = Array(new.blocks, new.room) /\ Ordered(new.blocks)
  BY <1>5, Zenon DEF GoodArray
<1>7. \A p \in Chunk : ~IsMapped(new.blocks, p)
  BY <1>2, <1>5, <1>6, AroundGone, Zenon DEF Chunk
<1>8. ASSUME NEW p \in Int \ Chunk PROVE SameAt(mapped_blocks, new.blocks, p)
  <2> DEFINE none == {}
  <2>1. Regions(new.blocks) = Around(mapped_blocks, mr, op.addr, ChunkEnd) \cup none
    BY <1>5, Zenon
  <2>2. \A x \in none : x.addr = op.addr /\ x.end = ChunkEnd
    BY Zenon
  <2> HIDE DEF none
  <2> QED BY <2>1, <2>2, <1>2, <1>6, AroundSame, Zenon DEF Chunk
<1> QED BY <1>4, <1>5, <1>6, <1>7, <1>8, Zenon

(* What an iteration of uc_mem_protect does to the pages. *)
LEMMA ProtectPages ==
  ASSUME UcIInv, ProtectChunk
  PROVE  /\ GoodArray(Array(mapped_blocks, room)')
         /\ \A p \in Chunk :
              /\ IsMapped(mapped_blocks, p) /\ IsMapped(mapped_blocks', p)
              /\ RegionOf(mapped_blocks', p).perms = op.arg
              /\ RegionOf(mapped_blocks', p).data[p] = RegionOf(mapped_blocks, p).data[p]
         /\ \A p \in Int \ Chunk : SameAt(mapped_blocks, mapped_blocks', p)
<1> DEFINE array == Array(mapped_blocks, room)
           new == ProtectAt(array, RegionAt, op.addr, ChunkEnd, op.arg)
           mr == mapped_blocks[RegionAt]
           q == ProtectedPiece(mr, op.addr, ChunkEnd, op.arg)
<1>1. op.call # "none" /\ op.call = "protect"
  BY Zenon DEF ProtectChunk
<1>2. /\ RegionAt \in 1 .. Len(mapped_blocks) /\ Ordered(mapped_blocks)
      /\ mr \in Regions(mapped_blocks) /\ op.addr \in Int /\ ChunkEnd \in Int
      /\ mr.addr <= op.addr /\ op.addr < ChunkEnd /\ ChunkEnd <= mr.end
      /\ mr.addr \in Int /\ mr.end \in Int
  BY <1>1, ChunkInRegion, RegionFields, Zenon
<1>3. GoodArray(array) /\ array.blocks = mapped_blocks
  BY Zenon DEF UcIInv, Array
<1>4. mapped_blocks' = new.blocks /\ room' = new.room
  BY Zenon DEF ProtectChunk, Becomes, ProtectAt
<1>5. op.arg \in Perms
  BY <1>1, OpFields, Zenon
<1>6. /\ q.addr = op.addr /\ q.end = ChunkEnd /\ q.perms = op.arg
      /\ \A p \in Chunk : q.data[p] = mr.data[p]
  BY Zenon DEF ProtectedPiece, Piece, Chunk
<1> HIDE DEF array, new, mr
<1>7. GoodArray(new) /\ Regions(new.blocks) = Around(mapped_blocks, mr, op.addr, ChunkEnd) \cup {q}
  <2> DEFINE a == op.addr
             e == ChunkEnd
             i == RegionAt
             perms == op.arg
  <2>1. /\ i \in 1 .. Len(array.blocks) /\ GoodArray(array) /\ perms \in Perms
        /\ a \in Int /\ e \in Int
        /\ array.blocks[i].addr <= a /\ a < e /\ e <= array.blocks[i].end
    BY <1>2, <1>3, <1>5, Zenon DEF mr
  <2> HIDE DEF a, e, i, perms
  <2>2. Reprotected(ProtectAt(array, i, a, e, perms), array.blocks, array.blocks[i],
                    a, e, perms)
    BY <2>1, ProtectEffect, Zenon
  <2> QED BY <2>2, <1>3, Zenon DEF new, mr, a, e, i, perms, Reprotected
<1> HIDE DEF q
<1>8. new = Array(new.blocks, new.room) /\ Ordered(new.blocks)
  BY <1>7, Zenon DEF GoodArray
<1>9. ASSUME NEW p \in Chunk
      PROVE  /\ IsMapped(mapped_blocks, p) /\ IsMapped(new.blocks, p)
             /\ RegionOf(mapped_blocks, p) = mr /\ RegionOf(new.blocks, p) = q
  <2>1. p \in Int /\ Holds(mr, p) /\ Holds(q, p)
    BY <1>2, <1>6 DEF Chunk, Holds
  <2>2. q \in Regions(new.blocks)
    BY <1>7, Zenon
  <2> QED BY <2>1, <2>2, <1>2, <1>8, Found, Zenon
<1>10. ASSUME NEW p \in Int \ Chunk PROVE SameAt(mapped_blocks, new.blocks, p)
  <2> DEFINE more == {q}
  <2>1. /\ Regions(new.blocks) = Around(mapped_blocks, mr, op.addr, ChunkEnd) \cup more
        /\ \A x \in more : x.addr = op.addr /\ x.end = ChunkEnd
    BY <1>6, <1>7, Zenon
  <2> HIDE DEF more
  <2> QED BY <2>1, <1>2, <1>8, AroundSame, Zenon DEF Chunk
<1> QED BY <1>4, <1>6, <1>7, <1>8, <1>9, <1>10, Zenon

(* What an iteration of uc_mem_write does to the pages. *)
LEMMA WritePages ==
  ASSUME UcIInv, WriteChunk
  PROVE  /\ GoodArray(Array(mapped_blocks, room)')
         /\ \A p \in Chunk :
              /\ IsMapped(mapped_blocks, p) /\ IsMapped(mapped_blocks', p)
              /\ RegionOf(mapped_blocks', p).perms = RegionOf(mapped_blocks, p).perms
              /\ RegionOf(mapped_blocks', p).data[p] = op.arg
         /\ \A p \in Int \ Chunk : SameAt(mapped_blocks, mapped_blocks', p)
<1> DEFINE array == Array(mapped_blocks, room)
           mr == mapped_blocks[RegionAt]
           data == [p \in DOMAIN mr.data |->
                      IF op.addr <= p /\ p < ChunkEnd THEN op.arg ELSE mr.data[p]]
           q == [mr EXCEPT !.data = data]
           c == [mapped_blocks EXCEPT ![RegionAt] = q]
<1>1. op.call # "none" /\ op.call = "write"
  BY Zenon DEF WriteChunk
<1>2. /\ RegionAt \in 1 .. Len(mapped_blocks) /\ Ordered(mapped_blocks)
      /\ mr \in Regions(mapped_blocks) /\ op.addr \in Int /\ ChunkEnd \in Int
      /\ mr.addr <= op.addr /\ op.addr < ChunkEnd /\ ChunkEnd <= mr.end
      /\ mr \in Region
  BY <1>1, ChunkInRegion, Zenon
<1>3. GoodArray(array) /\ array.blocks = mapped_blocks /\ array.room = room
  BY Zenon DEF UcIInv, Array
<1>4. mapped_blocks' = c /\ room' = room
  BY Zenon DEF WriteChunk
<1>5. op.arg \in Contents
  BY <1>1, OpFields, Zenon
<1>6. /\ mr.addr \in Int /\ mr.end \in Int
      /\ mr.data \in [mr.addr .. mr.end - 1 -> Contents]
      /\ mr = [addr |-> mr.addr, end |-> mr.end, perms |-> mr.perms, data |-> mr.data]
  <2>1. mr = [addr |-> mr.addr, end |-> mr.end, perms |-> mr.perms, data |-> mr.data]
    BY <1>2, Zenon DEF Region
  <2> QED BY <2>1, <1>2, RegionFields, Zenon
<1> HIDE DEF mr
<1>7. /\ DOMAIN data = mr.addr .. mr.end - 1
      /\ data \in [mr.addr .. mr.end - 1 -> Contents]
      /\ \A p \in Chunk : data[p] = op.arg
      /\ \A p \in Int \ Chunk : Holds(mr, p) => data[p] = mr.data[p]
  BY <1>2, <1>5, <1>6, SMTT(30) DEF Chunk, Holds
<1> HIDE DEF data
<1>8. q.addr = mr.addr /\ q.end = mr.end /\ q.perms = mr.perms /\ q.data = data
  BY <1>6, Zenon
<1>9. q \in Region
  <2>1. q = [addr |-> mr.addr, end |-> mr.end, perms |-> mr.perms, data |-> data]
    BY <1>6
  <2>2. mr.addr .. mr.end - 1 \in SUBSET (0 .. PageCount - 1)
    BY <1>2, RegionFields, UcAssumption
  <2> HIDE DEF q
  <2> QED BY <2>1, <2>2, <1>2, <1>7, RegionFields DEF Region
<1> HIDE DEF q, array
<1>10. GoodArray(Array(c, room)) /\ Regions(c) = (Regions(mapped_blocks) \ {mr}) \cup {q}
  <2>1. /\ RegionAt \in 1 .. Len(array.blocks) /\ GoodArray(array) /\ q \in Region
        /\ q.addr = array.blocks[RegionAt].addr /\ q.end = array.blocks[RegionAt].end
    BY <1>2, <1>3, <1>8, <1>9, Zenon DEF mr
  <2>2. /\ GoodArray(Array([array.blocks EXCEPT ![RegionAt] = q], array.room))
        /\ Regions([array.blocks EXCEPT ![RegionAt] = q])
             = (Regions(array.blocks) \ {array.blocks[RegionAt]}) \cup {q}
    BY <2>1, ChangeInPlace
  <2> QED BY <2>2, <1>3, Zenon DEF mr
<1> HIDE DEF c
<1>11. Ordered(c)
  BY <1>10, Zenon DEF GoodArray, Array
<1>12. ASSUME NEW p \in Int, Holds(mr, p)
       PROVE  /\ IsMapped(mapped_blocks, p) /\ IsMapped(c, p)
              /\ RegionOf(mapped_blocks, p) = mr /\ RegionOf(c, p) = q
  <2>1. Holds(q, p) /\ q \in Regions(c)
    BY <1>8, <1>10, <1>12, Zenon DEF Holds
  <2> QED BY <2>1, <1>2, <1>11, <1>12, Found, Zenon
<1>13. ASSUME NEW p \in Chunk PROVE p \in Int /\ Holds(mr, p)
  BY <1>2, <1>6 DEF Chunk, Holds
<1>14. ASSUME NEW p \in Int \ Chunk PROVE SameAt(mapped_blocks, c, p)
  <2>1. CASE Holds(mr, p)
    BY <2>1, <1>7, <1>8, <1>12, Zenon DEF SameAt
  <2>2. CASE ~Holds(mr, p)
    <3>1. ~Holds(q, p)
      BY <2>2, <1>8, Zenon DEF Holds
    <3>2. CASE IsMapped(mapped_blocks, p)
      <4>1. RegionOf(mapped_blocks, p) \in Regions(c) /\ Holds(RegionOf(mapped_blocks, p), p)
        BY <3>2, <2>2, <1>2, <1>10, FoundHolds
      <4> QED BY <4>1, <3>2, <1>11, Found, Zenon DEF SameAt
    <3>3. CASE IsMapped(c, p)
      <4>1. RegionOf(c, p) \in Regions(mapped_blocks) /\ Holds(RegionOf(c, p), p)
        BY <3>1, <3>3, <1>10, <1>11, FoundHolds, Zenon
      <4> QED BY <4>1, <3>2, <1>2, Found, Zenon
    <3> QED BY <3>2, <3>3, Zenon DEF SameAt
  <2> QED BY <2>1, <2>2, Zenon
<1> QED BY <1>4, <1>7, <1>8, <1>10, <1>12, <1>13, <1>14, Zenon

(* What uc_mem_map does to the pages: none of the range was mapped. *)
LEMMA MapPages ==
  ASSUME UcIInv, NEW address \in Nat, NEW size \in Nat, NEW perms \in Perms,
         address + size <= PageCount, uc_mem_map(address, size, perms)
  PROVE  /\ GoodArray(Array(mapped_blocks, room)')
         /\ \A p \in address .. address + size - 1 :
              /\ ~IsMapped(mapped_blocks, p) /\ IsMapped(mapped_blocks', p)
              /\ RegionOf(mapped_blocks', p).perms = perms
              /\ RegionOf(mapped_blocks', p).data[p] = Zero
         /\ \A p \in Int \ (address .. address + size - 1) :
              SameAt(mapped_blocks, mapped_blocks', p)
<1> DEFINE data == [p \in address .. address + size - 1 |-> Zero]
           new == [addr |-> address, end |-> address + size, perms |-> perms, data |-> data]
           array == Array(mapped_blocks, room)
           made == mem_map(array, new)
           s == mapped_blocks
           i == bsearch_mapped_blocks(s, address)
<1>1. size > 0 /\ mapped_blocks' = made.blocks /\ room' = made.room
  BY Zenon DEF uc_mem_map, Becomes
<1>2. GoodArray(array) /\ array.blocks = s /\ Ordered(s)
  BY Zenon DEF UcIInv, GoodArray, Array
<1>3. ~(i <= Len(s) /\ address + size - 1 >= s[i].addr)
  BY Zenon DEF uc_mem_map, memory_overlap
<1>4. data \in [address .. address + size - 1 -> Contents]
  BY UcAssumption, Zenon
<1>5. new \in Region
  <2>1. address .. address + size - 1 \in SUBSET (0 .. PageCount - 1)
    BY UcAssumption
  <2>2. data \in UNION {[S -> Contents] : S \in SUBSET (0 .. PageCount - 1)}
    BY <2>1, <1>4, Zenon
  <2>3. address \in 0 .. PageCount /\ address + size \in 0 .. PageCount /\ address < address + size
    BY <1>1, UcAssumption
  <2> HIDE DEF data
  <2> QED BY <2>2, <2>3, <1>4 DEF Region
<1>6. /\ new.addr = address /\ new.end = address + size /\ new.perms = perms
      /\ \A p \in address .. address + size - 1 : new.data[p] = Zero
  BY Zenon
<1>7. /\ i \in 1 .. Len(s) + 1
      /\ \A j \in 1 .. i - 1 : s[j].end <= address
  <2>1. address \in Int
    OBVIOUS
  <2> QED BY <2>1, <1>2, Bisected, Zenon
<1>8. /\ Len(s) \in Nat /\ DOMAIN s = 1 .. Len(s)
      /\ \A j \in 1 .. Len(s) : s[j] \in Region
      /\ \A k, j \in 1 .. Len(s) : k < j => s[k].end <= s[j].addr
  BY <1>2 DEF Ordered
<1> HIDE DEF new, array, made, i, s
<1>9. ASSUME NEW x \in Regions(s) PROVE Apart(x, new)
  <2>1. PICK j \in 1 .. Len(s) : x = s[j]
    BY <1>8, Zenon DEF Regions
  <2>2. s[j].addr \in Int /\ s[j].end \in Int /\ s[j].addr < s[j].end
    BY <1>8, RegionFields, Zenon
  <2>3. CASE j < i
    BY <2>1, <2>3, <1>6, <1>7, <1>8, SMTT(30) DEF Apart
  <2>4. CASE j >= i
    <3>1. i \in 1 .. Len(s) /\ address + size <= s[i].addr
      <4>1. i \in 1 .. Len(s)
        BY <2>4, <1>7, <1>8
      <4>2. s[i].addr \in Int
        BY <4>1, <1>8, RegionFields, Zenon
      <4> QED BY <4>1, <4>2, <1>3
    <3>2. s[i].addr \in Int /\ s[i].end \in Int /\ s[i].addr < s[i].end
      BY <3>1, <1>8, RegionFields, Zenon
    <3>3. s[i].addr <= s[j].addr
      <4>1. CASE i = j
        BY <4>1, <3>2
      <4>2. CASE i < j
        <5>1. s[i].end <= s[j].addr
          BY <4>2, <3>1, <1>8, Zenon
        <5> QED BY <5>1, <3>2, <2>2, SMTT(30)
      <4> QED BY <4>1, <4>2, <2>4, <1>7
    <3> QED BY <3>1, <3>2, <3>3, <2>1, <2>2, <1>6 DEF Apart
  <2> QED BY <2>3, <2>4, <1>7
<1>10. GoodArray(made) /\ Regions(made.blocks) = Regions(s) \cup {new}
  BY <1>2, <1>5, <1>9, MapAdds, Zenon DEF made
<1>11. made = Array(made.blocks, made.room) /\ Ordered(made.blocks)
  BY <1>10, Zenon DEF GoodArray
<1>12. ASSUME NEW p \in address .. address + size - 1
       PROVE  ~IsMapped(s, p) /\ IsMapped(made.blocks, p) /\ RegionOf(made.blocks, p) = new
  <2>1. p \in Int /\ Holds(new, p) /\ new \in Regions(made.blocks)
    BY <1>6, <1>10 DEF Holds
  <2>2. IsMapped(made.blocks, p) /\ RegionOf(made.blocks, p) = new
    BY <2>1, <1>11, Found, Zenon
  <2>3. ASSUME IsMapped(s, p) PROVE FALSE
    <3> DEFINE x == RegionOf(s, p)
    <3>1. x \in Regions(s) /\ Holds(x, p)
      BY <2>1, <2>3, <1>2, FoundHolds, Zenon
    <3> HIDE DEF x
    <3>2. Apart(x, new) /\ x.addr \in Int /\ x.end \in Int
      BY <3>1, <1>2, <1>9, RegionsTyped, RegionFields, Zenon
    <3> QED BY <3>1, <3>2, <1>6 DEF Apart, Holds
  <2> QED BY <2>2, <2>3, Zenon
<1>13. ASSUME NEW p \in Int \ (address .. address + size - 1) PROVE SameAt(s, made.blocks, p)
  <2>1. ~Holds(new, p)
    BY <1>6 DEF Holds
  <2>2. CASE IsMapped(s, p)
    <3>1. RegionOf(s, p) \in Regions(made.blocks) /\ Holds(RegionOf(s, p), p)
      BY <2>2, <1>2, <1>10, FoundHolds, Zenon
    <3> QED BY <3>1, <2>2, <1>11, Found, Zenon DEF SameAt
  <2>3. CASE IsMapped(made.blocks, p)
    <3>1. RegionOf(made.blocks, p) \in Regions(s) /\ Holds(RegionOf(made.blocks, p), p)
      BY <2>1, <2>3, <1>10, <1>11, FoundHolds, Zenon
    <3> QED BY <3>1, <2>2, <1>2, Found, Zenon
  <2> QED BY <2>2, <2>3, Zenon DEF SameAt
<1> QED BY <1>1, <1>6, <1>10, <1>11, <1>12, <1>13, Zenon DEF s

-----------------------------------------------------------------------------
(* The theorems *)

(* A call with a range inside the address space. *)
MapsSome ==
  \E r \in Requests, perms \in Perms : uc_mem_map(r[1], r[2], perms)

BeginsSome ==
  \E r \in Requests :
    \/ uc_mem_unmap(r[1], r[2])
    \/ \E perms \in Perms : uc_mem_protect(r[1], r[2], perms)
    \/ \E value \in Contents : uc_mem_write(r[1], r[2], value)

(* The requests of the emulator. *)
LEMMA RequestRange ==
  ASSUME NEW r \in Requests
  PROVE  r[1] \in Nat /\ r[2] \in Nat /\ r[2] > 0 /\ r[1] + r[2] <= PageCount
  BY UcAssumption DEF Requests

(* Every step is one of five. *)
LEMMA UcCases ==
  ASSUME UcNext
  PROVE  MapsSome \/ BeginsSome \/ UnmapChunk \/ ProtectChunk \/ WriteChunk
<1>1. CASE \E r \in Requests, perms \in Perms : uc_mem_map(r[1], r[2], perms)
  BY <1>1, Zenon DEF MapsSome
<1>2. CASE \E r \in Requests, perms \in Perms : uc_mem_protect(r[1], r[2], perms)
  BY <1>2, Zenon DEF BeginsSome
<1>3. CASE \E r \in Requests : uc_mem_unmap(r[1], r[2])
  BY <1>3, Zenon DEF BeginsSome
<1>4. CASE \E r \in Requests, value \in Contents : uc_mem_write(r[1], r[2], value)
  BY <1>4, Zenon DEF BeginsSome
<1> QED BY <1>1, <1>2, <1>3, <1>4, Zenon DEF UcNext

(* What is left to do is still mapped when the pages outside the chunk are as
   they were. *)
LEMMA StillMapped ==
  ASSUME UcIInv, op.call # "none", Advance, GoodArray(Array(mapped_blocks, room)'),
         \A p \in Int \ Chunk : SameAt(mapped_blocks, mapped_blocks', p)
  PROVE  UcIInv'
<1>1. OpOK' /\ Pending' = Pending \ Chunk
  BY ChunkAdvances, Zenon
<1>2. \A p \in Pending : p \in Int /\ IsMapped(mapped_blocks, p)
  BY OpFields DEF UcIInv, LoopFindsRegion, Pending, IsMapped
<1>3. \A p \in Pending' : IsMapped(mapped_blocks', p)
  BY <1>1, <1>2, Zenon DEF SameAt
<1>4. LoopFindsRegion'
  BY <1>3, Zenon DEF LoopFindsRegion, Pending, IsMapped
<1> QED BY <1>1, <1>4, Zenon DEF UcIInv

(* UcIInv is inductive. *)
LEMMA UcStep ==
  ASSUME UcIInv, [UcNext]_ucVars PROVE UcIInv'
<1>1. CASE MapsSome
  <2>1. PICK r \in Requests, perms \in Perms : uc_mem_map(r[1], r[2], perms)
    BY <1>1, Zenon DEF MapsSome
  <2>2. op = Idle /\ op' = op
    BY <2>1, Zenon DEF uc_mem_map
  <2>3. GoodArray(Array(mapped_blocks, room)')
    BY <2>1, RequestRange, MapPages, Zenon
  <2>4. OpOK' /\ op'.call = "none"
    BY <2>2, Zenon DEF OpOK, Idle
  <2> QED BY <2>3, <2>4, Zenon DEF UcIInv, LoopFindsRegion
<1>2. CASE BeginsSome
  <2>1. PICK call, r, arg :
          /\ call \in {"unmap", "protect", "write"} /\ r \in Requests
          /\ Begins(call, r[1], r[2], arg)
          /\ [call |-> call, addr |-> r[1], left |-> r[2], arg |-> arg] \in Ops
    <3>1. PICK r \in Requests :
            \/ uc_mem_unmap(r[1], r[2])
            \/ \E perms \in Perms : uc_mem_protect(r[1], r[2], perms)
            \/ \E value \in Contents : uc_mem_write(r[1], r[2], value)
      BY <1>2, Zenon DEF BeginsSome
    <3>2. r[1] \in Nat /\ r[2] \in Nat
      BY RequestRange, Zenon
    <3> QED BY <3>1, <3>2, Zenon DEF uc_mem_unmap, uc_mem_protect, uc_mem_write, Ops
  <2>2. /\ op' = [call |-> call, addr |-> r[1], left |-> r[2], arg |-> arg]
        /\ check_mem_area(mapped_blocks, r[1], r[2])
        /\ mapped_blocks' = mapped_blocks /\ room' = room
    BY <2>1, Zenon DEF Begins
  <2>3. OpOK'
    BY <2>1, <2>2, RequestRange, Zenon DEF OpOK
  <2>4. LoopFindsRegion'
    BY <2>2, Zenon DEF LoopFindsRegion, check_mem_area
  <2> QED BY <2>2, <2>3, <2>4, Zenon DEF UcIInv
<1>3. CASE UnmapChunk
  <2>1. op.call # "none" /\ Advance
    BY <1>3, Zenon DEF UnmapChunk
  <2> QED BY <2>1, <1>3, UnmapPages, StillMapped, Zenon
<1>4. CASE ProtectChunk
  <2>1. op.call # "none" /\ Advance
    BY <1>4, Zenon DEF ProtectChunk
  <2> QED BY <2>1, <1>4, ProtectPages, StillMapped, Zenon
<1>5. CASE WriteChunk
  <2>1. op.call # "none" /\ Advance
    BY <1>5, Zenon DEF WriteChunk
  <2> QED BY <2>1, <1>5, WritePages, StillMapped, Zenon
<1>6. CASE UNCHANGED ucVars
  BY <1>6, Zenon DEF ucVars, UcIInv, OpOK, LoopFindsRegion
<1> QED BY <1>1, <1>2, <1>3, <1>4, <1>5, <1>6, UcCases, Zenon

(* The inductive invariant holds before the first call: the array is empty, and
   the room for no pointers is a multiple of the increment. *)
LEMMA UcStart ==
  ASSUME UcInit PROVE UcIInv
<1>1. mapped_blocks = <<>> /\ room = 0 /\ op = Idle
  BY Zenon DEF UcInit
<1>2. Ordered(mapped_blocks)
  BY <1>1 DEF Ordered
<1>3. RoomFor(Len(mapped_blocks), room)
  <2>1. 0 % MEM_BLOCK_INCR = 0
    BY UcAssumption
  <2> QED BY <2>1, <1>1 DEF RoomFor
<1>4. GoodArray(Array(mapped_blocks, room))
  BY <1>2, <1>3, Zenon DEF GoodArray, Array
<1>5. OpOK /\ LoopFindsRegion
  BY <1>1, Zenon DEF OpOK, LoopFindsRegion, Idle
<1> QED BY <1>4, <1>5, Zenon DEF UcIInv

(* It is more than UcInv asks for. *)
LEMMA UcImplied ==
  ASSUME UcIInv PROVE UcInv
<1>1. Ordered(mapped_blocks) /\ RoomFor(Len(mapped_blocks), room)
  BY Zenon DEF UcIInv, GoodArray, Array
<1>2. DOMAIN mapped_blocks = 1 .. Len(mapped_blocks) /\ Len(mapped_blocks) \in Nat
  BY <1>1 DEF Ordered
<1>3. \A i \in DOMAIN mapped_blocks : mapped_blocks[i] \in Region
  BY <1>1 DEF Ordered
<1>4. Sorted
  BY <1>1, <1>2, <1>3, RegionFields, Zenon DEF Sorted, Ordered
<1>5. room \in Nat /\ RoomEnough
  BY <1>1, <1>2 DEF RoomFor, RoomEnough
<1>6. /\ op.call \in {"none", "unmap", "protect", "write"}
      /\ op.addr + op.left \in 0 .. PageCount
  <2>1. CASE op = Idle
    BY <2>1, UcAssumption DEF Idle
  <2>2. CASE op # Idle
    BY <2>2, UcAssumption DEF UcIInv, OpOK, Ops
  <2> QED BY <2>1, <2>2, Zenon
<1>7. UcTypeOK
  BY <1>3, <1>5, <1>6, RegionFields, Zenon DEF UcTypeOK
<1> QED BY <1>4, <1>5, <1>7, Zenon DEF UcIInv, UcInv

(* The inductive invariant of UcMemory. *)
THEOREM UcInvariant == UcSpec => []UcIInv
  BY UcStart, UcStep, PTL DEF UcSpec

(* The array that the bisection and the insertions of memory.c work on is in
   order and has room, also between the iterations of a call that splits its
   regions, and memory_mapping is never NULL where the loops of uc_mem_unmap,
   uc_mem_protect and uc_mem_write dereference it. *)
THEOREM UcSafe == UcSpec => []UcInv
  BY UcInvariant, UcImplied, PTL

(* Every iteration of these loops leaves less to do. *)
THEOREM UcLoopShrinks == UcSpec => LoopShrinks
<1>1. ASSUME UcIInv, [UcNext]_ucVars PROVE [op.call # "none" => op'.left < op.left]_ucVars
  <2>1. CASE MapsSome
    BY <2>1 DEF MapsSome, uc_mem_map, Idle
  <2>2. CASE BeginsSome
    BY <2>2 DEF BeginsSome, uc_mem_unmap, uc_mem_protect, uc_mem_write, Begins, Idle
  <2>3. CASE UnmapChunk \/ ProtectChunk \/ WriteChunk
    <3>1. Advance
      BY <2>3, Zenon DEF UnmapChunk, ProtectChunk, WriteChunk
    <3> QED BY <3>1, <1>1, ChunkAdvances, Zenon
  <2>4. CASE UNCHANGED ucVars
    BY <2>4, Zenon
  <2> QED BY <1>1, <2>1, <2>2, <2>3, <2>4, UcCases, Zenon
<1> QED BY <1>1, UcInvariant, PTL DEF UcSpec, LoopShrinks

-----------------------------------------------------------------------------
(* The page table *)

Pages == 0 .. PageCount - 1

(* The page table that the array stands for. *)
pagesOf == [p \in MappedPages |-> PageOf(p)]

(* With no call in progress the table is what is mapped. *)
LEMMA IdleTable ==
  ASSUME op.call = "none"
  PROVE  /\ MappedPages = {p \in Pages : IsMapped(mapped_blocks, p)}
         /\ \A p : PageOf(p) = [perms |-> RegionOf(mapped_blocks, p).perms,
                                data |-> RegionOf(mapped_blocks, p).data[p]]
  BY Zenon DEF MappedPages, PageOf, IsMapped, RegionOf, Pages

(* uc_mem_map maps its pages, which were not mapped. *)
LEMMA MapTable ==
  ASSUME UcIInv, NEW r \in Requests, NEW perms \in Perms, uc_mem_map(r[1], r[2], perms)
  PROVE  Table!Map(Table!Span(r[1], r[2]), perms)
<1> DEFINE span == Table!Span(r[1], r[2])
<1>1. r[1] \in Nat /\ r[2] \in Nat /\ r[2] > 0 /\ r[1] + r[2] <= PageCount
  BY RequestRange, Zenon
<1>2. span = r[1] .. r[1] + r[2] - 1
  BY Zenon DEF Table!Span
<1> HIDE DEF span
<1>3. op.call = "none" /\ op' = op
  BY Zenon DEF uc_mem_map, Idle
<1>4. /\ \A p \in span :
           /\ ~IsMapped(mapped_blocks, p) /\ IsMapped(mapped_blocks', p)
           /\ RegionOf(mapped_blocks', p).perms = perms
           /\ RegionOf(mapped_blocks', p).data[p] = Zero
      /\ \A p \in Int \ span : SameAt(mapped_blocks, mapped_blocks', p)
  BY <1>1, <1>2, MapPages
<1>5. span \subseteq Pages /\ Pages \subseteq Int
  BY <1>1, <1>2, UcAssumption DEF Pages
<1>6. /\ MappedPages = {p \in Pages : IsMapped(mapped_blocks, p)}
      /\ \A p : PageOf(p) = [perms |-> RegionOf(mapped_blocks, p).perms,
                             data |-> RegionOf(mapped_blocks, p).data[p]]
  BY <1>3, IdleTable, Zenon
<1>7. /\ MappedPages' = {p \in Pages : IsMapped(mapped_blocks', p)}
      /\ \A p : PageOf(p)' = [perms |-> RegionOf(mapped_blocks', p).perms,
                              data |-> RegionOf(mapped_blocks', p).data[p]]
  BY <1>3, Zenon DEF MappedPages, PageOf, IsMapped, RegionOf, Pages
<1>8. MappedPages' = MappedPages \cup span /\ span \cap MappedPages = {}
  BY <1>4, <1>5, <1>6, <1>7, Zenon DEF SameAt
<1>9. \A p \in span : PageOf(p)' = [perms |-> perms, data |-> Zero]
  BY <1>4, <1>7, Zenon
<1>10. \A p \in MappedPages \ span : PageOf(p)' = PageOf(p)
  BY <1>4, <1>5, <1>6, <1>7, Zenon DEF SameAt
<1>11. DOMAIN pagesOf = MappedPages /\ \A p \in MappedPages : pagesOf[p] = PageOf(p)
  BY Zenon DEF pagesOf
<1>12. pagesOf' = [p \in MappedPages \cup span |->
                     IF p \in span THEN [perms |-> perms, data |-> Zero] ELSE pagesOf[p]]
  BY <1>8, <1>9, <1>10, <1>11, Zenon DEF pagesOf
<1> QED BY <1>8, <1>11, <1>12, Zenon DEF Table!Map, span, pagesOf

(* Where a call begins, its pages are mapped, and the table changes at once. *)
LEMMA BeginsTable ==
  ASSUME UcIInv, NEW r \in Requests, NEW call, NEW arg, Begins(call, r[1], r[2], arg)
  PROVE  LET span == Table!Span(r[1], r[2])
         IN  /\ span \subseteq MappedPages
             /\ MappedPages' = MappedPages \ (IF call = "unmap" THEN span ELSE {})
             /\ \A p : PageOf(p)'
                  = [perms |-> IF call = "protect" /\ p \in span THEN arg ELSE PageOf(p).perms,
                     data |-> IF call = "write" /\ p \in span THEN arg ELSE PageOf(p).data]
<1> DEFINE span == Table!Span(r[1], r[2])
<1>1. r[1] \in Nat /\ r[2] \in Nat /\ r[2] > 0 /\ r[1] + r[2] <= PageCount
  BY RequestRange, Zenon
<1>2. span = r[1] .. r[1] + r[2] - 1
  BY Zenon DEF Table!Span
<1> HIDE DEF span
<1>3. /\ op.call = "none" /\ mapped_blocks' = mapped_blocks
      /\ op' = [call |-> call, addr |-> r[1], left |-> r[2], arg |-> arg]
      /\ \A p \in span : IsMapped(mapped_blocks, p)
  BY <1>2, Zenon DEF Begins, Idle, check_mem_area, IsMapped
<1>4. span \subseteq Pages
  BY <1>1, <1>2, UcAssumption DEF Pages
<1>5. /\ MappedPages = {p \in Pages : IsMapped(mapped_blocks, p)}
      /\ \A p : PageOf(p) = [perms |-> RegionOf(mapped_blocks, p).perms,
                             data |-> RegionOf(mapped_blocks, p).data[p]]
  BY <1>3, IdleTable, Zenon
<1>6. Pending' = span
  BY <1>2, <1>3, Zenon DEF Pending
<1>7. MappedPages' = {p \in Pages : IsMapped(mapped_blocks, p)}
                       \ (IF call = "unmap" THEN span ELSE {})
  BY <1>3, <1>6, Zenon DEF MappedPages, IsMapped, Pages
<1>8. \A p : PageOf(p)'
         = [perms |-> IF call = "protect" /\ p \in span THEN arg ELSE RegionOf(mapped_blocks, p).perms,
            data |-> IF call = "write" /\ p \in span THEN arg ELSE RegionOf(mapped_blocks, p).data[p]]
  BY <1>3, <1>6, Zenon DEF PageOf, RegionOf
<1>9. span \subseteq MappedPages
  BY <1>3, <1>4, <1>5, Zenon
<1> QED BY <1>5, <1>7, <1>8, <1>9, Zenon DEF span

(* The iterations of a call in progress do not change the table. *)
LEMMA ChunkTable ==
  ASSUME UcIInv, UnmapChunk \/ ProtectChunk \/ WriteChunk
  PROVE  MappedPages' = MappedPages /\ \A p \in MappedPages : PageOf(p)' = PageOf(p)
<1>1. op.call # "none" /\ Advance
  BY Zenon DEF UnmapChunk, ProtectChunk, WriteChunk
<1>2. /\ Pending' = Pending \ Chunk
      /\ \/ op'.call = "none" /\ Pending' = {}
         \/ op'.call = op.call /\ op'.arg = op.arg
  BY <1>1, ChunkAdvances, Zenon
<1>3. Chunk \subseteq Pending /\ Pages \subseteq Int
  <2>1. op.addr \in Int /\ op.left \in Int /\ ChunkEnd \in Int /\ ChunkEnd <= op.addr + op.left
    BY <1>1, OpFields, ChunkInRegion
  <2> QED BY <2>1, UcAssumption DEF Chunk, Pending, Pages
<1>4. /\ MappedPages = {p \in Pages : IsMapped(mapped_blocks, p)}
                         \ (IF op.call = "unmap" THEN Pending ELSE {})
      /\ MappedPages' = {p \in Pages : IsMapped(mapped_blocks', p)}
                          \ (IF op'.call = "unmap" THEN Pending' ELSE {})
  BY Zenon DEF MappedPages, IsMapped, Pages
<1>5. ASSUME NEW p
      PROVE  /\ PageOf(p) =
                  [perms |-> IF op.call = "protect" /\ p \in Pending THEN op.arg
                             ELSE RegionOf(mapped_blocks, p).perms,
                   data |-> IF op.call = "write" /\ p \in Pending THEN op.arg
                            ELSE RegionOf(mapped_blocks, p).data[p]]
             /\ PageOf(p)' =
                  [perms |-> IF op'.call = "protect" /\ p \in Pending' THEN op'.arg
                             ELSE RegionOf(mapped_blocks', p).perms,
                   data |-> IF op'.call = "write" /\ p \in Pending' THEN op'.arg
                            ELSE RegionOf(mapped_blocks', p).data[p]]
  BY Zenon DEF PageOf, RegionOf
<1>6. CASE UnmapChunk
  <2>1. op.call = "unmap"
    BY <1>6, Zenon DEF UnmapChunk
  <2>2. /\ \A p \in Chunk : ~IsMapped(mapped_blocks', p)
        /\ \A p \in Int \ Chunk : SameAt(mapped_blocks, mapped_blocks', p)
    BY <1>6, UnmapPages, Zenon
  <2>3. MappedPages' = MappedPages
    BY <2>1, <2>2, <1>2, <1>3, <1>4, Zenon DEF SameAt
  <2>4. ASSUME NEW p \in MappedPages PROVE PageOf(p)' = PageOf(p)
    <3>1. SameAt(mapped_blocks, mapped_blocks', p) /\ IsMapped(mapped_blocks, p)
      BY <2>1, <2>2, <1>3, <1>4, Zenon
    <3>2. PageOf(p) = [perms |-> RegionOf(mapped_blocks, p).perms,
                       data |-> RegionOf(mapped_blocks, p).data[p]]
      BY <2>1, <1>5, Zenon
    <3>3. PageOf(p)' = [perms |-> RegionOf(mapped_blocks', p).perms,
                        data |-> RegionOf(mapped_blocks', p).data[p]]
      BY <2>1, <1>2, <1>5, Zenon
    <3> QED BY <3>1, <3>2, <3>3, Zenon DEF SameAt
  <2> QED BY <2>3, <2>4, Zenon
<1>7. CASE ProtectChunk
  <2>1. op.call = "protect"
    BY <1>7, Zenon DEF ProtectChunk
  <2>2. /\ \A p \in Chunk :
             /\ IsMapped(mapped_blocks, p) /\ IsMapped(mapped_blocks', p)
             /\ RegionOf(mapped_blocks', p).perms = op.arg
             /\ RegionOf(mapped_blocks', p).data[p] = RegionOf(mapped_blocks, p).data[p]
        /\ \A p \in Int \ Chunk : SameAt(mapped_blocks, mapped_blocks', p)
    BY <1>7, ProtectPages, Zenon
  <2>3. MappedPages' = MappedPages
    BY <2>1, <2>2, <1>2, <1>3, <1>4, Zenon DEF SameAt
  <2>4. ASSUME NEW p \in MappedPages PROVE PageOf(p)' = PageOf(p)
    <3>1. p \in Int /\ IsMapped(mapped_blocks, p)
      BY <1>3, <1>4, Zenon
    <3>2. RegionOf(mapped_blocks', p).data[p] = RegionOf(mapped_blocks, p).data[p]
      BY <3>1, <2>2, Zenon DEF SameAt
    <3>3. (IF op.call = "protect" /\ p \in Pending THEN op.arg ELSE RegionOf(mapped_blocks, p).perms)
            = (IF op'.call = "protect" /\ p \in Pending' THEN op'.arg
               ELSE RegionOf(mapped_blocks', p).perms)
      BY <3>1, <2>1, <2>2, <1>2, <1>3, Zenon DEF SameAt
    <3>4. op.call # "write" /\ op'.call # "write"
      BY <2>1, <1>2, Zenon
    <3> QED BY <3>2, <3>3, <3>4, <1>5, Zenon
  <2> QED BY <2>3, <2>4, Zenon
<1>8. CASE WriteChunk
  <2>1. op.call = "write"
    BY <1>8, Zenon DEF WriteChunk
  <2>2. /\ \A p \in Chunk :
             /\ IsMapped(mapped_blocks, p) /\ IsMapped(mapped_blocks', p)
             /\ RegionOf(mapped_blocks', p).perms = RegionOf(mapped_blocks, p).perms
             /\ RegionOf(mapped_blocks', p).data[p] = op.arg
        /\ \A p \in Int \ Chunk : SameAt(mapped_blocks, mapped_blocks', p)
    BY <1>8, WritePages, Zenon
  <2>3. MappedPages' = MappedPages
    BY <2>1, <2>2, <1>2, <1>3, <1>4, Zenon DEF SameAt
  <2>4. ASSUME NEW p \in MappedPages PROVE PageOf(p)' = PageOf(p)
    <3>1. p \in Int /\ IsMapped(mapped_blocks, p)
      BY <1>3, <1>4, Zenon
    <3>2. RegionOf(mapped_blocks', p).perms = RegionOf(mapped_blocks, p).perms
      BY <3>1, <2>2, Zenon DEF SameAt
    <3>3. (IF op.call = "write" /\ p \in Pending THEN op.arg ELSE RegionOf(mapped_blocks, p).data[p])
            = (IF op'.call = "write" /\ p \in Pending' THEN op'.arg
               ELSE RegionOf(mapped_blocks', p).data[p])
      BY <3>1, <2>1, <2>2, <1>2, <1>3, Zenon DEF SameAt
    <3>4. op.call # "protect" /\ op'.call # "protect"
      BY <2>1, <1>2, Zenon
    <3> QED BY <3>2, <3>3, <3>4, <1>5, Zenon
  <2> QED BY <2>3, <2>4, Zenon
<1> QED BY <1>6, <1>7, <1>8, Zenon

(* Every step is one of the page table or leaves it as it is. *)
LEMMA TableStep ==
  ASSUME UcIInv, [UcNext]_ucVars PROVE [Table!TableNext]_pagesOf
<1>1. DOMAIN pagesOf = MappedPages /\ \A p \in MappedPages : pagesOf[p] = PageOf(p)
  BY Zenon DEF pagesOf
<1>2. \A p : PageOf(p) = [perms |-> PageOf(p).perms, data |-> PageOf(p).data]
  BY Zenon DEF PageOf
<1>3. Table!Requests = Requests
  BY Zenon DEF Table!Requests, Table!PageNumbers, Requests
<1>4. CASE MapsSome
  <2>1. PICK r \in Requests, perms \in Perms : uc_mem_map(r[1], r[2], perms)
    BY <1>4, Zenon DEF MapsSome
  <2>2. Table!Map(Table!Span(r[1], r[2]), perms)
    BY <2>1, MapTable, Zenon
  <2> QED BY <2>2, <1>3, Zenon DEF Table!TableNext
<1>5. ASSUME NEW r \in Requests, uc_mem_unmap(r[1], r[2])
      PROVE  Table!Unmap(Table!Span(r[1], r[2]))
  <2> DEFINE span == Table!Span(r[1], r[2])
  <2>1. Begins("unmap", r[1], r[2], Zero)
    BY <1>5, Zenon DEF uc_mem_unmap
  <2>2. /\ span \subseteq MappedPages /\ MappedPages' = MappedPages \ span
        /\ \A p : PageOf(p)' = [perms |-> PageOf(p).perms, data |-> PageOf(p).data]
    BY <2>1, BeginsTable, Zenon
  <2> HIDE DEF span
  <2>3. pagesOf' = [p \in MappedPages \ span |-> pagesOf[p]]
    BY <2>2, <1>1, <1>2, Zenon DEF pagesOf
  <2> QED BY <2>2, <2>3, <1>1, Zenon DEF Table!Unmap, span, pagesOf
<1>6. ASSUME NEW r \in Requests, NEW perms \in Perms, uc_mem_protect(r[1], r[2], perms)
      PROVE  Table!Protect(Table!Span(r[1], r[2]), perms)
  <2> DEFINE span == Table!Span(r[1], r[2])
  <2>1. Begins("protect", r[1], r[2], perms)
    BY <1>6, Zenon DEF uc_mem_protect
  <2>2. /\ span \subseteq MappedPages /\ MappedPages' = MappedPages
        /\ \A p : PageOf(p)' = [perms |-> IF p \in span THEN perms ELSE PageOf(p).perms,
                                data |-> PageOf(p).data]
    BY <2>1, BeginsTable, Zenon
  <2> HIDE DEF span
  <2>3. \A p \in MappedPages :
          PageOf(p)' = IF p \in span THEN [PageOf(p) EXCEPT !.perms = perms] ELSE PageOf(p)
    BY <2>2, <1>2
  <2>4. pagesOf' = [p \in MappedPages |->
                      IF p \in span THEN [pagesOf[p] EXCEPT !.perms = perms] ELSE pagesOf[p]]
    BY <2>2, <2>3, <1>1, Zenon DEF pagesOf
  <2> QED BY <2>2, <2>4, <1>1, Zenon DEF Table!Protect, span, pagesOf
<1>7. ASSUME NEW r \in Requests, NEW value \in Contents, uc_mem_write(r[1], r[2], value)
      PROVE  Table!Write(Table!Span(r[1], r[2]), value)
  <2> DEFINE span == Table!Span(r[1], r[2])
  <2>1. Begins("write", r[1], r[2], value)
    BY <1>7, Zenon DEF uc_mem_write
  <2>2. /\ span \subseteq MappedPages /\ MappedPages' = MappedPages
        /\ \A p : PageOf(p)' = [perms |-> PageOf(p).perms,
                                data |-> IF p \in span THEN value ELSE PageOf(p).data]
    BY <2>1, BeginsTable, Zenon
  <2> HIDE DEF span
  <2>3. \A p \in MappedPages :
          PageOf(p)' = IF p \in span THEN [PageOf(p) EXCEPT !.data = value] ELSE PageOf(p)
    BY <2>2, <1>2
  <2>4. pagesOf' = [p \in MappedPages |->
                      IF p \in span THEN [pagesOf[p] EXCEPT !.data = value] ELSE pagesOf[p]]
    BY <2>2, <2>3, <1>1, Zenon DEF pagesOf
  <2> QED BY <2>2, <2>4, <1>1, Zenon DEF Table!Write, span, pagesOf
<1>8. CASE BeginsSome
  BY <1>3, <1>5, <1>6, <1>7, <1>8, Zenon DEF BeginsSome, Table!TableNext
<1>9. CASE UnmapChunk \/ ProtectChunk \/ WriteChunk
  BY <1>9, ChunkTable, Zenon DEF pagesOf
<1>10. CASE UNCHANGED ucVars
  BY <1>10, Zenon DEF ucVars, pagesOf, MappedPages, PageOf, Pending
<1> QED BY <1>4, <1>8, <1>9, <1>10, UcCases, Zenon

(* No page is mapped in an empty array. *)
LEMMA TableStart ==
  ASSUME UcInit PROVE Table!TableInit
<1>1. mapped_blocks = <<>> /\ op.call = "none" /\ Ordered(mapped_blocks)
  BY DEF UcInit, Idle, Ordered
<1>2. ASSUME NEW p \in Pages PROVE ~IsMapped(mapped_blocks, p)
  <2>1. p \in Int
    BY UcAssumption DEF Pages
  <2> QED BY <2>1, <1>1, FoundHolds DEF Regions
<1>3. MappedPages = {}
  BY <1>1, <1>2, IdleTable, Zenon
<1> QED BY <1>3, Zenon DEF Table!TableInit

(* The array of regions implements the page table. *)
THEOREM UcImplementsPageTable == UcSpec => ImplementsPageTable
<1>1. ASSUME UcIInv, [UcNext]_ucVars
      PROVE  [Table!TableNext]_([p \in MappedPages |-> PageOf(p)])
  BY <1>1, TableStep, Zenon DEF pagesOf
<1> QED BY <1>1, TableStart, UcInvariant, PTL DEF UcSpec, ImplementsPageTable, Table!TableSpec

-----------------------------------------------------------------------------
(* UcEmu: the levels *)

Frame == [pc : {"begin", "setup", "resume", "exec", "interrupt",
                "exiting", "entering", "check", "insn", "callback",
                "ret", "finish", "done", "join"},
          timeout : BOOLEAN, failed : BOOLEAN, asked : BOOLEAN, late : BOOLEAN,
          r : {"none", "EXCP_INTERRUPT", "EXCP_HLT"}]

Pcs == {"begin", "setup", "resume", "exec", "interrupt", "exiting", "entering",
        "check", "insn", "callback", "ret", "finish", "done", "join"}

Leaving == {"interrupt", "exiting", "ret", "finish", "done", "join"}

(* EmuTypeOK, one fact per variable. *)
FlagTypes ==
  /\ stop_request \in BOOLEAN /\ quit_request \in BOOLEAN
  /\ exit_request \in BOOLEAN /\ icount_high \in BOOLEAN
  /\ invalid_error \in BOOLEAN /\ emulation_done \in BOOLEAN

FrameTypes == frames \in Seq(Frame) /\ Len(frames) <= UC_MAX_NESTED_LEVEL

TimerTypes ==
  timer \in [pc : {"none", "sleep", "expired", "stop", "request", "exit",
                   "high", "end"},
             level : 0 .. UC_MAX_NESTED_LEVEL]

(* Every level but the innermost waits in the callback that started the next. *)
OuterWait == \A i \in 1 .. Len(frames) - 1 : frames[i].pc = "callback"

(* A fault is on its way out of cpu_exec: the exit request it made cannot be
   missed, so no callback runs before its level ends. *)
FailedLeaves ==
  \A i \in 1 .. Len(frames) : frames[i].failed =>
    /\ frames[i].pc \in {"interrupt", "exiting", "ret", "finish", "done", "join"}
    /\ frames[i].pc \in {"interrupt", "exiting"} => exit_request

(* invalid_error is the innermost level's failure, wherever that level is. *)
ErrorIsTops ==
  /\ frames = <<>> => ~invalid_error
  /\ frames # <<>> => (invalid_error <=> Top.failed)

(* emulation_done is set from the end of the outermost level to the next start. *)
DoneOutside ==
  emulation_done => frames = <<>> \/ (Len(frames) = 1 /\ Top.pc = "join")

(* A timer belongs to a level in progress that has asked for one. *)
TimerOwned ==
  timer # NoTimer => timer.level \in 1 .. Len(frames) /\ frames[timer.level].timeout

(* What a frame has of its own that accounts for the end of its level. *)
Own(g) == g.failed \/ g.asked \/ g.late

(* Whoever asks a level to leave cpu_exec is known.  Where the vCPU loop begins,
   and from Finish on, only a timer can have set exit_request (`ask'); in between
   a write of PC (`quit'), the level's own doing or a timer that has `fired' has.
   What cpu_exec returns rests on the exit_request it has read and cleared. *)
Justified(pc, r, own, quit, ask, fired) ==
  /\ pc \in {"exec", "done", "join"} /\ ask => fired
  /\ pc \in {"interrupt", "exiting", "entering", "check", "insn", "callback"} /\ ask
       => quit \/ own \/ fired
  /\ pc = "ret" /\ r # "EXCP_HLT" => (quit \/ own \/ fired) /\ (ask => fired)
  /\ pc = "finish" => r = "EXCP_HLT" \/ own \/ fired

Accounted ==
  frames # <<>> =>
    Justified(Top.pc, Top.r, Own(Top), quit_request, exit_request, TimerFired)

EmuIInv ==
  /\ FlagTypes /\ FrameTypes /\ TimerTypes
  /\ OuterWait /\ FailedLeaves /\ ErrorIsTops /\ DoneOutside /\ TimerOwned /\ Accounted

-----------------------------------------------------------------------------
(* Replacing the fields of the innermost frame: what Goto, Returns and Fault
   do to the stack. *)
LEMMA GotoTop ==
  ASSUME FrameTypes, frames # <<>>, NEW g \in Frame,
         frames' = [frames EXCEPT ![Len(frames)] = g]
  PROVE  /\ FrameTypes' /\ Len(frames') = Len(frames) /\ frames' # <<>>
         /\ Top' = g /\ frames'[Len(frames)] = g /\ Len(frames) \in 1 .. Len(frames)
         /\ \A i \in 1 .. Len(frames) - 1 : frames'[i] = frames[i]
         /\ \A i \in 1 .. Len(frames) : i # Len(frames) =>
              i \in 1 .. Len(frames) - 1 /\ frames'[i] = frames[i]
BY EmuAssumption DEF FrameTypes, Top

(* The stack after uc_emu_start has pushed a frame. *)
LEMMA PushTop ==
  ASSUME FrameTypes, LevelFree, NEW g \in Frame, frames' = Append(frames, g)
  PROVE  /\ FrameTypes' /\ Len(frames') = Len(frames) + 1 /\ frames' # <<>>
         /\ Top' = g
         /\ \A i \in 1 .. Len(frames) : frames'[i] = frames[i]
BY EmuAssumption DEF FrameTypes, Top, LevelFree

(* The innermost frame is a frame. *)
LEMMA TopType ==
  ASSUME FrameTypes, frames # <<>>
  PROVE  /\ Len(frames) \in Nat \ {0} /\ Top \in Frame /\ Top = frames[Len(frames)]
         /\ \A i \in 1 .. Len(frames) : frames[i] \in Frame
BY DEF FrameTypes, Top

(* A function on an initial segment of the naturals is a sequence. *)
LEMMA SeqOf ==
  ASSUME NEW S, NEW k \in Nat, NEW t \in [1 .. k -> S]
  PROVE  t \in Seq(S) /\ Len(t) = k
<1>1. t \in Seq(S)
  BY SMT
<1> QED
  BY <1>1, SMT

(* The frame of an enclosing level once a nested call has returned to it: only
   the history of late timers may have changed. *)
LEMMA LateFrame ==
  ASSUME NEW f \in Frame, NEW b \in BOOLEAN, NEW g, g = [f EXCEPT !.late = b]
  PROVE  /\ g \in Frame /\ g.pc = f.pc /\ g.timeout = f.timeout /\ g.failed = f.failed
         /\ g.r = f.r /\ g.asked = f.asked /\ g.late = b
BY DEF Frame

(* The same for a frame that goes on at x. *)
LEMMA PcFrame ==
  ASSUME NEW f \in Frame, NEW x \in Pcs, NEW g, g = [f EXCEPT !.pc = x]
  PROVE  /\ g \in Frame /\ g.pc = x /\ g.timeout = f.timeout /\ g.failed = f.failed
         /\ g.r = f.r /\ g.asked = f.asked /\ g.late = f.late
BY DEF Frame, Pcs

(* The same for a frame whose history of callbacks' stops changes. *)
LEMMA AskFrame ==
  ASSUME NEW f \in Frame, NEW b \in BOOLEAN, NEW g, g = [f EXCEPT !.asked = b]
  PROVE  /\ g \in Frame /\ g.pc = f.pc /\ g.timeout = f.timeout /\ g.failed = f.failed
         /\ g.r = f.r /\ g.asked = b /\ g.late = f.late
BY DEF Frame

(* The stack after uc_emu_start has returned. *)
LEMMA PopTop ==
  ASSUME FrameTypes, frames # <<>>, Pop
  PROVE  /\ FrameTypes' /\ Len(frames') = Len(frames) - 1
         /\ frames' = <<>> <=> Len(frames) = 1
         /\ \A i \in 1 .. Len(frames) - 1 :
              /\ frames'[i].pc = frames[i].pc /\ frames'[i].timeout = frames[i].timeout
              /\ frames'[i].failed = frames[i].failed
         /\ frames' # <<>> => /\ Top' = frames'[Len(frames) - 1]
                              /\ Top.timeout => Top'.late
<1>1. frames \in Seq(Frame) /\ Len(frames) \in Nat /\ Len(frames) <= UC_MAX_NESTED_LEVEL
  BY DEF FrameTypes
<1>2. Len(frames) >= 1 /\ Top \in Frame /\ Top.timeout \in BOOLEAN
  BY <1>1, TopType DEF Frame
<1>3. PICK k \in Nat : k = Len(frames) - 1
  BY <1>1, <1>2
<1>4. frames' = [i \in 1 .. k |->
                   [frames[i] EXCEPT !.late = frames[i].late \/ (i = k /\ Top.timeout)]]
  BY <1>3, Zenon DEF Pop
<1>5. \A i \in 1 .. k :
        /\ frames'[i] \in Frame /\ frames'[i].pc = frames[i].pc
        /\ frames'[i].timeout = frames[i].timeout /\ frames'[i].failed = frames[i].failed
        /\ frames'[i].late <=> frames[i].late \/ (i = k /\ Top.timeout)
  <2> SUFFICES ASSUME NEW i \in 1 .. k
               PROVE  /\ frames'[i] \in Frame /\ frames'[i].pc = frames[i].pc
                      /\ frames'[i].timeout = frames[i].timeout
                      /\ frames'[i].failed = frames[i].failed
                      /\ frames'[i].late <=> frames[i].late \/ (i = k /\ Top.timeout)
    BY Zenon
  <2>1. frames[i] \in Frame
    BY <1>1, <1>3
  <2>2. PICK b \in BOOLEAN : b = (frames[i].late \/ (i = k /\ Top.timeout))
    BY Zenon
  <2>3. PICK f \in Frame : f = frames[i]
    BY <2>1, Zenon
  <2>4. PICK g : g = frames'[i] /\ g = [f EXCEPT !.late = b]
    BY <1>4, <2>2, <2>3, Zenon
  <2>5. /\ frames'[i] \in Frame /\ frames'[i].pc = frames[i].pc
        /\ frames'[i].timeout = frames[i].timeout
        /\ frames'[i].failed = frames[i].failed /\ frames'[i].late = b
    <3>1. /\ g \in Frame /\ g.pc = f.pc /\ g.timeout = f.timeout
          /\ g.failed = f.failed /\ g.late = b
      BY <2>4, LateFrame, SMTT(30)
    <3> QED
      BY <2>3, <2>4, <3>1, Zenon
  <2> QED
    BY <2>2, <2>5, Zenon
<1>6. frames' \in [1 .. k -> Frame]
  <2>1. DOMAIN frames' = 1 .. k /\ frames' = [i \in DOMAIN frames' |-> frames'[i]]
    BY <1>4, Zenon
  <2> QED
    BY <2>1, <1>5, Zenon
<1>7. frames' \in Seq(Frame) /\ Len(frames') = k
  BY <1>6, SeqOf, Zenon
<1>8. frames' = <<>> <=> Len(frames) = 1
  BY <1>1, <1>2, <1>3, <1>7
<1>9. frames' # <<>> => Top' = frames'[k] /\ (Top.timeout => Top'.late)
  <2> SUFFICES ASSUME frames' # <<>>
               PROVE  Top' = frames'[k] /\ (Top.timeout => Top'.late)
    OBVIOUS
  <2>1. k \in 1 .. k
    BY <1>3, <1>8, <1>1, <1>2
  <2>2. Top' = frames'[k]
    BY <1>7 DEF Top
  <2> QED
    BY <2>1, <2>2, <1>5, Zenon
<1>10. FrameTypes'
  BY <1>1, <1>3, <1>7, EmuAssumption DEF FrameTypes
<1> QED
  BY <1>3, <1>5, <1>7, <1>8, <1>9, <1>10, Zenon

(* The frame at which Goto, Returns and Fault leave the innermost level. *)
LEMMA GotoFrame ==
  ASSUME FrameTypes, frames # <<>>, NEW x, Goto(x)
  PROVE  frames' = [frames EXCEPT ![Len(frames)] = [Top EXCEPT !.pc = x]]
BY TopType DEF Goto, Top, FrameTypes, Frame

(* The same for Returns, which keeps the result in the frame. *)
LEMMA ReturnsFrame ==
  ASSUME FrameTypes, frames # <<>>, NEW x, Returns(x)
  PROVE  frames' = [frames EXCEPT ![Len(frames)] = [Top EXCEPT !.pc = "ret", !.r = x]]
BY TopType, Zenon DEF Returns, Top, FrameTypes, Frame

(* A step of the emulation thread that moves the innermost level and keeps the
   stack preserves the invariant if it keeps what the invariant says of the
   innermost frame. *)
LEMMA TopStep ==
  ASSUME EmuIInv, frames # <<>>, NEW g \in Frame,
         frames' = [frames EXCEPT ![Len(frames)] = g], g.timeout = Top.timeout,
         FlagTypes', TimerTypes',
         \/ timer' = timer
         \/ g.timeout /\ timer'.level = Len(frames),
         g.failed => /\ g.pc \in {"interrupt", "exiting", "ret", "finish", "done", "join"}
                     /\ g.pc \in {"interrupt", "exiting"} => exit_request',
         invalid_error' <=> g.failed,
         emulation_done' => Len(frames) = 1 /\ g.pc = "join",
         Justified(g.pc, g.r, Own(g), quit_request', exit_request', TimerFired')
  PROVE  EmuIInv'
<1> USE DEF EmuIInv
<1>1. /\ FrameTypes' /\ Len(frames') = Len(frames) /\ frames' # <<>> /\ Top' = g
      /\ \A i \in 1 .. Len(frames) - 1 : frames'[i] = frames[i]
      /\ \A i \in 1 .. Len(frames) : i # Len(frames) =>
           i \in 1 .. Len(frames) - 1 /\ frames'[i] = frames[i]
  BY GotoTop, Zenon
<1>2. /\ Len(frames) \in 1 .. Len(frames) /\ Top = frames[Len(frames)]
      /\ frames'[Len(frames)] = g
  BY GotoTop, TopType, Zenon
<1>3. OuterWait'
  BY <1>1, <1>2, Zenon DEF OuterWait
<1>4. FailedLeaves'
  <2> SUFFICES ASSUME NEW i \in 1 .. Len(frames), frames'[i].failed
               PROVE  /\ frames'[i].pc \in {"interrupt", "exiting", "ret", "finish", "done", "join"}
                      /\ frames'[i].pc \in {"interrupt", "exiting"} => exit_request'
    BY <1>1, Zenon DEF FailedLeaves
  <2>1. CASE i = Len(frames)
    BY <2>1, <1>2, SMTT(30)
  <2>2. CASE i # Len(frames)
    <3>1. i \in 1 .. Len(frames) - 1 /\ frames'[i] = frames[i]
      BY <2>2, <1>1, Zenon
    <3>2. frames[i].failed /\ frames[i].pc = "callback"
      BY <3>1 DEF OuterWait
    <3> QED
      BY <3>2 DEF FailedLeaves
  <2> QED
    BY <2>1, <2>2
<1>5. ErrorIsTops'
  BY <1>1, Zenon DEF ErrorIsTops
<1>6. DoneOutside'
  BY <1>1 DEF DoneOutside
<1>7. TimerOwned'
  <2> SUFFICES ASSUME timer' # NoTimer
               PROVE  timer'.level \in 1 .. Len(frames') /\ frames'[timer'.level].timeout
    BY DEF TimerOwned
  <2>1. CASE timer' = timer
    <3>1. timer.level \in 1 .. Len(frames) /\ frames[timer.level].timeout
      BY <2>1 DEF TimerOwned
    <3>2. timer.level \in 1 .. Len(frames')
      BY <3>1, <1>1, Zenon
    <3>3. CASE timer.level = Len(frames)
      <4>1. Top.timeout
        BY <3>1, <3>3, <1>2, Zenon
      <4>2. frames'[timer.level] = g
        BY <1>2, <3>3
      <4> QED
        BY <4>1, <4>2, <3>2, <2>1, Zenon
    <3>4. CASE timer.level # Len(frames)
      <4>1. frames'[timer.level] = frames[timer.level]
        BY <1>1, <3>1, <3>4, Zenon
      <4> QED
        BY <4>1, <3>1, <3>2, <2>1, Zenon
    <3> QED
      BY <3>3, <3>4, SMTT(30)
  <2>2. CASE g.timeout /\ timer'.level = Len(frames)
    <3>1. timer'.level \in 1 .. Len(frames')
      BY <2>2, <1>1, <1>2, Zenon
    <3> QED
      BY <3>1, <2>2, <1>2, Zenon
  <2> QED
    BY <2>1, <2>2, SMTT(30)
<1>8. Accounted'
  BY <1>1, Zenon DEF Accounted, Own
<1> QED
  BY <1>1, <1>3, <1>4, <1>5, <1>6, <1>7, <1>8, Zenon

(* A step of the timer thread, which leaves the stack alone and clears no
   flag. *)
LEMMA TimerKeeps ==
  ASSUME EmuIInv, NEW x \in {"sleep", "expired", "stop", "request", "exit", "high", "end"},
         timer # NoTimer, timer' = [timer EXCEPT !.pc = x],
         UNCHANGED <<status, frames>>, FlagTypes', exit_request => exit_request',
         quit_request' = quit_request, exit_request' => exit_request \/ x = "high",
         timer.pc \in {"exit", "high", "end"} => x \in {"exit", "high", "end"}
  PROVE  EmuIInv'
<1> USE DEF EmuIInv
<1>1. FrameTypes' /\ OuterWait' /\ ErrorIsTops' /\ DoneOutside'
  BY DEF FrameTypes, OuterWait, ErrorIsTops, DoneOutside, Top, status
<1>2. FailedLeaves'
  BY DEF FailedLeaves, status
<1>3. TimerTypes' /\ timer'.level = timer.level /\ timer'.pc = x
  BY DEF TimerTypes
<1>4. TimerOwned'
  BY <1>3 DEF TimerOwned, status
<1>5. Accounted'
  <2>1. TimerFired => TimerFired'
    BY <1>3 DEF TimerFired
  <2>2. exit_request' => exit_request \/ TimerFired'
    BY <1>3 DEF TimerFired
  <2>3. frames' = frames /\ Top' = Top /\ Own(Top') = Own(Top)
    BY DEF Top
  <2>4. frames # <<>> =>
          Justified(Top.pc, Top.r, Own(Top), quit_request, exit_request', TimerFired')
    BY <2>1, <2>2, Zenon DEF Accounted, Justified
  <2> QED
    BY <2>3, <2>4, Zenon DEF Accounted, Own
<1> QED
  BY <1>1, <1>2, <1>3, <1>4, <1>5, SMTT(30)

(* TopStep for the steps that go to x and leave the error alone. *)
LEMMA GotoStep ==
  ASSUME EmuIInv, NEW x \in Pcs, frames # <<>>, Goto(x), FlagTypes', TimerTypes',
         invalid_error' = invalid_error,
         \/ timer' = timer
         \/ Top.timeout /\ timer'.level = Len(frames),
         Top.failed => x \in Leaving /\ (x \in {"interrupt", "exiting"} => exit_request'),
         emulation_done' => Len(frames) = 1 /\ x = "join",
         Justified(x, Top.r, Own(Top), quit_request', exit_request', TimerFired')
  PROVE  EmuIInv'
<1> DEFINE g == [Top EXCEPT !.pc = x]
<1>1. FrameTypes /\ (invalid_error <=> Top.failed)
  BY DEF EmuIInv, ErrorIsTops
<1>2. Top \in Frame
  BY <1>1, TopType
<1>3. /\ g \in Frame /\ g.pc = x /\ g.timeout = Top.timeout /\ g.failed = Top.failed
      /\ g.r = Top.r /\ g.asked = Top.asked /\ g.late = Top.late
  BY <1>2 DEF Frame, Pcs
<1>4. frames' = [frames EXCEPT ![Len(frames)] = g]
  BY <1>1, GotoFrame
<1> HIDE DEF g
<1>5. /\ invalid_error' <=> g.failed
      /\ \/ timer' = timer
         \/ g.timeout /\ timer'.level = Len(frames)
      /\ g.failed => /\ g.pc \in {"interrupt", "exiting", "ret", "finish", "done", "join"}
                     /\ g.pc \in {"interrupt", "exiting"} => exit_request'
      /\ emulation_done' => Len(frames) = 1 /\ g.pc = "join"
      /\ Justified(g.pc, g.r, Own(g), quit_request', exit_request', TimerFired')
  BY <1>1, <1>3, Zenon DEF Leaving, Own
<1> QED
  BY <1>3, <1>4, <1>5, TopStep, Zenon

(* The same for cpu_exec's return of r. *)
LEMMA ReturnsStep ==
  ASSUME EmuIInv, NEW r \in {"EXCP_INTERRUPT", "EXCP_HLT"}, frames # <<>>, Returns(r),
         FlagTypes', invalid_error' = invalid_error, emulation_done' = emulation_done,
         timer' = timer, Top.pc # "join",
         Justified("ret", r, Own(Top), quit_request', exit_request', TimerFired')
  PROVE  EmuIInv'
<1> DEFINE g == [Top EXCEPT !.pc = "ret", !.r = r]
<1>1. FrameTypes /\ TimerTypes' /\ (invalid_error <=> Top.failed) /\ ~emulation_done'
  BY DEF EmuIInv, ErrorIsTops, TimerTypes, DoneOutside
<1>2. Top \in Frame
  BY <1>1, TopType
<1>3. /\ g \in Frame /\ g.pc = "ret" /\ g.timeout = Top.timeout /\ g.failed = Top.failed
      /\ g.r = r /\ g.asked = Top.asked /\ g.late = Top.late
  <2>1. /\ g = [[Top EXCEPT !.pc = "ret"] EXCEPT !.r = r]
        /\ [Top EXCEPT !.pc = "ret"] \in Frame
    BY <1>2 DEF Frame
  <2>2. PICK h \in Frame : h = [Top EXCEPT !.pc = "ret"]
    BY <2>1
  <2>3. /\ h.pc = "ret" /\ h.timeout = Top.timeout /\ h.failed = Top.failed
        /\ h.asked = Top.asked /\ h.late = Top.late
    BY <2>2, <1>2 DEF Frame
  <2>4. g = [h EXCEPT !.r = r]
    BY <2>1, <2>2
  <2> HIDE DEF g
  <2>5. g \in Frame
    BY <2>4 DEF Frame
  <2>6. /\ g.pc = h.pc /\ g.timeout = h.timeout /\ g.failed = h.failed
        /\ g.r = r /\ g.asked = h.asked /\ g.late = h.late
    BY <2>4 DEF Frame
  <2> QED
    BY <2>3, <2>5, <2>6, Zenon
<1>4. frames' = [frames EXCEPT ![Len(frames)] = g]
  BY <1>1, ReturnsFrame, Zenon
<1> HIDE DEF g
<1>5. invalid_error' <=> g.failed
  BY <1>1, <1>3, Zenon
<1>6. /\ g.pc \in {"interrupt", "exiting", "ret", "finish", "done", "join"}
      /\ g.pc \in {"interrupt", "exiting"} => exit_request'
      /\ Justified(g.pc, g.r, Own(g), quit_request', exit_request', TimerFired')
      /\ emulation_done' => Len(frames) = 1 /\ g.pc = "join"
  BY <1>1, <1>3, Zenon DEF Own
<1> QED
  BY <1>1, <1>3, <1>4, <1>5, <1>6, TopStep, Zenon

-----------------------------------------------------------------------------
(* uc_emu_start preserves the invariant, refused or not: the flags it resets
   are those of a level that has not failed. *)
LEMMA EmuStartStep ==
  ASSUME EmuIInv, NEW timeout \in BOOLEAN, EmuStart(timeout)
  PROVE  EmuIInv'
<1> USE DEF EmuIInv
<1>1. /\ UserRuns /\ invalid_error' = FALSE /\ emulation_done' = FALSE /\ timer' = timer
      /\ stop_request' = stop_request /\ quit_request' = quit_request
      /\ exit_request' = exit_request /\ icount_high' = icount_high
  BY DEF EmuStart, requests
<1>2. FlagTypes' /\ TimerTypes' /\ DoneOutside'
  BY <1>1, Zenon DEF FlagTypes, TimerTypes, DoneOutside
<1>3. CASE ~LevelFree
  <2>1. frames' = frames
    BY <1>3, SMTT(30) DEF EmuStart
  <2>2. FrameTypes' /\ OuterWait' /\ FailedLeaves' /\ TimerOwned' /\ Accounted'
    BY <2>1, <1>1, SMTT(30) DEF FrameTypes, OuterWait, FailedLeaves, TimerOwned, Accounted, Own, TimerFired, Top
  <2>3. frames # <<>> => ~Top.failed
    BY <1>1, TopType DEF UserRuns, FailedLeaves
  <2>4. ErrorIsTops'
    BY <2>1, <2>3, <1>1, Zenon DEF ErrorIsTops, Top
  <2> QED
    BY <1>2, <2>2, <2>4, SMTT(30)
<1>4. CASE LevelFree
  <2> DEFINE g == [pc |-> "begin", timeout |-> timeout, r |-> "none", failed |-> FALSE,
                  asked |-> FALSE, late |-> FALSE]
  <2>1. frames' = Append(frames, g)
    BY <1>4, Zenon DEF EmuStart
  <2>2. g \in Frame /\ g.pc = "begin" /\ ~g.failed
    BY DEF Frame
  <2> HIDE DEF g
  <2>3. /\ FrameTypes' /\ Len(frames') = Len(frames) + 1 /\ frames' # <<>>
        /\ Top' = g
        /\ \A i \in 1 .. Len(frames) : frames'[i] = frames[i]
    BY <1>4, <2>1, <2>2, PushTop, Zenon
  <2>4. Len(frames) \in Nat /\ frames'[Len(frames) + 1] = g
    BY <2>1, <2>2, SMTT(30) DEF FrameTypes
  <2>5. \A i \in 1 .. Len(frames) : frames[i].pc = "callback"
    BY <1>1, <2>4, SMTT(30) DEF UserRuns, OuterWait, Top, FrameTypes
  <2>6. OuterWait'
    BY <2>3, <2>4, <2>5, SMTT(30) DEF OuterWait
  <2>7. FailedLeaves'
    BY <2>2, <2>3, <2>4, <2>5, SMTT(30) DEF FailedLeaves
  <2>8. ErrorIsTops'
    BY <2>2, <2>3, <1>1, Zenon DEF ErrorIsTops
  <2>9. TimerOwned'
    BY <2>3, <2>4, <1>1, SMTT(30) DEF TimerOwned
  <2>10. Accounted'
    BY <2>2, <2>3, SMTT(30) DEF Accounted, Justified
  <2> QED
    BY <1>2, <2>3, <2>6, <2>7, <2>8, <2>9, <2>10, SMTT(30)
<1> QED
  BY <1>3, <1>4, SMTT(30)

(* The return of uc_emu_start preserves the invariant: the error and the timer
   of the level are gone with it. *)
LEMMA JoinStep ==
  ASSUME EmuIInv, Join
  PROVE  EmuIInv'
<1> USE DEF EmuIInv
<1>1. /\ frames # <<>> /\ Pop /\ invalid_error' = FALSE /\ emulation_done' = emulation_done
      /\ timer' = (IF Top.timeout THEN NoTimer ELSE timer) /\ Top.pc = "join"
      /\ stop_request' = stop_request /\ quit_request' = quit_request
      /\ exit_request' = exit_request /\ icount_high' = icount_high
  BY DEF Join, At, requests
<1>2. /\ FrameTypes' /\ Len(frames') = Len(frames) - 1
      /\ frames' = <<>> <=> Len(frames) = 1
      /\ \A i \in 1 .. Len(frames) - 1 :
           /\ frames'[i].pc = frames[i].pc /\ frames'[i].timeout = frames[i].timeout
           /\ frames'[i].failed = frames[i].failed
      /\ frames' # <<>> => /\ Top' = frames'[Len(frames) - 1]
                           /\ Top.timeout => Top'.late
  BY <1>1, PopTop, Zenon
<1>3. Len(frames) \in Nat \ {0} /\ Top = frames[Len(frames)]
  BY <1>1, TopType
<1>4. FlagTypes' /\ TimerTypes'
  <2>1. NoTimer \in [pc : {"none", "sleep", "expired", "stop", "request", "exit",
                           "high", "end"},
                     level : 0 .. UC_MAX_NESTED_LEVEL]
    BY EmuAssumption DEF NoTimer
  <2> QED
    BY <1>1, <2>1, Zenon DEF FlagTypes, TimerTypes
<1>5. \A i \in 1 .. Len(frames') :
        /\ i \in 1 .. Len(frames) /\ frames'[i].pc = "callback" /\ frames[i].pc = "callback"
        /\ frames'[i].timeout = frames[i].timeout /\ frames'[i].failed = frames[i].failed
  BY <1>2, <1>3 DEF OuterWait
<1>6. frames' # <<>> => Len(frames') \in 1 .. Len(frames') /\ Top' = frames'[Len(frames')]
  BY <1>2, <1>3, SMTT(30)
<1>7. OuterWait'
  <2>1. \A i \in 1 .. Len(frames') - 1 : i \in 1 .. Len(frames')
    BY <1>2, <1>3
  <2> QED
    BY <2>1, <1>5, Zenon DEF OuterWait
<1>8. \A i \in 1 .. Len(frames') : i \in 1 .. Len(frames) /\ ~frames'[i].failed
  BY <1>5, Zenon DEF FailedLeaves
<1>9. FailedLeaves' /\ ErrorIsTops'
  BY <1>1, <1>6, <1>8, Zenon DEF FailedLeaves, ErrorIsTops
<1>10. DoneOutside'
  BY <1>1, <1>2, <1>3 DEF DoneOutside
<1>11. TimerOwned'
  <2> SUFFICES ASSUME timer' # NoTimer
               PROVE  timer'.level \in 1 .. Len(frames') /\ frames'[timer'.level].timeout
    BY DEF TimerOwned
  <2>1. timer' = timer /\ ~Top.timeout
    BY <1>1, Zenon
  <2>2. timer.level \in 1 .. Len(frames) /\ frames[timer.level].timeout
    BY <2>1 DEF TimerOwned
  <2>3. timer.level # Len(frames)
    BY <2>1, <2>2, <1>3, Zenon
  <2>4. timer.level \in 1 .. Len(frames')
    BY <2>2, <2>3, <1>2, <1>3, SMTT(30)
  <2> QED
    BY <2>1, <2>2, <2>4, <1>5, Zenon
<1>12. Accounted'
  <2> SUFFICES ASSUME frames' # <<>>, exit_request'
               PROVE  Own(Top') \/ TimerFired'
    BY <1>5, <1>6, Zenon DEF Accounted, Justified
  <2>1. TimerFired
    BY <1>1, Zenon DEF Accounted, Justified
  <2>2. CASE Top.timeout
    BY <2>2, <1>2, Zenon DEF Own
  <2>3. CASE ~Top.timeout
    BY <2>1, <2>3, <1>1, Zenon DEF TimerFired
  <2> QED
    BY <2>2, <2>3, Zenon
<1> QED
  BY <1>2, <1>4, <1>7, <1>9, <1>10, <1>11, <1>12, SMTT(30)

(* The frame at which Fault leaves the innermost level. *)
LEMMA FailedTop ==
  ASSUME FrameTypes, frames # <<>>, NEW b,
         frames' = [frames EXCEPT ![Len(frames)].pc = "interrupt",
                                  ![Len(frames)].failed = b]
  PROVE  frames' = [frames EXCEPT ![Len(frames)] =
                      [Top EXCEPT !.pc = "interrupt", !.failed = b]]
<1>1. Len(frames) \in DOMAIN frames
  BY DEF FrameTypes
<1>2. "pc" \in DOMAIN Top /\ "failed" \in DOMAIN Top
  BY TopType DEF Frame
<1> QED
  BY <1>1, <1>2, Zenon DEF Top

(* That frame belongs to the same call, with its failure recorded. *)
LEMMA FaultFrame ==
  ASSUME FrameTypes, frames # <<>>, NEW b \in BOOLEAN,
         frames' = [frames EXCEPT ![Len(frames)].pc = "interrupt",
                                  ![Len(frames)].failed = b]
  PROVE  \E g \in Frame : /\ frames' = [frames EXCEPT ![Len(frames)] = g]
                          /\ g.pc = "interrupt" /\ g.timeout = Top.timeout /\ g.failed = b
<1>1. Top \in Frame /\ Top = frames[Len(frames)] /\ Len(frames) \in Nat \ {0}
  BY TopType, SMTT(30)
<1>2. PICK h \in Frame : /\ h = [Top EXCEPT !.pc = "interrupt"]
                         /\ h.pc = "interrupt" /\ h.timeout = Top.timeout
  BY <1>1 DEF Frame
<1> DEFINE g == [h EXCEPT !.failed = b]
<1>3. g \in Frame
  BY DEF Frame
<1>4. g.pc = h.pc /\ g.timeout = h.timeout /\ g.failed = b
  BY DEF Frame
<1>5. frames' = [frames EXCEPT ![Len(frames)] = g]
  <2>1. frames' = [frames EXCEPT ![Len(frames)] =
                     [Top EXCEPT !.pc = "interrupt", !.failed = b]]
    BY FailedTop, Zenon
  <2>2. [Top EXCEPT !.pc = "interrupt", !.failed = b] = g
    BY <1>1, <1>2, SMTT(30) DEF Frame
  <2> HIDE DEF g
  <2> QED
    BY <2>1, <2>2, Zenon
<1> HIDE DEF g
<1> QED
  BY <1>2, <1>3, <1>4, <1>5, Zenon

(* A fault marks its level and asks cpu_exec to leave in the same step. *)
LEMMA FaultStep ==
  ASSUME EmuIInv, Fault
  PROVE  EmuIInv'
<1>1. /\ frames # <<>> /\ Top.pc = "insn" /\ FrameTypes
      /\ invalid_error' = TRUE /\ exit_request' = TRUE /\ icount_high' = TRUE
      /\ stop_request' = stop_request /\ quit_request' = quit_request
      /\ emulation_done' = emulation_done /\ timer' = timer
  BY DEF EmuIInv, Fault, cpu_exit, At
<1>2. PICK g \in Frame : /\ frames' = [frames EXCEPT ![Len(frames)] = g]
                         /\ g.pc = "interrupt" /\ g.timeout = Top.timeout /\ g.failed = TRUE
  <2>1. frames' = [frames EXCEPT ![Len(frames)].pc = "interrupt",
                                 ![Len(frames)].failed = TRUE]
    BY SMTT(30) DEF Fault
  <2> QED
    BY <1>1, <2>1, FaultFrame, Zenon
<1>3. FlagTypes' /\ TimerTypes' /\ ~emulation_done'
  BY <1>1 DEF EmuIInv, FlagTypes, TimerTypes, DoneOutside
<1>4. /\ g.pc \in {"interrupt", "exiting", "ret", "finish", "done", "join"}
      /\ exit_request' /\ (invalid_error' <=> g.failed)
      /\ Justified(g.pc, g.r, Own(g), quit_request', exit_request', TimerFired')
  BY <1>1, <1>2, Zenon DEF Justified, Own
<1> QED
  BY <1>1, <1>2, <1>3, <1>4, TopStep, ZenonT(30)

(* A callback's stop is recorded in its frame and nowhere else on the stack. *)
LEMMA AskedFrame ==
  ASSUME FrameTypes, frames # <<>>,
         frames' = [frames EXCEPT ![Len(frames)].asked = TRUE]
  PROVE  \E g \in Frame : /\ frames' = [frames EXCEPT ![Len(frames)] = g]
                          /\ g.pc = Top.pc /\ g.timeout = Top.timeout
                          /\ g.failed = Top.failed /\ g.asked = TRUE
<1>1. Top \in Frame /\ Top = frames[Len(frames)] /\ Len(frames) \in Nat \ {0}
  BY TopType, SMTT(30)
<1>2. PICK b \in BOOLEAN : b = TRUE
  BY Zenon
<1>3. PICK g : g = [Top EXCEPT !.asked = b]
  BY Zenon
<1>4. /\ g \in Frame /\ g.pc = Top.pc /\ g.timeout = Top.timeout
      /\ g.failed = Top.failed /\ g.asked = b
  BY <1>1, <1>3, AskFrame, SMTT(30)
<1>5. frames' = [frames EXCEPT ![Len(frames)] = g]
  BY <1>2, <1>3, Zenon DEF Top
<1> QED
  BY <1>2, <1>4, <1>5, Zenon

(* A callback that stops the emulation or writes the program counter only
   raises requests, and is on record with them. *)
LEMMA CallbackStep ==
  ASSUME EmuIInv, CallbackStops \/ CallbackWritesPc
  PROVE  EmuIInv'
<1> USE DEF EmuIInv
<1>1. /\ frames # <<>> /\ Top.pc = "callback" /\ timer' = timer
      /\ invalid_error' = invalid_error /\ emulation_done' = emulation_done
  BY DEF CallbackStops, CallbackWritesPc, At, status
<1>2. quit_request' = quit_request \/ quit_request' = TRUE
  BY Zenon DEF CallbackStops, CallbackWritesPc, WritePc
<1>3. FlagTypes' /\ (exit_request => exit_request')
  <2>1. CASE emulation_done
    <3>1. UNCHANGED <<stop_request, exit_request, icount_high>>
      BY <2>1, Zenon DEF CallbackStops, CallbackWritesPc, WritePc, uc_emu_stop
    <3> QED
      BY <3>1, <1>1, <1>2, Zenon DEF FlagTypes
  <2>2. CASE ~emulation_done
    <3>1. stop_request' = TRUE /\ exit_request' = TRUE /\ icount_high' = TRUE
      BY <2>2, Zenon DEF CallbackStops, CallbackWritesPc, WritePc, uc_emu_stop, cpu_exit
    <3> QED
      BY <3>1, <1>1, <1>2, Zenon DEF FlagTypes
  <2> QED
    BY <2>1, <2>2
<1>4. TimerTypes' /\ ~emulation_done' /\ ~Top.failed /\ (invalid_error <=> Top.failed)
  <2>1. Len(frames) \in 1 .. Len(frames) /\ Top = frames[Len(frames)]
    BY <1>1, TopType
  <2>2. ~Top.failed
    BY <2>1, <1>1 DEF FailedLeaves
  <2> QED
    BY <1>1, <2>2 DEF TimerTypes, DoneOutside, ErrorIsTops
<1>5. CASE CallbackStops
  <2>1. PICK g \in Frame : /\ frames' = [frames EXCEPT ![Len(frames)] = g]
                           /\ g.pc = Top.pc /\ g.timeout = Top.timeout
                           /\ g.failed = Top.failed /\ g.asked = TRUE
    <3>1. frames' = [frames EXCEPT ![Len(frames)].asked = TRUE]
      BY <1>5, Zenon DEF CallbackStops
    <3> QED
      BY <3>1, <1>1, AskedFrame, Zenon
  <2>2. Justified(g.pc, g.r, Own(g), quit_request', exit_request', TimerFired')
    BY <2>1, <1>1, Zenon DEF Justified, Own
  <2> QED
    BY <1>1, <1>3, <1>4, <2>1, <2>2, TopStep, ZenonT(30)
<1>6. CASE CallbackWritesPc
  <2>1. frames' = frames /\ Top' = Top /\ quit_request' = TRUE
    BY <1>6, Zenon DEF CallbackWritesPc, WritePc, Top
  <2>2. FrameTypes' /\ OuterWait' /\ DoneOutside' /\ TimerOwned'
    BY <1>1, <2>1 DEF FrameTypes, OuterWait, DoneOutside, TimerOwned
  <2>3. FailedLeaves' /\ ErrorIsTops'
    BY <1>1, <1>3, <2>1, Zenon DEF FailedLeaves, ErrorIsTops
  <2>4. Accounted'
    BY <1>1, <2>1, Zenon DEF Accounted, Justified
  <2> QED
    BY <1>3, <1>4, <2>2, <2>3, <2>4, Zenon
<1> QED
  BY <1>5, <1>6, Zenon

(* The frame in which tcg_cpu_exec leaves the innermost level. *)
LEMMA LeaveFrame ==
  ASSUME FrameTypes, frames # <<>>, NEW x \in Pcs, quit_request \in BOOLEAN, LeaveOrGoOn(x)
  PROVE  \E g \in Frame : /\ frames' = [frames EXCEPT ![Len(frames)] = g]
                          /\ g.pc = x /\ g.timeout = Top.timeout
                          /\ g.failed = Top.failed /\ g.r = Top.r
                          /\ ~quit_request => g.asked = Top.asked /\ g.late = Top.late
<1>1. Top \in Frame /\ Top = frames[Len(frames)] /\ Len(frames) \in Nat \ {0}
  BY TopType, SMTT(30)
<1>2. PICK a \in BOOLEAN, b \in BOOLEAN :
        /\ a = (Top.asked /\ ~quit_request) /\ b = (Top.late /\ ~quit_request)
  BY <1>1, Zenon DEF Frame
<1>3. ~quit_request => a = Top.asked /\ b = Top.late
  BY <1>1, <1>2 DEF Frame
<1>4. PICK h : h = [Top EXCEPT !.pc = x]
  BY Zenon
<1>5. PICK e : e = [h EXCEPT !.asked = a]
  BY Zenon
<1>6. PICK g : g = [e EXCEPT !.late = b]
  BY Zenon
<1>7. /\ h \in Frame /\ h.pc = x /\ h.timeout = Top.timeout
      /\ h.failed = Top.failed /\ h.r = Top.r
  BY <1>1, <1>4, PcFrame, SMTT(30)
<1>8. /\ e \in Frame /\ e.pc = h.pc /\ e.timeout = h.timeout /\ e.asked = a
      /\ e.failed = h.failed /\ e.r = h.r
  BY <1>7, <1>5, AskFrame, SMTT(30)
<1>9. /\ g \in Frame /\ g.pc = e.pc /\ g.timeout = e.timeout /\ g.asked = e.asked
      /\ g.failed = e.failed /\ g.r = e.r /\ g.late = b
  BY <1>8, <1>6, LateFrame, SMTT(30)
<1>10. frames' = [frames EXCEPT ![Len(frames)] = g]
  <2>1. frames' = [frames EXCEPT ![Len(frames)].pc = x, ![Len(frames)].asked = a,
                                 ![Len(frames)].late = b]
    BY <1>2, Zenon DEF LeaveOrGoOn
  <2>2. Len(frames) \in DOMAIN frames
    BY DEF FrameTypes
  <2>3. {"pc", "asked", "late"} \subseteq DOMAIN Top
    BY <1>1 DEF Frame
  <2>4. frames' = [frames EXCEPT ![Len(frames)] =
                     [Top EXCEPT !.pc = x, !.asked = a, !.late = b]]
    BY <2>1, <2>2, <2>3, Zenon DEF Top
  <2>5. [Top EXCEPT !.pc = x, !.asked = a, !.late = b] = g
    BY <1>4, <1>5, <1>6, Zenon
  <2> QED
    BY <2>4, <2>5, Zenon
<1> QED
  BY <1>3, <1>7, <1>8, <1>9, <1>10, Zenon

(* The other steps of the emulation thread, which move the innermost level. *)
LEMMA LevelStep ==
  ASSUME EmuIInv,
         \/ Begin \/ Setup \/ Resume \/ Exec \/ cpu_handle_interrupt
         \/ EnterBlock \/ check_exit_request \/ Insn \/ Halt
         \/ CallbackReturns \/ tcg_cpu_exec \/ Finish \/ Done
  PROVE  EmuIInv'
<1>1. /\ frames # <<>> /\ FlagTypes /\ TimerTypes /\ FrameTypes
      /\ (invalid_error <=> Top.failed) /\ invalid_error' = invalid_error
  BY DEF EmuIInv, ErrorIsTops, At, status, Begin, Setup, Resume, Exec, cpu_handle_interrupt,
         EnterBlock, check_exit_request, Insn, Halt, CallbackReturns, tcg_cpu_exec, Finish, Done
<1>2. /\ Top \in Frame /\ Len(frames) \in 1 .. UC_MAX_NESTED_LEVEL
      /\ emulation_done => Top.pc = "join"
      /\ Top.failed => Top.pc \in Leaving /\ (Top.pc \in {"interrupt", "exiting"} => exit_request)
  <2>1. Len(frames) \in 1 .. Len(frames) /\ Len(frames) \in 1 .. UC_MAX_NESTED_LEVEL
    BY <1>1, EmuAssumption DEF FrameTypes
  <2>2. emulation_done => Top.pc = "join"
    BY <1>1 DEF EmuIInv, DoneOutside
  <2>3. Top.failed => Top.pc \in Leaving /\ (Top.pc \in {"interrupt", "exiting"} => exit_request)
    BY <2>1, Zenon DEF EmuIInv, FailedLeaves, Top, Leaving
  <2> QED
    BY <1>1, <2>1, <2>2, <2>3, TopType, Zenon
<1>3. timer' = timer => TimerTypes' /\ (TimerFired' <=> TimerFired)
  BY <1>1 DEF TimerTypes, TimerFired
<1>4. Justified(Top.pc, Top.r, Own(Top), quit_request, exit_request, TimerFired)
  BY <1>1, Zenon DEF EmuIInv, Accounted
<1>5. CASE Begin
  <2>1. /\ Goto("setup") /\ emulation_done' = emulation_done /\ timer' = timer
        /\ Top.pc = "begin"
    BY <1>5 DEF Begin, At, status
  <2>2. FlagTypes'
    BY <1>1, <1>5, Zenon DEF FlagTypes, Begin, WritePc, uc_emu_stop, cpu_exit, status
  <2>3. ~emulation_done' /\ ~Top.failed /\ "setup" \in Pcs
    BY <1>2, <2>1 DEF Leaving, Pcs
  <2>4. Justified("setup", Top.r, Own(Top), quit_request', exit_request', TimerFired')
    BY <1>5, <1>3, <1>4, <2>1, Zenon DEF Justified, Begin
  <2> QED
    BY <1>1, <1>3, <2>1, <2>2, <2>3, <2>4, GotoStep, Zenon
<1>6. CASE Setup
  <2>1. /\ Goto("resume") /\ emulation_done' = emulation_done /\ Top.pc = "setup"
        /\ timer' = (IF Top.timeout THEN [pc |-> "sleep", level |-> Len(frames)] ELSE timer)
        /\ stop_request' = FALSE /\ quit_request' = quit_request
        /\ exit_request' = exit_request /\ icount_high' = icount_high
    BY <1>6 DEF Setup, At, status
  <2>2. FlagTypes'
    BY <1>1, <2>1, Zenon DEF FlagTypes
  <2>3. ~emulation_done' /\ ~Top.failed /\ "resume" \in Pcs
    BY <1>2, <2>1, SMTT(30) DEF Leaving, Pcs
  <2>4. /\ TimerTypes'
        /\ timer' = timer \/ (Top.timeout /\ timer'.level = Len(frames))
    <3>1. CASE Top.timeout
      <4>1. timer' = [pc |-> "sleep", level |-> Len(frames)]
        BY <2>1, <3>1, Zenon
      <4>2. TimerTypes' /\ timer'.level = Len(frames)
        BY <4>1, <1>2 DEF TimerTypes
      <4> QED
        BY <3>1, <4>2, Zenon
    <3>2. CASE ~Top.timeout
      BY <2>1, <3>2, <1>3, Zenon
    <3> QED
      BY <3>1, <3>2
  <2>5. Justified("resume", Top.r, Own(Top), quit_request', exit_request', TimerFired')
    BY <1>6, <1>3, <1>4, <2>1, Zenon DEF Justified, Setup
  <2> QED
    BY <1>1, <2>1, <2>2, <2>3, <2>4, <2>5, GotoStep, ZenonT(30)
<1>7. CASE Resume
  <2>1. /\ Top.pc = "resume" /\ emulation_done' = emulation_done /\ timer' = timer
        /\ Goto("exec")
    BY <1>7, Zenon DEF Resume, At, status
  <2>2. FlagTypes'
    BY <1>1, <1>7, Zenon DEF FlagTypes, Resume, status, requests
  <2>3. ~emulation_done' /\ ~Top.failed /\ "exec" \in Pcs
    BY <1>2, <2>1 DEF Leaving, Pcs
  <2>4. Justified("exec", Top.r, Own(Top), quit_request', exit_request', TimerFired')
    BY <1>7, <1>3, <1>4, <2>1, Zenon DEF Justified, Resume
  <2> QED
    BY <1>1, <1>3, <2>1, <2>2, <2>3, <2>4, GotoStep, Zenon
<1>8. CASE Exec
  <2>1. /\ Top.pc = "exec" /\ emulation_done' = emulation_done /\ timer' = timer
        /\ Goto("interrupt")
    BY <1>8, Zenon DEF Exec, At, status
  <2>2. FlagTypes'
    BY <1>1, <1>8, Zenon DEF FlagTypes, Exec, status, requests
  <2>3. ~emulation_done' /\ ~Top.failed /\ "interrupt" \in Pcs
    BY <1>2, <2>1 DEF Leaving, Pcs
  <2>4. Justified("interrupt", Top.r, Own(Top), quit_request', exit_request', TimerFired')
    BY <1>8, <1>3, <1>4, <2>1, Zenon DEF Justified, Exec
  <2> QED
    BY <1>1, <1>3, <2>1, <2>2, <2>3, <2>4, GotoStep, Zenon
<1>9. CASE EnterBlock
  <2>1. /\ Top.pc = "entering" /\ emulation_done' = emulation_done /\ timer' = timer
        /\ (Goto("interrupt") \/ Goto("check"))
    BY <1>9, Zenon DEF EnterBlock, At, status
  <2>2. FlagTypes'
    BY <1>1, <1>9, Zenon DEF FlagTypes, EnterBlock, status, requests
  <2>3. ~emulation_done' /\ ~Top.failed /\ "interrupt" \in Pcs /\ "check" \in Pcs
    BY <1>2, <2>1 DEF Leaving, Pcs
  <2>4. /\ Justified("interrupt", Top.r, Own(Top), quit_request', exit_request', TimerFired')
        /\ Justified("check", Top.r, Own(Top), quit_request', exit_request', TimerFired')
    BY <1>9, <1>3, <1>4, <2>1, Zenon DEF Justified, EnterBlock, requests
  <2> QED
    BY <1>1, <1>3, <2>1, <2>2, <2>3, <2>4, GotoStep, Zenon
<1>10. CASE check_exit_request
  <2>1. /\ Top.pc = "check" /\ emulation_done' = emulation_done /\ timer' = timer
        /\ (Goto("interrupt") \/ Goto("insn"))
    BY <1>10, Zenon DEF check_exit_request, At, status
  <2>2. FlagTypes'
    BY <1>1, <1>10, Zenon DEF FlagTypes, check_exit_request, status, requests
  <2>3. ~emulation_done' /\ ~Top.failed /\ "interrupt" \in Pcs /\ "insn" \in Pcs
    BY <1>2, <2>1 DEF Leaving, Pcs
  <2>4. /\ Justified("interrupt", Top.r, Own(Top), quit_request', exit_request', TimerFired')
        /\ Justified("insn", Top.r, Own(Top), quit_request', exit_request', TimerFired')
    BY <1>10, <1>3, <1>4, <2>1, Zenon DEF Justified, check_exit_request, requests
  <2> QED
    BY <1>1, <1>3, <2>1, <2>2, <2>3, <2>4, GotoStep, Zenon
<1>11. CASE Insn
  <2>1. /\ Top.pc = "insn" /\ emulation_done' = emulation_done /\ timer' = timer
        /\ (Goto("check") \/ Goto("callback"))
    BY <1>11, Zenon DEF Insn, At, status
  <2>2. FlagTypes'
    BY <1>1, <1>11, Zenon DEF FlagTypes, Insn, status, requests
  <2>3. ~emulation_done' /\ ~Top.failed /\ "check" \in Pcs /\ "callback" \in Pcs
    BY <1>2, <2>1 DEF Leaving, Pcs
  <2>4. /\ Justified("check", Top.r, Own(Top), quit_request', exit_request', TimerFired')
        /\ Justified("callback", Top.r, Own(Top), quit_request', exit_request', TimerFired')
    BY <1>11, <1>3, <1>4, <2>1, Zenon DEF Justified, Insn, requests
  <2> QED
    BY <1>1, <1>3, <2>1, <2>2, <2>3, <2>4, GotoStep, Zenon
<1>12. CASE CallbackReturns
  <2>1. /\ Top.pc = "callback" /\ emulation_done' = emulation_done /\ timer' = timer
        /\ Goto("check")
    BY <1>12, Zenon DEF CallbackReturns, At, status
  <2>2. FlagTypes'
    BY <1>1, <1>12, Zenon DEF FlagTypes, CallbackReturns, status, requests
  <2>3. ~emulation_done' /\ ~Top.failed /\ "check" \in Pcs
    BY <1>2, <2>1 DEF Leaving, Pcs
  <2>4. Justified("check", Top.r, Own(Top), quit_request', exit_request', TimerFired')
    BY <1>12, <1>3, <1>4, <2>1, Zenon DEF Justified, CallbackReturns, requests
  <2> QED
    BY <1>1, <1>3, <2>1, <2>2, <2>3, <2>4, GotoStep, Zenon
<1>13. CASE Halt
  <2>1. Top.pc = "insn" /\ emulation_done' = emulation_done /\ timer' = timer /\ Returns("EXCP_HLT")
    BY <1>13, Zenon DEF Halt, At, status
  <2>2. FlagTypes' /\ "insn" # "join"
    BY <1>1, <1>13, Zenon DEF FlagTypes, Halt, status, requests
  <2>3. Justified("ret", "EXCP_HLT", Own(Top), quit_request', exit_request', TimerFired')
    BY <1>13, <1>3, <1>4, <2>1, Zenon DEF Justified, Halt, requests
  <2> QED
    BY <1>1, <2>1, <2>2, <2>3, ReturnsStep, Zenon
<1>14. CASE cpu_handle_interrupt
  <2>1. /\ Top.pc \in {"interrupt", "exiting"} /\ emulation_done' = emulation_done
        /\ timer' = timer
    BY <1>14, Zenon DEF cpu_handle_interrupt, At, status
  <2>2. FlagTypes'
    BY <1>1, <1>14, Zenon DEF FlagTypes, cpu_handle_interrupt, status
  <2>3. ~emulation_done' /\ Top.pc # "join" /\ (Top.failed => exit_request)
    BY <1>2, <2>1
  <2>4. "exiting" \in Pcs /\ "entering" \in Pcs /\ "exiting" \in Leaving
    BY DEF Pcs, Leaving
  <2>5. CASE Goto("exiting") /\ exit_request' = exit_request /\ quit_request' = quit_request
    <3>1. Justified("exiting", Top.r, Own(Top), quit_request', exit_request', TimerFired')
      BY <1>3, <1>4, <2>1, <2>5, Zenon DEF Justified
    <3> QED
      BY <1>1, <1>3, <2>1, <2>2, <2>3, <2>4, <2>5, <3>1, GotoStep, Zenon
  <2>6. CASE /\ exit_request /\ Returns("EXCP_INTERRUPT")
             /\ exit_request' = FALSE /\ quit_request' = quit_request
    <3>1. Justified("ret", "EXCP_INTERRUPT", Own(Top), quit_request', exit_request', TimerFired')
      BY <1>3, <1>4, <2>1, <2>6, Zenon DEF Justified
    <3> QED
      BY <1>1, <2>1, <2>2, <2>3, <2>6, <3>1, ReturnsStep, Zenon
  <2>7. CASE ~exit_request /\ Goto("entering") /\ exit_request' = FALSE
    <3>1. Justified("entering", Top.r, Own(Top), quit_request', exit_request', TimerFired')
      BY <2>7, Zenon DEF Justified
    <3> QED
      BY <1>1, <1>3, <2>1, <2>2, <2>3, <2>4, <2>7, <3>1, GotoStep, Zenon
  <2> QED
    BY <1>14, <2>5, <2>6, <2>7, Zenon DEF cpu_handle_interrupt
<1>15. CASE tcg_cpu_exec
  <2>1. /\ Top.pc = "ret" /\ emulation_done' = emulation_done /\ timer' = timer
        /\ quit_request' = quit_request /\ (exit_request' => ~quit_request /\ exit_request)
    BY <1>15, Zenon DEF tcg_cpu_exec, At, status
  <2>2. FlagTypes' /\ quit_request \in BOOLEAN
    BY <1>1, <1>15, Zenon DEF FlagTypes, tcg_cpu_exec, status
  <2>3. ~emulation_done' /\ "exec" \in Pcs /\ "finish" \in Pcs
    BY <1>2, <2>1 DEF Pcs
  <2>4. CASE /\ LeaveOrGoOn("finish")
             /\ ~quit_request \/ Top.failed \/ Top.r = "EXCP_HLT"
    <3>1. PICK g \in Frame : /\ frames' = [frames EXCEPT ![Len(frames)] = g]
                             /\ g.pc = "finish" /\ g.timeout = Top.timeout
                             /\ g.failed = Top.failed /\ g.r = Top.r
                             /\ ~quit_request => g.asked = Top.asked /\ g.late = Top.late
      BY <1>1, <2>2, <2>3, <2>4, LeaveFrame, Zenon
    <3>2. Justified(g.pc, g.r, Own(g), quit_request', exit_request', TimerFired')
      BY <1>3, <1>4, <2>1, <2>4, <3>1, Zenon DEF Justified, Own
    <3>3. /\ g.pc \in {"interrupt", "exiting", "ret", "finish", "done", "join"}
          /\ g.pc \notin {"interrupt", "exiting"} /\ (invalid_error' <=> g.failed)
      BY <1>1, <3>1, Zenon
    <3> QED
      BY <1>1, <1>3, <2>1, <2>2, <2>3, <3>1, <3>2, <3>3, TopStep, ZenonT(30)
  <2>5. CASE LeaveOrGoOn("exec") /\ ~Top.failed /\ Top.r # "EXCP_HLT"
    <3>1. PICK g \in Frame : /\ frames' = [frames EXCEPT ![Len(frames)] = g]
                             /\ g.pc = "exec" /\ g.timeout = Top.timeout
                             /\ g.failed = Top.failed /\ g.r = Top.r
      BY <1>1, <2>2, <2>3, <2>5, LeaveFrame, Zenon
    <3>2. Justified(g.pc, g.r, Own(g), quit_request', exit_request', TimerFired')
      BY <1>3, <1>4, <2>1, <2>5, <3>1, Zenon DEF Justified, Own
    <3>3. ~g.failed /\ (invalid_error' <=> g.failed)
      BY <1>1, <2>5, <3>1, Zenon
    <3> QED
      BY <1>1, <1>3, <2>1, <2>2, <2>3, <3>1, <3>2, <3>3, TopStep, ZenonT(30)
  <2> QED
    BY <1>1, <1>15, <2>4, <2>5, Zenon DEF tcg_cpu_exec
<1>16. CASE Finish
  <2>1. Top.pc = "finish" /\ emulation_done' = emulation_done /\ timer' = timer /\ Goto("done")
    BY <1>16, Zenon DEF Finish, At, status
  <2>2. FlagTypes'
    BY <1>1, <1>16, Zenon DEF FlagTypes, Finish, status
  <2>3. ~emulation_done' /\ "done" \in Pcs /\ "done" \in Leaving
    BY <1>2, <2>1 DEF Pcs, Leaving
  <2>4. Justified("done", Top.r, Own(Top), quit_request', exit_request', TimerFired')
    BY <1>16, <1>3, <1>4, <2>1, Zenon DEF Justified, Finish
  <2> QED
    BY <1>1, <1>3, <2>1, <2>2, <2>3, <2>4, GotoStep, Zenon
<1>17. CASE Done
  <2>1. /\ Top.pc = "done" /\ timer' = timer /\ Goto("join")
        /\ emulation_done' = (emulation_done \/ Len(frames) = 1)
    BY <1>17, Zenon DEF Done, At
  <2>2. FlagTypes'
    BY <1>1, <1>17, Zenon DEF FlagTypes, Done, requests
  <2>3. ~emulation_done /\ "join" \in Pcs /\ "join" \in Leaving
    BY <1>2, <2>1 DEF Pcs, Leaving
  <2>4. Justified("join", Top.r, Own(Top), quit_request', exit_request', TimerFired')
    BY <1>17, <1>3, <1>4, <2>1, Zenon DEF Justified, Done, requests
  <2> QED
    BY <1>1, <1>3, <2>1, <2>2, <2>3, <2>4, GotoStep, Zenon
<1> QED
  BY <1>5, <1>6, <1>7, <1>8, <1>9, <1>10, <1>11, <1>12, <1>13, <1>14, <1>15, <1>16, <1>17, SMTT(30)

(* The steps of the timer thread. *)
LEMMA TimerThreadStep ==
  ASSUME EmuIInv, TimerStep
  PROVE  EmuIInv'
<1>1. /\ timer # NoTimer /\ UNCHANGED <<status, frames>> /\ FlagTypes
      /\ timer.pc \in {"sleep", "expired", "stop", "request", "exit", "high"}
  BY DEF EmuIInv, TimerStep, Sleep, TestDone, TimerStores, NoTimer
<1>2. FlagTypes' /\ (exit_request => exit_request')
  BY <1>1, Zenon DEF FlagTypes, TimerStep, Sleep, TestDone, TimerStores, status, requests
<1>3. CASE Sleep
  BY <1>1, <1>2, <1>3, TimerKeeps, SMTT(30) DEF Sleep, TimerGoto, requests
<1>4. CASE TestDone
  <2>1. PICK x \in {"end", "stop", "request"} : timer' = [timer EXCEPT !.pc = x]
    BY <1>4 DEF TestDone, TimerGoto
  <2>2. /\ timer.pc \notin {"exit", "high", "end"} /\ exit_request' = exit_request
        /\ quit_request' = quit_request
    BY <1>4 DEF TestDone, requests
  <2> QED
    BY <1>1, <1>2, <2>1, <2>2, TimerKeeps, SMTT(30)
<1>5. CASE TimerStores
  <2>1. CASE timer.pc = "request"
    BY <1>1, <1>2, <1>5, <2>1, TimerKeeps, SMTT(30) DEF TimerStores, TimerGoto
  <2>2. CASE timer.pc = "exit"
    BY <1>1, <1>2, <1>5, <2>2, TimerKeeps, SMTT(30) DEF TimerStores, TimerGoto
  <2>3. CASE timer.pc = "high"
    BY <1>1, <1>2, <1>5, <2>3, TimerKeeps, SMTT(30) DEF TimerStores, TimerGoto
  <2> QED
    BY <1>5, <2>1, <2>2, <2>3, SMTT(30) DEF TimerStores
<1> QED
  BY <1>3, <1>4, <1>5, SMTT(30) DEF TimerStep

-----------------------------------------------------------------------------
(* The invariant holds in every state of every run of uc_emu_start,
   whatever callbacks do and however the timer thread is scheduled. *)
THEOREM EmuInductive == EmuSpec => []EmuIInv
<1>1. EmuInit => EmuIInv
  <2> SUFFICES ASSUME EmuInit
               PROVE  EmuIInv
    OBVIOUS
  <2>1. FlagTypes /\ ErrorIsTops /\ DoneOutside /\ TimerOwned /\ Accounted
    BY Zenon DEF EmuInit, FlagTypes, ErrorIsTops, DoneOutside, TimerOwned, Accounted
  <2>2. FrameTypes /\ OuterWait /\ FailedLeaves
    <3>1. frames = <<>> /\ Len(frames) = 0
      BY DEF EmuInit
    <3> QED
      BY <3>1, EmuAssumption DEF FrameTypes, OuterWait, FailedLeaves
  <2>3. TimerTypes
    BY EmuAssumption DEF EmuInit, TimerTypes, NoTimer
  <2> QED
    BY <2>1, <2>2, <2>3, SMTT(30) DEF EmuIInv
<1>2. EmuIInv /\ [EmuNext]_emuVars => EmuIInv'
  <2> SUFFICES ASSUME EmuIInv, [EmuNext]_emuVars
               PROVE  EmuIInv'
    BY SMTT(30)
  <2>1. CASE UNCHANGED emuVars
    BY <2>1 DEF emuVars, requests, status, EmuIInv, FlagTypes, FrameTypes, TimerTypes, OuterWait,
       FailedLeaves, ErrorIsTops, DoneOutside, TimerOwned, Accounted, Own, TimerFired, Top
  <2>2. CASE \E timeout \in BOOLEAN : EmuStart(timeout)
    BY <2>2, EmuStartStep
  <2>3. CASE EmulationStep
    BY <2>3, FaultStep, CallbackStep, LevelStep, JoinStep, Zenon DEF EmulationStep
  <2>4. CASE TimerStep
    BY <2>4, TimerThreadStep
  <2> QED
    BY <2>1, <2>2, <2>3, <2>4, SMTT(30) DEF EmuNext
<1> QED
  BY <1>1, <1>2, PTL DEF EmuSpec

(* Flags, calls and timer have their types, no timer outlives its uc_emu_start
   (enable_emu_timer, qemu_thread_join), and an emulation ends for a reason of
   its own, at every depth of nesting: requests left behind by other emulations
   do not end it (tcg_cpu_exec, cpu_handle_interrupt). *)
THEOREM EmuTimersOwned == EmuSpec => []EmuInv
<1>1. EmuIInv => EmuInv
  <2> SUFFICES ASSUME EmuIInv
               PROVE  EmuInv
    OBVIOUS
  <2>1. EmuTypeOK
    <3>1. {stop_request, quit_request, exit_request, icount_high, invalid_error,
           emulation_done} \subseteq BOOLEAN
      BY Zenon DEF EmuIInv, FlagTypes
    <3> QED
      BY <3>1, Zenon DEF EmuIInv, FrameTypes, TimerTypes, Frame, EmuTypeOK
  <2>2. TimerInside
    BY SMTT(30) DEF EmuIInv, TimerOwned, FrameTypes, TimerInside
  <2>3. EndsForAReason
    BY Zenon DEF EmuIInv, Accounted, Justified, Own, EndsForAReason, At
  <2> QED
    BY <2>1, <2>2, <2>3, Zenon DEF EmuInv
<1> QED
  BY <1>1, EmuInductive, PTL

(* A callback's uc_emu_stop is heard at every depth of nesting (uc.c, 884). *)
THEOREM EmuStopIsHeard == EmuSpec => []StopIsHeard
<1>1. EmuIInv => StopIsHeard
  BY SMTT(30) DEF EmuIInv, DoneOutside, StopIsHeard, At
<1> QED
  BY <1>1, EmuInductive, PTL

(* uc_emu_start reports the error of its own level at every depth of nesting. *)
THEOREM EmuErrorOfOwnLevel == EmuSpec => []ErrorOfOwnLevel
<1>1. EmuIInv => ErrorOfOwnLevel
  <2> SUFFICES ASSUME EmuIInv, At("join")
               PROVE  invalid_error = Top.failed
    BY DEF ErrorOfOwnLevel
  <2>1. frames # <<>> /\ (invalid_error <=> Top.failed) /\ invalid_error \in BOOLEAN
    BY DEF EmuIInv, At, ErrorIsTops, FlagTypes
  <2>2. Top.failed \in BOOLEAN
    BY <2>1, TopType, SMTT(30) DEF EmuIInv, Frame
  <2>3. CASE invalid_error
    <3>1. invalid_error = TRUE /\ Top.failed = TRUE
      BY <2>1, <2>2, <2>3, Zenon
    <3> QED
      BY <3>1, Zenon
  <2>4. CASE ~invalid_error
    <3>1. invalid_error = FALSE /\ Top.failed = FALSE
      BY <2>1, <2>2, <2>4, Zenon
    <3> QED
      BY <3>1, Zenon
  <2> QED
    BY <2>3, <2>4, SMTT(30)
<1> QED
  BY <1>1, EmuInductive, PTL
=============================================================================
