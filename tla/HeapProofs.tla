----------------------------- MODULE HeapProofs -----------------------------
(***************************************************************************)
(* The heap's invariants for every heap size, every set of request sizes   *)
(* and every bound.  Tiled and Coalesced are inductive together with the   *)
(* type invariant: a merge adds the sizes of two neighbours, so it needs   *)
(* that the second starts where the first ends; and that one merge on      *)
(* each side suffices needs that no two neighbours were free before.       *)
(* Of the JNI functions that lend buffers only their calls of the heap     *)
(* matter: what the heap keeps, they keep, and the buffers lent are blocks *)
(* in use until they are released.                                         *)
(***************************************************************************)
EXTENDS JniBuffers, TLAPS

(* The list facts that one step needs: typed, ordered and without gaps. *)
Laid(bs, p) ==
  /\ bs \in Seq(Block)
  /\ p \in Nat
  /\ \A i, j \in 1 .. Len(bs) :
       i < j => bs[i].address + bs[i].size <= bs[j].address
  /\ \A i \in 1 .. Len(bs) :
       /\ bs[i].address >= Begin
       /\ bs[i].address + bs[i].size
            = IF i = Len(bs) THEN p ELSE bs[i + 1].address
  /\ IF Len(bs) = 0 THEN p = Begin ELSE bs[1].address = Begin

(* No two neighbours are both free, except possibly those at an index of E and
   behind it. *)
CoalescedBut(bs, E) ==
  \A i \in 1 .. Len(bs) - 1 : i \notin E => ~(bs[i].free /\ bs[i + 1].free)

IInv == TypeOK /\ Tiled /\ Coalesced

(* A call of the heap with any size, whoever makes it. *)
HeapCall ==
  \/ \E size \in Int : allocate(size)
  \/ \E addr \in 0 .. MaxPos : free(addr)

(* Tiled is Laid for the state's own list. *)
LEMMA TiledIsLaid == ASSUME TypeOK PROVE Tiled <=> Laid(blocks, pos)
  BY DEF TypeOK, Tiled, Laid

(* A block that ends at or below an address ends at or below every higher one. *)
LEMMA Below ==
  ASSUME NEW a \in Nat, NEW b \in Nat, NEW c \in Nat, NEW d \in Nat, a + b <= c, c <= d
  PROVE  a + b <= d
  OBVIOUS

(* A block that ends where another begins, or below, ends no higher than that one ends. *)
LEMMA BelowEnd ==
  ASSUME NEW a \in Nat, NEW b \in Nat, NEW c \in Nat, NEW e \in Nat, NEW d,
         a + b <= c, c + e = d
  PROVE  a + b <= d
  OBVIOUS

(* The front of a block, which SplitBlock keeps, ends no higher than the block did. *)
LEMMA BelowShorter ==
  ASSUME NEW a \in Nat, NEW b \in Nat, NEW e \in Nat, NEW d \in Nat, e <= b, a + b <= d
  PROVE  a + e <= d
  OBVIOUS

(* A function on 1 .. n is a sequence of length n. *)
LEMMA FunctionIsSeq ==
  ASSUME NEW S, NEW n \in Nat, NEW f \in [1 .. n -> S]
  PROVE  f \in Seq(S) /\ Len(f) = n
  OBVIOUS

(* The type of the blocks of a laid out list. *)
LEMMA LaidBlocks ==
  ASSUME NEW bs, NEW p, Laid(bs, p), NEW i \in 1 .. Len(bs)
  PROVE  /\ bs[i] \in Block
         /\ bs[i].address \in Nat /\ bs[i].size \in Nat /\ bs[i].free \in BOOLEAN
<1>1. bs[i] \in Block
  BY DEF Laid
<1> QED BY <1>1, Zenon DEF Block

(* The address order of a laid out list. *)
LEMMA LaidOrder ==
  ASSUME NEW bs, NEW p, Laid(bs, p),
         NEW i \in 1 .. Len(bs), NEW j \in 1 .. Len(bs), i < j
  PROVE  bs[i].address + bs[i].size <= bs[j].address
  BY Zenon DEF Laid

(* createBlock: a new block at pos keeps the list laid out. *)
LEMMA AppendLaid ==
  ASSUME NEW bs, NEW p, Laid(bs, p), NEW size \in Nat
  PROVE  Laid(Append(bs, [address |-> p, size |-> size, free |-> FALSE]), p + size)
<1> DEFINE b == [address |-> p, size |-> size, free |-> FALSE]
           s == Append(bs, b)
<1>1. bs \in Seq(Block) /\ p \in Nat /\ Len(bs) \in Nat
  BY DEF Laid
<1>2. b \in Block /\ b.address = p /\ b.size = size
  BY <1>1, Zenon DEF Block
<1> HIDE DEF b
<1>3. s \in Seq(Block) /\ Len(s) = Len(bs) + 1
  BY <1>1, <1>2
<1>4. \A j \in 1 .. Len(bs) : s[j] = bs[j]
  BY <1>1, <1>2
<1>5. s[Len(bs) + 1] = b
  BY <1>1, <1>2
<1> HIDE DEF s
<1>6. \A j \in 1 .. Len(bs) : bs[j].address \in Nat /\ bs[j].size \in Nat
  BY LaidBlocks, Zenon
<1>7. ASSUME NEW j \in 1 .. Len(bs) PROVE bs[j].address + bs[j].size <= p
  <2> DEFINE n == Len(bs)
  <2>1. n \in 1 .. Len(bs) /\ bs[n].address + bs[n].size = p
    BY <1>1 DEF Laid
  <2>2. CASE j = n
    BY <2>1, <2>2, <1>6
  <2>3. CASE j < n
    <3>1. bs[j].address + bs[j].size <= bs[n].address
      BY <2>1, <2>3, Zenon DEF Laid
    <3>2. bs[j].address \in Nat /\ bs[j].size \in Nat /\ bs[n].address \in Nat /\ bs[n].size \in Nat
      BY <2>1, <1>6, Zenon
    <3> HIDE DEF n
    <3> QED BY <2>1, <3>1, <3>2, <1>1, BelowEnd, Zenon
  <2> QED BY <2>2, <2>3, <1>1
<1>8. ASSUME NEW j \in 1 .. Len(s), NEW k \in 1 .. Len(s), j < k
      PROVE  s[j].address + s[j].size <= s[k].address
  <2>1. j \in 1 .. Len(bs) /\ s[j] = bs[j]
    BY <1>1, <1>3, <1>4, <1>8
  <2>2. CASE k = Len(bs) + 1
    BY <2>1, <2>2, <1>2, <1>5, <1>7, Zenon
  <2>3. CASE k \in 1 .. Len(bs)
    BY <2>1, <2>3, <1>4, <1>8, Zenon DEF Laid
  <2> QED BY <2>2, <2>3, <1>1, <1>3
<1>9. p >= Begin
  BY <1>1, <1>6, <1>7, HeapAssumption DEF Laid
<1>10. ASSUME NEW j \in 1 .. Len(s)
       PROVE  /\ s[j].address >= Begin
              /\ s[j].address + s[j].size
                   = IF j = Len(s) THEN p + size ELSE s[j + 1].address
  <2>1. CASE j = Len(bs) + 1
    BY <2>1, <1>1, <1>2, <1>3, <1>5, <1>9, Zenon
  <2>2. CASE j = Len(bs)
    <3>1. j \in 1 .. Len(bs) /\ s[j] = bs[j] /\ s[j + 1] = b
      BY <2>2, <1>1, <1>3, <1>4, <1>5
    <3>2. bs[j].address >= Begin /\ bs[j].address + bs[j].size = p
      BY <3>1, <2>2, Zenon DEF Laid
    <3> QED BY <3>1, <3>2, <2>2, <1>1, <1>2, <1>3, Zenon
  <2>3. CASE j < Len(bs)
    <3>1. /\ j \in 1 .. Len(bs) /\ s[j] = bs[j]
          /\ j + 1 \in 1 .. Len(bs) /\ s[j + 1] = bs[j + 1]
      BY <2>3, <1>1, <1>3, <1>4
    <3>2. bs[j].address >= Begin /\ bs[j].address + bs[j].size = bs[j + 1].address
      BY <3>1, <2>3 DEF Laid
    <3> QED BY <3>1, <3>2, <2>3, <1>1, <1>3
  <2> QED BY <2>1, <2>2, <2>3, <1>1, <1>3
<1>11. s[1].address = Begin
  BY <1>1, <1>2, <1>4, <1>5 DEF Laid
<1> QED BY <1>1, <1>3, <1>8, <1>10, <1>11 DEF Laid, s, b

(* splitBlock: cutting a block of at least the requested size keeps the list
   laid out. *)
LEMMA SplitLaid ==
  ASSUME NEW bs, NEW p, Laid(bs, p), NEW i \in 1 .. Len(bs),
         NEW size \in Nat, size <= bs[i].size
  PROVE  Laid(SplitBlock(bs, i, size), p) /\ Len(SplitBlock(bs, i, size)) = Len(bs) + 1
<1> DEFINE s == SplitBlock(bs, i, size)
           front == [bs[i] EXCEPT !.size = size, !.free = FALSE]
           rest == [address |-> bs[i].address + size, size |-> bs[i].size - size, free |-> TRUE]
<1>1. bs \in Seq(Block) /\ p \in Nat /\ Len(bs) \in Nat
  BY DEF Laid
<1>2. \A j \in 1 .. Len(bs) : bs[j] \in Block /\ bs[j].address \in Nat /\ bs[j].size \in Nat
  BY LaidBlocks, Zenon
<1>3. front \in Block /\ front.address = bs[i].address /\ front.size = size
  BY <1>2, Zenon DEF Block
<1>4. /\ rest \in Block /\ rest.address = bs[i].address + size
      /\ rest.size = bs[i].size - size
  BY <1>2 DEF Block
<1> HIDE DEF front, rest
<1>5. s = [j \in 1 .. Len(bs) + 1 |->
             IF j < i THEN bs[j] ELSE IF j = i THEN front
             ELSE IF j = i + 1 THEN rest ELSE bs[j - 1]]
  BY Zenon DEF s, SplitBlock, front, rest
<1>6. s \in [1 .. Len(bs) + 1 -> Block]
  BY <1>1, <1>2, <1>3, <1>4, <1>5, SMTT(30)
<1>7. s \in Seq(Block) /\ Len(s) = Len(bs) + 1
  BY <1>1, <1>6, FunctionIsSeq
<1>8. /\ \A j \in 1 .. Len(bs) + 1 : j < i => s[j] = bs[j]
      /\ s[i] = front /\ s[i + 1] = rest
      /\ \A j \in 1 .. Len(bs) + 1 : j > i + 1 => s[j] = bs[j - 1]
  BY <1>1, <1>5
<1> HIDE DEF s
<1>9. ASSUME NEW j \in 1 .. Len(s), NEW k \in 1 .. Len(s), j < k
      PROVE  s[j].address + s[j].size <= s[k].address
  <2>1. CASE k < i
    <3>1. /\ j \in 1 .. Len(bs) /\ s[j] = bs[j]
          /\ k \in 1 .. Len(bs) /\ s[k] = bs[k]
      BY <2>1, <1>1, <1>7, <1>8, <1>9
    <3> QED BY <3>1, <1>9, LaidOrder, Zenon
  <2>2. CASE j < i /\ k \in {i, i + 1}
    <3>1. j \in 1 .. Len(bs) /\ s[j] = bs[j]
      BY <2>2, <1>1, <1>7, <1>8
    <3>2. bs[j].address + bs[j].size <= bs[i].address
      BY <3>1, <2>2, LaidOrder, Zenon
    <3>4. bs[j].address \in Nat /\ bs[j].size \in Nat /\ bs[i].address \in Nat
      BY <3>1, <1>2, Zenon
    <3>5. s[k].address \in Nat /\ bs[i].address <= s[k].address
      <4>1. bs[i].address \in Nat /\ bs[i].size \in Nat
        BY <1>2, Zenon
      <4>2. CASE k = i
        BY <4>1, <4>2, <1>3, <1>8
      <4>3. CASE k = i + 1
        <5>1. bs[i].address + size \in Nat /\ bs[i].address <= bs[i].address + size
          BY <4>1
        <5> QED BY <5>1, <4>3, <1>4, <1>8, Zenon
      <4> QED BY <4>2, <4>3, <2>2, Zenon
    <3>6. bs[j].address + bs[j].size <= s[k].address
      BY <3>2, <3>4, <3>5, Below, Zenon
    <3> QED BY <3>1, <3>6, Zenon
  <2>4. CASE j < i /\ k > i + 1
    <3>1. /\ j \in 1 .. Len(bs) /\ s[j] = bs[j]
          /\ k - 1 \in 1 .. Len(bs) /\ s[k] = bs[k - 1] /\ j < k - 1
      BY <2>4, <1>1, <1>7, <1>8
    <3> QED BY <3>1, LaidOrder, Zenon
  <2>5. CASE j = i /\ k = i + 1
    BY <2>5, <1>2, <1>3, <1>4, <1>8
  <2>6. CASE j = i /\ k > i + 1
    <3>1. k - 1 \in 1 .. Len(bs) /\ s[k] = bs[k - 1]
      BY <2>6, <1>1, <1>7, <1>8
    <3>2. bs[i].address + bs[i].size <= bs[k - 1].address
      BY <2>6, <3>1, <1>1, LaidOrder
    <3>3. bs[i].address \in Nat /\ bs[i].size \in Nat /\ bs[k - 1].address \in Nat
      BY <3>1, <1>2, Zenon
    <3>4. s[j].address = bs[i].address /\ s[j].size = size
      BY <2>6, <1>3, <1>8, Zenon
    <3>5. bs[i].address + size <= bs[k - 1].address
      BY <3>2, <3>3, BelowShorter, Zenon
    <3> QED BY <3>1, <3>4, <3>5, Zenon
  <2>7. CASE j = i + 1
    <3>1. k - 1 \in 1 .. Len(bs) /\ s[k] = bs[k - 1] /\ i < k - 1
      BY <2>7, <1>1, <1>7, <1>8, <1>9
    <3>2. bs[i].address + bs[i].size <= bs[k - 1].address
      BY <3>1, <1>1, Zenon DEF Laid
    <3> QED BY <3>1, <3>2, <2>7, <1>2, <1>4, <1>8, SMTT(30)
  <2>8. CASE j > i + 1
    <3>1. /\ j - 1 \in 1 .. Len(bs) /\ k - 1 \in 1 .. Len(bs) /\ j - 1 < k - 1
          /\ s[j] = bs[j - 1] /\ s[k] = bs[k - 1]
      BY <2>8, <1>1, <1>7, <1>8, <1>9
    <3> QED BY <3>1, Zenon DEF Laid
  <2> QED BY <2>1, <2>2, <2>4, <2>5, <2>6, <2>7, <2>8, <1>1, <1>7, <1>9
<1>10. ASSUME NEW j \in 1 .. Len(s)
       PROVE  /\ s[j].address >= Begin
              /\ s[j].address + s[j].size = IF j = Len(s) THEN p ELSE s[j + 1].address
  <2>0. /\ bs[i].address >= Begin
        /\ bs[i].address + bs[i].size = IF i = Len(bs) THEN p ELSE bs[i + 1].address
    BY Zenon DEF Laid
  <2>1. CASE j < i
    <3>1. /\ j \in 1 .. Len(bs) /\ j + 1 \in 1 .. Len(bs) /\ j # Len(bs) /\ j # Len(s)
          /\ s[j] = bs[j] /\ s[j + 1].address = bs[j + 1].address
      <4>1. /\ j \in 1 .. Len(bs) /\ j + 1 \in 1 .. Len(bs) /\ j # Len(bs) /\ j # Len(s)
            /\ j \in 1 .. Len(bs) + 1 /\ j + 1 \in 1 .. Len(bs) + 1
            /\ (j + 1 < i \/ j + 1 = i)
        BY <2>1, <1>1, <1>7
      <4>2. s[j] = bs[j]
        BY <4>1, <2>1, <1>8, Zenon
      <4>3. s[j + 1].address = bs[j + 1].address
        BY <4>1, <1>3, <1>8, Zenon
      <4> QED BY <4>1, <4>2, <4>3, Zenon
    <3> QED BY <3>1, Zenon DEF Laid
  <2>2. CASE j = i
    <3>1. j # Len(s) /\ s[j] = front /\ s[j + 1] = rest
      BY <2>2, <1>1, <1>7, <1>8
    <3> QED BY <3>1, <2>0, <1>3, <1>4, Zenon
  <2>3. CASE j = i + 1
    <3>a. bs[i].address \in Nat /\ bs[i].size \in Nat
      BY <1>2, Zenon
    <3>b. /\ rest.address + rest.size = bs[i].address + bs[i].size
          /\ rest.address >= bs[i].address /\ rest.address \in Nat
      <4>1. rest.address = bs[i].address + size /\ rest.size = bs[i].size - size
        BY <1>4, Zenon
      <4>2. /\ (bs[i].address + size) + (bs[i].size - size) = bs[i].address + bs[i].size
            /\ bs[i].address + size >= bs[i].address /\ bs[i].address + size \in Nat
        <5> DEFINE a == bs[i].address
                   b == bs[i].size
        <5>1. a \in Nat /\ b \in Nat /\ size <= b
          BY <3>a, Zenon
        <5>2. (a + size) + (b - size) = a + b /\ a + size >= a /\ a + size \in Nat
          <6> HIDE DEF a, b
          <6> QED BY <5>1
        <5> QED BY <5>2, Zenon
      <4> QED BY <4>1, <4>2, Zenon
    <3>c. rest.address >= Begin
      BY <3>a, <3>b, <2>0, HeapAssumption
    <3>d. s[j] = rest
      BY <2>3, <1>8, Zenon
    <3>1. CASE i = Len(bs)
      <4>1. j = Len(s)
        BY <2>3, <3>1, <1>1, <1>7, Zenon
      <4> QED BY <4>1, <3>1, <3>b, <3>c, <3>d, <2>0, Zenon
    <3>2. CASE i < Len(bs)
      <4>1. s[j + 1] = bs[i + 1] /\ j # Len(s)
        BY <2>3, <3>2, <1>1, <1>7, <1>8
      <4>2. i # Len(bs)
        BY <3>2, <1>1
      <4> QED BY <4>1, <4>2, <3>b, <3>c, <3>d, <2>0, Zenon
    <3> QED BY <3>1, <3>2, <1>1
  <2>4. CASE j > i + 1
    <3>1. j - 1 \in 1 .. Len(bs) /\ s[j] = bs[j - 1] /\ (j = Len(s) <=> j - 1 = Len(bs))
      BY <2>4, <1>1, <1>7, <1>8
    <3>2. j # Len(s) => s[j + 1] = bs[(j - 1) + 1]
      <4>1. j # Len(s) => j + 1 \in 1 .. Len(bs) + 1 /\ j + 1 > i + 1 /\ (j + 1) - 1 = (j - 1) + 1
        BY <2>4, <1>1, <1>7
      <4> QED BY <4>1, <1>8
    <3> QED BY <3>1, <3>2, Zenon DEF Laid
  <2> QED BY <2>1, <2>2, <2>3, <2>4, <1>1, <1>7
<1>11. s[1].address = Begin
  <2>1. bs[1].address = Begin /\ 1 \in 1 .. Len(bs) + 1 /\ (1 < i \/ 1 = i)
    BY <1>1 DEF Laid
  <2> QED BY <2>1, <1>3, <1>8, Zenon
<1> QED BY <1>1, <1>7, <1>9, <1>10, <1>11 DEF Laid, s

(* setFree(true) changes no address and no size. *)
LEMMA SetFreeLaid ==
  ASSUME NEW bs, NEW p, Laid(bs, p), NEW i \in 1 .. Len(bs)
  PROVE  /\ Laid(SetFree(bs, i), p)
         /\ Len(SetFree(bs, i)) = Len(bs)
         /\ SetFree(bs, i)[i] = [bs[i] EXCEPT !.free = TRUE]
         /\ \A j \in 1 .. Len(bs) : j # i => SetFree(bs, i)[j] = bs[j]
<1> DEFINE s == SetFree(bs, i)
           b == [bs[i] EXCEPT !.free = TRUE]
<1>1. bs \in Seq(Block) /\ p \in Nat /\ Len(bs) \in Nat
  BY DEF Laid
<1>2. \A j \in 1 .. Len(bs) : bs[j] \in Block /\ bs[j].address \in Nat /\ bs[j].size \in Nat
  BY LaidBlocks, Zenon
<1>3. b \in Block /\ b.address = bs[i].address /\ b.size = bs[i].size
  BY <1>2, Zenon DEF Block
<1>4. s = [bs EXCEPT ![i] = b]
  BY Zenon DEF s, SetFree, b
<1> HIDE DEF b
<1>5. s \in Seq(Block) /\ Len(s) = Len(bs)
  BY <1>1, <1>3, <1>4
<1>6. s[i] = b /\ \A j \in 1 .. Len(bs) : j # i => s[j] = bs[j]
  BY <1>1, <1>4
<1> HIDE DEF s
<1>7. \A j \in 1 .. Len(bs) : s[j].address = bs[j].address /\ s[j].size = bs[j].size
  BY <1>3, <1>6, Zenon
<1>8. Laid(s, p)
  BY <1>1, <1>5, <1>7, SMTT(30) DEF Laid
<1> QED BY <1>5, <1>6, <1>8, Zenon DEF s, b

(* What mergeBlock does to the list when it merges. *)
LEMMA MergeEffect ==
  ASSUME NEW bs, NEW p, Laid(bs, p), NEW i \in Int, CanMerge(bs, i)
  PROVE  LET s == MergeBlock(bs, i)
         IN  /\ i \in 1 .. Len(bs) /\ i + 1 \in 1 .. Len(bs)
             /\ s \in Seq(Block) /\ Len(s) = Len(bs) - 1
             /\ s[i].address = bs[i].address
             /\ s[i].size = bs[i].size + bs[i + 1].size
             /\ s[i].free
             /\ \A j \in 1 .. Len(s) : j < i => s[j] = bs[j]
             /\ \A j \in 1 .. Len(s) : j > i => s[j] = bs[j + 1]
<1> DEFINE s == MergeBlock(bs, i)
           b == [bs[i] EXCEPT !.size = bs[i].size + bs[i + 1].size]
<1>1. bs \in Seq(Block) /\ p \in Nat /\ Len(bs) \in Nat
  BY DEF Laid
<1>2. \A j \in 1 .. Len(bs) : bs[j] \in Block /\ bs[j].address \in Nat /\ bs[j].size \in Nat
  BY LaidBlocks, Zenon
<1>3. i \in 1 .. Len(bs) /\ i + 1 \in 1 .. Len(bs) /\ bs[i].free /\ bs[i + 1].free
  BY <1>1 DEF CanMerge
<1>4. /\ b \in Block /\ b.address = bs[i].address /\ b.free = bs[i].free
      /\ b.size = bs[i].size + bs[i + 1].size
  <2> DEFINE sum == bs[i].size + bs[i + 1].size
  <2>1. bs[i] \in Block /\ bs[i].size \in Nat /\ bs[i + 1].size \in Nat
    BY <1>2, <1>3, Zenon
  <2>2. sum \in Nat
    BY <2>1
  <2> HIDE DEF sum
  <2>3. [bs[i] EXCEPT !.size = sum] \in Block
    BY <2>1, <2>2, Zenon DEF Block
  <2>4. /\ [bs[i] EXCEPT !.size = sum].address = bs[i].address
        /\ [bs[i] EXCEPT !.size = sum].free = bs[i].free
        /\ [bs[i] EXCEPT !.size = sum].size = sum
    BY <2>1, Zenon DEF Block
  <2> QED BY <2>3, <2>4, Zenon DEF sum, b
<1>5. s = [j \in 1 .. Len(bs) - 1 |-> IF j < i THEN bs[j] ELSE IF j = i THEN b ELSE bs[j + 1]]
  BY Zenon DEF s, MergeBlock, b
<1> HIDE DEF b
<1>6. s \in [1 .. Len(bs) - 1 -> Block]
  BY <1>1, <1>2, <1>3, <1>4, <1>5
<1>7. s \in Seq(Block) /\ Len(s) = Len(bs) - 1
  <2>1. Len(bs) - 1 \in Nat
    BY <1>1, <1>3
  <2> QED BY <2>1, <1>6, FunctionIsSeq, Zenon
<1>8. s[i] = b /\ \A j \in 1 .. Len(s) : /\ j < i => s[j] = bs[j]
                                         /\ j > i => s[j] = bs[j + 1]
  BY <1>1, <1>3, <1>5, <1>7
<1> HIDE DEF s
<1> QED BY <1>3, <1>4, <1>7, <1>8, Zenon DEF s
(* mergeBlock keeps the list laid out: the absorbed block starts where the
   absorbing one ends. *)
LEMMA MergeLaid ==
  ASSUME NEW bs, NEW p, Laid(bs, p), NEW i \in Int
  PROVE  Laid(MergeBlock(bs, i), p)
<1>1. CASE ~CanMerge(bs, i)
  BY <1>1, Zenon DEF MergeBlock
<1>2. CASE CanMerge(bs, i)
  <2> DEFINE s == MergeBlock(bs, i)
  <2>1. bs \in Seq(Block) /\ p \in Nat /\ Len(bs) \in Nat
    BY DEF Laid
  <2>2. \A j \in 1 .. Len(bs) : bs[j].address \in Nat /\ bs[j].size \in Nat
    BY LaidBlocks, Zenon
  <2>3. /\ i \in 1 .. Len(bs) /\ i + 1 \in 1 .. Len(bs)
        /\ s \in Seq(Block) /\ Len(s) = Len(bs) - 1
        /\ s[i].address = bs[i].address
        /\ s[i].size = bs[i].size + bs[i + 1].size
        /\ \A j \in 1 .. Len(s) : j < i => s[j] = bs[j]
        /\ \A j \in 1 .. Len(s) : j > i => s[j] = bs[j + 1]
    <3>1. i \in Int
      BY Zenon
    <3> QED BY <1>2, <3>1, MergeEffect, ZenonT(30)
  <2>4. bs[i].address + bs[i].size = bs[i + 1].address
    BY <2>1, <2>3 DEF Laid
  <2>5. s[i].address + s[i].size = bs[i + 1].address + bs[i + 1].size
    <3>1. /\ bs[i].address \in Nat /\ bs[i].size \in Nat
          /\ bs[i + 1].address \in Nat /\ bs[i + 1].size \in Nat
      BY <2>2, <2>3, Zenon
    <3>2. s[i].address = bs[i].address /\ s[i].size = bs[i].size + bs[i + 1].size
      BY <2>3, Zenon
    <3>3. bs[i].address + (bs[i].size + bs[i + 1].size) = bs[i + 1].address + bs[i + 1].size
      <4> DEFINE a == bs[i].address
                 b == bs[i].size
                 c == bs[i + 1].address
                 e == bs[i + 1].size
      <4>1. a \in Nat /\ b \in Nat /\ c \in Nat /\ e \in Nat /\ a + b = c
        BY <3>1, <2>4, Zenon
      <4>2. a + (b + e) = c + e
        <5> HIDE DEF a, b, c, e
        <5> QED BY <4>1
      <4> QED BY <4>2, Zenon
    <3> QED BY <3>2, <3>3, Zenon
  <2>i. i \in 1 .. Len(bs) /\ i + 1 \in 1 .. Len(bs) /\ Len(s) = Len(bs) - 1
    BY <2>3, Zenon
  <2>l. \A j \in 1 .. Len(s) : j < i => s[j] = bs[j]
    BY <2>3, Zenon
  <2>r. \A j \in 1 .. Len(s) : j > i => s[j] = bs[j + 1]
    BY <2>3, Zenon
  <2> HIDE DEF s
  <2>6. ASSUME NEW j \in 1 .. Len(s), NEW k \in 1 .. Len(s), j < k
        PROVE  s[j].address + s[j].size <= s[k].address
    <3>1. CASE k < i
      <4>1. j \in 1 .. Len(bs) /\ k \in 1 .. Len(bs) /\ s[j] = bs[j] /\ s[k] = bs[k]
        <5>1. j \in 1 .. Len(bs) /\ k \in 1 .. Len(bs) /\ j < i
          BY <3>1, <2>1, <2>i, <2>6
        <5> QED BY <5>1, <3>1, <2>l, Zenon
      <4> QED BY <4>1, <2>6, LaidOrder, Zenon
    <3>2. CASE k = i
      <4>1. j \in 1 .. Len(bs) /\ s[j] = bs[j] /\ j < i
        <5>1. j \in 1 .. Len(bs) /\ j < i
          BY <3>2, <2>1, <2>i, <2>6
        <5> QED BY <5>1, <2>l, Zenon
      <4>2. bs[j].address + bs[j].size <= bs[i].address
        BY <4>1, <2>3, LaidOrder, Zenon
      <4> QED BY <4>1, <4>2, <3>2, <2>3, Zenon
    <3>3. CASE j < i /\ k > i
      <4>1. /\ j \in 1 .. Len(bs) /\ k + 1 \in 1 .. Len(bs) /\ j < k + 1
            /\ s[j] = bs[j] /\ s[k] = bs[k + 1]
        <5>1. j \in 1 .. Len(bs) /\ k + 1 \in 1 .. Len(bs) /\ j < k + 1
          BY <3>3, <2>1, <2>i, <2>6
        <5> QED BY <5>1, <3>3, <2>l, <2>r, Zenon
      <4> QED BY <4>1, LaidOrder, Zenon
    <3>4. CASE j = i
      <4>1. k + 1 \in 1 .. Len(bs) /\ i + 1 < k + 1 /\ s[k] = bs[k + 1]
        <5>1. k + 1 \in 1 .. Len(bs) /\ i + 1 < k + 1 /\ k > i
          BY <3>4, <2>1, <2>i, <2>6
        <5> QED BY <5>1, <2>r, Zenon
      <4>2. bs[i + 1].address + bs[i + 1].size <= bs[k + 1].address
        BY <4>1, <2>3, LaidOrder, Zenon
      <4> QED BY <4>1, <4>2, <3>4, <2>5, Zenon
    <3>5. CASE j > i
      <4>1. /\ j + 1 \in 1 .. Len(bs) /\ k + 1 \in 1 .. Len(bs) /\ j + 1 < k + 1
            /\ s[j] = bs[j + 1] /\ s[k] = bs[k + 1]
        <5>1. j + 1 \in 1 .. Len(bs) /\ k + 1 \in 1 .. Len(bs) /\ j + 1 < k + 1 /\ k > i
          BY <3>5, <2>1, <2>i, <2>6
        <5> QED BY <5>1, <3>5, <2>r, Zenon
      <4> QED BY <4>1, LaidOrder, Zenon
    <3> QED BY <3>1, <3>2, <3>3, <3>4, <3>5, <2>1, <2>3, <2>6
  <2>7. ASSUME NEW j \in 1 .. Len(s)
        PROVE  /\ s[j].address >= Begin
               /\ s[j].address + s[j].size = IF j = Len(s) THEN p ELSE s[j + 1].address
    <3>1. CASE j < i
      <4>1. /\ j \in 1 .. Len(bs) /\ j # Len(bs) /\ j # Len(s)
            /\ s[j] = bs[j] /\ s[j + 1].address = bs[j + 1].address
        <5>1. j \in 1 .. Len(bs) /\ j # Len(bs) /\ j # Len(s) /\ s[j] = bs[j]
          BY <3>1, <2>1, <2>i, <2>l
        <5>2. CASE j + 1 = i
          BY <5>2, <2>3, SMTT(30)
        <5>3. CASE j + 1 < i
          BY <5>3, <3>1, <2>1, <2>i, <2>l
        <5> QED BY <5>1, <5>2, <5>3, <3>1, <2>i
      <4> QED BY <4>1, Zenon DEF Laid
    <3>2. CASE j = i
      <4>1. bs[i].address >= Begin
        BY <2>3, Zenon DEF Laid
      <4>2. bs[i + 1].address + bs[i + 1].size
              = IF i + 1 = Len(bs) THEN p ELSE bs[(i + 1) + 1].address
        BY <2>3, Zenon DEF Laid
      <4>3. (j = Len(s) <=> i + 1 = Len(bs)) /\ (j # Len(s) => s[j + 1] = bs[(i + 1) + 1])
        <5>1. /\ j = Len(s) <=> i + 1 = Len(bs)
              /\ j # Len(s) => j + 1 \in 1 .. Len(s) /\ j + 1 > i
          BY <3>2, <2>1, <2>i
        <5> QED BY <5>1, <3>2, <2>r, Zenon
      <4> QED BY <4>1, <4>2, <4>3, <3>2, <2>3, <2>5, Zenon
    <3>3. CASE j > i
      <4>1. /\ j + 1 \in 1 .. Len(bs) /\ s[j] = bs[j + 1]
            /\ (j = Len(s) <=> j + 1 = Len(bs))
            /\ (j # Len(s) => s[j + 1] = bs[(j + 1) + 1])
        <5>1. j + 1 \in 1 .. Len(bs) /\ (j = Len(s) <=> j + 1 = Len(bs))
          BY <3>3, <2>1, <2>i
        <5>2. s[j] = bs[j + 1]
          BY <3>3, <2>3, Zenon
        <5>3. ASSUME j # Len(s) PROVE s[j + 1] = bs[(j + 1) + 1]
          <6>1. j + 1 \in 1 .. Len(s) /\ j + 1 > i
            BY <5>3, <3>3, <2>1, <2>i
          <6> QED BY <6>1, <2>3, Zenon
        <5> QED BY <5>1, <5>2, <5>3, Zenon
      <4> QED BY <4>1, Zenon DEF Laid
    <3> QED BY <3>1, <3>2, <3>3, <2>1, <2>3
  <2>8. Len(s) # 0 /\ s[1].address = Begin
    BY <2>1, <2>3 DEF Laid
  <2> QED BY <2>1, <2>3, <2>6, <2>7, <2>8, Zenon DEF Laid, s
<1> QED BY <1>1, <1>2, Zenon

(* One merge at i removes the pair of free neighbours at i and makes no new
   one, provided the pair behind it was not free on both sides. *)
LEMMA MergeCoalesces ==
  ASSUME NEW bs, NEW p, Laid(bs, p), NEW i \in Nat, NEW E, E \subseteq {i - 1, i},
         CoalescedBut(bs, E)
  PROVE  CoalescedBut(MergeBlock(bs, i), E \ {i})
<1>1. CASE ~CanMerge(bs, i)
  BY <1>1, Zenon DEF MergeBlock, CanMerge, CoalescedBut
<1>2. CASE CanMerge(bs, i)
  <2> DEFINE s == MergeBlock(bs, i)
  <2>1. bs \in Seq(Block) /\ Len(bs) \in Nat
    BY DEF Laid
  <2>2. bs[i].free /\ bs[i + 1].free
    BY <1>2, Zenon DEF CanMerge
  <2>3. /\ i \in 1 .. Len(bs) /\ i + 1 \in 1 .. Len(bs)
        /\ Len(s) = Len(bs) - 1 /\ s[i].free
        /\ \A j \in 1 .. Len(s) : j < i => s[j] = bs[j]
        /\ \A j \in 1 .. Len(s) : j > i => s[j] = bs[j + 1]
    BY <1>2, MergeEffect
  <2> HIDE DEF s
  <2> SUFFICES ASSUME NEW j \in 1 .. Len(s) - 1, j \notin E \ {i}, s[j].free, s[j + 1].free
               PROVE  FALSE
    BY Zenon DEF CoalescedBut, s
  <2>4. CASE j < i
    <3>1. bs[j].free /\ bs[j + 1].free
      <4>1. /\ j \in 1 .. Len(s) /\ j + 1 \in 1 .. Len(s)
            /\ j + 1 < i \/ j + 1 = i
        BY <2>4, <2>1, <2>3
      <4> QED BY <4>1, <2>4, <2>2, <2>3, Zenon
    <3>2. j \in 1 .. Len(bs) - 1 /\ j \notin E
      BY <2>4, <2>1, <2>3
    <3> QED BY <3>1, <3>2, Zenon DEF CoalescedBut
  <2>5. CASE j = i
    <3>1. i + 1 \in 1 .. Len(bs) - 1 /\ bs[(i + 1) + 1].free /\ i + 1 \notin E
      <4>1. i + 1 \in 1 .. Len(bs) - 1 /\ i + 1 \in 1 .. Len(s) /\ i + 1 > i
        BY <2>5, <2>1, <2>3
      <4>2. s[i + 1] = bs[(i + 1) + 1]
        BY <4>1, <2>3, Zenon
      <4>3. i + 1 \notin E
        OBVIOUS
      <4> QED BY <4>1, <4>2, <4>3, <2>5, Zenon
    <3> QED BY <3>1, <2>2, Zenon DEF CoalescedBut
  <2>6. CASE j > i
    <3>1. /\ j + 1 \in 1 .. Len(bs) - 1 /\ j + 1 \notin E
          /\ bs[j + 1].free /\ bs[(j + 1) + 1].free
      <4>1. /\ j \in 1 .. Len(s) /\ j + 1 \in 1 .. Len(s) /\ j + 1 > i
            /\ j + 1 \in 1 .. Len(bs) - 1
        BY <2>6, <2>1, <2>3
      <4>2. s[j] = bs[j + 1] /\ s[j + 1] = bs[(j + 1) + 1]
        BY <4>1, <2>6, <2>3, Zenon
      <4>3. j + 1 \notin E
        BY <2>6, <2>1, <2>3
      <4> QED BY <4>1, <4>2, <4>3, Zenon
    <3> QED BY <3>1, Zenon DEF CoalescedBut
  <2> QED BY <2>4, <2>5, <2>6, <2>3
<1> QED BY <1>1, <1>2, Zenon

-----------------------------------------------------------------------------
(* The inductive step *)

(* Every call leaves a well-formed record of itself. *)
LEMMA CallsTyped ==
  ASSUME NEW call \in {"allocate", "free"}, NEW arg \in Int, NEW ret \in Nat
  PROVE  /\ Returns(call, arg, ret) => last' \in Calls
         /\ Throws(call, arg) => last' \in Calls
<1>1. [call |-> call, arg |-> arg, ret |-> ret, error |-> FALSE] \in Calls
  BY Zenon DEF Calls
<1>2. [call |-> call, arg |-> arg, ret |-> 0, error |-> TRUE] \in Calls
  BY Zenon DEF Calls
<1> QED BY <1>1, <1>2, Zenon DEF Returns, Throws

(* The list after a step, in the terms of the lemmas above. *)
LEMMA LaidInv ==
  ASSUME NEW bs, NEW p, Laid(bs, p), CoalescedBut(bs, {}),
         blocks' = bs, pos' = p, last' \in Calls
  PROVE  IInv'
<1>1. TypeOK'
  BY Zenon DEF TypeOK, Laid
<1>2. Tiled'
  BY DEF Tiled, Laid
<1>3. Coalesced'
  BY Zenon DEF Coalesced, CoalescedBut
<1> QED BY <1>1, <1>2, <1>3, Zenon DEF IInv

(* The invariant, in the terms of the lemmas above. *)
LEMMA InvLaid == ASSUME IInv PROVE Laid(blocks, pos) /\ CoalescedBut(blocks, {})
  BY TiledIsLaid, Zenon DEF IInv, Coalesced, CoalescedBut

(* AllocateNew keeps the invariant. *)
LEMMA AllocateNewInv ==
  ASSUME IInv, NEW size \in Int, AllocateNew(size) PROVE IInv'
<1> DEFINE b == [address |-> pos, size |-> size, free |-> FALSE]
<1>1. size \in Nat /\ pos \in Nat /\ blocks \in Seq(Block) /\ b \in Block
  BY HeapAssumption DEF AllocateNew, IInv, TypeOK, Block
<1>2. Laid(blocks, pos) /\ CoalescedBut(blocks, {})
  BY InvLaid, Zenon
<1>3. Laid(Append(blocks, b), pos + size)
  BY <1>1, <1>2, AppendLaid, Zenon
<1>4. CoalescedBut(Append(blocks, b), {})
  <2>1. b.free = FALSE
    BY Zenon
  <2> HIDE DEF b
  <2>2. /\ Len(Append(blocks, b)) = Len(blocks) + 1
        /\ Append(blocks, b)[Len(blocks) + 1] = b
        /\ \A j \in 1 .. Len(blocks) : Append(blocks, b)[j] = blocks[j]
    BY <1>1
  <2> QED BY <2>1, <2>2, <1>1, <1>2 DEF CoalescedBut
<1>5. last' \in Calls
  BY <1>1, CallsTyped, Zenon DEF AllocateNew
<1> QED BY <1>3, <1>4, <1>5, LaidInv, Zenon DEF AllocateNew

(* AllocateSplit keeps the invariant: the block behind the one that is split
   was not free, so the free rest has no free neighbour. *)
LEMMA AllocateSplitInv ==
  ASSUME IInv, NEW size \in Int, AllocateSplit(size) PROVE IInv'
<1>1. PICK i \in DOMAIN blocks :
        /\ FindsFreeBlock(i, size)
        /\ blocks' = SplitBlock(blocks, i, size)
        /\ Returns("allocate", size, blocks[i].address)
  BY Zenon DEF AllocateSplit
<1>2. Laid(blocks, pos) /\ CoalescedBut(blocks, {})
  BY InvLaid, Zenon
<1>3. blocks \in Seq(Block) /\ i \in 1 .. Len(blocks) /\ Len(blocks) \in Nat
  BY DEF IInv, TypeOK
<1>4. size \in Nat /\ size <= blocks[i].size /\ blocks[i].free
  BY <1>1, <1>2, <1>3, LaidBlocks, HeapAssumption DEF AllocateSplit, FindsFreeBlock, Fits
<1>5. Laid(SplitBlock(blocks, i, size), pos) /\ Len(SplitBlock(blocks, i, size)) = Len(blocks) + 1
  BY <1>2, <1>3, <1>4, SplitLaid, Zenon
<1>6. CoalescedBut(SplitBlock(blocks, i, size), {})
  <2> DEFINE s == SplitBlock(blocks, i, size)
  <2>1. blocks[i] \in Block
    BY <1>3
  <2>2. /\ \A j \in 1 .. Len(blocks) + 1 : j < i => s[j] = blocks[j]
        /\ ~s[i].free
        /\ \A j \in 1 .. Len(blocks) + 1 : j > i + 1 => s[j] = blocks[j - 1]
    <3>1. \A j \in 1 .. Len(blocks) + 1 : j < i => s[j] = blocks[j]
      BY <1>3, Zenon DEF SplitBlock
    <3>2. s[i] = [blocks[i] EXCEPT !.size = size, !.free = FALSE]
      BY <1>3 DEF SplitBlock
    <3>3. ~s[i].free
      BY <3>2, <2>1, Zenon DEF Block
    <3>4. \A j \in 1 .. Len(blocks) + 1 : j > i + 1 => s[j] = blocks[j - 1]
      BY <1>3 DEF SplitBlock
    <3> QED BY <3>1, <3>3, <3>4, Zenon
  <2> HIDE DEF s
  <2> SUFFICES ASSUME NEW j \in 1 .. Len(s) - 1, s[j].free, s[j + 1].free PROVE FALSE
    BY Zenon DEF CoalescedBut, s
  <2>3. Len(s) = Len(blocks) + 1
    BY <1>5, Zenon DEF s
  <2>4. CASE j + 1 < i
    <3>1. /\ j \in 1 .. Len(blocks) - 1
          /\ s[j] = blocks[j] /\ s[j + 1] = blocks[j + 1]
      BY <2>4, <2>2, <2>3, <1>3
    <3> QED BY <3>1, <1>2, Zenon DEF CoalescedBut
  <2>5. CASE j = i + 1
    <3>1. i \in 1 .. Len(blocks) - 1 /\ s[j + 1] = blocks[i + 1]
      BY <2>5, <2>2, <2>3, <1>3
    <3> QED BY <3>1, <1>2, <1>4, Zenon DEF CoalescedBut
  <2>6. CASE j > i + 1
    <3>1. /\ j - 1 \in 1 .. Len(blocks) - 1
          /\ s[j] = blocks[j - 1] /\ s[j + 1] = blocks[(j - 1) + 1]
      <4>1. /\ j - 1 \in 1 .. Len(blocks) - 1 /\ j \in 1 .. Len(blocks) + 1
            /\ j + 1 \in 1 .. Len(blocks) + 1 /\ j + 1 > i + 1
            /\ (j + 1) - 1 = (j - 1) + 1
        BY <2>6, <2>3, <1>3
      <4>2. s[j] = blocks[j - 1] /\ s[j + 1] = blocks[(j + 1) - 1]
        BY <4>1, <2>6, <2>2, Zenon
      <4> QED BY <4>1, <4>2
    <3> QED BY <3>1, <1>2, Zenon DEF CoalescedBut
  <2>7. j + 1 # i /\ j # i
    BY <2>2, Zenon
  <2> QED BY <2>4, <2>5, <2>6, <2>7, <2>3, <1>3
<1>7. last' \in Calls
  <2>1. blocks[i].address \in Nat
    BY <1>2, <1>3, LaidBlocks, Zenon
  <2> QED BY <2>1, <1>1, <1>4, CallsTyped, Zenon
<1> QED BY <1>1, <1>5, <1>6, <1>7, LaidInv, Zenon DEF AllocateSplit

(* FreeBlock keeps the invariant: marking a block free can pair it with either
   neighbour, and the two merges undo exactly these two pairs. *)
LEMMA FreeBlockInv ==
  ASSUME IInv, NEW addr \in 0 .. MaxPos, FreeBlock(addr) PROVE IInv'
<1>1. PICK i \in DOMAIN blocks :
        blocks' = MergeBlock(MergeBlock(SetFree(blocks, i), i), i - 1)
  BY Zenon DEF FreeBlock
<1> DEFINE f == SetFree(blocks, i)
           m == MergeBlock(f, i)
<1>2. Laid(blocks, pos) /\ CoalescedBut(blocks, {})
  BY InvLaid, Zenon
<1>3. i \in 1 .. Len(blocks) /\ Len(blocks) \in Nat
  BY DEF IInv, TypeOK
<1>4. /\ Laid(f, pos) /\ Len(f) = Len(blocks)
      /\ \A j \in 1 .. Len(blocks) : j # i => f[j] = blocks[j]
  BY <1>2, <1>3, SetFreeLaid, Zenon
<1> HIDE DEF f
<1>5. CoalescedBut(f, {i - 1, i})
  BY <1>2, <1>3, <1>4 DEF CoalescedBut
<1>6. Laid(m, pos)
  BY <1>3, <1>4, MergeLaid
<1>7. CoalescedBut(m, {i - 1})
  <2>1. CoalescedBut(m, {i - 1, i} \ {i})
    BY <1>3, <1>4, <1>5, MergeCoalesces
  <2>2. {i - 1, i} \ {i} = {i - 1}
    BY <1>3
  <2> QED BY <2>1, <2>2, Zenon
<1> HIDE DEF m
<1>8. Laid(MergeBlock(m, i - 1), pos)
  BY <1>3, <1>6, MergeLaid
<1>9. CoalescedBut(MergeBlock(m, i - 1), {})
  <2>1. i - 1 \in Nat /\ {i - 1} \subseteq {(i - 1) - 1, i - 1}
    BY <1>3
  <2>2. CoalescedBut(MergeBlock(m, i - 1), {i - 1} \ {i - 1})
    BY <2>1, <1>6, <1>7, MergeCoalesces, Zenon
  <2>3. {i - 1} \ {i - 1} = {}
    BY Zenon
  <2> QED BY <2>2, <2>3, Zenon
<1>10. last' \in Calls /\ pos' = pos
  BY HeapAssumption, CallsTyped DEF FreeBlock
<1>11. blocks' = MergeBlock(m, i - 1)
  BY <1>1, Zenon DEF m, f
<1> QED BY <1>8, <1>9, <1>10, <1>11, LaidInv, Zenon

(* The calls that leave the list alone. *)
LEMMA QuietInv ==
  ASSUME IInv, UNCHANGED <<blocks, pos>>, last' \in Calls PROVE IInv'
  BY Zenon DEF IInv, TypeOK, Tiled, Coalesced

(* The constructor's empty list satisfies the invariant. *)
LEMMA InitInv == Init => IInv
<1> SUFFICES ASSUME Init PROVE IInv
  BY Zenon
<1>1. last \in Calls
  BY DEF Init, Calls
<1>2. blocks = <<>> /\ pos = Begin /\ Len(blocks) = 0 /\ DOMAIN blocks = {}
  BY DEF Init
<1> QED BY <1>1, <1>2, HeapAssumption DEF IInv, TypeOK, Tiled, Coalesced

(* Every call of allocate and of free keeps the invariant. *)
LEMMA StepInv == IInv /\ [HeapCall]_vars => IInv'
<1> SUFFICES ASSUME IInv, [HeapCall]_vars PROVE IInv'
  BY Zenon
<1>1. ASSUME NEW size \in Int, allocate(size) PROVE IInv'
  <2>1. CASE AllocateNegative(size)
    <3>1. last' \in Calls
      BY <2>1, CallsTyped, HeapAssumption, Zenon DEF AllocateNegative
    <3> QED BY <2>1, <3>1, QuietInv, Zenon DEF AllocateNegative
  <2>2. CASE AllocateNew(size)
    BY <2>2, AllocateNewInv, Zenon
  <2>3. CASE AllocateSplit(size)
    BY <2>3, AllocateSplitInv, Zenon
  <2> QED BY <1>1, <2>1, <2>2, <2>3, Zenon DEF allocate
<1>2. ASSUME NEW addr \in 0 .. MaxPos, free(addr) PROVE IInv'
  <2>0. addr \in Int
    BY HeapAssumption
  <2>1. CASE FreeNull(addr)
    <3>1. last' \in Calls
      BY <2>0, <2>1, CallsTyped, Zenon DEF FreeNull
    <3> QED BY <2>1, <3>1, QuietInv, Zenon DEF FreeNull
  <2>2. CASE FreeUnknown(addr)
    <3>1. last' \in Calls
      BY <2>0, <2>2, CallsTyped, Zenon DEF FreeUnknown
    <3> QED BY <2>2, <3>1, QuietInv, Zenon DEF FreeUnknown
  <2>3. CASE FreeBlock(addr)
    BY <2>3, FreeBlockInv, Zenon
  <2> QED BY <1>2, <2>1, <2>2, <2>3, Zenon DEF free
<1>3. CASE UNCHANGED vars
  BY <1>3, QuietInv, Zenon DEF vars, IInv, TypeOK
<1> QED BY <1>1, <1>2, <1>3, Zenon DEF HeapCall

(* The heap's own next-state relation makes such calls only. *)
LEMMA NextCalls == [Next]_vars => [HeapCall]_vars
  BY HeapAssumption, Zenon DEF Next, HeapCall

(* The conjunction is inductive. *)
THEOREM HeapInvariant == Spec => []IInv
  BY InitInv, StepInv, NextCalls, PTL DEF Spec

(* Type correctness: no call of allocate or free, in any order and with any
   arguments, makes a block with a negative size or address. *)
THEOREM HeapTypes == Spec => []TypeOK
  BY HeapInvariant, PTL DEF IInv

(* The list always tiles the memory from begin to pos: splitBlock and mergeBlock
   neither lose a byte nor give one to two blocks. *)
THEOREM HeapTiled == Spec => []Tiled
  BY HeapInvariant, PTL DEF IInv

(* The two merges of free are enough to keep free neighbours apart. *)
THEOREM HeapCoalesced == Spec => []Coalesced
  BY HeapInvariant, PTL DEF IInv

(* What allocate returned is a block in use of the requested size: the record
   of the last call and the list change together. *)
THEOREM HeapReturned == Spec => []ReturnedInUse
<1>1. Init => ReturnedInUse
  BY DEF Init, ReturnedInUse
<1>2. IInv /\ ReturnedInUse /\ [Next]_vars => ReturnedInUse'
  <2> SUFFICES ASSUME IInv, ReturnedInUse, [Next]_vars PROVE ReturnedInUse'
    BY Zenon
  <2>1. Laid(blocks, pos) /\ blocks \in Seq(Block) /\ pos \in Nat
    BY InvLaid, Zenon DEF IInv, TypeOK
  <2>2. ASSUME NEW size \in Int, AllocateNegative(size) PROVE ReturnedInUse'
    BY <2>2, HeapAssumption DEF AllocateNegative, Returns, ReturnedInUse
  <2>3. ASSUME NEW size \in Int, AllocateNew(size) PROVE ReturnedInUse'
    <3> DEFINE b == [address |-> pos, size |-> size, free |-> FALSE]
    <3>1. b.address = pos /\ b.size = size /\ ~b.free
      BY Zenon
    <3>2. size \in Nat
      BY <2>3, HeapAssumption DEF AllocateNew
    <3>3. b \in Block
      BY <2>1, <3>2, Zenon DEF Block
    <3>4. blocks' = Append(blocks, b) /\ last'.ret = pos /\ last'.arg = size
      BY <2>3, Zenon DEF AllocateNew, Returns
    <3> HIDE DEF b
    <3>5. Len(blocks) + 1 \in DOMAIN blocks' /\ blocks'[Len(blocks) + 1] = b
      BY <2>1, <3>3, <3>4
    <3> QED BY <3>1, <3>4, <3>5, Zenon DEF ReturnedInUse
  <2>4. ASSUME NEW size \in Int, AllocateSplit(size) PROVE ReturnedInUse'
    <3>1. PICK i \in DOMAIN blocks :
            /\ blocks' = SplitBlock(blocks, i, size)
            /\ Returns("allocate", size, blocks[i].address)
      BY <2>4, Zenon DEF AllocateSplit
    <3>2. i \in 1 .. Len(blocks) /\ Len(blocks) \in Nat /\ blocks[i] \in Block
      BY <2>1
    <3>3. /\ i \in DOMAIN blocks'
          /\ blocks'[i] = [blocks[i] EXCEPT !.size = size, !.free = FALSE]
      BY <3>1, <3>2 DEF SplitBlock
    <3>4. blocks'[i].address = blocks[i].address /\ blocks'[i].size = size /\ ~blocks'[i].free
      BY <3>2, <3>3, Zenon DEF Block
    <3>5. last'.ret = blocks[i].address /\ last'.arg = size
      BY <3>1, Zenon DEF Returns
    <3> QED BY <3>3, <3>4, <3>5, Zenon DEF ReturnedInUse
  <2>5. ASSUME NEW addr \in 0 .. MaxPos, free(addr) PROVE ReturnedInUse'
    <3>1. last'.call = "free"
      BY <2>5 DEF free, FreeNull, FreeUnknown, FreeBlock, Returns, Throws
    <3> QED BY <3>1, Zenon DEF ReturnedInUse
  <2>6. CASE UNCHANGED vars
    BY <2>6, Zenon DEF vars, ReturnedInUse
  <2> QED BY <2>2, <2>3, <2>4, <2>5, <2>6, HeapAssumption, Zenon DEF Next, allocate
<1> QED BY <1>1, <1>2, HeapInvariant, PTL DEF Spec

-----------------------------------------------------------------------------
(* The pool of regions *)

(* The regions in use of a list. *)
UsedAt(bs, k) == k \in 1 .. Len(bs) /\ ~bs[k].free /\ bs[k].size > 0

Used(bs) == {<<bs[k].address, bs[k].size>> : k \in {m \in DOMAIN bs : ~bs[m].free /\ bs[m].size > 0}}

(* A region is in use when some block that is not free has it. *)
LEMMA UsedMember ==
  ASSUME NEW bs \in Seq(Block), NEW r
  PROVE  r \in Used(bs) <=> \E k \in Nat : UsedAt(bs, k) /\ r = <<bs[k].address, bs[k].size>>
  BY DEF Used, UsedAt

(* createBlock adds its region, or nothing when the size is 0. *)
LEMMA UsedAppend ==
  ASSUME NEW bs \in Seq(Block), NEW p \in Nat, NEW size \in Nat
  PROVE  Used(Append(bs, [address |-> p, size |-> size, free |-> FALSE]))
           = IF size > 0 THEN Used(bs) \cup {<<p, size>>} ELSE Used(bs)
<1> DEFINE b == [address |-> p, size |-> size, free |-> FALSE]
           s == Append(bs, b)
<1>1. b \in Block /\ b.address = p /\ b.size = size /\ ~b.free
  BY Zenon DEF Block
<1> HIDE DEF b
<1>2. /\ s \in Seq(Block) /\ Len(s) = Len(bs) + 1 /\ Len(bs) \in Nat
      /\ s[Len(bs) + 1] = b
      /\ \A j \in 1 .. Len(bs) : s[j] = bs[j]
  BY <1>1
<1> HIDE DEF s
<1>3. ASSUME NEW r \in Used(s)
      PROVE  r \in Used(bs) \/ (size > 0 /\ r = <<p, size>>)
  <2>1. PICK k \in Nat : UsedAt(s, k) /\ r = <<s[k].address, s[k].size>>
    BY <1>2, UsedMember
  <2>2. CASE k = Len(bs) + 1
    BY <2>1, <2>2, <1>1, <1>2, Zenon DEF UsedAt
  <2>3. CASE k \in 1 .. Len(bs)
    <3>1. UsedAt(bs, k) /\ r = <<bs[k].address, bs[k].size>>
      BY <2>1, <2>3, <1>2, Zenon DEF UsedAt
    <3> QED BY <3>1, UsedMember, Zenon
  <2> QED BY <2>1, <2>2, <2>3, <1>2 DEF UsedAt
<1>4. ASSUME NEW r \in Used(bs) PROVE r \in Used(s)
  <2>1. PICK k \in Nat : UsedAt(bs, k) /\ r = <<bs[k].address, bs[k].size>>
    BY UsedMember, Zenon
  <2>2. UsedAt(s, k) /\ r = <<s[k].address, s[k].size>>
    BY <2>1, <1>2 DEF UsedAt
  <2> QED BY <2>2, <1>2, UsedMember, Zenon
<1>5. size > 0 => <<p, size>> \in Used(s)
  <2>1. size > 0 => UsedAt(s, Len(bs) + 1)
    BY <1>1, <1>2 DEF UsedAt
  <2> QED BY <2>1, <1>1, <1>2, UsedMember
<1> QED BY <1>3, <1>4, <1>5, Zenon DEF s, b

(* splitBlock adds the front of the block it cuts, or nothing for size 0: the
   block was free and the rest stays free. *)
LEMMA UsedSplit ==
  ASSUME NEW bs, NEW p, Laid(bs, p), NEW i \in 1 .. Len(bs), bs[i].free,
         NEW size \in Nat, size <= bs[i].size
  PROVE  Used(SplitBlock(bs, i, size))
           = IF size > 0 THEN Used(bs) \cup {<<bs[i].address, size>>} ELSE Used(bs)
<1> DEFINE s == SplitBlock(bs, i, size)
<1>1. bs \in Seq(Block) /\ Len(bs) \in Nat /\ bs[i] \in Block
  BY DEF Laid
<1>2. s \in Seq(Block) /\ Len(s) = Len(bs) + 1
  <2>1. Laid(s, p) /\ Len(s) = Len(bs) + 1
    BY SplitLaid, Zenon
  <2> HIDE DEF s
  <2> QED BY <2>1, Zenon DEF Laid
<1>3. /\ s[i].address = bs[i].address /\ s[i].size = size /\ ~s[i].free
      /\ s[i + 1].free
  <2>1. i \in 1 .. Len(bs) + 1 /\ i + 1 \in 1 .. Len(bs) + 1 /\ ~(i < i) /\ ~(i + 1 < i) /\ i + 1 # i
    BY <1>1
  <2>2. s[i] = [bs[i] EXCEPT !.size = size, !.free = FALSE]
    BY <2>1, Zenon DEF SplitBlock
  <2>3. s[i + 1] = [address |-> bs[i].address + size, size |-> bs[i].size - size, free |-> TRUE]
    BY <2>1, Zenon DEF SplitBlock
  <2>4. s[i].address = bs[i].address /\ s[i].size = size /\ ~s[i].free
    BY <2>2, <1>1, Zenon DEF Block
  <2>5. s[i + 1].free
    BY <2>3
  <2> QED BY <2>4, <2>5, Zenon
<1>4. /\ \A j \in 1 .. Len(bs) + 1 : j < i => s[j] = bs[j]
      /\ \A j \in 1 .. Len(bs) + 1 : j > i + 1 => s[j] = bs[j - 1]
  BY <1>1 DEF SplitBlock
<1> HIDE DEF s
<1>5. ASSUME NEW r \in Used(s)
      PROVE  r \in Used(bs) \/ (size > 0 /\ r = <<bs[i].address, size>>)
  <2>1. PICK k \in Nat : UsedAt(s, k) /\ r = <<s[k].address, s[k].size>>
    BY <1>2, UsedMember, Zenon
  <2>2. k \in 1 .. Len(bs) + 1 /\ ~s[k].free /\ s[k].size > 0 /\ k # i + 1
    BY <2>1, <1>2, <1>3, Zenon DEF UsedAt
  <2>3. CASE k < i
    <3>1. UsedAt(bs, k) /\ s[k] = bs[k]
      BY <2>2, <2>3, <1>1, <1>4 DEF UsedAt
    <3> QED BY <3>1, <2>1, <1>1, UsedMember, Zenon
  <2>4. CASE k = i
    BY <2>1, <2>2, <2>4, <1>3, Zenon
  <2>5. CASE k > i + 1
    <3>1. k - 1 \in Nat /\ UsedAt(bs, k - 1) /\ s[k] = bs[k - 1]
      BY <2>2, <2>5, <1>1, <1>4 DEF UsedAt
    <3> QED BY <3>1, <2>1, <1>1, UsedMember, Zenon
  <2> QED BY <2>2, <2>3, <2>4, <2>5
<1>6. ASSUME NEW r \in Used(bs) PROVE r \in Used(s)
  <2>1. PICK k \in Nat : UsedAt(bs, k) /\ r = <<bs[k].address, bs[k].size>>
    BY <1>1, UsedMember, Zenon
  <2>2. k \in 1 .. Len(bs) /\ ~bs[k].free /\ bs[k].size > 0 /\ k # i
    BY <2>1, Zenon DEF UsedAt
  <2>3. CASE k < i
    <3>1. UsedAt(s, k) /\ s[k] = bs[k]
      BY <2>2, <2>3, <1>1, <1>2, <1>4 DEF UsedAt
    <3> QED BY <3>1, <2>1, <1>2, UsedMember, Zenon
  <2>4. CASE k > i
    <3>1. k + 1 \in 1 .. Len(bs) + 1 /\ s[k + 1] = bs[(k + 1) - 1] /\ (k + 1) - 1 = k
      BY <2>2, <2>4, <1>1, <1>4
    <3>2. k + 1 \in Nat /\ UsedAt(s, k + 1) /\ s[k + 1] = bs[k]
      BY <3>1, <2>2, <1>2 DEF UsedAt
    <3> QED BY <3>2, <2>1, <1>2, UsedMember, Zenon
  <2> QED BY <2>2, <2>3, <2>4
<1>7. size > 0 => <<bs[i].address, size>> \in Used(s)
  <2>1. size > 0 => UsedAt(s, i)
    BY <1>1, <1>2, <1>3 DEF UsedAt
  <2> QED BY <2>1, <1>2, <1>3, UsedMember, SMTT(30)
<1> QED BY <1>5, <1>6, <1>7, Zenon DEF s

(* mergeBlock joins free blocks only: the regions in use stay the same. *)
LEMMA UsedMerge ==
  ASSUME NEW bs, NEW p, Laid(bs, p), NEW i \in Int
  PROVE  Used(MergeBlock(bs, i)) = Used(bs)
<1>1. CASE ~CanMerge(bs, i)
  BY <1>1, Zenon DEF MergeBlock
<1>2. CASE CanMerge(bs, i)
  <2> DEFINE s == MergeBlock(bs, i)
  <2>1. bs \in Seq(Block) /\ Len(bs) \in Nat
    BY DEF Laid
  <2>2. bs[i].free /\ bs[i + 1].free
    BY <1>2, Zenon DEF CanMerge
  <2>3. /\ i \in 1 .. Len(bs) /\ i + 1 \in 1 .. Len(bs)
        /\ s \in Seq(Block) /\ Len(s) = Len(bs) - 1 /\ s[i].free
    BY <1>2, MergeEffect, Zenon
  <2>4. /\ \A j \in 1 .. Len(s) : j < i => s[j] = bs[j]
        /\ \A j \in 1 .. Len(s) : j > i => s[j] = bs[j + 1]
    BY <1>2, MergeEffect, Zenon
  <2> HIDE DEF s
  <2>5. ASSUME NEW r \in Used(s) PROVE r \in Used(bs)
    <3>1. PICK k \in Nat : UsedAt(s, k) /\ r = <<s[k].address, s[k].size>>
      BY <2>3, UsedMember, Zenon
    <3>2. k \in 1 .. Len(s) /\ ~s[k].free /\ s[k].size > 0 /\ k # i
      BY <3>1, <2>3, Zenon DEF UsedAt
    <3>3. CASE k < i
      <4>1. UsedAt(bs, k) /\ s[k] = bs[k]
        BY <3>2, <3>3, <2>1, <2>3, <2>4 DEF UsedAt
      <4> QED BY <4>1, <3>1, <2>1, UsedMember, Zenon
    <3>4. CASE k > i
      <4>1. k + 1 \in Nat /\ UsedAt(bs, k + 1) /\ s[k] = bs[k + 1]
        BY <3>2, <3>4, <2>1, <2>3, <2>4 DEF UsedAt
      <4> QED BY <4>1, <3>1, <2>1, UsedMember, Zenon
    <3> QED BY <3>2, <3>3, <3>4, <2>3
  <2>6. ASSUME NEW r \in Used(bs) PROVE r \in Used(s)
    <3>1. PICK k \in Nat : UsedAt(bs, k) /\ r = <<bs[k].address, bs[k].size>>
      BY <2>1, UsedMember, Zenon
    <3>2. k \in 1 .. Len(bs) /\ ~bs[k].free /\ bs[k].size > 0 /\ k # i /\ k # i + 1
      BY <3>1, <2>2, Zenon DEF UsedAt
    <3>3. CASE k < i
      <4>1. UsedAt(s, k) /\ s[k] = bs[k]
        BY <3>2, <3>3, <2>1, <2>3, <2>4, SMTT(30) DEF UsedAt
      <4> QED BY <4>1, <3>1, <2>3, UsedMember, Zenon
    <3>4. CASE k > i + 1
      <4>1. k - 1 \in 1 .. Len(s) /\ k - 1 > i /\ (k - 1) + 1 = k
        BY <3>2, <3>4, <2>1, <2>3
      <4>2. s[k - 1] = bs[k]
        BY <4>1, <2>4, Zenon
      <4>3. k - 1 \in Nat /\ UsedAt(s, k - 1)
        BY <4>1, <4>2, <3>2 DEF UsedAt
      <4> QED BY <4>2, <4>3, <3>1, <2>3, UsedMember, Zenon
    <3> QED BY <3>2, <3>3, <3>4, <2>3
  <2> QED BY <2>5, <2>6, Zenon DEF s
<1> QED BY <1>1, <1>2, Zenon

(* Two blocks that hold memory never start at the same address. *)
LEMMA UsedDistinct ==
  ASSUME NEW bs, NEW p, Laid(bs, p), NEW i \in 1 .. Len(bs), NEW j \in 1 .. Len(bs),
         bs[i].size > 0, bs[j].size > 0, bs[i].address = bs[j].address
  PROVE  i = j
<1>1. Len(bs) \in Nat
  BY DEF Laid
<1>2. /\ bs[i].address \in Nat /\ bs[i].size \in Nat
      /\ bs[j].address \in Nat /\ bs[j].size \in Nat
  BY LaidBlocks, Zenon
<1>3. CASE i < j
  BY <1>2, <1>3, LaidOrder
<1>4. CASE j < i
  <2>1. bs[j].address + bs[j].size <= bs[i].address
    BY <1>4, LaidOrder, Zenon
  <2> QED BY <2>1, <1>2
<1> QED BY <1>1, <1>3, <1>4

(* setFree(true) takes the block's region out of use, if it had one. *)
LEMMA UsedSetFree ==
  ASSUME NEW bs, NEW p, Laid(bs, p), NEW i \in 1 .. Len(bs)
  PROVE  Used(SetFree(bs, i)) = Used(bs) \/
         \E r \in Used(bs) : r[1] = bs[i].address /\ Used(SetFree(bs, i)) = Used(bs) \ {r}
<1> DEFINE s == SetFree(bs, i)
           reg == <<bs[i].address, bs[i].size>>
<1>1. bs \in Seq(Block) /\ Len(bs) \in Nat /\ bs[i] \in Block
  BY DEF Laid
<1>2. /\ Laid(s, p) /\ Len(s) = Len(bs)
      /\ s[i] = [bs[i] EXCEPT !.free = TRUE]
      /\ \A j \in 1 .. Len(bs) : j # i => s[j] = bs[j]
  BY SetFreeLaid, Zenon
<1>3. s[i].free
  BY <1>1, <1>2, Zenon DEF Block
<1>4. s \in Seq(Block)
  BY <1>2, Zenon DEF Laid
<1> HIDE DEF s
<1>5. ASSUME NEW r \in Used(s)
      PROVE  r \in Used(bs) /\ (UsedAt(bs, i) => r # reg)
  <2>1. PICK k \in Nat : UsedAt(s, k) /\ r = <<s[k].address, s[k].size>>
    BY <1>4, UsedMember, Zenon
  <2>2. UsedAt(bs, k) /\ k # i /\ s[k] = bs[k]
    BY <2>1, <1>2, <1>3, Zenon DEF UsedAt
  <2>3. r \in Used(bs)
    BY <2>1, <2>2, <1>1, UsedMember, Zenon
  <2>4. ASSUME UsedAt(bs, i), r = reg PROVE FALSE
    <3>1. bs[k].address = bs[i].address
      BY <2>1, <2>2, <2>4
    <3> QED BY <3>1, <2>2, <2>4, UsedDistinct, Zenon DEF UsedAt
  <2> QED BY <2>3, <2>4, Zenon
<1>6. ASSUME NEW r \in Used(bs), UsedAt(bs, i) => r # reg PROVE r \in Used(s)
  <2>1. PICK k \in Nat : UsedAt(bs, k) /\ r = <<bs[k].address, bs[k].size>>
    BY <1>1, UsedMember, Zenon
  <2>2. k # i
    BY <2>1, <1>6, Zenon
  <2>3. UsedAt(s, k) /\ s[k] = bs[k]
    BY <2>1, <2>2, <1>2, Zenon DEF UsedAt
  <2> QED BY <2>1, <2>3, <1>4, UsedMember, Zenon
<1>7. CASE UsedAt(bs, i)
  <2>1. reg \in Used(bs) /\ reg[1] = bs[i].address
    BY <1>1, <1>7, UsedMember
  <2>2. Used(s) = Used(bs) \ {reg}
    BY <1>5, <1>6, <1>7, Zenon
  <2> QED BY <2>1, <2>2, Zenon DEF s
<1>8. CASE ~UsedAt(bs, i)
  BY <1>5, <1>6, <1>8, Zenon DEF s
<1> QED BY <1>7, <1>8, Zenon

(* A block that is not in use, cut at its start, touches no region in use. *)
LEMMA FreshApart ==
  ASSUME NEW bs, NEW p, Laid(bs, p), NEW i \in 1 .. Len(bs), bs[i].free,
         NEW size \in Nat, size <= bs[i].size, NEW r \in Used(bs)
  PROVE  Pool!Apart(r, <<bs[i].address, size>>)
<1>1. bs \in Seq(Block) /\ Len(bs) \in Nat
  BY DEF Laid
<1>2. PICK k \in Nat : UsedAt(bs, k) /\ r = <<bs[k].address, bs[k].size>>
  BY <1>1, UsedMember, Zenon
<1>3. k \in 1 .. Len(bs) /\ k # i
  BY <1>2, Zenon DEF UsedAt
<1>4. /\ bs[i].address \in Nat /\ bs[i].size \in Nat
      /\ bs[k].address \in Nat /\ bs[k].size \in Nat
  BY <1>3, LaidBlocks, Zenon
<1>5. CASE k < i
  BY <1>2, <1>3, <1>5, LaidOrder, Zenon DEF Pool!Apart
<1>6. CASE i < k
  <2>1. bs[i].address + bs[i].size <= bs[k].address
    BY <1>3, <1>6, LaidOrder, Zenon
  <2>2. bs[i].address + size <= bs[k].address
    BY <2>1, <1>4, BelowShorter, Zenon
  <2> QED BY <2>2, <1>2, Zenon DEF Pool!Apart
<1> QED BY <1>1, <1>3, <1>5, <1>6

(* Every call of the heap is a step of the pool. *)
LEMMA PoolCall == IInv /\ HeapCall => Pool!PoolNext
<1> SUFFICES ASSUME IInv, HeapCall PROVE Pool!PoolNext
  BY Zenon
<1>1. Laid(blocks, pos) /\ blocks \in Seq(Block) /\ pos \in Nat /\ Len(blocks) \in Nat
  BY InvLaid DEF IInv, TypeOK
<1>2. InUse = Used(blocks) /\ InUse' = Used(blocks')
  BY Zenon DEF InUse, Used
<1>3. ASSUME NEW size \in Int, AllocateNegative(size) PROVE Pool!PoolAllocateNothing
  BY <1>3, HeapAssumption DEF AllocateNegative, Returns, Pool!PoolAllocateNothing, InUse
<1>4. ASSUME NEW size \in Int, AllocateNew(size) PROVE Pool!PoolNext
  <2>1. size \in Nat /\ last' = [call |-> "allocate", arg |-> size, ret |-> pos, error |-> FALSE]
    BY <1>4, HeapAssumption DEF AllocateNew, Returns
  <2>2. last'.call = "allocate" /\ last'.arg = size /\ last'.ret = pos /\ ~last'.error
    BY <2>1, Zenon
  <2>3. InUse' = IF size > 0 THEN InUse \cup {<<pos, size>>} ELSE InUse
    BY <2>1, <1>1, <1>2, <1>4, UsedAppend, Zenon DEF AllocateNew
  <2>4. ASSUME NEW r \in InUse PROVE Pool!Apart(r, <<pos, size>>)
    <3>1. PICK k \in Nat : UsedAt(blocks, k) /\ r = <<blocks[k].address, blocks[k].size>>
      BY <1>1, <1>2, UsedMember, Zenon
    <3>2. blocks[k].address + blocks[k].size <= pos
      <4>1. k \in 1 .. Len(blocks)
        BY <3>1, Zenon DEF UsedAt
      <4>2. blocks[k].address \in Nat /\ blocks[k].size \in Nat
        BY <4>1, <1>1, LaidBlocks, Zenon
      <4>3. CASE k = Len(blocks)
        BY <4>1, <4>2, <4>3, <1>1 DEF Laid
      <4>4. CASE k < Len(blocks)
        <5> DEFINE n == Len(blocks)
        <5>1. n \in 1 .. Len(blocks) /\ blocks[n].address + blocks[n].size = pos
          BY <4>1, <1>1 DEF Laid
        <5>2. blocks[n].address \in Nat /\ blocks[n].size \in Nat
          BY <5>1, <1>1, LaidBlocks, Zenon
        <5>3. blocks[k].address + blocks[k].size <= blocks[n].address
          BY <5>1, <4>1, <4>4, <1>1, LaidOrder, Zenon
        <5> HIDE DEF n
        <5> QED BY <5>1, <5>2, <5>3, <4>2, <1>1, BelowEnd, Zenon
      <4> QED BY <4>1, <4>3, <4>4, <1>1
    <3> QED BY <3>1, <3>2, Zenon DEF Pool!Apart
  <2>5. CASE size > 0
    BY <2>2, <2>3, <2>4, <2>5, Zenon DEF Pool!PoolNext, Pool!PoolAllocate
  <2>6. CASE size = 0
    BY <2>2, <2>3, <2>6 DEF Pool!PoolNext, Pool!PoolAllocateNothing
  <2> QED BY <2>1, <2>5, <2>6
<1>5. ASSUME NEW size \in Int, AllocateSplit(size) PROVE Pool!PoolNext
  <2>1. PICK i \in DOMAIN blocks :
          /\ FindsFreeBlock(i, size)
          /\ blocks' = SplitBlock(blocks, i, size)
          /\ Returns("allocate", size, blocks[i].address)
    BY <1>5, Zenon DEF AllocateSplit
  <2>2. i \in 1 .. Len(blocks)
    BY <1>1
  <2>3. size \in Nat /\ size <= blocks[i].size /\ blocks[i].free
    <3>1. blocks[i].address \in Nat /\ blocks[i].size \in Nat
      BY <2>2, <1>1, LaidBlocks, Zenon
    <3>2. size \in Int
      BY HeapAssumption, Zenon
    <3>3. blocks[i].free /\ size <= blocks[i].size /\ size >= 0
      BY <2>1, <3>1, <3>2, <1>5, Zenon DEF AllocateSplit, FindsFreeBlock, Fits
    <3> QED BY <3>2, <3>3
  <2>4. last'.call = "allocate" /\ last'.arg = size /\ last'.ret = blocks[i].address /\ ~last'.error
    BY <2>1, Zenon DEF Returns
  <2>5. InUse' = IF size > 0 THEN InUse \cup {<<blocks[i].address, size>>} ELSE InUse
    BY <2>1, <2>2, <2>3, <1>1, <1>2, UsedSplit, Zenon
  <2>6. \A r \in InUse : Pool!Apart(r, <<blocks[i].address, size>>)
    BY <2>2, <2>3, <1>1, <1>2, FreshApart, Zenon
  <2>7. CASE size > 0
    BY <2>4, <2>5, <2>6, <2>7, Zenon DEF Pool!PoolNext, Pool!PoolAllocate
  <2>8. CASE size = 0
    BY <2>4, <2>5, <2>8 DEF Pool!PoolNext, Pool!PoolAllocateNothing
  <2> QED BY <2>3, <2>7, <2>8
<1>6. ASSUME NEW addr \in 0 .. MaxPos, FreeNull(addr) \/ FreeUnknown(addr) PROVE Pool!PoolFree
  BY <1>6 DEF FreeNull, FreeUnknown, Returns, Throws, Pool!PoolFree, InUse
<1>7. ASSUME NEW addr \in 0 .. MaxPos, FreeBlock(addr) PROVE Pool!PoolFree
  <2>1. PICK i \in DOMAIN blocks :
          /\ FindsBlock(i, addr)
          /\ blocks' = MergeBlock(MergeBlock(SetFree(blocks, i), i), i - 1)
    BY <1>7, Zenon DEF FreeBlock
  <2> DEFINE f == SetFree(blocks, i)
             m == MergeBlock(f, i)
  <2>2. i \in 1 .. Len(blocks) /\ i \in Int /\ i - 1 \in Int
    BY <1>1
  <2>3. Laid(f, pos)
    BY <2>2, <1>1, SetFreeLaid, Zenon
  <2> HIDE DEF f
  <2>4. Laid(m, pos) /\ Used(m) = Used(f)
    BY <2>2, <2>3, MergeLaid, UsedMerge, Zenon
  <2> HIDE DEF m
  <2>5. Used(MergeBlock(m, i - 1)) = Used(m)
    BY <2>2, <2>4, UsedMerge, Zenon
  <2>6. InUse' = Used(f)
    BY <2>1, <2>4, <2>5, <1>2, Zenon DEF m, f
  <2>7. \/ Used(f) = InUse
        \/ \E r \in InUse : r[1] = blocks[i].address /\ Used(f) = InUse \ {r}
    BY <2>2, <1>1, <1>2, UsedSetFree, Zenon DEF f
  <2>8. blocks[i].address = addr
    BY <2>1, Zenon DEF FindsBlock
  <2>9. last'.call = "free" /\ last'.arg = addr /\ ~last'.error
    BY <1>7, Zenon DEF FreeBlock, Returns
  <2> QED BY <2>6, <2>7, <2>8, <2>9, Zenon DEF Pool!PoolFree
<1> QED BY <1>3, <1>4, <1>5, <1>6, <1>7, Zenon DEF HeapCall, allocate, free, Pool!PoolNext

(* So is every step of the heap, or one that the pool does not see. *)
LEMMA PoolStep == IInv /\ [HeapCall]_vars => [Pool!PoolNext]_(Pool!poolVars)
<1>1. UNCHANGED vars => UNCHANGED Pool!poolVars
  BY Zenon DEF vars, Pool!poolVars, InUse
<1> QED BY <1>1, PoolCall, Zenon

(* The block list implements the pool: memory that allocate hands out is held by
   nobody else, and free gives back only what starts at its argument. *)
THEOREM HeapImplementsPool == Spec => ImplementsPool
<1>1. Init => Pool!PoolInit
  <2> SUFFICES ASSUME Init PROVE Pool!PoolInit
    BY Zenon
  <2>1. DOMAIN blocks = {}
    BY DEF Init
  <2> QED BY <2>1, Zenon DEF Init, Pool!PoolInit, InUse
<1> QED BY <1>1, PoolStep, NextCalls, HeapInvariant, PTL DEF Spec, ImplementsPool, Pool!PoolSpec

(* free(addr) leaves nothing in use at addr when one block only starts there:
   setFree(true) takes it out of use, and merging puts nothing back. *)
LEMMA FreeTakes ==
  ASSUME IInv, NEW addr \in 0 .. MaxPos, FreeBlock(addr), OneBlockAt(addr),
         NEW r \in InUse', r[1] = addr
  PROVE  FALSE
<1>1. Laid(blocks, pos) /\ blocks \in Seq(Block) /\ DOMAIN blocks = 1 .. Len(blocks)
  BY InvLaid DEF Laid
<1>2. PICK i \in DOMAIN blocks :
        /\ FindsBlock(i, addr)
        /\ blocks' = MergeBlock(MergeBlock(SetFree(blocks, i), i), i - 1)
  BY Zenon DEF FreeBlock
<1> DEFINE f == SetFree(blocks, i)
           m == MergeBlock(f, i)
<1>3. i \in 1 .. Len(blocks) /\ i \in Int /\ i - 1 \in Int
  BY <1>1
<1>4. /\ Laid(f, pos) /\ Len(f) = Len(blocks)
      /\ f[i] = [blocks[i] EXCEPT !.free = TRUE]
      /\ \A j \in 1 .. Len(blocks) : j # i => f[j] = blocks[j]
  BY <1>1, <1>3, SetFreeLaid, Zenon
<1>5. f[i].free
  BY <1>1, <1>3, <1>4 DEF Block
<1> HIDE DEF f
<1>6. Laid(m, pos) /\ Used(m) = Used(f)
  BY <1>3, <1>4, MergeLaid, UsedMerge, Zenon
<1> HIDE DEF m
<1>7. Used(MergeBlock(m, i - 1)) = Used(m)
  BY <1>3, <1>6, UsedMerge, Zenon
<1>8. InUse' = Used(f)
  <2>1. InUse' = Used(blocks')
    BY Zenon DEF InUse, Used
  <2> QED BY <2>1, <1>2, <1>6, <1>7, Zenon DEF m, f
<1>9. PICK k \in Nat : UsedAt(f, k) /\ r = <<f[k].address, f[k].size>>
  <2>1. f \in Seq(Block)
    BY <1>4, Zenon DEF Laid
  <2> QED BY <2>1, <1>8, UsedMember, Zenon
<1>10. k \in DOMAIN blocks /\ k # i /\ blocks[k].address = addr
  BY <1>1, <1>4, <1>5, <1>9, Zenon DEF UsedAt
<1> QED BY <1>2, <1>10, Zenon DEF OneBlockAt, FindsBlock

(* A block that has its address to itself is released by free. *)
THEOREM HeapFreeReleases == Spec => FreeReleases
<1>1. IInv => [\A addr \in 0 .. MaxPos :
                 FreeBlock(addr) /\ OneBlockAt(addr) => \A r \in InUse' : r[1] # addr]_vars
  BY FreeTakes, Zenon
<1> QED BY <1>1, HeapInvariant, PTL DEF Spec, FreeReleases

-----------------------------------------------------------------------------
(* The buffers lent to native code *)

(* The JNI functions and the host change the heap by its calls only. *)
LEMMA BuffersCall == [BuffersNext]_bufferVars => [HeapCall]_vars
<1> SUFFICES ASSUME [BuffersNext]_bufferVars PROVE [HeapCall]_vars
  BY Zenon
<1>1. ASSUME NEW size \in Sizes, HostAllocate(size) PROVE HeapCall
  BY <1>1, HeapAssumption, Zenon DEF HostAllocate, HeapCall
<1>2. ASSUME NEW addr \in 0 .. MaxPos, HostFree(addr) PROVE HeapCall
  BY <1>2, Zenon DEF HostFree, HeapCall
<1>3. ASSUME NEW len \in Lengths, GetStringChars(len) PROVE HeapCall
  <2>1. len + 1 \in Int /\ allocate(len + 1)
    BY <1>3, BuffersAssumption DEF GetStringChars
  <2> QED BY <2>1, Zenon DEF HeapCall
<1>4. ASSUME NEW len \in Lengths, GetBooleanArrayElements(len) PROVE HeapCall
  <2>1. len \in Int /\ allocate(len)
    BY <1>4, BuffersAssumption DEF GetBooleanArrayElements
  <2> QED BY <2>1, Zenon DEF HeapCall
<1>5. ASSUME NEW addr \in 0 .. MaxPos, ReleaseStringChars(addr) PROVE HeapCall \/ UNCHANGED vars
  BY <1>5, Zenon DEF ReleaseStringChars, HeapCall, bufferVars, vars
<1> QED BY <1>1, <1>2, <1>3, <1>4, <1>5, Zenon DEF BuffersNext, bufferVars, vars

(* What a call of allocate means for the memory in use: it takes nothing away,
   and what it adds is apart from all of it. *)
LEMMA AllocateKeeps ==
  ASSUME IInv, NEW size \in Int, allocate(size)
  PROVE  /\ InUse \subseteq InUse' /\ last'.ret \in Nat
         /\ size > 0 => /\ <<last'.ret, size>> \in InUse'
                        /\ \A r \in InUse : Pool!Apart(r, <<last'.ret, size>>)
<1>1. Pool!PoolNext
  BY PoolCall, Zenon DEF HeapCall
<1>2. last'.call = "allocate" /\ last'.arg = size
  BY DEF allocate, AllocateNegative, AllocateNew, AllocateSplit, Returns
<1>3. last' \in Calls /\ IInv'
  BY StepInv, Zenon DEF HeapCall, IInv, TypeOK
<1>4. last'.ret \in Nat
  BY <1>3, Zenon DEF Calls
<1> QED BY <1>1, <1>2, <1>4 DEF Pool!PoolNext, Pool!PoolAllocate, Pool!PoolAllocateNothing,
                                Pool!PoolFree

(* free takes from the memory in use at most what starts at its argument. *)
LEMMA FreeKeeps ==
  ASSUME IInv, NEW addr \in 0 .. MaxPos, free(addr), NEW r \in InUse, r[1] # addr
  PROVE  r \in InUse'
<1>1. Pool!PoolNext
  BY PoolCall, Zenon DEF HeapCall
<1>2. last'.call = "free" /\ last'.arg = addr
  BY DEF free, FreeNull, FreeUnknown, FreeBlock, Returns, Throws
<1> QED BY <1>1, <1>2, Zenon DEF Pool!PoolNext, Pool!PoolAllocate, Pool!PoolAllocateNothing, Pool!PoolFree

(* CharsOwned is inductive together with the heap's invariant: a new buffer is
   apart from all memory in use, which the other buffers are part of, and only a
   call of free with the address of a buffer takes it out of use. *)
BuffersIInv == IInv /\ BuffersInv

(* Every JNI function and every call of the host keeps the buffers. *)
LEMMA BuffersStep == BuffersIInv /\ [BuffersNext]_bufferVars => BuffersIInv'
<1> SUFFICES ASSUME BuffersIInv, [BuffersNext]_bufferVars PROVE BuffersIInv'
  BY Zenon
<1>1. IInv /\ IInv' /\ TypeOK'
  BY BuffersCall, StepInv, Zenon DEF BuffersIInv, IInv
<1>2. chars \subseteq Nat \X Nat /\ CharsOwned
  BY Zenon DEF BuffersIInv, BuffersInv, BuffersTypeOK
<1> SUFFICES chars' \subseteq Nat \X Nat /\ CharsOwned'
  BY <1>1, Zenon DEF BuffersIInv, BuffersInv, BuffersTypeOK
<1>3. ASSUME chars' \subseteq chars, \A b \in chars' : b \in InUse'
      PROVE  chars' \subseteq Nat \X Nat /\ CharsOwned'
  BY <1>2, <1>3, Zenon DEF CharsOwned
<1>4. ASSUME NEW size \in Int, allocate(size), UNCHANGED chars
      PROVE  chars' \subseteq Nat \X Nat /\ CharsOwned'
  BY <1>1, <1>2, <1>3, <1>4, AllocateKeeps, Zenon DEF CharsOwned
<1>5. ASSUME NEW len \in Lengths, GetStringChars(len)
      PROVE  chars' \subseteq Nat \X Nat /\ CharsOwned'
  <2> DEFINE new == <<last'.ret, len + 1>>
  <2>1. len \in Nat /\ len + 1 \in Int /\ len + 1 > 0 /\ allocate(len + 1)
    BY <1>5, BuffersAssumption DEF GetStringChars
  <2>2. /\ InUse \subseteq InUse' /\ last'.ret \in Nat
        /\ new \in InUse'
        /\ \A r \in InUse : Pool!Apart(r, new)
    BY <2>1, <1>1, AllocateKeeps, Zenon
  <2>3. new \in Nat \X Nat
    BY <2>1, <2>2
  <2>4. chars' \subseteq chars \cup {new}
    BY <1>5, Zenon DEF GetStringChars
  <2> HIDE DEF new
  <2> QED BY <2>2, <2>3, <2>4, <1>2, Zenon DEF CharsOwned, Pool!Apart
<1>6. ASSUME NEW addr \in 0 .. MaxPos, free(addr), chars' \subseteq chars,
             \A b \in chars' : b[1] # addr
      PROVE  chars' \subseteq Nat \X Nat /\ CharsOwned'
  BY <1>1, <1>2, <1>3, <1>6, FreeKeeps, Zenon DEF CharsOwned
<1>7. CASE UNCHANGED bufferVars
  BY <1>2, <1>7, Zenon DEF bufferVars, CharsOwned, InUse
<1>8. ASSUME NEW addr \in 0 .. MaxPos, ReleaseStringChars(addr)
      PROVE  chars' \subseteq Nat \X Nat /\ CharsOwned'
  BY <1>6, <1>7, <1>8, Zenon DEF ReleaseStringChars
<1>9. ASSUME NEW addr \in 0 .. MaxPos, HostFree(addr)
      PROVE  chars' \subseteq Nat \X Nat /\ CharsOwned'
  BY <1>6, <1>9, Zenon DEF HostFree
<1>10. ASSUME NEW size \in Sizes, HostAllocate(size)
       PROVE  chars' \subseteq Nat \X Nat /\ CharsOwned'
  BY <1>4, <1>10, HeapAssumption, Zenon DEF HostAllocate
<1>11. ASSUME NEW len \in Lengths, GetBooleanArrayElements(len)
       PROVE  chars' \subseteq Nat \X Nat /\ CharsOwned'
  BY <1>4, <1>11, BuffersAssumption DEF GetBooleanArrayElements
<1> QED BY <1>5, <1>7, <1>8, <1>9, <1>10, <1>11, Zenon DEF BuffersNext

(* The heap and the buffers together keep their invariants. *)
THEOREM BuffersInvariant == BuffersSpec => []BuffersIInv
<1>1. BuffersInit => BuffersIInv
  <2> SUFFICES ASSUME BuffersInit PROVE BuffersIInv
    BY Zenon
  <2>1. IInv /\ TypeOK
    BY InitInv, Zenon DEF BuffersInit, IInv
  <2> QED BY <2>1, Zenon DEF BuffersInit, BuffersIInv, BuffersInv, BuffersTypeOK, CharsOwned
<1> QED BY <1>1, BuffersStep, PTL DEF BuffersSpec

(* A string buffer stays with the native code that got it from GetStringChars
   until it is released, whatever is allocated, freed and released meanwhile. *)
THEOREM BuffersOwned == BuffersSpec => []BuffersInv
  BY BuffersInvariant, PTL DEF BuffersIInv

(* Under the JNI functions the list of blocks still tiles the heap, and free
   neighbours are merged. *)
THEOREM BuffersTiled == BuffersSpec => [](Tiled /\ Coalesced)
  BY BuffersInvariant, PTL DEF BuffersIInv, IInv

(* Under the JNI functions free releases a block that has its address to
   itself. *)
THEOREM BuffersFreeReleases == BuffersSpec => FreeReleases
<1>1. BuffersIInv => [\A addr \in 0 .. MaxPos :
                        FreeBlock(addr) /\ OneBlockAt(addr) => \A r \in InUse' : r[1] # addr]_vars
  BY FreeTakes, Zenon DEF BuffersIInv
<1> QED BY <1>1, BuffersInvariant, PTL DEF BuffersSpec, FreeReleases

(* The heap that the JNI functions use implements the pool of regions. *)
THEOREM BuffersImplementPool == BuffersSpec => ImplementsPool
<1>1. BuffersInit => Pool!PoolInit
  <2> SUFFICES ASSUME BuffersInit PROVE Pool!PoolInit
    BY Zenon
  <2>1. DOMAIN blocks = {}
    BY DEF BuffersInit, Init
  <2> QED BY <2>1, Zenon DEF BuffersInit, Init, Pool!PoolInit, InUse
<1>2. BuffersIInv => IInv
  BY Zenon DEF BuffersIInv
<1> QED BY <1>1, <1>2, BuffersCall, PoolStep, BuffersInvariant, PTL
        DEF BuffersSpec, ImplementsPool, Pool!PoolSpec
=============================================================================
