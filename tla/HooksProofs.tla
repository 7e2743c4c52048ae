---------------------------- MODULE HooksProofs ----------------------------
(***************************************************************************)
(* Proofs about UcHooks, for any hooks, any number of nested levels, any   *)
(* length of the guest's block and all counts.                             *)
(*                                                                         *)
(* The lemmas about the lists come first: what adding, deleting and        *)
(* sweeping hooks does to who is in a list, to the reference counts and to *)
(* the order.  Translated code and nested levels only ever refer to hooks  *)
(* that are in a list, and lists shrink only when nobody is left to walk   *)
(* them.                                                                   *)
(***************************************************************************)
EXTENDS UcHooks, FiniteSetTheorems, TLAPS

-----------------------------------------------------------------------------
(* Numbers and sets *)

(* Every set of numbers that is not empty has a least element. *)
LEMMA LeastNumber ==
  ASSUME NEW T, T \subseteq Nat, T # {}
  PROVE  \E m \in T : \A n \in T : m <= n
<1> DEFINE R == {ss \in Nat \X Nat : ss[1] < ss[2]}
<1>1. IsWellFoundedOn(R, Nat)
  BY NatLessThanWellFounded DEF OpToRel
<1> HIDE DEF R
<1>2. PICK m \in T : \A n \in T : ~(<<n, m>> \in R)
  BY <1>1, WFMin, Zenon
<1>3. SUFFICES ASSUME NEW n \in T PROVE m <= n
  OBVIOUS
<1>4. n < m => <<n, m>> \in R
  BY DEF R
<1> QED
  BY <1>2, <1>4

(* A set of numbers, in increasing order. *)
Increasing(f, n) == \A i, j \in 1 .. n : i < j => f[i] < f[j]

(* The numbers of a finite set can be enumerated in increasing order. *)
LEMMA Enumerated ==
  ASSUME NEW N \in Nat, NEW K \in SUBSET (1 .. N)
  PROVE  /\ IsFiniteSet(K) /\ Cardinality(K) \in Nat
         /\ \E f \in [1 .. Cardinality(K) -> K] : Increasing(f, Cardinality(K))
<1> DEFINE Has(S) == \E f \in [1 .. Cardinality(S) -> S] : Increasing(f, Cardinality(S))
           Bad == {n \in Nat : \E S \in SUBSET (1 .. n) : ~Has(S)}
<1>1. ASSUME NEW n \in Nat, NEW S \in SUBSET (1 .. n)
      PROVE  IsFiniteSet(S) /\ Cardinality(S) \in Nat
  <2>1. IsFiniteSet(1 .. n)
    BY FS_Interval
  <2>2. IsFiniteSet(S)
    BY <2>1, FS_Subset, Zenon
  <2> QED BY <2>2, FS_CardinalityType, Zenon
<1>2. Bad = {}
  <2> SUFFICES ASSUME Bad # {} PROVE FALSE
    BY Zenon
  <2> HIDE DEF Has
  <2>1. PICK n \in Bad : \A m \in Bad : n <= m
    <3>1. Bad \subseteq Nat
      OBVIOUS
    <3> HIDE DEF Bad
    <3> QED BY <3>1, LeastNumber, Zenon
  <2>2. n \in Nat /\ \A m \in Bad : n <= m
    BY <2>1
  <2>3. PICK S \in SUBSET (1 .. n) : ~Has(S)
    BY <2>1
  <2>4. CASE n = 0
    <3>1. S = {}
      BY <2>4
    <3>2. Cardinality(S) = 0
      BY <3>1, FS_EmptySet, Zenon
    <3>3. [i \in 1 .. 0 |-> i] \in [1 .. 0 -> S]
      OBVIOUS
    <3>4. Increasing([i \in 1 .. 0 |-> i], 0)
      BY DEF Increasing
    <3> QED BY <3>2, <3>3, <3>4, <2>3, Zenon DEF Has
  <2>5. CASE n > 0
    <3>1. n - 1 \in Nat /\ n - 1 \notin Bad
      <4> HIDE DEF Bad
      <4> QED BY <2>2, <2>5
    <3>2. \A X \in SUBSET (1 .. n - 1) : Has(X)
      BY <3>1
    <3> HIDE DEF Bad
    <3>3. n \in S
      <4>1. n \notin S => S \in SUBSET (1 .. n - 1)
        BY <2>2
      <4> QED BY <4>1, <3>2, <2>3, Zenon
    <3> DEFINE X == S \ {n}
               c == Cardinality(X)
    <3>4. X \in SUBSET (1 .. n - 1)
      BY <2>2
    <3>5. IsFiniteSet(S) /\ IsFiniteSet(X) /\ c \in Nat /\ Cardinality(S) \in Nat
      BY <1>1, <2>2, <3>1, <3>4, Zenon
    <3>6. Cardinality(S) = c + 1
      <4>1. Cardinality(S \ {n}) = IF n \in S THEN Cardinality(S) - 1 ELSE Cardinality(S)
        BY <3>5, FS_RemoveElement, Zenon
      <4> QED BY <4>1, <3>3, <3>5
    <3>7. PICK f \in [1 .. c -> X] : Increasing(f, c)
      BY <3>2, <3>4, Zenon DEF Has
    <3> DEFINE g == [i \in 1 .. c + 1 |-> IF i = c + 1 THEN n ELSE f[i]]
    <3> HIDE DEF c
    <3>8. \A i \in 1 .. c : f[i] \in S /\ f[i] < n
      <4> SUFFICES ASSUME NEW i \in 1 .. c PROVE f[i] \in S /\ f[i] < n
        OBVIOUS
      <4>1. f[i] \in X
        BY <3>7, Zenon
      <4>2. f[i] \in S /\ f[i] \in 1 .. n - 1
        BY <4>1, <3>4
      <4> QED BY <4>2, <2>2
    <3>9. g \in [1 .. c + 1 -> S]
      BY <3>3, <3>5, <3>8
    <3>10. Increasing(g, c + 1)
      <4> SUFFICES ASSUME NEW i \in 1 .. c + 1, NEW j \in 1 .. c + 1, i < j PROVE g[i] < g[j]
        BY Zenon DEF Increasing
      <4>1. i \in 1 .. c /\ i # c + 1
        BY <3>5
      <4>2. CASE j = c + 1
        BY <4>1, <4>2, <3>8
      <4>3. CASE j # c + 1
        <5>1. j \in 1 .. c
          BY <4>3, <3>5
        <5>2. f[i] < f[j]
          BY <4>1, <5>1, <3>7, Zenon DEF Increasing
        <5> QED BY <4>1, <4>3, <5>2
      <4> QED BY <4>2, <4>3
    <3> HIDE DEF g
    <3>11. g \in [1 .. Cardinality(S) -> S] /\ Increasing(g, Cardinality(S))
      BY <3>6, <3>9, <3>10
    <3> QED BY <3>11, <2>3, Zenon DEF Has
  <2> QED BY <2>2, <2>4, <2>5
<1>3. Has(K)
  BY <1>2, Zenon
<1> QED BY <1>1, <1>3, Zenon


(* An enumeration in increasing order reaches every number of the set. *)
LEMMA IncreasingOnto ==
  ASSUME NEW N \in Nat, NEW K \in SUBSET (1 .. N),
         NEW f \in [1 .. Cardinality(K) -> K], Increasing(f, Cardinality(K))
  PROVE  \A k \in K : \E i \in 1 .. Cardinality(K) : f[i] = k
<1> DEFINE c == Cardinality(K)
<1>0. \A k \in K : k \in Nat
  OBVIOUS
<1>1. IsFiniteSet(K) /\ c \in Nat
  BY Enumerated, Zenon
<1>2. IsFiniteSet(1 .. c) /\ Cardinality(1 .. c) = c
  <2>1. /\ IsFiniteSet(1 .. c)
        /\ Cardinality(1 .. c) = IF 1 > c THEN 0 ELSE c - 1 + 1
    <3> HIDE DEF c
    <3> QED BY <1>1, FS_Interval
  <2> HIDE DEF c
  <2> QED BY <1>1, <2>1
<1>3. f \in Injection(1 .. c, K)
  <2>1. ASSUME NEW i \in 1 .. c, NEW j \in 1 .. c, f[i] = f[j] PROVE i = j
    <3>1. f[i] \in Nat /\ f[j] \in Nat
      <4>1. f[i] \in K /\ f[j] \in K
        BY Zenon
      <4> QED BY <4>1, <1>0, Zenon
    <3>2. ~(i < j) /\ ~(j < i)
      BY <2>1, <3>1 DEF Increasing
    <3> HIDE DEF c
    <3> QED BY <1>1, <3>2
  <2> QED BY <2>1 DEF Injection, IsInjective
<1>4. f \in Surjection(1 .. c, K)
  BY <1>1, <1>2, <1>3, FS_Injection
<1> QED BY <1>4 DEF Surjection

(* One element more, one element less. *)
LEMMA OneMore ==
  ASSUME NEW S, IsFiniteSet(S), NEW x, x \notin S
  PROVE  /\ IsFiniteSet(S \cup {x}) /\ Cardinality(S) \in Nat
         /\ Cardinality(S \cup {x}) = Cardinality(S) + 1
  BY FS_AddElement, FS_CardinalityType

(* A finite set without one of its elements. *)
LEMMA OneLess ==
  ASSUME NEW S, IsFiniteSet(S), NEW x \in S
  PROVE  /\ IsFiniteSet(S \ {x}) /\ Cardinality(S) \in Nat
         /\ Cardinality(S \ {x}) = Cardinality(S) - 1
  BY FS_RemoveElement, FS_CardinalityType

(* How many of two elements are in a set. *)
LEMMA OfTwo ==
  ASSUME NEW a, NEW b, a # b, NEW S \in SUBSET {a, b}
  PROVE  Cardinality(S) = (IF a \in S THEN 1 ELSE 0) + (IF b \in S THEN 1 ELSE 0)
<1>1. IsFiniteSet({}) /\ Cardinality({}) = 0
  BY FS_EmptySet, Zenon
<1>2. IsFiniteSet({a}) /\ Cardinality({a}) = 1 /\ IsFiniteSet({b}) /\ Cardinality({b}) = 1
  BY FS_Singleton, Zenon
<1>3. Cardinality({a} \cup {b}) = 2
  <2>1. b \notin {a}
    OBVIOUS
  <2>2. Cardinality({a} \cup {b}) = Cardinality({a}) + 1
    BY <1>2, <2>1, OneMore
  <2> QED BY <2>2, <1>2
<1>4. CASE a \in S /\ b \in S
  <2>1. S = {a} \cup {b}
    BY <1>4
  <2> QED BY <2>1, <1>3, <1>4
<1>5. CASE a \in S /\ b \notin S
  <2>1. S = {a}
    BY <1>5
  <2> QED BY <2>1, <1>2, <1>5
<1>6. CASE a \notin S /\ b \in S
  <2>1. S = {b}
    BY <1>6
  <2> QED BY <2>1, <1>2, <1>6
<1>7. CASE a \notin S /\ b \notin S
  <2>1. S = {}
    BY <1>7
  <2> QED BY <2>1, <1>1, <1>7
<1> QED BY <1>4, <1>5, <1>6, <1>7

-----------------------------------------------------------------------------
(* The invariant *)

(* A hook is in a list at most once. *)
Once(list) == \A i, j \in DOMAIN list : list[i] = list[j] => i = j

(* The hook is in the list and has not been deleted. *)
Called(e, h) == list_exists(hook[e], h) /\ ~hk[h].to_delete

(* What hooks_to_del and the reference counts say about a hook: a deleted one
   is queued once for each list it is in, and every item counts. *)
Counted(h) ==
  /\ Items(hooks_to_del, h) = IF hk[h].to_delete THEN Cardinality(In(Lists, h)) ELSE 0
  /\ hk[h].refs = Cardinality(In(Lists, h)) + Items(hooks_to_del, h)

Hook == [refs : Int, to_delete : BOOLEAN, regions : BOOLEAN, counts : BOOLEAN]

Calls == [via : {"uncached", "none", "helper", "inline"}, to : Handles \cup {Nil}]

Frame == [code : [Idx -> Calls], at : 0 .. Insns,
          step : {"enter", "hooks", "in", "exec"}, cur : Handles \cup {Nil}]

(* The lists, their counts and the reference counts agree. *)
ListsOK ==
  /\ hook \in [Idx -> Seq(Handles)]
  /\ hooks_count \in [Idx -> Int]
  /\ hooks_to_del \in Seq(Handles)
  /\ hk \in [Handles -> Hook]
  /\ \A e \in Idx : Once(hook[e])
  /\ CountsAgree
  /\ \A h \in Handles : Counted(h)

(* A block in the cache only calls directly what would take it out of the
   cache when it is deleted. *)
CacheOK ==
  /\ tb \in [Idx -> Calls]
  /\ \A e \in Idx : tb[e].via = "inline" =>
       tb[e].to \in Handles /\ Called(e, tb[e].to) /\ hk[tb[e].to].regions

(* What the frame f calls, now or later, is in its list in l. *)
FrameOK(f, l) ==
  /\ f \in Frame
  /\ \A e \in Idx : f.code[e].via = "inline" =>
       f.code[e].to \in Handles /\ list_exists(l[e], f.code[e].to)
  /\ f.step = "in" => f.cur \in Handles /\ list_exists(l[Event(f)], f.cur)

LevelsOK ==
  /\ frames \in Seq(Frame) /\ Len(frames) <= UC_MAX_NESTED_LEVEL
  /\ \A i \in DOMAIN frames : FrameOK(frames[i], hook)

(* Whatever is in front of the count hook has been deleted. *)
CountFirst ==
  /\ count_hook \in Handles \cup {Nil}
  /\ count_hook # Nil =>
       /\ hk[count_hook].counts /\ ~hk[count_hook].to_delete
       /\ \E i \in DOMAIN hook["CODE"] :
            /\ hook["CODE"][i] = count_hook
            /\ \A j \in 1 .. i - 1 : hk[hook["CODE"][j]].to_delete

FlagsOK ==
  /\ emu_counter \in Nat /\ emu_count \in Nat
  /\ stop_request \in BOOLEAN /\ exit_flag \in BOOLEAN

(* The inductive invariant. *)
HooksIInv == ListsOK /\ CacheOK /\ LevelsOK /\ CountFirst /\ FlagsOK

-----------------------------------------------------------------------------
(* Lists *)

(* A function on the first numbers is a sequence. *)
LEMMA FunctionIsSeq ==
  ASSUME NEW S, NEW n \in Nat, NEW f, f \in [1 .. n -> S]
  PROVE  f \in Seq(S) /\ Len(f) = n
  OBVIOUS

(* The items of a list. *)
LEMMA ListFacts ==
  ASSUME NEW S, NEW list \in Seq(S)
  PROVE  /\ Len(list) \in Nat /\ DOMAIN list = 1 .. Len(list)
         /\ \A i \in 1 .. Len(list) : list[i] \in S
  OBVIOUS

(* f says where the items of w are in list, which has the items of S as well. *)
Picks(f, w, list, S) ==
  /\ \A n \in 1 .. Len(w) :
       f[n] \in 1 .. Len(list) /\ w[n] = list[f[n]] /\ list[f[n]] \notin S
  /\ \A m, n \in 1 .. Len(w) : m < n => f[m] < f[n]
  /\ \A i \in 1 .. Len(list) : list[i] \notin S => \E n \in 1 .. Len(w) : f[n] = i

(* The list that is left when the items of S are taken out: the others, in
   their order. *)
LEMMA WithoutIs ==
  ASSUME NEW H, NEW list \in Seq(H), NEW S, NEW w, w = Without(list, S)
  PROVE  /\ w \in Seq(H)
         /\ \E f : Picks(f, w, list, S)
<1> DEFINE kept == {i \in DOMAIN list : list[i] \notin S}
           c == Cardinality(kept)
           order == CHOOSE f \in [1 .. c -> kept] : \A m, n \in 1 .. c : m < n => f[m] < f[n]
<1>1. Len(list) \in Nat /\ DOMAIN list = 1 .. Len(list) /\ \A i \in 1 .. Len(list) : list[i] \in H
  BY ListFacts, Zenon
<1>2. w = [n \in 1 .. c |-> list[order[n]]]
  BY DEF Without
<1>3. kept \in SUBSET (1 .. Len(list))
  BY <1>1
<1>4. \A i \in kept : i \in 1 .. Len(list) /\ list[i] \notin S
  BY <1>1, Zenon
<1>5. \A i \in 1 .. Len(list) : list[i] \notin S => i \in kept
  BY <1>1, Zenon
<1> HIDE DEF kept
<1>6. c \in Nat /\ \E f \in [1 .. c -> kept] : Increasing(f, c)
  BY <1>1, <1>3, Enumerated, Zenon
<1>7. order \in [1 .. c -> kept] /\ \A m, n \in 1 .. c : m < n => order[m] < order[n]
  BY <1>6, Zenon DEF Increasing
<1> HIDE DEF order
<1>8. \A k \in kept : \E i \in 1 .. c : order[i] = k
  <2>1. Increasing(order, c)
    BY <1>7, Zenon DEF Increasing
  <2> QED BY <1>1, <1>3, <1>7, <2>1, IncreasingOnto, Zenon
<1> HIDE DEF c
<1>9. \A n \in 1 .. c : order[n] \in kept
  BY <1>7, Zenon
<1>10. w \in [1 .. c -> H]
  BY <1>1, <1>2, <1>4, <1>9, Zenon
<1>11. w \in Seq(H) /\ Len(w) = c
  BY <1>6, <1>10, FunctionIsSeq, Zenon
<1>12. \A n \in 1 .. c : w[n] = list[order[n]]
  BY <1>2, Zenon
<1>13. \A n \in 1 .. Len(w) : /\ order[n] \in 1 .. Len(list) /\ w[n] = list[order[n]]
                              /\ list[order[n]] \notin S
  BY <1>4, <1>9, <1>11, <1>12, Zenon
<1>14. \A m, n \in 1 .. Len(w) : m < n => order[m] < order[n]
  BY <1>7, <1>11, Zenon
<1>15. \A i \in 1 .. Len(list) : list[i] \notin S => \E n \in 1 .. Len(w) : order[n] = i
  BY <1>5, <1>8, <1>11, Zenon
<1>16. Picks(order, w, list, S)
  BY <1>13, <1>14, <1>15, Zenon DEF Picks
<1> QED BY <1>11, <1>16, Zenon

(* Who is in that list, and what comes first in it. *)
LEMMA WithoutKeeps ==
  ASSUME NEW H, NEW list \in Seq(H), Once(list), NEW S, NEW w, w = Without(list, S)
  PROVE  /\ w \in Seq(H) /\ Once(w)
         /\ \A h : list_exists(w, h) <=> list_exists(list, h) /\ h \notin S
         /\ \A i \in 1 .. Len(list) :
              list[i] \notin S /\ (\A j \in 1 .. i - 1 : list[j] \in S)
                => 1 \in DOMAIN w /\ w[1] = list[i]
<1>1. w \in Seq(H)
  BY WithoutIs, Zenon
<1>0. PICK f : Picks(f, w, list, S)
  BY WithoutIs, Zenon
<1>2. /\ \A n \in 1 .. Len(w) :
           f[n] \in 1 .. Len(list) /\ w[n] = list[f[n]] /\ list[f[n]] \notin S
      /\ \A m, n \in 1 .. Len(w) : m < n => f[m] < f[n]
      /\ \A i \in 1 .. Len(list) : list[i] \notin S => \E n \in 1 .. Len(w) : f[n] = i
  BY <1>0, Zenon DEF Picks
<1>3. /\ Len(list) \in Nat /\ DOMAIN list = 1 .. Len(list)
      /\ Len(w) \in Nat /\ DOMAIN w = 1 .. Len(w)
  BY <1>1, ListFacts, Zenon
<1>4. Once(w)
  <2> SUFFICES ASSUME NEW m \in 1 .. Len(w), NEW n \in 1 .. Len(w), w[m] = w[n] PROVE m = n
    BY <1>3, Zenon DEF Once
  <2>1. f[m] = f[n] /\ f[m] \in 1 .. Len(list)
    <3>1. /\ f[m] \in DOMAIN list /\ f[n] \in DOMAIN list
          /\ list[f[m]] = list[f[n]] /\ f[m] \in 1 .. Len(list)
      BY <1>2, <1>3
    <3> QED BY <3>1, Zenon DEF Once
  <2>2. ~(m < n) /\ ~(n < m)
    <3>1. ~(f[m] < f[n]) /\ ~(f[n] < f[m])
      BY <2>1, <1>3
    <3> QED BY <3>1, <1>2, Zenon
  <2> QED BY <2>2, <1>3
<1>5. \A h : list_exists(w, h) <=> list_exists(list, h) /\ h \notin S
  <2> TAKE h
  <2>1. ASSUME list_exists(w, h) PROVE list_exists(list, h) /\ h \notin S
    <3>1. PICK n \in 1 .. Len(w) : w[n] = h
      BY <2>1, <1>3, Zenon DEF list_exists
    <3>2. f[n] \in 1 .. Len(list) /\ list[f[n]] = h /\ h \notin S
      BY <3>1, <1>2, Zenon
    <3> QED BY <3>2, <1>3, Zenon DEF list_exists
  <2>2. ASSUME list_exists(list, h), h \notin S PROVE list_exists(w, h)
    <3>1. PICK i \in 1 .. Len(list) : list[i] = h
      BY <2>2, <1>3, Zenon DEF list_exists
    <3>2. PICK n \in 1 .. Len(w) : f[n] = i
      BY <3>1, <2>2, <1>2, Zenon
    <3>3. w[n] = h
      BY <3>1, <3>2, <1>2, Zenon
    <3> QED BY <3>3, <1>3, Zenon DEF list_exists
  <2> QED BY <2>1, <2>2, Zenon
<1>6. ASSUME NEW i \in 1 .. Len(list), list[i] \notin S, \A j \in 1 .. i - 1 : list[j] \in S
      PROVE  1 \in DOMAIN w /\ w[1] = list[i]
  <2>1. PICK n \in 1 .. Len(w) : f[n] = i
    BY <1>2, <1>6, Zenon
  <2>2. 1 \in 1 .. Len(w)
    BY <1>3
  <2>3. CASE n = 1
    BY <2>1, <2>2, <2>3, <1>2, <1>3, Zenon
  <2>4. CASE 1 < n
    <3>1. f[1] \in 1 .. Len(list) /\ f[1] < i /\ list[f[1]] \notin S
      BY <2>1, <2>2, <2>4, <1>2, Zenon
    <3>2. f[1] \in 1 .. i - 1
      BY <3>1, <1>3
    <3> QED BY <3>1, <3>2, <1>6, Zenon
  <2> QED BY <2>3, <2>4, <1>3
<1> QED BY <1>1, <1>4, <1>5, <1>6, Zenon

(* A hook that was in no list is added to one. *)
LEMMA Added ==
  ASSUME NEW H, NEW list \in Seq(H), Once(list), NEW h \in H, ~list_exists(list, h),
         NEW new, new = <<h>> \o list \/ new = Append(list, h)
  PROVE  /\ new \in Seq(H) /\ Once(new)
         /\ \A x : list_exists(new, x) <=> list_exists(list, x) \/ x = h
<1> DEFINE n == Len(list)
<1>1. n \in Nat /\ DOMAIN list = 1 .. n /\ \A i \in 1 .. n : list[i] \in H /\ list[i] # h
  BY ListFacts, Zenon DEF list_exists
<1>2. new \in Seq(H) /\ Len(new) = n + 1
  <2>1. CASE new = Append(list, h)
    BY <2>1
  <2>2. CASE new = <<h>> \o list
    BY <2>2
  <2> QED BY <2>1, <2>2, Zenon
<1>3. DOMAIN new = 1 .. n + 1
  BY <1>2
<1>4. CASE new = Append(list, h)
  <2>1. new[n + 1] = h /\ \A i \in 1 .. n : new[i] = list[i]
    BY <1>4
  <2> HIDE DEF n
  <2>2. \A i \in 1 .. n + 1 : i \in 1 .. n \/ i = n + 1
    BY <1>1
  <2>3. \A i \in 1 .. n : i \in 1 .. n + 1
    BY <1>1
  <2>4. n + 1 \in 1 .. n + 1
    BY <1>1
  <2>5. Once(new)
    BY <1>1, <1>3, <2>1, <2>2, Zenon DEF Once
  <2>6. \A x : list_exists(new, x) <=> list_exists(list, x) \/ x = h
    BY <1>1, <1>3, <2>1, <2>2, <2>3, <2>4, Zenon DEF list_exists
  <2> QED BY <1>2, <2>5, <2>6, Zenon
<1>5. CASE new = <<h>> \o list
  <2>1. new[1] = h /\ \A i \in 1 .. n : new[i + 1] = list[i]
    BY <1>5
  <2> HIDE DEF n
  <2>2. \A i \in 1 .. n + 1 : i = 1 \/ \E k \in 1 .. n : i = k + 1
    <3> SUFFICES ASSUME NEW i \in 1 .. n + 1, i # 1 PROVE \E k \in 1 .. n : i = k + 1
      OBVIOUS
    <3>1. i - 1 \in 1 .. n /\ i = (i - 1) + 1
      BY <1>1
    <3> QED BY <3>1, Zenon
  <2>3. \A i \in 1 .. n : i + 1 \in 1 .. n + 1
    BY <1>1
  <2>4. 1 \in 1 .. n + 1
    BY <1>1
  <2>5. Once(new)
    <3> SUFFICES ASSUME NEW i \in 1 .. n + 1, NEW j \in 1 .. n + 1, new[i] = new[j]
                 PROVE  i = j
      BY <1>3, Zenon DEF Once
    <3>1. CASE i = 1
      <4>1. ~\E k \in 1 .. n : j = k + 1
        BY <3>1, <1>1, <2>1, ZenonT(30)
      <4> QED BY <4>1, <3>1, <2>2, Zenon
    <3>2. CASE i # 1
      <4>1. PICK k \in 1 .. n : i = k + 1
        BY <3>2, <2>2, Zenon
      <4>2. new[i] = list[k] /\ new[i] # h
        BY <4>1, <1>1, <2>1, Zenon
      <4>3. PICK m \in 1 .. n : j = m + 1
        BY <4>2, <2>1, <2>2, Zenon
      <4>4. list[m] = list[k]
        BY <4>2, <4>3, <2>1, Zenon
      <4>5. m = k
        BY <4>4, <1>1, Zenon DEF Once
      <4> QED BY <4>1, <4>3, <4>5, Zenon
    <3> QED BY <3>1, <3>2, Zenon
  <2>6. \A x : list_exists(new, x) <=> list_exists(list, x) \/ x = h
    <3> TAKE x
    <3>1. ASSUME list_exists(new, x), x # h PROVE list_exists(list, x)
      <4>1. PICK i \in 1 .. n + 1 : new[i] = x
        BY <3>1, <1>3, Zenon DEF list_exists
      <4>2. PICK k \in 1 .. n : i = k + 1
        BY <4>1, <3>1, <2>1, <2>2, Zenon
      <4>3. list[k] = x
        BY <4>1, <4>2, <2>1, Zenon
      <4> QED BY <4>3, <1>1, Zenon DEF list_exists
    <3>2. ASSUME list_exists(list, x) PROVE list_exists(new, x)
      <4>1. PICK k \in 1 .. n : list[k] = x
        BY <3>2, <1>1, Zenon DEF list_exists
      <4>2. new[k + 1] = x /\ k + 1 \in DOMAIN new
        BY <4>1, <1>3, <2>1, <2>3, Zenon
      <4> QED BY <4>2, Zenon DEF list_exists
    <3>3. list_exists(new, h)
      BY <1>3, <2>1, <2>4, Zenon DEF list_exists
    <3> QED BY <3>1, <3>2, <3>3, Zenon
  <2> QED BY <1>2, <2>5, <2>6, Zenon
<1> QED BY <1>4, <1>5

(* Counting the items whose hooks are in a set. *)
LEMMA CountedItems ==
  ASSUME NEW H, NEW list \in Seq(H), Once(list), NEW S \in SUBSET H
  PROVE  LET items == {i \in DOMAIN list : list[i] \in S}
             hooks == {h \in S : list_exists(list, h)}
         IN  IsFiniteSet(hooks) /\ Cardinality(items) = Cardinality(hooks)
<1> DEFINE P == {i \in DOMAIN list : list[i] \in S}
           T == {h \in S : list_exists(list, h)}
<1>1. Len(list) \in Nat /\ DOMAIN list = 1 .. Len(list)
  BY ListFacts, Zenon
<1>2. P \in SUBSET (1 .. Len(list)) /\ \A i, j \in 1 .. Len(list) : list[i] = list[j] => i = j
  BY <1>1, Zenon DEF Once
<1>3. (\A i \in P : list[i] \in T) /\ (\A t \in T : \E i \in P : list[i] = t)
  BY Zenon DEF list_exists
<1> HIDE DEF P, T
<1>4. IsFiniteSet(P)
  BY <1>1, <1>2, Enumerated, Zenon
<1> DEFINE f == [i \in P |-> list[i]]
<1>5. f \in Bijection(P, T)
  <2>1. f \in [P -> T] /\ DOMAIN f = P
    BY <1>3, Zenon
  <2>2. \A i, j \in P : f[i] = f[j] => i = j
    BY <1>2, Zenon
  <2>3. \A t \in T : \E i \in P : f[i] = t
    BY <1>3, Zenon
  <2> HIDE DEF f
  <2> QED BY <2>1, <2>2, <2>3, Zenon DEF Bijection, Injection, IsInjective, Surjection
<1>6. ExistsBijection(P, T)
  BY <1>5, Zenon DEF ExistsBijection
<1>7. IsFiniteSet(T) /\ Cardinality(T) = Cardinality(P)
  BY <1>4, <1>6, FS_Bijection, Zenon
<1> QED BY <1>7, Zenon DEF P, T

(* A hook queued c times more. *)
LEMMA ItemsRepeat ==
  ASSUME NEW H, NEW q \in Seq(H), NEW h \in H, NEW c \in Nat
  PROVE  LET new == q \o [i \in 1 .. c |-> h]
         IN  /\ new \in Seq(H)
             /\ Items(q, h) \in Nat
             /\ Items(new, h) = Items(q, h) + c
             /\ \A x : x # h => Items(new, x) = Items(q, x)
<1> DEFINE r == [i \in 1 .. c |-> h]
           new == q \o r
           n == Len(q)
           P == {i \in DOMAIN q : q[i] = h}
           R == n + 1 .. n + c
<1>1. n \in Nat /\ DOMAIN q = 1 .. n
  BY ListFacts, Zenon
<1>2. r \in Seq(H) /\ Len(r) = c /\ \A i \in 1 .. c : r[i] = h
  <2>1. r \in [1 .. c -> H]
    BY Zenon
  <2> QED BY <2>1, FunctionIsSeq, Zenon
<1> HIDE DEF r
<1>3. /\ new \in Seq(H) /\ Len(new) = n + c
      /\ \A i \in 1 .. n : new[i] = q[i]
      /\ \A i \in n + 1 .. n + c : new[i] = r[i - n]
  BY <1>2
<1>4. DOMAIN new = 1 .. n + c
  BY <1>3
<1> HIDE DEF new, n
<1>5. \A i \in n + 1 .. n + c : i - n \in 1 .. c
  BY <1>1
<1>6. \A i \in n + 1 .. n + c : new[i] = h
  BY <1>2, <1>3, <1>5, Zenon
<1>7. /\ \A i \in 1 .. n + c : i \in 1 .. n \/ i \in R
      /\ \A i \in 1 .. n : i \in 1 .. n + c /\ i \notin R
      /\ \A i \in R : i \in 1 .. n + c
  BY <1>1
<1>8. ASSUME NEW x, x # h PROVE Items(new, x) = Items(q, x)
  <2>1. {i \in DOMAIN new : new[i] = x} = {i \in DOMAIN q : q[i] = x}
    BY <1>1, <1>3, <1>4, <1>6, <1>7, <1>8, Zenon
  <2> QED BY <2>1, Zenon DEF Items
<1>9. {i \in DOMAIN new : new[i] = h} = P \cup R
  BY <1>1, <1>3, <1>4, <1>6, <1>7, Zenon
<1>10. P \cap R = {}
  BY <1>1, <1>7, Zenon
<1>11. IsFiniteSet(P) /\ Cardinality(P) \in Nat
  <2>1. P \in SUBSET (1 .. n)
    BY <1>1, Zenon
  <2> QED BY <1>1, <2>1, Enumerated, Zenon
<1>12. IsFiniteSet(R) /\ Cardinality(R) = c
  <2>1. n + 1 \in Int /\ n + c \in Int
    BY <1>1
  <2>2. IsFiniteSet(R) /\ Cardinality(R) = IF n + 1 > n + c THEN 0 ELSE (n + c) - (n + 1) + 1
    BY <2>1, FS_Interval
  <2> HIDE DEF R
  <2> QED BY <1>1, <2>2
<1> HIDE DEF P, R
<1>13. Cardinality(P \cup R) = Cardinality(P) + Cardinality(R) - Cardinality(P \cap R)
  BY <1>11, <1>12, FS_Union
<1>14. Cardinality(P \cap R) = 0
  BY <1>10, FS_EmptySet, Zenon
<1>15. Items(new, h) = Items(q, h) + c /\ Items(q, h) \in Nat
  <2>1. Items(new, h) = Cardinality(P \cup R) /\ Items(q, h) = Cardinality(P)
    <3>1. Items(new, h) = Cardinality(P \cup R)
      BY <1>9, Zenon DEF Items
    <3>2. Items(q, h) = Cardinality(P)
      BY Zenon DEF Items, P
    <3> QED BY <3>1, <3>2, Zenon
  <2> QED BY <2>1, <1>11, <1>12, <1>13, <1>14
<1> QED BY <1>3, <1>8, <1>15, Zenon DEF new, r

-----------------------------------------------------------------------------
(* The lists of uc_struct *)

(* The items of a list whose hooks are not deleted, and these hooks. *)
AliveIn(list, objs) == {i \in DOMAIN list : ~objs[list[i]].to_delete}

CalledIn(list, objs) == {h \in Handles : list_exists(list, h) /\ ~objs[h].to_delete}

(* A list has as many of the ones as of the others. *)
LEMMA CalledCount ==
  ASSUME NEW list \in Seq(Handles), Once(list), NEW objs
  PROVE  /\ IsFiniteSet(CalledIn(list, objs))
         /\ Cardinality(AliveIn(list, objs)) = Cardinality(CalledIn(list, objs))
<1> DEFINE S == {h \in Handles : ~objs[h].to_delete}
           items == {i \in DOMAIN list : list[i] \in S}
           hooks == {h \in S : list_exists(list, h)}
<1>1. S \in SUBSET Handles
  BY Zenon
<1>2. \A i \in DOMAIN list : list[i] \in Handles
  BY ListFacts, Zenon
<1>3. items = AliveIn(list, objs) /\ hooks = CalledIn(list, objs)
  BY <1>2, Zenon DEF AliveIn, CalledIn
<1> HIDE DEF S
<1>4. IsFiniteSet(hooks) /\ Cardinality(items) = Cardinality(hooks)
  BY <1>1, CountedItems, Zenon
<1> HIDE DEF items, hooks
<1> QED BY <1>3, <1>4, Zenon

(* Alive, before and after a step. *)
LEMMA AliveIs ==
  \A e : Alive(e) = AliveIn(hook[e], hk) /\ Alive(e)' = AliveIn(hook'[e], hk')
  BY Zenon DEF Alive, AliveIn

(* Numbers are integers. *)
LEMMA NatInt == \A n \in Nat : n \in Int
  OBVIOUS

(* How many of the two lists a set names. *)
LEMMA OfIdx ==
  ASSUME NEW S \in SUBSET Idx
  PROVE  /\ Cardinality(S) \in Nat
         /\ Cardinality(S) = (IF "CODE" \in S THEN 1 ELSE 0)
                               + (IF "BLOCK" \in S THEN 1 ELSE 0)
<1> DEFINE a == "CODE"
           b == "BLOCK"
<1>1. S \in SUBSET {a, b}
  BY Zenon DEF Idx
<1>2. a # b
  OBVIOUS
<1> HIDE DEF a, b
<1>3. Cardinality(S) = (IF a \in S THEN 1 ELSE 0) + (IF b \in S THEN 1 ELSE 0)
  BY <1>1, <1>2, OfTwo, Zenon
<1> QED BY <1>3 DEF a, b

(* In how many of the two lists a hook is. *)
LEMMA InCount ==
  ASSUME NEW l, NEW h
  PROVE  /\ In(l, h) \in SUBSET Idx /\ Cardinality(In(l, h)) \in Nat
         /\ Cardinality(In(l, h))
              = (IF list_exists(l.hook["CODE"], h) THEN 1 ELSE 0)
                  + (IF list_exists(l.hook["BLOCK"], h) THEN 1 ELSE 0)
<1>1. In(l, h) \in SUBSET Idx
  BY Zenon DEF In
<1>2. /\ "CODE" \in In(l, h) <=> list_exists(l.hook["CODE"], h)
      /\ "BLOCK" \in In(l, h) <=> list_exists(l.hook["BLOCK"], h)
  BY Zenon DEF In, Idx
<1> QED BY <1>1, <1>2, OfIdx, Zenon

(* The fields of Lists are the variables. *)
LEMMA ListsFields ==
  /\ Lists.hook = hook /\ Lists.hooks_count = hooks_count
  /\ Lists.hooks_to_del = hooks_to_del /\ Lists.hk = hk
  /\ Lists'.hook = hook' /\ Lists'.hooks_count = hooks_count'
  /\ Lists'.hooks_to_del = hooks_to_del' /\ Lists'.hk = hk'
  BY DEF Lists

(* Nothing points at a hook without references. *)
LEMMA NoReferences ==
  ASSUME ListsOK, NEW h \in Handles, hk[h].refs = 0
  PROVE  /\ \A e \in Idx : ~list_exists(hook[e], h)
         /\ Items(hooks_to_del, h) = 0
<1> DEFINE c == Cardinality(In(Lists, h))
<1>1. /\ hk[h].refs = c + Items(hooks_to_del, h)
      /\ Items(hooks_to_del, h) = IF hk[h].to_delete THEN c ELSE 0
  BY Zenon DEF ListsOK, Counted
<1>2. c \in Nat /\ c = (IF list_exists(hook["CODE"], h) THEN 1 ELSE 0)
                         + (IF list_exists(hook["BLOCK"], h) THEN 1 ELSE 0)
  BY InCount, ListsFields
<1> HIDE DEF c
<1>3. c = 0 /\ Items(hooks_to_del, h) = 0
  BY <1>1, <1>2
<1>4. ~list_exists(hook["CODE"], h) /\ ~list_exists(hook["BLOCK"], h)
  BY <1>2, <1>3
<1> QED BY <1>3, <1>4, Zenon DEF Idx

(* The hook that uc_hook_add allocates. *)
New(n, c) == [Free EXCEPT !.refs = n, !.counts = c]

(* It has n references and is not deleted. *)
LEMMA NewHook ==
  ASSUME NEW n \in Int, NEW c \in BOOLEAN
  PROVE  /\ New(n, c) \in Hook
         /\ New(n, c).refs = n /\ New(n, c).to_delete = FALSE
         /\ New(n, c).regions = FALSE /\ New(n, c).counts = c
  BY Zenon DEF New, Free, Hook

(* uc_hook_add. *)
LEMMA AddLists ==
  ASSUME ListsOK, NEW h \in Handles, hk[h].refs = 0, NEW types \in SUBSET Idx,
         NEW insert \in BOOLEAN, NEW counts \in BOOLEAN,
         SetLists(uc_hook_add(Lists, h, types, insert, counts))
  PROVE  /\ ListsOK'
         /\ \A e \in Idx : \A x : list_exists(hook'[e], x)
                                    <=> list_exists(hook[e], x) \/ (e \in types /\ x = h)
         /\ \A x \in Handles \ {h} : hk'[x] = hk[x]
         /\ hk'[h].refs = Cardinality(types) /\ ~hk'[h].to_delete /\ ~hk'[h].regions
         /\ hk'[h].counts = counts
<1>1. /\ hook \in [Idx -> Seq(Handles)] /\ hooks_count \in [Idx -> Int]
      /\ hooks_to_del \in Seq(Handles) /\ hk \in [Handles -> Hook]
      /\ \A e \in Idx : Once(hook[e])
      /\ \A e \in Idx : hooks_count[e] = Cardinality(Alive(e))
      /\ \A x \in Handles : Counted(x)
  BY Zenon DEF ListsOK, CountsAgree
<1>2. /\ hook' = [e \in Idx |->
               IF e \notin types THEN hook[e]
               ELSE IF insert THEN <<h>> \o hook[e] ELSE Append(hook[e], h)]
      /\ hooks_count' = [e \in Idx |-> IF e \in types THEN hooks_count[e] + 1
                                                      ELSE hooks_count[e]]
      /\ hooks_to_del' = hooks_to_del
      /\ hk' = [hk EXCEPT ![h] = New(Cardinality(types), counts)]
  BY DEF SetLists, uc_hook_add, Lists, New
<1>3. (\A e \in Idx : ~list_exists(hook[e], h)) /\ Items(hooks_to_del, h) = 0
  BY NoReferences, Zenon
<1>4. Cardinality(types) \in Nat
  BY OfIdx, Zenon
<1>5. /\ \A x \in Handles \ {h} : hk'[x] = hk[x]
      /\ hk'[h].refs = Cardinality(types) /\ ~hk'[h].to_delete /\ ~hk'[h].regions
      /\ hk'[h].counts = counts /\ hk'[h] \in Hook
  <2>1. DOMAIN hk = Handles
    BY <1>1, Zenon
  <2>2. hk'[h] = New(Cardinality(types), counts)
    BY <1>2, <2>1, Zenon
  <2>3. Cardinality(types) \in Int
    BY <1>4, NatInt, Zenon
  <2>4. /\ hk'[h] \in Hook
        /\ hk'[h].refs = Cardinality(types) /\ hk'[h].to_delete = FALSE
        /\ hk'[h].regions = FALSE /\ hk'[h].counts = counts
    <3> DEFINE c == Cardinality(types)
    <3>1. c \in Int
      BY <2>3
    <3> HIDE DEF c
    <3>2. /\ New(c, counts) \in Hook
          /\ New(c, counts).refs = c /\ New(c, counts).to_delete = FALSE
          /\ New(c, counts).regions = FALSE /\ New(c, counts).counts = counts
      BY <3>1, NewHook, Zenon
    <3> QED BY <2>2, <3>2 DEF c
  <2> QED BY <1>2, <2>1, <2>4, Zenon
<1>6. hk' \in [Handles -> Hook]
  <2>1. \A x \in Handles : hk'[x] \in Hook
    BY <1>1, <1>5, Zenon
  <2>2. hk' = [x \in Handles |-> hk'[x]]
    BY <1>1, <1>2, Zenon
  <2> QED BY <2>1, <2>2, Zenon
<1>7. ASSUME NEW e \in Idx
      PROVE  /\ hook'[e] \in Seq(Handles) /\ Once(hook'[e])
             /\ \A x : list_exists(hook'[e], x)
                         <=> list_exists(hook[e], x) \/ (e \in types /\ x = h)
  <2>1. hook[e] \in Seq(Handles) /\ Once(hook[e]) /\ ~list_exists(hook[e], h)
    BY <1>1, <1>3, Zenon
  <2>2. CASE e \notin types
    <3>1. hook'[e] = hook[e]
      BY <1>2, <2>2, Zenon
    <3> QED BY <2>1, <2>2, <3>1, Zenon
  <2>3. CASE e \in types
    <3>1. hook'[e] = <<h>> \o hook[e] \/ hook'[e] = Append(hook[e], h)
      BY <1>2, <2>3, Zenon
    <3>2. /\ hook'[e] \in Seq(Handles) /\ Once(hook'[e])
          /\ \A x : list_exists(hook'[e], x) <=> list_exists(hook[e], x) \/ x = h
      BY <2>1, <3>1, Added, Zenon
    <3> QED BY <2>3, <3>2, Zenon
  <2> QED BY <2>2, <2>3, Zenon
<1>8. hook' \in [Idx -> Seq(Handles)] /\ hooks_count' \in [Idx -> Int]
  <2>1. hook' = [e \in Idx |-> hook'[e]]
    BY <1>2, Zenon
  <2>2. hook' \in [Idx -> Seq(Handles)]
    BY <1>7, <2>1, Zenon
  <2>3. hooks_count' \in [Idx -> Int]
    BY <1>1, <1>2
  <2> QED BY <2>2, <2>3, Zenon
<1>9. ASSUME NEW e \in Idx PROVE hooks_count'[e] = Cardinality(Alive(e)')
  <2>1. /\ IsFiniteSet(CalledIn(hook[e], hk))
        /\ Cardinality(Alive(e)) = Cardinality(CalledIn(hook[e], hk))
    BY <1>1, AliveIs, CalledCount
  <2>2. Cardinality(Alive(e)') = Cardinality(CalledIn(hook'[e], hk'))
    BY <1>7, AliveIs, CalledCount
  <2>3. CASE e \notin types
    <3>1. CalledIn(hook'[e], hk') = CalledIn(hook[e], hk)
      BY <1>3, <1>5, <1>7, <2>3, Zenon DEF CalledIn
    <3>2. hooks_count'[e] = hooks_count[e]
      BY <1>2, <2>3, Zenon
    <3> QED BY <1>1, <2>1, <2>2, <3>1, <3>2, Zenon
  <2>4. CASE e \in types
    <3>2. CalledIn(hook'[e], hk') = CalledIn(hook[e], hk) \cup {h} /\ h \notin CalledIn(hook[e], hk)
      BY <1>3, <1>5, <1>7, <2>4, Zenon DEF CalledIn
    <3>3. Cardinality(CalledIn(hook'[e], hk')) = Cardinality(CalledIn(hook[e], hk)) + 1
      BY <2>1, <3>2, OneMore, Zenon
    <3>4. hooks_count'[e] = hooks_count[e] + 1
      BY <1>2, <2>4, Zenon
    <3> QED BY <1>1, <2>1, <2>2, <3>3, <3>4, Zenon
  <2> QED BY <2>3, <2>4, Zenon
<1>10. ASSUME NEW x \in Handles PROVE Counted(x)'
  <2>1. CASE x # h
    <3>1. In(Lists', x) = In(Lists, x)
      BY <1>7, <2>1, ListsFields, Zenon DEF In
    <3>2. hk'[x] = hk[x] /\ Counted(x)
      BY <1>1, <1>5, <2>1, Zenon
    <3> QED BY <3>1, <3>2, <1>2, Zenon DEF Counted
  <2>2. CASE x = h
    <3>1. In(Lists', h) = types
      BY <1>3, <1>7, ListsFields, Zenon DEF In
    <3> QED BY <3>1, <1>5, <2>2, <1>2, <1>3, <1>4 DEF Counted
  <2> QED BY <2>1, <2>2, Zenon
<1> QED BY <1>1, <1>2, <1>5, <1>6, <1>7, <1>8, <1>9, <1>10, Zenon DEF ListsOK, CountsAgree

(* Marking a hook sets the mark, adds the references and keeps who it counts for. *)
LEMMA MarkedHook ==
  ASSUME NEW obj \in Hook, NEW n \in Int
  PROVE  /\ Marked(obj, n) \in Hook
         /\ Marked(obj, n).refs = obj.refs + n /\ Marked(obj, n).to_delete = TRUE
         /\ Marked(obj, n).regions = FALSE /\ Marked(obj, n).counts = obj.counts
<1> DEFINE r1 == [obj EXCEPT !.to_delete = TRUE]
           r2 == [r1 EXCEPT !.regions = FALSE]
           r3 == [r2 EXCEPT !.refs = @ + n]
<1>1. /\ r1 \in Hook /\ r1.to_delete = TRUE
      /\ r1.refs = obj.refs /\ r1.counts = obj.counts
  BY Zenon DEF Hook
<1>2. Marked(obj, n) = r3
  BY Zenon DEF Marked
<1> HIDE DEF r1
<1>3. /\ r2 \in Hook /\ r2.to_delete = TRUE /\ r2.regions = FALSE
      /\ r2.refs = r1.refs /\ r2.counts = r1.counts
  BY <1>1, Zenon DEF Hook
<1> HIDE DEF r2
<1>4. /\ r3 \in Hook /\ r3.to_delete = TRUE /\ r3.regions = FALSE
      /\ r3.refs = r2.refs + n /\ r3.counts = r2.counts
  BY <1>3 DEF Hook
<1> HIDE DEF r3
<1> QED BY <1>1, <1>2, <1>3, <1>4

(* uc_hook_del. *)
LEMMA DelLists ==
  ASSUME ListsOK, NEW h \in Handles, ~hk[h].to_delete,
         SetLists(uc_hook_del(Lists, h))
  PROVE  /\ ListsOK' /\ hook' = hook
         /\ \A x \in Handles \ {h} : hk'[x] = hk[x]
         /\ hk'[h].to_delete /\ hk'[h].counts = hk[h].counts
<1> DEFINE in == In(Lists, h)
           c == Cardinality(in)
<1>1. /\ hook \in [Idx -> Seq(Handles)] /\ hooks_count \in [Idx -> Int]
      /\ hooks_to_del \in Seq(Handles) /\ hk \in [Handles -> Hook]
      /\ \A e \in Idx : Once(hook[e])
      /\ \A e \in Idx : hooks_count[e] = Cardinality(Alive(e))
      /\ \A x \in Handles : Counted(x)
  BY Zenon DEF ListsOK, CountsAgree
<1>2. /\ hook' = hook
      /\ hooks_count' = [e \in Idx |-> IF e \in in THEN hooks_count[e] - 1
                                                   ELSE hooks_count[e]]
      /\ hooks_to_del' = hooks_to_del \o [i \in 1 .. c |-> h]
      /\ hk' = [hk EXCEPT ![h] = Marked(hk[h], c)]
  <2> DEFINE d == uc_hook_del(Lists, h)
  <2>1. /\ d.hook = Lists.hook
        /\ d.hooks_count = [e \in Idx |-> IF e \in in THEN Lists.hooks_count[e] - 1
                                                      ELSE Lists.hooks_count[e]]
        /\ d.hooks_to_del = Lists.hooks_to_del \o [i \in 1 .. c |-> h]
        /\ d.hk = [Lists.hk EXCEPT ![h] = Marked(Lists.hk[h], c)]
    BY Zenon DEF uc_hook_del
  <2>2. /\ hook' = d.hook /\ hooks_count' = d.hooks_count
        /\ hooks_to_del' = d.hooks_to_del /\ hk' = d.hk
    BY Zenon DEF SetLists
  <2> HIDE DEF d, c, in
  <2> QED BY <2>1, <2>2, ListsFields, Zenon
<1>3. /\ in \in SUBSET Idx /\ c \in Nat
      /\ \A e \in Idx : e \in in <=> list_exists(hook[e], h)
  <2>1. in \in SUBSET Idx /\ c \in Nat
    BY InCount, Zenon
  <2> QED BY <2>1, ListsFields, Zenon DEF In
<1>4. In(Lists', h) = in /\ \A x : In(Lists', x) = In(Lists, x)
  BY <1>2, ListsFields, Zenon DEF In
<1>5. Items(hooks_to_del, h) = 0 /\ hk[h].refs = c + Items(hooks_to_del, h)
  BY <1>1, Zenon DEF Counted
<1> HIDE DEF c, in
<1>6. /\ \A x \in Handles \ {h} : hk'[x] = hk[x]
      /\ hk'[h].refs = hk[h].refs + c /\ hk'[h].to_delete = TRUE
      /\ hk'[h].counts = hk[h].counts /\ hk'[h] \in Hook
  <2>1. DOMAIN hk = Handles /\ hk[h] \in Hook
    BY <1>1, Zenon
  <2>2. hk'[h] = Marked(hk[h], c)
    BY <1>2, <2>1, Zenon
  <2>3. c \in Int
    BY <1>3, NatInt, Zenon
  <2>4. /\ Marked(hk[h], c) \in Hook
        /\ Marked(hk[h], c).refs = hk[h].refs + c /\ Marked(hk[h], c).to_delete = TRUE
        /\ Marked(hk[h], c).counts = hk[h].counts
    BY <2>1, <2>3, MarkedHook, Zenon
  <2>5. /\ hk'[h].refs = hk[h].refs + c /\ hk'[h].to_delete = TRUE
        /\ hk'[h].counts = hk[h].counts /\ hk'[h] \in Hook
    BY <2>2, <2>4
  <2> QED BY <1>2, <2>1, <2>5, Zenon
<1>7. hk' \in [Handles -> Hook]
  <2>1. \A x \in Handles : hk'[x] \in Hook
    BY <1>1, <1>6, Zenon
  <2>2. hk' = [x \in Handles |-> hk'[x]]
    BY <1>1, <1>2, Zenon
  <2> QED BY <2>1, <2>2, Zenon
<1>8. /\ hooks_to_del' \in Seq(Handles)
      /\ Items(hooks_to_del', h) = c
      /\ \A x : x # h => Items(hooks_to_del', x) = Items(hooks_to_del, x)
  <2> DEFINE new == hooks_to_del \o [i \in 1 .. c |-> h]
  <2>1. /\ new \in Seq(Handles)
        /\ Items(new, h) = Items(hooks_to_del, h) + c
        /\ \A x : x # h => Items(new, x) = Items(hooks_to_del, x)
    BY <1>1, <1>3, ItemsRepeat
  <2>2. hooks_to_del' = new
    BY <1>2, Zenon
  <2> HIDE DEF new
  <2>3. Items(new, h) = c
    BY <1>3, <1>5, <2>1
  <2> QED BY <2>1, <2>2, <2>3, Zenon
<1>9. hooks_count' \in [Idx -> Int]
  BY <1>1, <1>2
<1>10. ASSUME NEW e \in Idx PROVE hooks_count'[e] = Cardinality(Alive(e)')
  <2>1. /\ IsFiniteSet(CalledIn(hook[e], hk))
        /\ Cardinality(Alive(e)) = Cardinality(CalledIn(hook[e], hk))
        /\ Cardinality(Alive(e)') = Cardinality(CalledIn(hook[e], hk'))
    BY <1>1, <1>2, AliveIs, CalledCount, Zenon
  <2>2. CASE e \notin in
    <3>1. CalledIn(hook[e], hk') = CalledIn(hook[e], hk)
      BY <1>3, <1>6, <2>2, Zenon DEF CalledIn
    <3>2. hooks_count'[e] = hooks_count[e]
      BY <1>2, <2>2, Zenon
    <3> QED BY <1>1, <2>1, <3>1, <3>2, Zenon
  <2>3. CASE e \in in
    <3>1. h \in CalledIn(hook[e], hk) /\ CalledIn(hook[e], hk') = CalledIn(hook[e], hk) \ {h}
      BY <1>3, <1>6, <2>3, Zenon DEF CalledIn
    <3>2. Cardinality(CalledIn(hook[e], hk')) = Cardinality(CalledIn(hook[e], hk)) - 1
      BY <2>1, <3>1, OneLess, Zenon
    <3>3. hooks_count'[e] = hooks_count[e] - 1
      BY <1>2, <2>3, Zenon
    <3> QED BY <1>1, <2>1, <3>2, <3>3, Zenon
  <2> QED BY <2>2, <2>3, Zenon
<1>11. ASSUME NEW x \in Handles PROVE Counted(x)'
  <2>1. CASE x # h
    <3>1. hk'[x] = hk[x] /\ Counted(x)
      BY <1>1, <1>6, <2>1, Zenon
    <3>2. Items(hooks_to_del', x) = Items(hooks_to_del, x) /\ In(Lists', x) = In(Lists, x)
      BY <1>4, <1>8, <2>1, Zenon
    <3> QED BY <3>1, <3>2, Zenon DEF Counted
  <2>2. CASE x = h
    <3>1. Cardinality(In(Lists', x)) = c
      BY <1>4, <2>2, Zenon DEF c
    <3>2. Items(hooks_to_del', x) = c /\ hk'[x].to_delete = TRUE /\ hk'[x].refs = c + c
      BY <1>3, <1>5, <1>6, <1>8, <2>2
    <3> QED BY <3>1, <3>2, Zenon DEF Counted
  <2> QED BY <2>1, <2>2, Zenon
<1> QED BY <1>1, <1>2, <1>6, <1>7, <1>8, <1>9, <1>10, <1>11, Zenon DEF ListsOK, CountsAgree

(* hook_delete leaves a hook alone that no item lets go of, and frees it when
   the last one does. *)
LEMMA DeletedHook ==
  ASSUME NEW obj \in Hook, NEW n \in Int
  PROVE  /\ obj.refs = n => hook_delete(obj, n) = Free
         /\ obj.refs # n /\ n = 0 => hook_delete(obj, n) = obj
  <1>1. ASSUME obj.refs # n, n = 0 PROVE hook_delete(obj, n) = obj
    <2>1. obj.refs \in Int /\ "refs" \in DOMAIN obj
      BY DEF Hook
    <2>2. hook_delete(obj, n) = [obj EXCEPT !.refs = obj.refs - 0]
      BY <1>1, Zenon DEF hook_delete
    <2>3. obj.refs - 0 = obj.refs
      BY <2>1
    <2>4. obj \in [DOMAIN obj -> {obj[f] : f \in DOMAIN obj}]
      BY DEF Hook
    <2> QED BY <2>1, <2>2, <2>3, <2>4, Zenon
  <1> QED BY <1>1, Zenon DEF hook_delete

(* A freed object has no references and no mark. *)
LEMMA FreeHook ==
  Free \in Hook /\ Free.refs = 0 /\ ~Free.to_delete
  BY DEF Free, Hook

(* clear_deleted_hooks takes a deleted hook out of all of its lists, and leaves
   the others where they are. *)
LEMMA SweptHooks ==
  ASSUME ListsOK, NEW h \in Handles
  PROVE  Swept(Lists, h) = IF hk[h].to_delete THEN In(Lists, h) ELSE {}
<1> DEFINE in == In(Lists, h)
<1>1. /\ in \in SUBSET Idx
      /\ Cardinality(in) = (IF "CODE" \in in THEN 1 ELSE 0)
                             + (IF "BLOCK" \in in THEN 1 ELSE 0)
      /\ Cardinality(in) \in Nat
  BY InCount, OfIdx, Zenon
<1>2. Items(hooks_to_del, h) = IF hk[h].to_delete THEN Cardinality(in) ELSE 0
  BY Zenon DEF ListsOK, Counted
<1>3. ASSUME NEW e \in in
      PROVE  /\ Cardinality(in \cap Before[e]) \in Nat
             /\ Cardinality(in \cap Before[e]) < Cardinality(in)
  <2>1. in \cap Before[e] \in SUBSET Idx /\ e \in Idx
    BY <1>1, Zenon
  <2>2. /\ Cardinality(in \cap Before[e]) \in Nat
        /\ Cardinality(in \cap Before[e])
             = (IF "CODE" \in in \cap Before[e] THEN 1 ELSE 0)
                 + (IF "BLOCK" \in in \cap Before[e] THEN 1 ELSE 0)
    BY <2>1, OfIdx, Zenon
  <2>3. /\ "BLOCK" \notin Before[e]
        /\ e = "CODE" => "CODE" \notin Before[e]
        /\ e = "CODE" \/ e = "BLOCK"
    BY <2>1 DEF Before, Idx
  <2> HIDE DEF in
  <2> QED BY <1>1, <2>2, <2>3
<1>4. Swept(Lists, h)
        = {e \in in : Cardinality(in \cap Before[e]) < Items(hooks_to_del, h)}
  BY ListsFields, Zenon DEF Swept
<1> HIDE DEF in
<1>5. CASE hk[h].to_delete
  BY <1>2, <1>3, <1>4, <1>5, Zenon DEF in
<1>6. CASE ~hk[h].to_delete
  <2>1. \A e \in in : ~(Cardinality(in \cap Before[e]) < 0)
    BY <1>3
  <2> QED BY <1>2, <1>4, <1>6, <2>1, Zenon
<1> QED BY <1>5, <1>6, Zenon

(* clear_deleted_hooks. *)
LEMMA SweepLists ==
  ASSUME ListsOK, SetLists(clear_deleted_hooks(Lists))
  PROVE  /\ ListsOK' /\ hooks_to_del' = <<>>
         /\ \A h \in Handles : ~hk'[h].to_delete
         /\ \A h \in Handles : ~hk[h].to_delete /\ hk[h].refs # 0 => hk'[h] = hk[h]
         /\ \A e \in Idx : \A h \in Handles :
              list_exists(hook'[e], h) <=> list_exists(hook[e], h) /\ ~hk[h].to_delete
         /\ \A e \in Idx : \A i \in 1 .. Len(hook[e]) :
              ~hk[hook[e][i]].to_delete /\ (\A j \in 1 .. i - 1 : hk[hook[e][j]].to_delete)
                => 1 \in DOMAIN hook'[e] /\ hook'[e][1] = hook[e][i]
<1> DEFINE N(h) == Cardinality(Swept(Lists, h)) + Items(hooks_to_del, h)
           S(e) == {h \in Handles : e \in Swept(Lists, h)}
<1>1. /\ hook \in [Idx -> Seq(Handles)] /\ hooks_count \in [Idx -> Int]
      /\ hk \in [Handles -> Hook]
      /\ \A e \in Idx : Once(hook[e])
      /\ \A e \in Idx : hooks_count[e] = Cardinality(Alive(e))
      /\ \A h \in Handles : Counted(h)
  BY Zenon DEF ListsOK, CountsAgree
<1>2. /\ hook' = [e \in Idx |-> Without(hook[e], S(e))]
      /\ hooks_count' = hooks_count
      /\ hooks_to_del' = <<>>
      /\ hk' = [h \in Handles |-> hook_delete(hk[h], N(h))]
  <2> DEFINE d == clear_deleted_hooks(Lists)
  <2>1. /\ d.hook = [e \in Idx |-> Without(Lists.hook[e], S(e))]
        /\ d.hooks_count = Lists.hooks_count
        /\ d.hooks_to_del = <<>>
        /\ d.hk = [h \in Handles |->
                     hook_delete(Lists.hk[h],
                       Cardinality(Swept(Lists, h)) + Items(Lists.hooks_to_del, h))]
    BY Zenon DEF clear_deleted_hooks
  <2>2. /\ hook' = d.hook /\ hooks_count' = d.hooks_count
        /\ hooks_to_del' = d.hooks_to_del /\ hk' = d.hk
    BY Zenon DEF SetLists
  <2> HIDE DEF d, S
  <2> QED BY <2>1, <2>2, ListsFields, Zenon
<1>3. ASSUME NEW e \in Idx, NEW h \in Handles
      PROVE  h \in S(e) <=> list_exists(hook[e], h) /\ hk[h].to_delete
  <2>1. Swept(Lists, h) = IF hk[h].to_delete THEN In(Lists, h) ELSE {}
    BY SweptHooks, Zenon
  <2>2. e \in In(Lists, h) <=> list_exists(hook[e], h)
    BY ListsFields, Zenon DEF In
  <2> QED BY <2>1, <2>2, Zenon
<1>4. ASSUME NEW h \in Handles
      PROVE  /\ hk[h] \in Hook
             /\ hk[h].refs = Cardinality(In(Lists, h)) + Items(hooks_to_del, h)
             /\ Items(hooks_to_del, h) = IF hk[h].to_delete THEN Cardinality(In(Lists, h)) ELSE 0
             /\ Cardinality(In(Lists, h)) \in Nat
             /\ N(h) = IF hk[h].to_delete THEN hk[h].refs ELSE 0
  <2>1. Swept(Lists, h) = IF hk[h].to_delete THEN In(Lists, h) ELSE {}
    BY SweptHooks, Zenon
  <2>2. Cardinality(In(Lists, h)) \in Nat
    BY InCount, Zenon
  <2>3. Cardinality({}) = 0
    BY FS_EmptySet, Zenon
  <2>4. /\ hk[h] \in Hook
        /\ hk[h].refs = Cardinality(In(Lists, h)) + Items(hooks_to_del, h)
        /\ Items(hooks_to_del, h) = IF hk[h].to_delete THEN Cardinality(In(Lists, h)) ELSE 0
    BY <1>1, Zenon DEF Counted
  <2>5. CASE hk[h].to_delete
    <3>1. N(h) = Cardinality(In(Lists, h)) + Items(hooks_to_del, h)
      BY <2>1, <2>5, Zenon
    <3> HIDE DEF N
    <3> QED BY <2>2, <2>4, <2>5, <3>1, Zenon
  <2>6. CASE ~hk[h].to_delete
    <3>1. N(h) = 0 + 0
      BY <2>1, <2>3, <2>4, <2>6, Zenon
    <3> HIDE DEF N
    <3>2. N(h) = 0
      BY <3>1
    <3> QED BY <2>2, <2>4, <2>6, <3>2, Zenon
  <2> QED BY <2>5, <2>6, Zenon
<1> HIDE DEF N, S
<1>5. ASSUME NEW h \in Handles
      PROVE  /\ hk'[h] \in Hook /\ ~hk'[h].to_delete
             /\ hk[h].to_delete => hk'[h].refs = 0
             /\ ~hk[h].to_delete => hk'[h].refs = hk[h].refs
             /\ ~hk[h].to_delete /\ hk[h].refs # 0 => hk'[h] = hk[h]
  <2>1. hk'[h] = hook_delete(hk[h], N(h))
    BY <1>2, Zenon
  <2>2. hk[h] \in Hook /\ N(h) = IF hk[h].to_delete THEN hk[h].refs ELSE 0
    BY <1>4, Zenon
  <2>3. N(h) \in Int
    BY <2>2 DEF Hook
  <2>4. CASE hk[h].to_delete
    <3>1. hk'[h] = Free
      BY <2>1, <2>2, <2>3, <2>4, DeletedHook, Zenon
    <3> QED BY <2>4, <3>1, FreeHook, Zenon
  <2>5. CASE ~hk[h].to_delete /\ hk[h].refs = 0
    <3>1. hk'[h] = Free
      BY <2>1, <2>2, <2>3, <2>5, DeletedHook, Zenon
    <3> QED BY <2>5, <3>1, FreeHook, Zenon
  <2>6. CASE ~hk[h].to_delete /\ hk[h].refs # 0
    <3>1. hk'[h] = hk[h]
      BY <2>1, <2>2, <2>3, <2>6, DeletedHook, Zenon
    <3> QED BY <2>2, <2>6, <3>1, Zenon
  <2> QED BY <2>4, <2>5, <2>6, Zenon
<1>6. ASSUME NEW e \in Idx
      PROVE  /\ hook'[e] \in Seq(Handles) /\ Once(hook'[e])
             /\ \A h \in Handles : list_exists(hook'[e], h)
                                     <=> list_exists(hook[e], h) /\ ~hk[h].to_delete
             /\ \A i \in 1 .. Len(hook[e]) :
                  hook[e][i] \notin S(e) /\ (\A j \in 1 .. i - 1 : hook[e][j] \in S(e))
                    => 1 \in DOMAIN hook'[e] /\ hook'[e][1] = hook[e][i]
  <2>1. hook'[e] = Without(hook[e], S(e)) /\ hook[e] \in Seq(Handles) /\ Once(hook[e])
    BY <1>1, <1>2, Zenon
  <2>2. /\ hook'[e] \in Seq(Handles) /\ Once(hook'[e])
        /\ \A h : list_exists(hook'[e], h) <=> list_exists(hook[e], h) /\ h \notin S(e)
        /\ \A i \in 1 .. Len(hook[e]) :
             hook[e][i] \notin S(e) /\ (\A j \in 1 .. i - 1 : hook[e][j] \in S(e))
               => 1 \in DOMAIN hook'[e] /\ hook'[e][1] = hook[e][i]
    <3> DEFINE list == hook[e]
               T == S(e)
    <3> HIDE DEF list, T
    <3>1. hook'[e] = Without(list, T) /\ list \in Seq(Handles) /\ Once(list)
      BY <2>1, Zenon DEF list, T
    <3>2. /\ hook'[e] \in Seq(Handles) /\ Once(hook'[e])
          /\ \A h : list_exists(hook'[e], h) <=> list_exists(list, h) /\ h \notin T
          /\ \A i \in 1 .. Len(list) :
               list[i] \notin T /\ (\A j \in 1 .. i - 1 : list[j] \in T)
                 => 1 \in DOMAIN hook'[e] /\ hook'[e][1] = list[i]
      BY <3>1, WithoutKeeps
    <3> QED BY <3>2, Zenon DEF list, T
  <2> QED BY <1>3, <2>2, Zenon
<1>7. ASSUME NEW e \in Idx, NEW i \in 1 .. Len(hook[e]), ~hk[hook[e][i]].to_delete,
             \A j \in 1 .. i - 1 : hk[hook[e][j]].to_delete
      PROVE  1 \in DOMAIN hook'[e] /\ hook'[e][1] = hook[e][i]
  <2>1. /\ DOMAIN hook[e] = 1 .. Len(hook[e])
        /\ \A k \in 1 .. Len(hook[e]) : hook[e][k] \in Handles
        /\ Len(hook[e]) \in Nat
    BY <1>1, ListFacts, Zenon
  <2>2. \A j \in 1 .. i - 1 : j \in 1 .. Len(hook[e])
    BY <2>1
  <2>3. \A k \in 1 .. Len(hook[e]) : list_exists(hook[e], hook[e][k])
    BY <2>1, Zenon DEF list_exists
  <2>4. hook[e][i] \notin S(e) /\ \A j \in 1 .. i - 1 : hook[e][j] \in S(e)
    BY <1>3, <1>7, <2>1, <2>2, <2>3, Zenon
  <2> QED BY <1>6, <2>4, Zenon
<1>8. hook' \in [Idx -> Seq(Handles)] /\ hk' \in [Handles -> Hook]
  <2>1. hook' = [e \in Idx |-> hook'[e]] /\ hk' = [h \in Handles |-> hk'[h]]
    BY <1>2, Zenon
  <2> QED BY <1>5, <1>6, <2>1, Zenon
<1>9. ASSUME NEW e \in Idx PROVE hooks_count'[e] = Cardinality(Alive(e)')
  <2>1. /\ Cardinality(Alive(e)) = Cardinality(CalledIn(hook[e], hk))
        /\ Cardinality(Alive(e)') = Cardinality(CalledIn(hook'[e], hk'))
    BY <1>1, <1>6, AliveIs, CalledCount, Zenon
  <2>2. CalledIn(hook'[e], hk') = CalledIn(hook[e], hk)
    BY <1>5, <1>6, Zenon DEF CalledIn
  <2> QED BY <1>1, <1>2, <2>1, <2>2, Zenon
<1>10. hooks_to_del' \in Seq(Handles) /\ \A h \in Handles : Items(hooks_to_del', h) = 0
  <2>1. Cardinality({}) = 0
    BY FS_EmptySet, Zenon
  <2>2. DOMAIN hooks_to_del' = {} /\ hooks_to_del' \in Seq(Handles)
    BY <1>2
  <2>3. \A h : {i \in DOMAIN hooks_to_del' : hooks_to_del'[i] = h} = {}
    BY <2>2, Zenon
  <2> QED BY <2>1, <2>2, <2>3, Zenon DEF Items
<1>11. ASSUME NEW h \in Handles PROVE Counted(h)'
  <2>1. Items(hooks_to_del', h) = 0 /\ ~hk'[h].to_delete
    BY <1>5, <1>10, Zenon
  <2>2. CASE hk[h].to_delete
    <3>1. In(Lists', h) = {}
      BY <1>6, <2>2, ListsFields, Zenon DEF In
    <3>2. Cardinality({}) = 0
      BY FS_EmptySet, Zenon
    <3>3. hk'[h].refs = 0
      BY <1>5, <2>2, Zenon
    <3> QED BY <2>1, <3>1, <3>2, <3>3 DEF Counted
  <2>3. CASE ~hk[h].to_delete
    <3>1. In(Lists', h) = In(Lists, h)
      BY <1>6, <2>3, ListsFields, Zenon DEF In
    <3>2. hk'[h].refs = Cardinality(In(Lists, h)) + 0
      BY <1>4, <1>5, <2>3, Zenon
    <3> QED BY <2>1, <3>1, <3>2, Zenon DEF Counted
  <2> QED BY <2>2, <2>3, Zenon
<1>12. ListsOK'
  BY <1>1, <1>2, <1>6, <1>8, <1>9, <1>10, <1>11, Zenon DEF ListsOK, CountsAgree
<1>13. /\ \A h \in Handles : ~hk'[h].to_delete
       /\ \A h \in Handles : ~hk[h].to_delete /\ hk[h].refs # 0 => hk'[h] = hk[h]
  BY <1>5, Zenon
<1>14. \A e \in Idx : \A h \in Handles :
         list_exists(hook'[e], h) <=> list_exists(hook[e], h) /\ ~hk[h].to_delete
  BY <1>6, Zenon
<1>15. \A e \in Idx : \A i \in 1 .. Len(hook[e]) :
         ~hk[hook[e][i]].to_delete /\ (\A j \in 1 .. i - 1 : hk[hook[e][j]].to_delete)
           => 1 \in DOMAIN hook'[e] /\ hook'[e][1] = hook[e][i]
  BY <1>7, Zenon
<1> QED BY <1>2, <1>12, <1>13, <1>14, <1>15, Zenon

-----------------------------------------------------------------------------
(* What refers to the lists: frames, translated code and the count hook *)

(* No hook leaves a list. *)
Grows == \A e \in Idx : \A h \in Handles : list_exists(hook[e], h) => list_exists(hook'[e], h)

(* A hook that is in a list has a reference. *)
LEMMA InList ==
  ASSUME ListsOK, NEW e \in Idx, NEW h \in Handles, list_exists(hook[e], h)
  PROVE  hk[h].refs # 0 /\ hk[h].refs > 0
<1>1. hk[h].refs # 0
  BY NoReferences, Zenon
<1>2. /\ hk[h].refs = Cardinality(In(Lists, h)) + Items(hooks_to_del, h)
      /\ Items(hooks_to_del, h) = IF hk[h].to_delete THEN Cardinality(In(Lists, h)) ELSE 0
  BY Zenon DEF ListsOK, Counted
<1>3. Cardinality(In(Lists, h)) \in Nat
  BY InCount, Zenon
<1> QED BY <1>1, <1>2, <1>3

(* A step that leaves the lists alone keeps what is known of them. *)
LEMMA SameLists ==
  ASSUME ListsOK, UNCHANGED lists
  PROVE  ListsOK' /\ Grows
<1>1. hook' = hook /\ hooks_count' = hooks_count /\ hooks_to_del' = hooks_to_del /\ hk' = hk
  BY Zenon DEF lists
<1>2. Lists' = Lists
  BY <1>1, Zenon DEF Lists
<1>3. \A e \in Idx : Alive(e)' = Alive(e)
  BY <1>1, AliveIs, Zenon
<1>4. \A h \in Handles : Counted(h) => Counted(h)'
  BY <1>1, <1>2, Zenon DEF Counted
<1>5. \A h \in Handles : Counted(h)'
  BY <1>4, Zenon DEF ListsOK
<1>6. CountsAgree'
  BY <1>1, <1>3, Zenon DEF ListsOK, CountsAgree
<1>7. /\ hook' \in [Idx -> Seq(Handles)] /\ hooks_count' \in [Idx -> Int]
      /\ hooks_to_del' \in Seq(Handles) /\ hk' \in [Handles -> Hook]
      /\ \A e \in Idx : Once(hook'[e])
  BY <1>1, Zenon DEF ListsOK
<1> QED BY <1>1, <1>5, <1>6, <1>7, Zenon DEF ListsOK, Grows

(* The first of some items that are not deleted. *)
LEMMA FirstIs ==
  ASSUME ListsOK, NEW e \in Idx, NEW items \in SUBSET Alive(e), items # {}
  PROVE  /\ \E i \in items : hook[e][i] = First(e, items) /\ \A j \in items : i <= j
         /\ First(e, items) \in Handles /\ list_exists(hook[e], First(e, items))
         /\ ~hk[First(e, items)].to_delete
<1> DEFINE i == CHOOSE k \in items : \A j \in items : k <= j
<1>1. hook[e] \in Seq(Handles)
  BY Zenon DEF ListsOK
<1>2. /\ Len(hook[e]) \in Nat /\ DOMAIN hook[e] = 1 .. Len(hook[e])
      /\ \A k \in 1 .. Len(hook[e]) : hook[e][k] \in Handles
  BY <1>1, ListFacts, Zenon
<1>3. /\ \A k \in items : k \in 1 .. Len(hook[e]) /\ ~hk[hook[e][k]].to_delete
  BY <1>2, Zenon DEF Alive
<1>4. items \in SUBSET Nat
  BY <1>2, <1>3
<1>5. \E k \in items : \A j \in items : k <= j
  BY <1>4, LeastNumber, Zenon
<1>6. i \in items /\ \A j \in items : i <= j
  BY <1>5, Zenon
<1>7. First(e, items) = hook[e][i]
  BY Zenon DEF First
<1> HIDE DEF i
<1> QED BY <1>2, <1>3, <1>6, <1>7, Zenon DEF list_exists

(* A frame stays good while no hook leaves a list. *)
LEMMA FrameKept ==
  ASSUME NEW f, FrameOK(f, hook), Grows
  PROVE  FrameOK(f, hook')
<1>1. Event(f) \in Idx
  BY Zenon DEF Event, Idx
<1> QED BY <1>1, Zenon DEF FrameOK, Grows, Frame, Calls, Idx, Event

(* So do all levels. *)
LEMMA LevelsKept ==
  ASSUME LevelsOK, frames' = frames, Grows
  PROVE  LevelsOK'
  BY FrameKept, Zenon DEF LevelsOK

(* The frame that runs. *)
LEMMA TopIs ==
  ASSUME LevelsOK, frames # <<>>
  PROVE  /\ nested_level \in Nat \ {0} /\ DOMAIN frames = 1 .. nested_level
         /\ nested_level \in DOMAIN frames /\ Top \in Frame /\ FrameOK(Top, hook)
<1>1. frames \in Seq(Frame) /\ \A i \in DOMAIN frames : FrameOK(frames[i], hook)
  BY Zenon DEF LevelsOK
<1>2. nested_level \in Nat /\ DOMAIN frames = 1 .. nested_level /\ nested_level # 0
  BY <1>1 DEF nested_level
<1>3. nested_level \in 1 .. nested_level
  BY <1>2
<1> QED BY <1>1, <1>2, <1>3, Zenon DEF Top, FrameOK

(* Another one takes its place. *)
LEMMA SetTopLevels ==
  ASSUME LevelsOK, frames # <<>>, Grows, NEW f \in Frame, FrameOK(f, hook'), frames' = SetTop(f)
  PROVE  /\ LevelsOK' /\ DOMAIN frames' = DOMAIN frames /\ frames' # <<>>
         /\ \A i \in DOMAIN frames' : frames'[i] = frames[i] \/ frames'[i] = f
<1>1. frames \in Seq(Frame) /\ nested_level <= UC_MAX_NESTED_LEVEL
  BY Zenon DEF LevelsOK, nested_level
<1>2. /\ nested_level \in Nat \ {0} /\ DOMAIN frames = 1 .. nested_level
      /\ nested_level \in DOMAIN frames
  BY TopIs, Zenon
<1>3. frames' = [frames EXCEPT ![nested_level] = f]
  BY Zenon DEF SetTop
<1>4. frames' \in Seq(Frame) /\ Len(frames') = Len(frames)
  BY <1>1, <1>2, <1>3
<1>5. DOMAIN frames' = DOMAIN frames /\ frames' # <<>>
  BY <1>1, <1>2, <1>4 DEF nested_level
<1>6. \A i \in DOMAIN frames' : frames'[i] = frames[i] \/ frames'[i] = f
  BY <1>3, <1>5, Zenon
<1>7. \A i \in DOMAIN frames' : FrameOK(frames'[i], hook')
  BY <1>5, <1>6, FrameKept, Zenon DEF LevelsOK
<1> QED BY <1>1, <1>4, <1>5, <1>6, <1>7, Zenon DEF LevelsOK, nested_level

(* The frame f goes on to a callback that is in its list, or to none. *)
LEMMA CallingFrame ==
  ASSUME NEW f, FrameOK(f, hook), NEW h,
         h = Nil \/ (h \in Handles /\ list_exists(hook[Event(f)], h)), Grows
  PROVE  /\ Calling(f, h) \in Frame /\ FrameOK(Calling(f, h), hook')
         /\ Event(Calling(f, h)) = Event(f) /\ Calling(f, h).code = f.code
         /\ Calling(f, h).cur = h /\ Calling(f, h).step = IF h = Nil THEN "exec" ELSE "in"
<1> DEFINE g == Calling(f, h)
<1>1. f \in Frame
  BY Zenon DEF FrameOK
<1>2. /\ g \in Frame /\ g.code = f.code /\ g.at = f.at /\ g.cur = h
      /\ g.step = IF h = Nil THEN "exec" ELSE "in"
  BY <1>1, Zenon DEF Calling, Frame
<1> HIDE DEF g
<1>3. Event(g) = Event(f) /\ Event(f) \in Idx
  BY <1>2, Zenon DEF Event, Idx
<1>4. g.step = "in" => h # Nil
  BY <1>2
<1>5. \A e \in Idx : g.code[e].via = "inline" =>
        g.code[e].to \in Handles /\ list_exists(hook'[e], g.code[e].to)
  BY <1>2, Zenon DEF FrameOK, Grows
<1>6. g.step = "in" => g.cur \in Handles /\ list_exists(hook'[Event(g)], g.cur)
  BY <1>2, <1>3, <1>4, Zenon DEF Grows
<1>7. FrameOK(g, hook')
  BY <1>2, <1>5, <1>6, Zenon DEF FrameOK, Event
<1> QED BY <1>2, <1>3, <1>7, Zenon DEF g

(* The callback after the one that has returned. *)
LEMMA NextCalleeIs ==
  ASSUME ListsOK, NEW f, FrameOK(f, hook), NEW stopped, NEW h, h = NextCallee(f, stopped)
  PROVE  h = Nil \/ (h \in Handles /\ list_exists(hook[Event(f)], h) /\ ~hk[h].to_delete)
<1> DEFINE e == Event(f)
           rest == {i \in Alive(e) : \A j \in DOMAIN hook[e] : hook[e][j] = f.cur => j < i}
<1>1. e \in Idx
  BY Zenon DEF Event, Idx
<1>2. rest \in SUBSET Alive(e)
  BY Zenon
<1>3. h = Nil \/ h = First(e, rest)
  BY Zenon DEF NextCallee, Callees
<1> HIDE DEF rest, e
<1>4. CASE rest = {}
  BY <1>3, <1>4, Zenon DEF First
<1>5. CASE rest # {}
  <2>1. /\ First(e, rest) \in Handles /\ list_exists(hook[e], First(e, rest))
        /\ ~hk[First(e, rest)].to_delete
    BY <1>1, <1>2, <1>5, FirstIs, Zenon
  <2> QED BY <1>3, <2>1, Zenon DEF e
<1> QED BY <1>4, <1>5, Zenon

(* The first callback of a hook point: a deleted hook only when the code calls
   it directly. *)
LEMMA FirstCalleeIs ==
  ASSUME ListsOK, NEW f, FrameOK(f, hook), NEW h, h = FirstCallee(f)
  PROVE  /\ h = Nil \/ (h \in Handles /\ list_exists(hook[Event(f)], h))
         /\ h # Nil /\ hk[h].to_delete => f.code[Event(f)] = Inline(h)
<1> DEFINE e == Event(f)
<1>1. e \in Idx
  BY Zenon DEF Event, Idx
<1>2. f \in Frame /\ f.code[e] \in Calls
  BY <1>1, Zenon DEF FrameOK, Frame
<1>3. \/ f.code[e].via = "inline" /\ h = f.code[e].to
      \/ h = Nil \/ h = First(e, Alive(e))
  BY Zenon DEF FirstCallee, Callees
<1> HIDE DEF e
<1>4. CASE f.code[e].via = "inline" /\ h = f.code[e].to
  <2>1. h \in Handles /\ list_exists(hook[e], h)
    BY <1>1, <1>4, Zenon DEF FrameOK
  <2>2. f.code[e] = [via |-> f.code[e].via, to |-> f.code[e].to]
    BY <1>2, Zenon DEF Calls
  <2>3. f.code[e] = Inline(h)
    BY <1>4, <2>2, Zenon DEF Inline
  <2> QED BY <2>1, <2>3, Zenon DEF e
<1>5. CASE h = Nil
  BY <1>5, Zenon
<1>6. CASE h = First(e, Alive(e)) /\ Alive(e) = {}
  BY <1>6, Zenon DEF First
<1>7. CASE h = First(e, Alive(e)) /\ Alive(e) # {}
  <2>1. /\ First(e, Alive(e)) \in Handles /\ list_exists(hook[e], First(e, Alive(e)))
        /\ ~hk[First(e, Alive(e))].to_delete
    BY <1>1, <1>7, FirstIs, Zenon
  <2> QED BY <1>7, <2>1, Zenon DEF e
<1> QED BY <1>3, <1>4, <1>5, <1>6, <1>7, Zenon

(* When no block is cached, nothing is called directly. *)
LEMMA NoneCached ==
  NotCached \in [Idx -> Calls] /\ \A e \in Idx : NotCached[e].via # "inline"
  BY DEF NotCached, Calls

(* What the translated code calls directly stays valid. *)
LEMMA CacheKept ==
  ASSUME CacheOK, tb' = tb \/ tb' = NotCached,
         tb' = tb => \A e \in Idx : \A h \in Handles :
           Called(e, h) /\ hk[h].regions => Called(e, h)' /\ hk'[h].regions
  PROVE  CacheOK'
<1>2. CASE tb' = NotCached
  BY <1>2, NoneCached, Zenon DEF CacheOK
<1>3. CASE tb' = tb
  BY <1>3, Zenon DEF CacheOK
<1> QED BY <1>2, <1>3, Zenon

(* The steps that leave the lists and the cache alone. *)
LEMMA QuietStep ==
  ASSUME HooksIInv, UNCHANGED <<lists, count_hook, tb>>, LevelsOK', FlagsOK'
  PROVE  HooksIInv'
<1>1. hook' = hook /\ hk' = hk /\ tb' = tb /\ count_hook' = count_hook /\ UNCHANGED lists
  BY Zenon DEF lists
<1>2. ListsOK'
  BY <1>1, SameLists, Zenon DEF HooksIInv
<1>3. CacheOK' /\ CountFirst'
  BY <1>1, Zenon DEF HooksIInv, CacheOK, CountFirst, Called
<1> QED BY <1>2, <1>3, Zenon DEF HooksIInv

(* A frame goes on to a hook of its list, or to none. *)
LEMMA CallStep ==
  ASSUME HooksIInv, frames # <<>>, UNCHANGED <<lists, count_hook, tb>>, FlagsOK', NEW h,
         h = Nil \/ (h \in Handles /\ list_exists(hook[Event(Top)], h)),
         frames' = SetTop(Calling(Top, h))
  PROVE  /\ HooksIInv' /\ frames' # <<>>
         /\ \A i \in DOMAIN frames' : i \in DOMAIN frames /\
              \/ frames'[i] = frames[i]
              \/ /\ Event(frames'[i]) = Event(Top) /\ frames'[i].code = Top.code
                 /\ frames'[i].cur = h
                 /\ h = Nil => frames'[i].step # "in"
<1>1. LevelsOK /\ ListsOK /\ UNCHANGED lists
  BY Zenon DEF HooksIInv
<1>2. Grows /\ FrameOK(Top, hook)
  BY <1>1, SameLists, TopIs, Zenon
<1> DEFINE g == Calling(Top, h)
<1>3. /\ g \in Frame /\ FrameOK(g, hook')
      /\ Event(g) = Event(Top) /\ g.code = Top.code
      /\ g.cur = h /\ g.step = IF h = Nil THEN "exec" ELSE "in"
  BY <1>2, CallingFrame, Zenon
<1> HIDE DEF g
<1>4. frames' = SetTop(g)
  BY Zenon DEF g
<1>5. /\ LevelsOK' /\ DOMAIN frames' = DOMAIN frames /\ frames' # <<>>
      /\ \A i \in DOMAIN frames' : frames'[i] = frames[i] \/ frames'[i] = g
  BY <1>1, <1>2, <1>3, <1>4, SetTopLevels, Zenon
<1>6. HooksIInv'
  BY <1>5, QuietStep, Zenon
<1>7. h = Nil => g.step # "in"
  BY <1>3
<1> QED BY <1>3, <1>5, <1>6, <1>7, Zenon

-----------------------------------------------------------------------------
(* The actions *)

(* A hook that is added disturbs neither the cache nor any level. *)
LEMMA AddKeeps ==
  ASSUME ListsOK, CacheOK, NEW h \in Handles, hk[h].refs = 0, NEW types \in SUBSET Idx,
         NEW insert \in BOOLEAN, NEW counts \in BOOLEAN,
         SetLists(uc_hook_add(Lists, h, types, insert, counts)), tb' = tb
  PROVE  /\ ListsOK' /\ CacheOK' /\ Grows
         /\ \A x \in Handles \ {h} : hk'[x] = hk[x]
         /\ ~hk'[h].to_delete /\ hk'[h].counts = counts
         /\ \A e \in Idx : ~list_exists(hook[e], h)
<1>1. /\ ListsOK'
      /\ \A e \in Idx : \A x : list_exists(hook'[e], x)
                                 <=> list_exists(hook[e], x) \/ (e \in types /\ x = h)
      /\ \A x \in Handles \ {h} : hk'[x] = hk[x]
      /\ ~hk'[h].to_delete /\ hk'[h].counts = counts
  BY AddLists, Zenon
<1>2. \A e \in Idx : ~list_exists(hook[e], h)
  BY NoReferences, Zenon
<1>3. Grows
  BY <1>1, Zenon DEF Grows
<1>4. \A e \in Idx : \A x \in Handles :
        Called(e, x) /\ hk[x].regions => Called(e, x)' /\ hk'[x].regions
  BY <1>1, <1>2, <1>3, Zenon DEF Called, Grows
<1>5. CacheOK'
  BY <1>4, CacheKept, Zenon
<1> QED BY <1>1, <1>2, <1>3, <1>5, Zenon

(* The count hook is in the list of instructions. *)
LEMMA CountListed ==
  ASSUME CountFirst, count_hook # Nil
  PROVE  count_hook \in Handles /\ list_exists(hook["CODE"], count_hook)
  BY Zenon DEF CountFirst, list_exists

(* A hook is added at the end: what is in front of the count hook stays there. *)
LEMMA HookAddStep ==
  ASSUME HooksIInv, NEW h \in Handles, NEW types \in SUBSET Idx, HookAdd(h, types)
  PROVE  HooksIInv'
<1>1. /\ hk[h].refs = 0 /\ SetLists(uc_hook_add(Lists, h, types, FALSE, FALSE))
      /\ tb' = tb /\ frames' = frames /\ count_hook' = count_hook
      /\ emu_counter' = emu_counter /\ emu_count' = emu_count
      /\ stop_request' = stop_request /\ exit_flag' = exit_flag
  BY Zenon DEF HookAdd, counter, stop
<1>2. /\ ListsOK' /\ CacheOK' /\ Grows
      /\ \A x \in Handles \ {h} : hk'[x] = hk[x]
      /\ \A e \in Idx : ~list_exists(hook[e], h)
  BY <1>1, AddKeeps, Zenon DEF HooksIInv
<1>3. LevelsOK' /\ FlagsOK'
  BY <1>1, <1>2, LevelsKept, Zenon DEF HooksIInv, FlagsOK
<1>4. CountFirst'
  <2>1. CASE count_hook = Nil
    BY <1>1, <2>1, Zenon DEF HooksIInv, CountFirst
  <2>2. CASE count_hook # Nil
    <3>1. PICK i \in DOMAIN hook["CODE"] :
            /\ hook["CODE"][i] = count_hook
            /\ \A j \in 1 .. i - 1 : hk[hook["CODE"][j]].to_delete
      BY <2>2, Zenon DEF HooksIInv, CountFirst
    <3>2. /\ count_hook \in Handles /\ hk[count_hook].counts /\ ~hk[count_hook].to_delete
      BY <2>2, Zenon DEF HooksIInv, CountFirst
    <3>3. hook["CODE"] \in Seq(Handles)
      BY Zenon DEF HooksIInv, ListsOK, Idx
    <3>4. hook'["CODE"] = hook["CODE"] \/ hook'["CODE"] = Append(hook["CODE"], h)
      BY <1>1, Zenon DEF SetLists, uc_hook_add, Lists, Idx
    <3>5. \A j \in 1 .. i : j \in DOMAIN hook["CODE"] /\ j \in DOMAIN hook'["CODE"]
                              /\ hook'["CODE"][j] = hook["CODE"][j]
      BY <3>1, <3>3, <3>4
    <3>6. \A j \in 1 .. i : hook["CODE"][j] \in Handles \ {h}
      <4>1. \A j \in 1 .. i : list_exists(hook["CODE"], hook["CODE"][j])
        BY <3>5, Zenon DEF list_exists
      <4>2. \A j \in DOMAIN hook["CODE"] : hook["CODE"][j] \in Handles
        BY <3>3, ListFacts, Zenon
      <4> QED BY <1>2, <3>5, <4>1, <4>2, Zenon DEF Idx
    <3>7. i \in 1 .. i /\ \A j \in 1 .. i - 1 : j \in 1 .. i
      BY <3>1, <3>3
    <3>8. \A j \in 1 .. i - 1 : hk'[hook'["CODE"][j]].to_delete
      BY <1>2, <3>1, <3>5, <3>6, <3>7, Zenon
    <3>9. hk'[count_hook] = hk[count_hook] /\ i \in DOMAIN hook'["CODE"]
            /\ hook'["CODE"][i] = count_hook
      BY <1>2, <3>1, <3>5, <3>6, <3>7, Zenon
    <3> QED BY <1>1, <3>2, <3>8, <3>9, Zenon DEF CountFirst
  <2> QED BY <2>1, <2>2, Zenon
<1> QED BY <1>2, <1>3, <1>4, Zenon DEF HooksIInv

(* A hook is deleted: the cached block goes if it may call it. *)
LEMMA HookDelStep ==
  ASSUME HooksIInv, NEW h \in Handles, HookDel(h)
  PROVE  HooksIInv'
<1>1. /\ ~hk[h].to_delete /\ ~hk[h].counts /\ SetLists(uc_hook_del(Lists, h))
      /\ tb' = Invalidate(h) /\ frames' = frames /\ count_hook' = count_hook
      /\ emu_counter' = emu_counter /\ emu_count' = emu_count
      /\ stop_request' = stop_request /\ exit_flag' = exit_flag
  BY Zenon DEF HookDel, counter, stop
<1>2. /\ ListsOK' /\ hook' = hook
      /\ \A x \in Handles \ {h} : hk'[x] = hk[x]
      /\ hk'[h].to_delete
  BY <1>1, DelLists, Zenon DEF HooksIInv
<1>3. Grows
  BY <1>2, Zenon DEF Grows
<1>4. LevelsOK' /\ FlagsOK'
  BY <1>1, <1>3, LevelsKept, Zenon DEF HooksIInv, FlagsOK
<1>5. CacheOK'
  <2>1. CASE hk[h].regions
    <3>1. tb' = NotCached
      BY <1>1, <2>1, Zenon DEF Invalidate
    <3> QED BY <3>1, NoneCached, Zenon DEF CacheOK
  <2>2. CASE ~hk[h].regions
    <3>1. tb' = tb
      BY <1>1, <2>2, Zenon DEF Invalidate
    <3>2. \A e \in Idx : \A x \in Handles :
            Called(e, x) /\ hk[x].regions => Called(e, x)' /\ hk'[x].regions
      BY <1>2, <2>2, Zenon DEF Called
    <3> QED BY <3>1, <3>2, CacheKept, Zenon DEF HooksIInv
  <2> QED BY <2>1, <2>2, Zenon
<1>6. CountFirst'
  <2>1. CASE count_hook = Nil
    BY <1>1, <2>1, Zenon DEF HooksIInv, CountFirst
  <2>2. CASE count_hook # Nil
    <3>1. PICK i \in DOMAIN hook["CODE"] :
            /\ hook["CODE"][i] = count_hook
            /\ \A j \in 1 .. i - 1 : hk[hook["CODE"][j]].to_delete
      BY <2>2, Zenon DEF HooksIInv, CountFirst
    <3>2. count_hook \in Handles \ {h} /\ hk[count_hook].counts /\ ~hk[count_hook].to_delete
      BY <1>1, <2>2, Zenon DEF HooksIInv, CountFirst
    <3>3. hook["CODE"] \in Seq(Handles)
      BY Zenon DEF HooksIInv, ListsOK, Idx
    <3>4. \A j \in 1 .. i - 1 : hook["CODE"][j] \in Handles
      BY <3>1, <3>3
    <3>5. \A j \in 1 .. i - 1 : hk'[hook["CODE"][j]].to_delete
      BY <1>2, <3>1, <3>4, Zenon
    <3> QED BY <1>1, <1>2, <3>1, <3>2, <3>5, Zenon DEF CountFirst
  <2> QED BY <2>1, <2>2, Zenon
<1> QED BY <1>2, <1>4, <1>5, <1>6, Zenon DEF HooksIInv

(* A new level has called nothing yet. *)
LEMMA NewLevel ==
  ASSUME LevelsOK, Grows, LevelFree, frames' = Append(frames, Level)
  PROVE  /\ LevelsOK' /\ frames' # <<>>
         /\ \A i \in DOMAIN frames' : (i \in DOMAIN frames /\ frames'[i] = frames[i])
                                        \/ frames'[i].step # "in"
<1>1. frames \in Seq(Frame) /\ Len(frames) < UC_MAX_NESTED_LEVEL
  BY Zenon DEF LevelsOK, LevelFree, nested_level
<1>2. /\ Level \in Frame /\ Level.code = NotCached /\ Level.step = "enter"
  <2>1. NotCached \in [Idx -> Calls]
    BY NoneCached, Zenon
  <2>2. 0 \in 0 .. Insns
    BY HooksAssumption
  <2> QED BY <2>1, <2>2, Zenon DEF Level, Frame
<1>3. FrameOK(Level, hook') /\ Level.step # "in"
  <2>1. "enter" # "in"
    OBVIOUS
  <2>2. Level.step # "in"
    BY <1>2, <2>1, Zenon
  <2> QED BY <1>2, <2>2, NoneCached, Zenon DEF FrameOK
<1> DEFINE v == Level
<1> HIDE DEF v
<1>4. v \in Frame /\ frames' = Append(frames, v)
  BY <1>2, Zenon DEF v
<1>5. /\ frames' \in Seq(Frame) /\ Len(frames') <= UC_MAX_NESTED_LEVEL /\ frames' # <<>>
      /\ \A i \in DOMAIN frames' : (i \in DOMAIN frames /\ frames'[i] = frames[i])
                                     \/ frames'[i] = v
  BY <1>1, <1>4, HooksAssumption
<1>6. \A i \in DOMAIN frames' : FrameOK(frames'[i], hook')
  BY <1>3, <1>5, FrameKept, Zenon DEF LevelsOK, v
<1> QED BY <1>3, <1>5, <1>6, Zenon DEF LevelsOK, v

(* A level starts, and the count hook comes in front of its list or goes. *)
LEMMA EmuStartStep ==
  ASSUME HooksIInv, NEW count \in Counts, EmuStart(count)
  PROVE  /\ HooksIInv' /\ frames' # <<>>
         /\ \A i \in DOMAIN frames' : (i \in DOMAIN frames /\ frames'[i] = frames[i])
                                        \/ frames'[i].step # "in"
<1>1. /\ LevelFree /\ frames' = Append(frames, Level)
      /\ stop_request' = FALSE /\ exit_flag' = FALSE
      /\ emu_counter' = 0 /\ emu_count' = count
  BY Zenon DEF EmuStart
<1>2. FlagsOK'
  <2>1. count \in Nat /\ 0 \in Nat
    BY HooksAssumption
  <2> QED BY <1>1, <2>1, Zenon DEF FlagsOK
<1>3. \/ /\ count_hook # Nil /\ SetLists(uc_hook_del(Lists, count_hook))
         /\ count_hook' = Nil /\ tb' = NotCached
      \/ \E h \in Handles :
           /\ hk[h].refs = 0 /\ SetLists(uc_hook_add(Lists, h, {"CODE"}, TRUE, TRUE))
           /\ count_hook' = h /\ tb' = tb
      \/ UNCHANGED <<lists, count_hook, tb>>
  BY Zenon DEF EmuStart
<1>4. ASSUME count_hook # Nil, SetLists(uc_hook_del(Lists, count_hook)),
             count_hook' = Nil, tb' = NotCached
      PROVE  Grows /\ ListsOK' /\ CacheOK' /\ CountFirst'
  <2>1. count_hook \in Handles /\ ~hk[count_hook].to_delete
    BY <1>4, Zenon DEF HooksIInv, CountFirst
  <2>2. ListsOK' /\ hook' = hook
    BY <1>4, <2>1, DelLists, Zenon DEF HooksIInv
  <2> QED BY <1>4, <2>2, NoneCached, Zenon DEF Grows, CacheOK, CountFirst
<1>5. ASSUME NEW h \in Handles, hk[h].refs = 0, tb' = tb, count_hook' = h,
             SetLists(uc_hook_add(Lists, h, {"CODE"}, TRUE, TRUE))
      PROVE  Grows /\ ListsOK' /\ CacheOK' /\ CountFirst'
  <2>1. {"CODE"} \in SUBSET Idx
    BY Zenon DEF Idx
  <2>2. TRUE \in BOOLEAN
    BY Zenon
  <2>3. /\ Grows /\ ListsOK' /\ CacheOK'
        /\ ~hk'[h].to_delete /\ hk'[h].counts = TRUE
    BY <1>5, <2>1, <2>2, AddKeeps, Zenon DEF HooksIInv
  <2>4. hook'["CODE"] = <<h>> \o hook["CODE"] /\ hook["CODE"] \in Seq(Handles)
    BY <1>5, Zenon DEF SetLists, uc_hook_add, Lists, Idx, HooksIInv, ListsOK
  <2>5. 1 \in DOMAIN hook'["CODE"] /\ hook'["CODE"][1] = h /\ 1 .. 1 - 1 = {}
    BY <2>4
  <2>6. CountFirst'
    BY <1>5, <2>3, <2>5, Zenon DEF CountFirst
  <2> QED BY <2>3, <2>6, Zenon
<1>6. ASSUME UNCHANGED <<lists, count_hook, tb>>
      PROVE  Grows /\ ListsOK' /\ CacheOK' /\ CountFirst'
  <2>1. hook' = hook /\ hk' = hk /\ tb' = tb /\ count_hook' = count_hook /\ UNCHANGED lists
    BY <1>6, Zenon DEF lists
  <2>2. Grows /\ ListsOK'
    BY <2>1, SameLists, Zenon DEF HooksIInv
  <2>3. CacheOK' /\ CountFirst'
    BY <2>1, Zenon DEF HooksIInv, CacheOK, CountFirst, Called
  <2> QED BY <2>2, <2>3, Zenon
<1>7. Grows /\ ListsOK' /\ CacheOK' /\ CountFirst'
  BY <1>3, <1>4, <1>5, <1>6, Zenon
<1>8. /\ LevelsOK' /\ frames' # <<>>
      /\ \A i \in DOMAIN frames' : (i \in DOMAIN frames /\ frames'[i] = frames[i])
                                     \/ frames'[i].step # "in"
  BY <1>1, <1>7, NewLevel, Zenon DEF HooksIInv
<1> QED BY <1>2, <1>7, <1>8, Zenon DEF HooksIInv

(* The code that a block is translated to. *)
LEMMA TranslatedIs ==
  ASSUME ListsOK
  PROVE  /\ Translated \in [Idx -> Calls]
         /\ \A e \in Idx : Translated[e].via = "inline" =>
              /\ Translated[e].to \in Handles /\ Called(e, Translated[e].to)
              /\ \E i \in Alive(e) : hook[e][i] = Translated[e].to
<1>1. ASSUME NEW e \in Idx
      PROVE  /\ gen_uc_tracecode(e) \in Calls
             /\ gen_uc_tracecode(e).via = "inline" =>
                  /\ gen_uc_tracecode(e).to \in Handles /\ Called(e, gen_uc_tracecode(e).to)
                  /\ \E i \in Alive(e) : hook[e][i] = gen_uc_tracecode(e).to
  <2>1. CASE gen_uc_tracecode(e) = NoCall \/ gen_uc_tracecode(e) = Helper
    BY <2>1 DEF NoCall, Helper, Calls
  <2>2. CASE Alive(e) # {} /\ gen_uc_tracecode(e) = Inline(First(e, Alive(e)))
    <3>1. /\ \E i \in Alive(e) : hook[e][i] = First(e, Alive(e))
          /\ First(e, Alive(e)) \in Handles /\ list_exists(hook[e], First(e, Alive(e)))
          /\ ~hk[First(e, Alive(e))].to_delete
      BY <2>2, FirstIs, Zenon
    <3> DEFINE h == First(e, Alive(e))
    <3> HIDE DEF h
    <3>2. Inline(h).to = h /\ (h \in Handles => Inline(h) \in Calls)
      BY Zenon DEF Inline, Calls
    <3> QED BY <2>2, <3>1, <3>2, Zenon DEF h, Called
  <2> QED BY <2>1, <2>2, Zenon DEF gen_uc_tracecode
<1> QED BY <1>1, Zenon DEF Translated

(* A hook object whose regions have the block, or as it was. *)
LEMMA RegionHook ==
  ASSUME NEW obj \in Hook, NEW r, r = obj \/ r = [obj EXCEPT !.regions = TRUE]
  PROVE  r \in Hook /\ r.refs = obj.refs /\ r.to_delete = obj.to_delete /\ r.counts = obj.counts
  BY Zenon DEF Hook

(* hooked_regions_check changes no count, mark or list. *)
LEMMA RegionsLists ==
  ASSUME ListsOK, hook' = hook, hooks_count' = hooks_count, hooks_to_del' = hooks_to_del,
         hk' = hooked_regions_check
  PROVE  /\ ListsOK'
         /\ \A h \in Handles : /\ hk'[h].to_delete = hk[h].to_delete
                               /\ hk'[h].counts = hk[h].counts
         /\ \A e \in Idx : \A i \in Alive(e) : hk'[hook[e][i]].regions
<1>1. /\ hook \in [Idx -> Seq(Handles)] /\ hooks_count \in [Idx -> Int]
      /\ hooks_to_del \in Seq(Handles) /\ hk \in [Handles -> Hook]
      /\ \A e \in Idx : Once(hook[e])
      /\ \A e \in Idx : hooks_count[e] = Cardinality(Alive(e))
      /\ \A h \in Handles : Counted(h)
  BY Zenon DEF ListsOK, CountsAgree
<1>2. \A h \in Handles : hk'[h] = hk[h] \/ hk'[h] = [hk[h] EXCEPT !.regions = TRUE]
  BY Zenon DEF hooked_regions_check
<1>3. \A h \in Handles : /\ hk'[h] \in Hook /\ hk'[h].refs = hk[h].refs
                         /\ hk'[h].to_delete = hk[h].to_delete
                         /\ hk'[h].counts = hk[h].counts
  BY <1>1, <1>2, RegionHook, Zenon
<1>4. hk' \in [Handles -> Hook]
  <2>1. hk' = [h \in Handles |-> hk'[h]]
    BY Zenon DEF hooked_regions_check
  <2> QED BY <1>3, <2>1, Zenon
<1>5. \A e \in Idx : \A i \in DOMAIN hook[e] : hook[e][i] \in Handles
  BY <1>1, ListFacts, Zenon
<1>6. \A e \in Idx : Alive(e)' = Alive(e)
  BY <1>3, <1>5, Zenon DEF Alive
<1>7. \A h : In(Lists', h) = In(Lists, h)
  BY ListsFields, Zenon DEF In
<1>8. \A h \in Handles : Counted(h)'
  BY <1>1, <1>3, <1>7, Zenon DEF Counted
<1>9. ASSUME NEW e \in Idx, NEW i \in Alive(e) PROVE hk'[hook[e][i]].regions
  <2>1. hook[e][i] \in Handles
    BY <1>5, Zenon DEF Alive
  <2>2. hk'[hook[e][i]] = [hk[hook[e][i]] EXCEPT !.regions = TRUE]
    BY <2>1, Zenon DEF hooked_regions_check
  <2>3. "regions" \in DOMAIN hk[hook[e][i]]
    BY <1>1, <2>1, Zenon DEF Hook
  <2> QED BY <2>2, <2>3, Zenon
<1>10. ListsOK'
  BY <1>1, <1>4, <1>6, <1>8, Zenon DEF ListsOK, CountsAgree
<1> QED BY <1>3, <1>9, <1>10, Zenon

(* A block is entered: what it calls directly is alive, now or when it was cached. *)
LEMMA EnterBlockStep ==
  ASSUME HooksIInv, EnterBlock
  PROVE  /\ HooksIInv' /\ frames' # <<>>
         /\ \A i \in DOMAIN frames' : (i \in DOMAIN frames /\ frames'[i] = frames[i])
                                        \/ frames'[i].step # "in"
<1> DEFINE f == [Top EXCEPT !.step = "hooks", !.code = tb', !.at = 0]
<1>1. /\ frames # <<>> /\ frames' = SetTop(f)
      /\ hook' = hook /\ hooks_count' = hooks_count /\ hooks_to_del' = hooks_to_del
      /\ count_hook' = count_hook
      /\ emu_counter' = emu_counter /\ emu_count' = emu_count
      /\ stop_request' = stop_request /\ exit_flag' = exit_flag
  BY Zenon DEF EnterBlock, counter, stop
<1>2. \/ tb' = tb /\ hk' = hk
      \/ tb' = Translated /\ hk' = hooked_regions_check
  BY Zenon DEF EnterBlock
<1>3. Grows
  BY <1>1, Zenon DEF Grows
<1>4. ListsOK' /\ CacheOK' /\ CountFirst'
  <2>1. ASSUME tb' = tb, hk' = hk PROVE ListsOK' /\ CacheOK' /\ CountFirst'
    <3>1. UNCHANGED lists
      BY <1>1, <2>1, Zenon DEF lists
    <3>2. ListsOK'
      BY <3>1, SameLists, Zenon DEF HooksIInv
    <3> QED BY <1>1, <2>1, <3>2, Zenon DEF HooksIInv, CacheOK, CountFirst, Called
  <2>2. ASSUME tb' = Translated, hk' = hooked_regions_check
        PROVE  ListsOK' /\ CacheOK' /\ CountFirst'
    <3>1. /\ ListsOK'
          /\ \A h \in Handles : /\ hk'[h].to_delete = hk[h].to_delete
                                /\ hk'[h].counts = hk[h].counts
          /\ \A e \in Idx : \A i \in Alive(e) : hk'[hook[e][i]].regions
      BY <1>1, <2>2, RegionsLists, Zenon DEF HooksIInv
    <3>2. /\ Translated \in [Idx -> Calls]
          /\ \A e \in Idx : Translated[e].via = "inline" =>
               /\ Translated[e].to \in Handles /\ Called(e, Translated[e].to)
               /\ \E i \in Alive(e) : hook[e][i] = Translated[e].to
      BY TranslatedIs, Zenon DEF HooksIInv
    <3>3. \A e \in Idx : \A h \in Handles : Called(e, h) => Called(e, h)'
      BY <1>1, <3>1, Zenon DEF Called
    <3>4. CacheOK'
      BY <2>2, <3>1, <3>2, <3>3, Zenon DEF CacheOK
    <3>5. CountFirst'
      <4>1. CountFirst /\ hook["CODE"] \in Seq(Handles)
        BY Zenon DEF HooksIInv, ListsOK, Idx
      <4>2. \A i \in DOMAIN hook["CODE"] : \A j \in 1 .. i - 1 : hook["CODE"][j] \in Handles
        BY <4>1
      <4>3. CASE count_hook = Nil
        BY <1>1, <4>1, <4>3, Zenon DEF CountFirst
      <4>4. CASE count_hook # Nil
        <5>1. PICK i \in DOMAIN hook["CODE"] :
                /\ hook["CODE"][i] = count_hook
                /\ \A j \in 1 .. i - 1 : hk[hook["CODE"][j]].to_delete
          BY <4>1, <4>4, Zenon DEF CountFirst
        <5>2. /\ count_hook \in Handles /\ hk'[count_hook].counts
              /\ ~hk'[count_hook].to_delete
          BY <3>1, <4>1, <4>4, Zenon DEF CountFirst
        <5>3. \A j \in 1 .. i - 1 : hk'[hook["CODE"][j]].to_delete
          BY <3>1, <4>2, <5>1, Zenon
        <5> QED BY <1>1, <5>1, <5>2, <5>3, Zenon DEF CountFirst
      <4> QED BY <4>3, <4>4, Zenon
    <3> QED BY <3>1, <3>4, <3>5, Zenon
  <2> QED BY <1>2, <2>1, <2>2, Zenon
<1>5. /\ f \in Frame /\ f.code = tb' /\ f.step = "hooks"
  <2>1. Top \in Frame /\ tb' \in [Idx -> Calls]
    BY <1>1, <1>4, TopIs, Zenon DEF HooksIInv, CacheOK
  <2>2. 0 \in 0 .. Insns
    BY HooksAssumption
  <2> QED BY <2>1, <2>2, Zenon DEF Frame
<1> HIDE DEF f
<1>6. f.step # "in"
  BY <1>5
<1>7. FrameOK(f, hook')
  BY <1>4, <1>5, <1>6, Zenon DEF FrameOK, CacheOK, Called
<1>8. /\ LevelsOK' /\ DOMAIN frames' = DOMAIN frames /\ frames' # <<>>
      /\ \A i \in DOMAIN frames' : frames'[i] = frames[i] \/ frames'[i] = f
  BY <1>1, <1>3, <1>5, <1>7, SetTopLevels, Zenon DEF HooksIInv
<1>9. FlagsOK'
  BY <1>1, Zenon DEF HooksIInv, FlagsOK
<1> QED BY <1>4, <1>6, <1>8, <1>9, Zenon DEF HooksIInv

(* An instruction is executed. *)
LEMMA ExecuteStep ==
  ASSUME HooksIInv, Execute
  PROVE  /\ HooksIInv' /\ frames' # <<>>
         /\ \A i \in DOMAIN frames' : (i \in DOMAIN frames /\ frames'[i] = frames[i])
                                        \/ frames'[i].step # "in"
<1> DEFINE f == IF Top.at < Insns THEN [Top EXCEPT !.at = @ + 1, !.step = "hooks"]
                                  ELSE [Top EXCEPT !.step = "enter"]
<1>1. /\ frames # <<>> /\ frames' = SetTop(f)
      /\ UNCHANGED <<lists, count_hook, tb>> /\ UNCHANGED lists
      /\ emu_counter' = emu_counter /\ emu_count' = emu_count
      /\ stop_request' = stop_request /\ exit_flag' = exit_flag
  BY Zenon DEF Execute, counter, stop
<1>2. Top \in Frame /\ FrameOK(Top, hook)
  BY <1>1, TopIs, Zenon DEF HooksIInv
<1>3. /\ f \in Frame /\ f.code = Top.code /\ f.step \in {"hooks", "enter"}
  <2>1. CASE Top.at < Insns
    <3>1. Top.at + 1 \in 0 .. Insns
      BY <1>2, <2>1, HooksAssumption DEF Frame
    <3> QED BY <1>2, <2>1, <3>1, Zenon DEF Frame
  <2>2. CASE ~(Top.at < Insns)
    BY <1>2, <2>2, Zenon DEF Frame
  <2> QED BY <2>1, <2>2, Zenon
<1> HIDE DEF f
<1>4. f.step # "in"
  BY <1>3
<1>5. Grows /\ hook' = hook
  BY <1>1, SameLists, Zenon DEF HooksIInv, lists
<1>6. FrameOK(f, hook')
  BY <1>2, <1>3, <1>4, <1>5, Zenon DEF FrameOK
<1>7. /\ LevelsOK' /\ DOMAIN frames' = DOMAIN frames /\ frames' # <<>>
      /\ \A i \in DOMAIN frames' : frames'[i] = frames[i] \/ frames'[i] = f
  BY <1>1, <1>3, <1>5, <1>6, SetTopLevels, Zenon DEF HooksIInv
<1>8. FlagsOK'
  BY <1>1, Zenon DEF HooksIInv, FlagsOK
<1>9. HooksIInv'
  BY <1>1, <1>7, <1>8, QuietStep, Zenon
<1> QED BY <1>4, <1>7, <1>9, Zenon

(* A level is left, and the outermost one sweeps. *)
LEMMA EmuReturnsStep ==
  ASSUME HooksIInv, EmuReturns
  PROVE  /\ HooksIInv'
         /\ \A i \in DOMAIN frames' : i \in DOMAIN frames /\ frames'[i] = frames[i]
         /\ frames' = <<>> => hooks_to_del' = <<>> /\ \A h \in Handles : ~hk'[h].to_delete
<1>1. /\ frames # <<>> /\ frames' = SubSeq(frames, 1, nested_level - 1)
      /\ tb' \in {tb, NotCached} /\ count_hook' = count_hook
      /\ emu_counter' = emu_counter /\ emu_count' = emu_count
      /\ stop_request' = stop_request /\ exit_flag' = FALSE
  BY Zenon DEF EmuReturns, LeaveLevel, counter
<1>2. /\ nested_level \in Nat \ {0} /\ DOMAIN frames = 1 .. nested_level
      /\ frames \in Seq(Frame) /\ Len(frames) = nested_level
      /\ nested_level <= UC_MAX_NESTED_LEVEL
  BY <1>1, TopIs, Zenon DEF HooksIInv, LevelsOK, nested_level
<1>3. /\ frames' \in Seq(Frame) /\ Len(frames') = nested_level - 1
      /\ Len(frames') <= UC_MAX_NESTED_LEVEL
      /\ \A i \in DOMAIN frames' : i \in DOMAIN frames /\ frames'[i] = frames[i]
  BY <1>1, <1>2, HooksAssumption
<1>4. FlagsOK'
  BY <1>1, Zenon DEF HooksIInv, FlagsOK
<1>5. ASSUME nested_level = 1
      PROVE  /\ ListsOK' /\ CacheOK' /\ LevelsOK' /\ CountFirst'
             /\ hooks_to_del' = <<>> /\ \A h \in Handles : ~hk'[h].to_delete
  <2>1. SetLists(clear_deleted_hooks(Lists))
    BY <1>5, Zenon DEF EmuReturns, LeaveLevel
  <2>2. /\ ListsOK' /\ hooks_to_del' = <<>>
        /\ \A h \in Handles : ~hk'[h].to_delete
        /\ \A h \in Handles : ~hk[h].to_delete /\ hk[h].refs # 0 => hk'[h] = hk[h]
        /\ \A e \in Idx : \A h \in Handles :
             list_exists(hook'[e], h) <=> list_exists(hook[e], h) /\ ~hk[h].to_delete
        /\ \A e \in Idx : \A i \in 1 .. Len(hook[e]) :
             ~hk[hook[e][i]].to_delete /\ (\A j \in 1 .. i - 1 : hk[hook[e][j]].to_delete)
               => 1 \in DOMAIN hook'[e] /\ hook'[e][1] = hook[e][i]
    BY <2>1, SweepLists, Zenon DEF HooksIInv
  <2>3. \A e \in Idx : \A h \in Handles :
          list_exists(hook[e], h) /\ ~hk[h].to_delete => hk'[h] = hk[h]
    BY <2>2, InList, Zenon DEF HooksIInv
  <2>4. \A e \in Idx : \A h \in Handles :
          Called(e, h) /\ hk[h].regions => Called(e, h)' /\ hk'[h].regions
    BY <2>2, <2>3, Zenon DEF Called
  <2>5. CacheOK'
    <3>1. tb' = tb \/ tb' = NotCached
      BY <1>1, Zenon
    <3> QED BY <2>4, <3>1, CacheKept, Zenon DEF HooksIInv
  <2>6. LevelsOK'
    <3>1. DOMAIN frames' = {}
      BY <1>3, <1>5, SMTT(30)
    <3> QED BY <1>3, <3>1, Zenon DEF LevelsOK
  <2>7. CountFirst'
    <3>1. CASE count_hook = Nil
      BY <1>1, <3>1, Zenon DEF HooksIInv, CountFirst
    <3>2. CASE count_hook # Nil
      <4>1. PICK i \in DOMAIN hook["CODE"] :
              /\ hook["CODE"][i] = count_hook
              /\ \A j \in 1 .. i - 1 : hk[hook["CODE"][j]].to_delete
        BY <3>2, Zenon DEF HooksIInv, CountFirst
      <4>2. /\ count_hook \in Handles /\ hk[count_hook].counts /\ ~hk[count_hook].to_delete
            /\ list_exists(hook["CODE"], count_hook)
        BY <3>2, CountListed, Zenon DEF HooksIInv, CountFirst
      <4>3. i \in 1 .. Len(hook["CODE"]) /\ "CODE" \in Idx
        <5>1. hook["CODE"] \in Seq(Handles)
          BY Zenon DEF HooksIInv, ListsOK, Idx
        <5> QED BY <4>1, <5>1, ListFacts, Zenon DEF Idx
      <4>4. 1 \in DOMAIN hook'["CODE"] /\ hook'["CODE"][1] = count_hook
        BY <2>2, <4>1, <4>2, <4>3, Zenon
      <4>5. hk'[count_hook] = hk[count_hook]
        BY <2>3, <4>2, <4>3, Zenon
      <4>6. 1 .. 1 - 1 = {}
        OBVIOUS
      <4> QED BY <1>1, <4>2, <4>4, <4>5, <4>6, Zenon DEF CountFirst
    <3> QED BY <3>1, <3>2, Zenon
  <2> QED BY <2>2, <2>5, <2>6, <2>7, Zenon
<1>6. ASSUME nested_level # 1
      PROVE  /\ ListsOK' /\ CacheOK' /\ LevelsOK' /\ CountFirst' /\ frames' # <<>>
  <2>1. UNCHANGED lists
    BY <1>6, Zenon DEF EmuReturns, LeaveLevel
  <2>2. hook' = hook /\ hk' = hk /\ ListsOK' /\ Grows
    BY <2>1, SameLists, Zenon DEF lists, HooksIInv
  <2>3. CacheOK'
    <3>1. tb' = tb \/ tb' = NotCached
      BY <1>1, Zenon
    <3> QED BY <2>2, <3>1, CacheKept, Zenon DEF HooksIInv, Called
  <2>4. CountFirst'
    BY <1>1, <2>2, Zenon DEF HooksIInv, CountFirst
  <2>5. LevelsOK'
    BY <1>3, <2>2, FrameKept, Zenon DEF HooksIInv, LevelsOK
  <2>6. frames' # <<>>
    BY <1>2, <1>3, <1>6
  <2> QED BY <2>2, <2>3, <2>4, <2>5, <2>6, Zenon
<1> QED BY <1>3, <1>4, <1>5, <1>6, Zenon DEF HooksIInv

(* What a step never does: it lets no frame call a deleted hook, unless the
   frame's own code does and is no longer cached; and it leaves the outermost
   level with no hook deleted. *)
CallsLive ==
  \A i \in DOMAIN frames' :
    \/ i \in DOMAIN frames /\ frames'[i] = frames[i]
    \/ frames'[i].step # "in"
    \/ ~hk[frames'[i].cur].to_delete
    \/ frames'[i].code[Event(frames'[i])] = Inline(frames'[i].cur) /\ frames'[i].code # tb

LeavesClean ==
  frames' = <<>> =>
    frames = <<>> \/ (hooks_to_del' = <<>> /\ \A h \in Handles : ~hk'[h].to_delete)

(* A callback returns and the walk goes on to a hook that is not deleted. *)
LEMMA ReturnStep ==
  ASSUME HooksIInv, frames # <<>>, UNCHANGED <<lists, count_hook, tb>>, FlagsOK',
         NEW stopped, frames' = SetTop(Calling(Top, NextCallee(Top, stopped)))
  PROVE  HooksIInv' /\ CallsLive /\ LeavesClean
<1> DEFINE h == NextCallee(Top, stopped)
<1>1. FrameOK(Top, hook) /\ ListsOK
  BY TopIs, Zenon DEF HooksIInv
<1>2. h = Nil \/ (h \in Handles /\ list_exists(hook[Event(Top)], h) /\ ~hk[h].to_delete)
  BY <1>1, NextCalleeIs, Zenon
<1> HIDE DEF h
<1>3. frames' = SetTop(Calling(Top, h))
  BY Zenon DEF h
<1>4. /\ HooksIInv' /\ frames' # <<>>
      /\ \A i \in DOMAIN frames' : i \in DOMAIN frames /\
           \/ frames'[i] = frames[i]
           \/ /\ frames'[i].cur = h
              /\ h = Nil => frames'[i].step # "in"
  BY <1>2, <1>3, CallStep, Zenon
<1> QED BY <1>2, <1>4, Zenon DEF CallsLive, LeavesClean

(* A hook point calls its first hook. *)
LEMMA CallHooksStep ==
  ASSUME HooksIInv, CallHooks
  PROVE  HooksIInv' /\ CallsLive /\ LeavesClean
<1> DEFINE h == FirstCallee(Top)
<1>1. /\ frames # <<>> /\ UNCHANGED <<lists, count_hook, tb>> /\ frames' = SetTop(Calling(Top, h))
      /\ emu_counter' = emu_counter /\ emu_count' = emu_count
      /\ stop_request' = stop_request /\ exit_flag' = exit_flag
  BY Zenon DEF CallHooks, counter, stop
<1>2. FrameOK(Top, hook) /\ ListsOK /\ CacheOK
  BY <1>1, TopIs, Zenon DEF HooksIInv
<1>3. /\ h = Nil \/ (h \in Handles /\ list_exists(hook[Event(Top)], h))
      /\ h # Nil /\ hk[h].to_delete => Top.code[Event(Top)] = Inline(h)
  BY <1>2, FirstCalleeIs, Zenon
<1> HIDE DEF h
<1>4. FlagsOK'
  BY <1>1, Zenon DEF HooksIInv, FlagsOK
<1>5. /\ HooksIInv' /\ frames' # <<>>
      /\ \A i \in DOMAIN frames' : i \in DOMAIN frames /\
           \/ frames'[i] = frames[i]
           \/ /\ Event(frames'[i]) = Event(Top) /\ frames'[i].code = Top.code
              /\ frames'[i].cur = h
              /\ h = Nil => frames'[i].step # "in"
  BY <1>1, <1>3, <1>4, CallStep, Zenon
<1>6. h # Nil /\ hk[h].to_delete => Top.code # tb
  <2>1. Event(Top) \in Idx
    BY Zenon DEF Event, Idx
  <2>2. Inline(h).via = "inline" /\ Inline(h).to = h
    BY Zenon DEF Inline
  <2> QED BY <1>2, <1>3, <2>1, <2>2, Zenon DEF CacheOK, Called
<1> QED BY <1>3, <1>5, <1>6, Zenon DEF CallsLive, LeavesClean

(* hook_count_cb counts and returns. *)
LEMMA CountCallbackStep ==
  ASSUME HooksIInv, CountCallback
  PROVE  HooksIInv' /\ CallsLive /\ LeavesClean
<1>1. /\ frames # <<>> /\ UNCHANGED <<lists, count_hook, tb>>
      /\ frames' = SetTop(Calling(Top, NextCallee(Top, stop_request')))
      /\ emu_counter' = emu_counter + 1 /\ emu_count' = emu_count
      /\ \/ stop_request' = TRUE /\ exit_flag' = TRUE
         \/ stop_request' = stop_request /\ exit_flag' = exit_flag
  BY Zenon DEF CountCallback, uc_emu_stop, stop
<1>2. emu_counter + 1 \in Nat /\ TRUE \in BOOLEAN
  BY DEF HooksIInv, FlagsOK
<1>3. FlagsOK'
  BY <1>1, <1>2, Zenon DEF HooksIInv, FlagsOK
<1> QED BY <1>1, <1>3, ReturnStep, Zenon

(* Every action keeps the invariant and respects both rules. *)
LEMMA NextStep ==
  ASSUME HooksIInv, HooksNext
  PROVE  HooksIInv' /\ CallsLive /\ LeavesClean
<1>1. ASSUME NEW h \in Handles, HookDel(h) PROVE HooksIInv' /\ CallsLive /\ LeavesClean
  <2>1. HooksIInv' /\ frames' = frames
    BY <1>1, HookDelStep, Zenon DEF HookDel
  <2> QED BY <2>1, Zenon DEF CallsLive, LeavesClean
<1>2. ASSUME NEW h \in Handles, NEW types \in SUBSET Idx \ {{}}, HookAdd(h, types)
      PROVE  HooksIInv' /\ CallsLive /\ LeavesClean
  <2>1. types \in SUBSET Idx
    BY Zenon
  <2>2. HooksIInv' /\ frames' = frames
    BY <1>2, <2>1, HookAddStep, Zenon DEF HookAdd
  <2> QED BY <2>2, Zenon DEF CallsLive, LeavesClean
<1>3. ASSUME NEW count \in Counts, EmuStart(count)
      PROVE  HooksIInv' /\ CallsLive /\ LeavesClean
  BY <1>3, EmuStartStep, Zenon DEF CallsLive, LeavesClean
<1>4. CASE StartRefused
  <2>1. /\ UNCHANGED <<lists, count_hook, tb>> /\ frames' = frames
        /\ emu_counter' = 0 /\ emu_count' = emu_count
        /\ stop_request' = stop_request /\ exit_flag' = exit_flag
    BY <1>4, Zenon DEF StartRefused, stop
  <2>2. 0 \in Nat
    OBVIOUS
  <2>3. FlagsOK' /\ LevelsOK'
    <3>1. UNCHANGED lists
      BY <2>1, Zenon
    <3>2. Grows
      BY <3>1, SameLists, Zenon DEF HooksIInv
    <3> QED BY <2>1, <2>2, <3>2, LevelsKept, Zenon DEF FlagsOK, HooksIInv
  <2>4. HooksIInv'
    BY <2>1, <2>3, QuietStep, Zenon
  <2> QED BY <2>1, <2>4, Zenon DEF CallsLive, LeavesClean
<1>5. CASE EmuStop
  <2>1. /\ UNCHANGED <<lists, count_hook, tb>> /\ frames' = frames
        /\ emu_counter' = emu_counter /\ emu_count' = emu_count
        /\ stop_request' = TRUE /\ exit_flag' = TRUE
    BY <1>5, Zenon DEF EmuStop, uc_emu_stop, counter
  <2>2. FlagsOK' /\ LevelsOK'
    <3>1. UNCHANGED lists
      BY <2>1, Zenon
    <3>2. Grows
      BY <3>1, SameLists, Zenon DEF HooksIInv
    <3> QED BY <2>1, <3>2, LevelsKept, Zenon DEF FlagsOK, HooksIInv
  <2>3. HooksIInv'
    BY <2>1, <2>2, QuietStep, Zenon
  <2> QED BY <2>1, <2>3, Zenon DEF CallsLive, LeavesClean
<1>6. CASE CallbackReturns
  <2>1. /\ frames # <<>> /\ UNCHANGED <<lists, count_hook, tb>>
        /\ frames' = SetTop(Calling(Top, NextCallee(Top, stop_request)))
        /\ emu_counter' = emu_counter /\ emu_count' = emu_count
        /\ stop_request' = stop_request /\ exit_flag' = exit_flag
    BY <1>6, Zenon DEF CallbackReturns, CallbackRuns, counter, stop
  <2>2. FlagsOK'
    BY <2>1, Zenon DEF HooksIInv, FlagsOK
  <2> QED BY <2>1, <2>2, ReturnStep, Zenon
<1>7. CASE CountCallback
  BY <1>7, CountCallbackStep, Zenon
<1>8. CASE EnterBlock
  BY <1>8, EnterBlockStep, Zenon DEF CallsLive, LeavesClean
<1>9. CASE CallHooks
  BY <1>9, CallHooksStep, Zenon
<1>10. CASE Execute
  BY <1>10, ExecuteStep, Zenon DEF CallsLive, LeavesClean
<1>11. CASE EmuReturns
  BY <1>11, EmuReturnsStep, Zenon DEF CallsLive, LeavesClean
<1> QED BY <1>1, <1>2, <1>3, <1>4, <1>5, <1>6, <1>7, <1>8, <1>9, <1>10, <1>11, Zenon
        DEF HooksNext

(* The invariant holds before the first hook is added. *)
LEMMA HooksStarts == HooksInit => HooksIInv
<1> SUFFICES ASSUME HooksInit PROVE HooksIInv
  OBVIOUS
<1>1. /\ hook = [e \in Idx |-> <<>>] /\ hooks_count = [e \in Idx |-> 0]
      /\ hooks_to_del = <<>> /\ hk = [h \in Handles |-> Free]
      /\ count_hook = Nil /\ tb = NotCached /\ frames = <<>>
  BY Zenon DEF HooksInit
<1>2. FlagsOK
  <2>1. 0 \in Nat
    OBVIOUS
  <2> QED BY <2>1, Zenon DEF HooksInit, FlagsOK
<1>3. Cardinality({}) = 0
  BY FS_EmptySet, Zenon
<1>4. <<>> \in Seq(Handles) /\ DOMAIN <<>> = {} /\ <<>> \in Seq(Frame)
        /\ Len(frames) <= UC_MAX_NESTED_LEVEL
  BY <1>1, HooksAssumption
<1>5. CacheOK /\ CountFirst
  BY <1>1, NoneCached, Zenon DEF CacheOK, CountFirst
<1>6. LevelsOK
  BY <1>1, <1>4, Zenon DEF LevelsOK
<1>7. 0 \in Int /\ 0 = 0 + 0
  OBVIOUS
<1>8. \A e \in Idx : hook[e] = <<>> /\ Alive(e) = {} /\ Once(hook[e])
  BY <1>1, <1>4, Zenon DEF Alive, Once
<1>9. ASSUME NEW h \in Handles PROVE Counted(h)
  <2>1. hk[h] \in Hook /\ hk[h].refs = 0 /\ ~hk[h].to_delete
    BY <1>1, FreeHook, Zenon
  <2>2. {i \in DOMAIN hooks_to_del : hooks_to_del[i] = h} = {}
    BY <1>1, <1>4, Zenon
  <2>3. Items(hooks_to_del, h) = 0
    BY <1>3, <2>2, Zenon DEF Items
  <2>4. In(Lists, h) = {}
    BY <1>4, <1>8, ListsFields, Zenon DEF In, list_exists
  <2> QED BY <1>3, <1>7, <2>1, <2>3, <2>4, Zenon DEF Counted
<1>10. ListsOK
  <2>1. /\ hook \in [Idx -> Seq(Handles)] /\ hooks_count \in [Idx -> Int]
        /\ hooks_to_del \in Seq(Handles) /\ hk \in [Handles -> Hook]
    BY <1>1, <1>4, <1>7, FreeHook, Zenon
  <2>2. CountsAgree
    BY <1>1, <1>3, <1>8, Zenon DEF CountsAgree
  <2> QED BY <1>8, <1>9, <2>1, <2>2, Zenon DEF ListsOK
<1> QED BY <1>2, <1>5, <1>6, <1>10, Zenon DEF HooksIInv

(* The invariant holds in every reachable state, whatever the callbacks add,
   delete, start and stop, on however many levels. *)
THEOREM HooksInvariant == HooksSpec => []HooksIInv
<1>1. HooksIInv /\ UNCHANGED hooksVars => HooksIInv'
  <2> SUFFICES ASSUME HooksIInv, UNCHANGED hooksVars PROVE HooksIInv'
    OBVIOUS
  <2>1. /\ UNCHANGED lists /\ UNCHANGED <<lists, count_hook, tb>> /\ frames' = frames
        /\ emu_counter' = emu_counter /\ emu_count' = emu_count
        /\ stop_request' = stop_request /\ exit_flag' = exit_flag
    BY Zenon DEF hooksVars, counter, stop
  <2>2. Grows
    BY <2>1, SameLists, Zenon DEF HooksIInv
  <2>3. LevelsOK' /\ FlagsOK'
    BY <2>1, <2>2, LevelsKept, Zenon DEF HooksIInv, FlagsOK
  <2> QED BY <2>1, <2>3, QuietStep, Zenon
<1>2. HooksIInv /\ [HooksNext]_hooksVars => HooksIInv'
  BY <1>1, NextStep, Zenon
<1> QED BY <1>2, HooksStarts, PTL DEF HooksSpec

(* A hook is one item of a list it is in. *)
LEMMA ItemsOnce ==
  ASSUME NEW list, Once(list), NEW h
  PROVE  Items(list, h) = IF list_exists(list, h) THEN 1 ELSE 0
<1> DEFINE P == {i \in DOMAIN list : list[i] = h}
<1>1. Cardinality({}) = 0
  BY FS_EmptySet, Zenon
<1>2. CASE list_exists(list, h)
  <2>1. PICK i \in DOMAIN list : list[i] = h
    BY <1>2, Zenon DEF list_exists
  <2>2. P = {i}
    BY <2>1, Zenon DEF Once
  <2>3. Cardinality({i}) = 1
    BY FS_Singleton, Zenon
  <2> QED BY <1>2, <2>2, <2>3, Zenon DEF Items
<1>3. CASE ~list_exists(list, h)
  <2>1. P = {}
    BY <1>3, Zenon DEF list_exists
  <2> QED BY <1>1, <1>3, <2>1, Zenon DEF Items
<1> QED BY <1>2, <1>3, Zenon

(* Reference counts are exact and nothing that is still going to be read
   points at a freed hook: not from a list, a walk on any level, or count_hook. *)
THEOREM HooksSafe == HooksSpec => []HooksInv
<1>1. HooksIInv => HooksInv
  <2> SUFFICES ASSUME HooksIInv PROVE HooksInv
    OBVIOUS
  <2>1. HooksTypeOK
    BY Zenon DEF HooksIInv, ListsOK, CacheOK, LevelsOK, CountFirst, FlagsOK, HooksTypeOK,
             Hook, Calls, Frame, nested_level
  <2>2. ASSUME NEW h \in Handles
        PROVE  hk[h].refs = Items(hook["CODE"], h) + Items(hook["BLOCK"], h)
                              + Items(hooks_to_del, h)
    <3>1. hk[h].refs = Cardinality(In(Lists, h)) + Items(hooks_to_del, h)
      BY Zenon DEF HooksIInv, ListsOK, Counted
    <3>2. Once(hook["CODE"]) /\ Once(hook["BLOCK"])
      BY Zenon DEF HooksIInv, ListsOK, Idx
    <3>3. /\ Items(hook["CODE"], h) = IF list_exists(hook["CODE"], h) THEN 1 ELSE 0
          /\ Items(hook["BLOCK"], h) = IF list_exists(hook["BLOCK"], h) THEN 1 ELSE 0
      BY <3>2, ItemsOnce, Zenon
    <3>4. Cardinality(In(Lists, h)) = Items(hook["CODE"], h) + Items(hook["BLOCK"], h)
      BY <3>3, InCount, ListsFields, Zenon
    <3> QED BY <3>1, <3>4, Zenon
  <2>3. ASSUME NEW i \in DOMAIN frames, frames[i].step = "in"
        PROVE  hk[frames[i].cur].refs > 0
    <3>1. FrameOK(frames[i], hook)
      BY Zenon DEF HooksIInv, LevelsOK
    <3>2. Event(frames[i]) \in Idx
      BY Zenon DEF Event, Idx
    <3> QED BY <2>3, <3>1, <3>2, InList, Zenon DEF FrameOK, HooksIInv
  <2>4. count_hook # Nil => hk[count_hook].refs > 0
    <3>1. "CODE" \in Idx
      BY Zenon DEF Idx
    <3> QED BY <3>1, CountListed, InList, Zenon DEF HooksIInv
  <2> QED BY <2>1, <2>2, <2>3, <2>4, Zenon DEF HooksInv, NoDanglingHook
<1> QED BY <1>1, HooksInvariant, PTL

(* hooks_count is the number of hooks of each list that are not deleted. *)
THEOREM HooksCounted == HooksSpec => []CountsAgree
<1>1. HooksIInv => CountsAgree
  BY Zenon DEF HooksIInv, ListsOK
<1> QED BY <1>1, HooksInvariant, PTL

(* The cached block calls no deleted hook directly. *)
THEOREM HooksCached == HooksSpec => []CachedHooksLive
<1>1. HooksIInv => CachedHooksLive
  BY Zenon DEF HooksIInv, CacheOK, CachedHooksLive, Called
<1> QED BY <1>1, HooksInvariant, PTL

(* The callback that counts instructions is the first that is called. *)
THEOREM HooksCountFirst == HooksSpec => []CountRunsFirst
<1>1. HooksIInv => CountRunsFirst
  <2> SUFFICES ASSUME HooksIInv, count_hook # Nil
               PROVE  First("CODE", Alive("CODE")) = count_hook
    BY Zenon DEF CountRunsFirst
  <2>1. ~hk[count_hook].to_delete /\ hook["CODE"] \in Seq(Handles) /\ "CODE" \in Idx
    BY Zenon DEF HooksIInv, CountFirst, ListsOK, Idx
  <2>2. PICK i \in DOMAIN hook["CODE"] :
          /\ hook["CODE"][i] = count_hook
          /\ \A j \in 1 .. i - 1 : hk[hook["CODE"][j]].to_delete
    BY Zenon DEF HooksIInv, CountFirst
  <2>3. i \in Alive("CODE")
    BY <2>1, <2>2, Zenon DEF Alive
  <2>4. PICK k \in Alive("CODE") : /\ hook["CODE"][k] = First("CODE", Alive("CODE"))
                                   /\ \A j \in Alive("CODE") : k <= j
    <3>1. Alive("CODE") # {} /\ Alive("CODE") \in SUBSET Alive("CODE")
      BY <2>3, Zenon
    <3> QED BY <2>1, <3>1, FirstIs, Zenon DEF HooksIInv
  <2>5. k \in DOMAIN hook["CODE"] /\ ~hk[hook["CODE"][k]].to_delete /\ k <= i
    BY <2>3, <2>4, Zenon DEF Alive
  <2>6. k \notin 1 .. i - 1
    BY <2>2, <2>5, Zenon
  <2>7. k = i
    BY <2>1, <2>2, <2>5, <2>6, SMTT(30)
  <2> QED BY <2>2, <2>4, <2>7, Zenon
<1> QED BY <1>1, HooksInvariant, PTL

(* Once uc_hook_del has returned, only a block that called the hook directly
   and was already running can still call it. *)
THEOREM HooksDeleted == HooksSpec => DeletedNotCalled
<1> DEFINE A == \A i \in DOMAIN frames' :
                  /\ frames'[i].step = "in"
                  /\ i \in DOMAIN frames => frames[i] # frames'[i]
                  /\ hk[frames'[i].cur].to_delete
                  => /\ frames'[i].code[Event(frames'[i])] = Inline(frames'[i].cur)
                     /\ frames'[i].code # tb
<1>1. CallsLive => A
  BY Zenon DEF CallsLive
<1>2. HooksIInv /\ [HooksNext]_hooksVars => [A]_hooksVars
  BY <1>1, NextStep, Zenon
<1>3. DeletedNotCalled <=> [][A]_hooksVars
  BY PTL DEF DeletedNotCalled
<1> HIDE DEF A
<1> QED BY <1>2, <1>3, HooksInvariant, PTL DEF HooksSpec

(* The outermost uc_emu_start returns with every deleted hook freed. *)
THEOREM HooksSwept == HooksSpec => SweptAtTheEnd
<1> DEFINE A == (frames # <<>> /\ frames' = <<>>) =>
                  hooks_to_del' = <<>> /\ \A h \in Handles : ~hk'[h].to_delete
<1>1. LeavesClean => A
  BY Zenon DEF LeavesClean
<1>2. HooksIInv /\ [HooksNext]_hooksVars => [A]_hooksVars
  BY <1>1, NextStep, Zenon
<1>3. SweptAtTheEnd <=> [][A]_hooksVars
  BY PTL DEF SweptAtTheEnd
<1> HIDE DEF A
<1> QED BY <1>2, <1>3, HooksInvariant, PTL DEF HooksSpec
=============================================================================
