-------------------------- MODULE StockLevelProofs --------------------------
(***************************************************************************)
(* Proof that StockLevel counts each short item once, for any number of    *)
(* orders, lines and rows.  What sorting gives, and that the elements of a *)
(* sorted sequence that differ from the one before are as many as its      *)
(* different elements, are lemmas about any finite set and any sequence of *)
(* integers.                                                               *)
(***************************************************************************)
EXTENDS StockLevelQuery, TpccProofs, FiniteSetTheorems, WellFoundedInduction

(* A set of natural numbers that is not empty has a least element.         *)
LEMMA LeastElement ==
  ASSUME NEW T \in SUBSET Nat, T # {}
  PROVE  \E x \in T : \A y \in T : x <= y
<1> DEFINE R == {ss \in Nat \X Nat : ss[1] < ss[2]}
<1>1. IsWellFoundedOn(R, Nat)
  BY NatLessThanWellFounded, Zenon DEF OpToRel
<1>2. PICK x \in T : \A y \in T : <<y, x>> \notin R
  BY <1>1, WFMin, Zenon
<1>3. ASSUME NEW y \in T PROVE x <= y
  <2>1. x \in Nat /\ y \in Nat /\ <<y, x>> \notin R
    BY <1>2
  <2> QED
    BY <2>1
<1> QED
  BY <1>3
-----------------------------------------------------------------------------
(* A strict total order on S, as a set of pairs.                           *)
Strict(R, S) ==
  /\ \A x \in S : <<x, x>> \notin R
  /\ \A x, y, z \in S : <<x, y>> \in R /\ <<y, z>> \in R => <<x, z>> \in R
  /\ \A x, y \in S : x = y \/ <<x, y>> \in R \/ <<y, x>> \in R

Below(S, R, x) == {y \in S : <<y, x>> \in R}

(* The elements of S have different numbers of elements below them, and    *)
(* the greater element the greater number.                                 *)
LEMMA RankGrows ==
  ASSUME NEW S, IsFiniteSet(S), NEW R, Strict(R, S), NEW x \in S, NEW y \in S,
         <<x, y>> \in R
  PROVE  /\ Cardinality(Below(S, R, x)) \in Nat
         /\ Cardinality(Below(S, R, y)) \in Nat
         /\ Cardinality(Below(S, R, x)) < Cardinality(Below(S, R, y))
<1> DEFINE A == Below(S, R, x)
           B == Below(S, R, y)
<1>1. A \subseteq B /\ x \in B /\ x \notin A
  BY DEF Below, Strict
<1>2. B \in SUBSET S
  BY DEF Below
<1> HIDE DEF A, B
<1>3. IsFiniteSet(B)
  BY <1>2, FS_Subset
<1>4. IsFiniteSet(A) /\ Cardinality(A) <= Cardinality(B) /\ Cardinality(B) # Cardinality(A)
  BY <1>1, <1>3, FS_Subset
<1>5. Cardinality(A) \in Nat /\ Cardinality(B) \in Nat
  BY <1>3, <1>4, FS_CardinalityType
<1> QED
  BY <1>4, <1>5 DEF A, B

(* InOrder lists S without a gap, and lists it in the order R.             *)
Lists(q, S, R) ==
  /\ q \in [1 .. Cardinality(S) -> S]
  /\ \A x \in S : \E k \in 1 .. Cardinality(S) : q[k] = x
  /\ \A k, l \in 1 .. Cardinality(S) : k < l => <<q[k], q[l]>> \in R

LEMMA InOrderLists ==
  ASSUME NEW S, IsFiniteSet(S), NEW R, Strict(R, S)
  PROVE  Lists(InOrder(S, R), S, R)
<1> DEFINE n == Cardinality(S)
           q == InOrder(S, R)
           rank == [x \in S |-> Cardinality(Below(S, R, x))]
<1>1. n \in Nat
  BY FS_CardinalityType
<1>2. ASSUME NEW x \in S PROVE rank[x] \in 0 .. n - 1
  <2>1. x \notin Below(S, R, x) /\ Below(S, R, x) \in SUBSET S
    BY DEF Below, Strict
  <2>2. /\ IsFiniteSet(Below(S, R, x)) /\ Cardinality(Below(S, R, x)) <= n
        /\ Cardinality(Below(S, R, x)) # n
    BY <2>1, FS_Subset
  <2>3. Cardinality(Below(S, R, x)) \in Nat
    BY <2>2, FS_CardinalityType
  <2> QED
    BY <1>1, <2>2, <2>3
<1>3. ASSUME NEW x \in S, NEW y \in S, rank[x] = rank[y] PROVE x = y
  <2>1. Cardinality(Below(S, R, x)) = Cardinality(Below(S, R, y))
    BY <1>3
  <2>2. <<x, y>> \notin R
    BY <2>1, RankGrows
  <2>3. <<y, x>> \notin R
    BY <2>1, RankGrows
  <2> QED
    BY <2>2, <2>3 DEF Strict
<1>4. rank \in Injection(S, 0 .. n - 1)
  BY <1>2, <1>3 DEF Injection, IsInjective
<1>5. IsFiniteSet(0 .. n - 1) /\ Cardinality(0 .. n - 1) = n
  BY <1>1, FS_Interval
<1>6. rank \in Surjection(S, 0 .. n - 1)
  BY <1>4, <1>5, FS_Injection
<1>7. ASSUME NEW k \in 1 .. n
      PROVE  q[k] \in S /\ rank[q[k]] = k - 1
  <2>1. k - 1 \in 0 .. n - 1
    BY <1>1
  <2>2. \E x \in S : rank[x] = k - 1
    BY <1>6, <2>1 DEF Surjection
  <2>3. \E x \in S : Cardinality({y \in S : <<y, x>> \in R}) = k - 1
    BY <2>2 DEF Below
  <2>4. q[k] = CHOOSE x \in S : Cardinality({y \in S : <<y, x>> \in R}) = k - 1
    BY DEF InOrder
  <2>5. q[k] \in S /\ Cardinality({y \in S : <<y, q[k]>> \in R}) = k - 1
    BY <2>3, <2>4, Zenon
  <2> QED
    BY <2>5 DEF Below
<1>8. q \in [1 .. n -> S]
  BY <1>7 DEF InOrder
<1>9. ASSUME NEW x \in S PROVE \E k \in 1 .. n : q[k] = x
  <2>1. rank[x] + 1 \in 1 .. n
    BY <1>1, <1>2
  <2>2. rank[q[rank[x] + 1]] = rank[x] /\ q[rank[x] + 1] \in S
    BY <1>2, <1>7, <2>1
  <2> QED
    BY <1>3, <2>1, <2>2
<1>10. ASSUME NEW k \in 1 .. n, NEW l \in 1 .. n, k < l PROVE <<q[k], q[l]>> \in R
  <2> HIDE DEF q, rank
  <2>1. q[k] \in S /\ q[l] \in S /\ rank[q[k]] = k - 1 /\ rank[q[l]] = l - 1
    BY <1>7
  <2>2. q[k] # q[l]
    BY <1>10, <2>1
  <2>3. ASSUME <<q[l], q[k]>> \in R PROVE FALSE
    <3>1. Cardinality(Below(S, R, q[l])) < Cardinality(Below(S, R, q[k]))
      BY <2>1, <2>3, RankGrows
    <3>2. rank[q[l]] < rank[q[k]]
      BY <2>1, <3>1 DEF rank
    <3> QED
      BY <1>10, <2>1, <3>2
  <2> QED
    BY <2>1, <2>2, <2>3 DEF Strict
<1> QED
  BY <1>8, <1>9, <1>10 DEF Lists
-----------------------------------------------------------------------------
Ascending(t, n) == \A k, l \in 1 .. n : k < l => t[k] <= t[l]

(* std::sort: a sequence with the elements of s, in ascending order.       *)
LEMMA SortSorts ==
  ASSUME NEW n \in Nat, NEW s \in [1 .. n -> Int]
  PROVE  LET t == Sorted(s)
         IN  /\ t \in [1 .. n -> Int]
             /\ Ascending(t, n)
             /\ {t[k] : k \in 1 .. n} = {s[k] : k \in 1 .. n}
<1> DEFINE S == 1 .. n
           R == SortsBefore(s)
           q == InOrder(S, R)
           t == Sorted(s)
<1>1. Len(s) = n
  OBVIOUS
<1>2. ASSUME NEW i \in S, NEW j \in S
      PROVE  <<i, j>> \in R <=> s[i] < s[j] \/ (s[i] = s[j] /\ i < j)
  BY <1>1 DEF SortsBefore
<1> HIDE DEF R
<1>3. Strict(R, S)
  <2>1. ASSUME NEW x \in S PROVE <<x, x>> \notin R
    BY <1>2
  <2>2. ASSUME NEW x \in S, NEW y \in S, NEW z \in S, <<x, y>> \in R, <<y, z>> \in R
        PROVE  <<x, z>> \in R
    <3>1. s[x] \in Int /\ s[y] \in Int /\ s[z] \in Int
      OBVIOUS
    <3>2. /\ s[x] < s[y] \/ (s[x] = s[y] /\ x < y)
          /\ s[y] < s[z] \/ (s[y] = s[z] /\ y < z)
      BY <1>2, <2>2
    <3>3. s[x] < s[z] \/ (s[x] = s[z] /\ x < z)
      BY <3>1, <3>2
    <3> QED
      BY <1>2, <3>3
  <2>3. ASSUME NEW x \in S, NEW y \in S PROVE x = y \/ <<x, y>> \in R \/ <<y, x>> \in R
    <3>1. s[x] \in Int /\ s[y] \in Int
      OBVIOUS
    <3> QED
      BY <1>2, <3>1
  <2> QED
    BY <2>1, <2>2, <2>3 DEF Strict
<1>4. IsFiniteSet(S) /\ Cardinality(S) = n
  BY FS_Interval
<1>5. /\ q \in [S -> S]
      /\ \A x \in S : \E k \in S : q[k] = x
      /\ \A k, l \in S : k < l => <<q[k], q[l]>> \in R
  <2>1. Lists(q, S, R)
    BY <1>3, <1>4, InOrderLists, Zenon
  <2> QED
    BY <1>4, <2>1 DEF Lists
<1>6. t = [k \in S |-> s[q[k]]]
  BY <1>1 DEF Sorted, R
<1> HIDE DEF t, q, S
<1>7. t \in [S -> Int]
  BY <1>5, <1>6 DEF S
<1>8. Ascending(t, n)
  <2>1. ASSUME NEW k \in S, NEW l \in S, k < l PROVE t[k] <= t[l]
    <3>1. q[k] \in S /\ q[l] \in S /\ <<q[k], q[l]>> \in R
      BY <1>5, <2>1
    <3>2. s[q[k]] < s[q[l]] \/ s[q[k]] = s[q[l]]
      BY <1>2, <3>1
    <3>3. s[q[k]] \in Int /\ s[q[l]] \in Int
      BY <3>1 DEF S
    <3> QED
      BY <1>6, <3>2, <3>3
  <2> QED
    BY <2>1 DEF Ascending, S
<1>9. {t[k] : k \in S} = {s[k] : k \in S}
  BY <1>5, <1>6
<1> QED
  BY <1>7, <1>8, <1>9 DEF t, S

(* num_distinct: in an ascending sequence a value differs from the element *)
(* before it at its first place only, so that each value counts once, but  *)
(* for a -1 that comes first of all.                                       *)
LEMMA ChangesCountValues ==
  ASSUME NEW n \in Nat, NEW t \in [1 .. n -> Int], Ascending(t, n)
  PROVE  LET values == {t[k] : k \in 1 .. n}
         IN  CountChanges(t) =
               Cardinality({v \in values : v # -1 \/ \E u \in values : u < -1})
<1> DEFINE values == {t[k] : k \in 1 .. n}
           V == {v \in values : v # -1 \/ \E u \in values : u < -1}
           last(i) == IF i = 1 THEN -1 ELSE t[i - 1]
           P == {i \in 1 .. n : t[i] # last(i)}
           f == [i \in P |-> t[i]]
<1>1. Len(t) = n
  OBVIOUS
<1>2. CountChanges(t) = Cardinality(P)
  BY <1>1 DEF CountChanges
<1>3. \A k, l \in 1 .. n : k <= l => t[k] \in Int /\ t[l] \in Int /\ t[k] <= t[l]
  BY DEF Ascending
<1>4. ASSUME NEW i \in P PROVE f[i] \in V
  <2>1. i \in 1 .. n /\ t[i] \in values /\ t[i] # last(i)
    OBVIOUS
  <2>2. CASE t[i] = -1
    <3>1. i # 1 /\ i - 1 \in 1 .. n
      BY <2>1, <2>2
    <3>2. t[i - 1] < -1
      BY <1>3, <2>1, <2>2, <3>1
    <3> QED
      BY <2>1, <3>1, <3>2
  <2> QED
    BY <2>1, <2>2
<1>5. ASSUME NEW i \in P, NEW k \in P, i < k PROVE f[i] # f[k]
  <2>1. i \in 1 .. n /\ k \in 1 .. n /\ k # 1 /\ k - 1 \in 1 .. n /\ i <= k - 1
    BY <1>5
  <2>2. t[i] <= t[k - 1] /\ t[k - 1] <= t[k] /\ t[k] # t[k - 1]
    BY <1>3, <2>1
  <2>3. t[i] \in Int /\ t[k] \in Int /\ t[k - 1] \in Int
    BY <2>1
  <2> QED
    BY <2>2, <2>3
<1>6. ASSUME NEW v \in V PROVE \E i \in P : f[i] = v
  <2> DEFINE T == {k \in 1 .. n : t[k] = v}
  <2>1. T \in SUBSET Nat /\ T # {}
    OBVIOUS
  <2>2. PICK i \in T : \A k \in T : i <= k
    BY <2>1, LeastElement
  <2>3. i \in 1 .. n /\ t[i] = v
    BY <2>2
  <2>4. CASE i = 1
    <3>1. ASSUME v = -1 PROVE FALSE
      <4>1. PICK u \in values : u < -1
        BY <3>1
      <4>2. PICK k \in 1 .. n : t[k] = u
        BY <4>1
      <4>3. t[1] <= t[k] /\ t[k] \in Int
        BY <1>3, <2>3, <2>4, <4>2
      <4> QED
        BY <2>3, <2>4, <3>1, <4>1, <4>2, <4>3
    <3> QED
      BY <2>3, <2>4, <3>1
  <2>5. CASE i # 1
    <3>1. i - 1 \in 1 .. n /\ i - 1 \notin T
      BY <2>2, <2>3, <2>5
    <3>2. t[i - 1] # v
      BY <3>1
    <3> QED
      BY <2>3, <2>5, <3>2
  <2> QED
    BY <2>4, <2>5
<1>7. IsFiniteSet(P)
  BY FS_Interval, FS_Subset
<1> HIDE DEF V
<1>8. f \in Bijection(P, V)
  <2>1. f \in [P -> V]
    BY <1>4
  <2>2. ASSUME NEW i \in P, NEW k \in P, f[i] = f[k] PROVE i = k
    <3>1. i \in Int /\ k \in Int
      OBVIOUS
    <3> QED
      BY <1>5, <2>2, <3>1
  <2> QED
    BY <1>6, <2>1, <2>2 DEF Bijection, Injection, Surjection, IsInjective
<1>9. Cardinality(V) = Cardinality(P)
  BY <1>7, <1>8, FS_Bijection DEF ExistsBijection
<1> QED
  BY <1>2, <1>9 DEF V
-----------------------------------------------------------------------------
(* The loops read lines of a number of orders, each an integer, and put    *)
(* them in one order.                                                      *)
LEMMA LinesRead ==
  ASSUME IInv, pc = "idle", NEW w \in HomeWarehouses, NEW d \in Districts
  PROVE  /\ IsFiniteSet(ReadLines(w, d))
         /\ ReadLines(w, d) \subseteq Int \X Int
         /\ \A line \in ReadLines(w, d) : ItemOf(w, d, line) \in Int
<1>1. w \in Warehouses
  BY SizeAssumption DEF HomeWarehouses, Warehouses
<1>2. MakeDistrictKey(w, d) \in DistrictKeys \cap DOMAIN store
  BY <1>1 DEF IInv, Loaded, DistrictKeys, OrderPhases
<1>3. NextOrderId(w, d) \in Nat
  BY <1>2 DEF IInv, StoreOK, NextOrderId
<1> DEFINE ids == RecentOrders(w, d)
           numbers == 1 .. MaxOlCnt
<1>4. IsFiniteSet(ids) /\ ids \subseteq Int
  <2>1. NextOrderId(w, d) - StockLevelOrders \in Int /\ NextOrderId(w, d) - 1 \in Int
    BY <1>3, StockLevelAssumption
  <2> QED
    BY <2>1, FS_Interval DEF RecentOrders
<1>5. IsFiniteSet(numbers) /\ numbers \subseteq Int
  BY SizeAssumption, FS_Interval
<1> HIDE DEF ids, numbers
<1>6. IsFiniteSet(ids \X numbers)
  BY <1>4, <1>5, FS_Product
<1>7. ReadLines(w, d) \in SUBSET (ids \X numbers)
  BY DEF ReadLines, ids, numbers
<1>8. IsFiniteSet(ReadLines(w, d))
  BY <1>6, <1>7, FS_Subset
<1>9. ASSUME NEW line \in ReadLines(w, d) PROVE ItemOf(w, d, line) \in Int
  <2>1. MakeOrderLineKey(w, d, line[1], line[2]) \in DOMAIN store
    BY SizeAssumption DEF ReadLines
  <2> QED
    BY <2>1 DEF IInv, StoreOK, ItemOf, Row
<1> QED
  BY <1>4, <1>5, <1>7, <1>8, <1>9

LEMMA ReadInOneOrder ==
  ASSUME NEW lines \in SUBSET (Int \X Int)
  PROVE  Strict(ReadBefore(lines), lines)
<1>1. ASSUME NEW p \in lines, NEW q \in lines
      PROVE  <<p, q>> \in ReadBefore(lines) <=>
               p[1] < q[1] \/ (p[1] = q[1] /\ p[2] < q[2])
  BY DEF ReadBefore
<1>2. \A p \in lines : p[1] \in Int /\ p[2] \in Int /\ p = <<p[1], p[2]>>
  OBVIOUS
<1>3. ASSUME NEW p \in lines PROVE <<p, p>> \notin ReadBefore(lines)
  BY <1>1, <1>2
<1>4. ASSUME NEW p \in lines, NEW q \in lines, NEW r \in lines,
             <<p, q>> \in ReadBefore(lines), <<q, r>> \in ReadBefore(lines)
      PROVE  <<p, r>> \in ReadBefore(lines)
  BY <1>1, <1>2, <1>4
<1>5. ASSUME NEW p \in lines, NEW q \in lines
      PROVE  p = q \/ <<p, q>> \in ReadBefore(lines) \/ <<q, p>> \in ReadBefore(lines)
  BY <1>1, <1>2
<1> QED
  BY <1>3, <1>4, <1>5 DEF Strict

(* s_i_ids holds the ids of the short lines and no other.                  *)
Pushed(s_i_ids, w, d, lines) ==
  LET n == Cardinality(lines)
  IN  /\ n \in Nat
      /\ s_i_ids \in [1 .. n -> Int]
      /\ {s_i_ids[k] : k \in 1 .. n} = {ItemOf(w, d, line) : line \in lines}

LEMMA ItemsPushed ==
  ASSUME NEW w, NEW d, NEW threshold, NEW junk,
         IsFiniteSet(ReadLines(w, d)), ReadLines(w, d) \subseteq Int \X Int,
         \A line \in ReadLines(w, d) : ItemOf(w, d, line) \in Int
  PROVE  Pushed(ShortItems(w, d, threshold, junk), w, d, ShortLines(w, d, threshold, junk))
<1> DEFINE lines == ShortLines(w, d, threshold, junk)
           n == Cardinality(lines)
           s_i_ids == ShortItems(w, d, threshold, junk)
           read == InOrder(lines, ReadBefore(lines))
<1>1. lines \in SUBSET ReadLines(w, d)
  BY DEF ShortLines
<1>2. s_i_ids = [k \in 1 .. n |-> ItemOf(w, d, read[k])]
  BY DEF ShortItems
<1> HIDE DEF lines, s_i_ids
<1>3. IsFiniteSet(lines) /\ n \in Nat
  BY <1>1, FS_Subset, FS_CardinalityType
<1>4. Strict(ReadBefore(lines), lines)
  BY <1>1, ReadInOneOrder
<1>5. Lists(read, lines, ReadBefore(lines))
  BY <1>3, <1>4, InOrderLists, Zenon
<1>6. read \in [1 .. n -> lines] /\ \A x \in lines : \E k \in 1 .. n : read[k] = x
  BY <1>5 DEF Lists
<1> HIDE DEF read, n
<1>7. s_i_ids \in [1 .. n -> Int]
  BY <1>1, <1>2, <1>6
<1>8. {s_i_ids[k] : k \in 1 .. n} = {ItemOf(w, d, line) : line \in lines}
  BY <1>2, <1>6
<1> QED
  BY <1>3, <1>7, <1>8 DEF Pushed, lines, n, s_i_ids

(* A StockLevel transaction counts each short item once, whatever the      *)
(* store: any number of orders and lines, rows of any table under the keys *)
(* it reads, and stock rows that are not there.                            *)
THEOREM StockLevelCounts == Spec => []StockLevelCountsItems
<1>1. ASSUME IInv, pc = "idle", NEW w \in HomeWarehouses, NEW d \in Districts,
             NEW threshold, NEW junk
      PROVE  NumDistinct(w, d, threshold, junk) = Cardinality(ItemsToCount(w, d, threshold, junk))
  <2> DEFINE lines == ShortLines(w, d, threshold, junk)
             n == Cardinality(lines)
             s_i_ids == ShortItems(w, d, threshold, junk)
             t == Sorted(s_i_ids)
             values == {t[k] : k \in 1 .. n}
  <2>1. /\ n \in Nat
        /\ s_i_ids \in [1 .. n -> Int]
        /\ {s_i_ids[k] : k \in 1 .. n} = {ItemOf(w, d, line) : line \in lines}
    <3>1. /\ IsFiniteSet(ReadLines(w, d)) /\ ReadLines(w, d) \subseteq Int \X Int
          /\ \A line \in ReadLines(w, d) : ItemOf(w, d, line) \in Int
      BY <1>1, LinesRead
    <3>2. Pushed(s_i_ids, w, d, lines)
      BY <3>1, ItemsPushed
    <3> QED
      BY <3>2 DEF Pushed
  <2> HIDE DEF lines, n, s_i_ids
  <2>2. /\ t \in [1 .. n -> Int]
        /\ Ascending(t, n)
        /\ values = {s_i_ids[k] : k \in 1 .. n}
    BY <2>1, SortSorts
  <2> HIDE DEF t
  <2>3. CountChanges(t) = Cardinality({v \in values : v # -1 \/ \E u \in values : u < -1})
    BY <2>1, <2>2, ChangesCountValues
  <2>4. {v \in values : v # -1 \/ \E u \in values : u < -1} = ItemsToCount(w, d, threshold, junk)
    BY <2>1, <2>2 DEF ItemsToCount, lines
  <2> QED
    BY <2>3, <2>4 DEF NumDistinct, t, s_i_ids
<1>2. IInv => StockLevelCountsItems
  BY <1>1 DEF StockLevelCountsItems
<1> QED
  BY <1>2, Invariant, PTL
=============================================================================
