---------------------------- MODULE WorkMixProofs ----------------------------
(***************************************************************************)
(* Proof that the mix of transactions follows the frequency flags, for an  *)
(* array of any length and flags of any value: the index the five loops    *)
(* share never goes back, so that each type gets an interval of slots.     *)
(***************************************************************************)
EXTENDS WorkMix, FiniteSetTheorems, TLAPS

(* The loops have written the slots below i, and j has not passed it.      *)
MixOK(mix) ==
  /\ mix.i \in Nat
  /\ mix.j \in Int
  /\ mix.j <= mix.i
  /\ mix.written = 0 .. mix.i - 1
  /\ DOMAIN mix.slot = 0 .. Slots - 1

Positive(frequency) == IF frequency < 0 THEN 0 ELSE frequency

LEMMA EmptyMixOK == MixOK(EmptyMix)
<1>1. /\ EmptyMix.i = 0 /\ EmptyMix.j = 0 /\ EmptyMix.written = {}
      /\ DOMAIN EmptyMix.slot = 0 .. Slots - 1
  BY DEF EmptyMix
<1> QED
  BY <1>1 DEF MixOK

(* A loop writes the slots from its first index to its last, as many as    *)
(* its frequency or fewer.                                                 *)
LEMMA FillOK ==
  ASSUME NEW mix, MixOK(mix), NEW t, NEW frequency \in Int
  PROVE  LET next == Fill(mix, t, frequency) IN
         /\ MixOK(next)
         /\ next.j = mix.j + frequency
         /\ mix.i <= next.i
         /\ next.i - mix.i <= Positive(frequency)
         /\ (mix.i = mix.j /\ frequency >= 0) =>
              next.i = next.j /\ next.i - mix.i = frequency
         /\ \A k \in 0 .. Slots - 1 :
              next.slot[k] = IF k \in mix.i .. next.i - 1 THEN t ELSE mix.slot[k]
<1> DEFINE next == Fill(mix, t, frequency)
           a == mix.i
           j == mix.j + frequency
           b == IF j > a THEN j ELSE a
<1>1. /\ next.i = b /\ next.j = j
      /\ next.written = mix.written \cup (a .. j - 1)
      /\ next.slot = [k \in DOMAIN mix.slot |-> IF k \in a .. j - 1 THEN t ELSE mix.slot[k]]
  BY DEF Fill
<1>2. a \in Nat /\ mix.j \in Int /\ mix.j <= a /\ mix.written = 0 .. a - 1
      /\ DOMAIN mix.slot = 0 .. Slots - 1
  BY DEF MixOK
<1> HIDE DEF next
<1>3. j \in Int /\ b \in Nat /\ a <= b /\ j <= b /\ b - a <= Positive(frequency)
  BY <1>2 DEF Positive
<1>4. (a = mix.j /\ frequency >= 0) => b = j /\ b - a = frequency
  BY <1>2
<1>5. a .. j - 1 = a .. b - 1 /\ (0 .. a - 1) \cup (a .. b - 1) = 0 .. b - 1
  BY <1>2, <1>3
<1> HIDE DEF a, b, j
<1>6. MixOK(next)
  BY <1>1, <1>2, <1>3, <1>5 DEF MixOK
<1>7. next.j = mix.j + frequency
  BY <1>1 DEF j
<1>8. \A k \in 0 .. Slots - 1 :
        next.slot[k] = IF k \in a .. b - 1 THEN t ELSE mix.slot[k]
  BY <1>1, <1>2, <1>5
<1> QED
  BY <1>1, <1>3, <1>4, <1>6, <1>7, <1>8 DEF a, next

(* The length of an interval that begins no later than it ends.            *)
LEMMA Interval ==
  ASSUME NEW a \in Nat, NEW b \in Nat, a <= b
  PROVE  Cardinality(a .. b - 1) = b - a
<1>1. a \in Int /\ b - 1 \in Int
  OBVIOUS
<1>2. Cardinality(a .. b - 1) = IF a > b - 1 THEN 0 ELSE (b - 1) - a + 1
  BY <1>1, FS_Interval
<1> QED
  BY <1>2

LEMMA FiveTypes == DOMAIN TxTypes = {1, 2, 3, 4, 5}
<1>1. Len(TxTypes) = 5 /\ DOMAIN TxTypes = 1 .. 5
  BY DEF TxTypes
<1> QED
  BY <1>1

LEMMA MixIsSound ==
  ASSUME NEW frequency \in Frequencies
  PROVE  MixSound(frequency)
<1> DEFINE f(t) == frequency[t]
           m1 == Fill(EmptyMix, 1, f(1))
           m2 == Fill(m1, 2, f(2))
           m3 == Fill(m2, 3, f(3))
           m4 == Fill(m3, 4, f(4))
           m5 == Fill(m4, 5, f(5))
           flagged == \A t \in DOMAIN TxTypes : frequency[t] >= 0
<1>1. f(1) \in Int /\ f(2) \in Int /\ f(3) \in Int /\ f(4) \in Int /\ f(5) \in Int
  BY FiveTypes, MixAssumption DEF Frequencies
<1>2. CreateWorkgenArray(frequency) = m5
  BY DEF CreateWorkgenArray
<1>3. flagged <=> f(1) >= 0 /\ f(2) >= 0 /\ f(3) >= 0 /\ f(4) >= 0 /\ f(5) >= 0
  BY FiveTypes
<1>4. EmptyMix.i = 0 /\ EmptyMix.j = 0
  BY DEF EmptyMix
<1> DEFINE Follows(old, new, t) ==
             /\ old.i <= new.i
             /\ new.i - old.i <= Positive(f(t))
             /\ (old.i = old.j /\ f(t) >= 0) => new.i = new.j /\ new.i - old.i = f(t)
             /\ \A k \in 0 .. Slots - 1 :
                  new.slot[k] = IF k \in old.i .. new.i - 1 THEN t ELSE old.slot[k]
<1> HIDE DEF f
<1>5. MixOK(m1) /\ Follows(EmptyMix, m1, 1)
  BY <1>1, EmptyMixOK, FillOK
<1> HIDE DEF m1
<1>6. MixOK(m2) /\ Follows(m1, m2, 2)
  BY <1>1, <1>5, FillOK
<1> HIDE DEF m2
<1>7. MixOK(m3) /\ Follows(m2, m3, 3)
  BY <1>1, <1>6, FillOK
<1> HIDE DEF m3
<1>8. MixOK(m4) /\ Follows(m3, m4, 4)
  BY <1>1, <1>7, FillOK
<1> HIDE DEF m4
<1>9. MixOK(m5) /\ Follows(m4, m5, 5)
  BY <1>1, <1>8, FillOK
<1> HIDE DEF m5
<1> SUFFICES ASSUME m5.i = Slots, m5.j = Slots
             PROVE  /\ m5.written = 0 .. Slots - 1
                    /\ \A t \in DOMAIN TxTypes :
                         /\ CountOf(m5, t) <= Positive(f(t))
                         /\ flagged => CountOf(m5, t) = f(t)
  BY <1>2 DEF MixSound, MixAsserts, Positive, f
<1> HIDE DEF flagged
<1>10. m5.written = 0 .. Slots - 1 /\ DOMAIN m5.slot = 0 .. Slots - 1
  BY <1>9 DEF MixOK
<1>11. /\ m1.i \in Nat /\ m2.i \in Nat /\ m3.i \in Nat /\ m4.i \in Nat /\ Slots \in Nat
       /\ m1.i <= m2.i /\ m2.i <= m3.i /\ m3.i <= m4.i /\ m4.i <= Slots
  BY <1>5, <1>6, <1>7, <1>8, <1>9 DEF MixOK
<1>12. \A k \in 0 .. Slots - 1 :
         /\ k < m1.i => m5.slot[k] = 1
         /\ m1.i <= k /\ k < m2.i => m5.slot[k] = 2
         /\ m2.i <= k /\ k < m3.i => m5.slot[k] = 3
         /\ m3.i <= k /\ k < m4.i => m5.slot[k] = 4
         /\ m4.i <= k => m5.slot[k] = 5
  <2> TAKE k \in 0 .. Slots - 1
  <2>1. k \in Nat /\ k < Slots
    BY <1>11
  <2>2. m5.slot[k] = IF m4.i <= k THEN 5 ELSE m4.slot[k]
    BY <1>9, <1>11, <2>1
  <2>3. m4.slot[k] = IF m3.i <= k /\ k < m4.i THEN 4 ELSE m3.slot[k]
    BY <1>8, <1>11, <2>1
  <2>4. m3.slot[k] = IF m2.i <= k /\ k < m3.i THEN 3 ELSE m2.slot[k]
    BY <1>7, <1>11, <2>1
  <2>5. m2.slot[k] = IF m1.i <= k /\ k < m2.i THEN 2 ELSE m1.slot[k]
    BY <1>6, <1>11, <2>1
  <2>6. k < m1.i => m1.slot[k] = 1
    BY <1>4, <1>5, <1>11, <2>1
  <2> QED
    BY <1>11, <2>1, <2>2, <2>3, <2>4, <2>5, <2>6
<1>13. ASSUME NEW t \in 1 .. 5, NEW a \in Nat, NEW b \in Nat, a <= b, b <= Slots,
              \A k \in 0 .. Slots - 1 : (a <= k /\ k < b) <=> m5.slot[k] = t
       PROVE  CountOf(m5, t) = b - a
  <2>1. {k \in DOMAIN m5.slot : m5.slot[k] = t} = a .. b - 1
    BY <1>10, <1>11, <1>13
  <2> QED
    BY <1>13, <2>1, Interval DEF CountOf
<1>14. CountOf(m5, 1) = m1.i /\ CountOf(m5, 2) = m2.i - m1.i /\ CountOf(m5, 3) = m3.i - m2.i
       /\ CountOf(m5, 4) = m4.i - m3.i /\ CountOf(m5, 5) = Slots - m4.i
  <2>1. CountOf(m5, 1) = m1.i - 0
    <3>1. \A k \in 0 .. Slots - 1 : (0 <= k /\ k < m1.i) <=> m5.slot[k] = 1
      BY <1>11, <1>12
    <3>2. 1 \in 1 .. 5 /\ 0 \in Nat /\ m1.i \in Nat /\ 0 <= m1.i /\ m1.i <= Slots
      BY <1>11
    <3> QED
      BY <1>13, <3>1, <3>2
  <2>2. CountOf(m5, 2) = m2.i - m1.i
    <3>1. \A k \in 0 .. Slots - 1 : (m1.i <= k /\ k < m2.i) <=> m5.slot[k] = 2
      BY <1>11, <1>12
    <3>2. 2 \in 1 .. 5 /\ m1.i \in Nat /\ m2.i \in Nat /\ m1.i <= m2.i /\ m2.i <= Slots
      BY <1>11
    <3> QED
      BY <1>13, <3>1, <3>2
  <2>3. CountOf(m5, 3) = m3.i - m2.i
    <3>1. \A k \in 0 .. Slots - 1 : (m2.i <= k /\ k < m3.i) <=> m5.slot[k] = 3
      BY <1>11, <1>12
    <3>2. 3 \in 1 .. 5 /\ m2.i \in Nat /\ m3.i \in Nat /\ m2.i <= m3.i /\ m3.i <= Slots
      BY <1>11
    <3> QED
      BY <1>13, <3>1, <3>2
  <2>4. CountOf(m5, 4) = m4.i - m3.i
    <3>1. \A k \in 0 .. Slots - 1 : (m3.i <= k /\ k < m4.i) <=> m5.slot[k] = 4
      BY <1>11, <1>12
    <3>2. 4 \in 1 .. 5 /\ m3.i \in Nat /\ m4.i \in Nat /\ m3.i <= m4.i /\ m4.i <= Slots
      BY <1>11
    <3> QED
      BY <1>13, <3>1, <3>2
  <2>5. CountOf(m5, 5) = Slots - m4.i
    <3>1. \A k \in 0 .. Slots - 1 : (m4.i <= k /\ k < Slots) <=> m5.slot[k] = 5
      BY <1>11, <1>12
    <3>2. 5 \in 1 .. 5 /\ m4.i \in Nat /\ Slots \in Nat /\ m4.i <= Slots /\ Slots <= Slots
      BY <1>11
    <3> QED
      BY <1>13, <3>1, <3>2
  <2> QED
    BY <1>11, <2>1, <2>2, <2>3, <2>4, <2>5
<1>15. flagged => /\ m1.i = f(1) /\ m2.i - m1.i = f(2) /\ m3.i - m2.i = f(3)
                  /\ m4.i - m3.i = f(4) /\ Slots - m4.i = f(5)
  BY <1>3, <1>4, <1>5, <1>6, <1>7, <1>8, <1>9, <1>11
<1>16. /\ m1.i <= Positive(f(1)) /\ m2.i - m1.i <= Positive(f(2))
       /\ m3.i - m2.i <= Positive(f(3)) /\ m4.i - m3.i <= Positive(f(4))
       /\ Slots - m4.i <= Positive(f(5))
  BY <1>4, <1>5, <1>6, <1>7, <1>8, <1>9, <1>11
<1>17. ASSUME NEW t \in {1, 2, 3, 4, 5}
       PROVE  /\ CountOf(m5, t) <= Positive(f(t))
              /\ flagged => CountOf(m5, t) = f(t)
  BY <1>14, <1>15, <1>16
<1> QED
  BY <1>10, <1>17, FiveTypes

(* Whatever the flags and the length of the array: when the assertion at   *)
(* the end of CreateWorkgenArray holds, the loops wrote to each slot and   *)
(* to nothing else, no type has more slots than its flag, and each has     *)
(* exactly its flag when none is negative (tpcc_tables.cc:56-80).          *)
THEOREM MixFollows == Spec => []MixFollowsFlags
<1>1. MixFollowsFlags
  BY MixIsSound DEF MixFollowsFlags
<1> QED
  BY <1>1, PTL
=============================================================================
