--------------------------- MODULE PushLoopProofs ----------------------------
(***************************************************************************)
(* push_loop cuts every range into blocks that tile it, no more than asked *)
(* for and of sizes that differ in the last only: for all indices, numbers *)
(* of blocks and numbers of threads.                                       *)
(***************************************************************************)
EXTENDS PushLoop, TLAPS

(* The range that is cut: what the lines before the loop establish.  When  *)
(* it is empty nothing is pushed.                                          *)
RangeOK ==
  /\ range.first = Lower
  /\ range.after = Upper
  /\ range.num <= MaxBlocks
  /\ Lower < Upper =>
       /\ range.num * range.size <= Upper - Lower
       /\ Upper - Lower < range.num * range.size + MaxBlocks

(* What the ends of the blocks are when no conversion changes them.        *)
EndOf(r, k) ==
  IF k = r.num - 1 THEN r.after ELSE (k + 1) * r.size + r.first

PushedOK ==
  \A k \in 1 .. i :
    /\ blocks[k].from = (k - 1) * range.size + range.first
    /\ blocks[k].to = EndOf(range, k - 1)

(* The inductive invariant: neither property says by itself which blocks   *)
(* were pushed.                                                            *)
IInv ==
  /\ TypeOK
  /\ Len(blocks) = i
  /\ pc = "call" => i = 0
  /\ pc # "call" => RangeOK
  /\ pc = "push" => i < range.num /\ Lower < Upper
  /\ pc = "done" => (i = 0 /\ Lower = Upper) \/ (i = range.num /\ Lower < Upper)
  /\ PushedOK
-----------------------------------------------------------------------------
(* Arithmetic of the products that the solver does not find by itself      *)
LEMMA NextMultiple ==
  ASSUME NEW k \in Nat, NEW n \in Nat
  PROVE  (k + 1) * n = k * n + n
OBVIOUS

LEMMA MultipleUpTo ==
  ASSUME NEW k \in Nat, NEW m \in Nat, NEW n \in Nat, k <= m
  PROVE  k * n <= m * n
<1>1. m * n = k * n + (m - k) * n
  OBVIOUS
<1>2. (m - k) * n >= 0
  OBVIOUS
<1> QED
  BY <1>1, <1>2

(* The division of BlockSize                                               *)
LEMMA Division ==
  ASSUME NEW total \in Nat, NEW n \in Nat \ {0}
  PROVE  /\ BlockSize(total, n) \in Nat
         /\ n * BlockSize(total, n) <= total
         /\ total < n * BlockSize(total, n) + n
<1>1. total \div n \in Nat
  OBVIOUS
<1>2. total = (n * (total \div n)) + (total % n)
  OBVIOUS
<1>3. total % n \in 0 .. n - 1
  OBVIOUS
<1> QED
  BY <1>1, <1>2, <1>3 DEF BlockSize

(* A number below m is what is left of it and any multiple of m.           *)
LEMMA ModMultiple ==
  ASSUME NEW m \in Nat \ {0}, NEW x \in 0 .. m - 1, NEW q \in Int
  PROVE  (x + q * m) % m = x
<1> DEFINE y == x + q * m
           p == y \div m
           z == y % m
<1>1. y \in Int /\ q * m \in Int
  OBVIOUS
<1>2. p \in Int /\ z \in 0 .. m - 1 /\ y = m * p + z
  <2> HIDE DEF y
  <2> QED
    BY <1>1
<1>3. x - z = (p - q) * m
  BY <1>2
<1> HIDE DEF p, z, y
<1>4. ~(p - q >= 1)
  BY <1>2, <1>3, MultipleUpTo
<1>5. ~(q - p >= 1)
  <2>1. z - x = (q - p) * m
    BY <1>2, <1>3
  <2> QED
    BY <1>2, <2>1, MultipleUpTo
<1>6. p = q
  BY <1>2, <1>4, <1>5
<1>7. x = z
  BY <1>2, <1>3, <1>6
<1> QED
  BY <1>7 DEF z, y

(* A conversion gives a number of type T.                                  *)
LEMMA ConvertType ==
  ASSUME NEW x \in Int
  PROVE  Convert(x) \in Int /\ Convert(x) \in InT(call.type)
<1>1. PICK h \in Nat : Width = 2 * h /\ Width \div 2 = h
  BY LoopAssumption
<1>2. Width \in Nat \ {0}
  BY LoopAssumption
<1>3. x % Width \in 0 .. Width - 1 /\ (x + h) % Width \in 0 .. Width - 1
  BY <1>1, <1>2
<1> QED
  BY <1>1, <1>2, <1>3 DEF Convert, InT

(* A sum that T can hold is the sum, though a term was converted before.   *)
LEMMA ConvertSum ==
  ASSUME NEW a \in Int, NEW f \in Int, a + f \in InT(call.type)
  PROVE  Convert(Convert(a) + f) = a + f
<1>1. PICK h \in Nat : Width = 2 * h /\ Width \div 2 = h
  BY LoopAssumption
<1>2. Width \in Nat \ {0}
  BY LoopAssumption
<1>3. CASE call.type = "unsigned"
  <2> DEFINE q == a \div Width
  <2>1. q \in Int /\ a = Width * q + (a % Width)
    BY <1>2
  <2>2. a + f \in 0 .. Width - 1
    BY <1>3 DEF InT
  <2>3. (a % Width) + f = (a + f) + (0 - q) * Width
    BY <1>2, <2>1
  <2> HIDE DEF q
  <2>4. 0 - q \in Int
    BY <2>1
  <2>5. ((a + f) + (0 - q) * Width) % Width = a + f
    BY <1>2, <2>2, <2>4, ModMultiple
  <2> QED
    BY <1>3, <2>3, <2>5 DEF Convert
<1>4. CASE call.type # "unsigned"
  <2> DEFINE b == a + h
             q == b \div Width
             z == b % Width
  <2>1. b \in Int
    BY <1>1
  <2>2. q \in Int /\ z \in Int /\ b = Width * q + z
    <3> HIDE DEF b
    <3> QED
      BY <1>2, <2>1
  <2>3. a + f + h \in 0 .. Width - 1
    BY <1>1, <1>2, <1>4 DEF InT
  <2>4. Convert(Convert(a) + f) = ((((z - h) + f) + h) % Width) - h
    BY <1>1, <1>4 DEF Convert
  <2>5. b = a + h
    OBVIOUS
  <2> HIDE DEF q, z, b
  <2>6. ((z - h) + f) + h = (a + f + h) + (0 - q) * Width
    <3>1. (0 - q) * Width = 0 - Width * q /\ Width * q \in Int
      BY <1>2, <2>2
    <3> QED
      BY <1>1, <2>2, <2>5, <3>1
  <2>7. ((a + f + h) + (0 - q) * Width) % Width = a + f + h
    <3>1. 0 - q \in Int
      BY <2>2
    <3> QED
      BY <1>2, <2>3, <3>1, ModMultiple
  <2> QED
    BY <1>1, <2>4, <2>6, <2>7
<1> QED
  BY <1>3, <1>4

LEMMA Ends ==
  ASSUME TypeOK
  PROVE  /\ Lower \in Int /\ Upper \in Int /\ Lower <= Upper /\ MaxBlocks \in Nat \ {0}
         /\ Lower \in InT(call.type) /\ Upper \in InT(call.type)
<1>1. call.first \in Int /\ call.after \in Int /\ call.num_blocks \in Nat
  BY LoopAssumption DEF TypeOK, Calls
<1>2. MaxBlocks \in Nat \ {0}
  BY <1>1, LoopAssumption DEF MaxBlocks
<1>3. /\ first_index \in Int /\ first_index \in InT(call.type)
      /\ index_after_last \in Int /\ index_after_last \in InT(call.type)
  BY <1>1, ConvertType DEF first_index, index_after_last
<1> QED
  BY <1>2, <1>3 DEF Lower, Upper

(* What the lines before the loop compute                                  *)
LEMMA SplitOK ==
  ASSUME TypeOK
  PROVE  /\ Split \in [first : Int, after : Int, size : Nat \ {0}, num : Nat \ {0}]
         /\ Split.first = Lower
         /\ Split.after = Upper
         /\ Split.num <= MaxBlocks
         /\ Lower < Upper =>
              /\ Split.num * Split.size <= Upper - Lower
              /\ Upper - Lower < Split.num * Split.size + MaxBlocks
<1> DEFINE total == Upper - Lower
           size == BlockSize(total, MaxBlocks)
<1>1. total \in Nat /\ MaxBlocks \in Nat \ {0}
  BY Ends
<1>2. size \in Nat /\ MaxBlocks * size <= total /\ total < MaxBlocks * size + MaxBlocks
  BY <1>1, Division
<1>3. Split = [first |-> Lower, after |-> Upper,
               size |-> IF size = 0 THEN 1 ELSE size,
               num |-> IF size = 0 THEN FewBlocks(total) ELSE MaxBlocks]
  BY DEF Split
<1>4. total > 0 <=> Lower < Upper
  BY Ends
<1> HIDE DEF total, size
<1>5. CASE size = 0
  <2>1. total < MaxBlocks
    BY <1>1, <1>2, <1>5
  <2>2. FewBlocks(total) \in Nat \ {0} /\ FewBlocks(total) <= MaxBlocks
    BY <1>1, <2>1 DEF FewBlocks
  <2>3. total > 0 => FewBlocks(total) = total
    BY <1>1 DEF FewBlocks
  <2> QED
    BY <1>1, <1>3, <1>4, <1>5, <2>1, <2>2, <2>3, Ends DEF total
<1>6. CASE size # 0
  BY <1>1, <1>2, <1>3, <1>4, <1>6, Ends DEF total
<1> QED
  BY <1>5, <1>6

(* The last block, from a to the end of the range, where b is the multiple *)
(* of the block size n after a                                             *)
LEMMA LastBlock ==
  ASSUME NEW n \in Nat \ {0}, NEW a \in Int, NEW b \in Int, NEW first \in Int,
         NEW after \in Int, b = a + n, b <= after - first
  PROVE  a + first < after /\ n <= after - (a + first)
OBVIOUS

LEMMA LastBlockBound ==
  ASSUME NEW n \in Nat \ {0}, NEW a \in Int, NEW b \in Int, NEW first \in Int,
         NEW after \in Int, NEW m \in Nat, b = a + n, after - first < b + m
  PROVE  after - (a + first) < n + m
OBVIOUS

LEMMA InnerBlock ==
  ASSUME NEW n \in Nat \ {0}, NEW a \in Int, NEW b \in Int, NEW first \in Int,
         b = a + n
  PROVE  a + first < b + first /\ (b + first) - (a + first) = n
OBVIOUS
-----------------------------------------------------------------------------
LEMMA InitOK == Init => IInv
BY DEF Init, IInv, TypeOK, Calls, PushedOK

LEMMA PushLoopOK ==
  ASSUME IInv, push_loop
  PROVE  IInv'
<1>1. /\ Split \in [first : Int, after : Int, size : Nat \ {0}, num : Nat \ {0}]
      /\ Split.first = Lower
      /\ Split.after = Upper
      /\ Split.num <= MaxBlocks
      /\ Lower < Upper =>
           /\ Split.num * Split.size <= Upper - Lower
           /\ Upper - Lower < Split.num * Split.size + MaxBlocks
  BY SplitOK DEF IInv
<1>2. range' = Split /\ UNCHANGED <<call, i, loop, blocks>>
  BY DEF push_loop
<1>3. Lower' = Lower /\ Upper' = Upper /\ MaxBlocks' = MaxBlocks
  BY <1>2 DEF Lower, Upper, MaxBlocks, first_index, index_after_last, Convert
<1>4. Lower \in Int /\ Upper \in Int /\ Lower <= Upper
  BY Ends DEF IInv
<1>5. i = 0
  BY DEF IInv, push_loop
<1>6. pc' = IF Lower < Upper THEN "push" ELSE "done"
  BY <1>4 DEF push_loop
<1>7. TypeOK'
  BY <1>1, <1>2, <1>5, <1>6 DEF IInv, TypeOK
<1>8. RangeOK'
  BY <1>1, <1>2, <1>3 DEF RangeOK
<1>9. PushedOK'
  BY <1>2, <1>5 DEF PushedOK
<1> QED
  BY <1>1, <1>2, <1>3, <1>4, <1>5, <1>6, <1>7, <1>8, <1>9 DEF IInv

(* The ends of a block lie in the range, so that T holds them.             *)
LEMMA EndsExact ==
  ASSUME IInv, pc = "push"
  PROVE  /\ Convert(Convert(i * range.size) + range.first) = i * range.size + range.first
         /\ BlockEnd(range, i) = EndOf(range, i)
         /\ EndOf(range, i) \in Int
<1> DEFINE a == i * range.size
           b == (i + 1) * range.size
           c == range.num * range.size
<1>1. /\ i \in Nat /\ i + 1 <= range.num /\ Lower < Upper
      /\ range.size \in Nat \ {0} /\ range.num \in Nat \ {0}
      /\ range.first = Lower /\ range.after = Upper
      /\ range.num * range.size <= Upper - Lower
  BY DEF IInv, TypeOK, RangeOK
<1>2. /\ Lower \in Int /\ Upper \in Int
      /\ Lower \in InT(call.type) /\ Upper \in InT(call.type)
  BY Ends DEF IInv
<1>3. a \in Nat /\ b \in Nat /\ c \in Nat
  BY <1>1
<1>4. b <= c /\ b = a + range.size
  BY <1>1, MultipleUpTo, NextMultiple
<1>5. c <= Upper - Lower
  BY <1>1
<1>6. /\ (i = range.num - 1 => BlockEnd(range, i) = Upper /\ EndOf(range, i) = Upper)
      /\ (i # range.num - 1 =>
            /\ BlockEnd(range, i) = Convert(Convert(b) + Lower)
            /\ EndOf(range, i) = b + Lower)
  BY <1>1 DEF BlockEnd, EndOf
<1> HIDE DEF a, b, c
<1>7. Lower <= a + Lower /\ a + Lower <= Upper /\ Lower <= b + Lower /\ b + Lower <= Upper
  BY <1>1, <1>2, <1>3, <1>4, <1>5
<1>8. a + Lower \in InT(call.type) /\ b + Lower \in InT(call.type)
  <2>1. Width \div 2 \in Int /\ Width \in Int
    BY LoopAssumption
  <2> QED
    BY <1>2, <1>3, <1>7, <2>1 DEF InT
<1>9. Convert(Convert(a) + Lower) = a + Lower /\ Convert(Convert(b) + Lower) = b + Lower
  BY <1>2, <1>3, <1>8, ConvertSum
<1> QED
  BY <1>1, <1>2, <1>3, <1>6, <1>9 DEF a

LEMMA PushBlockOK ==
  ASSUME IInv, push_block
  PROVE  IInv'
<1> DEFINE block == [from |-> Convert(Convert(i * range.size) + range.first),
                     to |-> BlockEnd(range, i),
                     loop |-> loop]
<1>1. /\ blocks' = Append(blocks, block)
      /\ i' = i + 1
      /\ UNCHANGED <<call, range>>
      /\ pc' = IF i' < range.num THEN "push" ELSE "done"
      /\ loop' \in {"whole", "moved_from"}
      /\ pc = "push"
  BY DEF push_block, IInv, TypeOK
<1>2. /\ i \in Nat /\ i < range.num /\ Lower < Upper /\ Len(blocks) = i
      /\ range.first \in Int /\ range.after \in Int
      /\ range.size \in Nat \ {0} /\ range.num \in Nat \ {0}
      /\ RangeOK
      /\ blocks \in Seq([from : Int, to : Int, loop : {"whole", "moved_from"}])
      /\ loop \in {"whole", "moved_from"}
  BY <1>1 DEF IInv, TypeOK
<1>3. /\ Convert(Convert(i * range.size) + range.first) = i * range.size + range.first
      /\ BlockEnd(range, i) = EndOf(range, i)
      /\ EndOf(range, i) \in Int
  BY EndsExact DEF IInv, push_block
<1>4. block \in [from : Int, to : Int, loop : {"whole", "moved_from"}]
  BY <1>2, <1>3
<1>5. block.from = i * range.size + range.first /\ block.to = EndOf(range, i)
  BY <1>3
<1> HIDE DEF block
<1>6. /\ blocks' \in Seq([from : Int, to : Int, loop : {"whole", "moved_from"}])
      /\ Len(blocks') = i'
      /\ blocks'[i + 1] = block
      /\ \A k \in 1 .. i : blocks'[k] = blocks[k]
  BY <1>1, <1>2, <1>4
<1>7. Lower' = Lower /\ Upper' = Upper /\ MaxBlocks' = MaxBlocks
  BY <1>1 DEF Lower, Upper, MaxBlocks, first_index, index_after_last, Convert
<1>8. TypeOK'
  BY <1>1, <1>2, <1>6 DEF IInv, TypeOK
<1>9. RangeOK'
  BY <1>1, <1>2, <1>7 DEF RangeOK
<1>10. PushedOK'
  <2> SUFFICES ASSUME NEW k \in 1 .. i'
               PROVE  /\ blocks'[k].from = (k - 1) * range'.size + range'.first
                      /\ blocks'[k].to = EndOf(range', k - 1)
    BY DEF PushedOK, EndOf
  <2>1. CASE k \in 1 .. i
    BY <1>1, <1>6, <2>1 DEF IInv, PushedOK
  <2>2. CASE k = i + 1
    BY <1>1, <1>2, <1>5, <1>6, <2>2
  <2> QED
    BY <1>1, <1>2, <2>1, <2>2
<1> QED
  BY <1>1, <1>2, <1>6, <1>7, <1>8, <1>9, <1>10 DEF IInv

(* Everything the loop does keeps the inductive invariant                  *)
LEMMA Invariant == Spec => []IInv
<1>1. IInv /\ [Next]_vars => IInv'
  <2> SUFFICES ASSUME IInv, [Next]_vars
               PROVE  IInv'
    OBVIOUS
  <2>1. CASE push_loop
    BY <2>1, PushLoopOK
  <2>2. CASE push_block
    BY <2>2, PushBlockOK
  <2>3. CASE UNCHANGED vars
    BY <2>3 DEF vars, IInv, TypeOK, RangeOK, PushedOK, EndOf, Lower, Upper, MaxBlocks,
               first_index, index_after_last, Convert
  <2> QED
    BY <2>1, <2>2, <2>3 DEF Next, Terminating
<1> QED
  BY <1>1, InitOK, PTL DEF Spec
-----------------------------------------------------------------------------
LEMMA TileFromInvariant ==
  ASSUME IInv
  PROVE  BlocksTile
<1>1. /\ i \in Nat /\ Len(blocks) = i /\ i <= range.num
      /\ range.first \in Int /\ range.after \in Int
      /\ range.size \in Nat \ {0} /\ range.num \in Nat \ {0}
      /\ pc \in {"call", "push", "done"}
      /\ PushedOK
      /\ blocks \in Seq([from : Int, to : Int, loop : {"whole", "moved_from"}])
  BY DEF IInv, TypeOK
<1>2. Lower \in Int /\ Upper \in Int /\ MaxBlocks \in Nat
  BY Ends DEF IInv
<1>3. i # 0 => RangeOK /\ Lower < Upper
  BY <1>1 DEF IInv
<1>4. ASSUME NEW k \in 1 .. Len(blocks)
      PROVE  /\ blocks[k].from < blocks[k].to
             /\ blocks[k].from = IF k = 1 THEN Lower ELSE blocks[k - 1].to
  <2>1. k \in 1 .. i /\ k - 1 \in Nat /\ k \in Nat
    BY <1>1
  <2>2. /\ blocks[k].from = (k - 1) * range.size + range.first
        /\ blocks[k].to = EndOf(range, k - 1)
    BY <1>1, <2>1 DEF PushedOK
  <2>3. k * range.size = (k - 1) * range.size + range.size
    BY <1>1, <2>1, NextMultiple
  <2>4. k * range.size <= range.num * range.size
    BY <1>1, <2>1, MultipleUpTo
  <2>5. RangeOK /\ Lower < Upper
    BY <1>3, <2>1
  <2>6. range.num * range.size <= range.after - range.first
    BY <2>5 DEF RangeOK
  <2>7. blocks[k].from < blocks[k].to
    <3> DEFINE a == (k - 1) * range.size
               b == k * range.size
               c == range.num * range.size
    <3>1. a \in Int /\ b \in Int /\ c \in Int
      BY <1>1, <2>1
    <3>2. b = a + range.size /\ b <= c /\ c <= range.after - range.first
      BY <2>3, <2>4, <2>6
    <3>3. blocks[k].from = a + range.first
      BY <2>2
    <3>4. blocks[k].to = IF k - 1 = range.num - 1 THEN range.after ELSE b + range.first
      BY <2>1, <2>2 DEF EndOf
    <3> HIDE DEF a, b, c
    <3>5. b <= range.after - range.first
      BY <1>1, <3>1, <3>2
    <3>6. a + range.first < range.after
      BY <1>1, <3>1, <3>2, <3>5, LastBlock
    <3>7. a + range.first < b + range.first
      BY <1>1, <3>1, <3>2, InnerBlock
    <3> QED
      BY <3>3, <3>4, <3>6, <3>7
  <2>8. ASSUME k = 1 PROVE blocks[k].from = Lower
    <3>1. blocks[k].from = 0 * range.size + range.first
      BY <2>2, <2>8
    <3> QED
      BY <1>1, <2>5, <2>8, <3>1 DEF RangeOK
  <2>9. ASSUME k # 1 PROVE blocks[k].from = blocks[k - 1].to
    <3>1. k - 1 \in 1 .. i /\ k - 2 # range.num - 1
      BY <1>1, <2>1, <2>9
    <3>2. blocks[k - 1].to = EndOf(range, k - 2)
      BY <1>1, <3>1 DEF PushedOK
    <3>3. EndOf(range, k - 2) = (k - 1) * range.size + range.first
      BY <2>1, <3>1 DEF EndOf
    <3> QED
      BY <2>2, <2>9, <3>2, <3>3
  <2>10. blocks[k].from = IF k = 1 THEN Lower ELSE blocks[k - 1].to
    BY <2>8, <2>9
  <2> QED
    BY <2>7, <2>10
<1>5. ASSUME pc = "done"
      PROVE  IF blocks = <<>> THEN Lower = Upper ELSE blocks[Len(blocks)].to = Upper
  <2>1. CASE i = 0 /\ Lower = Upper
    BY <1>1, <2>1
  <2>2. CASE i = range.num /\ Lower < Upper
    <3>1. i \in 1 .. i /\ blocks # <<>>
      BY <1>1, <2>2
    <3>2. blocks[i].to = EndOf(range, i - 1)
      BY <1>1, <3>1 DEF PushedOK
    <3>3. EndOf(range, i - 1) = range.after
      BY <2>2 DEF EndOf
    <3>4. range.after = Upper
      BY <1>3, <1>1, <2>2 DEF RangeOK
    <3> QED
      BY <1>1, <3>1, <3>2, <3>3, <3>4
  <2> QED
    BY <1>5, <2>1, <2>2 DEF IInv
<1> QED
  BY <1>4, <1>5 DEF BlocksTile

LEMMA BalanceFromInvariant ==
  ASSUME IInv
  PROVE  BlocksBalanced
<1>1. /\ i \in Nat /\ Len(blocks) = i /\ i <= range.num
      /\ range.first \in Int /\ range.after \in Int
      /\ range.size \in Nat \ {0} /\ range.num \in Nat \ {0}
      /\ PushedOK
  BY DEF IInv, TypeOK
<1>2. Lower \in Int /\ Upper \in Int /\ MaxBlocks \in Nat \ {0}
  BY Ends DEF IInv
<1>3. i # 0 => RangeOK /\ Lower < Upper
  BY DEF IInv, TypeOK
<1>4. Len(blocks) <= MaxBlocks
  BY <1>1, <1>2, <1>3 DEF RangeOK
<1>5. ASSUME NEW k \in 1 .. Len(blocks)
      PROVE  LET size == blocks[k].to - blocks[k].from IN
             IF k < range.num THEN size = range.size
             ELSE range.size <= size /\ size < range.size + MaxBlocks
  <2>1. k \in 1 .. i /\ k - 1 \in Nat /\ k \in Nat
    BY <1>1
  <2> DEFINE a == (k - 1) * range.size
             b == k * range.size
  <2>2. blocks[k].from = a + range.first /\ blocks[k].to = EndOf(range, k - 1)
    BY <1>1, <2>1 DEF PushedOK
  <2>3. a \in Int /\ b \in Int /\ b = a + range.size
    BY <1>1, <2>1, NextMultiple
  <2>4. /\ k = range.num => b <= Upper - Lower /\ Upper - Lower < b + MaxBlocks
        /\ range.first = Lower /\ range.after = Upper
    BY <1>3, <2>1 DEF RangeOK
  <2>5. blocks[k].to = IF k = range.num THEN range.after ELSE b + range.first
    BY <1>1, <2>1, <2>2 DEF EndOf
  <2> HIDE DEF a, b
  <2>6. CASE k = range.num
    <3>1. /\ range.size <= range.after - (a + range.first)
          /\ range.after - (a + range.first) < range.size + MaxBlocks
      BY <1>1, <1>2, <2>3, <2>4, <2>6, LastBlock, LastBlockBound
    <3>2. blocks[k].from = a + range.first /\ blocks[k].to = range.after
      BY <2>2, <2>5, <2>6
    <3> QED
      BY <1>1, <2>6, <3>1, <3>2
  <2>7. CASE k < range.num
    BY <1>1, <2>2, <2>3, <2>5, <2>7
  <2> QED
    BY <1>1, <2>1, <2>6, <2>7
<1> QED
  BY <1>4, <1>5 DEF BlocksBalanced

(* For every range of every integer type, every number of blocks and of    *)
(* threads every variable keeps its type.                                  *)
THEOREM LoopTypeCorrect == Spec => []TypeOK
<1>1. IInv => TypeOK
  BY DEF IInv
<1> QED
  BY <1>1, Invariant, PTL

(* For every range, every number of blocks and of threads: the blocks      *)
(* pushed tile the range, without gap or overlap.                          *)
THEOREM Tiles == Spec => []BlocksTile
BY Invariant, TileFromInvariant, PTL

(* For all of them: no more blocks than asked for, and none but the last   *)
(* differs in size.                                                        *)
THEOREM Balanced == Spec => []BlocksBalanced
BY Invariant, BalanceFromInvariant, PTL
-----------------------------------------------------------------------------
(* Where the two statements that the code does not keep for every call do  *)
(* hold.                                                                   *)

(* An lvalue is copied into every block and stays whole itself.            *)
CopiesOK ==
  call.argument = "lvalue" =>
    /\ loop = "whole"
    /\ \A k \in 1 .. Len(blocks) : blocks[k].loop = "whole"

LEMMA CopiesNext ==
  ASSUME IInv, CopiesOK, [Next]_vars
  PROVE  CopiesOK'
<1>1. CASE push_loop
  BY <1>1 DEF push_loop, CopiesOK
<1>2. CASE push_block
  <2> DEFINE block == [from |-> Convert(Convert(i * range.size) + range.first),
                       to |-> BlockEnd(range, i),
                       loop |-> loop]
             S == [from : Int, to : Int, loop : {"whole", "moved_from"}]
  <2>1. blocks' = Append(blocks, block) /\ UNCHANGED call
    BY <1>2 DEF push_block
  <2>2. blocks \in Seq(S) /\ block.loop = loop
    BY DEF IInv, TypeOK
  <2>3. loop' = IF call.argument = "rvalue" THEN "moved_from" ELSE loop
    BY <1>2 DEF push_block
  <2> HIDE DEF block
  <2>4. /\ Len(blocks') = Len(blocks) + 1
        /\ blocks'[Len(blocks) + 1] = block
        /\ \A k \in 1 .. Len(blocks) : blocks'[k] = blocks[k]
    BY <2>1, <2>2
  <2>5. \A k \in 1 .. Len(blocks') : k \in 1 .. Len(blocks) \/ k = Len(blocks) + 1
    BY <2>2, <2>4
  <2> QED
    BY <2>1, <2>2, <2>3, <2>4, <2>5 DEF CopiesOK
<1>3. CASE UNCHANGED vars
  BY <1>3 DEF vars, CopiesOK
<1> QED
  BY <1>1, <1>2, <1>3 DEF Next, Terminating

(* A block ends where the range does, or before.                           *)
LEMMA InRange ==
  ASSUME IInv, NEW k \in 1 .. Len(blocks)
  PROVE  /\ blocks[k].from \in Int /\ blocks[k].to \in Int
         /\ Lower <= blocks[k].from /\ blocks[k].to <= Upper
<1> DEFINE a == (k - 1) * range.size
           b == k * range.size
           c == range.num * range.size
<1>1. /\ i \in Nat /\ Len(blocks) = i /\ i <= range.num
      /\ range.size \in Nat \ {0} /\ range.num \in Nat \ {0}
      /\ PushedOK /\ RangeOK /\ Lower < Upper
  BY DEF IInv, TypeOK
<1>2. Lower \in Int /\ Upper \in Int
  BY Ends DEF IInv
<1>3. k \in 1 .. i /\ k \in Nat /\ k - 1 \in Nat /\ k <= range.num
  BY <1>1
<1>4. a \in Nat /\ b \in Nat /\ c \in Nat /\ b <= c
  BY <1>1, <1>3, MultipleUpTo
<1>5. c <= Upper - Lower /\ range.first = Lower /\ range.after = Upper
  BY <1>1 DEF RangeOK
<1>6. blocks[k].from = a + range.first /\ blocks[k].to = EndOf(range, k - 1)
  BY <1>1, <1>3 DEF PushedOK
<1>7. EndOf(range, k - 1) = IF k = range.num THEN range.after ELSE b + range.first
  BY <1>1, <1>3 DEF EndOf
<1> HIDE DEF a, b, c
<1> QED
  BY <1>2, <1>4, <1>5, <1>6, <1>7

(* Every block of a loop function that is passed as an lvalue has the      *)
(* function, for every range: only the move of an rvalue takes it away.    *)
THEOREM LvalueCallable == Spec => [](call.argument = "lvalue" => BlocksCallable)
<1>1. Init => CopiesOK
  BY DEF Init, CopiesOK
<1>2. IInv /\ CopiesOK /\ [Next]_vars => CopiesOK'
  BY CopiesNext
<1>3. CopiesOK => (call.argument = "lvalue" => BlocksCallable)
  BY DEF CopiesOK, BlocksCallable
<1> QED
  BY <1>1, <1>2, <1>3, Invariant, PTL DEF Spec

(* When the ends, converted to T, are given in order no index but those of *)
(* the for statement is in a block: the statement fails only for ends that *)
(* push_loop swaps.                                                        *)
THEOREM ForwardLoops == Spec => [](first_index <= index_after_last => LoopsAsFor)
<1>1. ASSUME IInv, first_index <= index_after_last
      PROVE  LoopsAsFor
  <2>1. first_index \in Int /\ index_after_last \in Int
    <3>1. call.first \in Int /\ call.after \in Int
      BY <1>1, LoopAssumption DEF IInv, TypeOK, Calls
    <3> QED
      BY <3>1, ConvertType DEF first_index, index_after_last
  <2>2. Lower = first_index /\ Upper = index_after_last
    BY <1>1, <2>1 DEF Lower, Upper
  <2> QED
    BY <1>1, <2>1, <2>2, InRange DEF LoopsAsFor
<1>2. IInv => (first_index <= index_after_last => LoopsAsFor)
  BY <1>1
<1> QED
  BY <1>2, Invariant, PTL
=============================================================================
