----------------------------- MODULE OrderProofs -----------------------------
(***************************************************************************)
(* Proofs about the orders NewOrder puts together: that its lines name     *)
(* different stock rows, and what the steps of the benchmark do to the     *)
(* rows under the keys of stock and districts, from which follows that     *)
(* s_remote_cnt counts the lines of other warehouses, and that the         *)
(* benchmark implements OrderEntry.                                        *)
(***************************************************************************)
EXTENDS TpccProofs, FiniteSetTheorems, FunctionTheorems

(* Two sequences of lines that name no stock row twice.                    *)
Distinct(s) == \A j, k \in 1 .. Len(s) : j # k => StockKeyOf(s[j]) # StockKeyOf(s[k])
Apart(s, t) == \A j \in 1 .. Len(s), k \in 1 .. Len(t) : StockKeyOf(s[j]) # StockKeyOf(t[k])

(* The lines generated so far: the local ones of the home warehouse, the   *)
(* remote ones of others, and none outside NewOrder.                       *)
LinesOK ==
  /\ IF pc \in NewOrderLabels
     THEN /\ txn.w \in HomeWarehouses
          /\ txn.num \in MinOlCnt .. MaxOlCnt
          /\ Generated <= txn.num
     ELSE txn.local = <<>> /\ txn.remote = <<>>
  /\ \A k \in 1 .. Len(txn.local) : txn.local[k].supply = txn.w
  /\ \A k \in 1 .. Len(txn.remote) : txn.remote[k].supply # txn.w
  /\ txn.all_local = 1 => txn.remote = <<>>
  /\ Distinct(txn.local)
  /\ Distinct(txn.remote)
  /\ Apart(txn.local, txn.remote)
-----------------------------------------------------------------------------
(* A line that names another row than those of a sequence may be appended. *)
LEMMA AppendDistinct ==
  ASSUME NEW s \in Seq(Line), NEW l \in Line,
         \A k \in 1 .. Len(s) : StockKeyOf(s[k]) # StockKeyOf(l)
  PROVE  /\ Len(Append(s, l)) = Len(s) + 1
         /\ \A k \in 1 .. Len(s) + 1 : Append(s, l)[k] = IF k <= Len(s) THEN s[k] ELSE l
         /\ Distinct(s) => Distinct(Append(s, l))
         /\ \A t \in Seq(Line) :
              (\A k \in 1 .. Len(t) : StockKeyOf(t[k]) # StockKeyOf(l)) =>
                /\ Apart(s, t) => Apart(Append(s, l), t)
                /\ Apart(t, s) => Apart(t, Append(s, l))
<1> DEFINE a == Append(s, l)
           m == Len(s)
<1>1. Len(a) = m + 1 /\ m \in Nat
  OBVIOUS
<1>2. ASSUME NEW k \in 1 .. m + 1
      PROVE  a[k] = IF k <= m THEN s[k] ELSE l
  OBVIOUS
<1> HIDE DEF a, m
<1>3. \A k \in 1 .. m : StockKeyOf(s[k]) # StockKeyOf(l)
  BY DEF m
<1>4. Distinct(s) => Distinct(a)
  <2> SUFFICES ASSUME Distinct(s), NEW j \in 1 .. Len(a), NEW k \in 1 .. Len(a), j # k
               PROVE  StockKeyOf(a[j]) # StockKeyOf(a[k])
    BY DEF Distinct
  <2>1. j \in 1 .. m + 1 /\ k \in 1 .. m + 1
    BY <1>1
  <2>2. CASE j <= m /\ k <= m
    BY <1>1, <1>2, <2>1, <2>2 DEF Distinct, m
  <2>3. CASE j <= m /\ ~(k <= m)
    BY <1>1, <1>2, <1>3, <2>1, <2>3
  <2>4. CASE ~(j <= m) /\ k <= m
    BY <1>1, <1>2, <1>3, <2>1, <2>4
  <2>5. CASE ~(j <= m) /\ ~(k <= m)
    BY <1>1, <2>1, <2>5
  <2> QED
    BY <2>2, <2>3, <2>4, <2>5
<1>5. ASSUME NEW t \in Seq(Line), \A k \in 1 .. Len(t) : StockKeyOf(t[k]) # StockKeyOf(l)
      PROVE  /\ Apart(s, t) => Apart(a, t)
             /\ Apart(t, s) => Apart(t, a)
  <2>1. \A j \in 1 .. Len(a) : j \in 1 .. m \/ (j \in 1 .. m + 1 /\ ~(j <= m))
    BY <1>1
  <2>2. \A j \in 1 .. m : j \in 1 .. m + 1 /\ j <= m
    BY <1>1
  <2>3. \A j \in 1 .. Len(a) : (j \in 1 .. Len(s) /\ a[j] = s[j]) \/ a[j] = l
    BY <1>2, <2>1, <2>2 DEF m
  <2> QED
    BY <1>5, <2>3 DEF Apart
<1> QED
  BY <1>1, <1>2, <1>4, <1>5 DEF a, m

(* The n-th line of an order is a local or a remote one; two of them are   *)
(* two lines of a sequence, or one of each.                                *)
LEMMA LineCases ==
  ASSUME txn \in Txn, NEW n \in 1 .. Generated
  PROVE  \/ n \in 1 .. Len(txn.local) /\ LineAt(n) = txn.local[n]
         \/ /\ n - Len(txn.local) \in 1 .. Len(txn.remote)
            /\ LineAt(n) = txn.remote[n - Len(txn.local)]
<1> DEFINE a == Len(txn.local)
           b == Len(txn.remote)
<1>1. a \in Nat /\ b \in Nat /\ Generated = a + b
  BY DEF Txn, Generated
<1> HIDE DEF a, b
<1>2. n \in Nat /\ n >= 1 /\ n <= a + b
  BY <1>1
<1>3. CASE n <= a
  <2>1. n \in 1 .. a
    BY <1>1, <1>2, <1>3
  <2> QED
    BY <1>3, <2>1 DEF LineAt, IsLocal, a
<1>4. CASE ~(n <= a)
  <2>1. n - a \in 1 .. b
    BY <1>1, <1>2, <1>4
  <2> QED
    BY <1>4, <2>1 DEF LineAt, IsLocal, a, b
<1> QED
  BY <1>3, <1>4

LEMMA LinesAreDistinct ==
  ASSUME IInv, LinesOK
  PROVE  LinesDistinct
<1>1. txn \in Txn
  BY DEF IInv, TypeOK
<1>2. /\ Len(txn.local) \in Nat /\ Len(txn.remote) \in Nat
      /\ Generated = Len(txn.local) + Len(txn.remote) /\ Generated \in Nat
  BY <1>1 DEF Txn, Generated
<1>3. Generated <= MaxOlCnt
  <2> MinOlCnt \in Nat /\ MaxOlCnt \in Nat
    BY SizeAssumption
  <2>1. CASE pc \in NewOrderLabels
    <3> DEFINE num == txn.num
               generated == Generated
    <3>1. num \in MinOlCnt .. MaxOlCnt /\ generated <= num /\ generated \in Nat
      BY <1>2, <2>1 DEF LinesOK
    <3> HIDE DEF num, generated
    <3>2. generated <= MaxOlCnt
      BY <3>1
    <3> QED
      BY <3>2 DEF generated
  <2>2. CASE pc \notin NewOrderLabels
    <3>1. Len(txn.local) = 0 /\ Len(txn.remote) = 0
      BY <2>2 DEF LinesOK
    <3> QED
      BY <1>2, <3>1
  <2> QED
    BY <2>1, <2>2
<1>4. ASSUME NEW j \in 1 .. Generated, NEW k \in 1 .. Generated, j # k
      PROVE  StockKeyOf(LineAt(j)) # StockKeyOf(LineAt(k))
  <2> DEFINE a == Len(txn.local)
             b == Len(txn.remote)
  <2>1. \/ j \in 1 .. a /\ LineAt(j) = txn.local[j]
        \/ j - a \in 1 .. b /\ LineAt(j) = txn.remote[j - a]
    BY <1>1, LineCases
  <2>2. \/ k \in 1 .. a /\ LineAt(k) = txn.local[k]
        \/ k - a \in 1 .. b /\ LineAt(k) = txn.remote[k - a]
    BY <1>1, LineCases
  <2>3. j - a # k - a
    BY <1>2, <1>4
  <2>4. Distinct(txn.local) /\ Distinct(txn.remote) /\ Apart(txn.local, txn.remote)
    BY DEF LinesOK
  <2> QED
    BY <1>4, <2>1, <2>2, <2>3, <2>4 DEF Distinct, Apart
<1>5. ASSUME txn.all_local = 1, NEW k \in 1 .. Generated
      PROVE  LineAt(k).supply = txn.w
  <2>1. Len(txn.remote) = 0
    BY <1>5 DEF LinesOK
  <2> QED
    BY <1>1, <1>2, <1>5, <2>1, LineCases DEF LinesOK
<1> QED
  BY <1>3, <1>4, <1>5 DEF LinesDistinct
-----------------------------------------------------------------------------
(* A step that leaves the lines alone, and one after which there are none. *)
SameLines ==
  /\ txn'.w = txn.w
  /\ txn'.num = txn.num
  /\ txn'.local = txn.local
  /\ txn'.remote = txn.remote
  /\ txn'.all_local = txn.all_local

LEMMA KeepLines ==
  ASSUME LinesOK, SameLines, pc' \in NewOrderLabels <=> pc \in NewOrderLabels
  PROVE  LinesOK'
BY DEF LinesOK, SameLines, Generated, Distinct, Apart

LEMMA NoLines ==
  ASSUME txn'.local = <<>>, txn'.remote = <<>>,
         pc' \in NewOrderLabels => /\ txn'.w \in HomeWarehouses
                                   /\ txn'.num \in MinOlCnt .. MaxOlCnt
  PROVE  LinesOK'
<1>1. Len(txn'.local) = 0 /\ Len(txn'.remote) = 0
  OBVIOUS
<1>2. Generated' = 0
  BY <1>1 DEF Generated
<1>3. pc' \in NewOrderLabels => Generated' <= txn'.num
  <2> DEFINE num == txn'.num
  <2>1. pc' \in NewOrderLabels => num \in MinOlCnt .. MaxOlCnt
    OBVIOUS
  <2> HIDE DEF num
  <2>2. pc' \in NewOrderLabels => 0 <= num
    BY <2>1, SizeAssumption
  <2> QED
    BY <1>2, <2>2 DEF num
<1>4. Distinct(txn'.local) /\ Distinct(txn'.remote) /\ Apart(txn'.local, txn'.remote)
  BY <1>1 DEF Distinct, Apart
<1> QED
  BY <1>1, <1>3, <1>4 DEF LinesOK

LEMMA EndLines ==
  ASSUME EndTxn
  PROVE  LinesOK'
BY NoLines DEF EndTxn, NoTxn, NewOrderLabels

(* What the loader goes on with.                                           *)
LEMMA LoadLabels ==
  ASSUME IInv, Load
  PROVE  pc \in LoadPhases /\ pc' \in LoadPhases \cup {"idle"}
<1>1. pc \in LoadPhases
  BY DEF Load, LoadTables, LoadWarehouse, LoadDistrict, LoadCustomer,
    LoadCustomerIndex, LoadHistory, LoadOrder, LoadOrderIndex, LoadNewOrder,
    LoadOrderLine, LoadStock, LoadItem, LoadPhases
<1>2. CASE LoadCustomer \/ LoadCustomerIndex \/ LoadOrder \/ LoadOrderIndex \/ LoadNewOrder
  BY <1>2 DEF LoadCustomer, LoadCustomerIndex, LoadOrder, LoadOrderIndex, LoadNewOrder,
    GotoPut, LoadPhases
<1>3. CASE pc \in EndPhases /\ Advance
  <2>1. loop \in LoopType /\ LoopOK
    BY DEF IInv, TypeOK, LoopType
  <2> QED
    BY <1>1, <1>3, <2>1, AdvanceOK
<1>4. CASE LoadOrderLine /\ pc' = pc
  BY <1>1, <1>4
<1> QED
  BY <1>1, <1>2, <1>3, <1>4 DEF Load, LoadTables, LoadWarehouse, LoadDistrict, LoadHistory,
    LoadOrderLine, LoadStock, LoadItem, EndPhases

LEMMA LenInc ==
  ASSUME NEW s \in Seq(Line), NEW t \in Seq(Line)
  PROVE  /\ (Len(s) + 1) + Len(t) = (Len(s) + Len(t)) + 1
         /\ Len(s) + (Len(t) + 1) = (Len(s) + Len(t)) + 1
<1>1. Len(s) \in Nat /\ Len(t) \in Nat
  OBVIOUS
<1> QED
  BY <1>1

LEMMA GenerateLocalLines ==
  ASSUME IInv, LinesOK, GenerateLocal
  PROVE  LinesOK'
<1>1. /\ pc = "no_generate" /\ pc' = "no_generate" /\ Generated < txn.num
      /\ pc \in NewOrderLabels /\ pc \in TxnLabels
  BY DEF GenerateLocal, Goto, NewOrderLabels, TxnLabels
<1>2. txn \in Txn /\ txn.w \in Warehouses
  BY <1>1, InTxn
<1>3. PICK i \in ItemPool :
        /\ StockKeyOf([item |-> i, supply |-> txn.w]) \notin StockSet
        /\ txn' = [txn EXCEPT !.local = Append(@, [item |-> i, supply |-> txn.w])]
  BY DEF GenerateLocal
<1> DEFINE line == [item |-> i, supply |-> txn.w]
<1>4. line \in Line /\ line.supply = txn.w
  BY <1>2, PoolAssumption DEF Line
<1> HIDE DEF line
<1>5. txn.local \in Seq(Line) /\ txn.remote \in Seq(Line)
  BY <1>2 DEF Txn
<1>6. /\ \A k \in 1 .. Len(txn.local) : StockKeyOf(txn.local[k]) # StockKeyOf(line)
      /\ \A k \in 1 .. Len(txn.remote) : StockKeyOf(txn.remote[k]) # StockKeyOf(line)
  BY <1>3 DEF StockSet, line
<1> DEFINE local == Append(txn.local, line)
<1>7. /\ Len(local) = Len(txn.local) + 1
      /\ \A k \in 1 .. Len(txn.local) + 1 :
           local[k] = IF k <= Len(txn.local) THEN txn.local[k] ELSE line
      /\ Distinct(local) /\ Apart(local, txn.remote)
  BY <1>4, <1>5, <1>6, AppendDistinct DEF LinesOK
<1>8. /\ txn'.local = local /\ txn'.w = txn.w /\ txn'.num = txn.num
      /\ txn'.remote = txn.remote /\ txn'.all_local = txn.all_local
  BY <1>2, <1>3 DEF Txn, line
<1> HIDE DEF local
<1>9. \A k \in 1 .. Len(local) : local[k].supply = txn.w
  BY <1>4, <1>5, <1>7 DEF LinesOK
<1>10. Generated' <= txn'.num
  <2>1. Generated' = Generated + 1
    BY <1>5, <1>7, <1>8, LenInc DEF Generated
  <2>2. Generated \in Nat /\ txn.num \in Nat
    BY <1>2, <1>5 DEF Generated, Txn
  <2> QED
    BY <1>1, <1>8, <2>1, <2>2
<1> QED
  BY <1>1, <1>7, <1>8, <1>9, <1>10 DEF LinesOK

LEMMA GenerateRemoteLines ==
  ASSUME IInv, LinesOK, GenerateRemote
  PROVE  LinesOK'
<1>1. /\ pc = "no_generate" /\ pc' = "no_generate" /\ Generated < txn.num
      /\ pc \in NewOrderLabels /\ pc \in TxnLabels
  BY DEF GenerateRemote, Goto, NewOrderLabels, TxnLabels
<1>2. txn \in Txn /\ txn.w \in Warehouses
  BY <1>1, InTxn
<1>3. PICK i \in ItemPool, supply \in Warehouses \ {txn.w} :
        LET line == [item |-> i, supply |-> supply] IN
        txn' = [txn EXCEPT !.all_local = 0,
                           !.remote = IF StockKeyOf(line) \in StockSet THEN @
                                      ELSE Append(@, line)]
  BY DEF GenerateRemote
<1> DEFINE line == [item |-> i, supply |-> supply]
<1>4. line \in Line /\ line.supply # txn.w
  BY <1>2, PoolAssumption DEF Line
<1>5. /\ txn'.w = txn.w /\ txn'.num = txn.num /\ txn'.local = txn.local
      /\ txn'.all_local = 0
      /\ txn'.remote = IF StockKeyOf(line) \in StockSet THEN txn.remote
                       ELSE Append(txn.remote, line)
  BY <1>2, <1>3 DEF Txn
<1> HIDE DEF line
<1>6. txn.local \in Seq(Line) /\ txn.remote \in Seq(Line)
  BY <1>2 DEF Txn
<1>7. Generated \in Nat /\ txn.num \in Nat
  BY <1>2, <1>6 DEF Generated, Txn
<1>8. CASE StockKeyOf(line) \in StockSet
  <2>1. txn'.remote = txn.remote
    BY <1>5, <1>8
  <2>2. Generated' = Generated
    BY <1>5, <2>1 DEF Generated
  <2>3. Generated' <= txn'.num
    BY <1>1, <1>5, <1>7, <2>2
  <2>4. /\ \A k \in 1 .. Len(txn'.local) : txn'.local[k].supply = txn'.w
        /\ \A k \in 1 .. Len(txn'.remote) : txn'.remote[k].supply # txn'.w
        /\ Distinct(txn'.local) /\ Distinct(txn'.remote) /\ Apart(txn'.local, txn'.remote)
    BY <1>5, <2>1 DEF LinesOK
  <2>5. txn'.w \in HomeWarehouses /\ txn'.num \in MinOlCnt .. MaxOlCnt /\ txn'.all_local # 1
    BY <1>1, <1>5 DEF LinesOK
  <2> QED
    BY <1>1, <2>3, <2>4, <2>5 DEF LinesOK
<1>9. CASE StockKeyOf(line) \notin StockSet
  <2> DEFINE remote == Append(txn.remote, line)
  <2>1. /\ \A k \in 1 .. Len(txn.local) : StockKeyOf(txn.local[k]) # StockKeyOf(line)
        /\ \A k \in 1 .. Len(txn.remote) : StockKeyOf(txn.remote[k]) # StockKeyOf(line)
    BY <1>9 DEF StockSet
  <2>2. /\ Len(remote) = Len(txn.remote) + 1
        /\ \A k \in 1 .. Len(txn.remote) + 1 :
             remote[k] = IF k <= Len(txn.remote) THEN txn.remote[k] ELSE line
        /\ Distinct(remote) /\ Apart(txn.local, remote)
    BY <1>4, <1>6, <2>1, AppendDistinct DEF LinesOK
  <2>3. txn'.remote = remote
    BY <1>5, <1>9
  <2> HIDE DEF remote
  <2>4. \A k \in 1 .. Len(remote) : remote[k].supply # txn.w
    BY <1>4, <1>6, <2>2 DEF LinesOK
  <2>5. Generated' <= txn'.num
    <3>1. Generated' = Generated + 1
      BY <1>5, <1>6, <2>2, <2>3, LenInc DEF Generated
    <3> QED
      BY <1>1, <1>5, <1>7, <3>1
  <2> QED
    BY <1>1, <1>5, <2>2, <2>3, <2>4, <2>5 DEF LinesOK
<1> QED
  BY <1>8, <1>9

LEMMA LinesStep ==
  ASSUME IInv, LinesOK, [Next]_vars
  PROVE  LinesOK'
<1>1. CASE Load
  <2>1. UNCHANGED txn
    BY <1>1 DEF Load
  <2>2. pc \in LoadPhases /\ pc' \in LoadPhases \cup {"idle"}
    BY <1>1, LoadLabels
  <2> QED
    BY <2>1, <2>2, KeepLines DEF SameLines, LoadPhases, NewOrderLabels
<1>2. CASE NewOrder
  <2>1. PICK w \in HomeWarehouses, d \in Districts, c \in CustomerPool,
             num \in MinOlCnt .. MaxOlCnt :
          txn' = [NoTxn EXCEPT !.w = w, !.d = d, !.c = c, !.num = num]
    BY <1>2 DEF NewOrder
  <2>2. txn'.local = <<>> /\ txn'.remote = <<>> /\ txn'.w = w /\ txn'.num = num
    BY <2>1 DEF NoTxn
  <2> QED
    BY <2>2, NoLines
<1>3. CASE GenerateLocal \/ GenerateRemote
  BY <1>3, GenerateLocalLines, GenerateRemoteLines
<1>4. CASE \/ StartRun \/ TakeOrderId \/ InsertNewOrder \/ InsertOrder \/ InsertOrderIndex
           \/ UpdateStock
  <2>1. pc \in TxnLabels /\ pc \in NewOrderLabels /\ pc' \in NewOrderLabels
    BY <1>4 DEF StartRun, TakeOrderId, InsertNewOrder, InsertOrder, InsertOrderIndex,
      UpdateStock, Goto, NewOrderLabels, TxnLabels
  <2>2. txn \in Txn
    BY <2>1, InTxn
  <2>3. SameLines
    BY <1>4, <2>2 DEF StartRun, TakeOrderId, InsertNewOrder, InsertOrder, InsertOrderIndex,
      UpdateStock, Txn, SameLines
  <2> QED
    BY <2>1, <2>3, KeepLines
<1>5. CASE InsertOrderLine
  <2>1. pc \in TxnLabels /\ pc \in NewOrderLabels
    BY <1>5 DEF InsertOrderLine, NewOrderLabels, TxnLabels
  <2>2. txn \in Txn
    BY <2>1, InTxn
  <2>3. CASE txn' = [txn EXCEPT !.n = @ + 1] /\ pc' = "no_stock"
    BY <2>1, <2>2, <2>3, KeepLines DEF Txn, SameLines, NewOrderLabels
  <2>4. CASE EndTxn
    BY <2>4, EndLines
  <2> QED
    BY <1>5, <2>3, <2>4 DEF InsertOrderLine
<1>6. CASE Payment
  <2>1. PICK w \in HomeWarehouses, d \in Districts, c \in CustomerPool :
        \E cwd \in {<<w, d>>} \cup (Warehouses \ {w}) \X Districts :
          txn' = [NoTxn EXCEPT !.w = w, !.d = d, !.cw = cwd[1], !.cd = cwd[2], !.c = c]
    BY <1>6 DEF Payment
  <2>2. txn'.local = <<>> /\ txn'.remote = <<>>
    BY <2>1 DEF NoTxn
  <2> QED
    BY <1>6, <2>2, NoLines DEF Payment, Goto, NewOrderLabels
<1>7. CASE \/ PayWarehouse \/ PayDistrict \/ PayCustomer \/ DeliverOrder \/ DeliverLine
  <2>1. pc \in TxnLabels /\ pc \notin NewOrderLabels /\ pc' \notin NewOrderLabels
    BY <1>7 DEF PayWarehouse, PayDistrict, PayCustomer, DeliverOrder, DeliverLine, Goto,
      NewOrderLabels, TxnLabels
  <2>2. txn \in Txn
    BY <2>1, InTxn
  <2>3. SameLines
    BY <1>7, <2>2 DEF PayWarehouse, PayDistrict, PayCustomer, DeliverOrder, DeliverLine, Txn,
      SameLines
  <2> QED
    BY <2>1, <2>3, KeepLines
<1>8. CASE InsertHistory \/ OrderStatus \/ StockLevel
  BY <1>8, EndLines DEF InsertHistory, OrderStatus, StockLevel
<1>9. CASE Delivery
  <2>1. PICK w \in HomeWarehouses : txn' = [NoTxn EXCEPT !.w = w, !.d = 1]
    BY <1>9 DEF Delivery
  <2>2. txn'.local = <<>> /\ txn'.remote = <<>>
    BY <2>1 DEF NoTxn
  <2> QED
    BY <1>9, <2>2, NoLines DEF Delivery, Goto, NewOrderLabels
<1>10. CASE DeliverCustomer
  <2>1. CASE txn' = [NoTxn EXCEPT !.w = txn.w, !.d = txn.d + 1] /\ pc' = "dl_order"
    <3>1. txn'.local = <<>> /\ txn'.remote = <<>>
      BY <2>1 DEF NoTxn
    <3> QED
      BY <2>1, <3>1, NoLines DEF NewOrderLabels
  <2>2. CASE EndTxn
    BY <2>2, EndLines
  <2> QED
    BY <1>10, <2>1, <2>2 DEF DeliverCustomer
<1>11. CASE Finish \/ Terminating \/ UNCHANGED vars
  BY <1>11, KeepLines DEF Finish, Terminating, vars, SameLines, NewOrderLabels
<1>12. CASE Crash
  <2>1. txn'.local = <<>> /\ txn'.remote = <<>> /\ pc' = "warehouse"
    BY <1>12 DEF Crash, NoTxn
  <2> QED
    BY <2>1, NoLines DEF NewOrderLabels
<1> QED
  BY <1>1, <1>2, <1>3, <1>4, <1>5, <1>6, <1>7, <1>8, <1>9, <1>10, <1>11, <1>12
  DEF Next, Step, NewOrderStep, PaymentStep, DeliveryStep
-----------------------------------------------------------------------------
(* With the lines the invariant is inductive again.                        *)
OrderInv == IInv /\ LinesOK

LEMMA OrderInit ==
  ASSUME Init
  PROVE  OrderInv
<1>1. IInv
  BY InitOK
<1>2. /\ pc \notin NewOrderLabels
      /\ txn.local = <<>> /\ txn.remote = <<>>
  BY DEF Init, NoTxn, NewOrderLabels
<1>3. Len(txn.local) = 0 /\ Len(txn.remote) = 0
  BY <1>2
<1>4. Distinct(txn.local) /\ Distinct(txn.remote) /\ Apart(txn.local, txn.remote)
  BY <1>3 DEF Distinct, Apart
<1> QED
  BY <1>1, <1>2, <1>3, <1>4 DEF OrderInv, LinesOK

LEMMA OrderInvariant == Spec => []OrderInv
<1>1. Init => OrderInv
  BY OrderInit
<1>2. OrderInv /\ [Next]_vars => OrderInv'
  BY NextOK, LinesStep DEF OrderInv
<1> QED
  BY <1>1, <1>2, PTL DEF Spec

(* The generation loop asks for each stock once, fills no more of the      *)
(* arrays than they hold, and marks no order with a remote line all local, *)
(* whatever the sizes and the draws.                                       *)
THEOREM LinesDistinctHold == Spec => []LinesDistinct
<1>1. OrderInv => LinesDistinct
  BY LinesAreDistinct DEF OrderInv
<1> QED
  BY <1>1, OrderInvariant, PTL
-----------------------------------------------------------------------------
(* What a step leaves alone: the rows under some keys, or their numbers at *)
(* offset 8.                                                               *)
RowsSame(keys) ==
  \A k \in keys : /\ k \in DOMAIN store' <=> k \in DOMAIN store
                  /\ k \in DOMAIN store => store'[k] = store[k]

CountersSame ==
  \A k \in DistrictKeys : /\ k \in DOMAIN store' <=> k \in DOMAIN store
                          /\ k \in DOMAIN store => store'[k].at8 = store[k].at8

(* A step that puts one row, under the key k: another key keeps its row.   *)
OnePut(k) ==
  \/ \E row : store' = PutRecord(store, k, row)
  \/ \E row : store' = PutIfAbsent(store, k, row)
  \/ UNCHANGED store

LEMMA PutIsOne ==
  ASSUME NEW k, NEW row, Put(k, row)
  PROVE  OnePut(k)
BY DEF Put, OnePut

LEMMA OnePutFrame ==
  ASSUME NEW k, OnePut(k), NEW keys, k \notin keys
  PROVE  RowsSame(keys)
<1>1. ASSUME NEW row, store' = PutRecord(store, k, row)
      PROVE  RowsSame(keys)
  BY <1>1 DEF PutRecord, RowsSame
<1>2. ASSUME NEW row, store' = PutIfAbsent(store, k, row)
      PROVE  RowsSame(keys)
  <2>1. CASE k \in DOMAIN store
    BY <1>2, <2>1 DEF PutIfAbsent, RowsSame
  <2>2. CASE k \notin DOMAIN store
    BY <1>1, <1>2, <2>2 DEF PutIfAbsent
  <2> QED
    BY <2>1, <2>2
<1>3. CASE UNCHANGED store
  BY <1>3 DEF RowsSame
<1> QED
  BY <1>1, <1>2, <1>3 DEF OnePut

(* The steps that put rows under keys that are not flat.                   *)
LoadClear ==
  \/ LoadCustomer \/ LoadCustomerIndex \/ LoadHistory
  \/ LoadOrder \/ LoadOrderIndex \/ LoadNewOrder \/ LoadOrderLine
TxnClear ==
  \/ InsertNewOrder \/ InsertOrder \/ InsertOrderIndex \/ InsertOrderLine
  \/ PayCustomer \/ InsertHistory
  \/ DeliverOrder \/ DeliverLine \/ DeliverCustomer

LEMMA LoadClearPut ==
  ASSUME IInv, LoadClear
  PROVE  \E k \in Int \ FlatKeys : OnePut(k)
<1>1. pc \in OrderPhases
  BY DEF LoadClear, LoadCustomer, LoadCustomerIndex, LoadHistory, LoadOrder,
    LoadOrderIndex, LoadNewOrder, LoadOrderLine, OrderPhases
<1>2. /\ loop.w \in Warehouses /\ loop.d \in Districts /\ loop.n \in Customers
      /\ loop.n \in Nat /\ loop.n \in Int /\ loop.l \in Nat
  BY <1>1, OrderPhaseOK, SizeAssumption DEF LoopType
<1>3. CASE LoadCustomer
  <2>1. OnePut(MakeCustomerKey(loop.w, loop.d, loop.n))
    BY <1>3 DEF LoadCustomer, OnePut
  <2> QED
    BY <1>2, <2>1, OrderKeysNotFlat
<1>4. CASE LoadCustomerIndex
  <2>1. OnePut(HeapAddress[<<loop.w, loop.d, loop.n>>])
    BY <1>4 DEF LoadCustomerIndex, OnePut
  <2>2. HeapAddress[<<loop.w, loop.d, loop.n>>] \in Int \ FlatKeys
    BY <1>2, LoadAssumption
  <2> QED
    BY <2>1, <2>2
<1>5. CASE LoadHistory
  <2>1. OnePut(MakeHistoryKey(loop.w, loop.d, loop.w, loop.d, loop.n))
    BY <1>5 DEF LoadHistory, OnePut
  <2> QED
    BY <1>2, <2>1, HistoryKeyNotFlat
<1>6. CASE LoadOrder
  <2>1. OnePut(MakeOrderKey(loop.w, loop.d, loop.n))
    BY <1>6 DEF LoadOrder, OnePut
  <2> QED
    BY <1>2, <2>1, OrderKeysNotFlat
<1>7. CASE LoadOrderIndex
  <2> DEFINE c_id == OrderCustomer[<<loop.w, loop.d>>][loop.n]
  <2>1. OnePut(MakeOrderIndexKey(loop.w, loop.d, c_id, loop.n))
    BY <1>7 DEF LoadOrderIndex, OnePut
  <2>2. c_id \in Customers
    BY <1>2, LoadedOrderType
  <2> HIDE DEF c_id
  <2> QED
    BY <1>2, <2>1, <2>2, IndexKeyNotFlat
<1>8. CASE LoadNewOrder
  <2>1. OnePut(MakeNewOrderKey(loop.w, loop.d, loop.n))
    BY <1>8 DEF LoadNewOrder, OnePut
  <2> QED
    BY <1>2, <2>1, OrderKeysNotFlat
<1>9. CASE LoadOrderLine
  <2>1. OnePut(MakeOrderLineKey(loop.w, loop.d, loop.n, loop.l))
    BY <1>9 DEF LoadOrderLine, OnePut
  <2> QED
    BY <1>2, <2>1, LineKeyNotFlat
<1> QED
  BY <1>3, <1>4, <1>5, <1>6, <1>7, <1>8, <1>9 DEF LoadClear

LEMMA TxnClearPut ==
  ASSUME IInv, TxnClear
  PROVE  \E k \in Int \ FlatKeys : OnePut(k)
<1>1. pc \in TxnLabels
  BY DEF TxnClear, InsertNewOrder, InsertOrder, InsertOrderIndex, InsertOrderLine,
    PayCustomer, InsertHistory, DeliverOrder, DeliverLine, DeliverCustomer, TxnLabels
<1>2. /\ txn.w \in Warehouses /\ txn.d \in Districts /\ txn.o \in Nat /\ txn.o \in Int
      /\ txn.c \in Int /\ txn.n \in Nat
  BY <1>1, InTxn DEF Txn
<1>3. CASE InsertNewOrder
  <2>1. OnePut(MakeNewOrderKey(txn.w, txn.d, txn.o))
    BY <1>3, PutIsOne DEF InsertNewOrder
  <2> QED
    BY <1>2, <2>1, OrderKeysNotFlat
<1>4. CASE InsertOrder
  <2>1. OnePut(MakeOrderKey(txn.w, txn.d, txn.o))
    BY <1>4, PutIsOne DEF InsertOrder, OrderKey
  <2> QED
    BY <1>2, <2>1, OrderKeysNotFlat
<1>5. CASE InsertOrderIndex
  <2>1. OnePut(MakeOrderIndexKey(txn.w, txn.d, txn.c, txn.o))
    BY <1>5, PutIsOne DEF InsertOrderIndex
  <2>2. txn.c \in Customers
    BY <1>5 DEF IInv, InFlight, InsertOrderIndex, NewOrderLabels
  <2> QED
    BY <1>2, <2>1, <2>2, IndexKeyNotFlat
<1>6. CASE InsertOrderLine
  <2>1. OnePut(LineKey(txn.n))
    BY <1>6, PutIsOne DEF InsertOrderLine
  <2>2. LineKey(txn.n) \in Int \ FlatKeys
    BY <1>2, OrderKeysNotFlat, LineKeyNotFlat DEF LineKey, OrderKey
  <2> QED
    BY <2>1, <2>2
<1>7. CASE PayCustomer \/ InsertHistory
  <2>1. txn.cw \in Warehouses /\ txn.cd \in Districts /\ txn.c \in Customers
    BY <1>7 DEF IInv, InFlight, PayCustomer, InsertHistory, PaymentLabels
  <2>2. ASSUME PayCustomer
        PROVE  OnePut(MakeCustomerKey(txn.cw, txn.cd, txn.c))
    BY <2>2, PutIsOne DEF PayCustomer
  <2>3. ASSUME InsertHistory
        PROVE  OnePut(MakeHistoryKey(txn.w, txn.d, txn.cw, txn.cd, txn.c))
    BY <2>3, PutIsOne DEF InsertHistory
  <2>4. CASE PayCustomer
    BY <1>2, <2>1, <2>2, <2>4, OrderKeysNotFlat
  <2>5. CASE InsertHistory
    BY <1>2, <2>1, <2>3, <2>5, HistoryKeyNotFlat
  <2> QED
    BY <1>7, <2>4, <2>5
<1>8. CASE DeliverOrder
  <2>1. PICK o \in MinDeliverable .. NumCustomer : OnePut(MakeOrderKey(txn.w, txn.d, o))
    BY <1>8, PutIsOne DEF DeliverOrder
  <2>2. o \in Int
    BY SizeAssumption DEF MinDeliverable
  <2> QED
    BY <1>2, <2>1, <2>2, OrderKeysNotFlat
<1>9. CASE DeliverLine
  <2>1. OnePut(MakeOrderLineKey(txn.w, txn.d, txn.o, txn.n))
    BY <1>9, PutIsOne DEF DeliverLine
  <2> QED
    BY <1>2, <2>1, LineKeyNotFlat
<1>10. CASE DeliverCustomer
  <2>1. OnePut(MakeCustomerKey(txn.w, txn.d, txn.c))
    BY <1>10, PutIsOne DEF DeliverCustomer
  <2> QED
    BY <1>2, <2>1, OrderKeysNotFlat
<1> QED
  BY <1>3, <1>4, <1>5, <1>6, <1>7, <1>8, <1>9, <1>10 DEF TxnClear

LEMMA ClearFrame ==
  ASSUME IInv, LoadClear \/ TxnClear
  PROVE  RowsSame(StockKeys) /\ CountersSame
<1>1. PICK k \in Int \ FlatKeys : OnePut(k)
  BY LoadClearPut, TxnClearPut
<1>2. RowsSame(StockKeys) /\ RowsSame(DistrictKeys)
  BY <1>1, OnePutFrame, ProtectedFlat
<1> QED
  BY <1>2 DEF RowsSame, CountersSame

(* The steps that put rows under low keys: of the loader, of the order id, *)
(* and those of Payment that change an amount.                             *)
LoadLow == LoadWarehouse \/ LoadDistrict \/ LoadItem
PayLow == PayWarehouse \/ PayDistrict

LEMMA LowPut ==
  ASSUME IInv, LoadLow \/ PayLow \/ TakeOrderId
  PROVE  \E k \in 1 .. NumStock : OnePut(k)
<1>1. CASE LoadLow
  <2>1. loop \in LoopType /\ LoopOK
    BY DEF IInv, TypeOK, LoopType
  <2>2. loop.w \in Warehouses /\ loop.d \in Districts
    BY <2>1 DEF LoopType
  <2>3. CASE LoadWarehouse
    <3>1. OnePut(WarehouseKey(loop.w))
      BY <2>3 DEF LoadWarehouse, OnePut
    <3> QED
      BY <2>2, <3>1, LowKeys
  <2>4. CASE LoadDistrict
    <3>1. OnePut(MakeDistrictKey(loop.w, loop.d))
      BY <2>4 DEF LoadDistrict, OnePut
    <3> QED
      BY <2>2, <3>1, LowKeys
  <2>5. CASE LoadItem
    <3>1. OnePut(ItemKey(loop.n))
      BY <2>5 DEF LoadItem, OnePut
    <3>2. loop.n \in Items
      BY <2>1, <2>5 DEF LoadItem, LoopType, LoopOK, LastRow, Items, LoadPhases
    <3> QED
      BY <3>1, <3>2, LowKeys
  <2> QED
    BY <1>1, <2>3, <2>4, <2>5 DEF LoadLow
<1>2. CASE PayLow \/ TakeOrderId
  <2>1. pc \in TxnLabels
    BY <1>2 DEF PayLow, PayWarehouse, PayDistrict, TakeOrderId, TxnLabels
  <2>2. txn.w \in Warehouses /\ txn.d \in Districts
    BY <2>1, InTxn
  <2>3. CASE PayWarehouse
    <3>1. OnePut(WarehouseKey(txn.w))
      BY <2>3, PutIsOne DEF PayWarehouse
    <3> QED
      BY <2>2, <3>1, LowKeys
  <2>4. CASE PayDistrict \/ TakeOrderId
    <3>1. OnePut(MakeDistrictKey(txn.w, txn.d))
      BY <2>4, PutIsOne DEF PayDistrict, TakeOrderId
    <3> QED
      BY <2>2, <3>1, LowKeys
  <2> QED
    BY <1>2, <2>3, <2>4 DEF PayLow
<1> QED
  BY <1>1, <1>2

LEMMA LowFrame ==
  ASSUME IInv, LoadLow \/ PayLow \/ TakeOrderId
  PROVE  RowsSame(StockKeys)
<1>1. PICK k \in 1 .. NumStock : OnePut(k)
  BY LowPut
<1> QED
  BY <1>1, OnePutFrame, LowNotStock

(* A row that is read, changed at its offset 4 and put back keeps its      *)
(* number at offset 8, if it was there to be read.                         *)
LEMMA PayFrame ==
  ASSUME IInv, PayLow
  PROVE  CountersSame
<1>1. pc \in TxnLabels
  BY DEF PayLow, PayWarehouse, PayDistrict, TxnLabels
<1>2. DistrictKeys \subseteq DOMAIN store /\ StoreOK(store)
  BY <1>1, InTxn
<1>3. PICK k : \E val \in GetRecord(store, k), j \in Junk, type \in RowTypes :
        Put(k, As(type, [val EXCEPT !.at4 = j]))
  <2>1. CASE PayWarehouse
    BY <2>1 DEF PayWarehouse, RowTypes
  <2>2. CASE PayDistrict
    BY <2>2 DEF PayDistrict, RowTypes
  <2> QED
    BY <2>1, <2>2 DEF PayLow
<1> PICK val \in GetRecord(store, k), j \in Junk, type \in RowTypes :
      Put(k, As(type, [val EXCEPT !.at4 = j]))
  BY <1>3
<1> DEFINE row == [val EXCEPT !.at4 = j]
<1>4. val \in AnyRow /\ (k \in DOMAIN store => val = store[k]) /\ j \in Int
  BY <1>2, GetWords, LoadAssumption
<1>5. row \in AnyRow /\ row.at8 = val.at8
  BY <1>4 DEF AnyRow
<1>6. Put(k, As(type, row))
  OBVIOUS
<1> HIDE DEF row
<1>7. As(type, row).at8 = val.at8
  BY <1>5, AsRow
<1> DEFINE new == As(type, row)
<1>8. CASE store' = PutRecord(store, k, new)
  <2> HIDE DEF new
  <2>1. DOMAIN store' = DOMAIN store \cup {k} /\ store'[k] = new
        /\ \A x \in DOMAIN store \ {k} : store'[x] = store[x]
    BY <1>8 DEF PutRecord
  <2> QED
    BY <1>2, <1>4, <1>7, <2>1 DEF CountersSame, new
<1>9. CASE UNCHANGED store
  BY <1>9 DEF CountersSame
<1> QED
  BY <1>6, <1>8, <1>9 DEF Put

(* The steps that put nothing.                                             *)
LEMMA NoPutFrame ==
  ASSUME UNCHANGED store
  PROVE  RowsSame(StockKeys) /\ CountersSame
BY DEF RowsSame, CountersSame

Quiet ==
  \/ NewOrder \/ GenerateLocal \/ GenerateRemote \/ StartRun
  \/ Payment \/ Delivery \/ OrderStatus \/ StockLevel
  \/ Finish \/ Crash \/ Terminating \/ UNCHANGED vars

LEMMA QuietFrame ==
  ASSUME Quiet
  PROVE  UNCHANGED <<store, lost>>
BY DEF Quiet, NewOrder, GenerateLocal, GenerateRemote, StartRun, Payment, Delivery,
  OrderStatus, StockLevel, Finish, Crash, Terminating, vars

(* Every step is one of these.                                             *)
LEMMA StepKinds ==
  ASSUME [Next]_vars
  PROVE  \/ Quiet
         \/ TxnClear
         \/ PayLow
         \/ TakeOrderId
         \/ UpdateStock
         \/ Load /\ (LoadClear \/ LoadLow \/ LoadStock)
BY DEF Next, Step, NewOrderStep, PaymentStep, DeliveryStep, Load, LoadTables, Quiet, TxnClear,
  PayLow, LoadClear, LoadLow

(* Only the loader's stock and UpdateStock touch a stock row; and outside  *)
(* the load only TakeOrderId a number a district counts with.              *)
LEMMA StockFrame ==
  ASSUME IInv, [Next]_vars, ~LoadStock, ~UpdateStock
  PROVE  RowsSame(StockKeys)
BY StepKinds, ClearFrame, LowFrame, QuietFrame, NoPutFrame

LEMMA CounterFrame ==
  ASSUME IInv, [Next]_vars, pc \notin LoadPhases \/ Crash, ~UpdateStock, ~TakeOrderId
  PROVE  CountersSame
<1>1. CASE Quiet
  BY <1>1, QuietFrame, NoPutFrame
<1>2. CASE TxnClear \/ PayLow
  BY <1>2, ClearFrame, PayFrame
<1>3. CASE Load /\ pc \notin LoadPhases
  BY <1>3, LoadLabels
<1>4. CASE Crash
  BY <1>1, <1>4 DEF Quiet
<1> QED
  BY <1>1, <1>2, <1>3, <1>4, StepKinds
-----------------------------------------------------------------------------
LEMMA StockKeyUnique ==
  ASSUME NEW w \in Warehouses, NEW i \in Items, NEW v \in Warehouses, NEW j \in Items,
         MakeStockKey(w, i) = MakeStockKey(v, j)
  PROVE  w = v /\ i = j
<1>1. /\ w \in Nat /\ v \in Nat /\ i \in Int /\ j \in Int
      /\ i - j < NumStock /\ j - i < NumStock
  BY SizeAssumption DEF Warehouses, Items
<1>2. w * NumStock + i = v * NumStock + j
  BY StockKeyValue
<1> QED
  BY <1>1, <1>2, DigitsUnique, SizeAssumption

(* What a line takes from its stock row, and what the row becomes.         *)
LEMMA ShipStep ==
  ASSUME IInv, UpdateStock
  PROVE  LET line == LineAt(txn.n)
             k == StockKeyOf(line)
         IN /\ txn.n \in 1 .. Generated /\ line \in Line
            /\ k \in StockKeys /\ k \in DOMAIN store /\ store[k] \in Row
            /\ store[k].at0 \in 10 .. 100
            /\ \E q \in QuantityPool, row \in Row :
                 /\ txn' = [txn EXCEPT !.quantity = q]
                 /\ row.at0 = NewQuantity(store[k].at0, q)
                 /\ row.at4 = store[k].at4 + q
                 /\ row.at12 = store[k].at12 + RemoteCount(line)
                 /\ Put(k, row)
<1> DEFINE line == LineAt(txn.n)
           k == StockKeyOf(line)
<1>1. pc = "no_stock" /\ pc \in TxnLabels
  BY DEF UpdateStock, TxnLabels
<1>2. txn \in Txn /\ StoreOK(store) /\ StockKeys \subseteq DOMAIN store
  BY <1>1, InTxn
<1>3. txn.n \in 1 .. Generated
  BY <1>1 DEF IInv, InFlight, NewOrderLabels
<1>4. line \in Line /\ k \in StockKeys
  BY <1>2, <1>3, LineAtOK
<1>5. PICK q \in QuantityPool, val \in GetRecord(store, k) :
        /\ txn' = [txn EXCEPT !.quantity = q]
        /\ Put(k, As("stock", [val EXCEPT !.at0 = NewQuantity(@, q),
                                          !.at4 = @ + q,
                                          !.at12 = @ + RemoteCount(line)]))
  BY DEF UpdateStock
<1>6. RemoteCount(line) \in {0, 1}
  BY DEF RemoteCount
<1> HIDE DEF k, line
<1>7. /\ k \in DOMAIN store /\ store[k] \in Row /\ StockOK(store[k])
      /\ val = store[k] /\ val \in AnyRow
  BY <1>2, <1>4, <1>5, GetWords DEF StoreOK
<1> DEFINE a0 == NewQuantity(val.at0, q)
           a4 == val.at4 + q
           a12 == val.at12 + RemoteCount(line)
           new == ChangeStock(val, a0, a4, a12)
<1>8. Put(k, As("stock", new))
  BY <1>5 DEF ChangeStock
<1>9. a0 \in Int /\ a4 \in Int /\ a12 \in Int
  <2>1. q \in 1 .. 10 /\ val.at0 \in 10 .. 100
    BY <1>7, PoolAssumption DEF StockOK
  <2>2. a0 \in 10 .. 100
    BY <2>1, NewQuantityBounds
  <2>3. val.at4 \in Int /\ val.at12 \in Int
    BY <1>7 DEF AnyRow
  <2> QED
    BY <1>6, <2>1, <2>2, <2>3
<1> HIDE DEF a0, a4, a12
<1>10. new \in AnyRow /\ new.at0 = a0 /\ new.at4 = a4 /\ new.at12 = a12
  <2>1. new.at12 = a12
    BY <1>7, <1>9 DEF ChangeStock, AnyRow
  <2> QED
    BY <1>7, <1>9, <2>1, StockWords
<1> HIDE DEF new
<1> DEFINE row == As("stock", new)
<1>11. /\ row \in Row /\ row.at0 = a0 /\ row.at4 = a4 /\ row.at12 = a12
  <2>1. row.at12 = new.at12
    BY <1>10 DEF As, AnyRow
  <2> QED
    BY <1>10, <2>1, AsRow DEF RowTypes
<1>12. store[k].at0 \in 10 .. 100
  BY <1>7 DEF StockOK
<1> HIDE DEF row
<1>13. /\ row.at0 = NewQuantity(store[k].at0, q)
       /\ row.at4 = store[k].at4 + q
       /\ row.at12 = store[k].at12 + RemoteCount(line)
       /\ Put(k, row)
  BY <1>7, <1>8, <1>11 DEF a0, a4, a12, row
<1> QED
  BY <1>3, <1>4, <1>5, <1>7, <1>11, <1>12, <1>13 DEF k, line

(* A put reaches the store or is refused.                                  *)
LEMMA PutRow ==
  ASSUME NEW k, NEW row, Put(k, row)
  PROVE  \/ /\ lost' = lost /\ DOMAIN store' = DOMAIN store \cup {k} /\ store'[k] = row
            /\ \A x \in DOMAIN store \ {k} : store'[x] = store[x]
         \/ lost < MaxLost /\ lost' = lost + 1 /\ UNCHANGED store
<1>1. CASE store' = PutRecord(store, k, row) /\ UNCHANGED lost
  BY <1>1 DEF PutRecord
<1> QED
  BY <1>1 DEF Put

LEMMA LoadStockRow ==
  ASSUME IInv, LoadStock
  PROVE  /\ loop.w \in Warehouses /\ loop.n \in Items
         /\ LET k == MakeStockKey(loop.w, loop.n) IN
            /\ DOMAIN store' = DOMAIN store \cup {k} /\ store'[k] = StockRow
            /\ \A x \in DOMAIN store \ {k} : store'[x] = store[x]
<1>1. loop \in LoopType /\ LoopOK /\ pc \in {"stock", "stock_again"} /\ pc \in LoadPhases
  BY DEF IInv, TypeOK, LoopType, LoadStock, LoadPhases
<1>2. loop.w \in Warehouses /\ loop.n \in Items
  BY <1>1 DEF LoopType, LoopOK, LastRow, Items
<1>3. store' = PutRecord(store, MakeStockKey(loop.w, loop.n), StockRow)
  BY DEF LoadStock
<1> QED
  BY <1>2, <1>3 DEF PutRecord

LEMMA RemoteStep ==
  ASSUME OrderInv, RemoteCounted, [Next]_vars
  PROVE  RemoteCounted'
<1> USE DEF OrderInv
<1> SUFFICES ASSUME NEW w \in Warehouses, NEW i \in Items,
                    MakeStockKey(w, i) \in DOMAIN store'
             PROVE  LET k == MakeStockKey(w, i) IN
                    /\ store'[k].at12 <= store'[k].at4
                    /\ w = NumWarehouse => store'[k].at4 <= 10 * store'[k].at12
  BY DEF RemoteCounted
<1> DEFINE k == MakeStockKey(w, i)
<1>1. k \in StockKeys
  BY DEF StockKeys
<1>2. CASE k \in DOMAIN store /\ store'[k] = store[k]
  BY <1>2 DEF RemoteCounted
<1>3. CASE ~LoadStock /\ ~UpdateStock
  BY <1>1, <1>2, <1>3, StockFrame DEF RowsSame
<1>4. CASE LoadStock
  <2>1. CASE k = MakeStockKey(loop.w, loop.n)
    <3>1. store'[k] = StockRow
      BY <1>4, <2>1, LoadStockRow
    <3>2. StockRow.at4 = 0 /\ StockRow.at12 = 0
      BY DEF StockRow, MakeRow
    <3> QED
      BY <3>1, <3>2
  <2>2. CASE k # MakeStockKey(loop.w, loop.n)
    BY <1>2, <1>4, <2>2, LoadStockRow
  <2> QED
    BY <2>1, <2>2
<1>5. CASE UpdateStock
  <2> DEFINE line == LineAt(txn.n)
             key == StockKeyOf(line)
  <2>1. /\ line \in Line /\ key \in DOMAIN store /\ store[key] \in Row
        /\ \E q \in QuantityPool, row \in Row :
             /\ row.at4 = store[key].at4 + q
             /\ row.at12 = store[key].at12 + RemoteCount(line)
             /\ Put(key, row)
    BY <1>5, ShipStep
  <2> HIDE DEF line
  <2>2. PICK q \in QuantityPool, row \in Row :
          /\ row.at4 = store[key].at4 + q
          /\ row.at12 = store[key].at12 + RemoteCount(line)
          /\ Put(key, row)
    BY <2>1
  <2>3. CASE k # key
    BY <1>2, <2>2, <2>3, PutRow
  <2>4. CASE k = key /\ UNCHANGED store
    BY <1>2, <2>1, <2>4
  <2>5. CASE k = key /\ store'[key] = row
    <3> DEFINE a4 == store[k].at4
               a12 == store[k].at12
               remote == RemoteCount(line)
    <3>1. line.supply = w
      BY <2>1, <2>5, StockKeyUnique DEF StockKeyOf, Line
    <3>2. q \in 1 .. 10 /\ a4 \in Int /\ a12 \in Int /\ remote \in {0, 1}
      BY <2>1, <2>2, <2>5, PoolAssumption DEF Row, RemoteCount
    <3>3. w = NumWarehouse => remote = 1
      <4>1. txn.w \in HomeWarehouses
        BY <1>5 DEF LinesOK, UpdateStock, NewOrderLabels
      <4>2. txn.w # NumWarehouse
        BY <4>1, SizeAssumption DEF HomeWarehouses
      <4> QED
        BY <3>1, <4>2 DEF RemoteCount
    <3>4. a12 <= a4 /\ (w = NumWarehouse => a4 <= 10 * a12)
      BY <2>1, <2>5 DEF RemoteCounted
    <3>5. store'[k].at4 = a4 + q /\ store'[k].at12 = a12 + remote
      BY <2>2, <2>5
    <3> HIDE DEF a4, a12, remote, k
    <3>6. /\ a12 + remote <= a4 + q
          /\ w = NumWarehouse => a4 + q <= 10 * (a12 + remote)
      BY <3>2, <3>3, <3>4
    <3>7. /\ store'[k].at12 <= store'[k].at4
          /\ w = NumWarehouse => store'[k].at4 <= 10 * store'[k].at12
      BY <3>5, <3>6
    <3> QED
      BY <3>7 DEF k
  <2> QED
    BY <2>2, <2>3, <2>4, <2>5, PutRow
<1> QED
  BY <1>3, <1>4, <1>5

(* s_remote_cnt counts the lines another warehouse ordered, whatever the   *)
(* sizes, crashes and refused puts: no row counts more of them than units  *)
(* that left, and in the last warehouse none of the units is uncounted.    *)
THEOREM RemoteCountedHolds == Spec => []RemoteCounted
<1>1. Init => RemoteCounted
  BY DEF Init, RemoteCounted
<1>2. OrderInv /\ RemoteCounted /\ [Next]_vars => RemoteCounted'
  BY RemoteStep
<1> QED
  BY <1>1, <1>2, OrderInvariant, PTL DEF Spec
-----------------------------------------------------------------------------
(* The benchmark implements OrderEntry: each step is a step of order       *)
(* entry, seen through the stock rows, the numbers of the districts and    *)
(* the lines NewOrder has still to ship, or changes none of them.          *)

(* The second pass over the stock has put fresh rows where it passed.      *)
Restocked ==
  pc = "stock_again" =>
    \A w \in Warehouses, i \in Items :
      (w < loop.w \/ (w = loop.w /\ i < loop.n)) => store[MakeStockKey(w, i)] = StockRow

RefineInv == OrderInv /\ Restocked

(* What the store and the locals are to order entry, under names.          *)
RoomStock == [k \in LoadedRooms |-> StockOf(k)]
NextIds == [k \in LoadedCounters |-> NextOrderId(k[1], k[2])]

(* The rooms of the lines from the m-th on.                                *)
Room(n) == <<LineAt(n).supply, LineAt(n).item>>
RoomsFrom(m) == {Room(n) : n \in m .. Generated}
-----------------------------------------------------------------------------
(* Stock and counters change only with their rows.                         *)
LEMMA RoomKeys ==
  /\ \A k \in Orders!Rooms : MakeStockKey(k[1], k[2]) \in StockKeys
  /\ \A k \in Orders!Counters : MakeDistrictKey(k[1], k[2]) \in DistrictKeys
BY DEF Orders!Rooms, Orders!Counters, StockKeys, DistrictKeys

LEMMA SameStock ==
  ASSUME RowsSame(StockKeys)
  PROVE  RoomStock' = RoomStock
<1>1. LoadedRooms' = LoadedRooms
  BY RoomKeys DEF LoadedRooms, Orders!Rooms, RowsSame
<1>2. \A k \in LoadedRooms : StockOf(k)' = StockOf(k)
  BY RoomKeys DEF LoadedRooms, Orders!Rooms, RowsSame, StockOf
<1> QED
  BY <1>1, <1>2 DEF RoomStock

LEMMA SameCounters ==
  ASSUME CountersSame
  PROVE  NextIds' = NextIds
<1>1. LoadedCounters' = LoadedCounters
  BY RoomKeys DEF LoadedCounters, Orders!Counters, CountersSame
<1>2. \A k \in LoadedCounters : NextOrderId(k[1], k[2])' = NextOrderId(k[1], k[2])
  BY RoomKeys DEF LoadedCounters, Orders!Counters, CountersSame, NextOrderId
<1> QED
  BY <1>1, <1>2 DEF NextIds

LEMMA DistrictKeyUnique ==
  ASSUME NEW w \in Warehouses, NEW d \in Districts, NEW v \in Warehouses, NEW e \in Districts,
         MakeDistrictKey(w, d) = MakeDistrictKey(v, e)
  PROVE  w = v /\ d = e
BY UpperIdRange, UpperIdUnique

(* Different lines of an order name different rooms.                       *)
LEMMA RoomsDiffer ==
  ASSUME OrderInv, NEW j \in 1 .. Generated, NEW k \in 1 .. Generated, j # k
  PROVE  Room(j) # Room(k)
<1>1. LinesDistinct
  BY LinesAreDistinct DEF OrderInv
<1>2. StockKeyOf(LineAt(j)) # StockKeyOf(LineAt(k))
  BY <1>1 DEF LinesDistinct
<1> QED
  BY <1>2 DEF Room, StockKeyOf

LEMMA RoomType ==
  ASSUME OrderInv
  PROVE  /\ Generated \in Nat
         /\ \A n \in 1 .. Generated : Room(n) \in Orders!Rooms
         /\ \A n \in 1 .. Generated :
              MakeStockKey(Room(n)[1], Room(n)[2]) = StockKeyOf(LineAt(n))
<1>1. txn \in Txn
  BY DEF OrderInv, IInv, TypeOK
<1>2. Generated \in Nat
  BY <1>1 DEF Txn, Generated
<1>3. \A n \in 1 .. Generated : LineAt(n) \in Line
  BY <1>1, LineAtOK
<1> QED
  BY <1>2, <1>3 DEF Room, Line, StockKeyOf, Orders!Rooms

LEMMA RoomsCounted ==
  ASSUME OrderInv
  PROVE  /\ RoomsFrom(1) \subseteq Orders!Rooms
         /\ IsFiniteSet(RoomsFrom(1))
         /\ Cardinality(RoomsFrom(1)) = Generated
<1> DEFINE S == 1 .. Generated
           T == RoomsFrom(1)
           f == [n \in S |-> Room(n)]
<1>1. Generated \in Nat /\ T \subseteq Orders!Rooms
  BY RoomType DEF RoomsFrom
<1>2. IsFiniteSet(S) /\ Cardinality(S) = Generated
  <2>1. 1 \in Int /\ Generated \in Int
    BY <1>1
  <2>2. /\ IsFiniteSet(S)
        /\ Cardinality(S) = IF 1 > Generated THEN 0 ELSE Generated - 1 + 1
    BY <2>1, FS_Interval
  <2> QED
    BY <1>1, <2>2
<1>3. f \in [S -> T]
  BY DEF RoomsFrom
<1>4. \A j, k \in S : f[j] = f[k] => j = k
  BY RoomsDiffer
<1>5. \A t \in T : \E n \in S : f[n] = t
  BY DEF RoomsFrom
<1> HIDE DEF S, T, f
<1>6. f \in Bijection(S, T)
  BY <1>3, <1>4, <1>5, Fun_IsBij
<1>7. ExistsBijection(S, T)
  BY <1>6, Fun_ExistsBij
<1>8. IsFiniteSet(T) /\ Cardinality(T) = Cardinality(S)
  BY <1>2, <1>7, FS_Bijection
<1> QED
  BY <1>1, <1>2, <1>8 DEF T

(* The rooms from a line on, but for its own, are those from the next on.  *)
LEMMA RoomsNext ==
  ASSUME OrderInv, NEW m \in 1 .. Generated
  PROVE  Room(m) \in RoomsFrom(m) /\ RoomsFrom(m) \ {Room(m)} = RoomsFrom(m + 1)
<1>1. Generated \in Nat
  BY RoomType
<1>2. m \in m .. Generated /\ m + 1 .. Generated \subseteq m .. Generated
  BY <1>1
<1>3. \A n \in m .. Generated : n = m \/ n \in m + 1 .. Generated
  BY <1>1
<1>4. ASSUME NEW n \in m + 1 .. Generated
      PROVE  Room(n) # Room(m)
  <2>1. n \in 1 .. Generated /\ n # m
    BY <1>1
  <2> QED
    BY <2>1, RoomsDiffer
<1> QED
  BY <1>2, <1>3, <1>4 DEF RoomsFrom

(* The order under way by the label.                                       *)
LEMMA UnderWayCases ==
  /\ pc \in {"no_new_order", "no_order", "no_index"} =>
       UnderWay = {[home |-> <<txn.w, txn.d>>, id |-> txn.o, lines |-> RoomsFrom(1)]}
  /\ pc = "no_stock" =>
       UnderWay = {[home |-> <<txn.w, txn.d>>, id |-> txn.o, lines |-> RoomsFrom(txn.n)]}
  /\ pc = "no_line" =>
       UnderWay = {[home |-> <<txn.w, txn.d>>, id |-> txn.o, lines |-> RoomsFrom(txn.n + 1)]}
  /\ pc \notin {"no_new_order", "no_order", "no_index", "no_stock", "no_line"} => UnderWay = {}
BY DEF UnderWay, Unshipped, RoomsFrom, Room
-----------------------------------------------------------------------------
(* Where the steps go: those of the loader before the items to each other, *)
(* those of the transactions to one another or out of the program.         *)
LEMMA LoadOnward ==
  ASSUME IInv, LoadClear \/ LoadWarehouse \/ LoadDistrict
  PROVE  pc' \in {"warehouse", "district", "stock"} \cup OrderPhases
<1>1. CASE LoadCustomer \/ LoadCustomerIndex \/ LoadOrder \/ LoadOrderIndex \/ LoadNewOrder
  BY <1>1 DEF LoadCustomer, LoadCustomerIndex, LoadOrder, LoadOrderIndex, LoadNewOrder,
    GotoPut, OrderPhases
<1>2. CASE LoadOrderLine /\ pc' = pc
  BY <1>2 DEF LoadOrderLine, OrderPhases
<1>3. CASE pc \in {"warehouse", "district", "history", "order_line"} /\ Advance
  <2>1. loop \in LoopType /\ LoopOK /\ pc \in EndPhases
    BY <1>3 DEF IInv, TypeOK, LoopType, EndPhases
  <2>2. pc' = NextIteration(pc) \/ pc' = AfterPhase(pc)
    BY <1>3, <2>1, AdvanceOK
  <2> QED
    BY <1>3, <2>2 DEF NextIteration, AfterPhase, OrderPhases
<1> QED
  BY <1>1, <1>2, <1>3 DEF LoadClear, LoadHistory, LoadOrderLine, LoadWarehouse, LoadDistrict

LEMMA TxnLabelsAfter ==
  ASSUME [Next]_vars, ~Load, ~UNCHANGED vars
  PROVE  pc' \in TxnLabels \cup {"idle", "finished", "warehouse"}
<1>1. CASE NewOrderStep
  BY <1>1 DEF NewOrderStep, NewOrder, GenerateLocal, GenerateRemote, StartRun, TakeOrderId,
    InsertNewOrder, InsertOrder, InsertOrderIndex, UpdateStock, InsertOrderLine, EndTxn, Goto,
    TxnLabels
<1>2. CASE PaymentStep
  BY <1>2 DEF PaymentStep, Payment, PayWarehouse, PayDistrict, PayCustomer, InsertHistory,
    EndTxn, Goto, TxnLabels
<1>3. CASE DeliveryStep
  BY <1>3 DEF DeliveryStep, Delivery, DeliverOrder, DeliverLine, DeliverCustomer, EndTxn, Goto,
    TxnLabels
<1>4. CASE OrderStatus \/ StockLevel \/ Finish \/ Crash
  BY <1>4 DEF OrderStatus, StockLevel, Finish, Crash, EndTxn
<1> QED
  BY <1>1, <1>2, <1>3, <1>4 DEF Next, Step, Terminating

(* The second pass over the stock: what it has passed stays fresh, as each *)
(* of its puts is one of a fresh row, and past the last everything is.     *)
LEMMA RestockedStep ==
  ASSUME RefineInv, [Next]_vars
  PROVE  /\ Restocked'
         /\ LoadStock /\ pc' = "idle" =>
              \A k \in StockKeys : k \in DOMAIN store' /\ store'[k] = StockRow
<1> USE DEF RefineInv, OrderInv
<1>1. IInv'
  BY NextOK
<1>2. CASE LoadStock /\ pc = "stock_again"
  <2>1. /\ loop \in LoopType /\ LoopOK /\ pc \in LoadPhases \cap EndPhases /\ Advance
        /\ LastRow(pc) = [w |-> NumWarehouse, d |-> 1, n |-> NumItem, l |-> 1]
    BY <1>2 DEF IInv, TypeOK, LoopType, LoadStock, LoadPhases, EndPhases, LastRow
  <2>2. /\ loop.w \in Warehouses /\ loop.n \in Items /\ loop.d = 1
        /\ LET k == MakeStockKey(loop.w, loop.n) IN
           /\ DOMAIN store' = DOMAIN store \cup {k} /\ store'[k] = StockRow
           /\ \A x \in DOMAIN store \ {k} : store'[x] = store[x]
    BY <1>2, <2>1, LoadStockRow DEF LoopOK, LoopType, Districts
  <2>3. StockKeys \subseteq DOMAIN store
    BY <1>2 DEF IInv, Loaded, OrderPhases
  <2>4. \A w \in Warehouses, i \in Items :
          (w < loop.w \/ (w = loop.w /\ i <= loop.n)) => store'[MakeStockKey(w, i)] = StockRow
    <3> SUFFICES ASSUME NEW w \in Warehouses, NEW i \in Items,
                        w < loop.w \/ (w = loop.w /\ i <= loop.n)
                 PROVE  store'[MakeStockKey(w, i)] = StockRow
      OBVIOUS
    <3>1. CASE w = loop.w /\ i = loop.n
      BY <2>2, <3>1
    <3>2. CASE ~(w = loop.w /\ i = loop.n)
      <4>1. w < loop.w \/ (w = loop.w /\ i < loop.n)
        BY <2>2, <3>2 DEF Warehouses, Items
      <4>2. store[MakeStockKey(w, i)] = StockRow
        BY <1>2, <4>1 DEF Restocked
      <4>3. MakeStockKey(w, i) \in StockKeys
        BY DEF StockKeys
      <4> QED
        BY <2>2, <2>3, <4>2, <4>3
    <3> QED
      BY <3>1, <3>2
  <2>5. CASE pc' = NextIteration(pc)
    <3>1. \A w \in Warehouses, i \in Items :
            (w < loop'.w \/ (w = loop'.w /\ i < loop'.n))
              => (w < loop.w \/ (w = loop.w /\ i <= loop.n))
      <4>1. CASE loop.n < NumItem /\ loop' = [loop EXCEPT !.n = @ + 1, !.l = 1]
        <5>1. loop'.w = loop.w /\ loop'.n = loop.n + 1
          BY <2>1, <4>1 DEF LoopType
        <5> QED
          BY <2>2, <5>1 DEF Warehouses, Items
      <4>2. CASE loop.n = NumItem /\ loop' = [w |-> loop.w + 1, d |-> 1, n |-> 1, l |-> 1]
        <5>1. loop'.w = loop.w + 1 /\ loop'.n = 1
          BY <4>2
        <5> QED
          BY <2>2, <4>2, <5>1 DEF Warehouses, Items
      <4>3. NextIteration(pc) # AfterPhase(pc)
        BY <1>2 DEF AfterPhase, NextIteration
      <4> QED
        BY <2>1, <2>2, <2>5, <4>1, <4>2, <4>3 DEF Advance
    <3>2. Restocked'
      BY <2>4, <3>1 DEF Restocked
    <3>3. pc' # "idle"
      BY <1>2, <2>5 DEF NextIteration
    <3> QED
      BY <3>2, <3>3
  <2>6. CASE pc' = AfterPhase(pc) /\ loop.w = LastRow(pc).w /\ loop.n = LastRow(pc).n
    <3>1. loop.w = NumWarehouse /\ loop.n = NumItem
      BY <2>1, <2>6
    <3>2. \A k \in StockKeys : store'[k] = StockRow
      BY <2>2, <2>4, <3>1 DEF StockKeys, Warehouses, Items
    <3>3. Restocked'
      BY <1>2, <2>6 DEF Restocked, AfterPhase
    <3> QED
      BY <2>2, <2>3, <3>2, <3>3
  <2> QED
    BY <2>1, <2>5, <2>6, AdvanceOK
<1>3. CASE LoadStock /\ pc = "stock"
  <2>1. loop \in LoopType /\ LoopOK /\ pc \in EndPhases /\ Advance
    BY <1>3 DEF IInv, TypeOK, LoopType, LoadStock, EndPhases
  <2>2. pc' \in {"stock", "item"}
    BY <1>3, <2>1, AdvanceOK DEF AfterPhase, NextIteration
  <2> QED
    BY <2>2 DEF Restocked
<1>4. CASE ~LoadStock /\ pc' = "stock_again"
  <2>1. CASE LoadItem
    <3>1. loop \in LoopType /\ LoopOK /\ pc = "item" /\ pc \in EndPhases /\ Advance
      BY <2>1 DEF IInv, TypeOK, LoopType, LoadItem, EndPhases
    <3>2. pc' = "item" \/ loop' = FirstRow
      BY <3>1, AdvanceOK DEF AfterPhase, NextIteration
    <3>3. loop'.w = 1 /\ loop'.n = 1
      BY <1>4, <3>2 DEF FirstRow
    <3>4. Restocked'
      BY <3>3, SizeAssumption DEF Restocked, Warehouses, Items
    <3> QED
      BY <1>4, <3>4
  <2>2. CASE UNCHANGED vars
    <3>1. UNCHANGED <<pc, loop, store>>
      BY <2>2 DEF vars
    <3>2. Restocked'
      BY <3>1 DEF Restocked
    <3> QED
      BY <1>4, <3>2
  <2>3. CASE LoadClear \/ LoadWarehouse \/ LoadDistrict
    BY <1>4, <2>3, LoadOnward DEF OrderPhases
  <2>4. CASE Load
    BY <1>4, <2>1, <2>3, <2>4 DEF Load, LoadTables, LoadClear
  <2>5. CASE ~Load /\ ~UNCHANGED vars
    <3>1. pc' \in TxnLabels \cup {"idle", "finished", "warehouse"}
      BY <2>5, TxnLabelsAfter
    <3> QED
      BY <1>4, <3>1 DEF TxnLabels
  <2> QED
    BY <2>2, <2>4, <2>5
<1>5. CASE ~LoadStock /\ pc' # "stock_again"
  BY <1>5 DEF Restocked
<1> QED
  BY <1>2, <1>3, <1>4, <1>5 DEF LoadStock

LEMMA RefineInvariant == Spec => []RefineInv
<1>1. Init => Restocked
  BY DEF Init, Restocked
<1>2. RefineInv /\ [Next]_vars => Restocked'
  BY RestockedStep
<1> QED
  BY <1>1, <1>2, OrderInvariant, PTL DEF Spec, RefineInv
-----------------------------------------------------------------------------
(* The steps of the loader.                                                *)
LEMMA PutGrows ==
  ASSUME NEW k, OnePut(k)
  PROVE  DOMAIN store \subseteq DOMAIN store'
BY DEF OnePut, PutRecord, PutIfAbsent

LEMMA LoadRooms ==
  ASSUME RefineInv, Load
  PROVE  /\ pc \in LoadPhases /\ UNCHANGED lost
         /\ UnderWay = {} /\ UnderWay' = {}
<1>1. pc \in LoadPhases /\ pc' \in LoadPhases \cup {"idle"}
  BY LoadLabels DEF RefineInv, OrderInv
<1>2. UnderWay = {}
  BY <1>1, UnderWayCases DEF LoadPhases
<1>3. UnderWay' = {}
  BY <1>1 DEF UnderWay, LoadPhases
<1> QED
  BY <1>1, <1>2, <1>3 DEF Load

LEMMA RefineSetCounters ==
  ASSUME RefineInv, Load, ~LoadStock, UNCHANGED <<txn, done, crashes, lost>>
  PROVE  Orders!SetCounters
<1> USE DEF RefineInv, OrderInv
<1>1. StoreOK(store')
  BY NextOK DEF Next, Step, IInv
<1>2. LoadClear \/ LoadLow
  BY DEF Load, LoadTables, LoadClear, LoadLow
<1>3. RoomStock' = RoomStock
  <2>1. ~UpdateStock
    BY LoadLabels DEF UpdateStock, LoadPhases
  <2> QED
    BY <2>1, SameStock, StockFrame DEF Next, Step
<1>4. DOMAIN store \subseteq DOMAIN store'
  BY <1>2, LoadClearPut, LowPut, PutGrows
<1>5. pc \in LoadPhases /\ pc' \in LoadPhases
  <2>1. CASE LoadItem
    <3>1. loop \in LoopType /\ LoopOK /\ pc = "item" /\ pc \in EndPhases /\ Advance
      BY <2>1 DEF IInv, TypeOK, LoopType, LoadItem, EndPhases
    <3>2. pc' = NextIteration(pc) \/ pc' = AfterPhase(pc)
      BY <3>1, AdvanceOK
    <3> QED
      BY <3>1, <3>2 DEF NextIteration, AfterPhase, LoadPhases
  <2>2. CASE ~LoadItem
    BY <1>2, <2>2, LoadOnward, LoadLabels DEF LoadLow, LoadPhases, OrderPhases
  <2> QED
    BY <2>1, <2>2
<1>6. DOMAIN NextIds \subseteq DOMAIN NextIds'
  BY <1>4 DEF NextIds, LoadedCounters
<1>7. ASSUME NEW k \in DOMAIN NextIds'
      PROVE  k \in Orders!Counters /\ NextIds'[k] \in Nat
  <2>1. k \in Orders!Counters /\ MakeDistrictKey(k[1], k[2]) \in DOMAIN store'
    BY DEF NextIds, LoadedCounters, Orders!Counters
  <2>2. store'[MakeDistrictKey(k[1], k[2])].at8 \in Nat
    BY <1>1, <2>1, RoomKeys DEF StoreOK
  <2> QED
    BY <2>1, <2>2 DEF NextIds, NextOrderId
<1>8. UnderWay' = UnderWay
  BY LoadRooms
<1> QED
  BY <1>3, <1>5, <1>6, <1>7, <1>8 DEF Orders!SetCounters, NextIds, RoomStock

LEMMA RefineRestock ==
  ASSUME RefineInv, Load, LoadStock, UNCHANGED <<txn, done, crashes, lost>>
  PROVE  Orders!Restock \/ Orders!Open
<1> USE DEF RefineInv, OrderInv
<1> DEFINE room == <<loop.w, loop.n>>
           key == MakeStockKey(loop.w, loop.n)
<1>1. /\ room \in Orders!Rooms
      /\ DOMAIN store' = DOMAIN store \cup {key} /\ store'[key] = StockRow
      /\ \A x \in DOMAIN store \ {key} : store'[x] = store[x]
  BY LoadStockRow DEF Orders!Rooms
<1>2. \A k \in Orders!Rooms : MakeStockKey(k[1], k[2]) = key => k = room
  BY <1>1, StockKeyUnique DEF Orders!Rooms
<1>3. /\ pc \in LoadPhases /\ pc' \in LoadPhases \cup {"idle"}
      /\ UnderWay' = UnderWay /\ UNCHANGED lost
  BY LoadRooms, LoadLabels
<1>4. NextIds' = NextIds
  <2>1. key \notin DistrictKeys
    BY <1>1, ProtectedFlat, RoomKeys DEF Orders!Rooms
  <2>2. CountersSame
    BY <1>1, <2>1 DEF CountersSame
  <2> QED
    BY <2>2, SameCounters
<1>5. ASSUME NEW k \in LoadedRooms', store'[MakeStockKey(k[1], k[2])] = StockRow
      PROVE  RoomStock'[k] = Orders!Fresh
  <2>1. StockOf(k)' = Orders!Fresh
    BY <1>5 DEF StockOf, StockRow, MakeRow, Orders!Fresh
  <2> QED
    BY <2>1 DEF RoomStock
<1>6. CASE pc' \in LoadPhases
  <2>1. LoadedRooms' = LoadedRooms \cup {room}
    BY <1>1, <1>2 DEF LoadedRooms, Orders!Rooms
  <2>2. RoomStock'[room] = Orders!Fresh
    BY <1>1, <1>5, <2>1
  <2>3. ASSUME NEW k \in LoadedRooms, k # room
        PROVE  RoomStock'[k] = RoomStock[k]
    <3>1. MakeStockKey(k[1], k[2]) \in DOMAIN store \ {key}
      BY <1>2, <2>3 DEF LoadedRooms, Orders!Rooms
    <3> QED
      BY <1>1, <2>1, <3>1 DEF RoomStock, StockOf
  <2>4. RoomStock' = [x \in DOMAIN RoomStock \cup {room} |->
                        IF x = room THEN Orders!Fresh ELSE RoomStock[x]]
    BY <2>1, <2>2, <2>3 DEF RoomStock
  <2> QED
    BY <1>1, <1>3, <1>4, <1>6, <2>4 DEF Orders!Restock, RoomStock, NextIds
<1>7. CASE pc' = "idle"
  <2>1. \A k \in StockKeys : k \in DOMAIN store' /\ store'[k] = StockRow
    BY <1>7, RestockedStep DEF Next, Step
  <2>2. LoadedRooms' = Orders!Rooms
    BY <2>1, RoomKeys DEF LoadedRooms, Orders!Rooms
  <2>3. \A k \in Orders!Rooms : RoomStock'[k] = Orders!Fresh
    BY <1>5, <2>1, <2>2, RoomKeys
  <2>4. RoomStock' = [k \in Orders!Rooms |-> Orders!Fresh]
    BY <2>2, <2>3 DEF RoomStock
  <2>5. DOMAIN NextIds = Orders!Counters
    <3>1. pc \in {"stock", "stock_again"}
      BY DEF LoadStock
    <3>2. DistrictKeys \subseteq DOMAIN store
      BY <3>1 DEF IInv, Loaded, OrderPhases
    <3> QED
      BY <3>2, RoomKeys DEF NextIds, LoadedCounters, Orders!Counters
  <2>6. pc' \notin LoadPhases
    BY <1>7 DEF LoadPhases
  <2> QED
    BY <1>3, <1>4, <2>4, <2>5, <2>6 DEF Orders!Open, RoomStock, NextIds
<1> QED
  BY <1>3, <1>6, <1>7
-----------------------------------------------------------------------------
(* The steps of the transactions.                                          *)
LEMMA RefineInit == Init => Orders!Init
<1> SUFFICES ASSUME Init
             PROVE  Orders!Init
  OBVIOUS
<1>1. DOMAIN store = {} /\ pc = "warehouse" /\ lost = 0
  BY DEF Init
<1>2. LoadedRooms = {} /\ LoadedCounters = {}
  BY <1>1 DEF LoadedRooms, LoadedCounters
<1>3. UnderWay = {} /\ pc \in LoadPhases
  BY <1>1, UnderWayCases DEF LoadPhases
<1> QED
  BY <1>1, <1>2, <1>3 DEF Orders!Init

LEMMA SameCardinality ==
  ASSUME NEW S
  PROVE  Orders!Cardinality(S) = Cardinality(S)
BY DEF Orders!Cardinality, Cardinality

(* The order under way after a step that leaves the lines as they are.     *)
LEMMA UnderWayAfter ==
  ASSUME SameLines
  PROVE  LET order(m) == [home |-> <<txn.w, txn'.d>>, id |-> txn'.o, lines |-> RoomsFrom(m)] IN
         /\ pc' \in {"no_new_order", "no_order", "no_index"} => UnderWay' = {order(1)}
         /\ pc' = "no_stock" => UnderWay' = {order(txn'.n)}
         /\ pc' = "no_line" => UnderWay' = {order(txn'.n + 1)}
<1> DEFINE rooms(m) == {<<LineAt(n).supply, LineAt(n).item>>' : n \in m .. Generated'}
<1>1. ASSUME NEW m PROVE rooms(m) = RoomsFrom(m)
  BY DEF SameLines, RoomsFrom, Room, Generated, LineAt, IsLocal
<1>2. /\ pc' \in {"no_new_order", "no_order", "no_index"} =>
           UnderWay' = {[home |-> <<txn'.w, txn'.d>>, id |-> txn'.o, lines |-> rooms(1)]}
      /\ pc' = "no_stock" =>
           UnderWay' = {[home |-> <<txn'.w, txn'.d>>, id |-> txn'.o, lines |-> rooms(txn'.n)]}
      /\ pc' = "no_line" =>
           UnderWay' = {[home |-> <<txn'.w, txn'.d>>, id |-> txn'.o, lines |-> rooms(txn'.n + 1)]}
  BY DEF UnderWay, Unshipped
<1> HIDE DEF rooms
<1>3. txn'.w = txn.w
  BY DEF SameLines
<1> QED
  BY <1>1, <1>2, <1>3

LEMMA RefineEnter ==
  ASSUME RefineInv, TakeOrderId
  PROVE  Orders!Enter
<1> USE DEF RefineInv, OrderInv
<1> DEFINE home == <<txn.w, txn.d>>
           key == MakeDistrictKey(txn.w, txn.d)
           order == [home |-> home, id |-> txn'.o, lines |-> RoomsFrom(1)]
<1>1. /\ pc = "no_district" /\ pc' = "no_new_order"
      /\ pc \in TxnLabels /\ pc \in NewOrderLabels
  BY DEF TakeOrderId, Goto, TxnLabels, NewOrderLabels
<1>2. /\ txn \in Txn /\ txn.w \in Warehouses /\ txn.d \in Districts
      /\ StoreOK(store) /\ DistrictKeys \subseteq DOMAIN store
  BY <1>1, InTxn
<1>3. home \in LoadedCounters /\ home \in Orders!Counters /\ key \in DistrictKeys
  BY <1>2, RoomKeys DEF LoadedCounters, Orders!Counters
<1>4. PICK dist_val \in GetRecord(store, key) :
        /\ txn' = [txn EXCEPT !.o = dist_val.at8]
        /\ Put(key, As("district", [dist_val EXCEPT !.at8 = @ + 1]))
  BY DEF TakeOrderId
<1>5. /\ key \in DOMAIN store /\ dist_val = store[key]
      /\ dist_val \in AnyRow /\ dist_val.at8 \in Nat
  BY <1>2, <1>3, <1>4, GetWords DEF StoreOK
<1> HIDE DEF key
<1>6. SameLines /\ txn'.d = txn.d /\ txn'.o = dist_val.at8
  <2> DEFINE o == dist_val.at8
  <2>1. txn' = [txn EXCEPT !.o = o]
    BY <1>4
  <2> HIDE DEF o
  <2>2. txn'.o = o /\ SameLines /\ txn'.d = txn.d
    BY <1>2, <2>1 DEF Txn, SameLines
  <2> QED
    BY <2>2 DEF o
<1>7. UnderWay = {} /\ UnderWay' = {order}
  BY <1>1, <1>6, UnderWayCases, UnderWayAfter
<1>8. order.home = home /\ order.id = NextIds[home] /\ order.lines = RoomsFrom(1)
  BY <1>3, <1>5, <1>6 DEF NextIds, NextOrderId, key
<1>9. RoomsFrom(1) \subseteq Orders!Rooms /\ Cardinality(RoomsFrom(1)) \in MinOlCnt .. MaxOlCnt
  <2>1. Generated = txn.num /\ txn.num \in MinOlCnt .. MaxOlCnt
    BY <1>1 DEF IInv, InFlight, LinesOK
  <2> QED
    BY <2>1, RoomsCounted
<1>10. RoomStock' = RoomStock
  BY LowFrame, SameStock
<1> DEFINE new == As("district", [dist_val EXCEPT !.at8 = @ + 1])
<1>11. new.at8 = store[key].at8 + 1
  <2> DEFINE at8 == dist_val.at8 + 1
             changed == [dist_val EXCEPT !.at8 = at8]
  <2>1. at8 \in Int
    BY <1>5
  <2> HIDE DEF at8
  <2>2. changed \in AnyRow /\ changed.at8 = at8
    BY <1>5, <2>1 DEF AnyRow
  <2>3. new = As("district", changed)
    BY DEF at8
  <2> HIDE DEF changed, new
  <2>4. new.at8 = at8
    BY <2>2, <2>3, AsRow DEF RowTypes
  <2> QED
    BY <1>5, <2>4 DEF at8
<1> HIDE DEF new, order
<1>12. \/ Orders!Accepted /\ NextIds' = [NextIds EXCEPT ![home] = @ + 1]
       \/ Orders!Refused /\ UNCHANGED NextIds
  <2>1. CASE /\ lost' = lost /\ DOMAIN store' = DOMAIN store \cup {key} /\ store'[key] = new
             /\ \A x \in DOMAIN store \ {key} : store'[x] = store[x]
    <3>1. DOMAIN store' = DOMAIN store
      BY <1>5, <2>1
    <3>2. LoadedCounters' = LoadedCounters
      BY <3>1 DEF LoadedCounters
    <3>3. NextIds'[home] = NextIds[home] + 1
      BY <1>3, <1>11, <2>1, <3>2 DEF NextIds, NextOrderId, key
    <3>4. ASSUME NEW k \in LoadedCounters, k # home
          PROVE  NextIds'[k] = NextIds[k]
      <4>1. k = <<k[1], k[2]>> /\ k[1] \in Warehouses /\ k[2] \in Districts
        BY DEF LoadedCounters
      <4>2. MakeDistrictKey(k[1], k[2]) # key
        BY <1>2, <3>4, <4>1, DistrictKeyUnique DEF key
      <4>3. MakeDistrictKey(k[1], k[2]) \in DOMAIN store \ {key}
        BY <4>2 DEF LoadedCounters
      <4>4. store'[MakeDistrictKey(k[1], k[2])] = store[MakeDistrictKey(k[1], k[2])]
        BY <2>1, <4>3
      <4> QED
        BY <3>2, <4>4 DEF NextIds, NextOrderId
    <3>5. NextIds' = [NextIds EXCEPT ![home] = @ + 1]
      BY <1>3, <3>2, <3>3, <3>4 DEF NextIds
    <3> QED
      BY <2>1, <3>5 DEF Orders!Accepted
  <2>2. CASE lost < MaxLost /\ lost' = lost + 1 /\ UNCHANGED store
    <3>1. NextIds' = NextIds
      BY <2>2, SameCounters, NoPutFrame
    <3> QED
      BY <2>2, <3>1 DEF Orders!Refused
  <2>3. Put(key, new)
    BY <1>4 DEF new
  <2> QED
    BY <2>1, <2>2, <2>3, PutRow
<1>13. pc \notin LoadPhases /\ pc' \notin LoadPhases
  BY <1>1 DEF LoadPhases
<1>14. /\ order.home \in Orders!Counters /\ order.id = NextIds[order.home]
       /\ order.lines \subseteq Orders!Rooms
       /\ Orders!Cardinality(order.lines) \in MinOlCnt .. MaxOlCnt
       /\ \/ Orders!Accepted /\ NextIds' = [NextIds EXCEPT ![order.home] = @ + 1]
          \/ Orders!Refused /\ UNCHANGED NextIds
  BY <1>3, <1>8, <1>9, <1>12, SameCardinality
<1>15. order \in UnderWay' /\ UnderWay' = {order} /\ UnderWay = {}
  BY <1>7
<1> HIDE DEF home
<1> QED
  BY <1>10, <1>13, <1>14, <1>15 DEF Orders!Enter, RoomStock, NextIds

LEMMA ShippedQuantity ==
  ASSUME NEW s \in 10 .. 100, NEW q \in 1 .. 10
  PROVE  NewQuantity(s, q) = s - q + (IF s - q >= 10 THEN 0 ELSE 91)
<1>1. Word \in Nat /\ 100 < Word
  BY SizeAssumption
<1>2. s - q \in 0 .. Word - 1
  BY <1>1
<1>3. (s - q) % Word = s - q
  BY <1>1, <1>2
<1> QED
  BY <1>3 DEF NewQuantity

LEMMA RefineShip ==
  ASSUME RefineInv, UpdateStock
  PROVE  Orders!Ship
<1> USE DEF RefineInv, OrderInv
<1> DEFINE line == LineAt(txn.n)
           room == Room(txn.n)
           key == StockKeyOf(line)
           order == [home |-> <<txn.w, txn.d>>, id |-> txn.o, lines |-> RoomsFrom(txn.n)]
           left == [home |-> <<txn.w, txn.d>>, id |-> txn.o, lines |-> RoomsFrom(txn.n + 1)]
           remote == IF room[1] = txn.w THEN 0 ELSE 1
<1>1. pc = "no_stock" /\ pc' = "no_line" /\ pc \in TxnLabels
  BY DEF UpdateStock, Goto, TxnLabels
<1>2. /\ txn \in Txn /\ txn.n \in 1 .. Generated
      /\ key \in StockKeys /\ key \in DOMAIN store
      /\ store[key] \in Row /\ store[key].at0 \in 10 .. 100
      /\ \E q \in QuantityPool, row \in Row :
           /\ txn' = [txn EXCEPT !.quantity = q]
           /\ row.at0 = NewQuantity(store[key].at0, q)
           /\ row.at4 = store[key].at4 + q
           /\ row.at12 = store[key].at12 + RemoteCount(line)
           /\ Put(key, row)
  BY <1>1, InTxn, ShipStep
<1>3. room \in Orders!Rooms /\ MakeStockKey(room[1], room[2]) = key /\ room = <<room[1], room[2]>>
  BY <1>2, RoomType DEF Orders!Rooms
<1>4. RemoteCount(line) = remote
  BY DEF RemoteCount, Room
<1>5. room \in RoomsFrom(txn.n) /\ RoomsFrom(txn.n) \ {room} = RoomsFrom(txn.n + 1)
  BY <1>2, RoomsNext
<1> HIDE DEF line, room, key, remote
<1>6. PICK q \in QuantityPool, row \in Row :
        /\ txn' = [txn EXCEPT !.quantity = q]
        /\ row.at0 = NewQuantity(store[key].at0, q)
        /\ row.at4 = store[key].at4 + q
        /\ row.at12 = store[key].at12 + remote
        /\ Put(key, row)
  BY <1>2, <1>4
<1>7. /\ SameLines /\ txn'.d = txn.d /\ txn'.o = txn.o /\ txn'.n = txn.n
  BY <1>2, <1>6 DEF Txn, SameLines
<1>8. UnderWay = {order} /\ UnderWay' = {left}
  <2>1. UnderWay = {order}
    BY <1>1, UnderWayCases
  <2>2. UnderWay' = {[home |-> <<txn.w, txn'.d>>, id |-> txn'.o, lines |-> RoomsFrom(txn'.n + 1)]}
    BY <1>1, <1>7, UnderWayAfter
  <2> QED
    BY <1>7, <2>1, <2>2
<1>9. /\ order.lines = RoomsFrom(txn.n) /\ order.home[1] = txn.w
      /\ left = [order EXCEPT !.lines = @ \ {room}]
  BY <1>5
<1>10. NextIds' = NextIds
  <2>1. key \notin DistrictKeys
    BY <1>2, ProtectedFlat
  <2>2. CountersSame
    BY <1>6, <2>1, PutRow DEF CountersSame
  <2> QED
    BY <2>2, SameCounters
<1>11. ASSUME lost' = lost, DOMAIN store' = DOMAIN store \cup {key}, store'[key] = row,
              \A x \in DOMAIN store \ {key} : store'[x] = store[x]
       PROVE  RoomStock' = [RoomStock EXCEPT ![room] = Orders!Taken(@, q, remote)]
  <2>1. DOMAIN store' = DOMAIN store
    BY <1>2, <1>11
  <2>2. LoadedRooms' = LoadedRooms /\ room \in LoadedRooms
    BY <1>2, <1>3, <2>1 DEF LoadedRooms, Orders!Rooms
  <2>3. RoomStock'[room] = Orders!Taken(RoomStock[room], q, remote)
    <3> DEFINE s == store[key]
    <3>1. RoomStock[room] = [quantity |-> s.at0, ytd |-> s.at4, remote |-> s.at12]
      BY <1>3, <2>2 DEF RoomStock, StockOf
    <3>2. RoomStock'[room] = [quantity |-> row.at0, ytd |-> row.at4, remote |-> row.at12]
      BY <1>3, <1>11, <2>2 DEF RoomStock, StockOf
    <3>3. s.at0 \in 10 .. 100 /\ q \in 1 .. 10
      BY <1>2, PoolAssumption
    <3>4. row.at0 = s.at0 - q + (IF s.at0 - q >= 10 THEN 0 ELSE 91)
      BY <1>6, <3>3, ShippedQuantity
    <3>5. row.at4 = s.at4 + q /\ row.at12 = s.at12 + remote
      BY <1>6
    <3> HIDE DEF s
    <3> QED
      BY <3>1, <3>2, <3>4, <3>5 DEF Orders!Taken
  <2>4. ASSUME NEW k \in LoadedRooms, k # room
        PROVE  RoomStock'[k] = RoomStock[k]
    <3>1. k = <<k[1], k[2]>> /\ k[1] \in Warehouses /\ k[2] \in Items
      BY DEF LoadedRooms
    <3>2. MakeStockKey(k[1], k[2]) # key
      BY <1>3, <2>4, <3>1, StockKeyUnique DEF Orders!Rooms
    <3>3. MakeStockKey(k[1], k[2]) \in DOMAIN store \ {key}
      BY <3>2 DEF LoadedRooms
    <3>4. store'[MakeStockKey(k[1], k[2])] = store[MakeStockKey(k[1], k[2])]
      BY <1>11, <3>3
    <3> QED
      BY <2>2, <3>4 DEF RoomStock, StockOf
  <2> QED
    BY <2>2, <2>3, <2>4 DEF RoomStock
<1>12. \/ Orders!Accepted /\ RoomStock' = [RoomStock EXCEPT ![room] = Orders!Taken(@, q, remote)]
       \/ Orders!Refused /\ UNCHANGED RoomStock
  <2>1. CASE lost < MaxLost /\ lost' = lost + 1 /\ UNCHANGED store
    <3>1. RoomStock' = RoomStock
      BY <2>1, SameStock, NoPutFrame
    <3> QED
      BY <2>1, <3>1 DEF Orders!Refused
  <2> QED
    BY <1>6, <1>11, <2>1, PutRow DEF Orders!Accepted
<1>13. pc \notin LoadPhases /\ pc' \notin LoadPhases
  BY <1>1 DEF LoadPhases
<1>14. room \in order.lines /\ order \in UnderWay /\ UnderWay' = {left}
  BY <1>5, <1>8, <1>9
<1>15. remote = IF room[1] = order.home[1] THEN 0 ELSE 1
  BY <1>9 DEF remote
<1> HIDE DEF order, left
<1> QED
  BY <1>9, <1>10, <1>12, <1>13, <1>14, <1>15 DEF Orders!Ship, RoomStock, NextIds

(* The other puts concern neither stock nor numbers: they are refused, or  *)
(* not seen at all, but for that of the last line, which ends the order.   *)
LEMMA OtherPuts ==
  ASSUME RefineInv, TxnClear \/ PayLow
  PROVE  /\ Orders!Accepted \/ Orders!Refused
         /\ RoomStock' = RoomStock /\ NextIds' = NextIds
         /\ pc \notin LoadPhases /\ pc' \notin LoadPhases
<1> USE DEF RefineInv, OrderInv
<1>1. RowsSame(StockKeys) /\ CountersSame
  BY ClearFrame, LowFrame, PayFrame
<1>2. \E k : \E row : Put(k, row)
  BY DEF TxnClear, PayLow, InsertNewOrder, InsertOrder, InsertOrderIndex, InsertOrderLine,
    PayCustomer, InsertHistory, DeliverOrder, DeliverLine, DeliverCustomer, PayWarehouse,
    PayDistrict
<1>3. pc \in TxnLabels /\ pc' \in TxnLabels \cup {"idle"}
  BY DEF TxnClear, PayLow, InsertNewOrder, InsertOrder, InsertOrderIndex, InsertOrderLine,
    PayCustomer, InsertHistory, DeliverOrder, DeliverLine, DeliverCustomer, PayWarehouse,
    PayDistrict, Goto, EndTxn, TxnLabels
<1> QED
  BY <1>1, <1>2, <1>3, PutRow, SameStock, SameCounters
  DEF Orders!Accepted, Orders!Refused, TxnLabels, LoadPhases

LEMMA SameOrders ==
  ASSUME RefineInv, TxnClear \/ PayLow, UnderWay' = UnderWay
  PROVE  Orders!Elsewhere \/ UNCHANGED Orders!vars
BY OtherPuts DEF Orders!Elsewhere, Orders!vars, Orders!Accepted, RoomStock, NextIds

LEMMA RefineLine ==
  ASSUME RefineInv, InsertOrderLine
  PROVE  Orders!Close \/ Orders!Elsewhere \/ UNCHANGED Orders!vars
<1> USE DEF RefineInv, OrderInv
<1> DEFINE order == [home |-> <<txn.w, txn.d>>, id |-> txn.o, lines |-> RoomsFrom(txn.n + 1)]
<1>1. pc = "no_line" /\ pc \in TxnLabels /\ TxnClear
  BY DEF InsertOrderLine, TxnLabels, TxnClear
<1>2. txn \in Txn /\ Generated = txn.num /\ txn.n \in 1 .. txn.num
  BY <1>1, InTxn DEF IInv, InFlight, NewOrderLabels
<1>3. UnderWay = {order}
  BY <1>1, UnderWayCases
<1>4. CASE txn' = [txn EXCEPT !.n = @ + 1] /\ pc' = "no_stock"
  <2>1. SameLines /\ txn'.d = txn.d /\ txn'.o = txn.o /\ txn'.n = txn.n + 1
    BY <1>2, <1>4 DEF Txn, SameLines
  <2>2. UnderWay' = {[home |-> <<txn.w, txn'.d>>, id |-> txn'.o, lines |-> RoomsFrom(txn'.n)]}
    BY <1>4, <2>1, UnderWayAfter
  <2>3. UnderWay' = UnderWay
    BY <1>3, <2>1, <2>2
  <2> QED
    BY <1>1, <2>3, SameOrders
<1>5. CASE txn.n = txn.num /\ pc' = "idle"
  <2>1. txn.n + 1 .. Generated = {}
    <3>1. txn.num \in Nat
      BY <1>2 DEF Txn
    <3> QED
      BY <1>2, <1>5, <3>1
  <2>2. order.lines = {}
    BY <2>1 DEF RoomsFrom
  <2>3. order \in UnderWay /\ UnderWay' = {}
    BY <1>3, <1>5 DEF UnderWay
  <2> HIDE DEF order
  <2> QED
    BY <1>1, <2>2, <2>3, OtherPuts DEF Orders!Close, RoomStock, NextIds
<1> QED
  BY <1>4, <1>5 DEF InsertOrderLine, EndTxn

LEMMA RefineOther ==
  ASSUME RefineInv, TxnClear \/ PayLow, ~InsertOrderLine
  PROVE  Orders!Elsewhere \/ UNCHANGED Orders!vars
<1> USE DEF RefineInv, OrderInv
<1>1. CASE InsertNewOrder \/ InsertOrder \/ InsertOrderIndex
  <2> DEFINE order == [home |-> <<txn.w, txn.d>>, id |-> txn.o, lines |-> RoomsFrom(1)]
  <2>1. pc \in {"no_new_order", "no_order", "no_index"} /\ pc \in TxnLabels
    BY <1>1 DEF InsertNewOrder, InsertOrder, InsertOrderIndex, TxnLabels
  <2>2. txn \in Txn
    BY <2>1, InTxn
  <2>3. /\ SameLines /\ txn'.d = txn.d /\ txn'.o = txn.o
        /\ pc' \in {"no_new_order", "no_order", "no_index"} \/ (pc' = "no_stock" /\ txn'.n = 1)
    BY <1>1, <2>2 DEF InsertNewOrder, InsertOrder, InsertOrderIndex, Goto, Txn, SameLines
  <2>4. UnderWay = {order}
    BY <2>1, UnderWayCases
  <2>5. UnderWay' = {order}
    BY <2>3, UnderWayAfter
  <2> QED
    BY <1>1, <2>4, <2>5, SameOrders DEF TxnClear
<1>2. CASE ~(InsertNewOrder \/ InsertOrder \/ InsertOrderIndex)
  <2>1. pc \in TxnLabels /\ pc' \in TxnLabels \cup {"idle"}
        /\ pc \notin NewOrderLabels /\ pc' \notin NewOrderLabels
    BY <1>2 DEF TxnClear, PayLow, PayCustomer, InsertHistory, DeliverOrder, DeliverLine,
      DeliverCustomer, PayWarehouse, PayDistrict, Goto, EndTxn, TxnLabels, NewOrderLabels
  <2>2. UnderWay' = UnderWay
    BY <2>1 DEF UnderWay, NewOrderLabels
  <2> QED
    BY <2>2, SameOrders
<1> QED
  BY <1>1, <1>2

LEMMA RefineQuiet ==
  ASSUME RefineInv, Quiet
  PROVE  Orders!Die \/ UNCHANGED Orders!vars
<1> USE DEF RefineInv, OrderInv
<1>1. UNCHANGED <<store, lost>>
  BY QuietFrame
<1>2. RoomStock' = RoomStock /\ NextIds' = NextIds
  BY <1>1, NoPutFrame, SameStock, SameCounters
<1>3. CASE Crash
  <2>1. pc' = "warehouse"
    BY <1>3 DEF Crash
  <2>2. pc' \in LoadPhases /\ UnderWay' = {}
    BY <2>1 DEF LoadPhases, UnderWay
  <2> QED
    BY <1>1, <1>2, <2>2 DEF Orders!Die, RoomStock, NextIds
<1>4. CASE UNCHANGED vars
  <2>1. UNCHANGED <<pc, txn>>
    BY <1>4 DEF vars
  <2>2. UnderWay' = UnderWay
    BY <2>1 DEF UnderWay, Unshipped, LineAt, IsLocal, Generated
  <2> QED
    BY <1>1, <1>2, <2>1, <2>2 DEF Orders!vars, RoomStock, NextIds
<1>5. CASE ~Crash /\ ~UNCHANGED vars
  <2>1. /\ pc \in {"idle", "no_generate"}
        /\ pc' \in {"idle", "no_generate", "no_district", "pay_warehouse", "dl_order", "finished"}
    BY <1>5 DEF Quiet, NewOrder, GenerateLocal, GenerateRemote, StartRun, Payment, Delivery,
      OrderStatus, StockLevel, Finish, Terminating, Idle, EndTxn, Goto
  <2>2. UnderWay = {} /\ UnderWay' = {}
    BY <2>1 DEF UnderWay
  <2>3. pc \notin LoadPhases /\ pc' \notin LoadPhases
    BY <2>1 DEF LoadPhases
  <2> QED
    BY <1>1, <1>2, <2>2, <2>3 DEF Orders!vars, RoomStock, NextIds
<1> QED
  BY <1>3, <1>4, <1>5

LEMMA RefineNext == RefineInv /\ [Next]_vars => [Orders!Next]_(Orders!vars)
<1> SUFFICES ASSUME RefineInv, [Next]_vars
             PROVE  Orders!Next \/ UNCHANGED Orders!vars
  OBVIOUS
<1>1. CASE Quiet
  BY <1>1, RefineQuiet DEF Orders!Next
<1>2. CASE TxnClear \/ PayLow
  BY <1>2, RefineLine, RefineOther DEF Orders!Next
<1>3. CASE TakeOrderId
  BY <1>3, RefineEnter DEF Orders!Next
<1>4. CASE UpdateStock
  BY <1>4, RefineShip DEF Orders!Next
<1>5. CASE Load
  <2>1. UNCHANGED <<txn, done, crashes, lost>>
    BY <1>5 DEF Load
  <2>2. Orders!SetCounters \/ Orders!Restock \/ Orders!Open
    BY <1>5, <2>1, RefineSetCounters, RefineRestock
  <2> QED
    BY <2>2 DEF Orders!Next
<1> QED
  BY <1>1, <1>2, <1>3, <1>4, <1>5, StepKinds

(* The benchmark implements order entry for all sizes, pools, crashes and  *)
(* refused puts: each line of an order is taken once from the stock row it *)
(* names, only orders change stock and counters, each takes the next id of *)
(* its district, and stock is fresh again before orders are taken again.   *)
THEOREM ImplementsHolds == Spec => ImplementsOrderEntry
<1>1. Spec => []RefineInv
  BY RefineInvariant
<1> QED
  BY <1>1, RefineInit, RefineNext, PTL DEF Spec, ImplementsOrderEntry, Orders!Spec
-----------------------------------------------------------------------------
(* The line key of a number of the order under way, and what its row says. *)
LineRowKey(n) == MakeOrderLineKey(txn.w, txn.d, txn.o, n)
Inserted(n) ==
  LET k == LineRowKey(n)
      line == LineAt(n)
  IN /\ k \in DOMAIN store
     /\ store[k].type = "order_line"
     /\ store[k].at0 = line.item
     /\ store[k].at4 = line.supply

LEMMA PutLost ==
  ASSUME NEW k, NEW row, Put(k, row)
  PROVE  lost' = lost \/ lost' = lost + 1
BY DEF Put

(* The put of the n-th line, when it is a remote one: the rows of the      *)
(* lines before it stay, as their numbers differ.                          *)
LEMMA InsertRemote ==
  ASSUME IInv, InsertOrderLine, pc' = "no_stock", UNCHANGED lost,
         NEW n \in Len(txn.local) + 1 .. txn.n, n = txn.n \/ Inserted(n)
  PROVE  Inserted(n)'
<1> DEFINE line == LineAt(txn.n)
           key == LineKey(txn.n)
<1>1. pc = "no_line" /\ txn \in Txn /\ txn.n \in Nat /\ Len(txn.local) \in Nat
  BY DEF InsertOrderLine, IInv, TypeOK, Txn
<1>2. PICK j \in Junk :
        Put(key, MakeRow("order_line", line.item, line.supply, txn.quantity, j))
  BY DEF InsertOrderLine
<1> DEFINE new == MakeRow("order_line", line.item, line.supply, txn.quantity, j)
<1>3. new.type = "order_line" /\ new.at0 = line.item /\ new.at4 = line.supply
  BY DEF MakeRow
<1>4. txn' = [txn EXCEPT !.n = @ + 1]
  BY <1>1 DEF InsertOrderLine, EndTxn
<1>5. /\ txn'.w = txn.w /\ txn'.d = txn.d /\ txn'.o = txn.o
      /\ txn'.local = txn.local /\ txn'.remote = txn.remote
  BY <1>1, <1>4 DEF Txn
<1>6. LineRowKey(n)' = LineRowKey(n) /\ LineAt(n)' = LineAt(n)
  BY <1>5 DEF LineRowKey, LineAt, IsLocal
<1>7. key = LineRowKey(txn.n)
  <2>1. ~(txn.n <= Len(txn.local))
    BY <1>1
  <2> QED
    BY <2>1 DEF LineKey, IsLocal, LineRowKey
<1>8. n = txn.n \/ LineRowKey(n) # LineRowKey(txn.n)
  <2> DEFINE a == (UpperId(txn.w, txn.d) * MaxOrderId + txn.o) * MaxOlCnt
  <2>1. a \in Int
    <3>1. txn.w \in Warehouses /\ txn.d \in Districts /\ txn.o \in Nat
      BY <1>1, InTxn DEF TxnLabels
    <3> DEFINE u == UpperId(txn.w, txn.d)
    <3>2. u \in Int
      BY <3>1, UpperIdRange
    <3>3. txn.o \in Int /\ MaxOrderId \in Int /\ MaxOlCnt \in Int
      BY <3>1, SizeAssumption
    <3> HIDE DEF u
    <3>4. u * MaxOrderId + txn.o \in Int
      BY <3>2, <3>3
    <3> QED
      BY <3>3, <3>4 DEF u
  <2>2. \A m \in Int : LineRowKey(m) = a + m
    BY DEF LineRowKey, MakeOrderLineKey
  <2>3. n \in Int /\ txn.n \in Int
    BY <1>1
  <2> HIDE DEF a
  <2> QED
    BY <2>1, <2>2, <2>3
<1> HIDE DEF key, line, new
<1>9. /\ DOMAIN store' = DOMAIN store \cup {key} /\ store'[key] = new
      /\ \A x \in DOMAIN store \ {key} : store'[x] = store[x]
  <2>1. lost' = lost /\ lost \in Int
    BY PoolAssumption DEF IInv, TypeOK
  <2>2. Put(key, new)
    BY <1>2 DEF new
  <2>3. ~(lost' = lost + 1)
    BY <2>1
  <2> QED
    BY <2>2, <2>3, PutRow
<1>10. CASE n = txn.n
  BY <1>3, <1>6, <1>7, <1>9, <1>10 DEF Inserted, line
<1>11. CASE n # txn.n
  BY <1>6, <1>7, <1>8, <1>9, <1>11 DEF Inserted
<1> QED
  BY <1>10, <1>11

LEMMA RemoteLinesStep ==
  ASSUME IInv, RemoteLinesInserted, [Next]_vars
  PROVE  RemoteLinesInserted'
<1> SUFFICES ASSUME pc' \in {"no_stock", "no_line"}, lost' = 0,
                    NEW n \in Len(txn'.local) + 1 .. txn'.n - 1
             PROVE  Inserted(n)'
  BY DEF RemoteLinesInserted, Inserted, LineRowKey
<1>1. /\ txn \in Txn /\ txn.n \in Nat /\ Len(txn.local) \in Nat /\ lost \in Nat
      /\ MaxLost \in Nat
  BY PoolAssumption DEF IInv, TypeOK, Txn
<1>2. ASSUME pc \in {"no_stock", "no_line"}, lost = 0,
             NEW m \in Len(txn.local) + 1 .. txn.n - 1
      PROVE  Inserted(m)
  BY <1>2 DEF RemoteLinesInserted, Inserted, LineRowKey
<1>3. CASE UNCHANGED vars
  BY <1>2, <1>3 DEF vars, Inserted, LineRowKey, LineAt, IsLocal
<1>4. CASE InsertOrderIndex
  <2>1. txn'.n = 1 /\ txn'.local = txn.local
    BY <1>1, <1>4 DEF InsertOrderIndex, Txn
  <2> QED
    BY <1>1, <2>1
<1>5. CASE UpdateStock
  <2> DEFINE k == StockKeyOf(LineAt(txn.n))
  <2>1. /\ k \in StockKeys
        /\ \E q \in QuantityPool, row \in Row :
             txn' = [txn EXCEPT !.quantity = q] /\ Put(k, row)
    BY <1>5, ShipStep
  <2> HIDE DEF k
  <2>2. PICK q \in QuantityPool, row \in Row :
          txn' = [txn EXCEPT !.quantity = q] /\ Put(k, row)
    BY <2>1
  <2>3. /\ txn'.w = txn.w /\ txn'.d = txn.d /\ txn'.o = txn.o /\ txn'.n = txn.n
        /\ txn'.local = txn.local /\ txn'.remote = txn.remote
    BY <1>1, <2>2 DEF Txn
  <2>4. lost = 0 /\ pc = "no_stock" /\ pc \in TxnLabels
    <3>1. lost' = lost \/ lost' = lost + 1
      BY <2>2, PutLost
    <3>2. lost = 0
      BY <1>1, <3>1
    <3> QED
      BY <1>5, <3>2 DEF UpdateStock, TxnLabels
  <2>5. n \in Len(txn.local) + 1 .. txn.n - 1
    BY <2>3
  <2>6. LineRowKey(n) \notin FlatKeys
    <3>1. txn.w \in Warehouses /\ txn.d \in Districts /\ txn.o \in Nat
      BY <2>4, InTxn
    <3>2. n \in Nat
      BY <1>1, <2>5
    <3> QED
      BY <3>1, <3>2, LineKeyNotFlat DEF LineRowKey
  <2>7. LineRowKey(n) # k
    BY <2>1, <2>6, ProtectedFlat
  <2>8. LineRowKey(n)' = LineRowKey(n) /\ LineAt(n)' = LineAt(n)
    BY <2>3 DEF LineRowKey, LineAt, IsLocal
  <2>9. Inserted(n)
    BY <1>2, <2>4, <2>5
  <2>10. LineRowKey(n) \in DOMAIN store' /\ store'[LineRowKey(n)] = store[LineRowKey(n)]
    BY <2>2, <2>7, <2>9, PutRow DEF Inserted
  <2> QED
    BY <2>8, <2>9, <2>10 DEF Inserted
<1>6. CASE InsertOrderLine
  <2>1. pc = "no_line" /\ pc' = "no_stock" /\ txn' = [txn EXCEPT !.n = @ + 1]
    BY <1>6 DEF InsertOrderLine, EndTxn
  <2>2. txn'.n = txn.n + 1 /\ txn'.local = txn.local
    BY <1>1, <2>1 DEF Txn
  <2>3. lost' = lost
    <3>1. PICK j \in Junk :
            Put(LineKey(txn.n), MakeRow("order_line", LineAt(txn.n).item,
                                        LineAt(txn.n).supply, txn.quantity, j))
      BY <1>6 DEF InsertOrderLine
    <3>2. lost' = lost \/ lost' = lost + 1
      BY <3>1, PutLost
    <3> QED
      BY <1>1, <3>2
  <2>4. n \in Len(txn.local) + 1 .. txn.n /\ (n = txn.n \/ n \in Len(txn.local) + 1 .. txn.n - 1)
    BY <1>1, <2>2
  <2>5. n = txn.n \/ Inserted(n)
    BY <1>2, <2>1, <2>3, <2>4
  <2> QED
    BY <1>6, <2>1, <2>3, <2>4, <2>5, InsertRemote
<1>7. CASE Next /\ ~InsertOrderIndex /\ ~UpdateStock /\ ~InsertOrderLine
  <2>1. pc' \notin {"no_stock", "no_line"} \/ UNCHANGED vars
    <3>1. CASE Load
      BY <3>1, LoadLabels DEF LoadPhases
    <3>2. CASE NewOrderStep
      BY <1>7, <3>2 DEF NewOrderStep, NewOrder, GenerateLocal, GenerateRemote, StartRun,
        TakeOrderId, InsertNewOrder, InsertOrder, Goto
    <3>3. CASE PaymentStep
      BY <3>3 DEF PaymentStep, Payment, PayWarehouse, PayDistrict, PayCustomer,
        InsertHistory, EndTxn, Goto
    <3>4. CASE DeliveryStep
      BY <3>4 DEF DeliveryStep, Delivery, DeliverOrder, DeliverLine, DeliverCustomer,
        EndTxn, Goto
    <3>5. CASE OrderStatus \/ StockLevel \/ Finish \/ Crash
      BY <3>5 DEF OrderStatus, StockLevel, Finish, Crash, EndTxn
    <3> QED
      BY <1>7, <3>1, <3>2, <3>3, <3>4, <3>5 DEF Next, Step, Terminating
  <2> QED
    BY <1>3, <2>1
<1> QED
  BY <1>3, <1>4, <1>5, <1>6, <1>7

(* The rows of the remote lines of the order under way stay in the store   *)
(* until its last put, whatever the sizes and however many lines it has:   *)
(* what OrderLinesInserted says of every line does hold of the remote ones.*)
THEOREM RemoteLinesAreInserted == Spec => []RemoteLinesInserted
<1>1. Init => RemoteLinesInserted
  BY DEF Init, RemoteLinesInserted
<1>2. IInv /\ RemoteLinesInserted /\ [Next]_vars => RemoteLinesInserted'
  BY RemoteLinesStep
<1> QED
  BY <1>1, <1>2, Invariant, PTL DEF Spec
=============================================================================
