----------------------------- MODULE IndexProofs -----------------------------
(***************************************************************************)
(* Proofs about the index rows of orders and what a reload leaves: index   *)
(* rows are put by two steps only, where no row of another table has a key *)
(* in their range, so that they lead to orders and number them without a   *)
(* gap; and the loops of the load leave each row they put as it is.        *)
(***************************************************************************)
EXTENDS OrderProofs

IndexKeys ==
  {MakeOrderIndexKey(x[1], x[2], x[3], x[4]) :
     x \in Warehouses \X Districts \X Customers \X OrderIds}

(* The range the index keys lie in.                                        *)
Upper == (NumWarehouse + 1) * NumDistrict
First == (NumDistrict + 1) * NumCustomer + 1
Last == (Upper + 1) * NumCustomer
IndexRange == First * Word .. (Last + 1) * Word - 1

(* The orders this process and those that may follow can still take, the   *)
(* one under way not counted.                                              *)
Entered == {"no_new_order", "no_order", "no_index", "no_stock", "no_line"}
Budget(c) == MaxTxn * (MaxCrash + 1 - c)
Remaining == Budget(crashes) - done - (IF pc \in Entered THEN 1 ELSE 0)

(* No counter runs past the ids of an int32_t, so that neither does the id *)
(* of an order, and a number that is read from some row is a word.         *)
CountersFit ==
  \A k \in DistrictKeys : k \in DOMAIN store => store[k].at8 + Remaining < Word \div 2
WordsFit == \A k \in DOMAIN store : store[k].at0 < Word
TxnFit == txn.o < Word \div 2 /\ txn.c < Word

(* What an index row says, and that it says so of an order that is there.  *)
IndexRows ==
  \A w \in Warehouses, d \in Districts, c \in Customers, o \in OrderIds :
    LET k == MakeOrderIndexKey(w, d, c, o) IN
    k \in DOMAIN store => store[k] = IndexRow(MakeOrderKey(w, d, o))
Led ==
  lost = 0 =>
    /\ \A w \in Warehouses, d \in Districts, c \in Customers, o \in OrderIds :
         MakeOrderIndexKey(w, d, c, o) \in DOMAIN store => MakeOrderKey(w, d, o) \in DOMAIN store
    /\ pc = "no_index" => OrderKey \in DOMAIN store
LoadLed == pc = "order_index" => MakeOrderKey(loop.w, loop.d, loop.n) \in DOMAIN store

(* A counter starts from the name of the item that shares its key, and an  *)
(* order that is not indexed yet has the last id handed out.               *)
Unindexed == {"no_new_order", "no_order", "no_index"}
Named ==
  crashes = 0 =>
    /\ pc = "item" => \A k \in DistrictKeys : k < loop.n => store[k].at8 = ItemName[k]
    /\ pc = "stock_again" => \A k \in DistrictKeys : store[k].at8 = ItemName[k]
    /\ pc \notin LoadPhases => \A k \in DistrictKeys : ItemName[k] <= store[k].at8
Latest ==
  (crashes = 0 /\ lost = 0 /\ pc \in Unindexed) =>
    FirstOrderId(txn.w, txn.d) <= txn.o /\ txn.o + 1 = NextOrderId(txn.w, txn.d)

(* Above the ids of the loaded orders, those handed out are indexed once,  *)
(* but for that of the order under way, and no others are.                 *)
Indexed(w, d, o) ==
  /\ pc \notin LoadPhases
  /\ FirstOrderId(w, d) <= o /\ o < NextOrderId(w, d)
  /\ ~(pc \in Unindexed /\ w = txn.w /\ d = txn.d /\ o = txn.o)
Dense ==
  (crashes = 0 /\ lost = 0) =>
    \A w \in Warehouses, d \in Districts, o \in OrderIds \ Customers :
      IF Indexed(w, d, o) THEN \E c \in Customers : IndexedUnder(w, d, o) = {c}
      ELSE IndexedUnder(w, d, o) = {}

FitInv == OrderInv /\ CountersFit /\ WordsFit /\ TxnFit
IndexInv == FitInv /\ IndexRows /\ Led /\ LoadLed
DenseInv == IndexInv /\ Named /\ Latest /\ Dense
-----------------------------------------------------------------------------
LEMMA SizesAreInt ==
  /\ Upper \in Nat /\ First \in Nat /\ Last \in Nat /\ Word \in Nat \ {0}
  /\ First * Word \in Nat /\ (Last + 1) * Word \in Nat
  /\ NumDistrict \in Nat /\ NumCustomer \in Nat /\ MaxOrderId \in Nat /\ MaxOlCnt \in Nat
  /\ HistoryShift \in Nat /\ NumStock \in Nat /\ NumWarehouse \in Nat
<1>1. /\ NumDistrict \in Nat /\ NumCustomer \in Nat /\ MaxOrderId \in Nat /\ MaxOlCnt \in Nat
      /\ HistoryShift \in Nat /\ NumStock \in Nat /\ NumWarehouse \in Nat /\ Word \in Nat \ {0}
  BY SizeAssumption
<1>2. Upper \in Nat
  BY <1>1 DEF Upper
<1>3. First \in Nat /\ Last \in Nat
  BY <1>1, <1>2 DEF First, Last
<1>4. First * Word \in Nat /\ (Last + 1) * Word \in Nat
  BY <1>1, <1>3
<1> QED
  BY <1>1, <1>2, <1>3, <1>4

(* Half of Word, and the ids below it.                                     *)
LEMMA HalfWord ==
  /\ Word \div 2 \in Nat /\ Word = 2 * (Word \div 2) /\ Word \div 2 <= Word
  /\ \A o : o \in OrderIds <=> o \in Nat /\ o < Word \div 2
<1>1. Word \in Nat \ {0} /\ Word % 2 = 0
  BY SizeAssumption
<1>2. PICK h \in Nat : Word = 2 * h /\ Word \div 2 = h
  BY <1>1
<1> QED
  BY <1>2 DEF OrderIds

LEMMA IndexKeysInRange ==
  ASSUME NEW w \in Warehouses, NEW d \in Districts, NEW c \in Customers, NEW o \in OrderIds
  PROVE  MakeOrderIndexKey(w, d, c, o) \in IndexKeys \cap IndexRange
<1> DEFINE u == w * NumDistrict + d
           cid == u * NumCustomer + c
<1>1. cid \in Nat /\ Int32(cid) = cid
  BY CustomerIdRange
<1>2. u \in Nat /\ NumDistrict + 1 <= u /\ u <= Upper
  BY UpperIdRange, SizesAreInt DEF Upper
<1>3. c \in Nat /\ 1 <= c /\ c <= NumCustomer
  BY SizesAreInt DEF Customers
<1> HIDE DEF u
<1>4. First <= cid /\ cid <= Last
  <2>1. (NumDistrict + 1) * NumCustomer <= u * NumCustomer
        /\ u * NumCustomer <= Upper * NumCustomer
        /\ u * NumCustomer \in Nat /\ Upper * NumCustomer \in Nat
    BY <1>2, SizesAreInt, MulMono
  <2>2. Last = Upper * NumCustomer + NumCustomer
    BY SizesAreInt DEF Last
  <2>3. (NumDistrict + 1) * NumCustomer \in Nat
    BY SizesAreInt
  <2> QED
    BY <1>3, <2>1, <2>2, <2>3, SizesAreInt DEF First
<1> HIDE DEF cid
<1>5. First * Word <= cid * Word /\ cid * Word <= Last * Word
      /\ cid * Word \in Nat /\ Last * Word \in Nat
  BY <1>1, <1>4, SizesAreInt, MulMono
<1>6. (Last + 1) * Word = Last * Word + Word
  BY SizesAreInt
<1>7. o \in Nat /\ o < Word
  BY HalfWord, SizesAreInt
<1>8. MakeOrderIndexKey(w, d, c, o) = cid * Word + o
  BY <1>1, <1>7 DEF MakeOrderIndexKey, Pack32, cid, u
<1>9. MakeOrderIndexKey(w, d, c, o) \in IndexRange
  BY <1>5, <1>6, <1>7, <1>8, SizesAreInt DEF IndexRange
<1>10. MakeOrderIndexKey(w, d, c, o) \in IndexKeys
  <2>1. <<w, d, c, o>> \in Warehouses \X Districts \X Customers \X OrderIds
    OBVIOUS
  <2> QED
    BY <2>1 DEF IndexKeys
<1> QED
  BY <1>9, <1>10

LEMMA IndexInRange == IndexKeys \subseteq IndexRange
<1> SUFFICES ASSUME NEW x \in Warehouses \X Districts \X Customers \X OrderIds
             PROVE  MakeOrderIndexKey(x[1], x[2], x[3], x[4]) \in IndexRange
  BY DEF IndexKeys
<1> QED
  BY IndexKeysInRange

(* The keys of the other tables lie outside.                               *)
LEMMA FlatNotIndex == \A k \in FlatKeys : k \notin IndexKeys
<1>1. ASSUME NEW k \in FlatKeys
      PROVE  k < First * Word
  <2>1. 2 * ((NumWarehouse + 1) * NumStock) < Word
    BY SizesAreInt, WidthAssumption
  <2>2. (NumWarehouse + 1) * NumStock \in Nat
    BY SizesAreInt
  <2>3. 1 <= First
    BY SizesAreInt DEF First
  <2>4. 1 * Word <= First * Word
    BY <2>3, SizesAreInt, MulMono
  <2> QED
    BY <2>1, <2>2, <2>4, SizesAreInt DEF FlatKeys
<1> QED
  BY <1>1, IndexInRange, SizesAreInt DEF IndexRange, FlatKeys

LEMMA PackNotIndex ==
  ASSUME IndexApart, NEW w \in Warehouses, NEW d \in Districts, NEW lo \in Int, lo < Word
  PROVE  /\ MakeCustomerKey(w, d, lo) \notin IndexKeys
         /\ MakeNewOrderKey(w, d, lo) \notin IndexKeys
         /\ MakeOrderKey(w, d, lo) \notin IndexKeys
<1> DEFINE u == UpperId(w, d)
<1>1. u \in Nat /\ u <= Upper
  BY UpperIdRange, SizesAreInt DEF Upper
<1>2. Upper < First
  BY DEF IndexApart, Upper, First
<1> HIDE DEF u
<1>3. u * Word + lo < First * Word
  <2>1. (u + 1) * Word <= First * Word
    BY <1>1, <1>2, SizesAreInt, MulMono
  <2>2. (u + 1) * Word = u * Word + Word /\ u * Word \in Nat
    BY <1>1, SizesAreInt
  <2> QED
    BY <2>1, <2>2, SizesAreInt
<1>4. Pack32(u, lo) < First * Word /\ Pack32(u, lo) \in Int
  BY <1>1, <1>3, SizesAreInt DEF Pack32
<1>5. Pack32(u, lo) \notin IndexKeys
  BY <1>4, IndexInRange, SizesAreInt DEF IndexRange
<1> QED
  BY <1>5 DEF MakeCustomerKey, MakeNewOrderKey, MakeOrderKey, u

LEMMA LineNotIndex ==
  ASSUME IndexApart, NEW w \in Warehouses, NEW d \in Districts,
         NEW o \in OrderIds, NEW n \in 0 .. MaxOlCnt
  PROVE  MakeOrderLineKey(w, d, o, n) \notin IndexKeys
<1> DEFINE u == UpperId(w, d)
           a == u * MaxOrderId + o
           b == Upper * MaxOrderId + Word
<1>1. u \in Nat /\ u <= Upper
  BY UpperIdRange, SizesAreInt DEF Upper
<1>2. o \in Nat /\ o <= Word
  BY HalfWord, SizesAreInt
<1> HIDE DEF u
<1>3. u * MaxOrderId <= Upper * MaxOrderId /\ u * MaxOrderId \in Nat
      /\ Upper * MaxOrderId \in Nat
  BY <1>1, SizesAreInt, MulMono
<1>4. a \in Nat /\ b \in Nat /\ a <= b
  BY <1>2, <1>3, SizesAreInt
<1>5. b * MaxOlCnt + MaxOlCnt < First * Word
  BY DEF IndexApart, Upper, First
<1>6. MakeOrderLineKey(w, d, o, n) = a * MaxOlCnt + n
  BY DEF MakeOrderLineKey, u
<1> HIDE DEF a, b
<1>7. a * MaxOlCnt <= b * MaxOlCnt /\ a * MaxOlCnt \in Nat /\ b * MaxOlCnt \in Nat
  BY <1>4, SizesAreInt, MulMono
<1>8. n \in Int /\ n <= MaxOlCnt
  BY SizesAreInt
<1>9. a * MaxOlCnt + n < First * Word
  BY <1>5, <1>7, <1>8, SizesAreInt
<1>10. MakeOrderLineKey(w, d, o, n) < First * Word
  BY <1>6, <1>9
<1>11. \A k \in IndexKeys : ~(k < First * Word)
  BY IndexInRange, SizesAreInt DEF IndexRange
<1> QED
  BY <1>10, <1>11

LEMMA HistoryNotIndex ==
  ASSUME IndexApart, NEW w \in Warehouses, NEW d \in Districts,
         NEW cw \in Warehouses, NEW cd \in Districts, NEW c \in Customers
  PROVE  MakeHistoryKey(w, d, cw, cd, c) \notin IndexKeys
<1> DEFINE u == cw * NumDistrict + cd
           cid == u * NumCustomer + c
           did == w * NumDistrict + d
<1>1. cid \in Nat /\ Int32(cid) = cid
  BY CustomerIdRange
<1>2. did \in Nat /\ did <= Upper /\ Int32(d + w * NumDistrict) = did
  BY UpperIdRange, SizesAreInt DEF MakeDistrictKey, Upper
<1>3. u \in Nat /\ u <= Upper
  BY UpperIdRange, SizesAreInt DEF Upper
<1>4. MakeHistoryKey(w, d, cw, cd, c) = cid * HistoryShift + did
  BY <1>1, <1>2 DEF MakeHistoryKey
<1> HIDE DEF u, did
<1>5. cid <= Last
  <2>1. u * NumCustomer <= Upper * NumCustomer
        /\ u * NumCustomer \in Nat /\ Upper * NumCustomer \in Nat
    BY <1>3, SizesAreInt, MulMono
  <2>2. Last = Upper * NumCustomer + NumCustomer
    BY SizesAreInt DEF Last
  <2> QED
    BY <2>1, <2>2, SizesAreInt DEF Customers
<1> HIDE DEF cid
<1>6. cid * HistoryShift <= Last * HistoryShift /\ cid * HistoryShift \in Nat
      /\ Last * HistoryShift \in Nat
  BY <1>1, <1>5, SizesAreInt, MulMono
<1>7. Last * HistoryShift + Upper < First * Word
  BY DEF IndexApart, Upper, First, Last
<1>8. cid * HistoryShift + did < First * Word
  BY <1>2, <1>6, <1>7, SizesAreInt
<1>9. MakeHistoryKey(w, d, cw, cd, c) < First * Word
  BY <1>4, <1>8
<1>10. \A k \in IndexKeys : ~(k < First * Word)
  BY IndexInRange, SizesAreInt DEF IndexRange
<1> QED
  BY <1>9, <1>10

LEMMA HeapNotIndex ==
  ASSUME IndexApart, NEW w \in Warehouses, NEW d \in Districts, NEW c \in Customers
  PROVE  HeapAddress[<<w, d, c>>] \notin IndexKeys
<1>1. <<w, d, c>> \in DOMAIN HeapAddress
  BY LoadAssumption
<1>2. HeapAddress[<<w, d, c>>] \notin IndexRange
  BY <1>1 DEF IndexApart, IndexRange, Upper, First, Last
<1> QED
  BY <1>2, IndexInRange
-----------------------------------------------------------------------------
(* The orders that can still be taken: a process has MaxTxn of them, and   *)
(* none is ever gained.                                                    *)
LEMMA BudgetOK ==
  ASSUME NEW c \in 0 .. MaxCrash
  PROVE  /\ Budget(c) \in Nat /\ MaxTxn <= Budget(c)
         /\ Budget(c) <= MaxTxn * (MaxCrash + 1) /\ MaxTxn * (MaxCrash + 1) \in Nat
         /\ Budget(c + 1) = Budget(c) - MaxTxn
<1>1. MaxTxn \in Nat /\ MaxCrash \in Nat
  BY PoolAssumption
<1> DEFINE n == MaxCrash + 1 - c
           m == MaxCrash + 1
<1>2. n \in Nat /\ 1 <= n /\ n <= m /\ m \in Nat /\ n - 1 \in Nat
  BY <1>1
<1>3. Budget(c) = MaxTxn * n /\ MaxTxn * (MaxCrash + 1) = MaxTxn * m
  BY DEF Budget
<1>4. MaxCrash + 1 - (c + 1) = n - 1
  BY <1>1
<1>5. Budget(c + 1) = MaxTxn * (n - 1)
  BY <1>4 DEF Budget
<1> HIDE DEF n, m
<1>6. MaxTxn * n = n * MaxTxn /\ MaxTxn * m = m * MaxTxn
  BY <1>1, <1>2
<1>7. 1 * MaxTxn <= n * MaxTxn /\ n * MaxTxn <= m * MaxTxn
      /\ n * MaxTxn \in Nat /\ m * MaxTxn \in Nat
  BY <1>1, <1>2, MulMono
<1>8. MaxTxn * (n - 1) = n * MaxTxn - MaxTxn
  BY <1>1, <1>2
<1> QED
  BY <1>1, <1>3, <1>5, <1>6, <1>7, <1>8

LEMMA CountSteps ==
  ASSUME IInv, [Next]_vars, ~Crash
  PROVE  /\ UNCHANGED crashes
         /\ \/ done' = done /\ (pc' \in Entered <=> pc \in Entered)
            \/ done' = done + 1 /\ pc' \notin Entered
            \/ TakeOrderId /\ done' = done
<1>1. CASE Load
  <2>1. pc \in LoadPhases /\ pc' \in LoadPhases \cup {"idle"}
    BY <1>1, LoadLabels
  <2> QED
    BY <1>1, <2>1 DEF Load, LoadPhases, Entered
<1>2. CASE NewOrderStep
  BY <1>2 DEF NewOrderStep, NewOrder, GenerateLocal, GenerateRemote, StartRun, TakeOrderId,
    InsertNewOrder, InsertOrder, InsertOrderIndex, UpdateStock, InsertOrderLine, EndTxn, Goto,
    Idle, Entered
<1>3. CASE PaymentStep
  BY <1>3 DEF PaymentStep, Payment, PayWarehouse, PayDistrict, PayCustomer, InsertHistory,
    EndTxn, Goto, Idle, Entered
<1>4. CASE DeliveryStep
  BY <1>4 DEF DeliveryStep, Delivery, DeliverOrder, DeliverLine, DeliverCustomer, EndTxn, Goto,
    Idle, Entered
<1>5. CASE OrderStatus \/ StockLevel \/ Finish \/ Terminating \/ UNCHANGED vars
  BY <1>5 DEF OrderStatus, StockLevel, Finish, Terminating, EndTxn, Idle, Entered, vars
<1> QED
  BY <1>1, <1>2, <1>3, <1>4, <1>5 DEF Next, Step

(* There are as many left as there are, at most all.                       *)
LEMMA RemainingOK ==
  ASSUME IInv
  PROVE  /\ Remaining \in Nat /\ Remaining <= MaxTxn * (MaxCrash + 1)
<1> DEFINE e == IF pc \in Entered THEN 1 ELSE 0
           b == Budget(crashes)
           most == MaxTxn * (MaxCrash + 1)
<1>1. done \in 0 .. MaxTxn /\ crashes \in 0 .. MaxCrash /\ MaxTxn \in Nat
  BY PoolAssumption DEF IInv, TypeOK
<1>2. e \in {0, 1} /\ done + e <= MaxTxn
  BY <1>1 DEF IInv, InFlight, Entered, TxnLabels
<1>3. b \in Nat /\ MaxTxn <= b /\ b <= most /\ most \in Nat
  BY <1>1, BudgetOK
<1>4. Remaining = b - done - e
  BY DEF Remaining
<1> HIDE DEF b, e, most
<1>5. b - done - e \in Nat /\ b - done - e <= most
  BY <1>1, <1>2, <1>3
<1> QED
  BY <1>4, <1>5 DEF most

LEMMA RemainingStep ==
  ASSUME IInv, [Next]_vars
  PROVE  /\ Remaining \in Nat /\ Remaining' \in Int /\ Remaining' <= Remaining
         /\ Remaining <= MaxTxn * (MaxCrash + 1)
         /\ MaxTxn * (MaxCrash + 1) \in Nat
         /\ TakeOrderId => Remaining' + 1 = Remaining
<1> DEFINE e == IF pc \in Entered THEN 1 ELSE 0
           b == Budget(crashes)
<1>1. /\ MaxTxn \in Nat /\ done \in Nat /\ crashes \in 0 .. MaxCrash /\ done + e <= MaxTxn
      /\ e \in {0, 1}
  <2>1. done \in 0 .. MaxTxn /\ crashes \in 0 .. MaxCrash /\ MaxTxn \in Nat
    BY PoolAssumption DEF IInv, TypeOK
  <2>2. pc \in Entered => done < MaxTxn
    BY DEF IInv, InFlight, Entered, TxnLabels
  <2> QED
    BY <2>1, <2>2
<1>2. /\ b \in Nat /\ MaxTxn <= b /\ Budget(crashes + 1) = b - MaxTxn
      /\ b <= MaxTxn * (MaxCrash + 1) /\ MaxTxn * (MaxCrash + 1) \in Nat
  BY <1>1, BudgetOK
<1>3. Remaining = b - done - e
  BY DEF Remaining
<1>4. Remaining \in Nat /\ Remaining <= MaxTxn * (MaxCrash + 1)
  <2> HIDE DEF b, e
  <2> DEFINE most == MaxTxn * (MaxCrash + 1)
  <2>1. most \in Nat /\ b <= most
    BY <1>2
  <2> HIDE DEF most
  <2>2. b - done - e \in Nat /\ b - done - e <= most
    BY <1>1, <1>2, <2>1
  <2> QED
    BY <1>3, <2>2 DEF most
<1>5. CASE Crash
  <2>1. crashes' = crashes + 1 /\ done' = 0 /\ pc' \notin Entered
    BY <1>5 DEF Crash, Entered
  <2>2. Remaining' = b - MaxTxn
    <3>1. Remaining' = Budget(crashes + 1) - 0 - 0
      BY <2>1 DEF Remaining, Budget
    <3> HIDE DEF b
    <3> QED
      BY <1>1, <1>2, <3>1
  <2>3. ~TakeOrderId
    BY <2>1 DEF TakeOrderId, Goto, Entered
  <2> HIDE DEF b, e
  <2>4. b - MaxTxn \in Int /\ b - MaxTxn <= b - done - e
    BY <1>1, <1>2
  <2> QED
    BY <1>2, <1>3, <1>4, <2>2, <2>3, <2>4
<1>6. CASE ~Crash
  <2> DEFINE f == IF pc' \in Entered THEN 1 ELSE 0
  <2>1. Remaining' = b - done' - f
    <3>1. crashes' = crashes
      BY <1>6, CountSteps
    <3> QED
      BY <3>1 DEF Remaining, Budget
  <2>2. \/ done' = done /\ f = e /\ ~TakeOrderId
        \/ done' = done + 1 /\ f = 0 /\ ~TakeOrderId
        \/ done' = done /\ f = 1 /\ e = 0
    <3>1. TakeOrderId => pc' \in Entered /\ pc \notin Entered
      BY DEF TakeOrderId, Goto, Entered
    <3>2. TakeOrderId => done' = done
      BY DEF TakeOrderId, Goto
    <3> QED
      BY <1>6, <3>1, <3>2, CountSteps
  <2> HIDE DEF b, e, f
  <2>3. /\ b - done' - f \in Int /\ b - done' - f <= b - done - e
        /\ TakeOrderId => b - done' - f + 1 = b - done - e
    BY <1>1, <1>2, <2>2
  <2> QED
    BY <1>2, <1>3, <1>4, <2>1, <2>3
<1> QED
  BY <1>5, <1>6
-----------------------------------------------------------------------------
(* Where the numbers of the districts change, and what they become.        *)
LEMMA CountersMove ==
  ASSUME IInv, [Next]_vars
  PROVE  CountersSame \/ (Load /\ LoadLow) \/ TakeOrderId
<1>1. CASE Quiet
  BY <1>1, QuietFrame, NoPutFrame
<1>2. CASE TxnClear \/ PayLow \/ LoadClear
  BY <1>2, ClearFrame, PayFrame
<1>3. CASE UpdateStock
  <2> DEFINE key == StockKeyOf(LineAt(txn.n))
  <2>1. key \in StockKeys /\ \E row \in Row : Put(key, row)
    BY <1>3, ShipStep
  <2>2. key \notin DistrictKeys
    BY <2>1, ProtectedFlat
  <2> HIDE DEF key
  <2> QED
    BY <2>1, <2>2, PutRow DEF CountersSame
<1>4. CASE LoadStock
  <2> DEFINE key == MakeStockKey(loop.w, loop.n)
  <2>1. /\ loop.w \in Warehouses /\ loop.n \in Items
        /\ DOMAIN store' = DOMAIN store \cup {key}
        /\ \A x \in DOMAIN store \ {key} : store'[x] = store[x]
    BY <1>4, LoadStockRow
  <2>2. key \in StockKeys
    BY <2>1 DEF StockKeys
  <2>3. key \notin DistrictKeys
    BY <2>2, ProtectedFlat
  <2> HIDE DEF key
  <2> QED
    BY <2>1, <2>3 DEF CountersSame
<1> QED
  BY <1>1, <1>2, <1>3, <1>4, StepKinds

LEMMA LoadLowRow ==
  ASSUME IInv, LoadLow
  PROVE  \E k \in 1 .. NumStock, row \in Row :
           /\ store' = PutRecord(store, k, row)
           /\ row.at0 \in Junk
           /\ \/ \E w \in Warehouses : row.at8 = WarehouseName[w]
              \/ row.at8 = NumCustomer + 1
              \/ \E i \in Items : row.at8 = ItemName[i]
           /\ LoadItem => loop.n \in Items /\ k = loop.n /\ row.at8 = ItemName[loop.n]
<1>1. loop \in LoopType /\ LoopOK
  BY DEF IInv, TypeOK, LoopType
<1>2. loop.w \in Warehouses /\ loop.d \in Districts
  BY <1>1 DEF LoopType
<1>3. NumCustomer \in Nat
  BY SizeAssumption
<1>4. CASE LoadWarehouse
  <2>1. PICK j \in Junk : store' = PutRecord(store, WarehouseKey(loop.w),
                            MakeRow("warehouse", j, j, WarehouseName[loop.w], j))
    BY <1>4 DEF LoadWarehouse
  <2> DEFINE row == MakeRow("warehouse", j, j, WarehouseName[loop.w], j)
  <2>2. row \in Row /\ row.at0 = j /\ row.at8 = WarehouseName[loop.w]
    BY <1>2, LoadAssumption DEF MakeRow, Row, RowTypes
  <2>3. WarehouseKey(loop.w) \in 1 .. NumStock /\ ~LoadItem
    BY <1>2, <1>4, LowKeys DEF LoadWarehouse, LoadItem
  <2> HIDE DEF row
  <2> QED
    BY <1>2, <2>1, <2>2, <2>3 DEF row
<1>5. CASE LoadDistrict
  <2>1. PICK j \in Junk : store' = PutRecord(store, MakeDistrictKey(loop.w, loop.d),
                            MakeRow("district", j, j, NumCustomer + 1, j))
    BY <1>5 DEF LoadDistrict
  <2> DEFINE row == MakeRow("district", j, j, NumCustomer + 1, j)
  <2>2. row \in Row /\ row.at0 = j /\ row.at8 = NumCustomer + 1
    BY <1>3, LoadAssumption DEF MakeRow, Row, RowTypes
  <2>3. MakeDistrictKey(loop.w, loop.d) \in 1 .. NumStock /\ ~LoadItem
    BY <1>2, <1>5, LowKeys DEF LoadDistrict, LoadItem
  <2> HIDE DEF row
  <2> QED
    BY <2>1, <2>2, <2>3 DEF row
<1>6. CASE LoadItem
  <2>1. PICK j \in Junk : store' = PutRecord(store, ItemKey(loop.n),
                            MakeRow("item", j, j, ItemName[loop.n], j))
    BY <1>6 DEF LoadItem
  <2> DEFINE row == MakeRow("item", j, j, ItemName[loop.n], j)
  <2>2. loop.n \in Items
    BY <1>1, <1>6 DEF LoadItem, LoopType, LoopOK, LastRow, Items, LoadPhases
  <2>3. row \in Row /\ row.at0 = j /\ row.at8 = ItemName[loop.n]
    BY <2>2, LoadAssumption DEF MakeRow, Row, RowTypes
  <2>4. ItemKey(loop.n) \in 1 .. NumStock /\ ItemKey(loop.n) = loop.n
    BY <2>2, LowKeys DEF ItemKey
  <2> HIDE DEF row
  <2> QED
    BY <2>1, <2>2, <2>3, <2>4 DEF row
<1> QED
  BY <1>4, <1>5, <1>6 DEF LoadLow

LEMMA TakeStep ==
  ASSUME IInv, TakeOrderId
  PROVE  LET k == MakeDistrictKey(txn.w, txn.d) IN
         /\ pc = "no_district" /\ pc' = "no_new_order"
         /\ txn \in Txn /\ txn.w \in Warehouses /\ txn.d \in Districts
         /\ k \in DistrictKeys /\ k \in DOMAIN store /\ store[k] \in Row /\ store[k].at8 \in Nat
         /\ txn' = [txn EXCEPT !.o = store[k].at8]
         /\ \E row \in Row : /\ Put(k, row)
                             /\ row.at0 = store[k].at0 /\ row.at8 = store[k].at8 + 1
<1> DEFINE k == MakeDistrictKey(txn.w, txn.d)
<1>1. pc = "no_district" /\ pc' = "no_new_order" /\ pc \in TxnLabels
  BY DEF TakeOrderId, Goto, TxnLabels
<1>2. /\ txn \in Txn /\ txn.w \in Warehouses /\ txn.d \in Districts
      /\ StoreOK(store) /\ DistrictKeys \subseteq DOMAIN store
  BY <1>1, InTxn
<1>3. k \in DistrictKeys
  BY <1>2 DEF DistrictKeys
<1>4. PICK val \in GetRecord(store, k) :
        /\ txn' = [txn EXCEPT !.o = val.at8]
        /\ Put(k, As("district", [val EXCEPT !.at8 = @ + 1]))
  BY DEF TakeOrderId
<1> HIDE DEF k
<1>5. /\ k \in DOMAIN store /\ val = store[k] /\ store[k] \in Row
      /\ val \in AnyRow /\ val.at8 \in Nat
  BY <1>2, <1>3, <1>4, GetWords DEF StoreOK
<1> DEFINE at8 == val.at8 + 1
           new == [val EXCEPT !.at8 = at8]
<1>6. at8 \in Int
  BY <1>5
<1>7. Put(k, As("district", new))
  BY <1>4
<1> HIDE DEF at8
<1>8. new \in AnyRow /\ new.at8 = at8 /\ new.at0 = val.at0
  BY <1>5, <1>6 DEF AnyRow
<1> HIDE DEF new
<1> DEFINE row == As("district", new)
<1>9. row \in Row /\ row.at8 = at8 /\ row.at0 = val.at0
  BY <1>8, AsRow DEF RowTypes
<1> HIDE DEF row
<1>10. row.at8 = store[k].at8 + 1 /\ row.at0 = store[k].at0 /\ Put(k, row)
  BY <1>5, <1>7, <1>9 DEF at8, row
<1> QED
  BY <1>1, <1>2, <1>3, <1>4, <1>5, <1>9, <1>10 DEF k

LEMMA CountersFitStep ==
  ASSUME OrderInv, CountersFit, [Next]_vars
  PROVE  CountersFit'
<1> USE DEF OrderInv
<1> DEFINE half == Word \div 2
           most == MaxTxn * (MaxCrash + 1)
           before == Remaining
           after == Remaining'
<1>1. /\ before \in Nat /\ after \in Int /\ after <= before /\ before <= most
      /\ most \in Nat /\ half \in Nat
      /\ TakeOrderId => after + 1 = before
  BY RemainingStep, HalfWord
<1>2. StoreOK(store) /\ StoreOK(store')
  BY NextOK DEF IInv
<1>3. \A k \in DistrictKeys : k \in DOMAIN store => store[k].at8 + before < half
                                                    /\ store[k].at8 \in Nat
  BY <1>2 DEF CountersFit, StoreOK
<1>4. \A w \in Warehouses : WarehouseName[w] \in Nat /\ WarehouseName[w] + most < half
  BY LoadAssumption, CounterAssumption
<1>5. \A i \in Items : ItemName[i] \in Nat /\ ItemName[i] + most < half
  BY LoadAssumption, CounterAssumption
<1>6. NumCustomer \in Nat /\ NumCustomer + 1 + most < half
  BY SizeAssumption, CounterAssumption
<1> SUFFICES ASSUME NEW k \in DistrictKeys, k \in DOMAIN store'
             PROVE  store'[k].at8 + after < half
  BY DEF CountersFit
<1> HIDE DEF half, most, before, after
<1>7. CASE k \in DOMAIN store /\ store'[k].at8 = store[k].at8
  BY <1>1, <1>3, <1>7
<1>8. CASE CountersSame
  BY <1>7, <1>8 DEF CountersSame
<1>9. CASE LoadLow
  <2>1. PICK x \in 1 .. NumStock, row \in Row :
          /\ store' = PutRecord(store, x, row)
          /\ \/ \E w \in Warehouses : row.at8 = WarehouseName[w]
             \/ row.at8 = NumCustomer + 1
             \/ \E i \in Items : row.at8 = ItemName[i]
    BY <1>9, LoadLowRow
  <2>2. CASE k = x
    <3>1. store'[k] = row
      BY <2>1, <2>2 DEF PutRecord
    <3>2. row.at8 \in Nat /\ row.at8 + most < half
      BY <1>4, <1>5, <1>6, <2>1
    <3> QED
      BY <1>1, <3>1, <3>2
  <2>3. CASE k # x
    <3>1. k \in DOMAIN store /\ store'[k] = store[k]
      BY <2>1, <2>3 DEF PutRecord
    <3> QED
      BY <1>7, <3>1
  <2> QED
    BY <2>2, <2>3
<1>10. CASE TakeOrderId
  <2> DEFINE x == MakeDistrictKey(txn.w, txn.d)
  <2>1. /\ x \in DistrictKeys /\ x \in DOMAIN store
        /\ \E row \in Row : Put(x, row) /\ row.at8 = store[x].at8 + 1
    BY <1>10, TakeStep
  <2> HIDE DEF x
  <2>2. PICK row \in Row : Put(x, row) /\ row.at8 = store[x].at8 + 1
    BY <2>1
  <2>3. CASE k \in DOMAIN store /\ store'[k] = store[k]
    BY <1>7, <2>3
  <2>4. CASE k = x /\ store'[k] = row
    <3>1. store'[k].at8 = store[x].at8 + 1
      BY <2>2, <2>4
    <3>2. store[x].at8 \in Nat /\ store[x].at8 + before < half /\ after + 1 = before
      BY <1>1, <1>3, <1>10, <2>1
    <3> QED
      BY <1>1, <3>1, <3>2
  <2> QED
    BY <2>2, <2>3, <2>4, PutRow
<1> QED
  BY <1>8, <1>9, <1>10, CountersMove
-----------------------------------------------------------------------------
(* How many orders of all processes can have taken from a stock row: those *)
(* of the transactions that are over, and the order under way when it is   *)
(* past a line that names the row, of which it has but one.                *)
ShippedLines ==
  IF pc = "no_stock" THEN 1 .. txn.n - 1 ELSE IF pc = "no_line" THEN 1 .. txn.n ELSE {}
Shipped(k) == \E n \in ShippedLines : StockKeyOf(LineAt(n)) = k
Turns(k) ==
  MaxTxn * (MaxCrash + 1) - Budget(crashes) + done + (IF Shipped(k) THEN 1 ELSE 0)

YtdFit == \A k \in StockKeys : k \in DOMAIN store => store[k].at4 <= 10 * Turns(k)
CountInv == OrderInv /\ CountersFit /\ YtdFit

LEMMA TurnsOK ==
  ASSUME IInv, NEW k
  PROVE  Turns(k) \in Nat /\ Turns(k) <= MaxTxn * (MaxCrash + 1)
<1> DEFINE s == IF Shipped(k) THEN 1 ELSE 0
           most == MaxTxn * (MaxCrash + 1)
           b == Budget(crashes)
<1>1. done \in Nat /\ done <= MaxTxn /\ crashes \in 0 .. MaxCrash /\ MaxTxn \in Nat
  BY PoolAssumption DEF IInv, TypeOK
<1>2. s \in {0, 1} /\ done + s <= MaxTxn
  <2>1. CASE Shipped(k)
    <3>1. pc \in {"no_stock", "no_line"}
      BY <2>1 DEF Shipped, ShippedLines
    <3>2. done < MaxTxn
      BY <3>1 DEF IInv, InFlight, TxnLabels
    <3> QED
      BY <1>1, <2>1, <3>2
  <2> QED
    BY <1>1, <2>1
<1>3. b \in Nat /\ MaxTxn <= b /\ b <= most /\ most \in Nat
  BY <1>1, BudgetOK
<1>4. Turns(k) = most - b + done + s
  BY DEF Turns
<1> HIDE DEF s, most, b
<1>5. most - b + done + s \in Nat /\ most - b + done + s <= most
  BY <1>1, <1>2, <1>3
<1> QED
  BY <1>4, <1>5 DEF most

TurnsAreNat == \A k : Turns(k) \in Nat
LEMMA TurnsNat == IInv => TurnsAreNat
  BY TurnsOK DEF TurnsAreNat

(* At the labels of the two line loops only their own steps are taken.     *)
LEMMA LineSteps ==
  ASSUME IInv, [Next]_vars
  PROVE  /\ pc = "no_stock" => UpdateStock \/ Crash \/ UNCHANGED vars
         /\ pc = "no_line" => InsertOrderLine \/ Crash \/ UNCHANGED vars
<1> SUFFICES ASSUME pc \in {"no_stock", "no_line"}
             PROVE  \/ pc = "no_stock" /\ UpdateStock
                    \/ pc = "no_line" /\ InsertOrderLine
                    \/ Crash
                    \/ UNCHANGED vars
  OBVIOUS
<1>1. ~Load
  BY LoadLabels DEF LoadPhases
<1>2. CASE NewOrderStep
  BY <1>2 DEF NewOrderStep, NewOrder, GenerateLocal, GenerateRemote, StartRun, TakeOrderId,
    InsertNewOrder, InsertOrder, InsertOrderIndex, UpdateStock, InsertOrderLine, Idle
<1>3. CASE PaymentStep
  BY <1>3 DEF PaymentStep, Payment, PayWarehouse, PayDistrict, PayCustomer, InsertHistory, Idle
<1>4. CASE DeliveryStep
  BY <1>4 DEF DeliveryStep, Delivery, DeliverOrder, DeliverLine, DeliverCustomer, Idle
<1>5. CASE OrderStatus \/ StockLevel \/ Finish \/ Terminating
  BY <1>5 DEF OrderStatus, StockLevel, Finish, Terminating, Idle
<1> QED
  BY <1>1, <1>2, <1>3, <1>4, <1>5 DEF Next, Step

(* No step forgets an order that took from a row, and the one that takes   *)
(* from it is the order's first to do so.                                  *)
LEMMA TurnsStep ==
  ASSUME OrderInv, [Next]_vars, NEW k
  PROVE  /\ Turns(k) <= Turns(k)'
         /\ UpdateStock /\ k = StockKeyOf(LineAt(txn.n)) => Turns(k)' = Turns(k) + 1
<1> USE DEF OrderInv
<1> DEFINE most == MaxTxn * (MaxCrash + 1)
           b == Budget(crashes)
           s == IF Shipped(k) THEN 1 ELSE 0
           t == IF Shipped(k)' THEN 1 ELSE 0
<1>1. /\ done \in Nat /\ MaxTxn \in Nat /\ crashes \in 0 .. MaxCrash
      /\ most \in Nat /\ b \in Nat /\ Budget(crashes + 1) = b - MaxTxn
      /\ s \in {0, 1} /\ t \in {0, 1} /\ txn \in Txn
  <2>1. done \in Nat /\ crashes \in 0 .. MaxCrash /\ MaxTxn \in Nat /\ txn \in Txn
    BY PoolAssumption DEF IInv, TypeOK
  <2> QED
    BY <2>1, BudgetOK
<1>2. Turns(k) = most - b + done + s
  BY DEF Turns
<1>3. CASE Crash
  <2>1. crashes' = crashes + 1 /\ done' = 0 /\ pc' = "warehouse" /\ ~UpdateStock
    BY <1>3 DEF Crash, UpdateStock, Goto
  <2>2. t = 0
    BY <2>1 DEF Shipped, ShippedLines
  <2>3. Turns(k)' = most - Budget(crashes + 1) + 0 + t
    BY <2>1 DEF Turns, Budget
  <2>4. Turns(k) \in Nat /\ done + s <= MaxTxn
    <3>1. Turns(k) <= most /\ Turns(k) \in Nat
      BY TurnsOK
    <3>2. Shipped(k) => done < MaxTxn
      BY DEF Shipped, ShippedLines, IInv, InFlight, TxnLabels
    <3>3. done <= MaxTxn
      BY <1>1 DEF IInv, TypeOK
    <3> QED
      BY <1>1, <3>1, <3>2, <3>3
  <2> HIDE DEF most, b, s, t
  <2>5. most - b + done + s <= most - (b - MaxTxn) + 0 + 0
    BY <1>1, <2>4
  <2> QED
    BY <1>1, <1>2, <2>1, <2>2, <2>3, <2>5
<1>4. CASE ~Crash
  <2>1. crashes' = crashes /\ (done' = done \/ done' = done + 1)
    BY <1>4, CountSteps
  <2>2. Turns(k)' = most - b + done' + t
    BY <2>1 DEF Turns, Budget
  <2>3. (done' = done + 1 \/ s <= t) /\ (UpdateStock => done' = done)
    <3>1. CASE pc = "no_stock"
      <4>1. CASE UpdateStock
        <5>1. PICK q : txn' = [txn EXCEPT !.quantity = q]
          BY <4>1 DEF UpdateStock
        <5>2. pc' = "no_line" /\ done' = done
          BY <4>1 DEF UpdateStock, Goto
        <5>3. txn'.n = txn.n /\ \A n : StockKeyOf(LineAt(n))' = StockKeyOf(LineAt(n))
          BY <1>1, <5>1 DEF Txn, LineAt, IsLocal, StockKeyOf
        <5>4. txn.n \in Nat
          BY <1>1 DEF Txn
        <5>5. ShippedLines' = 1 .. txn.n /\ ShippedLines = 1 .. txn.n - 1
          BY <3>1, <5>2, <5>3 DEF ShippedLines
        <5>6. \A n \in ShippedLines : n \in ShippedLines'
          BY <5>4, <5>5
        <5>7. Shipped(k) => Shipped(k)'
          BY <5>3, <5>6 DEF Shipped
        <5> QED
          BY <5>2, <5>7
      <4>2. CASE UNCHANGED vars
        BY <3>1, <4>2 DEF vars, Shipped, ShippedLines, StockKeyOf, LineAt, IsLocal
      <4> QED
        BY <1>4, <3>1, <4>1, <4>2, LineSteps
    <3>2. CASE pc = "no_line"
      <4>1. ~UpdateStock
        BY <3>2 DEF UpdateStock
      <4>2. CASE InsertOrderLine /\ pc' = "no_stock"
        <5>1. txn' = [txn EXCEPT !.n = @ + 1]
          BY <4>2 DEF InsertOrderLine, EndTxn
        <5>2. /\ txn'.n = txn.n + 1 /\ txn.n \in Nat
              /\ \A n : StockKeyOf(LineAt(n))' = StockKeyOf(LineAt(n))
          BY <1>1, <5>1 DEF Txn, LineAt, IsLocal, StockKeyOf
        <5>3. ShippedLines' = 1 .. txn.n + 1 - 1 /\ ShippedLines = 1 .. txn.n
          BY <3>2, <4>2, <5>2 DEF ShippedLines
        <5>4. \A n \in ShippedLines : n \in ShippedLines'
          BY <5>2, <5>3
        <5> QED
          BY <4>1, <5>2, <5>4 DEF Shipped
      <4>3. CASE InsertOrderLine /\ pc' # "no_stock"
        BY <4>1, <4>3 DEF InsertOrderLine, EndTxn
      <4>4. CASE UNCHANGED vars
        BY <3>2, <4>1, <4>4 DEF vars, Shipped, ShippedLines, StockKeyOf, LineAt, IsLocal
      <4> QED
        BY <1>4, <3>2, <4>2, <4>3, <4>4, LineSteps
    <3>3. CASE pc \notin {"no_stock", "no_line"}
      <4>1. s = 0 /\ ~UpdateStock
        BY <3>3 DEF Shipped, ShippedLines, UpdateStock
      <4> QED
        BY <4>1
    <3> QED
      BY <3>1, <3>2, <3>3
  <2>4. UpdateStock /\ k = StockKeyOf(LineAt(txn.n)) => s = 0 /\ t = 1
    <3> SUFFICES ASSUME UpdateStock, k = StockKeyOf(LineAt(txn.n))
                 PROVE  ~Shipped(k) /\ Shipped(k)'
      OBVIOUS
    <3>1. txn.n \in 1 .. Generated /\ Generated \in Nat
      BY ShipStep, RoomType
    <3>2. PICK q : txn' = [txn EXCEPT !.quantity = q]
      BY DEF UpdateStock
    <3>3. pc = "no_stock" /\ pc' = "no_line"
      BY DEF UpdateStock, Goto
    <3>4. txn'.n = txn.n /\ \A n : StockKeyOf(LineAt(n))' = StockKeyOf(LineAt(n))
      BY <1>1, <3>2 DEF Txn, LineAt, IsLocal, StockKeyOf
    <3>5. LinesDistinct
      BY LinesAreDistinct
    <3>6. \A n \in 1 .. txn.n - 1 : n \in 1 .. Generated /\ n # txn.n
      BY <3>1
    <3>7. ~Shipped(k)
      BY <3>1, <3>3, <3>5, <3>6 DEF Shipped, ShippedLines, LinesDistinct
    <3>8. txn.n \in 1 .. txn.n
      BY <3>1
    <3>9. ShippedLines' = 1 .. txn.n
      BY <3>3, <3>4 DEF ShippedLines
    <3>10. Shipped(k)'
      BY <3>4, <3>8, <3>9 DEF Shipped
    <3> QED
      BY <3>7, <3>10
  <2> HIDE DEF most, b, s, t
  <2>5. most - b + done + s <= most - b + done' + t
    BY <1>1, <2>1, <2>3
  <2>6. ASSUME s = 0, t = 1, done' = done
        PROVE  most - b + done' + t = most - b + done + s + 1
    BY <1>1, <2>6
  <2> QED
    BY <1>2, <2>2, <2>3, <2>4, <2>5, <2>6
<1> QED
  BY <1>3, <1>4

LEMMA YtdFitStep ==
  ASSUME OrderInv, YtdFit, [Next]_vars
  PROVE  YtdFit'
<1> USE DEF OrderInv
<1> SUFFICES ASSUME NEW k \in StockKeys, k \in DOMAIN store'
             PROVE  store'[k].at4 <= 10 * Turns(k)'
  BY DEF YtdFit
<1> DEFINE before == Turns(k)
           after == Turns(k)'
<1>1. before \in Nat /\ after \in Nat /\ before <= after
  <2>1. IInv'
    BY NextOK
  <2>2. Turns(k)' \in Nat
    <3>1. TurnsAreNat'
      BY <2>1, TurnsNat, PTL
    <3> QED
      BY <3>1 DEF TurnsAreNat
  <2> QED
    BY <2>2, TurnsOK, TurnsStep
<1>2. k \in DOMAIN store => store[k].at4 \in Int /\ store[k].at4 <= 10 * before
  BY DEF YtdFit, IInv, StoreOK, Row
<1>3. CASE k \in DOMAIN store /\ store'[k] = store[k]
  <2> HIDE DEF before, after
  <2>1. store[k].at4 <= 10 * after
    BY <1>1, <1>2, <1>3
  <2> QED
    BY <1>3, <2>1 DEF after
<1>4. CASE ~LoadStock /\ ~UpdateStock
  BY <1>3, <1>4, StockFrame DEF RowsSame
<1>5. CASE LoadStock
  <2>1. CASE k = MakeStockKey(loop.w, loop.n)
    <3>1. store'[k] = StockRow
      BY <1>5, <2>1, LoadStockRow
    <3>2. StockRow.at4 = 0
      BY DEF StockRow, MakeRow
    <3>3. 0 <= 10 * after
      <4> HIDE DEF after
      <4> QED
        BY <1>1
    <3> QED
      BY <3>1, <3>2, <3>3
  <2>2. CASE k # MakeStockKey(loop.w, loop.n)
    BY <1>3, <1>5, <2>2, LoadStockRow
  <2> QED
    BY <2>1, <2>2
<1>6. CASE UpdateStock
  <2> DEFINE key == StockKeyOf(LineAt(txn.n))
  <2>1. /\ key \in DOMAIN store
        /\ \E q \in QuantityPool, row \in Row : row.at4 = store[key].at4 + q /\ Put(key, row)
    BY <1>6, ShipStep
  <2>2. PICK q \in QuantityPool, row \in Row : row.at4 = store[key].at4 + q /\ Put(key, row)
    BY <2>1
  <2>3. CASE k # key \/ UNCHANGED store
    BY <1>3, <2>2, <2>3, PutRow
  <2>4. CASE k = key /\ store'[k] = row
    <3>1. q \in Int /\ q <= 10
      BY PoolAssumption
    <3>2. after = before + 1
      BY <1>6, <2>4, TurnsStep
    <3>3. store'[k].at4 = store[k].at4 + q /\ k \in DOMAIN store
      BY <2>1, <2>2, <2>4
    <3> HIDE DEF before, after, key
    <3>4. store[k].at4 + q <= 10 * after
      BY <1>1, <1>2, <3>1, <3>2, <3>3
    <3> QED
      BY <3>3, <3>4 DEF after
  <2> HIDE DEF key
  <2> QED
    BY <2>2, <2>3, <2>4, PutRow
<1> QED
  BY <1>4, <1>5, <1>6

LEMMA CountInvariant == Spec => []CountInv
<1>1. Init => CountInv
  BY OrderInit DEF CountInv, CountersFit, YtdFit, Init
<1>2. CountInv /\ [Next]_vars => CountInv'
  BY CountersFitStep, YtdFitStep, NextOK, LinesStep DEF CountInv, OrderInv
<1> QED
  BY <1>1, <1>2, PTL DEF Spec

(* No counter of the tables overflows, whatever names the counters start   *)
(* from, while the processes together run as many transactions as these    *)
(* leave room for: one number of a district and ten units of a stock row   *)
(* to an order, through crashes, reloads and refused puts.                 *)
THEOREM NoOverflowHolds == Spec => []NoOverflow
<1>1. ASSUME CountInv, RemoteCounted
      PROVE  NoOverflow
  <2> USE <1>1 DEF CountInv, OrderInv
  <2> DEFINE half == Word \div 2
             most == MaxTxn * (MaxCrash + 1)
  <2>1. half \in Nat /\ most \in Nat /\ 10 * most < half
    <3>1. crashes \in 0 .. MaxCrash
      BY DEF IInv, TypeOK
    <3> QED
      BY <3>1, BudgetOK, HalfWord, CounterAssumption
  <2>2. ASSUME NEW k \in DistrictKeys \cap DOMAIN store
        PROVE  store[k].at8 < half
    <3>1. Remaining \in Nat
      BY RemainingOK
    <3>2. store[k].at8 \in Nat /\ store[k].at8 + Remaining < half
      BY DEF CountersFit, IInv, StoreOK
    <3> HIDE DEF half
    <3> QED
      BY <2>1, <3>1, <3>2
  <2>3. ASSUME NEW k \in StoredStocks
        PROVE  store[k].at4 < half /\ store[k].at12 < half
    <3>1. PICK w \in Warehouses, i \in Items : k = MakeStockKey(w, i)
      BY DEF StoredStocks, StockKeys
    <3>2. k \in StockKeys /\ k \in DOMAIN store /\ store[k].at4 \in Int /\ store[k].at12 \in Int
      BY DEF StoredStocks, IInv, StoreOK, Row
    <3>3. store[k].at12 <= store[k].at4
      BY <3>1, <3>2 DEF RemoteCounted
    <3>4. store[k].at4 <= 10 * Turns(k)
      BY <3>2 DEF YtdFit
    <3> DEFINE turns == Turns(k)
    <3>5. turns \in Nat /\ turns <= most
      BY TurnsOK
    <3> HIDE DEF half, most, turns
    <3>6. 10 * turns <= 10 * most
      BY <2>1, <3>5
    <3> QED
      BY <2>1, <3>2, <3>3, <3>4, <3>5, <3>6 DEF turns
  <2> QED
    BY <2>2, <2>3 DEF NoOverflow
<1> QED
  BY <1>1, CountInvariant, RemoteCountedHolds, PTL
-----------------------------------------------------------------------------
(* Every row that is put begins with a word: a new one with junk, the      *)
(* number of a customer, an item or part of a key, one that is put back    *)
(* with what it had.                                                       *)
PutsWord ==
  \/ UNCHANGED store
  \/ \E k : \E row : store' = PutRecord(store, k, row) /\ row.at0 < Word

LEMMA PutFits ==
  ASSUME NEW k, NEW row, row.at0 < Word,
         Put(k, row) \/ store' = PutRecord(store, k, row) \/ store' = PutIfAbsent(store, k, row)
  PROVE  PutsWord
BY DEF Put, PutIfAbsent, PutsWord

LEMMA GetFits ==
  ASSUME StoreOK(store), WordsFit, IdsFit, NEW k, NEW val \in GetRecord(store, k)
  PROVE  val \in AnyRow /\ val.at0 < Word
<1>1. val \in AnyRow /\ (k \in DOMAIN store => val = store[k])
  BY GetWords
<1>2. CASE k \in DOMAIN store
  BY <1>1, <1>2 DEF WordsFit
<1>3. CASE k \notin DOMAIN store
  <2>1. val.at0 \in Junk
    BY <1>3 DEF GetRecord
  <2>2. val.at0 \in Int /\ val.at0 < Word \div 2
    BY <2>1, LoadAssumption DEF IdsFit
  <2> QED
    BY <1>1, <2>2, HalfWord, SizesAreInt
<1> QED
  BY <1>2, <1>3

LEMMA SmallWords ==
  ASSUME IdsFit
  PROVE  /\ \A j \in Junk : j < Word
         /\ \A c \in Customers : c < Word
         /\ \A i \in Items : i < Word
         /\ \A k \in Int : k % Word < Word
<1>1. \A j \in Junk : j \in Int /\ j < Word \div 2
  BY LoadAssumption DEF IdsFit
<1>2. \A c \in Customers : c < Word
  BY CustomersAreSmall, HalfWord, SizesAreInt
<1>3. \A i \in Items : i < Word
  <2>1. NumItem <= NumStock /\ NumItem \in Nat
    BY SizeAssumption
  <2>2. 1 * NumStock <= (NumWarehouse + 1) * NumStock /\ (NumWarehouse + 1) * NumStock \in Nat
    BY SizesAreInt, MulMono
  <2>3. 2 * ((NumWarehouse + 1) * NumStock) < Word
    BY SizesAreInt, WidthAssumption
  <2>4. NumStock < Word
    BY <2>2, <2>3, SizesAreInt
  <2> QED
    BY <2>1, <2>4, SizesAreInt DEF Items
<1>4. \A k \in Int : k % Word < Word
  BY SizesAreInt
<1> QED
  BY <1>1, <1>2, <1>3, <1>4, HalfWord, SizesAreInt

LEMMA LoadWords ==
  ASSUME FitInv, IdsFit, Load
  PROVE  PutsWord
<1> USE DEF FitInv, OrderInv
<1>1. loop \in LoopType /\ LoopOK
  BY DEF IInv, TypeOK, LoopType
<1>2. ASSUME NEW k, NEW j \in Junk, NEW type, NEW b, NEW c, NEW d,
             store' = PutRecord(store, k, MakeRow(type, j, b, c, d))
      PROVE  PutsWord
  <2>1. MakeRow(type, j, b, c, d).at0 = j
    BY DEF MakeRow
  <2> QED
    BY <1>2, <2>1, PutFits, SmallWords
<1>3. CASE LoadWarehouse \/ LoadDistrict \/ LoadCustomer \/ LoadHistory \/ LoadNewOrder \/ LoadItem
  BY <1>2, <1>3 DEF LoadWarehouse, LoadDistrict, LoadCustomer, LoadHistory, LoadNewOrder, LoadItem
<1>4. CASE pc \in OrderPhases
  <2>1. loop.w \in Warehouses /\ loop.d \in Districts /\ loop.n \in Customers /\ loop.l \in Nat
    BY <1>1, <1>4, OrderPhaseOK, SizeAssumption DEF LoopType
  <2>2. CASE LoadCustomerIndex
    <3> DEFINE key == MakeCustomerKey(loop.w, loop.d, loop.n)
               row == MakeRow("customer_index", key % Word, key \div Word, 0, 0)
    <3>1. key \in Int
      BY <2>1, OrderKeysNotFlat DEF Customers
    <3> HIDE DEF key
    <3>2. row.at0 < Word
      BY <3>1, SmallWords DEF MakeRow
    <3>3. store' = PutIfAbsent(store, HeapAddress[<<loop.w, loop.d, loop.n>>], row)
      BY <2>2 DEF LoadCustomerIndex, key
    <3> HIDE DEF row
    <3> QED
      BY <3>2, <3>3, PutFits
  <2>3. CASE LoadOrder
    <3> DEFINE carrier == IF Delivered(loop.n) THEN Carrier ELSE 0
               row == LoadedOrder(loop.w, loop.d, loop.n, carrier)
    <3>1. row.at0 \in Customers
      BY <2>1, LoadedOrderType DEF LoadedOrder, MakeRow
    <3>2. store' = PutRecord(store, MakeOrderKey(loop.w, loop.d, loop.n), row)
      BY <2>3 DEF LoadOrder
    <3> HIDE DEF row
    <3> QED
      BY <3>1, <3>2, PutFits, SmallWords
  <2>4. CASE LoadOrderIndex
    <3> DEFINE key == MakeOrderKey(loop.w, loop.d, loop.n)
               row == IndexRow(key)
    <3>1. key \in Int
      BY <2>1, OrderKeysNotFlat DEF Customers
    <3> HIDE DEF key
    <3>2. row.at0 < Word
      BY <3>1, SmallWords DEF IndexRow, MakeRow
    <3>3. \E k : store' = PutIfAbsent(store, k, row)
      BY <2>4 DEF LoadOrderIndex, key
    <3> HIDE DEF row
    <3> QED
      BY <3>2, <3>3, PutFits
  <2>5. CASE LoadOrderLine
    <3> DEFINE item == LineItem[<<loop.w, loop.d, loop.n, loop.l>>]
    <3>1. item \in Items
      BY <1>1, <2>1, LoadAssumption DEF LoopType
    <3> HIDE DEF item
    <3>2. PICK j \in Junk :
            store' = PutRecord(store, MakeOrderLineKey(loop.w, loop.d, loop.n, loop.l),
                               MakeRow("order_line", item, loop.w, 5, j))
      BY <2>5 DEF LoadOrderLine, item
    <3>3. MakeRow("order_line", item, loop.w, 5, j).at0 < Word
      BY <3>1, SmallWords DEF MakeRow
    <3> QED
      BY <3>2, <3>3, PutFits
  <2> QED
    BY <1>3, <1>4, <2>2, <2>3, <2>4, <2>5
    DEF Load, LoadTables, LoadStock, OrderPhases
<1>5. CASE LoadStock
  <2>1. StockRow.at0 < Word
    BY LoadAssumption, SizeAssumption DEF StockRow, MakeRow
  <2> QED
    BY <1>5, <2>1, PutFits DEF LoadStock
<1>6. CASE LoadCustomerIndex \/ LoadOrder \/ LoadOrderIndex \/ LoadOrderLine
  <2>1. pc \in OrderPhases
    BY <1>6 DEF LoadCustomerIndex, LoadOrder, LoadOrderIndex, LoadOrderLine, OrderPhases
  <2> QED
    BY <1>4, <2>1
<1> QED
  BY <1>3, <1>5, <1>6 DEF Load, LoadTables

LEMMA TxnWords ==
  ASSUME FitInv, IdsFit, NewOrderStep \/ PaymentStep \/ DeliveryStep
  PROVE  PutsWord
<1> USE DEF FitInv, OrderInv
<1>1. StoreOK(store)
  BY DEF IInv
<1>2. ASSUME NEW k, NEW j \in Junk, NEW type, Put(k, MakeRow(type, j, j, j, j))
      PROVE  PutsWord
  <2>1. MakeRow(type, j, j, j, j).at0 = j
    BY DEF MakeRow
  <2> QED
    BY <1>2, <2>1, PutFits, SmallWords
<1>3. ASSUME NEW k, NEW val \in GetRecord(store, k), NEW type, NEW a, NEW b, NEW c,
             Put(k, As(type, [val EXCEPT !.at4 = a])) \/ Put(k, As(type, val))
               \/ Put(k, As(type, [val EXCEPT !.at8 = b]))
               \/ Put(k, As(type, [val EXCEPT !.at8 = b, !.at12 = c]))
      PROVE  PutsWord
  <2>1. val \in AnyRow /\ val.at0 < Word
    BY <1>1, GetFits
  <2>2. /\ As(type, val).at0 = val.at0
        /\ As(type, [val EXCEPT !.at4 = a]).at0 = val.at0
        /\ As(type, [val EXCEPT !.at8 = b]).at0 = val.at0
        /\ As(type, [val EXCEPT !.at8 = b, !.at12 = c]).at0 = val.at0
    BY <2>1 DEF As, AnyRow
  <2> QED
    BY <1>3, <2>1, <2>2, PutFits
<1>4. CASE NewOrder \/ GenerateLocal \/ GenerateRemote \/ StartRun \/ Payment \/ Delivery
  BY <1>4 DEF NewOrder, GenerateLocal, GenerateRemote, StartRun, Payment, Delivery, PutsWord
<1>5. CASE InsertNewOrder \/ InsertHistory
  BY <1>2, <1>5 DEF InsertNewOrder, InsertHistory
<1>6. CASE \/ PayWarehouse \/ PayDistrict \/ PayCustomer \/ DeliverOrder
           \/ DeliverLine \/ DeliverCustomer
  BY <1>3, <1>6 DEF PayWarehouse, PayDistrict, PayCustomer, DeliverOrder, DeliverLine,
    DeliverCustomer
<1>7. CASE TakeOrderId
  <2> DEFINE k == MakeDistrictKey(txn.w, txn.d)
  <2>1. k \in DOMAIN store /\ \E row \in Row : Put(k, row) /\ row.at0 = store[k].at0
    BY <1>7, TakeStep
  <2> HIDE DEF k
  <2> QED
    BY <2>1, PutFits DEF WordsFit
<1>8. CASE InsertOrder
  <2>1. txn.c < Word
    BY DEF TxnFit
  <2>2. MakeRow("order", txn.c, 0, txn.num, txn.all_local).at0 = txn.c
    BY DEF MakeRow
  <2> QED
    BY <1>8, <2>1, <2>2, PutFits DEF InsertOrder
<1>9. CASE InsertOrderIndex
  <2>1. pc \in TxnLabels
    BY <1>9 DEF InsertOrderIndex, TxnLabels
  <2>2. OrderKey \in Int
    BY <2>1, InTxn, OrderKeysNotFlat DEF OrderKey
  <2>3. IndexRow(OrderKey).at0 < Word
    BY <2>2, SmallWords DEF IndexRow, MakeRow
  <2> QED
    BY <1>9, <2>3, PutFits DEF InsertOrderIndex
<1>10. CASE UpdateStock
  <2> DEFINE k == StockKeyOf(LineAt(txn.n))
  <2>1. /\ store[k].at0 \in 10 .. 100
        /\ \E q \in QuantityPool, row \in Row :
             row.at0 = NewQuantity(store[k].at0, q) /\ Put(k, row)
    BY <1>10, ShipStep
  <2> HIDE DEF k
  <2>2. PICK q \in QuantityPool, row \in Row :
          row.at0 = NewQuantity(store[k].at0, q) /\ Put(k, row)
    BY <2>1
  <2>3. row.at0 \in 10 .. 100
    BY <2>1, <2>2, NewQuantityBounds, PoolAssumption
  <2>4. row.at0 < Word
    BY <2>3, SizeAssumption
  <2> QED
    BY <2>2, <2>4, PutFits
<1>11. CASE InsertOrderLine
  <2>1. pc = "no_line" /\ pc \in TxnLabels
    BY <1>11 DEF InsertOrderLine, TxnLabels
  <2>2. txn \in Txn /\ txn.n \in 1 .. Generated
    BY <2>1, InTxn DEF IInv, InFlight, NewOrderLabels
  <2>3. LineAt(txn.n).item < Word
    BY <2>2, LineAtOK, SmallWords DEF Line
  <2>4. PICK j \in Junk :
          Put(LineKey(txn.n), MakeRow("order_line", LineAt(txn.n).item, LineAt(txn.n).supply,
                                      txn.quantity, j))
    BY <1>11 DEF InsertOrderLine
  <2>5. MakeRow("order_line", LineAt(txn.n).item, LineAt(txn.n).supply, txn.quantity, j).at0
          = LineAt(txn.n).item
    BY DEF MakeRow
  <2> QED
    BY <2>3, <2>4, <2>5, PutFits
<1> QED
  BY <1>4, <1>5, <1>6, <1>7, <1>8, <1>9, <1>10, <1>11 DEF NewOrderStep, PaymentStep, DeliveryStep

LEMMA WordsFitStep ==
  ASSUME FitInv, IdsFit, [Next]_vars
  PROVE  WordsFit'
<1>1. PutsWord
  <2>1. CASE UNCHANGED store
    BY <2>1 DEF PutsWord
  <2> QED
    BY <2>1, LoadWords, TxnWords
    DEF Next, Step, OrderStatus, StockLevel, Finish, Crash, Terminating, vars
<1>2. ASSUME NEW k, NEW row, row.at0 < Word, store' = PutRecord(store, k, row)
      PROVE  WordsFit'
  BY <1>2 DEF PutRecord, WordsFit, FitInv
<1> QED
  BY <1>1, <1>2 DEF PutsWord, WordsFit, FitInv
-----------------------------------------------------------------------------
(* The locals of a transaction: it is of a customer, of a word that was    *)
(* read, or of none; of an order it counted to, of a loaded one or of none.*)
LEMMA NoTxnFits ==
  ASSUME NEW w, NEW d,
         txn' = NoTxn \/ txn' = [NoTxn EXCEPT !.w = w, !.d = d]
  PROVE  TxnFit'
<1>1. txn'.o = 0 /\ txn'.c = 0
  <2>1. CASE txn' = NoTxn
    BY <2>1 DEF NoTxn
  <2>2. CASE txn' = [NoTxn EXCEPT !.w = w, !.d = d]
    BY <2>2, NoTxnType DEF NoTxn
  <2> QED
    BY <2>1, <2>2
<1>2. 0 < Word \div 2 /\ 0 < Word
  BY HalfWord, SizeAssumption
<1> QED
  BY <1>1, <1>2 DEF TxnFit

LEMMA TxnFitStep ==
  ASSUME FitInv, IdsFit, [Next]_vars
  PROVE  TxnFit'
<1> USE DEF FitInv, OrderInv
<1>1. txn \in Txn /\ StoreOK(store)
  BY DEF IInv, TypeOK
<1>2. 0 < Word \div 2 /\ 0 < Word
  BY HalfWord, SizeAssumption
<1>3. ASSUME txn'.o = txn.o, txn'.c = txn.c
      PROVE  TxnFit'
  BY <1>3 DEF TxnFit
<1>4. ASSUME txn'.o = 0, txn'.c \in Customers
      PROVE  TxnFit'
  BY <1>2, <1>4, SmallWords DEF TxnFit
<1>5. CASE Load \/ Finish \/ Terminating \/ UNCHANGED vars
  BY <1>3, <1>5 DEF Load, Finish, Terminating, vars
<1>6. CASE NewOrder
  <2>1. PICK w \in HomeWarehouses, d \in Districts, c \in CustomerPool,
             num \in MinOlCnt .. MaxOlCnt :
          txn' = [NoTxn EXCEPT !.w = w, !.d = d, !.c = c, !.num = num]
    BY <1>6 DEF NewOrder
  <2>2. txn'.o = 0 /\ txn'.c = c
    BY <2>1 DEF NoTxn
  <2> QED
    BY <1>4, <2>2, PoolAssumption
<1>7. CASE Payment
  <2>1. PICK w \in HomeWarehouses, d \in Districts, c \in CustomerPool :
        \E cwd \in {<<w, d>>} \cup (Warehouses \ {w}) \X Districts :
          txn' = [NoTxn EXCEPT !.w = w, !.d = d, !.cw = cwd[1], !.cd = cwd[2], !.c = c]
    BY <1>7 DEF Payment
  <2>2. txn'.o = 0 /\ txn'.c = c
    BY <2>1 DEF NoTxn
  <2> QED
    BY <1>4, <2>2, PoolAssumption
<1>8. CASE \/ GenerateLocal \/ GenerateRemote \/ StartRun \/ InsertNewOrder \/ InsertOrder
           \/ InsertOrderIndex \/ UpdateStock \/ PayWarehouse \/ PayDistrict \/ PayCustomer
           \/ DeliverLine
  <2>1. txn'.o = txn.o /\ txn'.c = txn.c
    BY <1>1, <1>8 DEF Txn, GenerateLocal, GenerateRemote, StartRun, InsertNewOrder, InsertOrder,
      InsertOrderIndex, UpdateStock, PayWarehouse, PayDistrict, PayCustomer, DeliverLine
  <2> QED
    BY <1>3, <2>1
<1>9. CASE TakeOrderId
  <2> DEFINE k == MakeDistrictKey(txn.w, txn.d)
             o == store[k].at8
  <2>1. /\ k \in DistrictKeys /\ k \in DOMAIN store /\ o \in Nat
        /\ txn' = [txn EXCEPT !.o = o]
    BY <1>9, TakeStep
  <2>2. o + Remaining < Word \div 2 /\ Remaining \in Nat
    BY <2>1, RemainingStep DEF CountersFit
  <2> HIDE DEF o
  <2>3. txn'.o = o /\ txn'.c = txn.c /\ o < Word \div 2
    BY <1>1, <2>1, <2>2, HalfWord DEF Txn
  <2> QED
    BY <2>3 DEF TxnFit
<1>10. CASE InsertOrderLine
  <2>1. CASE txn' = [txn EXCEPT !.n = @ + 1]
    BY <1>1, <1>3, <2>1 DEF Txn
  <2> QED
    BY <1>10, <2>1, NoTxnFits DEF InsertOrderLine, EndTxn
<1>11. CASE DeliverOrder
  <2>1. PICK o \in MinDeliverable .. NumCustomer :
        \E val \in GetRecord(store, MakeOrderKey(txn.w, txn.d, o)) :
          txn' = [txn EXCEPT !.o = o, !.c = val.at0, !.n = 1]
    BY <1>11 DEF DeliverOrder
  <2>2. PICK val \in GetRecord(store, MakeOrderKey(txn.w, txn.d, o)) :
          txn' = [txn EXCEPT !.o = o, !.c = val.at0, !.n = 1]
    BY <2>1
  <2>3. val.at0 < Word
    BY <1>1, GetFits
  <2>4. o < Word \div 2
    BY CustomersAreSmall, HalfWord, SizeAssumption DEF Customers, MinDeliverable
  <2>5. txn'.o = o /\ txn'.c = val.at0
    BY <1>1, <2>2 DEF Txn
  <2> QED
    BY <2>3, <2>4, <2>5 DEF TxnFit
<1>12. CASE \/ InsertHistory \/ Delivery \/ DeliverCustomer \/ OrderStatus \/ StockLevel
            \/ Crash
  BY <1>12, NoTxnFits DEF InsertHistory, Delivery, DeliverCustomer, OrderStatus, StockLevel,
    Crash, EndTxn
<1> QED
  BY <1>5, <1>6, <1>7, <1>8, <1>9, <1>10, <1>11, <1>12
  DEF Next, Step, NewOrderStep, PaymentStep, DeliveryStep

LEMMA FitInvariant ==
  ASSUME IdsFit
  PROVE  Spec => []FitInv
<1>1. Init => FitInv
  <2> SUFFICES ASSUME Init
               PROVE  FitInv
    OBVIOUS
  <2>1. DOMAIN store = {}
    BY DEF Init
  <2>2. CountersFit /\ WordsFit
    BY <2>1 DEF CountersFit, WordsFit
  <2>3. TxnFit
    BY HalfWord, SizeAssumption DEF Init, NoTxn, TxnFit
  <2> QED
    BY <2>2, <2>3, OrderInit DEF FitInv
<1>2. FitInv /\ [Next]_vars => FitInv'
  BY CountersFitStep, WordsFitStep, TxnFitStep, NextOK, LinesStep DEF FitInv, OrderInv
<1> QED
  BY <1>1, <1>2, PTL DEF Spec
-----------------------------------------------------------------------------
(* Two steps put index rows; all others leave them alone.                  *)
LEMMA LoadIndexFrame ==
  ASSUME IndexApart, IInv, LoadClear, ~LoadOrderIndex
  PROVE  RowsSame(IndexKeys)
<1> SUFFICES \E k : OnePut(k) /\ k \notin IndexKeys
  BY OnePutFrame
<1>1. pc \in OrderPhases
  BY DEF LoadClear, LoadCustomer, LoadCustomerIndex, LoadHistory, LoadOrder,
    LoadNewOrder, LoadOrderLine, OrderPhases
<1>2. /\ loop.w \in Warehouses /\ loop.d \in Districts /\ loop.n \in Customers
      /\ loop.l \in 1 .. MaxOlCnt
  BY <1>1, OrderPhaseOK DEF LoopType
<1>3. loop.n \in OrderIds /\ loop.n \in Int /\ loop.n < Word /\ loop.l \in 0 .. MaxOlCnt
  BY <1>2, CustomersAreSmall, HalfWord, SizesAreInt
<1>4. CASE LoadCustomer
  <2>1. OnePut(MakeCustomerKey(loop.w, loop.d, loop.n))
    BY <1>4 DEF LoadCustomer, OnePut
  <2> QED
    BY <1>2, <1>3, <2>1, PackNotIndex
<1>5. CASE LoadCustomerIndex
  <2>1. OnePut(HeapAddress[<<loop.w, loop.d, loop.n>>])
    BY <1>5 DEF LoadCustomerIndex, OnePut
  <2> QED
    BY <1>2, <2>1, HeapNotIndex
<1>6. CASE LoadHistory
  <2>1. OnePut(MakeHistoryKey(loop.w, loop.d, loop.w, loop.d, loop.n))
    BY <1>6 DEF LoadHistory, OnePut
  <2> QED
    BY <1>2, <2>1, HistoryNotIndex
<1>7. CASE LoadOrder
  <2>1. OnePut(MakeOrderKey(loop.w, loop.d, loop.n))
    BY <1>7 DEF LoadOrder, OnePut
  <2> QED
    BY <1>2, <1>3, <2>1, PackNotIndex
<1>8. CASE LoadNewOrder
  <2>1. OnePut(MakeNewOrderKey(loop.w, loop.d, loop.n))
    BY <1>8 DEF LoadNewOrder, OnePut
  <2> QED
    BY <1>2, <1>3, <2>1, PackNotIndex
<1>9. CASE LoadOrderLine
  <2>1. OnePut(MakeOrderLineKey(loop.w, loop.d, loop.n, loop.l))
    BY <1>9 DEF LoadOrderLine, OnePut
  <2> QED
    BY <1>2, <1>3, <2>1, LineNotIndex
<1> QED
  BY <1>4, <1>5, <1>6, <1>7, <1>8, <1>9 DEF LoadClear

LEMMA TxnIndexFrame ==
  ASSUME IndexApart, FitInv, TxnClear, ~InsertOrderIndex
  PROVE  RowsSame(IndexKeys)
<1> USE DEF FitInv, OrderInv
<1> SUFFICES \E k : OnePut(k) /\ k \notin IndexKeys
  BY OnePutFrame
<1>1. pc \in TxnLabels
  BY DEF TxnClear, InsertNewOrder, InsertOrder, InsertOrderLine,
    PayCustomer, InsertHistory, DeliverOrder, DeliverLine, DeliverCustomer, TxnLabels
<1>2. /\ txn.w \in Warehouses /\ txn.d \in Districts /\ txn.o \in Nat
      /\ txn.c \in Int /\ txn.n \in Nat
  BY <1>1, InTxn DEF Txn
<1>3. txn.o \in OrderIds /\ txn.o \in Int /\ txn.o < Word /\ txn.c < Word
  BY <1>2, HalfWord, SizesAreInt DEF TxnFit
<1>4. CASE InsertNewOrder
  <2>1. OnePut(MakeNewOrderKey(txn.w, txn.d, txn.o))
    BY <1>4, PutIsOne DEF InsertNewOrder
  <2> QED
    BY <1>2, <1>3, <2>1, PackNotIndex
<1>5. CASE InsertOrder
  <2>1. OnePut(MakeOrderKey(txn.w, txn.d, txn.o))
    BY <1>5, PutIsOne DEF InsertOrder, OrderKey
  <2> QED
    BY <1>2, <1>3, <2>1, PackNotIndex
<1>6. CASE InsertOrderLine
  <2>1. OnePut(LineKey(txn.n))
    BY <1>6, PutIsOne DEF InsertOrderLine
  <2>2. pc = "no_line" /\ pc \in NewOrderLabels
    BY <1>6 DEF InsertOrderLine, NewOrderLabels
  <2>3. txn.n \in 1 .. txn.num /\ txn.num \in MinOlCnt .. MaxOlCnt
    BY <2>2 DEF IInv, InFlight, LinesOK
  <2> DEFINE n == txn.n
             num == txn.num
  <2> HIDE DEF n, num
  <2>4. n \in 1 .. num /\ num \in MinOlCnt .. MaxOlCnt
    BY <2>3 DEF n, num
  <2>5. n \in 0 .. MaxOlCnt
    BY <2>4, SizeAssumption
  <2>6. LineKey(n) \notin IndexKeys
    BY <1>2, <1>3, <2>5, PackNotIndex, LineNotIndex DEF LineKey, OrderKey
  <2> QED
    BY <2>1, <2>6 DEF n
<1>7. CASE PayCustomer \/ InsertHistory
  <2>1. txn.cw \in Warehouses /\ txn.cd \in Districts /\ txn.c \in Customers
    BY <1>7 DEF IInv, InFlight, PayCustomer, InsertHistory, PaymentLabels
  <2>2. ASSUME PayCustomer
        PROVE  OnePut(MakeCustomerKey(txn.cw, txn.cd, txn.c))
    BY <2>2, PutIsOne DEF PayCustomer
  <2>3. ASSUME InsertHistory
        PROVE  OnePut(MakeHistoryKey(txn.w, txn.d, txn.cw, txn.cd, txn.c))
    BY <2>3, PutIsOne DEF InsertHistory
  <2>4. CASE PayCustomer
    BY <1>2, <1>3, <2>1, <2>2, <2>4, PackNotIndex
  <2>5. CASE InsertHistory
    BY <1>2, <2>1, <2>3, <2>5, HistoryNotIndex
  <2> QED
    BY <1>7, <2>4, <2>5
<1>8. CASE DeliverOrder
  <2>1. PICK o \in MinDeliverable .. NumCustomer : OnePut(MakeOrderKey(txn.w, txn.d, o))
    BY <1>8, PutIsOne DEF DeliverOrder
  <2>2. o \in Int /\ o < Word
    <3>1. NumCustomer < Word
      BY CustomersAreSmall, HalfWord, SizeAssumption DEF Customers
    <3> QED
      BY <3>1, SizeAssumption DEF MinDeliverable
  <2> QED
    BY <1>2, <2>1, <2>2, PackNotIndex
<1>9. CASE DeliverLine
  <2>1. OnePut(MakeOrderLineKey(txn.w, txn.d, txn.o, txn.n))
    BY <1>9, PutIsOne DEF DeliverLine
  <2>2. txn.n <= MaxOlCnt
    BY <1>2, <1>9, SizesAreInt DEF DeliverLine
  <2>3. txn.n \in 0 .. MaxOlCnt
    BY <1>2, <2>2, SizesAreInt
  <2> QED
    BY <1>2, <1>3, <2>1, <2>3, LineNotIndex
<1>10. CASE DeliverCustomer
  <2>1. OnePut(MakeCustomerKey(txn.w, txn.d, txn.c))
    BY <1>10, PutIsOne DEF DeliverCustomer
  <2> QED
    BY <1>2, <1>3, <2>1, PackNotIndex
<1> QED
  BY <1>4, <1>5, <1>6, <1>7, <1>8, <1>9, <1>10 DEF TxnClear

LEMMA IndexFrame ==
  ASSUME IndexApart, FitInv, [Next]_vars, ~LoadOrderIndex, ~InsertOrderIndex
  PROVE  RowsSame(IndexKeys)
<1> USE DEF FitInv, OrderInv
<1>1. CASE Quiet
  BY <1>1, QuietFrame DEF RowsSame
<1>2. CASE LoadLow \/ PayLow \/ TakeOrderId
  <2>1. PICK k \in 1 .. NumStock : OnePut(k)
    BY <1>2, LowPut
  <2>2. k \in FlatKeys
    BY SizesAreInt DEF FlatKeys
  <2> QED
    BY <2>1, <2>2, FlatNotIndex, OnePutFrame
<1>3. CASE UpdateStock
  <2> DEFINE key == StockKeyOf(LineAt(txn.n))
  <2>1. key \in StockKeys /\ \E row \in Row : Put(key, row)
    BY <1>3, ShipStep
  <2> HIDE DEF key
  <2> QED
    BY <2>1, ProtectedFlat, FlatNotIndex, PutIsOne, OnePutFrame
<1>4. CASE LoadStock
  <2> DEFINE key == MakeStockKey(loop.w, loop.n)
  <2>1. /\ loop.w \in Warehouses /\ loop.n \in Items
        /\ OnePut(key)
    BY <1>4, LoadStockRow DEF LoadStock, OnePut
  <2>2. key \in StockKeys
    BY <2>1 DEF StockKeys
  <2> HIDE DEF key
  <2> QED
    BY <2>1, <2>2, ProtectedFlat, FlatNotIndex, OnePutFrame
<1> QED
  BY <1>1, <1>2, <1>3, <1>4, StepKinds, LoadIndexFrame, TxnIndexFrame

(* No row is ever taken away.                                              *)
LEMMA StoreGrows ==
  ASSUME IInv, [Next]_vars
  PROVE  DOMAIN store \subseteq DOMAIN store'
<1>1. CASE Quiet
  BY <1>1, QuietFrame
<1>2. CASE LoadLow \/ PayLow \/ TakeOrderId \/ LoadClear \/ TxnClear
  BY <1>2, LowPut, LoadClearPut, TxnClearPut, PutGrows
<1>3. CASE UpdateStock
  BY <1>3, ShipStep, PutIsOne, PutGrows
<1>4. CASE LoadStock
  BY <1>4, LoadStockRow
<1> QED
  BY <1>1, <1>2, <1>3, <1>4, StepKinds
-----------------------------------------------------------------------------
(* The two steps that put an index row: under the key of a customer and an *)
(* id, the key of the order.                                               *)
IndexPut(w, d, c, o) ==
  \/ store' = PutRecord(store, MakeOrderIndexKey(w, d, c, o), IndexRow(MakeOrderKey(w, d, o)))
  \/ UNCHANGED store

LEMMA LoadIndexPut ==
  ASSUME IInv, LoadOrderIndex
  PROVE  LET c == OrderCustomer[<<loop.w, loop.d>>][loop.n] IN
         /\ loop.w \in Warehouses /\ loop.d \in Districts /\ loop.n \in Customers
         /\ loop.n \in OrderIds /\ c \in Customers
         /\ IndexPut(loop.w, loop.d, c, loop.n)
<1>1. pc \in OrderPhases
  BY DEF LoadOrderIndex, OrderPhases
<1>2. loop.w \in Warehouses /\ loop.d \in Districts /\ loop.n \in Customers
  BY <1>1, OrderPhaseOK
<1>3. IndexPut(loop.w, loop.d, OrderCustomer[<<loop.w, loop.d>>][loop.n], loop.n)
  BY DEF LoadOrderIndex, PutIfAbsent, IndexPut
<1> QED
  BY <1>2, <1>3, LoadedOrderType, CustomersAreSmall

LEMMA InsertIndexPut ==
  ASSUME FitInv, InsertOrderIndex
  PROVE  /\ pc = "no_index" /\ pc' = "no_stock" /\ txn \in Txn
         /\ txn.w \in Warehouses /\ txn.d \in Districts /\ txn.c \in Customers
         /\ txn.o \in OrderIds
         /\ txn' = [txn EXCEPT !.n = 1]
         /\ \/ store' = PutRecord(store, MakeOrderIndexKey(txn.w, txn.d, txn.c, txn.o),
                                  IndexRow(OrderKey)) /\ lost' = lost
            \/ UNCHANGED store /\ lost < MaxLost /\ lost' = lost + 1
         /\ IndexPut(txn.w, txn.d, txn.c, txn.o)
<1> USE DEF FitInv, OrderInv
<1>1. pc = "no_index" /\ pc' = "no_stock" /\ pc \in TxnLabels /\ pc \in NewOrderLabels
  BY DEF InsertOrderIndex, Goto, TxnLabels, NewOrderLabels
<1>2. txn \in Txn /\ txn.w \in Warehouses /\ txn.d \in Districts /\ txn.o \in Nat
  BY <1>1, InTxn
<1>3. txn.c \in Customers
  BY <1>1 DEF IInv, InFlight
<1>4. txn.o \in OrderIds
  BY <1>2, HalfWord DEF TxnFit
<1>5. \/ store' = PutRecord(store, MakeOrderIndexKey(txn.w, txn.d, txn.c, txn.o),
                            IndexRow(OrderKey)) /\ lost' = lost
      \/ UNCHANGED store /\ lost < MaxLost /\ lost' = lost + 1
  BY DEF InsertOrderIndex, Put
<1>6. txn' = [txn EXCEPT !.n = 1]
  BY DEF InsertOrderIndex
<1> QED
  BY <1>1, <1>2, <1>3, <1>4, <1>5, <1>6 DEF IndexPut, OrderKey

(* Whatever the step, an index row is one that was there or the one put.   *)
LEMMA IndexRowsStep ==
  ASSUME IndexApart, FitInv, IndexRows, [Next]_vars
  PROVE  IndexRows'
<1> USE DEF FitInv, OrderInv
<1> SUFFICES ASSUME NEW w \in Warehouses, NEW d \in Districts, NEW c \in Customers,
                    NEW o \in OrderIds, MakeOrderIndexKey(w, d, c, o) \in DOMAIN store'
             PROVE  store'[MakeOrderIndexKey(w, d, c, o)] = IndexRow(MakeOrderKey(w, d, o))
  BY DEF IndexRows
<1> DEFINE k == MakeOrderIndexKey(w, d, c, o)
<1>1. k \in IndexKeys
  BY IndexKeysInRange
<1>2. CASE k \in DOMAIN store /\ store'[k] = store[k]
  BY <1>2 DEF IndexRows
<1>3. ASSUME NEW v \in Warehouses, NEW e \in Districts, NEW b \in Customers,
             NEW p \in OrderIds, IndexPut(v, e, b, p)
      PROVE  store'[k] = IndexRow(MakeOrderKey(w, d, o))
  <2>1. CASE k = MakeOrderIndexKey(v, e, b, p)
    <3>1. w = v /\ d = e /\ c = b /\ o = p
      BY <2>1, IndexKeyUnique
    <3> HIDE DEF k
    <3> QED
      BY <1>2, <1>3, <2>1, <3>1 DEF IndexPut, PutRecord, k
  <2>2. CASE k # MakeOrderIndexKey(v, e, b, p)
    <3> HIDE DEF k
    <3>1. k \in DOMAIN store /\ store'[k] = store[k]
      BY <1>3, <2>2 DEF IndexPut, PutRecord, k
    <3> QED
      BY <1>2, <3>1 DEF k
  <2> QED
    BY <2>1, <2>2
<1>4. CASE LoadOrderIndex
  BY <1>3, <1>4, LoadIndexPut
<1>5. CASE InsertOrderIndex
  BY <1>3, <1>5, InsertIndexPut
<1>6. CASE ~LoadOrderIndex /\ ~InsertOrderIndex
  BY <1>1, <1>2, <1>6, IndexFrame DEF RowsSame
<1> QED
  BY <1>4, <1>5, <1>6
-----------------------------------------------------------------------------
(* The steps from which the index row of an order is put next.             *)
LEMMA ToOrderIndex ==
  ASSUME IInv, [Next]_vars, pc' = "order_index"
  PROVE  LoadOrder \/ UNCHANGED vars
<1>1. CASE Load
  <2>1. CASE Advance /\ pc \in EndPhases
    BY <2>1 DEF Advance, NextIteration, AfterPhase, EndPhases
  <2>2. CASE LoadOrderLine /\ pc' = pc
    BY <2>2 DEF LoadOrderLine
  <2> QED
    BY <1>1, <2>1, <2>2 DEF Load, LoadTables, LoadWarehouse, LoadDistrict, LoadCustomer,
      LoadCustomerIndex, LoadHistory, LoadOrderIndex, LoadNewOrder, LoadOrderLine, LoadStock,
      LoadItem, GotoPut, EndPhases
<1>2. CASE NewOrderStep
  BY <1>2 DEF NewOrderStep, NewOrder, GenerateLocal, GenerateRemote, StartRun, TakeOrderId,
    InsertNewOrder, InsertOrder, InsertOrderIndex, UpdateStock, InsertOrderLine, EndTxn, Goto
<1>3. CASE PaymentStep \/ DeliveryStep
  BY <1>3 DEF PaymentStep, Payment, PayWarehouse, PayDistrict, PayCustomer, InsertHistory,
    DeliveryStep, Delivery, DeliverOrder, DeliverLine, DeliverCustomer, EndTxn, Goto
<1>4. CASE OrderStatus \/ StockLevel \/ Finish \/ Crash \/ Terminating
  BY <1>4 DEF OrderStatus, StockLevel, Finish, Crash, Terminating, EndTxn
<1> QED
  BY <1>1, <1>2, <1>3, <1>4 DEF Next, Step

LEMMA ToInsertIndex ==
  ASSUME IInv, [Next]_vars, pc' = "no_index"
  PROVE  InsertOrder \/ UNCHANGED vars
<1>1. CASE Load
  BY <1>1, LoadLabels DEF LoadPhases
<1>2. CASE NewOrderStep
  BY <1>2 DEF NewOrderStep, NewOrder, GenerateLocal, GenerateRemote, StartRun, TakeOrderId,
    InsertNewOrder, InsertOrder, InsertOrderIndex, UpdateStock, InsertOrderLine, EndTxn, Goto
<1>3. CASE PaymentStep \/ DeliveryStep
  BY <1>3 DEF PaymentStep, Payment, PayWarehouse, PayDistrict, PayCustomer, InsertHistory,
    DeliveryStep, Delivery, DeliverOrder, DeliverLine, DeliverCustomer, EndTxn, Goto
<1>4. CASE OrderStatus \/ StockLevel \/ Finish \/ Crash \/ Terminating
  BY <1>4 DEF OrderStatus, StockLevel, Finish, Crash, Terminating, EndTxn
<1> QED
  BY <1>1, <1>2, <1>3, <1>4 DEF Next, Step

(* Refused puts are only ever counted up.                                  *)
LEMMA LostGrows ==
  ASSUME IInv, [Next]_vars, lost' = 0
  PROVE  lost = 0
<1>1. lost \in Nat
  BY PoolAssumption DEF IInv, TypeOK
<1>2. ASSUME NEW k, NEW row, Put(k, row)
      PROVE  lost = 0
  BY <1>1, <1>2 DEF Put
<1>3. CASE UNCHANGED lost
  BY <1>3
<1>4. CASE NewOrderStep
  BY <1>2, <1>3, <1>4 DEF NewOrderStep, NewOrder, GenerateLocal, GenerateRemote, StartRun,
    TakeOrderId, InsertNewOrder, InsertOrder, InsertOrderIndex, UpdateStock, InsertOrderLine
<1>5. CASE PaymentStep
  BY <1>2, <1>3, <1>5 DEF PaymentStep, Payment, PayWarehouse, PayDistrict, PayCustomer,
    InsertHistory
<1>6. CASE DeliveryStep
  BY <1>2, <1>3, <1>6 DEF DeliveryStep, Delivery, DeliverOrder, DeliverLine, DeliverCustomer
<1>7. CASE OrderStatus \/ StockLevel \/ Finish \/ Crash \/ Terminating \/ UNCHANGED vars \/ Load
  BY <1>3, <1>7 DEF OrderStatus, StockLevel, Finish, Crash, Terminating, vars, Load
<1> QED
  BY <1>4, <1>5, <1>6, <1>7 DEF Next, Step
-----------------------------------------------------------------------------
(* An order is put before its index row, and no row is taken away.         *)
LEMMA LedStep ==
  ASSUME IndexApart, FitInv, Led, LoadLed, [Next]_vars
  PROVE  Led'
<1> USE DEF FitInv, OrderInv
<1> SUFFICES ASSUME lost' = 0
             PROVE  /\ \A w \in Warehouses, d \in Districts, c \in Customers, o \in OrderIds :
                         MakeOrderIndexKey(w, d, c, o) \in DOMAIN store' =>
                           MakeOrderKey(w, d, o) \in DOMAIN store'
                    /\ pc' = "no_index" => OrderKey' \in DOMAIN store'
  BY DEF Led
<1>1. lost = 0 /\ DOMAIN store \subseteq DOMAIN store'
  BY LostGrows, StoreGrows
<1>2. ASSUME pc' = "no_index"
      PROVE  OrderKey' \in DOMAIN store'
  <2>1. CASE InsertOrder
    <3>1. \E row : Put(OrderKey, row)
      BY <2>1 DEF InsertOrder
    <3>2. lost' = lost
      BY <1>1
    <3>3. OrderKey \in DOMAIN store'
      <4>1. PICK row : Put(OrderKey, row)
        BY <3>1
      <4> QED
        BY <1>1, <4>1 DEF Put, PutRecord
    <3>4. txn' = txn
      BY <2>1 DEF InsertOrder
    <3> QED
      BY <3>3, <3>4 DEF OrderKey
  <2>2. CASE UNCHANGED vars
    BY <1>1, <1>2, <2>2 DEF vars, Led, OrderKey
  <2> QED
    BY <1>2, <2>1, <2>2, ToInsertIndex
<1>3. ASSUME NEW w \in Warehouses, NEW d \in Districts, NEW c \in Customers, NEW o \in OrderIds,
             MakeOrderIndexKey(w, d, c, o) \in DOMAIN store'
      PROVE  MakeOrderKey(w, d, o) \in DOMAIN store'
  <2> DEFINE k == MakeOrderIndexKey(w, d, c, o)
  <2>1. k \in IndexKeys
    BY IndexKeysInRange
  <2>2. CASE k \in DOMAIN store
    BY <1>1, <2>2 DEF Led
  <2>3. ASSUME NEW v \in Warehouses, NEW e \in Districts, NEW b \in Customers,
               NEW p \in OrderIds, IndexPut(v, e, b, p), MakeOrderKey(v, e, p) \in DOMAIN store
        PROVE  MakeOrderKey(w, d, o) \in DOMAIN store'
    <3>1. CASE k = MakeOrderIndexKey(v, e, b, p)
      <4>1. w = v /\ d = e /\ o = p
        BY <3>1, IndexKeyUnique
      <4> QED
        BY <1>1, <2>3, <4>1
    <3>2. CASE k # MakeOrderIndexKey(v, e, b, p)
      <4> HIDE DEF k
      <4>1. k \in DOMAIN store
        BY <1>3, <2>3, <3>2 DEF IndexPut, PutRecord, k
      <4> QED
        BY <2>2, <4>1 DEF k
    <3> QED
      BY <3>1, <3>2
  <2>4. CASE LoadOrderIndex
    <3>1. MakeOrderKey(loop.w, loop.d, loop.n) \in DOMAIN store
      BY <2>4 DEF LoadOrderIndex, LoadLed
    <3> QED
      BY <2>3, <2>4, <3>1, LoadIndexPut
  <2>5. CASE InsertOrderIndex
    <3>1. MakeOrderKey(txn.w, txn.d, txn.o) \in DOMAIN store
      BY <1>1, <2>5, InsertIndexPut DEF Led, OrderKey
    <3> QED
      BY <2>3, <2>5, <3>1, InsertIndexPut
  <2>6. CASE ~LoadOrderIndex /\ ~InsertOrderIndex
    BY <1>3, <2>1, <2>2, <2>6, IndexFrame DEF RowsSame
  <2> QED
    BY <2>4, <2>5, <2>6
<1> QED
  BY <1>2, <1>3

LEMMA LoadLedStep ==
  ASSUME IInv, LoadLed, [Next]_vars
  PROVE  LoadLed'
<1> SUFFICES ASSUME pc' = "order_index"
             PROVE  MakeOrderKey(loop'.w, loop'.d, loop'.n) \in DOMAIN store'
  BY DEF LoadLed
<1>1. CASE LoadOrder
  BY <1>1 DEF LoadOrder, GotoPut, PutRecord
<1>2. CASE UNCHANGED vars
  BY <1>2 DEF vars, LoadLed
<1> QED
  BY <1>1, <1>2, ToOrderIndex

LEMMA IndexInvariant ==
  ASSUME IndexApart, IdsFit
  PROVE  Spec => []IndexInv
<1>1. Spec => []FitInv
  BY FitInvariant
<1>2. Init => IndexRows /\ Led /\ LoadLed
  BY DEF Init, IndexRows, Led, LoadLed
<1>3. FitInv /\ (IndexRows /\ Led /\ LoadLed) /\ [Next]_vars => (IndexRows /\ Led /\ LoadLed)'
  BY IndexRowsStep, LedStep, LoadLedStep DEF FitInv, OrderInv
<1>4. FitInv /\ (IndexRows /\ Led /\ LoadLed) => IndexInv
  BY DEF IndexInv
<1> QED
  BY <1>1, <1>2, <1>3, <1>4, PTL DEF Spec

(* The ids that orders get are above those of the loaded orders, and ids.  *)
LEMMA NewIds ==
  ASSUME IdsFit, NEW w \in Warehouses, NEW d \in Districts
  PROVE  /\ MakeDistrictKey(w, d) \in Items
         /\ FirstOrderId(w, d) \in Nat
         /\ NumCustomer < FirstOrderId(w, d)
         /\ FirstOrderId(w, d) + MaxTxn < Word \div 2
         /\ \A o \in FirstOrderId(w, d) .. FirstOrderId(w, d) + MaxTxn :
              o \in OrderIds /\ o \notin Customers
<1> DEFINE k == MakeDistrictKey(w, d)
           first == FirstOrderId(w, d)
           most == MaxTxn * (MaxCrash + 1)
           half == Word \div 2
<1>1. k \in Items
  <2>1. (NumWarehouse + 1) * NumDistrict <= NumItem
    BY DEF IdsFit
  <2>2. k \in Nat /\ 1 <= k /\ k <= (NumWarehouse + 1) * NumDistrict
    BY UpperIdRange, SizesAreInt
  <2> HIDE DEF k
  <2> QED
    BY <2>1, <2>2, SizesAreInt, SizeAssumption DEF Items
<1>2. first = ItemName[k]
  BY DEF FirstOrderId
<1>3. first \in Nat /\ NumCustomer < first /\ first + most < half
  BY <1>1, <1>2, LoadAssumption, CounterAssumption DEF IdsFit
<1>4. MaxTxn <= most /\ MaxTxn \in Nat /\ most \in Nat /\ half \in Nat
  BY BudgetOK, HalfWord, PoolAssumption
<1> HIDE DEF first, most, half
<1>5. first + MaxTxn < half
  BY <1>3, <1>4
<1>6. ASSUME NEW o \in first .. first + MaxTxn
      PROVE  o \in OrderIds /\ o \notin Customers
  <2>1. o \in Nat /\ o < half /\ NumCustomer < o
    BY <1>3, <1>4, <1>5, SizesAreInt
  <2> QED
    BY <2>1, HalfWord, SizesAreInt DEF half, Customers
<1> QED
  BY <1>1, <1>3, <1>5, <1>6 DEF first, half

(* As long as no put is refused an index row leads to an order, whatever   *)
(* the sizes of which no two tables share keys, through crashes at any     *)
(* point and reloads.                                                      *)
THEOREM NoDanglingIndexHolds ==
  ASSUME IndexApart, IdsFit
  PROVE  Spec => []NoDanglingIndex
<1>1. IndexInv => NoDanglingIndex
  BY NewIds, CustomersAreSmall DEF IndexInv, Led, NoDanglingIndex
<1> QED
  BY <1>1, IndexInvariant, PTL
-----------------------------------------------------------------------------
(* The steps between the labels that the numbering of orders tells apart.  *)
LEMMA NoCrash ==
  ASSUME IInv, [Next]_vars, crashes' = 0
  PROVE  crashes = 0 /\ ~Crash
<1>1. crashes \in Nat
  BY PoolAssumption DEF IInv, TypeOK
<1>2. CASE Crash
  BY <1>1, <1>2 DEF Crash
<1>3. CASE ~Crash
  BY <1>3, CountSteps
<1> QED
  BY <1>2, <1>3

LEMMA TxnMoves ==
  ASSUME IInv, [Next]_vars, ~Crash, pc \notin LoadPhases
  PROVE  /\ pc' \notin LoadPhases
         /\ \/ TakeOrderId
            \/ InsertOrderIndex
            \/ pc \in Unindexed /\ pc' \in Unindexed /\ txn' = txn
            \/ pc \notin Unindexed /\ pc' \notin Unindexed
<1>1. CASE Load
  BY <1>1, LoadLabels
<1>2. CASE NewOrderStep
  BY <1>2 DEF NewOrderStep, NewOrder, GenerateLocal, GenerateRemote, StartRun, TakeOrderId,
    InsertNewOrder, InsertOrder, InsertOrderIndex, UpdateStock, InsertOrderLine, EndTxn, Goto,
    Idle, LoadPhases, Unindexed
<1>3. CASE PaymentStep
  BY <1>3 DEF PaymentStep, Payment, PayWarehouse, PayDistrict, PayCustomer, InsertHistory,
    EndTxn, Goto, Idle, LoadPhases, Unindexed
<1>4. CASE DeliveryStep
  BY <1>4 DEF DeliveryStep, Delivery, DeliverOrder, DeliverLine, DeliverCustomer, EndTxn, Goto,
    Idle, LoadPhases, Unindexed
<1>5. CASE OrderStatus \/ StockLevel \/ Finish \/ Terminating
  BY <1>5 DEF OrderStatus, StockLevel, Finish, Terminating, EndTxn, Idle, LoadPhases, Unindexed,
    vars
<1>6. CASE UNCHANGED vars
  BY <1>6 DEF vars
<1> QED
  BY <1>1, <1>2, <1>3, <1>4, <1>5, <1>6 DEF Next, Step

LEMMA LoadMoves ==
  ASSUME IInv, [Next]_vars, ~Crash, pc \in LoadPhases
  PROVE  /\ UNCHANGED vars \/ Load
         /\ pc' \in LoadPhases \/ (LoadStock /\ pc = "stock_again" /\ pc' = "idle")
<1>1. UNCHANGED vars \/ Load
  BY DEF Next, Step, NewOrderStep, NewOrder, GenerateLocal, GenerateRemote, StartRun,
    TakeOrderId, InsertNewOrder, InsertOrder, InsertOrderIndex, UpdateStock, InsertOrderLine,
    PaymentStep, Payment, PayWarehouse, PayDistrict, PayCustomer, InsertHistory,
    DeliveryStep, Delivery, DeliverOrder, DeliverLine, DeliverCustomer,
    OrderStatus, StockLevel, Finish, Terminating, Idle, LoadPhases
<1>2. CASE UNCHANGED vars
  BY <1>2 DEF vars
<1>3. CASE Load
  <2>1. CASE pc \in EndPhases /\ Advance
    <3>1. loop \in LoopType /\ LoopOK
      BY DEF IInv, TypeOK, LoopType
    <3>2. pc' \in LoadPhases \/ pc' = "idle"
      BY <2>1, <3>1, AdvanceOK
    <3>3. pc' = "idle" => pc = "stock_again"
      BY <2>1 DEF Advance, NextIteration, AfterPhase, EndPhases
    <3>4. pc = "stock_again" => LoadStock
      BY <1>3 DEF Load, LoadTables, LoadWarehouse, LoadDistrict, LoadCustomer,
        LoadCustomerIndex, LoadHistory, LoadOrder, LoadOrderIndex, LoadNewOrder,
        LoadOrderLine, LoadItem
    <3> QED
      BY <1>3, <3>2, <3>3, <3>4
  <2>2. CASE pc' = pc
    BY <1>3, <2>2
  <2>3. CASE LoadCustomer \/ LoadCustomerIndex \/ LoadOrder \/ LoadOrderIndex \/ LoadNewOrder
    BY <1>3, <2>3 DEF LoadCustomer, LoadCustomerIndex, LoadOrder, LoadOrderIndex, LoadNewOrder,
      GotoPut, LoadPhases
  <2> QED
    BY <1>3, <2>1, <2>2, <2>3 DEF Load, LoadTables, LoadWarehouse, LoadDistrict, LoadHistory,
      LoadOrderLine, LoadStock, LoadItem, EndPhases
<1> QED
  BY <1>1, <1>2, <1>3

(* Outside the load a counter only ever goes up, and only by TakeOrderId.  *)
LEMMA CounterMoves ==
  ASSUME IInv, [Next]_vars, ~Crash, pc \notin LoadPhases
  PROVE  /\ DistrictKeys \subseteq DOMAIN store
         /\ \A k \in DistrictKeys : /\ store[k].at8 \in Nat /\ store'[k].at8 \in Nat
                                    /\ store[k].at8 <= store'[k].at8
                                    /\ ~TakeOrderId => store'[k].at8 = store[k].at8
<1>1. DistrictKeys \subseteq DOMAIN store /\ StoreOK(store) /\ StoreOK(store')
  BY NextOK DEF IInv, Loaded, LoadPhases
<1>2. \A k \in DistrictKeys : store[k].at8 \in Nat
  BY <1>1 DEF StoreOK
<1>3. CASE CountersSame
  BY <1>1, <1>2, <1>3 DEF CountersSame
<1>4. CASE TakeOrderId
  <2> DEFINE x == MakeDistrictKey(txn.w, txn.d)
  <2>1. /\ x \in DistrictKeys /\ \E row \in Row : Put(x, row) /\ row.at8 = store[x].at8 + 1
    BY <1>4, TakeStep
  <2> HIDE DEF x
  <2>2. PICK row \in Row : Put(x, row) /\ row.at8 = store[x].at8 + 1
    BY <2>1
  <2>3. ASSUME NEW k \in DistrictKeys
        PROVE  store'[k].at8 = store[k].at8 \/ store'[k].at8 = store[k].at8 + 1
    BY <1>1, <2>1, <2>2, <2>3, PutRow
  <2> QED
    BY <1>1, <1>2, <1>4, <2>3
<1> QED
  BY <1>3, <1>4, CountersMove, LoadLabels

(* Loading the items gives every counter the name of its item, as district *)
(* keys are item ids, and what follows only counts up from there.          *)
LEMMA NamedStep ==
  ASSUME IdsFit, IInv, Named, [Next]_vars
  PROVE  Named'
<1> SUFFICES ASSUME crashes' = 0
             PROVE  /\ pc' = "item" => \A k \in DistrictKeys :
                                         k < loop'.n => store'[k].at8 = ItemName[k]
                    /\ pc' = "stock_again" => \A k \in DistrictKeys :
                                                store'[k].at8 = ItemName[k]
                    /\ pc' \notin LoadPhases => \A k \in DistrictKeys :
                                                  ItemName[k] <= store'[k].at8
  BY DEF Named
<1>1. crashes = 0 /\ ~Crash
  BY NoCrash
<1>2. \A k \in DistrictKeys : k \in Items /\ k \in Nat /\ ItemName[k] \in Nat
  BY NewIds, LoadAssumption DEF DistrictKeys, Items
<1>3. CASE pc \notin LoadPhases
  <2>1. pc' \notin LoadPhases
    BY <1>1, <1>3, TxnMoves
  <2>2. \A k \in DistrictKeys : /\ store[k].at8 \in Nat /\ store'[k].at8 \in Nat
                                /\ store[k].at8 <= store'[k].at8 /\ ItemName[k] <= store[k].at8
    BY <1>1, <1>3, CounterMoves DEF Named
  <2>3. \A k \in DistrictKeys : ItemName[k] <= store'[k].at8
    BY <1>2, <2>2
  <2> QED
    BY <2>1, <2>3 DEF LoadPhases
<1>4. CASE UNCHANGED vars
  BY <1>1, <1>4 DEF Named, vars
<1>5. CASE Load /\ pc \in LoadPhases
  <2>1. loop \in LoopType /\ LoopOK
    BY DEF IInv, TypeOK, LoopType
  <2>2. CASE LoadItem
    <3>1. PICK x \in 1 .. NumStock, row \in Row :
            /\ store' = PutRecord(store, x, row)
            /\ loop.n \in Items /\ x = loop.n /\ row.at8 = ItemName[loop.n]
      BY <2>2, LoadLowRow DEF LoadLow
    <3>2. pc = "item" /\ Advance
      BY <2>2 DEF LoadItem
    <3>3. DistrictKeys \subseteq DOMAIN store
      BY <3>2 DEF IInv, Loaded
    <3>4. \A k \in DistrictKeys :
            (k < loop.n \/ k = loop.n) => store'[k].at8 = ItemName[k]
      BY <1>1, <3>1, <3>2, <3>3 DEF PutRecord, Named
    <3>5. \/ pc' = "item" /\ loop'.n = loop.n + 1
          \/ pc' = "stock_again" /\ loop.n = NumItem
      <4>1. LastRow(pc) = [w |-> 1, d |-> 1, n |-> NumItem, l |-> 1]
        BY <3>2 DEF LastRow
      <4>2. loop.d \in Nat /\ loop.d >= 1 /\ loop.w \in Nat /\ loop.w >= 1
        BY <2>1 DEF LoopType, Warehouses, Districts
      <4>3. ~(loop.d < LastRow(pc).d) /\ ~(loop.w < LastRow(pc).w)
        BY <4>1, <4>2
      <4>4. NextIteration(pc) = "item" /\ AfterPhase(pc) = "stock_again"
        BY <3>2 DEF NextIteration, AfterPhase
      <4>5. \/ loop' = [loop EXCEPT !.n = @ + 1, !.l = 1] /\ pc' = "item"
            \/ loop.n = NumItem /\ pc' = "stock_again"
        BY <3>2, <4>1, <4>3, <4>4 DEF Advance
      <4> QED
        BY <2>1, <4>5 DEF LoopType
    <3>6. CASE pc' = "item" /\ loop'.n = loop.n + 1
      <4>1. \A k \in DistrictKeys : k < loop'.n => k < loop.n \/ k = loop.n
        BY <1>2, <3>1, <3>6 DEF Items
      <4> QED
        BY <3>4, <3>6, <4>1 DEF LoadPhases
    <3>7. CASE pc' = "stock_again" /\ loop.n = NumItem
      <4>1. \A k \in DistrictKeys : k < loop.n \/ k = loop.n
        BY <1>2, <3>1, <3>7 DEF Items
      <4> QED
        BY <3>4, <3>7, <4>1 DEF LoadPhases
    <3> QED
      BY <3>5, <3>6, <3>7
  <2>3. CASE LoadStock /\ pc = "stock_again"
    <3>1. ~LoadLow /\ ~TakeOrderId
      BY <2>3 DEF LoadLow, LoadWarehouse, LoadDistrict, LoadItem, TakeOrderId
    <3>2. CountersSame
      BY <3>1, CountersMove
    <3>3. DistrictKeys \subseteq DOMAIN store
      BY <2>3 DEF IInv, Loaded
    <3>4. \A k \in DistrictKeys : store'[k].at8 = ItemName[k]
      BY <1>1, <2>3, <3>2, <3>3 DEF CountersSame, Named
    <3>5. pc' # "item"
      BY <2>3 DEF LoadStock, Advance, NextIteration, AfterPhase
    <3> QED
      BY <1>2, <3>4, <3>5
  <2>4. CASE LoadStock /\ pc = "stock"
    <3>1. pc' = "stock" \/ (pc' = "item" /\ loop' = FirstRow)
      BY <2>4 DEF LoadStock, Advance, NextIteration, AfterPhase
    <3>2. \A k \in DistrictKeys : ~(k < FirstRow.n)
      BY <1>2 DEF FirstRow, Items
    <3> QED
      BY <3>1, <3>2 DEF LoadPhases
  <2>5. CASE ~LoadItem /\ ~LoadStock
    <3>1. pc' \in LoadPhases
      BY <1>1, <1>5, <2>5, LoadMoves
    <3>2. pc' # "item" /\ pc' # "stock_again"
      <4>1. pc \notin {"stock", "item", "stock_again"}
        BY <1>5, <2>5 DEF Load, LoadTables, LoadWarehouse, LoadDistrict, LoadCustomer,
          LoadCustomerIndex, LoadHistory, LoadOrder, LoadOrderIndex, LoadNewOrder, LoadOrderLine
      <4>2. CASE pc \in EndPhases /\ Advance
        BY <4>1, <4>2 DEF Advance, NextIteration, AfterPhase, EndPhases
      <4>3. CASE pc' = pc
        BY <4>1, <4>3
      <4>4. CASE LoadCustomer \/ LoadCustomerIndex \/ LoadOrder \/ LoadOrderIndex \/ LoadNewOrder
        BY <4>4 DEF LoadCustomer, LoadCustomerIndex, LoadOrder, LoadOrderIndex, LoadNewOrder,
          GotoPut
      <4> QED
        BY <1>5, <2>5, <4>2, <4>3, <4>4 DEF Load, LoadTables, LoadWarehouse, LoadDistrict,
          LoadHistory, LoadOrderLine, EndPhases
    <3> QED
      BY <3>1, <3>2
  <2>6. LoadStock => pc = "stock" \/ pc = "stock_again"
    BY DEF LoadStock
  <2> QED
    BY <2>2, <2>3, <2>4, <2>5, <2>6
<1> QED
  BY <1>1, <1>3, <1>4, <1>5, LoadMoves

(* The order under way is the last one counted, until it is indexed.       *)
LEMMA LatestStep ==
  ASSUME FitInv, Named, Latest, [Next]_vars
  PROVE  Latest'
<1> USE DEF FitInv, OrderInv
<1> SUFFICES ASSUME crashes' = 0, lost' = 0, pc' \in Unindexed
             PROVE  /\ FirstOrderId(txn'.w, txn'.d) <= txn'.o
                    /\ txn'.o + 1 = store'[MakeDistrictKey(txn'.w, txn'.d)].at8
  BY DEF Latest, NextOrderId, FirstOrderId
<1>1. crashes = 0 /\ lost = 0 /\ ~Crash
  BY NoCrash, LostGrows
<1>2. pc \notin LoadPhases
  BY <1>1, LoadMoves DEF LoadPhases, Unindexed, LoadStock, vars
<1>3. CASE TakeOrderId
  <2> DEFINE k == MakeDistrictKey(txn.w, txn.d)
             o == store[k].at8
  <2>1. /\ k \in DistrictKeys /\ o \in Nat /\ txn \in Txn
        /\ txn' = [txn EXCEPT !.o = o]
        /\ \E row \in Row : Put(k, row) /\ row.at8 = o + 1
    BY <1>3, TakeStep
  <2>2. txn'.w = txn.w /\ txn'.d = txn.d /\ txn'.o = o
    BY <2>1 DEF Txn
  <2>3. ItemName[k] <= o
    BY <1>1, <1>2, <2>1 DEF Named
  <2>4. PICK row \in Row : Put(k, row) /\ row.at8 = o + 1
    BY <2>1
  <2>5. store'[k].at8 = o + 1
    <3>1. lost \in Nat /\ lost' # lost + 1
      BY <1>1
    <3> HIDE DEF k
    <3> QED
      BY <2>4, <3>1, PutRow
  <2> QED
    BY <2>2, <2>3, <2>5 DEF FirstOrderId
<1>4. CASE ~TakeOrderId
  <2>1. pc \in Unindexed /\ txn' = txn
    <3>1. ~InsertOrderIndex
      BY DEF InsertOrderIndex, Goto, Unindexed
    <3> QED
      BY <1>1, <1>2, <1>4, <3>1, TxnMoves
  <2>2. MakeDistrictKey(txn.w, txn.d) \in DistrictKeys
    <3>1. pc \in TxnLabels
      BY <2>1 DEF Unindexed, TxnLabels
    <3> QED
      BY <3>1, InTxn DEF DistrictKeys
  <2>3. store'[MakeDistrictKey(txn.w, txn.d)].at8 = store[MakeDistrictKey(txn.w, txn.d)].at8
    BY <1>1, <1>2, <1>4, <2>2, CounterMoves
  <2> QED
    BY <1>1, <2>1, <2>3 DEF Latest, NextOrderId
<1> QED
  BY <1>3, <1>4

(* A step that puts no index row with the id changes nothing about it; one *)
(* that does adds its customer.                                            *)
LEMMA IndexedSame ==
  ASSUME NEW w \in Warehouses, NEW d \in Districts, NEW o \in OrderIds, RowsSame(IndexKeys)
  PROVE  IndexedUnder(w, d, o)' = IndexedUnder(w, d, o)
BY IndexKeysInRange DEF IndexedUnder, RowsSame

LEMMA IndexedMore ==
  ASSUME NEW w \in Warehouses, NEW d \in Districts, NEW o \in OrderIds,
         NEW v \in Warehouses, NEW e \in Districts, NEW b \in Customers, NEW p \in OrderIds,
         IndexPut(v, e, b, p)
  PROVE  /\ w # v \/ d # e \/ o # p => IndexedUnder(w, d, o)' = IndexedUnder(w, d, o)
         /\ store' = PutRecord(store, MakeOrderIndexKey(v, e, b, p),
                               IndexRow(MakeOrderKey(v, e, p))) =>
              IndexedUnder(v, e, p)' = IndexedUnder(v, e, p) \cup {b}
<1>1. ASSUME w # v \/ d # e \/ o # p
      PROVE  IndexedUnder(w, d, o)' = IndexedUnder(w, d, o)
  <2>1. ASSUME NEW c \in Customers
        PROVE  MakeOrderIndexKey(w, d, c, o) # MakeOrderIndexKey(v, e, b, p)
    BY <1>1, IndexKeyUnique
  <2> QED
    BY <2>1 DEF IndexedUnder, IndexPut, PutRecord
<1>2. ASSUME store' = PutRecord(store, MakeOrderIndexKey(v, e, b, p),
                                IndexRow(MakeOrderKey(v, e, p)))
      PROVE  IndexedUnder(v, e, p)' = IndexedUnder(v, e, p) \cup {b}
  <2>1. ASSUME NEW c \in Customers
        PROVE  MakeOrderIndexKey(v, e, c, p) = MakeOrderIndexKey(v, e, b, p) <=> c = b
    BY IndexKeyUnique
  <2> QED
    BY <1>2, <2>1 DEF IndexedUnder, PutRecord
<1> QED
  BY <1>1, <1>2

(* Outside the load the ids that are indexed stay the same, but for the    *)
(* one whose index row is put.                                             *)
LEMMA IndexedMoves ==
  ASSUME IInv, [Next]_vars, ~Crash, lost' = 0, pc \notin LoadPhases,
         NEW w \in Warehouses, NEW d \in Districts, NEW o \in OrderIds,
         InsertOrderIndex => ~(w = txn.w /\ d = txn.d /\ o = txn.o)
  PROVE  Indexed(w, d, o)' <=> Indexed(w, d, o)
<1> DEFINE k == MakeDistrictKey(w, d)
<1>1. pc' \notin LoadPhases /\ k \in DistrictKeys /\ lost = 0 /\ o \in Nat
  BY TxnMoves, LostGrows, HalfWord DEF DistrictKeys
<1>2. store[k].at8 \in Nat /\ (~TakeOrderId => store'[k].at8 = store[k].at8)
  BY <1>1, CounterMoves
<1>3. /\ NextOrderId(w, d) = store[k].at8 /\ NextOrderId(w, d)' = store'[k].at8
      /\ FirstOrderId(w, d)' = FirstOrderId(w, d)
  BY DEF NextOrderId, FirstOrderId
<1>4. CASE TakeOrderId
  <2> DEFINE x == MakeDistrictKey(txn.w, txn.d)
             id == store[x].at8
  <2>1. /\ pc = "no_district" /\ pc' = "no_new_order" /\ txn \in Txn
        /\ txn.w \in Warehouses /\ txn.d \in Districts
        /\ x \in DistrictKeys /\ id \in Nat /\ txn' = [txn EXCEPT !.o = id]
        /\ \E row \in Row : Put(x, row) /\ row.at8 = id + 1
    BY <1>4, TakeStep
  <2>2. txn'.w = txn.w /\ txn'.d = txn.d /\ txn'.o = id
    BY <2>1 DEF Txn
  <2>3. PICK row \in Row : Put(x, row) /\ row.at8 = id + 1
    BY <2>1
  <2>4. DOMAIN store' = DOMAIN store \cup {x} /\ store'[x] = row
        /\ \A y \in DOMAIN store \ {x} : store'[y] = store[y]
    <3>1. lost' # lost + 1
      BY <1>1
    <3> HIDE DEF x
    <3> QED
      BY <2>3, <3>1, PutRow
  <2>5. CASE w = txn.w /\ d = txn.d
    <3>1. k = x /\ store[k].at8 = id /\ store'[k].at8 = id + 1
      BY <2>3, <2>4, <2>5
    <3>2. Indexed(w, d, o) <=> FirstOrderId(w, d) <= o /\ o < id
      BY <1>1, <1>3, <2>1, <3>1 DEF Indexed, Unindexed, LoadPhases
    <3>3. Indexed(w, d, o)' <=> FirstOrderId(w, d) <= o /\ o < id + 1 /\ o # id
      BY <1>1, <1>3, <2>1, <2>2, <2>5, <3>1 DEF Indexed, Unindexed
    <3> HIDE DEF id
    <3>4. o < id <=> o < id + 1 /\ o # id
      BY <1>1, <2>1
    <3> QED
      BY <3>2, <3>3, <3>4
  <2>6. CASE w # txn.w \/ d # txn.d
    <3>1. k # x
      BY <2>1, <2>6, DistrictKeyUnique
    <3>2. k \in DOMAIN store
      BY <1>1, CounterMoves
    <3>3. store'[k].at8 = store[k].at8
      BY <2>4, <3>1, <3>2
    <3> QED
      BY <1>1, <1>3, <2>1, <2>2, <2>6, <3>3 DEF Indexed, Unindexed
  <2> QED
    BY <2>5, <2>6
<1>5. CASE InsertOrderIndex
  <2>1. pc = "no_index" /\ pc' = "no_stock" /\ ~TakeOrderId
    BY <1>5 DEF InsertOrderIndex, TakeOrderId, Goto
  <2> QED
    BY <1>1, <1>2, <1>3, <1>5, <2>1 DEF Indexed, Unindexed
<1>6. CASE ~TakeOrderId /\ ~InsertOrderIndex
  BY <1>1, <1>2, <1>3, <1>6, TxnMoves DEF Indexed
<1> QED
  BY <1>4, <1>5, <1>6

LEMMA DenseStep ==
  ASSUME IndexApart, IdsFit, FitInv, Named, Latest, Dense, [Next]_vars
  PROVE  Dense'
<1> USE DEF FitInv, OrderInv
<1> SUFFICES ASSUME crashes' = 0, lost' = 0,
                    NEW w \in Warehouses, NEW d \in Districts, NEW o \in OrderIds \ Customers
             PROVE  IF Indexed(w, d, o)' THEN \E c \in Customers : IndexedUnder(w, d, o)' = {c}
                    ELSE IndexedUnder(w, d, o)' = {}
  BY DEF Dense
<1>1. crashes = 0 /\ lost = 0 /\ ~Crash
  BY NoCrash, LostGrows
<1>2. IF Indexed(w, d, o) THEN \E c \in Customers : IndexedUnder(w, d, o) = {c}
      ELSE IndexedUnder(w, d, o) = {}
  BY <1>1 DEF Dense
<1>3. CASE /\ IndexedUnder(w, d, o)' = IndexedUnder(w, d, o)
           /\ Indexed(w, d, o)' <=> Indexed(w, d, o)
  BY <1>2, <1>3
<1>4. CASE pc \in LoadPhases
  <2>1. ~Indexed(w, d, o)
    BY <1>4 DEF Indexed
  <2>2. ~Indexed(w, d, o)'
    <3>1. CASE pc' \in LoadPhases
      BY <3>1 DEF Indexed
    <3>2. CASE LoadStock /\ pc = "stock_again" /\ pc' = "idle"
      <4> DEFINE k == MakeDistrictKey(w, d)
      <4>1. k \in DistrictKeys /\ DistrictKeys \subseteq DOMAIN store
        BY <3>2 DEF DistrictKeys, IInv, Loaded
      <4>2. ~LoadLow /\ ~TakeOrderId
        BY <3>2 DEF LoadLow, LoadWarehouse, LoadDistrict, LoadItem, TakeOrderId
      <4>3. store'[k].at8 = ItemName[k]
        BY <1>1, <3>2, <4>1, <4>2, CountersMove DEF CountersSame, Named
      <4>4. ItemName[k] \in Nat /\ o \in Nat
        BY NewIds, LoadAssumption, HalfWord DEF FirstOrderId
      <4>5. ~(ItemName[k] <= o /\ o < ItemName[k])
        BY <4>4
      <4> QED
        BY <4>3, <4>5 DEF Indexed, FirstOrderId, NextOrderId
    <3> QED
      BY <1>1, <1>4, <3>1, <3>2, LoadMoves
  <2>3. IndexedUnder(w, d, o)' = IndexedUnder(w, d, o)
    <3>1. CASE LoadOrderIndex
      BY <3>1, LoadIndexPut, IndexedMore
    <3>2. CASE ~LoadOrderIndex /\ ~InsertOrderIndex
      BY <3>2, IndexFrame, IndexedSame
    <3>3. ~InsertOrderIndex
      BY <1>4 DEF InsertOrderIndex, LoadPhases
    <3> QED
      BY <3>1, <3>2, <3>3
  <2> QED
    BY <1>3, <2>1, <2>2, <2>3
<1>5. CASE pc \notin LoadPhases /\ InsertOrderIndex
  <2>1. /\ pc = "no_index" /\ pc' = "no_stock" /\ txn \in Txn
        /\ txn.w \in Warehouses /\ txn.d \in Districts /\ txn.c \in Customers
        /\ txn.o \in OrderIds
        /\ IndexPut(txn.w, txn.d, txn.c, txn.o)
        /\ store' = PutRecord(store, MakeOrderIndexKey(txn.w, txn.d, txn.c, txn.o),
                              IndexRow(MakeOrderKey(txn.w, txn.d, txn.o)))
    BY <1>1, <1>5, InsertIndexPut DEF OrderKey
  <2>2. CASE w = txn.w /\ d = txn.d /\ o = txn.o
    <3>1. ~Indexed(w, d, o)
      BY <2>1, <2>2 DEF Indexed, Unindexed
    <3>2. IndexedUnder(w, d, o)' = {txn.c}
      BY <1>2, <2>1, <2>2, <3>1, IndexedMore
    <3>3. Indexed(w, d, o)'
      <4> DEFINE k == MakeDistrictKey(w, d)
      <4>1. FirstOrderId(w, d) <= o /\ o + 1 = store[k].at8
        BY <1>1, <2>1, <2>2 DEF Latest, NextOrderId, Unindexed
      <4>2. k \in DistrictKeys /\ ~TakeOrderId
        BY <2>1 DEF DistrictKeys, TakeOrderId
      <4>3. store'[k].at8 = store[k].at8 /\ o \in Nat
        BY <1>1, <1>5, <4>2, CounterMoves, HalfWord
      <4>4. o < store'[k].at8
        BY <4>1, <4>3
      <4> QED
        BY <2>1, <4>1, <4>4 DEF Indexed, FirstOrderId, NextOrderId, LoadPhases, Unindexed
    <3> QED
      BY <2>1, <3>2, <3>3
  <2>3. CASE ~(w = txn.w /\ d = txn.d /\ o = txn.o)
    <3>1. IndexedUnder(w, d, o)' = IndexedUnder(w, d, o)
      BY <2>1, <2>3, IndexedMore
    <3>2. Indexed(w, d, o)' <=> Indexed(w, d, o)
      BY <1>1, <1>5, <2>3, IndexedMoves
    <3> QED
      BY <1>3, <3>1, <3>2
  <2> QED
    BY <2>2, <2>3
<1>6. CASE pc \notin LoadPhases /\ ~InsertOrderIndex
  <2>1. ~LoadOrderIndex
    BY <1>6 DEF LoadOrderIndex, LoadPhases
  <2>2. IndexedUnder(w, d, o)' = IndexedUnder(w, d, o)
    BY <1>6, <2>1, IndexFrame, IndexedSame
  <2>3. Indexed(w, d, o)' <=> Indexed(w, d, o)
    BY <1>1, <1>6, IndexedMoves
  <2> QED
    BY <1>3, <2>2, <2>3
<1> QED
  BY <1>4, <1>5, <1>6

LEMMA DenseInvariant ==
  ASSUME IndexApart, IdsFit
  PROVE  Spec => []DenseInv
<1>1. Spec => []IndexInv
  BY IndexInvariant
<1>2. Init => Named /\ Latest /\ Dense
  BY DEF Init, Named, Latest, Dense, Indexed, IndexedUnder, LoadPhases, Unindexed
<1>3. IndexInv /\ (Named /\ Latest /\ Dense) /\ [Next]_vars => (Named /\ Latest /\ Dense)'
  BY NamedStep, LatestStep, DenseStep DEF IndexInv, FitInv, OrderInv
<1>4. IndexInv /\ (Named /\ Latest /\ Dense) => DenseInv
  BY DEF DenseInv
<1> QED
  BY <1>1, <1>2, <1>3, <1>4, PTL DEF Spec

(* The two words of an index row are the key.                              *)
LEMMA KeyHalves ==
  ASSUME NEW k \in Int
  PROVE  IndexRow(k).at0 + IndexRow(k).at4 * Word = k
<1>1. Word \in Nat /\ Word > 0
  BY SizesAreInt
<1>2. IndexRow(k).at0 = k % Word /\ IndexRow(k).at4 = k \div Word
  BY DEF IndexRow, MakeRow
<1>3. (k % Word) + (k \div Word) * Word = k
  BY <1>1
<1> QED
  BY <1>2, <1>3

(* The order ids of a district are handed out once each and without a gap, *)
(* whatever the sizes of which no two tables share keys: as long as no put *)
(* was refused and nothing crashed, every id below d_next_o_id is indexed  *)
(* under one customer, by a row that leads to the order.                   *)
THEOREM OrderIdsDenseHolds ==
  ASSUME IndexApart, IdsFit
  PROVE  Spec => []OrderIdsDense
<1>1. ASSUME DenseInv, crashes = 0, lost = 0, pc \notin LoadPhases,
             NEW w \in Warehouses, NEW d \in Districts,
             NEW o \in FirstOrderId(w, d) .. FirstOrderId(w, d) + MaxTxn
      PROVE  LET underway == /\ pc \in {"no_new_order", "no_order", "no_index"}
                             /\ <<w, d, o>> = <<txn.w, txn.d, txn.o>>
             IN IF o < NextOrderId(w, d) /\ ~underway
                THEN \E c \in Customers :
                       /\ IndexedUnder(w, d, o) = {c}
                       /\ LET row == store[MakeOrderIndexKey(w, d, c, o)] IN
                          row.at0 + row.at4 * Word = MakeOrderKey(w, d, o)
                ELSE IndexedUnder(w, d, o) = {}
  <2>1. o \in OrderIds \ Customers /\ FirstOrderId(w, d) <= o
    BY NewIds, PoolAssumption
  <2>2. Indexed(w, d, o) <=>
          /\ o < NextOrderId(w, d)
          /\ ~(/\ pc \in {"no_new_order", "no_order", "no_index"}
               /\ <<w, d, o>> = <<txn.w, txn.d, txn.o>>)
    BY <1>1, <2>1 DEF Indexed, Unindexed
  <2>3. IF Indexed(w, d, o) THEN \E c \in Customers : IndexedUnder(w, d, o) = {c}
        ELSE IndexedUnder(w, d, o) = {}
    BY <1>1, <2>1 DEF DenseInv, Dense
  <2>4. ASSUME NEW c \in Customers, IndexedUnder(w, d, o) = {c}
        PROVE  LET row == store[MakeOrderIndexKey(w, d, c, o)] IN
               row.at0 + row.at4 * Word = MakeOrderKey(w, d, o)
    <3>1. MakeOrderIndexKey(w, d, c, o) \in DOMAIN store
      BY <2>4 DEF IndexedUnder
    <3>2. store[MakeOrderIndexKey(w, d, c, o)] = IndexRow(MakeOrderKey(w, d, o))
      BY <1>1, <2>1, <3>1 DEF DenseInv, IndexInv, IndexRows
    <3>3. MakeOrderKey(w, d, o) \in Int
      BY <2>1, OrderKeysNotFlat, HalfWord
    <3> QED
      BY <3>2, <3>3, KeyHalves
  <2> QED
    BY <2>2, <2>3, <2>4
<1>2. DenseInv => OrderIdsDense
  BY <1>1 DEF OrderIdsDense
<1> QED
  BY <1>2, DenseInvariant, PTL
-----------------------------------------------------------------------------
(* What LoadTables gives back.  The rows of one loaded order:              *)
OrderRow(w, d, c) ==
  LET k == MakeOrderKey(w, d, c) IN
  /\ k \in DOMAIN store
  /\ IF Delivered(c) THEN store[k] = LoadedOrder(w, d, c, Carrier)
     ELSE store[k].type = "new_order"
LineRow(w, d, c, l) ==
  LET k == MakeOrderLineKey(w, d, c, l) IN
  /\ k \in DOMAIN store
  /\ store[k].type = "order_line"
  /\ store[k].at0 = LineItem[<<w, d, c, l>>] /\ store[k].at4 = w
  /\ store[k].at8 = 5
HasIndex(w, d, c) == MakeOrderIndexKey(w, d, OrderCustomer[<<w, d>>][c], c) \in DOMAIN store
Whole(w, d, c) ==
  /\ OrderRow(w, d, c)
  /\ HasIndex(w, d, c)
  /\ \A l \in 1 .. OrderLines[<<w, d, c>>] : LineRow(w, d, c, l)

(* The orders that the loops are past, and what is there of the one they   *)
(* are at.                                                                 *)
OrderLoop == {"order", "order_index", "new_order", "order_line"}
StockPhases == {"stock", "item", "stock_again"}
Earlier(w, d, c) ==
  \/ w < loop.w
  \/ w = loop.w /\ d < loop.d
  \/ w = loop.w /\ d = loop.d /\ c < loop.n
OrdersBack ==
  \A w \in Warehouses, d \in Districts, c \in Customers :
    pc \in StockPhases \/ (pc \in OrderLoop /\ Earlier(w, d, c)) => Whole(w, d, c)
OrderBegun ==
  LET k == MakeOrderKey(loop.w, loop.d, loop.n) IN
  /\ pc = "order_index" =>
       /\ k \in DOMAIN store
       /\ Delivered(loop.n) => store[k] = LoadedOrder(loop.w, loop.d, loop.n, Carrier)
  /\ pc = "new_order" => ~Delivered(loop.n) /\ HasIndex(loop.w, loop.d, loop.n)
  /\ pc = "order_line" =>
       /\ OrderRow(loop.w, loop.d, loop.n)
       /\ HasIndex(loop.w, loop.d, loop.n)
       /\ \A l \in 1 .. loop.l - 1 : LineRow(loop.w, loop.d, loop.n, l)

(* The items that the loop is past.                                        *)
ItemRow(i) ==
  /\ ItemKey(i) \in DOMAIN store
  /\ store[ItemKey(i)].type = "item"
  /\ store[ItemKey(i)].at8 = ItemName[i]
ItemsBack ==
  \A i \in Items : pc = "stock_again" \/ (pc = "item" /\ i < loop.n) => ItemRow(i)

ReloadInv == IndexInv /\ RefineInv /\ OrdersBack /\ OrderBegun /\ ItemsBack
-----------------------------------------------------------------------------
(* The keys of a loaded order's rows: no other loaded order has one of     *)
(* them, and no index row or row of a low key or of stock has.             *)
OrderRowKeys(w, d, c) ==
  {MakeOrderKey(w, d, c)} \cup {MakeOrderLineKey(w, d, c, l) : l \in 1 .. OrderLines[<<w, d, c>>]}

LEMMA LoadedLines ==
  ASSUME NEW w \in Warehouses, NEW d \in Districts, NEW c \in Customers,
         NEW l \in 1 .. OrderLines[<<w, d, c>>]
  PROVE  l \in 1 .. MaxOlCnt /\ l \in Nat
<1>1. OrderLines[<<w, d, c>>] \in MinOlCnt .. MaxOlCnt
  BY LoadedOrderType
<1> HIDE DEF MakeOrderLineKey
<1> QED
  BY <1>1, SizeAssumption

LEMMA OrderKeyApart ==
  ASSUME LinesApart,
         NEW w \in Warehouses, NEW d \in Districts, NEW c \in Customers,
         NEW v \in Warehouses, NEW e \in Districts, NEW b \in Customers,
         ~(w = v /\ d = e /\ c = b)
  PROVE  MakeOrderKey(w, d, c) \notin OrderRowKeys(v, e, b)
<1>1. MakeOrderKey(w, d, c) # MakeOrderKey(v, e, b)
  BY HalvesUnique, CustomersAreSmall
<1>2. \A l \in 1 .. OrderLines[<<v, e, b>>] : MakeOrderLineKey(v, e, b, l) # MakeOrderKey(w, d, c)
  BY LoadedLines DEF LinesApart
<1> QED
  BY <1>1, <1>2 DEF OrderRowKeys

LEMMA LineKeyApart ==
  ASSUME LinesApart, NEW w \in Warehouses, NEW d \in Districts, NEW c \in Customers,
         NEW l \in 1 .. MaxOlCnt,
         NEW v \in Warehouses, NEW e \in Districts, NEW b \in Customers
  PROVE  /\ MakeOrderLineKey(w, d, c, l) # MakeOrderKey(v, e, b)
         /\ \A m \in 1 .. MaxOlCnt :
              MakeOrderLineKey(w, d, c, l) = MakeOrderLineKey(v, e, b, m) =>
                w = v /\ d = e /\ c = b /\ l = m
         /\ ~(w = v /\ d = e /\ c = b) => MakeOrderLineKey(w, d, c, l) \notin OrderRowKeys(v, e, b)
<1>1. MakeOrderLineKey(w, d, c, l) # MakeOrderKey(v, e, b)
  BY DEF LinesApart
<1>2. c \in 0 .. MaxOrderId - 1 /\ b \in 0 .. MaxOrderId - 1
  BY SizeAssumption DEF Customers
<1>3. \A m \in 1 .. MaxOlCnt :
        MakeOrderLineKey(w, d, c, l) = MakeOrderLineKey(v, e, b, m) =>
          w = v /\ d = e /\ c = b /\ l = m
  BY <1>2, LineKeyUnique
<1> QED
  BY <1>1, <1>3, LoadedLines DEF OrderRowKeys

LEMMA OrderRowsApart ==
  ASSUME NEW w \in Warehouses, NEW d \in Districts, NEW c \in Customers
  PROVE  /\ OrderRowKeys(w, d, c) \cap FlatKeys = {}
         /\ IndexApart => OrderRowKeys(w, d, c) \cap IndexKeys = {}
<1>1. c \in Int /\ c \in Nat /\ c < Word /\ c \in OrderIds
  BY CustomersAreSmall, HalfWord, SizesAreInt DEF Customers
<1>2. /\ MakeOrderKey(w, d, c) \notin FlatKeys
      /\ IndexApart => MakeOrderKey(w, d, c) \notin IndexKeys
  BY <1>1, OrderKeysNotFlat, PackNotIndex
<1>3. ASSUME NEW l \in 1 .. OrderLines[<<w, d, c>>]
      PROVE  /\ MakeOrderLineKey(w, d, c, l) \notin FlatKeys
             /\ IndexApart => MakeOrderLineKey(w, d, c, l) \notin IndexKeys
  <2>1. l \in Nat /\ l \in 0 .. MaxOlCnt
    BY LoadedLines, SizesAreInt
  <2> QED
    BY <1>1, <2>1, LineKeyNotFlat, LineNotIndex
<1> QED
  BY <1>2, <1>3 DEF OrderRowKeys

(* A put under another key leaves an order whole, and its parts.           *)
LEMMA KeepOrder ==
  ASSUME NEW w \in Warehouses, NEW d \in Districts, NEW c \in Customers,
         RowsSame(OrderRowKeys(w, d, c)), DOMAIN store \subseteq DOMAIN store'
  PROVE  /\ OrderRow(w, d, c) => OrderRow(w, d, c)'
         /\ HasIndex(w, d, c) => HasIndex(w, d, c)'
         /\ \A l \in 1 .. OrderLines[<<w, d, c>>] : LineRow(w, d, c, l) => LineRow(w, d, c, l)'
         /\ Whole(w, d, c) => Whole(w, d, c)'
<1>1. OrderRow(w, d, c) => OrderRow(w, d, c)'
  BY DEF OrderRow, OrderRowKeys, RowsSame
<1>2. HasIndex(w, d, c) => HasIndex(w, d, c)'
  BY DEF HasIndex
<1>3. ASSUME NEW l \in 1 .. OrderLines[<<w, d, c>>], LineRow(w, d, c, l)
      PROVE  LineRow(w, d, c, l)'
  <2> DEFINE k == MakeOrderLineKey(w, d, c, l)
  <2>1. k \in OrderRowKeys(w, d, c)
    BY DEF OrderRowKeys
  <2>2. k \in DOMAIN store' /\ store'[k] = store[k]
    BY <1>3, <2>1 DEF RowsSame, LineRow
  <2> QED
    BY <1>3, <2>2 DEF LineRow
<1> QED
  BY <1>1, <1>2, <1>3 DEF Whole

(* The steps into the loops that follow the customers'.                    *)
LEMMA ToOrders ==
  ASSUME IInv, [Next]_vars, pc' \in OrderLoop \cup StockPhases
  PROVE  \/ UNCHANGED vars
         \/ LoadHistory /\ Advance
         \/ LoadOrder \/ LoadOrderIndex \/ LoadNewOrder \/ LoadOrderLine
         \/ LoadStock \/ LoadItem
<1>1. CASE UNCHANGED vars
  BY <1>1
<1>2. CASE Load
  <2>1. CASE (LoadWarehouse \/ LoadDistrict) /\ Advance
    BY <2>1 DEF LoadWarehouse, LoadDistrict, Advance, NextIteration, AfterPhase, OrderLoop,
      StockPhases
  <2>2. CASE LoadCustomer \/ LoadCustomerIndex
    BY <2>2 DEF LoadCustomer, LoadCustomerIndex, GotoPut, OrderLoop, StockPhases
  <2> QED
    BY <1>2, <2>1, <2>2 DEF Load, LoadTables, LoadWarehouse, LoadDistrict, LoadHistory
<1>3. CASE ~Load /\ ~UNCHANGED vars
  BY <1>3, TxnLabelsAfter DEF TxnLabels, OrderLoop, StockPhases
<1> QED
  BY <1>1, <1>2, <1>3

(* After an order's last line the loops are past it, and no other.         *)
LEMMA EarlierAdvance ==
  ASSUME loop \in LoopType, pc \in {"history", "order_line"}, Advance
  PROVE  /\ pc = "order_line" => pc' \in {"order", "stock"}
         /\ pc' = "order" => loop'.l = 1
         /\ pc = "history" /\ pc' = "order" => loop' = FirstRow
         /\ pc = "order_line" =>
              \A w \in Warehouses, d \in Districts, c \in Customers :
                pc' = "stock" \/ Earlier(w, d, c)' =>
                  Earlier(w, d, c) \/ (w = loop.w /\ d = loop.d /\ c = loop.n)
<1>1. LastRow(pc) = [w |-> NumWarehouse, d |-> NumDistrict, n |-> NumCustomer, l |-> 1]
  BY DEF LastRow
<1>2. /\ NextIteration(pc) = IF pc = "history" THEN "customer" ELSE "order"
      /\ AfterPhase(pc) = IF pc = "history" THEN "order" ELSE "stock"
  BY DEF NextIteration, AfterPhase
<1>3. NumWarehouse \in Nat /\ NumDistrict \in Nat /\ NumCustomer \in Nat
  BY SizeAssumption
<1>4. loop.w \in Nat /\ loop.d \in Nat /\ loop.n \in Nat
  BY DEF LoopType, Warehouses, Districts
<1>5. CASE /\ loop.n < NumCustomer /\ loop' = [loop EXCEPT !.n = @ + 1, !.l = 1]
           /\ pc' = NextIteration(pc)
  <2>1. loop'.w = loop.w /\ loop'.d = loop.d /\ loop'.n = loop.n + 1 /\ loop'.l = 1
    BY <1>5 DEF LoopType
  <2> QED
    BY <1>2, <1>4, <1>5, <2>1 DEF Earlier, Warehouses, Districts, Customers
<1>6. CASE /\ loop.n = NumCustomer /\ loop' = [loop EXCEPT !.d = @ + 1, !.n = 1, !.l = 1]
           /\ pc' = NextIteration(pc)
  <2>1. loop'.w = loop.w /\ loop'.d = loop.d + 1 /\ loop'.n = 1 /\ loop'.l = 1
    BY <1>6 DEF LoopType
  <2> QED
    BY <1>2, <1>3, <1>4, <1>6, <2>1 DEF Earlier, Warehouses, Districts, Customers
<1>7. CASE /\ loop.n = NumCustomer /\ loop.d = NumDistrict
           /\ loop' = [w |-> loop.w + 1, d |-> 1, n |-> 1, l |-> 1]
           /\ pc' = NextIteration(pc)
  <2>1. loop'.w = loop.w + 1 /\ loop'.d = 1 /\ loop'.n = 1 /\ loop'.l = 1
    BY <1>7
  <2> QED
    BY <1>2, <1>3, <1>4, <1>7, <2>1 DEF Earlier, Warehouses, Districts, Customers
<1>8. CASE /\ loop.n = NumCustomer /\ loop.d = NumDistrict /\ loop.w = NumWarehouse
           /\ loop' = FirstRow /\ pc' = AfterPhase(pc)
  <2>1. loop'.l = 1
    BY <1>8 DEF FirstRow
  <2> QED
    BY <1>2, <1>3, <1>4, <1>8, <2>1 DEF Earlier, FirstRow, Warehouses, Districts, Customers
<1> QED
  BY <1>1, <1>5, <1>6, <1>7, <1>8 DEF Advance

(* While the loops are at one order, those they are past stay whole.       *)
LEMMA KeepEarlier ==
  ASSUME OrdersBack, pc \in OrderLoop, pc' \in OrderLoop,
         loop'.w = loop.w, loop'.d = loop.d, loop'.n = loop.n,
         DOMAIN store \subseteq DOMAIN store',
         \A w \in Warehouses, d \in Districts, c \in Customers :
           Earlier(w, d, c) => RowsSame(OrderRowKeys(w, d, c))
  PROVE  OrdersBack'
<1> SUFFICES ASSUME NEW w \in Warehouses, NEW d \in Districts, NEW c \in Customers,
                    Earlier(w, d, c)'
             PROVE  Whole(w, d, c)'
  BY DEF OrdersBack, OrderLoop, StockPhases
<1>1. Earlier(w, d, c)
  BY DEF Earlier
<1>2. Whole(w, d, c) /\ RowsSame(OrderRowKeys(w, d, c))
  BY <1>1 DEF OrdersBack
<1> QED
  BY <1>2, KeepOrder

LEMMA NotEarlier ==
  ASSUME loop \in LoopType
  PROVE  ~Earlier(loop.w, loop.d, loop.n)
BY DEF Earlier, LoopType, Warehouses, Districts

LEMMA LoadOrderBack ==
  ASSUME LinesApart, IInv, OrdersBack, LoadOrder
  PROVE  OrdersBack' /\ OrderBegun'
<1> DEFINE w == loop.w
           d == loop.d
           c == loop.n
           k == MakeOrderKey(w, d, c)
           row == LoadedOrder(w, d, c, IF Delivered(c) THEN Carrier ELSE 0)
<1>1. /\ pc = "order" /\ pc' = "order_index" /\ loop' = loop
      /\ store' = PutRecord(store, k, row)
  BY DEF LoadOrder, GotoPut
<1>2. w \in Warehouses /\ d \in Districts /\ c \in Customers /\ loop \in LoopType
  BY <1>1, OrderPhaseOK DEF OrderPhases
<1>3. OnePut(k) /\ DOMAIN store \subseteq DOMAIN store'
  BY <1>1, PutGrows DEF OnePut
<1>4. OrdersBack'
  <2>1. ASSUME NEW v \in Warehouses, NEW e \in Districts, NEW b \in Customers, Earlier(v, e, b)
        PROVE  RowsSame(OrderRowKeys(v, e, b))
    <3>1. ~(w = v /\ d = e /\ c = b)
      BY <1>2, <2>1, NotEarlier
    <3>2. k \notin OrderRowKeys(v, e, b)
      BY <1>2, <3>1, OrderKeyApart
    <3> QED
      BY <1>3, <3>2, OnePutFrame
  <2> QED
    BY <1>1, <1>3, <2>1, KeepEarlier DEF OrderLoop
<1>5. OrderBegun'
  <2> HIDE DEF k, row
  <2>1. k \in DOMAIN store' /\ store'[k] = row
    BY <1>1 DEF PutRecord
  <2> QED
    BY <1>1, <2>1 DEF OrderBegun, k, row
<1> QED
  BY <1>4, <1>5

LEMMA LoadOrderIndexBack ==
  ASSUME IndexApart, IInv, OrdersBack, OrderBegun, LoadOrderIndex
  PROVE  OrdersBack' /\ OrderBegun'
<1> DEFINE w == loop.w
           d == loop.d
           c == loop.n
           k == MakeOrderIndexKey(w, d, OrderCustomer[<<w, d>>][c], c)
<1>1. /\ pc = "order_index" /\ loop' = loop
      /\ pc' = IF Delivered(c) THEN "order_line" ELSE "new_order"
      /\ store' = PutIfAbsent(store, k, IndexRow(MakeOrderKey(w, d, c)))
  BY DEF LoadOrderIndex, GotoPut
<1>2. w \in Warehouses /\ d \in Districts /\ c \in Customers /\ loop \in LoopType /\ LoopOK
  BY <1>1, OrderPhaseOK DEF OrderPhases
<1>3. OnePut(k) /\ DOMAIN store \subseteq DOMAIN store' /\ k \in DOMAIN store'
  BY <1>1, PutGrows DEF OnePut, PutIfAbsent, PutRecord
<1>4. k \in IndexKeys
  BY <1>2, LoadedOrderType, CustomersAreSmall, IndexKeysInRange
<1>5. ASSUME NEW v \in Warehouses, NEW e \in Districts, NEW b \in Customers
      PROVE  RowsSame(OrderRowKeys(v, e, b))
  BY <1>3, <1>4, OrderRowsApart, OnePutFrame
<1>6. OrdersBack'
  BY <1>1, <1>3, <1>5, KeepEarlier DEF OrderLoop
<1>7. OrderBegun'
  <2>1. HasIndex(w, d, c)'
    BY <1>1, <1>3 DEF HasIndex
  <2>2. loop.l = 1 /\ loop'.l = 1
    BY <1>1, <1>2, SizeAssumption DEF LoopOK, LastLine, LoadPhases, LoopType
  <2>3. ASSUME Delivered(c)
        PROVE  OrderRow(w, d, c)'
    <3>1. PICK v \in Warehouses, e \in Districts, b \in Customers : v = w /\ e = d /\ b = c
      BY <1>2
    <3>2. OrderRow(v, e, b)
      BY <1>1, <2>3, <3>1 DEF OrderBegun, OrderRow
    <3>3. OrderRow(v, e, b)'
      BY <1>3, <1>5, <3>2, KeepOrder
    <3> QED
      BY <1>1, <3>1, <3>3
  <2>4. \A l \in 1 .. loop'.l - 1 : LineRow(w, d, c, l)'
    BY <2>2
  <2> HIDE DEF k
  <2> QED
    BY <1>1, <2>1, <2>3, <2>4 DEF OrderBegun
<1> QED
  BY <1>6, <1>7

LEMMA LoadNewOrderBack ==
  ASSUME LinesApart, IInv, OrdersBack, OrderBegun, LoadNewOrder
  PROVE  OrdersBack' /\ OrderBegun'
<1> DEFINE w == loop.w
           d == loop.d
           c == loop.n
           k == MakeOrderKey(w, d, c)
<1>1. /\ pc = "new_order" /\ pc' = "order_line" /\ loop' = loop
      /\ \E j \in Junk : store' = PutRecord(store, k, MakeRow("new_order", j, j, j, j))
  BY DEF LoadNewOrder, GotoPut, MakeNewOrderKey, MakeOrderKey
<1>2. w \in Warehouses /\ d \in Districts /\ c \in Customers /\ loop \in LoopType /\ LoopOK
  BY <1>1, OrderPhaseOK DEF OrderPhases
<1>3. OnePut(k) /\ DOMAIN store \subseteq DOMAIN store'
  BY <1>1, PutGrows DEF OnePut
<1>4. OrdersBack'
  <2>1. ASSUME NEW v \in Warehouses, NEW e \in Districts, NEW b \in Customers, Earlier(v, e, b)
        PROVE  RowsSame(OrderRowKeys(v, e, b))
    <3>1. ~(w = v /\ d = e /\ c = b)
      BY <1>2, <2>1, NotEarlier
    <3>2. k \notin OrderRowKeys(v, e, b)
      BY <1>2, <3>1, OrderKeyApart
    <3> QED
      BY <1>3, <3>2, OnePutFrame
  <2> QED
    BY <1>1, <1>3, <2>1, KeepEarlier DEF OrderLoop
<1>5. OrderBegun'
  <2>1. OrderRow(w, d, c)'
    <3> HIDE DEF k
    <3>1. k \in DOMAIN store' /\ store'[k].type = "new_order"
      BY <1>1 DEF PutRecord, MakeRow
    <3> QED
      BY <1>1, <3>1 DEF OrderBegun, OrderRow, k
  <2>2. HasIndex(w, d, c)'
    BY <1>1, <1>3 DEF OrderBegun, HasIndex
  <2>3. loop'.l = 1
    BY <1>1, <1>2, SizeAssumption DEF LoopOK, LastLine, LoadPhases, LoopType
  <2> HIDE DEF k
  <2> QED
    BY <1>1, <2>1, <2>2, <2>3 DEF OrderBegun
<1> QED
  BY <1>4, <1>5

LEMMA LoadOrderLineBack ==
  ASSUME LinesApart, IInv, OrdersBack, OrderBegun, LoadOrderLine,
         NEW w \in Warehouses, NEW d \in Districts, NEW c \in Customers,
         w = loop.w, d = loop.d, c = loop.n
  PROVE  OrdersBack' /\ OrderBegun'
<1>1. /\ pc = "order_line" /\ loop \in LoopType /\ LoopOK /\ pc \in LoadPhases
  BY OrderPhaseOK DEF LoadOrderLine, OrderPhases
<1>2. PICK l \in 1 .. MaxOlCnt : l = loop.l
  BY <1>1 DEF LoopType
<1>3. l \in 1 .. OrderLines[<<w, d, c>>] /\ OrderLines[<<w, d, c>>] \in Nat
  <2>1. OrderLines[<<w, d, c>>] \in MinOlCnt .. MaxOlCnt
    BY LoadedOrderType
  <2> QED
    BY <1>1, <1>2, <2>1, SizeAssumption DEF LoopOK, LastLine
<1> DEFINE k == MakeOrderLineKey(w, d, c, l)
           row(j) == MakeRow("order_line", LineItem[<<w, d, c, l>>], w, 5, j)
<1>4. PICK j \in Junk : store' = PutRecord(store, k, row(j))
  BY <1>2 DEF LoadOrderLine
<1>5. OnePut(k) /\ DOMAIN store \subseteq DOMAIN store'
  BY <1>4, PutGrows DEF OnePut
<1>6. ASSUME NEW v \in Warehouses, NEW e \in Districts, NEW b \in Customers,
             ~(w = v /\ d = e /\ c = b)
      PROVE  RowsSame(OrderRowKeys(v, e, b))
  BY <1>5, <1>6, LineKeyApart, OnePutFrame
<1>7. OrderRow(w, d, c)' /\ HasIndex(w, d, c)'
  <2>1. k # MakeOrderKey(w, d, c)
    BY LineKeyApart
  <2>2. RowsSame({MakeOrderKey(w, d, c)})
    <3> HIDE DEF k
    <3> QED
      BY <1>5, <2>1, OnePutFrame
  <2>3. OrderRow(w, d, c) /\ HasIndex(w, d, c)
    BY <1>1 DEF OrderBegun
  <2> QED
    BY <1>5, <2>2, <2>3 DEF OrderRow, HasIndex, RowsSame
<1>8. LineRow(w, d, c, l)'
  <2> HIDE DEF k
  <2>1. k \in DOMAIN store' /\ store'[k] = row(j)
    BY <1>4 DEF PutRecord
  <2> QED
    BY <2>1 DEF LineRow, MakeRow, k
<1>9. \A m \in 1 .. l : LineRow(w, d, c, m)'
  <2> SUFFICES ASSUME NEW m \in 1 .. l, m # l
               PROVE  LineRow(w, d, c, m)'
    BY <1>8
  <2>1. m \in 1 .. loop.l - 1 /\ m \in 1 .. MaxOlCnt
    BY <1>2, SizeAssumption
  <2> DEFINE x == MakeOrderLineKey(w, d, c, m)
  <2>2. LineRow(w, d, c, m)
    BY <1>1, <2>1 DEF OrderBegun
  <2>3. x # k
    BY <2>1, LineKeyApart
  <2>4. RowsSame({x})
    <3> HIDE DEF k, x
    <3> QED
      BY <1>5, <2>3, OnePutFrame
  <2> QED
    BY <2>2, <2>4 DEF LineRow, RowsSame
<1>10. CASE loop.l < OrderLines[<<w, d, c>>] /\ loop' = [loop EXCEPT !.l = @ + 1] /\ pc' = pc
  <2>1. loop'.w = w /\ loop'.d = d /\ loop'.n = c /\ loop'.l = l + 1
    BY <1>1, <1>2, <1>10 DEF LoopType
  <2>2. ASSUME NEW v \in Warehouses, NEW e \in Districts, NEW b \in Customers, Earlier(v, e, b)
        PROVE  RowsSame(OrderRowKeys(v, e, b))
    BY <1>1, <1>6, <2>2, NotEarlier
  <2>3. OrdersBack'
    BY <1>1, <1>5, <1>10, <2>1, <2>2, KeepEarlier DEF OrderLoop
  <2>4. \A m \in 1 .. loop'.l - 1 : LineRow(w, d, c, m)'
    BY <1>9, <2>1
  <2>5. OrderBegun'
    BY <1>1, <1>7, <1>10, <2>1, <2>4 DEF OrderBegun
  <2> QED
    BY <2>3, <2>5
<1>11. CASE loop.l = OrderLines[<<w, d, c>>] /\ Advance
  <2>1. pc' \in {"order", "stock"}
    BY <1>1, <1>11, EarlierAdvance
  <2>2. Whole(w, d, c)'
    BY <1>2, <1>7, <1>9, <1>11 DEF Whole
  <2>3. ASSUME NEW v \in Warehouses, NEW e \in Districts, NEW b \in Customers,
               pc' = "stock" \/ Earlier(v, e, b)'
        PROVE  Whole(v, e, b)'
    <3>1. Earlier(v, e, b) \/ (v = w /\ e = d /\ b = c)
      BY <1>1, <1>11, <2>3, EarlierAdvance
    <3>2. CASE v = w /\ e = d /\ b = c
      BY <2>2, <3>2
    <3>3. CASE Earlier(v, e, b) /\ ~(w = v /\ d = e /\ c = b)
      <4>1. Whole(v, e, b)
        BY <1>1, <3>3 DEF OrdersBack, OrderLoop
      <4> QED
        BY <1>5, <1>6, <3>3, <4>1, KeepOrder
    <3> QED
      BY <3>1, <3>2, <3>3
  <2>4. OrdersBack'
    BY <2>1, <2>3 DEF OrdersBack, OrderLoop, StockPhases
  <2>5. OrderBegun'
    BY <2>1 DEF OrderBegun
  <2> QED
    BY <2>4, <2>5
<1> QED
  BY <1>10, <1>11 DEF LoadOrderLine

(* The puts of stock and items are under low keys or those of stock.       *)
LEMMA KeepOrders ==
  ASSUME OrdersBack, pc \in StockPhases, pc' \notin OrderLoop,
         NEW k \in FlatKeys, OnePut(k)
  PROVE  OrdersBack' /\ OrderBegun'
<1>1. DOMAIN store \subseteq DOMAIN store'
  BY PutGrows
<1>2. ASSUME NEW w \in Warehouses, NEW d \in Districts, NEW c \in Customers
      PROVE  Whole(w, d, c)'
  <2>1. Whole(w, d, c)
    BY DEF OrdersBack
  <2>2. RowsSame(OrderRowKeys(w, d, c))
    BY OrderRowsApart, OnePutFrame
  <2> QED
    BY <1>1, <2>1, <2>2, KeepOrder
<1> QED
  BY <1>2 DEF OrdersBack, OrderBegun, OrderLoop

LEMMA StockPhasePut ==
  ASSUME IInv, LoadStock \/ LoadItem
  PROVE  /\ pc \in StockPhases /\ pc' \in StockPhases \cup {"idle"}
         /\ loop \in LoopType /\ Advance
         /\ \E k \in FlatKeys : OnePut(k) /\ (LoadStock => k > NumStock)
<1>1. pc \in StockPhases /\ pc \in EndPhases /\ Advance /\ loop \in LoopType /\ LoopOK
  BY DEF LoadStock, LoadItem, StockPhases, EndPhases, IInv, TypeOK, LoopType
<1>2. pc' \in StockPhases \cup {"idle"}
  BY <1>1, AdvanceOK DEF NextIteration, AfterPhase, StockPhases
<1>3. CASE LoadStock
  <2> DEFINE k == MakeStockKey(loop.w, loop.n)
  <2>1. loop.w \in Warehouses /\ loop.n \in Items
    BY <1>3, LoadStockRow
  <2>2. OnePut(k)
    BY <1>3 DEF LoadStock, OnePut
  <2>3. k \in FlatKeys /\ k > NumStock
    BY <2>1, StockKeyRange
  <2> QED
    BY <1>1, <1>2, <2>2, <2>3
<1>4. CASE LoadItem
  <2>1. PICK k \in 1 .. NumStock : OnePut(k)
    BY <1>4, LowPut DEF LoadLow
  <2>2. k \in FlatKeys
    BY SizesAreInt DEF FlatKeys
  <2>3. ~LoadStock
    BY <1>4 DEF LoadItem, LoadStock
  <2> QED
    BY <1>1, <1>2, <2>1, <2>2, <2>3
<1> QED
  BY <1>3, <1>4

LEMMA OrdersBackStep ==
  ASSUME LinesApart, IndexApart, IInv, OrdersBack, OrderBegun, [Next]_vars
  PROVE  OrdersBack' /\ OrderBegun'
<1>1. CASE pc' \notin OrderLoop \cup StockPhases
  BY <1>1 DEF OrdersBack, OrderBegun, OrderLoop
<1>2. CASE UNCHANGED vars
  <2>1. UNCHANGED <<store, pc, loop>>
    BY <1>2 DEF vars
  <2>2. OrdersBack'
    <3>1. ASSUME NEW w \in Warehouses, NEW d \in Districts, NEW c \in Customers
          PROVE  /\ Whole(w, d, c) => Whole(w, d, c)'
                 /\ Earlier(w, d, c)' => Earlier(w, d, c)
      <4>1. RowsSame(OrderRowKeys(w, d, c)) /\ DOMAIN store \subseteq DOMAIN store'
        BY <2>1 DEF RowsSame
      <4> QED
        BY <2>1, <4>1, KeepOrder DEF Earlier
    <3> QED
      BY <2>1, <3>1 DEF OrdersBack
  <2>3. OrderBegun'
    BY <2>1 DEF OrderBegun, OrderRow, HasIndex, LineRow
  <2> QED
    BY <2>2, <2>3
<1>3. CASE LoadHistory /\ Advance /\ pc' \in OrderLoop \cup StockPhases
  <2>1. pc = "history" /\ loop \in LoopType
    BY <1>3 DEF LoadHistory, IInv, TypeOK, LoopType
  <2>2. pc' = "order"
    BY <1>3, <2>1 DEF Advance, NextIteration, AfterPhase, OrderLoop, StockPhases
  <2>3. loop' = FirstRow
    BY <1>3, <2>1, <2>2, EarlierAdvance
  <2>4. \A w \in Warehouses, d \in Districts, c \in Customers : ~Earlier(w, d, c)'
    BY <2>3 DEF Earlier, FirstRow, Warehouses, Districts, Customers
  <2> QED
    BY <2>2, <2>4 DEF OrdersBack, OrderBegun, StockPhases
<1>4. CASE LoadOrder \/ LoadOrderIndex \/ LoadNewOrder
  BY <1>4, LoadOrderBack, LoadOrderIndexBack, LoadNewOrderBack
<1>5. CASE LoadOrderLine
  <2>1. PICK w \in Warehouses, d \in Districts, c \in Customers :
          w = loop.w /\ d = loop.d /\ c = loop.n
    BY <1>5, OrderPhaseOK DEF LoadOrderLine, OrderPhases
  <2> QED
    BY <1>5, <2>1, LoadOrderLineBack
<1>6. CASE LoadStock \/ LoadItem
  <2>1. PICK k \in FlatKeys : OnePut(k)
    BY <1>6, StockPhasePut
  <2>2. pc \in StockPhases /\ pc' \notin OrderLoop
    BY <1>6, StockPhasePut DEF StockPhases, OrderLoop
  <2> QED
    BY <2>1, <2>2, KeepOrders
<1> QED
  BY <1>1, <1>2, <1>3, <1>4, <1>5, <1>6, ToOrders

(* The item loop puts each item, and the stock after it is elsewhere.      *)
LEMMA ItemsBackStep ==
  ASSUME IInv, ItemsBack, [Next]_vars
  PROVE  /\ ItemsBack'
         /\ LoadStock /\ pc = "stock_again" => \A i \in Items : ItemRow(i)'
<1>1. CASE LoadStock
  <2>1. PICK k \in FlatKeys : OnePut(k) /\ k > NumStock
    BY <1>1, StockPhasePut
  <2>2. \A i \in Items : ItemRow(i) => ItemRow(i)'
    <3>1. ASSUME NEW i \in Items, ItemRow(i)
          PROVE  ItemRow(i)'
      <4>1. ItemKey(i) # k
        BY <2>1, SizeAssumption DEF ItemKey, Items
      <4>2. RowsSame({ItemKey(i)})
        BY <2>1, <4>1, OnePutFrame
      <4> QED
        BY <3>1, <4>2 DEF ItemRow, RowsSame
    <3> QED
      BY <3>1
  <2>3. loop \in LoopType /\ Advance /\ pc \in {"stock", "stock_again"}
    BY <1>1, StockPhasePut DEF LoadStock
  <2>4. pc' = "stock_again" => pc = "stock_again"
    BY <2>3 DEF Advance, NextIteration, AfterPhase
  <2>5. pc' = "item" => loop'.n = 1
    BY <2>3 DEF Advance, NextIteration, AfterPhase, FirstRow
  <2> QED
    BY <2>2, <2>4, <2>5 DEF ItemsBack, Items
<1>2. CASE LoadItem
  <2> DEFINE n == loop.n
             row(j) == MakeRow("item", j, j, ItemName[n], j)
  <2>1. /\ pc = "item" /\ loop \in LoopType /\ LoopOK /\ Advance /\ pc \in LoadPhases
        /\ \E j \in Junk : store' = PutRecord(store, ItemKey(n), row(j))
    BY <1>2 DEF LoadItem, IInv, TypeOK, LoopType, LoadPhases
  <2>2. n \in Items
    BY <2>1 DEF LoopOK, LoopType, LastRow, Items
  <2>3. PICK m \in Items, j \in Junk : m = n /\ store' = PutRecord(store, ItemKey(m), row(j))
    BY <2>1, <2>2
  <2>4. ItemRow(m)'
    BY <2>3 DEF PutRecord, ItemRow, MakeRow
  <2>5. ASSUME NEW i \in Items, i < m
        PROVE  ItemRow(i)'
    <3>1. ItemRow(i)
      BY <2>1, <2>3, <2>5 DEF ItemsBack
    <3>2. ItemKey(i) # ItemKey(m)
      BY <2>5 DEF ItemKey, Items
    <3> QED
      BY <2>3, <3>1, <3>2 DEF PutRecord, ItemRow
  <2>6. CASE pc' = "item" /\ loop'.n = m + 1
    BY <2>4, <2>5, <2>6, <1>2 DEF ItemsBack, Items, LoadItem, LoadStock
  <2>7. CASE pc' = "stock_again" /\ m = NumItem
    BY <2>4, <2>5, <2>7, <1>2 DEF ItemsBack, Items, LoadItem, LoadStock
  <2>8. (pc' = "item" /\ loop'.n = m + 1) \/ (pc' = "stock_again" /\ m = NumItem)
    <3>1. LastRow(pc) = [w |-> 1, d |-> 1, n |-> NumItem, l |-> 1]
      BY <2>1 DEF LastRow
    <3>2. NextIteration(pc) = "item" /\ AfterPhase(pc) = "stock_again"
      BY <2>1 DEF NextIteration, AfterPhase
    <3>3. loop.d = 1 /\ loop.w >= 1 /\ loop.w \in Nat
      BY <2>1, <3>1 DEF LoopOK, LoopType, Districts, Warehouses
    <3>4. loop.n < NumItem /\ loop' = [loop EXCEPT !.n = @ + 1, !.l = 1] => loop'.n = m + 1
      BY <2>1, <2>3 DEF LoopType
    <3> QED
      BY <2>1, <2>3, <3>1, <3>2, <3>3, <3>4 DEF Advance
  <2> QED
    BY <2>6, <2>7, <2>8
<1>3. CASE UNCHANGED vars
  <2>1. UNCHANGED <<store, pc, loop>>
    BY <1>3 DEF vars
  <2>2. ItemsBack'
    BY <2>1 DEF ItemsBack, ItemRow
  <2> QED
    BY <1>1, <2>2
<1>4. CASE ~LoadStock /\ ~LoadItem /\ ~UNCHANGED vars
  <2>1. pc' \notin {"item", "stock_again"}
    <3>1. CASE pc' \in OrderLoop \cup StockPhases
      <4>1. \/ LoadHistory /\ Advance
            \/ LoadOrder \/ LoadOrderIndex \/ LoadNewOrder \/ LoadOrderLine
        BY <1>4, <3>1, ToOrders
      <4> QED
        BY <4>1 DEF LoadHistory, LoadOrder, LoadOrderIndex, LoadNewOrder, LoadOrderLine, GotoPut,
          Advance, NextIteration, AfterPhase
    <3> QED
      BY <3>1 DEF StockPhases
  <2> QED
    BY <1>4, <2>1 DEF ItemsBack
<1> QED
  BY <1>1, <1>2, <1>3, <1>4

LEMMA ReloadInvariant ==
  ASSUME IndexApart, IdsFit, LinesApart
  PROVE  Spec => []ReloadInv
<1>1. Init => OrdersBack /\ OrderBegun /\ ItemsBack
  BY DEF Init, OrdersBack, OrderBegun, ItemsBack, OrderLoop, StockPhases
<1>2. ASSUME IndexInv, OrdersBack, OrderBegun, ItemsBack, [Next]_vars
      PROVE  OrdersBack' /\ OrderBegun' /\ ItemsBack'
  BY <1>2, OrdersBackStep, ItemsBackStep DEF IndexInv, FitInv, OrderInv
<1> QED
  BY <1>1, <1>2, IndexInvariant, RefineInvariant, PTL DEF Spec, ReloadInv

(* The last put of the load, and nothing else, leads to its end.           *)
LEMMA ToLoaded ==
  ASSUME IInv, [Next]_vars, pc' = "idle", done' = 0
  PROVE  UNCHANGED vars \/ (LoadStock /\ pc = "stock_again")
<1>1. CASE Crash \/ Finish \/ Terminating \/ UNCHANGED vars
  BY <1>1 DEF Crash, Finish, Terminating, vars
<1>2. CASE pc \in LoadPhases /\ ~Crash
  BY <1>2, LoadMoves DEF LoadPhases
<1>3. done \in Nat
  BY PoolAssumption DEF IInv, TypeOK
<1>4. ~EndTxn
  BY <1>3 DEF EndTxn
<1>5. CASE NewOrderStep
  BY <1>4, <1>5 DEF NewOrderStep, NewOrder, GenerateLocal, GenerateRemote, StartRun, TakeOrderId,
    InsertNewOrder, InsertOrder, InsertOrderIndex, UpdateStock, InsertOrderLine, Goto
<1>6. CASE PaymentStep \/ DeliveryStep
  BY <1>4, <1>6 DEF PaymentStep, Payment, PayWarehouse, PayDistrict, PayCustomer, InsertHistory,
    DeliveryStep, Delivery, DeliverOrder, DeliverLine, DeliverCustomer, Goto
<1>7. CASE OrderStatus \/ StockLevel
  BY <1>4, <1>7 DEF OrderStatus, StockLevel
<1>8. CASE Load
  BY <1>1, <1>2, <1>8, LoadLabels
<1> QED
  BY <1>1, <1>2, <1>5, <1>6, <1>7, <1>8 DEF Next, Step

(* The load gives back every row of stock, items, orders, their index and  *)
(* their lines, whatever the store held when the process started: wherever *)
(* in a load or a transaction earlier ones were killed, of all sizes of    *)
(* which no two tables share the keys of an order's rows.                  *)
THEOREM ReloadRestoresHolds ==
  ASSUME IndexApart, IdsFit, LinesApart
  PROVE  Spec => []ReloadRestores
<1> DEFINE AllOrders ==
             \A w \in Warehouses, d \in Districts, c \in Customers : Whole(w, d, c)
           AllItems == \A i \in Items : ItemRow(i)
           AllStock == \A k \in StockKeys : store[k] = StockRow
<1>1. Init => ReloadRestores
  BY DEF Init, ReloadRestores
<1>2. ASSUME ReloadInv, ReloadInv', ReloadRestores, [Next]_vars
      PROVE  ReloadRestores'
  <2> USE <1>2 DEF ReloadInv, IndexInv, FitInv, OrderInv
  <2> SUFFICES ASSUME pc' = "idle", done' = 0
               PROVE  ReloadRestores'
    BY DEF ReloadRestores
  <2>1. CASE UNCHANGED vars
    <3>1. UNCHANGED <<store, pc, done>>
      BY <2>1 DEF vars
    <3> QED
      BY <3>1 DEF ReloadRestores
  <2>2. CASE LoadStock /\ pc = "stock_again"
    <3>1. AllStock'
      BY <2>2, RestockedStep
    <3>2. AllItems'
      BY <2>2, ItemsBackStep
    <3>3. AllOrders'
      <4>1. PICK k \in FlatKeys : OnePut(k)
        BY <2>2, StockPhasePut
      <4>2. ASSUME NEW w \in Warehouses, NEW d \in Districts, NEW c \in Customers
            PROVE  Whole(w, d, c)'
        <5>1. Whole(w, d, c)
          BY <2>2 DEF OrdersBack, StockPhases
        <5>2. RowsSame(OrderRowKeys(w, d, c)) /\ DOMAIN store \subseteq DOMAIN store'
          BY <4>1, OrderRowsApart, OnePutFrame, PutGrows
        <5> QED
          BY <5>1, <5>2, KeepOrder
      <4> QED
        BY <4>2
    <3>4. ASSUME NEW w \in Warehouses, NEW d \in Districts, NEW c \in Customers
          PROVE  store'[MakeOrderIndexKey(w, d, OrderCustomer[<<w, d>>][c], c)]
                   = IndexRow(MakeOrderKey(w, d, c))
      <4>1. OrderCustomer[<<w, d>>][c] \in Customers /\ c \in OrderIds
        BY LoadedOrderType, CustomersAreSmall
      <4>2. HasIndex(w, d, c)'
        BY <3>3 DEF Whole
      <4> QED
        BY <4>1, <4>2 DEF IndexRows, HasIndex
    <3> HIDE <1>2
    <3> QED
      BY <3>1, <3>2, <3>3, <3>4 DEF ReloadRestores, Whole, OrderRow, LineRow, ItemRow,
        MakeNewOrderKey, MakeOrderKey
  <2> QED
    BY <2>1, <2>2, ToLoaded
<1> QED
  BY <1>1, <1>2, ReloadInvariant, PTL DEF Spec
-----------------------------------------------------------------------------
(* What the conditions of the last three theorems come to for the program  *)
(* as it is shipped.  Numbers as large as these are for the SMT solver     *)
(* alone.                                                                  *)

(* RandomStr draws alphanumeric characters, of which each name has four at *)
(* least; a word is 32 bits, and a user address of x86-64 is below 2^47.   *)
Alnum == 48 .. 57 \cup 65 .. 90 \cup 97 .. 122
NameWords ==
  {a + 256 * b + 65536 * c + 16777216 * d : a \in Alnum, b \in Alnum, c \in Alnum, d \in Alnum}
ShippedData ==
  /\ \A w \in Warehouses : WarehouseName[w] \in NameWords
  /\ \A i \in Items : ItemName[i] \in NameWords
  /\ \A j \in Junk : j < 2147483648
  /\ \A x \in DOMAIN HeapAddress : HeapAddress[x] < 140737488355328

(* Four alphanumeric characters as an int32_t.                             *)
LEMMA NameRange ==
  ASSUME NEW x \in NameWords
  PROVE  x \in Int /\ 808464432 <= x /\ x <= 2054847098
<1>1. PICK a \in Alnum, b \in Alnum, c \in Alnum, d \in Alnum :
        x = a + 256 * b + 65536 * c + 16777216 * d
  BY SMT DEF NameWords
<1>2. \A char \in Alnum : char \in Int /\ 48 <= char /\ char <= 122
  BY SMT DEF Alnum
<1> QED
  BY SMT, <1>1, <1>2

(* With 3300 warehouses the upper half of the last order keys is that of   *)
(* the first customer's index keys.                                        *)
LEMMA ShippedIndexApart ==
  ASSUME ShippedSizes, ShippedData, NumWarehouse <= 3299
  PROVE  IndexApart
<1>1. NumWarehouse \in Int /\ NumWarehouse >= 1
  BY SMT, SizeAssumption
<1>2. /\ NumDistrict = 10 /\ NumCustomer = 3000 /\ Word = 4294967296
      /\ HistoryShift = 1048576 /\ MaxOrderId = 10000000 /\ MaxOlCnt = 15
  BY SMT DEF ShippedSizes
<1>3. \A x \in DOMAIN HeapAddress : HeapAddress[x] < 140737488355328
  BY SMT DEF ShippedData
<1> DEFINE upper == (NumWarehouse + 1) * NumDistrict
           first == (NumDistrict + 1) * NumCustomer + 1
           last == (upper + 1) * NumCustomer
<1>4. upper = 10 * NumWarehouse + 10 /\ first = 33001 /\ last = 3000 * upper + 3000
  BY SMT, <1>1, <1>2
<1>5. upper \in Int /\ last \in Int
  BY SMT, <1>1, <1>4
<1> HIDE DEF upper, last, first
<1>6. upper <= 33000 /\ last <= 99003000
  BY SMT, <1>1, <1>4, <1>5
<1>7. /\ upper < first
      /\ (upper * MaxOrderId + Word) * MaxOlCnt + MaxOlCnt < first * Word
      /\ last * HistoryShift + upper < first * Word
  BY SMT, <1>2, <1>4, <1>5, <1>6
<1>8. first * Word = 141738215735296
  BY SMT, <1>2, <1>4
<1>9. \A x \in DOMAIN HeapAddress : HeapAddress[x] \notin first * Word .. (last + 1) * Word - 1
  BY SMT, <1>3, <1>8
<1> QED
  BY SMT, <1>7, <1>9 DEF IndexApart, upper, first, last

(* Each key of a district is that of an item, and no name is small.        *)
LEMMA ShippedIdsFit ==
  ASSUME ShippedSizes, ShippedData, NumWarehouse <= 3299
  PROVE  IdsFit
<1>1. NumWarehouse \in Int /\ NumWarehouse >= 1
  BY SMT, SizeAssumption
<1>2. Word \div 2 = 2147483648 /\ NumDistrict = 10 /\ NumCustomer = 3000 /\ NumItem = 100000
  BY SMT DEF ShippedSizes
<1>3. \A i \in Items : ItemName[i] \in NameWords
  BY SMT DEF ShippedData
<1>4. \A x \in NameWords : NumCustomer < x
  BY SMT, <1>2, NameRange
<1>5. (NumWarehouse + 1) * NumDistrict <= NumItem
  BY SMT, <1>1, <1>2
<1>6. \A j \in Junk : j < Word \div 2
  BY SMT, <1>2 DEF ShippedData
<1> QED
  BY SMT, <1>3, <1>4, <1>5, <1>6 DEF IdsFit

(* What CounterAssumption asks of the constants is met as they are shipped *)
(* when the processes run 90 million transactions between them: the        *)
(* greatest name leaves 92 million numbers of an int32_t above it.         *)
LEMMA ShippedCounters ==
  ASSUME ShippedSizes, ShippedData,
         NEW most \in Nat, most <= 90000000
  PROVE  /\ NumCustomer + 1 + most < Word \div 2
         /\ \A w \in Warehouses : WarehouseName[w] + most < Word \div 2
         /\ \A i \in Items : ItemName[i] + most < Word \div 2
         /\ 10 * most < Word \div 2
<1>1. Word \div 2 = 2147483648 /\ NumCustomer = 3000
  BY SMT DEF ShippedSizes
<1>2. \A w \in Warehouses : WarehouseName[w] \in NameWords
  BY SMT DEF ShippedData
<1>3. \A i \in Items : ItemName[i] \in NameWords
  BY SMT DEF ShippedData
<1>4. \A x \in NameWords : x + most < Word \div 2
  BY SMT, <1>1, NameRange
<1> QED
  BY SMT, <1>1, <1>2, <1>3, <1>4

(* 134 and 435 have no common divisor: how the multiples of 1171875 and    *)
(* 2^25, which are the line keys and the order keys but for their last     *)
(* bits, come near each other is a matter of small numbers in this basis.  *)
ClearOf(u, v) == LET r == u * 1171875 - v * 33554432 IN r < -352 \/ r > 24

LEMMA NearKeys ==
  ASSUME NEW u \in Int, NEW v \in Int, 11 <= u, u <= 56890
  PROVE  ClearOf(u, v)
<1> DEFINE x == 65713 * v - 2295 * u
           y == 1987 * u - 56894 * v
<1>1. x \in Int /\ y \in Int
  BY SMT
<1>2. u = 56894 * x + 65713 * y
  BY SMT
<1>3. u * 1171875 - v * 33554432 = 435 * y - 134 * x
  BY SMT
<1> HIDE DEF x, y
<1> QED
  BY SMTT(60), <1>1, <1>2, <1>3 DEF ClearOf

(* The district 56894, of the warehouse 5689, is the first of which the    *)
(* line keys of a loaded order meet a loaded order's key.                  *)
LEMMA ShippedLinesApart ==
  ASSUME ShippedSizes, NumWarehouse <= 5688
  PROVE  LinesApart
<1> SUFFICES ASSUME NEW w \in Warehouses, NEW v \in Warehouses,
                    NEW d \in Districts, NEW e \in Districts,
                    NEW c \in Customers, NEW b \in Customers, NEW l \in 1 .. MaxOlCnt
             PROVE  MakeOrderLineKey(w, d, c, l) # MakeOrderKey(v, e, b)
  BY SMT DEF LinesApart
<1> DEFINE u == UpperId(w, d)
           t == UpperId(v, e)
<1>1. /\ NumDistrict = 10 /\ NumCustomer = 3000 /\ Word = 4294967296
      /\ MaxOrderId = 10000000 /\ MaxOlCnt = 15
  BY SMT DEF ShippedSizes
<1>2. /\ c \in Int /\ 1 <= c /\ c <= 3000 /\ b \in Int /\ 1 <= b /\ b <= 3000
      /\ l \in Int /\ 1 <= l /\ l <= 15
  BY SMT, <1>1 DEF Customers
<1>3. /\ w \in Int /\ 1 <= w /\ w <= 5688 /\ d \in Int /\ 1 <= d /\ d <= 10
      /\ v \in Int /\ e \in Int
  BY SMT, <1>1, SizeAssumption DEF Warehouses, Districts
<1>4. u = w * NumDistrict + d /\ t = v * NumDistrict + e
  BY SMT, UpperIdRange
<1>5. u \in Int /\ 11 <= u /\ u <= 56890 /\ t \in Int
  BY SMT, <1>1, <1>3, <1>4
<1>6. MakeOrderLineKey(w, d, c, l) = (u * MaxOrderId + c) * MaxOlCnt + l
  BY SMT DEF MakeOrderLineKey
<1>7. MakeOrderKey(v, e, b) = t * Word + b
  BY SMT, <1>2 DEF MakeOrderKey, Pack32
<1> HIDE DEF u, t
<1>8. ASSUME (u * MaxOrderId + c) * MaxOlCnt + l = t * Word + b
      PROVE  FALSE
  <2> DEFINE r == u * 1171875 - t * 33554432
  <2>1. r \in Int
    BY SMT, <1>5
  <2>2. 128 * r = b - 15 * c - l
    BY SMT, <1>1, <1>2, <1>5, <1>8
  <2>3. ClearOf(u, t)
    BY SMT, <1>5, NearKeys
  <2>4. r < -352 \/ r > 24
    BY SMT, <2>3 DEF ClearOf
  <2> HIDE DEF r
  <2> QED
    BY SMT, <1>2, <2>1, <2>2, <2>4
<1> QED
  BY SMT, <1>6, <1>7, <1>8

(* The program as it is shipped, with up to 3299 warehouses (and no more   *)
(* transactions than the counters have numbers for): the order ids of a    *)
(* district stay dense, no index row dangles and a reload gives back what  *)
(* ReloadRestores says, whatever names, seeds, junk and user addresses of  *)
(* the heap there may be.                                                  *)
THEOREM ShippedOrdersHold ==
  ASSUME ShippedSizes, ShippedData, NumWarehouse <= 3299
  PROVE  Spec => []OrderIdsDense /\ []NoDanglingIndex /\ []ReloadRestores
<1>1. IndexApart
  BY ShippedIndexApart
<1>2. IdsFit
  BY ShippedIdsFit
<1>3. LinesApart
  <2>1. NumWarehouse <= 5688
    BY SMT, SizeAssumption
  <2> QED
    BY <2>1, ShippedLinesApart
<1>4. Spec => []OrderIdsDense
  BY <1>1, <1>2, OrderIdsDenseHolds
<1>5. Spec => []NoDanglingIndex
  BY <1>1, <1>2, NoDanglingIndexHolds
<1>6. Spec => []ReloadRestores
  BY <1>1, <1>2, <1>3, ReloadRestoresHolds
<1> QED
  BY <1>4, <1>5, <1>6
=============================================================================
