----------------------------- MODULE TpccProofs -----------------------------
(***************************************************************************)
(* Proofs about the benchmark, for all sizes, loaded data and bounds: that *)
(* the keys of the tables lie apart (KeysProofs) gives an inductive        *)
(* invariant, by which the rows under the keys of stock and districts are  *)
(* what NewOrder takes them for.                                           *)
(***************************************************************************)
EXTENDS TpccTxn, KeysProofs

(* What the store must be for NewOrder to find stock where it looks for    *)
(* it.  Order ids are read from district rows and go into the keys of the  *)
(* order lines: a negative one could take a line to a stock row.           *)
StockOK(row) ==
  /\ row.type = "stock"
  /\ row.at0 \in 10 .. 100
  /\ (row.at0 + row.at4) % 91 = StockQuantity % 91

StoreOK(s) ==
  /\ DOMAIN s \subseteq Int
  /\ \A k \in DOMAIN s : s[k] \in Row
  /\ \A k \in StockKeys \cap DOMAIN s : StockOK(s[k])
  /\ \A k \in DistrictKeys \cap DOMAIN s : s[k].at8 \in Nat

(* The loops stay within their bounds, and what they passed is there: the  *)
(* transactions read no district and no stock row that is not.             *)
LastLine == IF pc = "order_line" THEN OrderLines[<<loop.w, loop.d, loop.n>>] ELSE 1
LoopOK ==
  pc \in LoadPhases =>
    loop.d <= LastRow(pc).d /\ loop.n <= LastRow(pc).n /\ loop.l <= LastLine

(* The puts of the loops between those of the districts and of the stock.  *)
OrderPhases == {"customer", "customer_index", "history", "order", "order_index",
                "new_order", "order_line"}

Loaded ==
  /\ pc = "district" =>
       \A w \in Warehouses, d \in Districts :
         (w < loop.w \/ (w = loop.w /\ d < loop.d)) => MakeDistrictKey(w, d) \in DOMAIN store
  /\ pc \notin {"warehouse", "district"} => DistrictKeys \subseteq DOMAIN store
  /\ pc = "stock" =>
       \A w \in Warehouses, i \in Items :
         (w < loop.w \/ (w = loop.w /\ i < loop.n)) => MakeStockKey(w, i) \in DOMAIN store
  /\ pc \notin {"warehouse", "district", "stock"} \cup OrderPhases =>
       StockKeys \subseteq DOMAIN store

(* The locals of a transaction name rows that exist: a home warehouse and  *)
(* a district, an order id that is not negative, and as many lines as      *)
(* asked for once they are generated.                                      *)
NewOrderLabels == {"no_generate", "no_district", "no_new_order", "no_order", "no_index",
                   "no_stock", "no_line"}
PaymentLabels == {"pay_warehouse", "pay_district", "pay_customer", "pay_history"}
DeliveryLabels == {"dl_order", "dl_line", "dl_customer"}

InFlight ==
  /\ pc \in NewOrderLabels \cup PaymentLabels \cup DeliveryLabels =>
       txn.w \in Warehouses /\ txn.d \in Districts /\ txn.o \in Nat
  /\ pc \in NewOrderLabels \cup PaymentLabels => txn.c \in Customers
  /\ pc \in NewOrderLabels \ {"no_generate"} => Generated = txn.num
  /\ pc \in {"no_stock", "no_line"} => txn.n \in 1 .. txn.num
  /\ pc \in NewOrderLabels => txn.num >= 1
  /\ pc \in TxnLabels => done < MaxTxn
  /\ pc \in PaymentLabels => txn.cw \in Warehouses /\ txn.cd \in Districts

(* The inductive invariant.                                                *)
IInv ==
  /\ TypeOK
  /\ StoreOK(store)
  /\ LoopOK
  /\ Loaded
  /\ InFlight
-----------------------------------------------------------------------------
(* A put keeps the store in order when the row is one its key may have.    *)
LEMMA PutOK ==
  ASSUME NEW s, StoreOK(s), NEW k \in Int, NEW row \in Row,
         k \in StockKeys => StockOK(row),
         k \in DistrictKeys => row.at8 \in Nat
  PROVE  /\ StoreOK(PutRecord(s, k, row))
         /\ DOMAIN PutRecord(s, k, row) = DOMAIN s \cup {k}
<1> DEFINE t == PutRecord(s, k, row)
<1>1. DOMAIN t = DOMAIN s \cup {k} /\ t[k] = row /\ \A x \in DOMAIN s \ {k} : t[x] = s[x]
  BY DEF PutRecord
<1> HIDE DEF t
<1>2. DOMAIN t \subseteq Int /\ \A x \in DOMAIN t : t[x] \in Row
  BY <1>1 DEF StoreOK
<1>3. \A x \in StockKeys \cap DOMAIN t : StockOK(t[x])
  BY <1>1 DEF StoreOK
<1>4. \A x \in DistrictKeys \cap DOMAIN t : t[x].at8 \in Nat
  BY <1>1 DEF StoreOK
<1>5. StoreOK(t)
  BY <1>2, <1>3, <1>4 DEF StoreOK
<1> QED
  BY <1>1, <1>5 DEF t

(* Any row may go under a key that is not flat, and any with a number that *)
(* is not negative at its offset 8 under a low key.                        *)
LEMMA PutClear ==
  ASSUME NEW s, StoreOK(s), NEW k \in Int \ FlatKeys, NEW row \in Row
  PROVE  /\ StoreOK(PutRecord(s, k, row))
         /\ DOMAIN s \subseteq DOMAIN PutRecord(s, k, row)
<1>1. k \notin StockKeys /\ k \notin DistrictKeys
  BY ProtectedFlat
<1>2. StoreOK(PutRecord(s, k, row)) /\ DOMAIN PutRecord(s, k, row) = DOMAIN s \cup {k}
  BY <1>1, PutOK
<1> QED
  BY <1>2

LEMMA PutLow ==
  ASSUME NEW s, StoreOK(s), NEW k \in 1 .. NumStock, NEW row \in Row, row.at8 \in Nat
  PROVE  /\ StoreOK(PutRecord(s, k, row))
         /\ DOMAIN PutRecord(s, k, row) = DOMAIN s \cup {k}
<1>1. k \in Int /\ k \notin StockKeys
  BY LowNotStock, SizeAssumption
<1> QED
  BY <1>1, PutOK

LEMMA PutIfAbsentClear ==
  ASSUME NEW s, StoreOK(s), NEW k \in Int \ FlatKeys, NEW row \in Row
  PROVE  /\ StoreOK(PutIfAbsent(s, k, row))
         /\ DOMAIN s \subseteq DOMAIN PutIfAbsent(s, k, row)
<1>1. CASE k \in DOMAIN s
  BY <1>1 DEF PutIfAbsent
<1>2. CASE k \notin DOMAIN s
  <2>1. PutIfAbsent(s, k, row) = PutRecord(s, k, row)
    BY <1>2 DEF PutIfAbsent
  <2>2. StoreOK(PutRecord(s, k, row)) /\ DOMAIN s \subseteq DOMAIN PutRecord(s, k, row)
    BY PutClear
  <2> QED
    BY <2>1, <2>2
<1> QED
  BY <1>1, <1>2

(* The struct a Get fills: the row under the key when there is one, four   *)
(* words in any case; and what is put of it after some words were changed. *)
AnyRow == [type : RowTypes \cup {"uninitialised"}, at0 : Int, at4 : Int, at8 : Int,
           at12 : Int]

LEMMA GetWords ==
  ASSUME NEW s, StoreOK(s), NEW k, NEW row \in GetRecord(s, k)
  PROVE  row \in AnyRow /\ (k \in DOMAIN s => row = s[k])
<1>1. CASE k \in DOMAIN s
  BY <1>1 DEF GetRecord, StoreOK, Row, AnyRow
<1>2. CASE k \notin DOMAIN s
  BY <1>2, LoadAssumption DEF GetRecord, AnyRow
<1> QED
  BY <1>1, <1>2

LEMMA AsRow ==
  ASSUME NEW type \in RowTypes, NEW row \in AnyRow
  PROVE  /\ As(type, row) \in Row
         /\ As(type, row).type = type
         /\ As(type, row).at0 = row.at0
         /\ As(type, row).at4 = row.at4
         /\ As(type, row).at8 = row.at8
BY DEF As, AnyRow, Row

-----------------------------------------------------------------------------
(* Advancing a loading loop, after the last put of an iteration.           *)
EndPhases == {"warehouse", "district", "history", "order_line", "stock", "item",
              "stock_again"}
LoopType == [w : Warehouses, d : Districts, n : Nat \ {0}, l : 1 .. MaxOlCnt]

LEMMA LastRowType ==
  ASSUME NEW p \in LoadPhases
  PROVE  /\ LastRow(p) \in LoopType
         /\ p \in EndPhases => AfterPhase(p) \in (LoadPhases \ {"order_line"}) \cup {"idle"}
         /\ NextIteration(p) \in LoadPhases \ {"order_line"}
         /\ LastRow(NextIteration(p)) = LastRow(p)
<1>1. 1 \in 1 .. MaxOlCnt /\ 1 \in Districts
  BY SizeAssumption DEF Districts
<1>2. /\ NextIteration(p) \in LoadPhases \ {"order_line"}
      /\ LastRow(NextIteration(p)) = LastRow(p)
  BY DEF NextIteration, LastRow, LoadPhases
<1>3. LastRow(p) \in LoopType
  BY <1>1, SizeAssumption DEF LastRow, LoadPhases, LoopType, Warehouses, Districts
<1>4. p \in EndPhases => AfterPhase(p) \in (LoadPhases \ {"order_line"}) \cup {"idle"}
  BY DEF AfterPhase, LoadPhases, EndPhases
<1> QED
  BY <1>2, <1>3, <1>4

LEMMA FirstRowOK ==
  /\ FirstRow \in LoopType /\ FirstRow.l = 1
  /\ \A p \in LoadPhases : FirstRow.d <= LastRow(p).d /\ FirstRow.n <= LastRow(p).n
<1>1. FirstRow \in LoopType /\ FirstRow.l = 1
  BY SizeAssumption DEF FirstRow, LoopType, Warehouses, Districts
<1>2. ASSUME NEW p \in LoadPhases
      PROVE  FirstRow.d <= LastRow(p).d /\ FirstRow.n <= LastRow(p).n
  <2>1. LastRow(p) \in LoopType
    BY LastRowType
  <2> QED
    BY <2>1 DEF FirstRow, LoopType, Districts
<1> QED
  BY <1>1, <1>2

LEMMA AdvanceOK ==
  ASSUME pc \in EndPhases, loop \in LoopType, LoopOK, Advance
  PROVE  /\ loop' \in LoopType
         /\ LoopOK'
         /\ pc' \in LoadPhases \cup {"idle"}
         /\ \/ pc' = NextIteration(pc)
            \/ /\ pc' = AfterPhase(pc) /\ loop' = FirstRow
               /\ loop.w = LastRow(pc).w /\ loop.d = LastRow(pc).d /\ loop.n = LastRow(pc).n
<1> DEFINE last == LastRow(pc)
<1>1. /\ last.w \in Nat /\ last.d \in Nat /\ last.n \in Nat
      /\ last.w <= NumWarehouse /\ last.d <= NumDistrict
      /\ NumWarehouse \in Nat /\ NumDistrict \in Nat /\ 1 \in 1 .. MaxOlCnt
      /\ LastRow(NextIteration(pc)) = last
      /\ NextIteration(pc) \in LoadPhases \ {"order_line"}
      /\ AfterPhase(pc) \in (LoadPhases \ {"order_line"}) \cup {"idle"}
  <2>1. pc \in LoadPhases
    BY DEF EndPhases, LoadPhases
  <2> QED
    BY <2>1, LastRowType, SizeAssumption DEF LoopType, Warehouses, Districts
<1>2. /\ loop.w \in 1 .. NumWarehouse /\ loop.d \in 1 .. NumDistrict /\ loop.n \in Nat \ {0}
      /\ loop.d <= last.d /\ loop.n <= last.n
      /\ loop = [w |-> loop.w, d |-> loop.d, n |-> loop.n, l |-> loop.l]
      /\ pc \in LoadPhases
  BY DEF EndPhases, LoadPhases, LoopOK, LoopType, Warehouses, Districts
<1> HIDE DEF last
<1>3. ASSUME NEW w \in 1 .. NumWarehouse, NEW d \in 1 .. NumDistrict, NEW n \in Nat \ {0},
             d <= last.d, n <= last.n,
             loop' = [w |-> w, d |-> d, n |-> n, l |-> 1], pc' = NextIteration(pc)
      PROVE  loop' \in LoopType /\ LoopOK'
  <2>1. loop' \in LoopType /\ loop'.d = d /\ loop'.n = n /\ loop'.l = 1
    BY <1>1, <1>3 DEF LoopType, Warehouses, Districts
  <2>2. LastRow(pc') = last /\ LastLine' = 1
    BY <1>1, <1>3 DEF LastLine
  <2> QED
    BY <1>3, <2>1, <2>2 DEF LoopOK
<1>4. CASE /\ loop.n < last.n
           /\ loop' = [loop EXCEPT !.n = @ + 1, !.l = 1]
           /\ pc' = NextIteration(pc)
  <2>1. loop' = [w |-> loop.w, d |-> loop.d, n |-> loop.n + 1, l |-> 1]
    BY <1>4 DEF LoopType
  <2>2. loop.n + 1 \in Nat \ {0} /\ loop.n + 1 <= last.n
    BY <1>1, <1>2, <1>4
  <2>3. loop' \in LoopType /\ LoopOK'
    BY <1>2, <1>3, <1>4, <2>1, <2>2
  <2> QED
    BY <1>1, <1>4, <2>3
<1>5. CASE /\ loop.n = last.n /\ loop.d < last.d
           /\ loop' = [loop EXCEPT !.d = @ + 1, !.n = 1, !.l = 1]
           /\ pc' = NextIteration(pc)
  <2> DEFINE d == loop.d + 1
  <2>1. loop' = [w |-> loop.w, d |-> d, n |-> 1, l |-> 1]
    BY <1>5 DEF LoopType
  <2>2. d \in 1 .. NumDistrict /\ d <= last.d /\ 1 <= last.n
    BY <1>1, <1>2, <1>5
  <2> HIDE DEF d
  <2>3. loop.w \in 1 .. NumWarehouse /\ 1 \in Nat \ {0}
    BY <1>2
  <2>4. loop' \in LoopType /\ LoopOK'
    BY <1>3, <1>5, <2>1, <2>2, <2>3
  <2> QED
    BY <1>1, <1>5, <2>4
<1>6. CASE /\ loop.n = last.n /\ loop.d = last.d /\ loop.w < last.w
           /\ loop' = [w |-> loop.w + 1, d |-> 1, n |-> 1, l |-> 1]
           /\ pc' = NextIteration(pc)
  <2>1. loop.w + 1 \in 1 .. NumWarehouse /\ 1 <= last.d /\ 1 <= last.n /\ 1 \in 1 .. NumDistrict
    BY <1>1, <1>2, <1>6
  <2>2. 1 \in Nat \ {0}
    OBVIOUS
  <2> DEFINE w == loop.w + 1
  <2>3. loop' = [w |-> w, d |-> 1, n |-> 1, l |-> 1]
    BY <1>6
  <2> HIDE DEF w
  <2>4. w \in 1 .. NumWarehouse
    BY <2>1 DEF w
  <2>5. loop' \in LoopType /\ LoopOK'
    BY <1>3, <1>6, <2>1, <2>2, <2>3, <2>4
  <2> QED
    BY <1>1, <1>6, <2>5
<1>7. CASE /\ loop.n = last.n /\ loop.d = last.d /\ loop.w = last.w
           /\ loop' = FirstRow
           /\ pc' = AfterPhase(pc)
  <2>1. loop' \in LoopType /\ loop'.l = 1
    BY <1>7, FirstRowOK
  <2>2. pc' \in LoadPhases => LastLine' = 1
    BY <1>1, <1>7 DEF LastLine
  <2>3. LoopOK'
    BY <1>7, <2>1, <2>2, FirstRowOK DEF LoopOK
  <2> QED
    BY <1>1, <1>7, <2>1, <2>3 DEF last
<1> QED
  BY <1>1, <1>4, <1>5, <1>6, <1>7 DEF Advance, last

(* A step within an iteration leaves the loops where they are.             *)
LEMMA GotoPutOK ==
  ASSUME loop \in LoopType, LoopOK, pc \in LoadPhases \ {"order_line"},
         NEW p \in LoadPhases, GotoPut(p), LastRow(p) = LastRow(pc)
  PROVE  loop' \in LoopType /\ LoopOK' /\ pc' = p
<1>1. loop' = loop /\ pc' = p
  BY DEF GotoPut
<1>2. loop.l = 1
  BY SizeAssumption DEF LoopOK, LastLine, LoopType
<1>3. 1 <= LastLine'
  <2>1. CASE p = "order_line"
    <3>1. loop.w \in Warehouses /\ loop.d \in Districts /\ loop.n \in Customers
      BY <1>1, <2>1, SizeAssumption DEF LoopOK, LoopType, LastRow, Customers
    <3>2. OrderLines[<<loop.w, loop.d, loop.n>>] \in MinOlCnt .. MaxOlCnt
      BY <3>1, LoadAssumption
    <3> QED
      BY <1>1, <2>1, <3>2, SizeAssumption DEF LastLine
  <2>2. CASE p # "order_line"
    BY <1>1, <2>2 DEF LastLine
  <2> QED
    BY <2>1, <2>2
<1> QED
  BY <1>1, <1>2, <1>3 DEF LoopOK

(* A step of the loader keeps the invariant when it keeps the store in     *)
(* order and the loops have left behind what they passed.                  *)
LEMMA LoadStepOK ==
  ASSUME IInv, UNCHANGED <<txn, done, crashes, lost>>,
         loop' \in LoopType, LoopOK', pc' \in LoadPhases \cup {"idle"},
         StoreOK(store'), Loaded'
  PROVE  IInv'
<1>1. TypeOK'
  BY DEF IInv, TypeOK, StoreOK, LoopType
<1>2. InFlight'
  BY DEF InFlight, LoadPhases, NewOrderLabels, PaymentLabels, DeliveryLabels, TxnLabels
<1> QED
  BY <1>1, <1>2 DEF IInv

LEMMA LoadWarehouseOK ==
  ASSUME IInv, LoadWarehouse, UNCHANGED <<txn, done, crashes, lost>>
  PROVE  IInv'
<1>1. /\ loop \in LoopType /\ LoopOK /\ StoreOK(store)
      /\ pc = "warehouse" /\ pc \in LoadPhases \cap EndPhases /\ Advance
  BY DEF EndPhases, IInv, TypeOK, LoopType, LoadWarehouse, LoadPhases
<1>2. PICK j \in Junk :
        store' = PutRecord(store, WarehouseKey(loop.w),
                           MakeRow("warehouse", j, j, WarehouseName[loop.w], j))
  BY DEF LoadWarehouse
<1>3. StoreOK(store')
  <2>1. loop.w \in Warehouses /\ j \in Int /\ WarehouseName[loop.w] \in Nat
    BY <1>1, LoadAssumption DEF LoopType
  <2>2. WarehouseKey(loop.w) \in 1 .. NumStock
    BY <2>1, LowKeys
  <2>3. /\ MakeRow("warehouse", j, j, WarehouseName[loop.w], j) \in Row
        /\ MakeRow("warehouse", j, j, WarehouseName[loop.w], j).at8 \in Nat
    BY <2>1 DEF MakeRow, Row, RowTypes
  <2> QED
    BY <1>1, <1>2, <2>2, <2>3, PutLow
<1>4. pc' = "warehouse" \/ (pc' = "district" /\ loop' = FirstRow)
  BY <1>1, AdvanceOK DEF AfterPhase, NextIteration
<1>5. Loaded'
  <2>1. CASE pc' = "warehouse"
    BY <2>1 DEF Loaded, OrderPhases
  <2>2. CASE pc' = "district" /\ loop' = FirstRow
    BY <2>2, SizeAssumption DEF Loaded, OrderPhases, FirstRow, Warehouses, Districts
  <2> QED
    BY <1>4, <2>1, <2>2
<1> QED
  BY <1>1, <1>3, <1>5, AdvanceOK, LoadStepOK

LEMMA LoadDistrictOK ==
  ASSUME IInv, LoadDistrict, UNCHANGED <<txn, done, crashes, lost>>
  PROVE  IInv'
<1> DEFINE k == MakeDistrictKey(loop.w, loop.d)
<1>1. /\ loop \in LoopType /\ LoopOK /\ StoreOK(store) /\ Loaded
      /\ pc = "district" /\ pc \in LoadPhases \cap EndPhases /\ Advance
  BY DEF EndPhases, IInv, TypeOK, LoopType, LoadDistrict, LoadPhases
<1>2. /\ loop.w \in Warehouses /\ loop.d \in Districts
      /\ LastRow(pc) = [w |-> NumWarehouse, d |-> NumDistrict, n |-> 1, l |-> 1]
      /\ loop.n = 1
  BY <1>1 DEF LoopType, LoopOK, LastRow
<1>3. StoreOK(store') /\ DOMAIN store' = DOMAIN store \cup {k}
  <2>1. PICK j \in Junk :
          store' = PutRecord(store, k, MakeRow("district", j, j, NumCustomer + 1, j))
    BY DEF LoadDistrict
  <2>2. k \in 1 .. NumStock /\ j \in Int /\ NumCustomer + 1 \in Nat
    BY <1>2, LowKeys, LoadAssumption, SizeAssumption
  <2>3. /\ MakeRow("district", j, j, NumCustomer + 1, j) \in Row
        /\ MakeRow("district", j, j, NumCustomer + 1, j).at8 \in Nat
    BY <2>2 DEF MakeRow, Row, RowTypes
  <2> QED
    BY <1>1, <2>1, <2>2, <2>3, PutLow
<1>4. \A w \in Warehouses, d \in Districts :
        (w < loop.w \/ (w = loop.w /\ d <= loop.d)) => MakeDistrictKey(w, d) \in DOMAIN store'
  BY <1>1, <1>2, <1>3 DEF Loaded, Districts
<1>5. ASSUME pc' = NextIteration(pc)
      PROVE  Loaded'
  <2>1. \A w \in Warehouses, d \in Districts :
          (w < loop'.w \/ (w = loop'.w /\ d < loop'.d))
            => (w < loop.w \/ (w = loop.w /\ d <= loop.d))
    <3>1. CASE loop.d < NumDistrict /\ loop' = [loop EXCEPT !.d = @ + 1, !.n = 1, !.l = 1]
      <4>1. loop'.w = loop.w /\ loop'.d = loop.d + 1
        BY <1>1, <3>1 DEF LoopType
      <4> QED
        BY <1>2, <4>1 DEF Warehouses, Districts
    <3>2. CASE /\ loop.d = NumDistrict
               /\ loop' = [w |-> loop.w + 1, d |-> 1, n |-> 1, l |-> 1]
      <4>1. loop'.w = loop.w + 1 /\ loop'.d = 1
        BY <3>2
      <4> QED
        BY <1>2, <3>2, <4>1 DEF Warehouses, Districts
    <3>3. NextIteration(pc) # AfterPhase(pc)
      BY <1>1 DEF AfterPhase, NextIteration
    <3> QED
      BY <1>1, <1>2, <1>5, <3>1, <3>2, <3>3 DEF Advance
  <2>2. pc' = "district"
    BY <1>1, <1>5 DEF NextIteration
  <2> QED
    BY <1>4, <2>1, <2>2 DEF Loaded, OrderPhases
<1>6. ASSUME pc' = AfterPhase(pc), loop.w = LastRow(pc).w, loop.d = LastRow(pc).d
      PROVE  Loaded'
  <2>1. DistrictKeys \subseteq DOMAIN store'
    BY <1>2, <1>4, <1>6 DEF DistrictKeys, Warehouses, Districts
  <2>2. pc' = "customer"
    BY <1>1, <1>6 DEF AfterPhase
  <2> QED
    BY <2>1, <2>2 DEF Loaded, OrderPhases
<1>7. Loaded'
  BY <1>1, <1>5, <1>6, AdvanceOK
<1> QED
  BY <1>1, <1>3, <1>7, AdvanceOK, LoadStepOK

(* Customers and orders leave the districts loaded.                        *)
LEMMA LaterLoaded ==
  ASSUME Loaded, pc \in OrderPhases,
         pc' \in OrderPhases \/ (pc' = "stock" /\ loop' = FirstRow),
         DOMAIN store \subseteq DOMAIN store'
  PROVE  Loaded'
<1>1. DistrictKeys \subseteq DOMAIN store'
  BY DEF Loaded, OrderPhases
<1>2. CASE pc' \in OrderPhases
  BY <1>1, <1>2 DEF Loaded, OrderPhases
<1>3. CASE pc' = "stock" /\ loop' = FirstRow
  BY <1>1, <1>3, SizeAssumption DEF Loaded, FirstRow, Warehouses, Items
<1> QED
  BY <1>2, <1>3

(* What the puts of customers and orders have in common: the loops' ids    *)
(* are those of a customer, a row goes under a key that is not flat, and   *)
(* the next put is one of theirs or the first of the stock.                *)
LEMMA OrderPhaseOK ==
  ASSUME IInv, pc \in OrderPhases
  PROVE  /\ loop.w \in Warehouses /\ loop.d \in Districts /\ loop.n \in Customers
         /\ loop.n \in Nat /\ loop \in LoopType /\ LoopOK /\ StoreOK(store) /\ Loaded
         /\ pc \in LoadPhases
<1>1. loop \in LoopType /\ LoopOK /\ StoreOK(store) /\ Loaded /\ pc \in LoadPhases
  BY DEF IInv, TypeOK, LoopType, OrderPhases, LoadPhases
<1>2. LastRow(pc).n = NumCustomer
  BY DEF LastRow, OrderPhases
<1> QED
  BY <1>1, <1>2 DEF LoopOK, LoopType, Customers

LEMMA OrderPhaseStepOK ==
  ASSUME IInv, pc \in OrderPhases, UNCHANGED <<txn, done, crashes, lost>>,
         StoreOK(store'), DOMAIN store \subseteq DOMAIN store',
         \/ pc \in {"history", "order_line"} /\ Advance
         \/ pc # "order_line" /\ \E p \in OrderPhases : GotoPut(p)
  PROVE  IInv'
<1>1. loop \in LoopType /\ LoopOK /\ Loaded /\ pc \in LoadPhases
  BY OrderPhaseOK
<1>2. CASE pc \in {"history", "order_line"} /\ Advance
  <2> pc \in EndPhases
    BY <1>2 DEF EndPhases
  <2>1. loop' \in LoopType /\ LoopOK' /\ pc' \in LoadPhases \cup {"idle"}
    BY <1>1, <1>2, AdvanceOK
  <2>2. pc' \in OrderPhases \/ (pc' = "stock" /\ loop' = FirstRow)
    <3>1. pc' = NextIteration(pc) \/ (pc' = AfterPhase(pc) /\ loop' = FirstRow)
      BY <1>1, <1>2, AdvanceOK
    <3>2. NextIteration(pc) \in OrderPhases /\ AfterPhase(pc) \in OrderPhases \cup {"stock"}
      BY <1>2 DEF NextIteration, AfterPhase, OrderPhases
    <3> QED
      BY <3>1, <3>2
  <2> QED
    BY <1>1, <2>1, <2>2, LaterLoaded, LoadStepOK
<1>3. CASE pc # "order_line" /\ \E p \in OrderPhases : GotoPut(p)
  <2>1. PICK p \in OrderPhases : GotoPut(p)
    BY <1>3
  <2>2. LastRow(p) = LastRow(pc) /\ p \in LoadPhases
    BY <2>1 DEF LastRow, OrderPhases, LoadPhases
  <2>3. loop' \in LoopType /\ LoopOK' /\ pc' = p
    BY <1>1, <1>3, <2>1, <2>2, GotoPutOK
  <2> QED
    BY <1>1, <2>1, <2>2, <2>3, LaterLoaded, LoadStepOK
<1> QED
  BY <1>2, <1>3

LEMMA IndexRowType ==
  ASSUME NEW key \in Int
  PROVE  /\ IndexRow(key) \in Row
         /\ MakeRow("customer_index", key % Word, key \div Word, 0, 0) \in Row
<1>1. Word \in Nat /\ Word > 0
  BY SizeAssumption
<1>2. key % Word \in Int /\ key \div Word \in Int
  BY <1>1
<1> QED
  BY <1>2 DEF IndexRow, MakeRow, Row, RowTypes

LEMMA JunkRow ==
  ASSUME NEW j \in Junk, NEW type \in RowTypes
  PROVE  MakeRow(type, j, j, j, j) \in Row
BY LoadAssumption DEF MakeRow, Row

LEMMA LoadCustomerOK ==
  ASSUME IInv, LoadCustomer, UNCHANGED <<txn, done, crashes, lost>>
  PROVE  IInv'
<1> DEFINE key == MakeCustomerKey(loop.w, loop.d, loop.n)
<1>1. pc = "customer" /\ pc \in OrderPhases /\ GotoPut("customer_index")
  BY DEF LoadCustomer, OrderPhases
<1>2. key \in Int \ FlatKeys /\ StoreOK(store)
  BY <1>1, OrderPhaseOK, OrderKeysNotFlat
<1>3. PICK j \in Junk : store' = PutRecord(store, key, MakeRow("customer", j, j, j, j))
  BY DEF LoadCustomer
<1> HIDE DEF key
<1>4. StoreOK(store') /\ DOMAIN store \subseteq DOMAIN store'
  BY <1>2, <1>3, JunkRow, PutClear DEF RowTypes
<1> QED
  BY <1>1, <1>4, OrderPhaseStepOK DEF OrderPhases

LEMMA LoadCustomerIndexOK ==
  ASSUME IInv, LoadCustomerIndex, UNCHANGED <<txn, done, crashes, lost>>
  PROVE  IInv'
<1> DEFINE key == MakeCustomerKey(loop.w, loop.d, loop.n)
           address == HeapAddress[<<loop.w, loop.d, loop.n>>]
           row == MakeRow("customer_index", key % Word, key \div Word, 0, 0)
<1>1. /\ pc = "customer_index" /\ pc \in OrderPhases /\ GotoPut("history")
      /\ store' = PutIfAbsent(store, address, row)
  BY DEF LoadCustomerIndex, OrderPhases
<1>2. key \in Int /\ StoreOK(store)
  BY <1>1, OrderPhaseOK, OrderKeysNotFlat
<1>3. address \in Int \ FlatKeys
  BY <1>1, OrderPhaseOK, LoadAssumption
<1> HIDE DEF key, address
<1>4. row \in Row
  BY <1>2, IndexRowType
<1> HIDE DEF row
<1>5. StoreOK(store') /\ DOMAIN store \subseteq DOMAIN store'
  BY <1>1, <1>2, <1>3, <1>4, PutIfAbsentClear
<1> QED
  BY <1>1, <1>5, OrderPhaseStepOK DEF OrderPhases

LEMMA LoadHistoryOK ==
  ASSUME IInv, LoadHistory, UNCHANGED <<txn, done, crashes, lost>>
  PROVE  IInv'
<1> DEFINE key == MakeHistoryKey(loop.w, loop.d, loop.w, loop.d, loop.n)
<1>1. pc = "history" /\ pc \in OrderPhases /\ Advance
  BY DEF LoadHistory, OrderPhases
<1>2. key \in Int \ FlatKeys /\ StoreOK(store)
  BY <1>1, OrderPhaseOK, HistoryKeyNotFlat
<1>3. PICK j \in Junk : store' = PutRecord(store, key, MakeRow("history", j, j, j, j))
  BY DEF LoadHistory
<1> HIDE DEF key
<1>4. StoreOK(store') /\ DOMAIN store \subseteq DOMAIN store'
  BY <1>2, <1>3, JunkRow, PutClear DEF RowTypes
<1> QED
  BY <1>1, <1>4, OrderPhaseStepOK

LEMMA LoadedOrderType ==
  ASSUME NEW w \in Warehouses, NEW d \in Districts, NEW c \in Customers
  PROVE  /\ OrderCustomer[<<w, d>>][c] \in Customers
         /\ OrderLines[<<w, d, c>>] \in MinOlCnt .. MaxOlCnt
         /\ \A carrier \in Int : LoadedOrder(w, d, c, carrier) \in Row
<1>1. OrderCustomer[<<w, d>>][c] \in Customers /\ OrderLines[<<w, d, c>>] \in MinOlCnt .. MaxOlCnt
  BY LoadAssumption
<1>2. OrderCustomer[<<w, d>>][c] \in Int /\ OrderLines[<<w, d, c>>] \in Int
  BY <1>1, SizeAssumption DEF Customers
<1> QED
  BY <1>1, <1>2 DEF LoadedOrder, MakeRow, Row, RowTypes

LEMMA LoadOrderOK ==
  ASSUME IInv, LoadOrder, UNCHANGED <<txn, done, crashes, lost>>
  PROVE  IInv'
<1> DEFINE key == MakeOrderKey(loop.w, loop.d, loop.n)
           carrier == IF Delivered(loop.n) THEN Carrier ELSE 0
           row == LoadedOrder(loop.w, loop.d, loop.n, carrier)
<1>1. /\ pc = "order" /\ pc \in OrderPhases /\ GotoPut("order_index")
      /\ store' = PutRecord(store, key, row)
  BY DEF LoadOrder, OrderPhases
<1>2. key \in Int \ FlatKeys /\ StoreOK(store)
  BY <1>1, OrderPhaseOK, OrderKeysNotFlat
<1>3. row \in Row
  <2>1. carrier \in Int
    BY DEF Carrier
  <2> HIDE DEF carrier
  <2> QED
    BY <1>1, <2>1, OrderPhaseOK, LoadedOrderType
<1> HIDE DEF key, row
<1>4. StoreOK(store') /\ DOMAIN store \subseteq DOMAIN store'
  BY <1>1, <1>2, <1>3, PutClear
<1> QED
  BY <1>1, <1>4, OrderPhaseStepOK DEF OrderPhases

LEMMA LoadOrderIndexOK ==
  ASSUME IInv, LoadOrderIndex, UNCHANGED <<txn, done, crashes, lost>>
  PROVE  IInv'
<1> DEFINE c_id == OrderCustomer[<<loop.w, loop.d>>][loop.n]
           key == MakeOrderIndexKey(loop.w, loop.d, c_id, loop.n)
           row == IndexRow(MakeOrderKey(loop.w, loop.d, loop.n))
           next == IF Delivered(loop.n) THEN "order_line" ELSE "new_order"
<1>1. /\ pc = "order_index" /\ pc \in OrderPhases /\ GotoPut(next)
      /\ store' = PutIfAbsent(store, key, row)
  BY DEF LoadOrderIndex, OrderPhases
<1>2. /\ key \in Int \ FlatKeys /\ StoreOK(store)
      /\ MakeOrderKey(loop.w, loop.d, loop.n) \in Int
  <2>1. /\ loop.w \in Warehouses /\ loop.d \in Districts /\ loop.n \in Customers
        /\ loop.n \in Int /\ StoreOK(store)
    BY <1>1, OrderPhaseOK
  <2>2. c_id \in Customers
    BY <2>1, LoadedOrderType
  <2> HIDE DEF c_id
  <2> QED
    BY <2>1, <2>2, IndexKeyNotFlat, OrderKeysNotFlat
<1>3. row \in Row
  BY <1>2, IndexRowType
<1> HIDE DEF key, row
<1>4. StoreOK(store') /\ DOMAIN store \subseteq DOMAIN store'
  BY <1>1, <1>2, <1>3, PutIfAbsentClear
<1>5. next \in OrderPhases
  BY DEF OrderPhases
<1> QED
  BY <1>1, <1>4, <1>5, OrderPhaseStepOK

LEMMA LoadNewOrderOK ==
  ASSUME IInv, LoadNewOrder, UNCHANGED <<txn, done, crashes, lost>>
  PROVE  IInv'
<1> DEFINE key == MakeNewOrderKey(loop.w, loop.d, loop.n)
<1>1. pc = "new_order" /\ pc \in OrderPhases /\ GotoPut("order_line")
  BY DEF LoadNewOrder, OrderPhases
<1>2. key \in Int \ FlatKeys /\ StoreOK(store)
  BY <1>1, OrderPhaseOK, OrderKeysNotFlat
<1>3. PICK j \in Junk : store' = PutRecord(store, key, MakeRow("new_order", j, j, j, j))
  BY DEF LoadNewOrder
<1> HIDE DEF key
<1>4. StoreOK(store') /\ DOMAIN store \subseteq DOMAIN store'
  BY <1>2, <1>3, JunkRow, PutClear DEF RowTypes
<1> QED
  BY <1>1, <1>4, OrderPhaseStepOK DEF OrderPhases

LEMMA LoadOrderLineOK ==
  ASSUME IInv, LoadOrderLine, UNCHANGED <<txn, done, crashes, lost>>
  PROVE  IInv'
<1> DEFINE w == loop.w
           d == loop.d
           c == loop.n
           l == loop.l
           ol_cnt == OrderLines[<<w, d, c>>]
           key == MakeOrderLineKey(w, d, c, l)
<1>1. pc = "order_line" /\ pc \in OrderPhases
  BY DEF LoadOrderLine, OrderPhases
<1>2. /\ w \in Warehouses /\ d \in Districts /\ c \in Customers /\ c \in Nat
      /\ loop \in LoopType /\ LoopOK /\ StoreOK(store) /\ Loaded /\ pc \in LoadPhases
  BY <1>1, OrderPhaseOK
<1>3. l \in 1 .. MaxOlCnt /\ l \in Nat /\ ol_cnt \in MinOlCnt .. MaxOlCnt
  <2>1. ol_cnt \in MinOlCnt .. MaxOlCnt
    BY <1>2, LoadedOrderType
  <2>2. l \in 1 .. MaxOlCnt
    BY <1>2 DEF LoopType
  <2> QED
    BY <2>1, <2>2, SizeAssumption
<1>4. PICK j \in Junk :
        store' = PutRecord(store, key, MakeRow("order_line", LineItem[<<w, d, c, l>>], w, 5, j))
  BY DEF LoadOrderLine
<1>5. key \in Int \ FlatKeys
  BY <1>2, <1>3, LineKeyNotFlat
<1>6. MakeRow("order_line", LineItem[<<w, d, c, l>>], w, 5, j) \in Row
  <2>1. LineItem[<<w, d, c, l>>] \in Items
    BY <1>2, <1>3, LoadAssumption
  <2>2. LineItem[<<w, d, c, l>>] \in Int /\ w \in Int /\ j \in Int
    BY <1>2, <2>1, LoadAssumption DEF Items, Warehouses
  <2> QED
    BY <2>2 DEF MakeRow, Row, RowTypes
<1>7. StoreOK(store') /\ DOMAIN store \subseteq DOMAIN store'
  <2> HIDE DEF key
  <2> QED
    BY <1>2, <1>4, <1>5, <1>6, PutClear
<1>8. CASE l < ol_cnt /\ loop' = [loop EXCEPT !.l = @ + 1] /\ pc' = pc
  <2>1. l + 1 \in 1 .. MaxOlCnt /\ l + 1 <= ol_cnt
    BY <1>3, <1>8, SizeAssumption
  <2>2. loop' = [w |-> w, d |-> d, n |-> c, l |-> l + 1]
    BY <1>2, <1>8 DEF LoopType
  <2>3. /\ loop' \in LoopType /\ loop'.w = w /\ loop'.d = d /\ loop'.n = c
        /\ loop'.l = l + 1
    BY <1>2, <2>1, <2>2 DEF LoopType
  <2>4. LoopOK'
    <3>1. LastRow(pc') = LastRow(pc) /\ LastLine' = ol_cnt
      BY <1>1, <1>8, <2>3 DEF LastLine
    <3> QED
      BY <1>2, <2>1, <2>3, <3>1 DEF LoopOK
  <2>5. Loaded'
    BY <1>1, <1>2, <1>7, <1>8, LaterLoaded
  <2> QED
    BY <1>2, <1>7, <1>8, <2>3, <2>4, <2>5, LoadStepOK
<1>9. CASE Advance
  BY <1>1, <1>7, <1>9, OrderPhaseStepOK
<1> QED
  BY <1>8, <1>9 DEF LoadOrderLine

LEMMA LoadItemOK ==
  ASSUME IInv, LoadItem, UNCHANGED <<txn, done, crashes, lost>>
  PROVE  IInv'
<1>1. /\ loop \in LoopType /\ LoopOK /\ StoreOK(store) /\ Loaded
      /\ pc = "item" /\ pc \in LoadPhases \cap EndPhases /\ Advance
  BY DEF EndPhases, IInv, TypeOK, LoopType, LoadItem, LoadPhases
<1>2. loop.n \in Items
  BY <1>1 DEF LoopType, LoopOK, LastRow, Items
<1>3. PICK j \in Junk :
        store' = PutRecord(store, ItemKey(loop.n), MakeRow("item", j, j, ItemName[loop.n], j))
  BY DEF LoadItem
<1>4. /\ MakeRow("item", j, j, ItemName[loop.n], j) \in Row
      /\ MakeRow("item", j, j, ItemName[loop.n], j).at8 \in Nat
  BY <1>2, <1>3, LoadAssumption DEF MakeRow, Row, RowTypes
<1>5. StoreOK(store') /\ DOMAIN store \subseteq DOMAIN store'
  <2>1. ItemKey(loop.n) \in 1 .. NumStock
    BY <1>2, LowKeys
  <2>2. StoreOK(store') /\ DOMAIN store' = DOMAIN store \cup {ItemKey(loop.n)}
    BY <1>1, <1>3, <1>4, <2>1, PutLow
  <2> QED
    BY <2>2
<1>6. pc' \in {"item", "stock_again"}
  BY <1>1, AdvanceOK DEF AfterPhase, NextIteration
<1>7. Loaded'
  BY <1>1, <1>5, <1>6 DEF Loaded, OrderPhases
<1> QED
  BY <1>1, <1>5, <1>7, AdvanceOK, LoadStepOK

LEMMA StockRowOK ==
  /\ StockRow \in Row
  /\ StockOK(StockRow)
<1>1. StockQuantity \in 10 .. 100
  BY LoadAssumption
<1> QED
  BY <1>1 DEF StockRow, MakeRow, Row, RowTypes, StockOK

LEMMA LoadStockOK ==
  ASSUME IInv, LoadStock, UNCHANGED <<txn, done, crashes, lost>>
  PROVE  IInv'
<1> DEFINE k == MakeStockKey(loop.w, loop.n)
<1>1. /\ loop \in LoopType /\ LoopOK /\ StoreOK(store) /\ Loaded
      /\ pc \in {"stock", "stock_again"} /\ pc \in LoadPhases \cap EndPhases /\ Advance
  BY DEF EndPhases, IInv, TypeOK, LoopType, LoadStock, LoadPhases
<1>2. /\ loop.w \in Warehouses /\ loop.n \in Items
      /\ LastRow(pc) = [w |-> NumWarehouse, d |-> 1, n |-> NumItem, l |-> 1]
      /\ loop.d = 1
  BY <1>1 DEF LoopType, LoopOK, LastRow, Items, Districts
<1>3. StoreOK(store') /\ DOMAIN store' = DOMAIN store \cup {k}
  <2>1. store' = PutRecord(store, k, StockRow)
    BY DEF LoadStock
  <2>2. k \in StockKeys
    BY <1>2 DEF StockKeys
  <2>3. k \in Int /\ k \notin DistrictKeys
    <3>1. k \in FlatKeys
      BY <2>2, ProtectedFlat
    <3>2. (NumWarehouse + 1) * NumStock \in Nat
      BY SizeAssumption
    <3>3. k \in Int
      BY <3>1, <3>2 DEF FlatKeys
    <3> QED
      BY <2>2, <3>3, ProtectedFlat
  <2> QED
    BY <1>1, <2>1, <2>3, PutOK, StockRowOK
<1>4. CASE pc = "stock"
  <2>1. \A w \in Warehouses, i \in Items :
          (w < loop.w \/ (w = loop.w /\ i <= loop.n)) => MakeStockKey(w, i) \in DOMAIN store'
    BY <1>1, <1>2, <1>3, <1>4 DEF Loaded, Items
  <2>2. DistrictKeys \subseteq DOMAIN store'
    BY <1>1, <1>3, <1>4 DEF Loaded, OrderPhases
  <2>3. ASSUME pc' = NextIteration(pc)
        PROVE  Loaded'
    <3>1. \A w \in Warehouses, i \in Items :
            (w < loop'.w \/ (w = loop'.w /\ i < loop'.n))
              => (w < loop.w \/ (w = loop.w /\ i <= loop.n))
      <4>1. CASE loop.n < NumItem /\ loop' = [loop EXCEPT !.n = @ + 1, !.l = 1]
        <5>1. loop'.w = loop.w /\ loop'.n = loop.n + 1
          BY <1>1, <4>1 DEF LoopType
        <5> QED
          BY <1>2, <5>1 DEF Warehouses, Items
      <4>2. CASE loop.n = NumItem /\ loop' = [w |-> loop.w + 1, d |-> 1, n |-> 1, l |-> 1]
        <5>1. loop'.w = loop.w + 1 /\ loop'.n = 1
          BY <4>2
        <5> QED
          BY <1>2, <4>2, <5>1 DEF Warehouses, Items
      <4>3. NextIteration(pc) # AfterPhase(pc)
        BY <1>4 DEF AfterPhase, NextIteration
      <4> QED
        BY <1>1, <1>2, <2>3, <4>1, <4>2, <4>3 DEF Advance
    <3>2. pc' = "stock"
      BY <1>4, <2>3 DEF NextIteration
    <3> QED
      BY <2>1, <2>2, <3>1, <3>2 DEF Loaded
  <2>4. ASSUME pc' = AfterPhase(pc), loop.w = LastRow(pc).w, loop.n = LastRow(pc).n
        PROVE  Loaded'
    <3>1. StockKeys \subseteq DOMAIN store'
      BY <1>2, <2>1, <2>4 DEF StockKeys, Warehouses, Items
    <3>2. pc' = "item"
      BY <1>4, <2>4 DEF AfterPhase
    <3> QED
      BY <2>2, <3>1, <3>2 DEF Loaded, OrderPhases
  <2>5. Loaded'
    BY <1>1, <2>3, <2>4, AdvanceOK
  <2> QED
    BY <1>1, <1>3, <2>5, AdvanceOK, LoadStepOK
<1>5. CASE pc = "stock_again"
  <2>1. DistrictKeys \subseteq DOMAIN store' /\ StockKeys \subseteq DOMAIN store'
    BY <1>1, <1>3, <1>5 DEF Loaded, OrderPhases
  <2>2. pc' \in {"stock_again", "idle"}
    BY <1>1, <1>5, AdvanceOK DEF AfterPhase, NextIteration
  <2>3. Loaded'
    BY <2>1, <2>2 DEF Loaded, OrderPhases
  <2> QED
    BY <1>1, <1>3, <2>3, AdvanceOK, LoadStepOK
<1> QED
  BY <1>1, <1>4, <1>5
-----------------------------------------------------------------------------
(* What every step of a transaction does to the store: it stays in order   *)
(* and loses nothing, whether the put worked or was refused.               *)
StoreStep ==
  StoreOK(store') /\ DOMAIN store \subseteq DOMAIN store' /\ lost' \in 0 .. MaxLost

LEMMA PutStep ==
  ASSUME IInv, NEW k \in Int, NEW row \in Row, Put(k, row),
         k \in StockKeys => StockOK(row),
         k \in DistrictKeys => row.at8 \in Nat
  PROVE  StoreStep
<1>1. StoreOK(store) /\ lost \in 0 .. MaxLost /\ MaxLost \in Nat
  BY PoolAssumption DEF IInv, TypeOK
<1>2. CASE store' = PutRecord(store, k, row) /\ UNCHANGED lost
  <2>1. StoreOK(store') /\ DOMAIN store' = DOMAIN store \cup {k}
    BY <1>1, <1>2, PutOK
  <2> QED
    BY <1>1, <1>2, <2>1 DEF StoreStep
<1>3. CASE lost < MaxLost /\ lost' = lost + 1 /\ UNCHANGED store
  BY <1>1, <1>3 DEF StoreStep
<1> QED
  BY <1>2, <1>3 DEF Put

LEMMA NoPutStep ==
  ASSUME IInv, UNCHANGED <<store, lost>>
  PROVE  StoreStep
BY DEF IInv, TypeOK, StoreStep

LEMMA PutClearStep ==
  ASSUME IInv, NEW k \in Int \ FlatKeys, NEW row \in Row, Put(k, row)
  PROVE  StoreStep
BY PutStep, ProtectedFlat

LEMMA PutLowStep ==
  ASSUME IInv, NEW k \in 1 .. NumStock, NEW row \in Row, row.at8 \in Nat, Put(k, row)
  PROVE  StoreStep
<1>1. k \in Int /\ k \notin StockKeys
  BY LowNotStock, SizeAssumption
<1> QED
  BY <1>1, PutStep

(* A step of a transaction keeps the invariant when it keeps the store in  *)
(* order, deletes nothing, and leaves locals that fit the next step.       *)
LEMMA TxnStepOK ==
  ASSUME IInv, pc \in TxnLabels \cup {"idle"}, pc' \in TxnLabels,
         UNCHANGED <<loop, done, crashes>>, StoreStep,
         txn' \in Txn, InFlight'
  PROVE  IInv'
<1>1. TypeOK'
  BY DEF IInv, TypeOK, StoreOK, StoreStep
<1>2. LoopOK'
  BY DEF LoopOK, TxnLabels, LoadPhases
<1>3. Loaded'
  <2>1. DistrictKeys \subseteq DOMAIN store /\ StockKeys \subseteq DOMAIN store
    BY DEF IInv, Loaded, TxnLabels, OrderPhases
  <2> QED
    BY <2>1 DEF Loaded, TxnLabels, OrderPhases, StoreStep
<1> QED
  BY <1>1, <1>2, <1>3 DEF IInv, StoreStep

LEMMA NoTxnType == NoTxn \in Txn
BY DEF NoTxn, Txn

(* The last step of a transaction.                                         *)
LEMMA EndTxnOK ==
  ASSUME IInv, pc \in TxnLabels \cup {"idle"}, done < MaxTxn, EndTxn,
         UNCHANGED <<loop, crashes>>, StoreStep
  PROVE  IInv'
<1>1. pc' = "idle" /\ txn' = NoTxn /\ done' = done + 1
  BY DEF EndTxn
<1>2. done' \in 0 .. MaxTxn
  BY <1>1, PoolAssumption DEF IInv, TypeOK
<1>3. TypeOK'
  BY <1>1, <1>2, NoTxnType DEF IInv, TypeOK, StoreOK, StoreStep
<1>4. LoopOK' /\ InFlight'
  BY <1>1 DEF LoopOK, LoadPhases, InFlight, NewOrderLabels, PaymentLabels,
              DeliveryLabels, TxnLabels
<1>5. Loaded'
  <2>1. DistrictKeys \subseteq DOMAIN store /\ StockKeys \subseteq DOMAIN store
    BY DEF IInv, Loaded, TxnLabels, OrderPhases
  <2> QED
    BY <1>1, <2>1 DEF Loaded, OrderPhases, StoreStep
<1> QED
  BY <1>3, <1>4, <1>5 DEF IInv, StoreStep

(* A line of the order, and the stock row it names.                        *)
LEMMA LineAtOK ==
  ASSUME txn \in Txn, NEW n \in 1 .. Generated
  PROVE  /\ LineAt(n) \in Line
         /\ StockKeyOf(LineAt(n)) \in StockKeys
<1>1. txn.local \in Seq(Line) /\ txn.remote \in Seq(Line)
  BY DEF Txn
<1> SUFFICES LineAt(n) \in Line
  BY DEF Line, StockKeyOf, StockKeys
<1>2. CASE IsLocal(n)
  <2>1. n \in 1 .. Len(txn.local)
    BY <1>1, <1>2 DEF IsLocal, Generated
  <2> QED
    BY <1>1, <1>2, <2>1 DEF LineAt
<1>3. CASE ~IsLocal(n)
  <2> DEFINE a == Len(txn.local)
             b == Len(txn.remote)
  <2>1. a \in Nat /\ b \in Nat /\ Generated = a + b /\ ~(n <= a)
    BY <1>1, <1>3 DEF Generated, IsLocal
  <2> HIDE DEF a, b
  <2>2. n \in Int /\ n <= Generated
    BY <2>1
  <2>3. n - a \in 1 .. b
    BY <2>1, <2>2
  <2>4. n - Len(txn.local) \in 1 .. Len(txn.remote)
    BY <2>3 DEF a, b
  <2> QED
    BY <1>1, <1>3, <2>4 DEF LineAt
<1> QED
  BY <1>2, <1>3

(* What a step of a transaction may rely on.                               *)
LEMMA InTxn ==
  ASSUME IInv, pc \in TxnLabels
  PROVE  /\ txn \in Txn /\ txn.w \in Warehouses /\ txn.d \in Districts /\ txn.o \in Nat
         /\ done < MaxTxn
         /\ StoreOK(store)
         /\ DistrictKeys \subseteq DOMAIN store /\ StockKeys \subseteq DOMAIN store
BY DEF IInv, TypeOK, InFlight, Loaded, OrderPhases, TxnLabels, NewOrderLabels,
       PaymentLabels, DeliveryLabels

LEMMA NewOrderOK ==
  ASSUME IInv, NewOrder
  PROVE  IInv'
<1>1. /\ pc = "idle" /\ done < MaxTxn /\ pc' = "no_generate"
      /\ UNCHANGED <<store, lost, loop, done, crashes>>
  BY DEF NewOrder, Idle, Goto
<1>2. PICK w \in HomeWarehouses, d \in Districts, c \in CustomerPool,
           num \in MinOlCnt .. MaxOlCnt :
        txn' = [NoTxn EXCEPT !.w = w, !.d = d, !.c = c, !.num = num]
  BY DEF NewOrder
<1>3. /\ txn'.w = w /\ txn'.d = d /\ txn'.c = c /\ txn'.num = num /\ txn'.o = 0
      /\ w \in Warehouses /\ c \in Customers /\ num \in Nat /\ num >= 1
  BY <1>2, PoolAssumption, SizeAssumption DEF NoTxn, HomeWarehouses, Warehouses
<1>4. txn' \in Txn
  <2>1. w \in Nat /\ d \in Nat /\ c \in Int
    BY <1>3 DEF Warehouses, Districts, Customers
  <2> QED
    BY <1>2, <1>3, <2>1, NoTxnType DEF Txn
<1>5. InFlight'
  BY <1>1, <1>3 DEF InFlight, NewOrderLabels, PaymentLabels, DeliveryLabels
<1>6. pc \in TxnLabels \cup {"idle"} /\ pc' \in TxnLabels
  BY <1>1 DEF TxnLabels
<1>7. StoreStep
  BY <1>1, NoPutStep
<1> QED
  BY <1>1, <1>4, <1>5, <1>6, <1>7, TxnStepOK

LEMMA GenerateLocalOK ==
  ASSUME IInv, GenerateLocal
  PROVE  IInv'
<1>1. /\ pc = "no_generate" /\ pc' = "no_generate" /\ pc \in TxnLabels
      /\ UNCHANGED <<store, lost, loop, done, crashes>>
  BY DEF GenerateLocal, Goto, TxnLabels
<1>2. txn \in Txn /\ txn.w \in Warehouses /\ StoreOK(store)
  BY <1>1, InTxn
<1>3. PICK i \in ItemPool :
        txn' = [txn EXCEPT !.local = Append(@, [item |-> i, supply |-> txn.w])]
  BY DEF GenerateLocal
<1> DEFINE line == [item |-> i, supply |-> txn.w]
<1>4. line \in Line
  BY <1>2, PoolAssumption DEF Line
<1> HIDE DEF line
<1>5. Append(txn.local, line) \in Seq(Line)
  BY <1>2, <1>4 DEF Txn
<1>6. txn' = [txn EXCEPT !.local = Append(txn.local, line)]
  BY <1>3 DEF line
<1>7. txn' \in Txn
  BY <1>2, <1>5, <1>6 DEF Txn
<1>8. InFlight'
  <2>1. /\ txn'.w = txn.w /\ txn'.d = txn.d /\ txn'.o = txn.o
        /\ txn'.c = txn.c /\ txn'.num = txn.num
    BY <1>2, <1>6 DEF Txn
  <2> QED
    BY <1>1, <2>1 DEF IInv, InFlight, NewOrderLabels, PaymentLabels, DeliveryLabels
<1> QED
  BY <1>1, <1>2, <1>7, <1>8, NoPutStep, TxnStepOK

LEMMA GenerateRemoteOK ==
  ASSUME IInv, GenerateRemote
  PROVE  IInv'
<1>1. /\ pc = "no_generate" /\ pc' = "no_generate" /\ pc \in TxnLabels
      /\ UNCHANGED <<store, lost, loop, done, crashes>>
  BY DEF GenerateRemote, Goto, TxnLabels
<1>2. txn \in Txn /\ txn.w \in Warehouses /\ StoreOK(store)
  BY <1>1, InTxn
<1>3. PICK i \in ItemPool, supply \in Warehouses \ {txn.w} :
        LET line == [item |-> i, supply |-> supply] IN
        txn' = [txn EXCEPT !.all_local = 0,
                           !.remote = IF StockKeyOf(line) \in StockSet THEN @
                                      ELSE Append(@, line)]
  BY DEF GenerateRemote
<1> DEFINE line == [item |-> i, supply |-> supply]
           remote == IF StockKeyOf(line) \in StockSet THEN txn.remote
                     ELSE Append(txn.remote, line)
<1>4. line \in Line
  BY <1>2, PoolAssumption DEF Line
<1>5. txn' = [txn EXCEPT !.all_local = 0, !.remote = remote]
  BY <1>3
<1> HIDE DEF line
<1>6. remote \in Seq(Line)
  BY <1>2, <1>4 DEF Txn
<1> HIDE DEF remote
<1>7. txn' \in Txn
  BY <1>2, <1>5, <1>6 DEF Txn
<1>8. InFlight'
  <2>1. /\ txn'.w = txn.w /\ txn'.d = txn.d /\ txn'.o = txn.o
        /\ txn'.c = txn.c /\ txn'.num = txn.num
    BY <1>2, <1>5 DEF Txn
  <2> QED
    BY <1>1, <2>1 DEF IInv, InFlight, NewOrderLabels, PaymentLabels, DeliveryLabels
<1> QED
  BY <1>1, <1>2, <1>7, <1>8, NoPutStep, TxnStepOK

LEMMA StartRunOK ==
  ASSUME IInv, StartRun
  PROVE  IInv'
<1>1. /\ pc = "no_generate" /\ pc' = "no_district" /\ pc \in TxnLabels /\ pc' \in TxnLabels
      /\ Generated = txn.num
      /\ UNCHANGED <<store, lost, loop, txn, done, crashes>>
  BY DEF StartRun, Goto, TxnLabels
<1>2. txn \in Txn /\ StoreOK(store)
  BY <1>1, InTxn
<1>3. InFlight'
  BY <1>1 DEF IInv, InFlight, NewOrderLabels, PaymentLabels, DeliveryLabels, Generated, TxnLabels
<1> QED
  BY <1>1, <1>2, <1>3, NoPutStep, TxnStepOK

LEMMA TakeOrderIdOK ==
  ASSUME IInv, TakeOrderId
  PROVE  IInv'
<1> DEFINE k == MakeDistrictKey(txn.w, txn.d)
<1>1. /\ pc = "no_district" /\ pc' = "no_new_order" /\ pc \in TxnLabels /\ pc' \in TxnLabels
      /\ UNCHANGED <<loop, done, crashes>>
  BY DEF TakeOrderId, Goto, TxnLabels
<1>2. /\ txn \in Txn /\ txn.w \in Warehouses /\ txn.d \in Districts
      /\ StoreOK(store) /\ DistrictKeys \subseteq DOMAIN store
  BY <1>1, InTxn
<1>3. PICK dist_val \in GetRecord(store, k) :
        /\ txn' = [txn EXCEPT !.o = dist_val.at8]
        /\ Put(k, As("district", [dist_val EXCEPT !.at8 = @ + 1]))
  BY DEF TakeOrderId
<1>4. k \in DistrictKeys /\ k \in 1 .. NumStock
  BY <1>2, LowKeys DEF DistrictKeys
<1> HIDE DEF k
<1>5. dist_val \in AnyRow /\ dist_val.at8 \in Nat
  BY <1>2, <1>4, GetWords DEF StoreOK
<1> DEFINE row == [dist_val EXCEPT !.at8 = dist_val.at8 + 1]
<1>6. row \in AnyRow /\ row.at8 \in Nat
  BY <1>5 DEF AnyRow
<1> HIDE DEF row
<1>7. As("district", row) \in Row /\ As("district", row).at8 \in Nat
  BY <1>6, AsRow DEF RowTypes
<1>8. StoreStep
  BY <1>2, <1>3, <1>4, <1>7, PutLowStep DEF row
<1>9. txn' \in Txn
  <2> DEFINE o == dist_val.at8
  <2>1. o \in Int /\ txn' = [txn EXCEPT !.o = o]
    BY <1>3, <1>5
  <2> HIDE DEF o
  <2> QED
    BY <1>2, <2>1 DEF Txn
<1>10. InFlight'
  <2>1. /\ txn'.w = txn.w /\ txn'.d = txn.d /\ txn'.o \in Nat
        /\ txn'.c = txn.c /\ txn'.num = txn.num
        /\ txn'.local = txn.local /\ txn'.remote = txn.remote
    BY <1>2, <1>3, <1>5 DEF Txn
  <2> QED
    BY <1>1, <1>2, <2>1
    DEF IInv, InFlight, NewOrderLabels, PaymentLabels, DeliveryLabels, Generated, TxnLabels
<1> QED
  BY <1>1, <1>8, <1>9, <1>10, TxnStepOK

LEMMA InsertNewOrderOK ==
  ASSUME IInv, InsertNewOrder
  PROVE  IInv'
<1> DEFINE k == MakeNewOrderKey(txn.w, txn.d, txn.o)
<1>1. /\ pc = "no_new_order" /\ pc' = "no_order" /\ pc \in TxnLabels /\ pc' \in TxnLabels
      /\ UNCHANGED <<loop, txn, done, crashes>>
  BY DEF InsertNewOrder, Goto, TxnLabels
<1>2. txn \in Txn /\ StoreOK(store) /\ k \in Int \ FlatKeys
  <2>1. txn \in Txn /\ txn.w \in Warehouses /\ txn.d \in Districts /\ txn.o \in Int
    BY <1>1, InTxn
  <2> QED
    BY <1>1, <2>1, InTxn, OrderKeysNotFlat
<1> HIDE DEF k
<1>3. PICK j \in Junk : Put(k, MakeRow("new_order", j, j, j, j))
  BY DEF InsertNewOrder, k
<1>4. MakeRow("new_order", j, j, j, j) \in Row
  BY LoadAssumption DEF MakeRow, Row, RowTypes
<1>5. StoreStep
  BY <1>2, <1>3, <1>4, PutClearStep
<1>6. InFlight'
  BY <1>1 DEF IInv, InFlight, NewOrderLabels, PaymentLabels, DeliveryLabels, TxnLabels, Generated
<1> QED
  BY <1>1, <1>2, <1>5, <1>6, TxnStepOK

LEMMA InsertOrderOK ==
  ASSUME IInv, InsertOrder
  PROVE  IInv'
<1> DEFINE row == MakeRow("order", txn.c, 0, txn.num, txn.all_local)
<1>1. /\ pc = "no_order" /\ pc' = "no_index" /\ pc \in TxnLabels /\ pc' \in TxnLabels
      /\ UNCHANGED <<loop, txn, done, crashes>>
      /\ Put(OrderKey, row)
  BY DEF InsertOrder, Goto, TxnLabels
<1>2. /\ txn \in Txn /\ StoreOK(store)
      /\ txn.w \in Warehouses /\ txn.d \in Districts /\ txn.o \in Int
  BY <1>1, InTxn
<1>3. OrderKey \in Int \ FlatKeys
  BY <1>2, OrderKeysNotFlat DEF OrderKey
<1>4. row \in Row
  BY <1>2 DEF Txn, MakeRow, Row, RowTypes
<1> HIDE DEF row
<1>5. StoreStep
  BY <1>1, <1>2, <1>3, <1>4, PutClearStep
<1>6. InFlight'
  BY <1>1 DEF IInv, InFlight, NewOrderLabels, PaymentLabels, DeliveryLabels, TxnLabels, Generated
<1> QED
  BY <1>1, <1>2, <1>5, <1>6, TxnStepOK

LEMMA InsertOrderIndexOK ==
  ASSUME IInv, InsertOrderIndex
  PROVE  IInv'
<1> DEFINE k == MakeOrderIndexKey(txn.w, txn.d, txn.c, txn.o)
<1>1. /\ pc = "no_index" /\ pc' = "no_stock" /\ pc \in TxnLabels /\ pc' \in TxnLabels
      /\ UNCHANGED <<loop, done, crashes>>
      /\ Put(k, IndexRow(OrderKey))
      /\ txn' = [txn EXCEPT !.n = 1]
  BY DEF InsertOrderIndex, Goto, TxnLabels
<1>2. /\ txn \in Txn /\ StoreOK(store)
      /\ txn.w \in Warehouses /\ txn.d \in Districts /\ txn.o \in Nat
  BY <1>1, InTxn
<1>3. txn.c \in Customers /\ Generated = txn.num /\ txn.num >= 1
  BY <1>1 DEF IInv, InFlight, NewOrderLabels
<1>4. OrderKey \in Int
  BY <1>2, OrderKeysNotFlat DEF OrderKey
<1>5. k \in Int \ FlatKeys
  BY <1>2, <1>3, IndexKeyNotFlat
<1> HIDE DEF k
<1>6. StoreStep
  BY <1>1, <1>2, <1>4, <1>5, IndexRowType, PutClearStep
<1>7. txn' \in Txn
  BY <1>1, <1>2 DEF Txn
<1>8. InFlight'
  <2>1. /\ txn'.w = txn.w /\ txn'.d = txn.d /\ txn'.o = txn.o /\ txn'.c = txn.c
        /\ txn'.num = txn.num /\ txn.num \in Nat /\ txn'.n = 1
        /\ txn'.local = txn.local /\ txn'.remote = txn.remote
    BY <1>1, <1>2 DEF Txn
  <2>2. 1 \in 1 .. txn.num
    BY <1>3, <2>1
  <2> QED
    BY <1>1, <1>2, <1>3, <2>1, <2>2
    DEF IInv, InFlight, NewOrderLabels, PaymentLabels, DeliveryLabels, Generated, TxnLabels
<1> QED
  BY <1>1, <1>6, <1>7, <1>8, TxnStepOK

(* The restocking rule: with 10 .. 100 in stock and at most 10 taken the   *)
(* unsigned difference is the difference, and 10 .. 100 are left.          *)
LEMMA NewQuantityBounds ==
  ASSUME NEW s \in 10 .. 100, NEW q \in 1 .. 10
  PROVE  /\ NewQuantity(s, q) \in 10 .. 100
         /\ NewQuantity(s, q) \in {s - q, s - q + 91}
<1>1. Word \in Nat /\ 100 < Word
  BY SizeAssumption
<1>2. s - q \in 0 .. Word - 1
  BY <1>1
<1>3. (s - q) % Word = s - q
  BY <1>1, <1>2
<1> QED
  BY <1>3 DEF NewQuantity

(* The three words UpdateStock changes, one after the other.               *)
ChangeStock(row, a0, a4, a12) == [row EXCEPT !.at0 = a0, !.at4 = a4, !.at12 = a12]

LEMMA StockWords ==
  ASSUME NEW row \in AnyRow, NEW a0 \in Int, NEW a4 \in Int, NEW a12 \in Int
  PROVE  /\ ChangeStock(row, a0, a4, a12) \in AnyRow
         /\ ChangeStock(row, a0, a4, a12).at0 = a0
         /\ ChangeStock(row, a0, a4, a12).at4 = a4
<1> DEFINE r1 == [row EXCEPT !.at0 = a0]
           r2 == [r1 EXCEPT !.at4 = a4]
           r3 == [r2 EXCEPT !.at12 = a12]
<1>1. r1 \in AnyRow /\ r1.at0 = a0
  BY DEF AnyRow
<1>2. ChangeStock(row, a0, a4, a12) = r3
  BY DEF ChangeStock
<1> HIDE DEF r1
<1>3. r2 \in AnyRow /\ r2.at0 = a0 /\ r2.at4 = a4
  BY <1>1 DEF AnyRow
<1> HIDE DEF r2
<1>4. r3 \in AnyRow /\ r3.at0 = a0 /\ r3.at4 = a4
  BY <1>3 DEF AnyRow
<1> QED
  BY <1>2, <1>4

LEMMA UpdateStockOK ==
  ASSUME IInv, UpdateStock
  PROVE  IInv'
<1> DEFINE line == LineAt(txn.n)
           k == StockKeyOf(line)
<1>1. /\ pc = "no_stock" /\ pc' = "no_line" /\ pc \in TxnLabels /\ pc' \in TxnLabels
      /\ UNCHANGED <<loop, done, crashes>>
  BY DEF UpdateStock, Goto, TxnLabels
<1>2. txn \in Txn /\ StoreOK(store) /\ StockKeys \subseteq DOMAIN store
  BY <1>1, InTxn
<1>3. k \in StockKeys
  <2>1. txn.n \in 1 .. Generated
    BY <1>1 DEF IInv, InFlight, NewOrderLabels
  <2> QED
    BY <1>2, <2>1, LineAtOK
<1>4. PICK q \in QuantityPool, stock_val \in GetRecord(store, k) :
        /\ txn' = [txn EXCEPT !.quantity = q]
        /\ Put(k, As("stock",
                      [stock_val EXCEPT !.at0 = NewQuantity(@, q),
                                        !.at4 = @ + q,
                                        !.at12 = @ + RemoteCount(line)]))
  BY DEF UpdateStock
<1>5. RemoteCount(line) \in {0, 1}
  BY DEF RemoteCount
<1> HIDE DEF k
<1>6. stock_val \in AnyRow /\ StockOK(stock_val) /\ stock_val.at0 \in 10 .. 100
  BY <1>2, <1>3, <1>4, GetWords DEF StoreOK, StockOK
<1>7. /\ q \in 1 .. 10
      /\ NewQuantity(stock_val.at0, q) \in 10 .. 100
      /\ NewQuantity(stock_val.at0, q) \in {stock_val.at0 - q, stock_val.at0 - q + 91}
  BY <1>6, NewQuantityBounds, PoolAssumption
<1> DEFINE a0 == NewQuantity(stock_val.at0, q)
           a4 == stock_val.at4 + q
           a12 == stock_val.at12 + RemoteCount(line)
           row == ChangeStock(stock_val, a0, a4, a12)
<1>8. /\ row \in AnyRow /\ row.at0 \in 10 .. 100
      /\ (row.at0 + row.at4) % 91 = StockQuantity % 91
  <2>1. a0 \in 10 .. 100 /\ a4 \in Int /\ a12 \in Int
    BY <1>5, <1>6, <1>7 DEF AnyRow
  <2>2. (a0 + a4) % 91 = StockQuantity % 91
    <3> DEFINE s0 == stock_val.at0
               s4 == stock_val.at4
               sum == s0 + s4
    <3>1. s0 \in Int /\ s4 \in Int /\ q \in Int /\ sum % 91 = StockQuantity % 91
      BY <1>6, <1>7 DEF AnyRow, StockOK
    <3>2. a0 + a4 \in {sum, sum + 91}
      BY <1>7, <3>1
    <3> HIDE DEF s0, s4
    <3>3. sum \in Int
      BY <3>1
    <3> HIDE DEF sum
    <3>4. (sum + 91) % 91 = sum % 91
      BY <3>3
    <3> HIDE DEF a0, a4
    <3> QED
      BY <3>1, <3>2, <3>4
  <2> HIDE DEF a0, a4, a12
  <2>3. a0 \in Int
    BY <2>1
  <2>4. row \in AnyRow /\ row.at0 = a0 /\ row.at4 = a4
    BY <1>6, <2>1, <2>3, StockWords
  <2> QED
    BY <2>1, <2>2, <2>4
<1>9. Put(k, As("stock", row))
  BY <1>4 DEF ChangeStock
<1> HIDE DEF row
<1>10. As("stock", row) \in Row /\ StockOK(As("stock", row))
  BY <1>8, AsRow DEF RowTypes, StockOK
<1>11. StoreStep
  <2>1. k \in Int /\ k \notin DistrictKeys
    BY <1>2, <1>3, ProtectedFlat DEF StoreOK
  <2> QED
    BY <1>2, <1>9, <1>10, <2>1, PutStep
<1>12. txn' \in Txn
  <2>1. q \in Nat
    BY <1>7
  <2> QED
    BY <1>2, <1>4, <2>1 DEF Txn
<1>13. InFlight'
  <2>1. /\ txn'.w = txn.w /\ txn'.d = txn.d /\ txn'.o = txn.o /\ txn'.c = txn.c
        /\ txn'.num = txn.num /\ txn'.n = txn.n
        /\ txn'.local = txn.local /\ txn'.remote = txn.remote
    BY <1>2, <1>4 DEF Txn
  <2> QED
    BY <1>1, <2>1
    DEF IInv, InFlight, NewOrderLabels, PaymentLabels, DeliveryLabels, Generated, TxnLabels
<1> QED
  BY <1>1, <1>11, <1>12, <1>13, TxnStepOK

LEMMA InsertOrderLineOK ==
  ASSUME IInv, InsertOrderLine
  PROVE  IInv'
<1> DEFINE line == LineAt(txn.n)
           k == LineKey(txn.n)
<1>1. /\ pc = "no_line" /\ pc \in TxnLabels
      /\ UNCHANGED <<loop, crashes>>
  BY DEF InsertOrderLine, TxnLabels
<1>2. /\ txn \in Txn /\ StoreOK(store) /\ done < MaxTxn
      /\ txn.w \in Warehouses /\ txn.d \in Districts /\ txn.o \in Nat
  BY <1>1, InTxn
<1>3. txn.n \in 1 .. txn.num /\ Generated = txn.num
  BY <1>1 DEF IInv, InFlight, NewOrderLabels
<1>4. k \in Int \ FlatKeys
  <2>1. OrderKey \in Int \ FlatKeys
    BY <1>2, OrderKeysNotFlat DEF OrderKey
  <2>2. MakeOrderLineKey(txn.w, txn.d, txn.o, txn.n) \in Int \ FlatKeys
    BY <1>2, <1>3, LineKeyNotFlat
  <2> QED
    BY <2>1, <2>2 DEF LineKey
<1>5. PICK j \in Junk :
        Put(k, MakeRow("order_line", line.item, line.supply, txn.quantity, j))
  BY DEF InsertOrderLine
<1>6. MakeRow("order_line", line.item, line.supply, txn.quantity, j) \in Row
  <2>1. line \in Line
    BY <1>2, <1>3, LineAtOK
  <2> HIDE DEF line
  <2>2. line.item \in Int /\ line.supply \in Int /\ j \in Int /\ txn.quantity \in Int
    BY <1>2, <2>1, LoadAssumption DEF Line, Items, Warehouses, Txn
  <2> QED
    BY <2>2 DEF MakeRow, Row, RowTypes
<1> HIDE DEF line, k
<1>7. StoreStep
  BY <1>2, <1>4, <1>5, <1>6, PutClearStep
<1>8. CASE /\ txn.n < txn.num
           /\ txn' = [txn EXCEPT !.n = @ + 1]
           /\ pc' = "no_stock"
           /\ UNCHANGED done
  <2>1. txn.n + 1 \in Nat /\ txn.n + 1 \in 1 .. txn.num
    BY <1>2, <1>3, <1>8 DEF Txn
  <2>2. txn' \in Txn
    BY <1>2, <1>8, <2>1 DEF Txn
  <2>3. /\ txn'.w = txn.w /\ txn'.d = txn.d /\ txn'.o = txn.o /\ txn'.c = txn.c
        /\ txn'.num = txn.num /\ txn'.n = txn.n + 1
        /\ txn'.local = txn.local /\ txn'.remote = txn.remote
    BY <1>2, <1>8 DEF Txn
  <2>4. InFlight'
    BY <1>1, <1>8, <2>1, <2>3
    DEF IInv, InFlight, NewOrderLabels, PaymentLabels, DeliveryLabels, Generated, TxnLabels
  <2>5. pc' \in TxnLabels
    BY <1>8 DEF TxnLabels
  <2> QED
    BY <1>1, <1>7, <1>8, <2>2, <2>4, <2>5, TxnStepOK
<1>9. CASE EndTxn
  BY <1>1, <1>2, <1>7, <1>9, EndTxnOK
<1> QED
  BY <1>8, <1>9 DEF InsertOrderLine

LEMMA PaymentOK ==
  ASSUME IInv, Payment
  PROVE  IInv'
<1>1. /\ pc = "idle" /\ done < MaxTxn /\ pc' = "pay_warehouse"
      /\ pc \in TxnLabels \cup {"idle"} /\ pc' \in TxnLabels
      /\ UNCHANGED <<store, lost, loop, done, crashes>>
  BY DEF Payment, Idle, Goto, TxnLabels
<1>2. PICK w \in HomeWarehouses, d \in Districts, c \in CustomerPool :
      \E cwd \in {<<w, d>>} \cup (Warehouses \ {w}) \X Districts :
        txn' = [NoTxn EXCEPT !.w = w, !.d = d, !.cw = cwd[1], !.cd = cwd[2], !.c = c]
  BY DEF Payment
<1>3. w \in Warehouses /\ c \in Customers
  BY <1>2, PoolAssumption, SizeAssumption DEF HomeWarehouses, Warehouses
<1>4. PICK cw \in Warehouses, cd \in Districts :
        txn' = [NoTxn EXCEPT !.w = w, !.d = d, !.cw = cw, !.cd = cd, !.c = c]
  <2>1. PICK cwd \in {<<w, d>>} \cup (Warehouses \ {w}) \X Districts :
          txn' = [NoTxn EXCEPT !.w = w, !.d = d, !.cw = cwd[1], !.cd = cwd[2], !.c = c]
    BY <1>2
  <2>2. cwd[1] \in Warehouses /\ cwd[2] \in Districts
    BY <1>2, <1>3, <2>1
  <2> QED
    BY <2>1, <2>2
<1>5. txn' \in Txn
  <2>1. w \in Nat /\ d \in Nat /\ c \in Int /\ cw \in Nat /\ cd \in Nat
    BY <1>3 DEF Warehouses, Districts, Customers
  <2> QED
    BY <1>4, <2>1, NoTxnType DEF Txn
<1>6. InFlight'
  <2>1. /\ txn'.w = w /\ txn'.d = d /\ txn'.c = c /\ txn'.cw = cw /\ txn'.cd = cd
        /\ txn'.o = 0
    BY <1>4 DEF NoTxn
  <2> QED
    BY <1>1, <1>3, <2>1 DEF InFlight, NewOrderLabels, PaymentLabels, DeliveryLabels
<1>7. StoreStep
  BY <1>1, NoPutStep
<1> QED
  BY <1>1, <1>5, <1>6, <1>7, TxnStepOK

(* A row that is read, changed at its offset 4 and put back under a low    *)
(* key keeps its word at offset 8; one that was not there is no district.  *)
LEMMA ChangeLow ==
  ASSUME IInv, NEW k \in 1 .. NumStock, DistrictKeys \subseteq DOMAIN store,
         NEW val \in GetRecord(store, k), NEW j \in Junk, NEW type \in RowTypes,
         Put(k, As(type, [val EXCEPT !.at4 = j]))
  PROVE  StoreStep
<1> DEFINE row == [val EXCEPT !.at4 = j]
<1>1. StoreOK(store) /\ val \in AnyRow /\ (k \in DOMAIN store => val = store[k])
  BY GetWords DEF IInv
<1>2. j \in Int
  BY LoadAssumption
<1>3. row \in AnyRow /\ row.at8 = val.at8
  BY <1>1, <1>2 DEF AnyRow
<1> HIDE DEF row
<1>4. k \in DistrictKeys => val.at8 \in Nat
  BY <1>1 DEF StoreOK
<1>5. /\ As(type, row) \in Row
      /\ k \in DistrictKeys => As(type, row).at8 \in Nat
  BY <1>3, <1>4, AsRow
<1>6. k \in Int /\ k \notin StockKeys
  BY LowNotStock
<1>7. Put(k, As(type, row))
  BY DEF row
<1> QED
  BY <1>5, <1>6, <1>7, PutStep

LEMMA PayWarehouseOK ==
  ASSUME IInv, PayWarehouse
  PROVE  IInv'
<1> DEFINE k == WarehouseKey(txn.w)
<1>1. /\ pc = "pay_warehouse" /\ pc' = "pay_district" /\ pc \in TxnLabels /\ pc' \in TxnLabels
      /\ UNCHANGED <<loop, txn, done, crashes>>
  BY DEF PayWarehouse, Goto, TxnLabels
<1>2. /\ txn \in Txn /\ txn.w \in Warehouses /\ StoreOK(store)
      /\ DistrictKeys \subseteq DOMAIN store
  BY <1>1, InTxn
<1>3. k \in 1 .. NumStock
  BY <1>2, LowKeys
<1>4. PICK ware_val \in GetRecord(store, k), j \in Junk :
        Put(k, As("warehouse", [ware_val EXCEPT !.at4 = j]))
  BY DEF PayWarehouse
<1> HIDE DEF k
<1>5. StoreStep
  <2>1. "warehouse" \in RowTypes
    BY DEF RowTypes
  <2> QED
    BY <1>2, <1>3, <1>4, <2>1, ChangeLow
<1>6. InFlight'
  BY <1>1 DEF IInv, InFlight, NewOrderLabels, PaymentLabels, DeliveryLabels, TxnLabels
<1> QED
  BY <1>1, <1>2, <1>5, <1>6, TxnStepOK

LEMMA PayDistrictOK ==
  ASSUME IInv, PayDistrict
  PROVE  IInv'
<1> DEFINE k == MakeDistrictKey(txn.w, txn.d)
<1>1. /\ pc = "pay_district" /\ pc' = "pay_customer" /\ pc \in TxnLabels /\ pc' \in TxnLabels
      /\ UNCHANGED <<loop, txn, done, crashes>>
  BY DEF PayDistrict, Goto, TxnLabels
<1>2. /\ txn \in Txn /\ txn.w \in Warehouses /\ txn.d \in Districts /\ StoreOK(store)
      /\ DistrictKeys \subseteq DOMAIN store
  BY <1>1, InTxn
<1>3. k \in 1 .. NumStock
  BY <1>2, LowKeys
<1>4. PICK dist_val \in GetRecord(store, k), j \in Junk :
        Put(k, As("district", [dist_val EXCEPT !.at4 = j]))
  BY DEF PayDistrict
<1> HIDE DEF k
<1>5. StoreStep
  <2>1. "district" \in RowTypes
    BY DEF RowTypes
  <2> QED
    BY <1>2, <1>3, <1>4, <2>1, ChangeLow
<1>6. InFlight'
  BY <1>1 DEF IInv, InFlight, NewOrderLabels, PaymentLabels, DeliveryLabels, TxnLabels
<1> QED
  BY <1>1, <1>2, <1>5, <1>6, TxnStepOK

LEMMA PayCustomerOK ==
  ASSUME IInv, PayCustomer
  PROVE  IInv'
<1> DEFINE k == MakeCustomerKey(txn.cw, txn.cd, txn.c)
<1>1. /\ pc = "pay_customer" /\ pc' = "pay_history" /\ pc \in TxnLabels /\ pc' \in TxnLabels
      /\ UNCHANGED <<loop, txn, done, crashes>>
  BY DEF PayCustomer, Goto, TxnLabels
<1>2. txn \in Txn /\ StoreOK(store)
  BY <1>1, InTxn
<1>3. txn.cw \in Warehouses /\ txn.cd \in Districts /\ txn.c \in Int
  BY <1>1, <1>2 DEF IInv, InFlight, PaymentLabels, Txn
<1>4. k \in Int \ FlatKeys
  BY <1>3, OrderKeysNotFlat
<1>5. PICK cust_val \in GetRecord(store, k), j \in Junk :
        Put(k, As("customer", [cust_val EXCEPT !.at8 = j, !.at12 = j]))
  BY DEF PayCustomer
<1> HIDE DEF k
<1>6. As("customer", [cust_val EXCEPT !.at8 = j, !.at12 = j]) \in Row
  <2>1. cust_val \in AnyRow /\ j \in Int
    BY <1>2, <1>5, GetWords, LoadAssumption
  <2>2. [cust_val EXCEPT !.at8 = j, !.at12 = j] \in AnyRow
    BY <2>1 DEF AnyRow
  <2> QED
    BY <2>2, AsRow DEF RowTypes
<1>7. StoreStep
  BY <1>2, <1>4, <1>5, <1>6, PutClearStep
<1>8. InFlight'
  BY <1>1 DEF IInv, InFlight, NewOrderLabels, PaymentLabels, DeliveryLabels, TxnLabels
<1> QED
  BY <1>1, <1>2, <1>7, <1>8, TxnStepOK

LEMMA InsertHistoryOK ==
  ASSUME IInv, InsertHistory
  PROVE  IInv'
<1> DEFINE k == MakeHistoryKey(txn.w, txn.d, txn.cw, txn.cd, txn.c)
<1>1. /\ pc = "pay_history" /\ pc \in TxnLabels /\ EndTxn /\ UNCHANGED <<loop, crashes>>
  BY DEF InsertHistory, TxnLabels
<1>2. /\ txn.w \in Warehouses /\ txn.d \in Districts /\ StoreOK(store) /\ done < MaxTxn
  BY <1>1, InTxn
<1>3. txn.cw \in Warehouses /\ txn.cd \in Districts /\ txn.c \in Customers
  BY <1>1 DEF IInv, InFlight, PaymentLabels
<1>4. k \in Int \ FlatKeys
  BY <1>2, <1>3, HistoryKeyNotFlat
<1> HIDE DEF k
<1>5. PICK j \in Junk : Put(k, MakeRow("history", j, j, j, j))
  BY DEF InsertHistory, k
<1>6. MakeRow("history", j, j, j, j) \in Row
  BY LoadAssumption DEF MakeRow, Row, RowTypes
<1>7. StoreStep
  BY <1>2, <1>4, <1>5, <1>6, PutClearStep
<1> QED
  BY <1>1, <1>2, <1>7, EndTxnOK

LEMMA DeliveryOK ==
  ASSUME IInv, Delivery
  PROVE  IInv'
<1>1. /\ pc = "idle" /\ done < MaxTxn /\ pc' = "dl_order"
      /\ pc \in TxnLabels \cup {"idle"} /\ pc' \in TxnLabels
      /\ UNCHANGED <<store, lost, loop, done, crashes>>
  BY DEF Delivery, Idle, Goto, TxnLabels
<1>2. PICK w \in HomeWarehouses : txn' = [NoTxn EXCEPT !.w = w, !.d = 1]
  BY DEF Delivery
<1>3. w \in Warehouses /\ w \in Nat /\ 1 \in Districts
  BY <1>2, SizeAssumption DEF HomeWarehouses, Warehouses, Districts
<1>4. txn' \in Txn
  BY <1>2, <1>3, NoTxnType DEF Txn
<1>5. txn'.w = w /\ txn'.d = 1 /\ txn'.o = 0
  BY <1>2 DEF NoTxn
<1>6. InFlight'
  BY <1>1, <1>3, <1>5 DEF InFlight, NewOrderLabels, PaymentLabels, DeliveryLabels
<1>7. StoreStep
  BY <1>1, NoPutStep
<1> QED
  BY <1>1, <1>4, <1>6, <1>7, TxnStepOK

LEMMA DeliverOrderOK ==
  ASSUME IInv, DeliverOrder
  PROVE  IInv'
<1>1. /\ pc = "dl_order" /\ pc' = "dl_line" /\ pc \in TxnLabels /\ pc' \in TxnLabels
      /\ UNCHANGED <<loop, done, crashes>>
  BY DEF DeliverOrder, Goto, TxnLabels
<1>2. txn \in Txn /\ txn.w \in Warehouses /\ txn.d \in Districts /\ StoreOK(store)
  BY <1>1, InTxn
<1>3. PICK o \in MinDeliverable .. NumCustomer :
      \E order_val \in GetRecord(store, MakeOrderKey(txn.w, txn.d, o)) :
        /\ txn' = [txn EXCEPT !.o = o, !.c = order_val.at0, !.n = 1]
        /\ Put(MakeOrderKey(txn.w, txn.d, o),
                              As("order", [order_val EXCEPT !.at4 = Carrier]))
  BY DEF DeliverOrder
<1> DEFINE k == MakeOrderKey(txn.w, txn.d, o)
<1>4. PICK order_val \in GetRecord(store, k) :
        /\ txn' = [txn EXCEPT !.o = o, !.c = order_val.at0, !.n = 1]
        /\ Put(k, As("order", [order_val EXCEPT !.at4 = Carrier]))
  BY <1>3
<1>5. o \in Nat
  BY SizeAssumption DEF MinDeliverable
<1>6. k \in Int \ FlatKeys
  BY <1>2, <1>5, OrderKeysNotFlat
<1> HIDE DEF k
<1>7. order_val \in AnyRow /\ order_val.at0 \in Int
  BY <1>2, <1>4, GetWords DEF AnyRow
<1>8. As("order", [order_val EXCEPT !.at4 = Carrier]) \in Row
  <2>1. [order_val EXCEPT !.at4 = Carrier] \in AnyRow
    BY <1>7 DEF AnyRow, Carrier
  <2> QED
    BY <2>1, AsRow DEF RowTypes
<1>9. StoreStep
  BY <1>2, <1>4, <1>6, <1>8, PutClearStep
<1>10. txn' \in Txn /\ txn'.w = txn.w /\ txn'.d = txn.d /\ txn'.o = o
  <2> DEFINE c == order_val.at0
  <2>1. c \in Int /\ txn' = [txn EXCEPT !.o = o, !.c = c, !.n = 1]
    BY <1>4, <1>7
  <2> HIDE DEF c
  <2> DEFINE t1 == [txn EXCEPT !.o = o]
             t2 == [t1 EXCEPT !.c = c]
             t3 == [t2 EXCEPT !.n = 1]
  <2>2. t1 \in Txn /\ t1.w = txn.w /\ t1.d = txn.d /\ t1.o = o
    BY <1>2, <1>5 DEF Txn
  <2>3. txn' = t3
    BY <2>1
  <2> HIDE DEF t1
  <2>4. t2 \in Txn /\ t2.w = txn.w /\ t2.d = txn.d /\ t2.o = o
    BY <2>1, <2>2 DEF Txn
  <2> HIDE DEF t2
  <2>5. t3 \in Txn /\ t3.w = txn.w /\ t3.d = txn.d /\ t3.o = o
    BY <2>4 DEF Txn
  <2> QED
    BY <2>3, <2>5
<1>11. InFlight'
  BY <1>1, <1>2, <1>5, <1>10
  DEF IInv, InFlight, NewOrderLabels, PaymentLabels, DeliveryLabels, TxnLabels
<1> QED
  BY <1>1, <1>9, <1>10, <1>11, TxnStepOK

LEMMA DeliverLineOK ==
  ASSUME IInv, DeliverLine
  PROVE  IInv'
<1> DEFINE k == MakeOrderLineKey(txn.w, txn.d, txn.o, txn.n)
<1>1. /\ pc = "dl_line" /\ pc \in TxnLabels /\ UNCHANGED <<loop, done, crashes>>
      /\ pc' \in {"dl_line", "dl_customer"} /\ pc' \in TxnLabels
  BY DEF DeliverLine, Goto, TxnLabels
<1>2. /\ txn \in Txn /\ txn.w \in Warehouses /\ txn.d \in Districts /\ txn.o \in Nat
      /\ txn.n \in Nat /\ StoreOK(store)
  BY <1>1, InTxn DEF Txn
<1>3. k \in Int \ FlatKeys
  BY <1>2, LineKeyNotFlat
<1>4. PICK line_val \in GetRecord(store, k) :
        Put(k, As("order_line", line_val))
  BY DEF DeliverLine
<1> HIDE DEF k
<1>5. As("order_line", line_val) \in Row
  <2>1. line_val \in AnyRow
    BY <1>2, <1>4, GetWords
  <2> QED
    BY <2>1, AsRow DEF RowTypes
<1>6. StoreStep
  BY <1>2, <1>3, <1>4, <1>5, PutClearStep
<1>7. txn' \in Txn /\ txn'.w = txn.w /\ txn'.d = txn.d /\ txn'.o = txn.o
  <2>1. CASE txn' = [txn EXCEPT !.n = @ + 1]
    <3> DEFINE n == txn.n + 1
    <3>1. n \in Nat /\ txn' = [txn EXCEPT !.n = n]
      BY <1>2, <2>1
    <3> HIDE DEF n
    <3> QED
      BY <1>2, <3>1 DEF Txn
  <2>2. CASE UNCHANGED txn
    BY <1>2, <2>2
  <2> QED
    BY <2>1, <2>2 DEF DeliverLine
<1>8. InFlight'
  BY <1>1, <1>2, <1>7
  DEF IInv, InFlight, NewOrderLabels, PaymentLabels, DeliveryLabels, TxnLabels
<1> QED
  BY <1>1, <1>6, <1>7, <1>8, TxnStepOK

LEMMA DeliverCustomerOK ==
  ASSUME IInv, DeliverCustomer
  PROVE  IInv'
<1> DEFINE k == MakeCustomerKey(txn.w, txn.d, txn.c)
<1>1. pc = "dl_customer" /\ pc \in TxnLabels /\ UNCHANGED <<loop, crashes>>
  BY DEF DeliverCustomer, TxnLabels
<1>2. /\ txn \in Txn /\ txn.w \in Warehouses /\ txn.d \in Districts /\ txn.c \in Int
      /\ StoreOK(store) /\ done < MaxTxn
  BY <1>1, InTxn DEF Txn
<1>3. k \in Int \ FlatKeys
  BY <1>2, OrderKeysNotFlat
<1>4. PICK cust_val \in GetRecord(store, k), j \in Junk :
        Put(k, As("customer", [cust_val EXCEPT !.at8 = j]))
  BY DEF DeliverCustomer
<1> HIDE DEF k
<1>5. As("customer", [cust_val EXCEPT !.at8 = j]) \in Row
  <2>1. cust_val \in AnyRow /\ j \in Int
    BY <1>2, <1>4, GetWords, LoadAssumption
  <2>2. [cust_val EXCEPT !.at8 = j] \in AnyRow
    BY <2>1 DEF AnyRow
  <2> QED
    BY <2>2, AsRow DEF RowTypes
<1>6. StoreStep
  BY <1>2, <1>3, <1>4, <1>5, PutClearStep
<1>7. CASE /\ txn.d < NumDistrict
           /\ txn' = [NoTxn EXCEPT !.w = txn.w, !.d = txn.d + 1]
           /\ pc' = "dl_order"
           /\ UNCHANGED done
  <2>1. txn.d + 1 \in Districts /\ txn.d + 1 \in Nat /\ txn.w \in Nat
    BY <1>2, <1>7, SizeAssumption DEF Districts, Warehouses
  <2> DEFINE d == txn.d + 1
  <2>2. d \in Districts /\ d \in Nat /\ txn' = [NoTxn EXCEPT !.w = txn.w, !.d = d]
    BY <1>7, <2>1
  <2> HIDE DEF d
  <2>3. txn' \in Txn
    BY <2>1, <2>2, NoTxnType DEF Txn
  <2>4. txn'.w = txn.w /\ txn'.d = d /\ txn'.o = 0
    BY <2>2 DEF NoTxn
  <2>5. InFlight'
    BY <1>2, <1>7, <2>2, <2>4 DEF InFlight, NewOrderLabels, PaymentLabels, DeliveryLabels
  <2>6. pc' \in TxnLabels
    BY <1>7 DEF TxnLabels
  <2> QED
    BY <1>1, <1>6, <1>7, <2>3, <2>5, <2>6, TxnStepOK
<1>8. CASE EndTxn
  BY <1>1, <1>2, <1>6, <1>8, EndTxnOK
<1> QED
  BY <1>7, <1>8 DEF DeliverCustomer

(* OrderStatus and StockLevel.                                             *)
LEMMA ReadOnlyOK ==
  ASSUME IInv, OrderStatus \/ StockLevel
  PROVE  IInv'
<1>1. Idle /\ EndTxn /\ UNCHANGED <<store, lost, loop, crashes>>
  BY DEF OrderStatus, StockLevel
<1>2. StoreStep
  BY <1>1, NoPutStep
<1> QED
  BY <1>1, <1>2, EndTxnOK DEF Idle

LEMMA FinishOK ==
  ASSUME IInv, Finish
  PROVE  IInv'
<1>1. pc = "idle" /\ pc' = "finished" /\ UNCHANGED <<store, lost, loop, txn, done, crashes>>
  BY DEF Finish
<1>2. TypeOK' /\ StoreOK(store')
  BY <1>1 DEF IInv, TypeOK
<1>3. LoopOK' /\ InFlight'
  BY <1>1 DEF LoopOK, LoadPhases, InFlight, NewOrderLabels, PaymentLabels,
              DeliveryLabels, TxnLabels
<1>4. Loaded'
  BY <1>1 DEF IInv, Loaded, OrderPhases
<1> QED
  BY <1>2, <1>3, <1>4 DEF IInv

(* Whatever a killed process left, it is in order, and the restarted one   *)
(* has loaded nothing yet.                                                 *)
LEMMA CrashOK ==
  ASSUME IInv, Crash
  PROVE  IInv'
<1>1. /\ pc' = "warehouse" /\ loop' = FirstRow /\ txn' = NoTxn /\ done' = 0
      /\ crashes < MaxCrash /\ crashes' = crashes + 1 /\ UNCHANGED <<store, lost>>
  BY DEF Crash
<1>2. loop' \in LoopType /\ LoopOK'
  BY <1>1, FirstRowOK DEF LoopOK, LastLine, LoadPhases
<1>3. TypeOK'
  BY <1>1, <1>2, NoTxnType, PoolAssumption DEF IInv, TypeOK, LoopType, LoadPhases
<1>4. Loaded' /\ InFlight'
  BY <1>1 DEF Loaded, OrderPhases, InFlight,
    NewOrderLabels, PaymentLabels, DeliveryLabels, TxnLabels
<1> QED
  BY <1>1, <1>2, <1>3, <1>4 DEF IInv

LEMMA InitOK ==
  ASSUME Init
  PROVE  IInv
<1>1. /\ DOMAIN store = {} /\ pc = "warehouse" /\ loop = FirstRow /\ txn = NoTxn
      /\ done = 0 /\ crashes = 0 /\ lost = 0
  BY DEF Init
<1>2. loop \in LoopType /\ LoopOK
  BY <1>1, FirstRowOK DEF LoopOK, LastLine, LoadPhases
<1>3. TypeOK
  BY <1>1, <1>2, NoTxnType, PoolAssumption DEF TypeOK, LoopType, LoadPhases
<1>4. StoreOK(store)
  BY <1>1 DEF StoreOK
<1>5. Loaded /\ InFlight
  BY <1>1 DEF Loaded, OrderPhases, InFlight,
    NewOrderLabels, PaymentLabels, DeliveryLabels, TxnLabels
<1> QED
  BY <1>2, <1>3, <1>4, <1>5 DEF IInv

LEMMA NextOK ==
  ASSUME IInv, [Next]_vars
  PROVE  IInv'
<1>1. CASE Load
  BY <1>1, LoadWarehouseOK, LoadDistrictOK, LoadCustomerOK, LoadCustomerIndexOK,
     LoadHistoryOK, LoadOrderOK, LoadOrderIndexOK, LoadNewOrderOK, LoadOrderLineOK,
     LoadStockOK, LoadItemOK DEF Load, LoadTables
<1>2. CASE NewOrderStep
  BY <1>2, NewOrderOK, GenerateLocalOK, GenerateRemoteOK, StartRunOK, TakeOrderIdOK,
     InsertNewOrderOK, InsertOrderOK, InsertOrderIndexOK, UpdateStockOK,
     InsertOrderLineOK DEF NewOrderStep
<1>3. CASE PaymentStep
  BY <1>3, PaymentOK, PayWarehouseOK, PayDistrictOK, PayCustomerOK, InsertHistoryOK
  DEF PaymentStep
<1>4. CASE DeliveryStep
  BY <1>4, DeliveryOK, DeliverOrderOK, DeliverLineOK, DeliverCustomerOK DEF DeliveryStep
<1>5. CASE OrderStatus \/ StockLevel
  BY <1>5, ReadOnlyOK
<1>6. CASE Finish
  BY <1>6, FinishOK
<1>7. CASE Crash
  BY <1>7, CrashOK
<1>8. CASE Terminating \/ UNCHANGED vars
  <2>1. UNCHANGED <<store, pc, loop, txn, done, crashes, lost>>
    BY <1>8 DEF Terminating, vars
  <2> QED
    BY <2>1 DEF IInv, TypeOK, StoreOK, LoopOK, LastLine, Loaded, InFlight, Generated
<1> QED
  BY <1>1, <1>2, <1>3, <1>4, <1>5, <1>6, <1>7, <1>8 DEF Next, Step

(* The invariant holds throughout.                                         *)
LEMMA Invariant == Spec => []IInv
<1>1. Init => IInv
  BY InitOK
<1>2. IInv /\ [Next]_vars => IInv'
  BY NextOK
<1> QED
  BY <1>1, <1>2, PTL DEF Spec
-----------------------------------------------------------------------------
(* Every variable keeps its type, whatever the sizes, the loaded data, the *)
(* crashes and the number of transactions.                                 *)
THEOREM TypeCorrect == Spec => []TypeOK
<1>1. IInv => TypeOK
  BY DEF IInv
<1> QED
  BY <1>1, Invariant, PTL

(* A key under which a stock row is kept never holds anything else, and    *)
(* the quantity in it stays in 10 .. 100: no put of another table lands on *)
(* a stock key, no line is computed from a stock row that is missing, and  *)
(* the unsigned comparison of NewOrder never wraps.                        *)
THEOREM StockBoundsHold == Spec => []StockBounds
<1>1. IInv => StockBounds
  BY DEF IInv, StoreOK, StockOK, StockBounds, StoredStocks
<1> QED
  BY <1>1, Invariant, PTL

(* Stock is neither lost nor made but by whole restockings of 91, through  *)
(* crashes and reloads.                                                    *)
THEOREM StockConservedHolds == Spec => []StockConserved
<1>1. IInv => StockConserved
  BY DEF IInv, StoreOK, StockOK, StockConserved, StoredStocks
<1> QED
  BY <1>1, Invariant, PTL

(* Which rows of one table have the same key: the history rows of one      *)
(* customer through one district, lines of ids MaxOrderId apart for each   *)
(* district between them, and no others.                                   *)
THEOREM TablesStayKeyed == Spec => []TablesKeyed
<1>1. TablesKeyed
  BY KeysAreUnique DEF TablesKeyed
<1> QED
  BY <1>1, PTL
=============================================================================
