------------------------------ MODULE TpccTxn -------------------------------
(***************************************************************************)
(* The benchmark: RunTPCC (tpcc.cc) over the tables of TpccTables, with    *)
(* the five transactions of TPCCTxn (txn_*.cc).                            *)
(*                                                                         *)
(* One client runs one transaction at a time and nothing makes the puts of *)
(* a transaction atomic, so a step of one is one put with the gets whose   *)
(* results it uses, and the process may be killed between any two steps.   *)
(* The store outlives the process; a restarted one runs LoadTables over it *)
(* again.  The store may also refuse the put of a transaction.             *)
(***************************************************************************)
EXTENDS TpccTables, Sequences

CONSTANTS
  ItemPool,        \* what GetItemId draws from, at most Items
  CustomerPool,    \* what GetCustomerId draws from, at most Customers
  QuantityPool,    \* what ol_quantity is drawn from, at most 1 .. 10
  MaxTxn,          \* txn_count: the transactions of one process
  MaxCrash,        \* bound on the number of times the process is killed
  MaxLost          \* bound on the number of puts the store refuses

ASSUME PoolAssumption ==
  /\ ItemPool \subseteq Items
  /\ CustomerPool \subseteq Customers
  /\ QuantityPool \subseteq 1 .. 10
  /\ MaxTxn \in Nat
  /\ MaxCrash \in Nat
  /\ MaxLost \in Nat

(* d_next_o_id, s_ytd and s_remote_cnt are int32_t, and numbers of any size *)
(* here.  The transactions of all processes together are as few as the     *)
(* counters can count from where they start, which for d_next_o_id may be  *)
(* a name; that no counter overflows then is NoOverflow.                   *)
ASSUME CounterAssumption ==
  LET most == MaxTxn * (MaxCrash + 1)
      half == Word \div 2
  IN /\ NumCustomer + 1 + most < half
     /\ \A w \in Warehouses : WarehouseName[w] + most < half
     /\ \A i \in Items : ItemName[i] + most < half
     /\ 10 * most < half

VARIABLES
  txn,      \* the local variables of the transaction that runs
  done,     \* the i of RunTPCC: transactions this process has finished
  crashes,  \* times the process was killed
  lost      \* puts the store refused

vars == <<store, pc, loop, txn, done, crashes, lost>>

(* A line a new order asks for: the arrays *_item_ids, *_supplies and      *)
(* *_stocks at one index.                                                  *)
Line == [item : Items, supply : Warehouses]
StockKeyOf(l) == MakeStockKey(l.supply, l.item)

NoTxn == [w |-> 0, d |-> 0, c |-> 0, cw |-> 0, cd |-> 0, o |-> 0,
          num |-> 0, local |-> <<>>, remote |-> <<>>, all_local |-> 1,
          n |-> 0, quantity |-> 0]
-----------------------------------------------------------------------------
(* PickWarehouseId(start = 1, end = NumWarehouse) draws from [start, end)  *)
(* and asserts that it is not empty.                                       *)
HomeWarehouses == 1 .. NumWarehouse - 1

(* Faulty variant: the loop of RunTPCC runs once more. *)
IdleOnceMore == pc = "idle" /\ done <= MaxTxn
Idle == pc = "idle" /\ done < MaxTxn

EndTxn ==
  /\ pc' = "idle"
  /\ txn' = NoTxn
  /\ done' = done + 1

Goto(label) == pc' = label /\ UNCHANGED <<loop, done, crashes>>

(* The put of a transaction.  The store may refuse it (a Status that is    *)
(* not ok, in RocksDBImpl): PutRecord returns -1, at which no transaction  *)
(* looks, and the next step is the same as after a put that worked.        *)
Put(k, row) ==
  \/ store' = PutRecord(store, k, row) /\ UNCHANGED lost
  \/ /\ lost < MaxLost
     /\ lost' = lost + 1
     /\ UNCHANGED store
-----------------------------------------------------------------------------
(* NewOrder: the parameters.                                               *)
NewOrder ==
  /\ Idle
  /\ \E w \in HomeWarehouses, d \in Districts, c \in CustomerPool,
        num \in MinOlCnt .. MaxOlCnt :
       txn' = [NoTxn EXCEPT !.w = w, !.d = d, !.c = c, !.num = num]
  /\ UNCHANGED <<store, lost>>
  /\ Goto("no_generate")

Generated == Len(txn.local) + Len(txn.remote)
(* Faulty variant: only the local stocks are remembered. *)
StockSetLocal == {StockKeyOf(txn.local[k]) : k \in 1 .. Len(txn.local)}
StockSet == {StockKeyOf(txn.local[k]) : k \in 1 .. Len(txn.local)}
              \cup {StockKeyOf(txn.remote[k]) : k \in 1 .. Len(txn.remote)}

(* One turn of the generation loop.  A stock that is in stock_set already  *)
(* is dropped and drawn again, but all_local is cleared before the test.   *)
GenerateLocal ==
  /\ pc = "no_generate" /\ Generated < txn.num
  /\ \E i \in ItemPool :
       LET line == [item |-> i, supply |-> txn.w] IN
       /\ StockKeyOf(line) \notin StockSet
       /\ txn' = [txn EXCEPT !.local = Append(@, line)]
  /\ UNCHANGED <<store, lost>>
  /\ Goto("no_generate")

GenerateRemote ==
  /\ pc = "no_generate" /\ Generated < txn.num
  /\ \E i \in ItemPool, supply \in Warehouses \ {txn.w} :
       LET line == [item |-> i, supply |-> supply] IN
       txn' = [txn EXCEPT
                 !.all_local = 0,
                 !.remote = IF StockKeyOf(line) \in StockSet THEN @
                            ELSE Append(@, line)]
  /\ UNCHANGED <<store, lost>>
  /\ Goto("no_generate")

(* The loop is over; the warehouse and the customer are read, not used.    *)
StartRun ==
  /\ pc = "no_generate" /\ Generated = txn.num
  /\ UNCHANGED <<store, lost, txn>>
  /\ Goto("no_district")

(* Faulty variants: the counter is not put back incremented, or by the     *)
(* number of lines; the index row is put before the order rows.            *)
TakeOrderIdOnly ==
  /\ pc = "no_district"
  /\ \E dist_val \in GetRecord(store, MakeDistrictKey(txn.w, txn.d)) :
       txn' = [txn EXCEPT !.o = dist_val.at8]
  /\ UNCHANGED <<store, lost>>
  /\ Goto("no_new_order")
TakeOrderIdByLines ==
  LET d_key == MakeDistrictKey(txn.w, txn.d) IN
  /\ pc = "no_district"
  /\ \E dist_val \in GetRecord(store, d_key) :
       /\ txn' = [txn EXCEPT !.o = dist_val.at8]
       /\ Put(d_key, As("district", [dist_val EXCEPT !.at8 = @ + txn.num]))
  /\ Goto("no_new_order")
TakeOrderIdIndexNext ==
  LET d_key == MakeDistrictKey(txn.w, txn.d) IN
  /\ pc = "no_district"
  /\ \E dist_val \in GetRecord(store, d_key) :
       /\ txn' = [txn EXCEPT !.o = dist_val.at8]
       /\ Put(d_key, As("district", [dist_val EXCEPT !.at8 = @ + 1]))
  /\ Goto("no_index")

(* my_next_o_id = d_next_o_id++                                            *)
TakeOrderId ==
  LET d_key == MakeDistrictKey(txn.w, txn.d) IN
  /\ pc = "no_district"
  /\ \E dist_val \in GetRecord(store, d_key) :
       /\ txn' = [txn EXCEPT !.o = dist_val.at8]
       /\ Put(d_key, As("district", [dist_val EXCEPT !.at8 = @ + 1]))
  /\ Goto("no_new_order")

InsertNewOrder ==
  /\ pc = "no_new_order"
  /\ \E j \in Junk :
       Put(MakeNewOrderKey(txn.w, txn.d, txn.o),
           MakeRow("new_order", j, j, j, j))
  /\ UNCHANGED txn
  /\ Goto("no_order")

OrderKey == MakeOrderKey(txn.w, txn.d, txn.o)

InsertOrder ==
  /\ pc = "no_order"
  /\ Put(OrderKey, MakeRow("order", txn.c, 0, txn.num, txn.all_local))
  /\ UNCHANGED txn
  /\ Goto("no_index")

InsertOrderIndex ==
  /\ pc = "no_index"
  /\ Put(MakeOrderIndexKey(txn.w, txn.d, txn.c, txn.o), IndexRow(OrderKey))
  /\ txn' = [txn EXCEPT !.n = 1]
  /\ Goto("no_stock")

(* The two loops over the lines, the local ones first.  The n-th line of   *)
(* the order is local_*[n - 1] or remote_*[n - num_local_stocks - 1].      *)
IsLocal(n) == n <= Len(txn.local)
LineAt(n) == IF IsLocal(n) THEN txn.local[n] ELSE txn.remote[n - Len(txn.local)]

(* Faulty variants: down to an empty stock; a restocking that forgets what *)
(* is taken; the home lines counted instead of the remote ones.            *)
NewQuantityToZero(s_quantity, ol_quantity) ==
  IF s_quantity >= ol_quantity
  THEN s_quantity - ol_quantity
  ELSE s_quantity + (91 - ol_quantity)
NewQuantityRefill(s_quantity, ol_quantity) ==
  IF (s_quantity - ol_quantity) % Word >= 10
  THEN s_quantity - ol_quantity
  ELSE s_quantity + 91
RemoteCountHome(line) == IF line.supply = txn.w THEN 1 ELSE 0

(* s_quantity is an int32_t and ol_quantity a uint32_t, so the difference  *)
(* that is compared with 10 is taken modulo 2^32.                          *)
NewQuantity(s_quantity, ol_quantity) ==
  IF (s_quantity - ol_quantity) % Word >= 10
  THEN s_quantity - ol_quantity
  ELSE s_quantity + (91 - ol_quantity)
RemoteCount(line) == IF line.supply = txn.w THEN 0 ELSE 1

UpdateStock ==
  LET line == LineAt(txn.n) IN
  /\ pc = "no_stock"
  /\ \E ol_quantity \in QuantityPool, stock_val \in GetRecord(store, StockKeyOf(line)) :
       /\ txn' = [txn EXCEPT !.quantity = ol_quantity]
       /\ Put(StockKeyOf(line), As("stock",
              [stock_val EXCEPT !.at0 = NewQuantity(@, ol_quantity),
                                !.at4 = @ + ol_quantity,
                                !.at12 = @ + RemoteCount(line)]))
  /\ Goto("no_line")

(* Faulty variant: the lines are numbered from zero. *)
LineKeyFromZero(n) ==
  IF IsLocal(n) THEN OrderKey ELSE MakeOrderLineKey(txn.w, txn.d, txn.o, n - 1)

(* The local loop puts the line under order_key, the remote loop under     *)
(* order_line_key.                                                         *)
LineKey(n) == IF IsLocal(n) THEN OrderKey
              ELSE MakeOrderLineKey(txn.w, txn.d, txn.o, n)

InsertOrderLine ==
  LET line == LineAt(txn.n) IN
  /\ pc = "no_line"
  /\ \E j \in Junk :
       Put(LineKey(txn.n),
           MakeRow("order_line", line.item, line.supply, txn.quantity, j))
  /\ UNCHANGED <<loop, crashes>>
  /\ \/ /\ txn.n < txn.num
        /\ txn' = [txn EXCEPT !.n = @ + 1]
        /\ pc' = "no_stock"
        /\ UNCHANGED done
     \/ txn.n = txn.num /\ EndTxn
-----------------------------------------------------------------------------
(* Payment: through the home warehouse and district, or through any        *)
(* district of another warehouse.                                          *)
Payment ==
  /\ Idle
  /\ \E w \in HomeWarehouses, d \in Districts, c \in CustomerPool :
     \E cwd \in {<<w, d>>} \cup (Warehouses \ {w}) \X Districts :
       txn' = [NoTxn EXCEPT !.w = w, !.d = d, !.cw = cwd[1], !.cd = cwd[2], !.c = c]
  /\ UNCHANGED <<store, lost>>
  /\ Goto("pay_warehouse")

(* w_ytd += h_amount, d_ytd += h_amount                                    *)
PayWarehouse ==
  /\ pc = "pay_warehouse"
  /\ \E ware_val \in GetRecord(store, WarehouseKey(txn.w)), j \in Junk :
       Put(WarehouseKey(txn.w), As("warehouse", [ware_val EXCEPT !.at4 = j]))
  /\ UNCHANGED txn
  /\ Goto("pay_district")

PayDistrict ==
  LET d_key == MakeDistrictKey(txn.w, txn.d) IN
  /\ pc = "pay_district"
  /\ \E dist_val \in GetRecord(store, d_key), j \in Junk :
       Put(d_key, As("district", [dist_val EXCEPT !.at4 = j]))
  /\ UNCHANGED txn
  /\ Goto("pay_customer")

(* c_balance -= h_amount, c_ytd_payment += h_amount; the rest of what is   *)
(* written lies beyond the words of a row.                                 *)
PayCustomer ==
  LET c_key == MakeCustomerKey(txn.cw, txn.cd, txn.c) IN
  /\ pc = "pay_customer"
  /\ \E cust_val \in GetRecord(store, c_key), j \in Junk :
       Put(c_key, As("customer", [cust_val EXCEPT !.at8 = j, !.at12 = j]))
  /\ UNCHANGED txn
  /\ Goto("pay_history")

InsertHistory ==
  /\ pc = "pay_history"
  /\ \E j \in Junk :
       Put(MakeHistoryKey(txn.w, txn.d, txn.cw, txn.cd, txn.c),
           MakeRow("history", j, j, j, j))
  /\ EndTxn
  /\ UNCHANGED <<loop, crashes>>
-----------------------------------------------------------------------------
(* Delivery: for each district, an order drawn among those that were       *)
(* loaded undelivered.  The new-order row is read and left where it is.    *)
Delivery ==
  /\ Idle
  /\ \E w \in HomeWarehouses : txn' = [NoTxn EXCEPT !.w = w, !.d = 1]
  /\ UNCHANGED <<store, lost>>
  /\ Goto("dl_order")

MinDeliverable == (7 * NumCustomer) \div 10 + 1

DeliverOrder ==
  /\ pc = "dl_order"
  /\ \E o \in MinDeliverable .. NumCustomer :
     LET o_key == MakeOrderKey(txn.w, txn.d, o) IN
     \E order_val \in GetRecord(store, o_key) :
       /\ txn' = [txn EXCEPT !.o = o, !.c = order_val.at0, !.n = 1]
       /\ Put(o_key, As("order", [order_val EXCEPT !.at4 = Carrier]))
  /\ Goto("dl_line")

(* ol_delivery_d = current_ts, on each of the MAX_OL_CNT keys, whether Get *)
(* finds a row there or not.                                               *)
DeliverLine ==
  LET ol_key == MakeOrderLineKey(txn.w, txn.d, txn.o, txn.n) IN
  /\ pc = "dl_line"
  /\ \E line_val \in GetRecord(store, ol_key) :
       Put(ol_key, As("order_line", line_val))
  /\ \/ /\ txn.n < MaxOlCnt
        /\ txn' = [txn EXCEPT !.n = @ + 1]
        /\ Goto("dl_line")
     \/ /\ txn.n = MaxOlCnt
        /\ UNCHANGED txn
        /\ Goto("dl_customer")

(* Faulty variant: the next turn of the loop is for the same district.     *)
DeliverCustomerAgain ==
  /\ pc = "dl_customer"
  /\ UNCHANGED <<store, lost, loop, crashes, done>>
  /\ txn' = [NoTxn EXCEPT !.w = txn.w, !.d = txn.d]
  /\ pc' = "dl_order"

(* c_balance += sum_ol_amount, of the customer the order row names         *)
DeliverCustomer ==
  LET c_key == MakeCustomerKey(txn.w, txn.d, txn.c) IN
  /\ pc = "dl_customer"
  /\ \E cust_val \in GetRecord(store, c_key), j \in Junk :
       Put(c_key, As("customer", [cust_val EXCEPT !.at8 = j]))
  /\ UNCHANGED <<loop, crashes>>
  /\ \/ /\ txn.d < NumDistrict
        /\ txn' = [NoTxn EXCEPT !.w = txn.w, !.d = txn.d + 1]
        /\ pc' = "dl_order"
        /\ UNCHANGED done
     \/ txn.d = NumDistrict /\ EndTxn
-----------------------------------------------------------------------------
(* OrderStatus and StockLevel only read, and return nothing they read.     *)
(* The loop of OrderStatus is taken to end, which it does for any o_ol_cnt *)
(* but INT_MAX.                                                            *)
OrderStatus ==
  /\ Idle /\ HomeWarehouses # {}
  /\ EndTxn
  /\ UNCHANGED <<store, lost, loop, crashes>>

StockLevel ==
  /\ Idle /\ HomeWarehouses # {}
  /\ EndTxn
  /\ UNCHANGED <<store, lost, loop, crashes>>
-----------------------------------------------------------------------------
(* RunTPCC has run its transactions and main returns.                      *)
Finish ==
  /\ pc = "idle" /\ done = MaxTxn
  /\ pc' = "finished"
  /\ UNCHANGED <<store, lost, loop, txn, done, crashes>>

(* The process dies anywhere and is started again on the same DB_PATH.     *)
Crash ==
  /\ pc # "finished" /\ crashes < MaxCrash
  /\ pc' = "warehouse"
  /\ loop' = FirstRow
  /\ txn' = NoTxn
  /\ done' = 0
  /\ crashes' = crashes + 1
  /\ UNCHANGED <<store, lost>>

Terminating == pc = "finished" /\ UNCHANGED vars

Init ==
  /\ store = [k \in {} |-> StockRow]
  /\ pc = "warehouse"
  /\ loop = FirstRow
  /\ txn = NoTxn
  /\ done = 0
  /\ crashes = 0
  /\ lost = 0

Load == LoadTables /\ UNCHANGED <<txn, done, crashes, lost>>

NewOrderStep ==
  \/ NewOrder
  \/ GenerateLocal
  \/ GenerateRemote
  \/ StartRun
  \/ TakeOrderId
  \/ InsertNewOrder
  \/ InsertOrder
  \/ InsertOrderIndex
  \/ UpdateStock
  \/ InsertOrderLine

PaymentStep ==
  \/ Payment
  \/ PayWarehouse
  \/ PayDistrict
  \/ PayCustomer
  \/ InsertHistory

DeliveryStep ==
  \/ Delivery
  \/ DeliverOrder
  \/ DeliverLine
  \/ DeliverCustomer

(* What the program does of itself *)
Step ==
  \/ Load
  \/ NewOrderStep
  \/ PaymentStep
  \/ DeliveryStep
  \/ OrderStatus
  \/ StockLevel
  \/ Finish

Next == Step \/ Crash \/ Terminating

Spec == Init /\ [][Next]_vars
FairSpec == Spec /\ WF_vars(Step)
-----------------------------------------------------------------------------
TxnLabels == {"no_generate", "no_district", "no_new_order", "no_order", "no_index",
              "no_stock", "no_line", "pay_warehouse", "pay_district",
              "pay_customer", "pay_history", "dl_order", "dl_line", "dl_customer"}

Txn == [w : Nat, d : Nat, c : Int, cw : Nat, cd : Nat, o : Int, num : Nat,
        local : Seq(Line), remote : Seq(Line), all_local : {0, 1},
        n : Nat, quantity : Nat]

(* Every variable has its type: rows under integer keys, a label of one of *)
(* the loops, and the locals of at most one transaction.                   *)
TypeOK ==
  /\ DOMAIN store \subseteq Int
  /\ \A k \in DOMAIN store : store[k] \in Row
  /\ pc \in LoadPhases \cup TxnLabels \cup {"idle", "finished"}
  /\ loop \in [w : Warehouses, d : Districts, n : Nat \ {0}, l : 1 .. MaxOlCnt]
  /\ txn \in Txn
  /\ done \in 0 .. MaxTxn
  /\ crashes \in 0 .. MaxCrash
  /\ lost \in 0 .. MaxLost
-----------------------------------------------------------------------------
StoredStocks == StockKeys \cap DOMAIN store
NextOrderId(w, d) == store[MakeDistrictKey(w, d)].at8
FirstOrderId(w, d) == ItemName[MakeDistrictKey(w, d)]

(* No put of any table ever lands on a stock row, although nothing but the *)
(* arithmetic of the key functions keeps the tables apart, and the         *)
(* restocking rule of NewOrder keeps every s_quantity in 10 .. 100: its    *)
(* unsigned comparison never wraps (txn_neworder.cc:171-175, 213-217).     *)
StockBounds ==
  \A k \in StoredStocks : store[k].type = "stock" /\ store[k].at0 \in 10 .. 100

(* Stock is never lost: what left a row (s_ytd) and what is in it differ   *)
(* from what was loaded by whole restockings of 91, whatever the orders,   *)
(* their crashes and the reloads (txn_neworder.cc:171-180, 213-222).       *)
StockConserved ==
  \A k \in StoredStocks : (store[k].at0 + store[k].at4) % 91 = StockQuantity % 91

(* s_remote_cnt, the number of lines that other warehouses ordered, never  *)
(* exceeds s_ytd, and in the last warehouse, which no transaction has for  *)
(* its home, it misses no line: at most ten units left for each that is    *)
(* counted.  (That a home warehouse counts no line of its own is part of   *)
(* ImplementsOrderEntry: txn_neworder.cc:178, 220; tpcc_tables.h:135.)     *)
RemoteCounted ==
  \A w \in Warehouses, i \in Items :
    LET k == MakeStockKey(w, i) IN
    k \in DOMAIN store =>
      /\ store[k].at12 <= store[k].at4
      /\ w = NumWarehouse => store[k].at4 <= 10 * store[k].at12

(* At whatever sizes the program starts, the key functions keep the rows   *)
(* of one table apart, but for the history rows of one customer's payments *)
(* and for order lines whose ids are the "MAX ORDER ID" apart for each      *)
(* district between them: these and no others replace one another, which   *)
(* lines of the ids that NewOrder hands out can do (tpcc_tables.h:211-310).*)
TablesKeyed == pc = "warehouse" => KeysUnique

(* No counter of the tables passes 2^31, over all transactions that the    *)
(* process and those after it run: d_next_o_id, although it starts from    *)
(* characters of a name and is read back from rows of three tables, grows  *)
(* by one for an order, and s_ytd by at most ten, as no order has two      *)
(* lines of one stock (txn_neworder.cc:117, 177-179, 219-221).             *)
NoOverflow ==
  LET half == Word \div 2 IN
  /\ \A k \in DistrictKeys \cap DOMAIN store : store[k].at8 < half
  /\ \A k \in StoredStocks : store[k].at4 < half /\ store[k].at12 < half

IndexedUnder(w, d, o) ==
  {c \in Customers : MakeOrderIndexKey(w, d, c, o) \in DOMAIN store}

(* As long as nothing crashed and no put was refused, the order ids of a   *)
(* district are handed out once each and without a gap: between the first  *)
(* id and d_next_o_id every id is indexed under exactly one customer, and  *)
(* the index row leads to the order's key, but for the id of the order     *)
(* under way; beyond d_next_o_id there is none (txn_neworder.cc:105-151).  *)
OrderIdsDense ==
  (crashes = 0 /\ lost = 0 /\ pc \notin LoadPhases) =>
    \A w \in Warehouses, d \in Districts :
      \A o \in FirstOrderId(w, d) .. FirstOrderId(w, d) + MaxTxn :
        LET underway == /\ pc \in {"no_new_order", "no_order", "no_index"}
                        /\ <<w, d, o>> = <<txn.w, txn.d, txn.o>>
        IN IF o < NextOrderId(w, d) /\ ~underway
           THEN \E c \in Customers :
                  /\ IndexedUnder(w, d, o) = {c}
                  /\ LET row == store[MakeOrderIndexKey(w, d, c, o)] IN
                     row.at0 + row.at4 * Word = MakeOrderKey(w, d, o)
           ELSE IndexedUnder(w, d, o) = {}

(* The generation loop asks for each stock once, as the two lines of an    *)
(* order that named one stock would both be computed from it, never fills  *)
(* more of the local arrays than they hold, and an order marked all local  *)
(* has no remote line (txn_neworder.cc:51-90).                             *)
LinesDistinct ==
  /\ Generated <= MaxOlCnt
  /\ \A k1, k2 \in 1 .. Generated :
       k1 # k2 => StockKeyOf(LineAt(k1)) # StockKeyOf(LineAt(k2))
  /\ txn.all_local = 1 => \A k \in 1 .. Generated : LineAt(k).supply = txn.w

(* As long as no put is refused, the remote lines that NewOrder is past    *)
(* are stored under the keys made of the order and their numbers, after    *)
(* those of the local ones: no stock row and no later line replaces them   *)
(* (txn_neworder.cc:197-240).                                              *)
RemoteLinesInserted ==
  pc \in {"no_stock", "no_line"} /\ lost = 0 =>
    \A n \in Len(txn.local) + 1 .. txn.n - 1 :
      LET row == store[MakeOrderLineKey(txn.w, txn.d, txn.o, n)]
          line == LineAt(n)
      IN /\ MakeOrderLineKey(txn.w, txn.d, txn.o, n) \in DOMAIN store
         /\ row.type = "order_line"
         /\ row.at0 = line.item /\ row.at4 = line.supply

(* LoadTables over the store a killed process left gives back all stock,   *)
(* item, index and line rows, and the order or new-order row of each       *)
(* order, wherever in the load or in a transaction the process died.  (A   *)
(* customer, a warehouse and a district share their keys with rows that    *)
(* are loaded later: tpcc_tables.cc:42-54.)                                *)
ReloadRestores ==
  (pc = "idle" /\ done = 0) =>
    /\ \A k \in StockKeys : store[k] = StockRow
    /\ \A i \in Items : store[ItemKey(i)].type = "item" /\ store[ItemKey(i)].at8 = ItemName[i]
    /\ \A w \in Warehouses, d \in Districts, c \in Customers :
         /\ IF Delivered(c)
            THEN store[MakeOrderKey(w, d, c)] = LoadedOrder(w, d, c, Carrier)
            ELSE store[MakeNewOrderKey(w, d, c)].type = "new_order"
         /\ store[MakeOrderIndexKey(w, d, OrderCustomer[<<w, d>>][c], c)]
              = IndexRow(MakeOrderKey(w, d, c))
         /\ \A l \in 1 .. OrderLines[<<w, d, c>>] :
              LET row == store[MakeOrderLineKey(w, d, c, l)] IN
              /\ row.type = "order_line"
              /\ row.at0 = LineItem[<<w, d, c, l>>] /\ row.at4 = w /\ row.at8 = 5

(* While no put was refused an index row never leads to a key with nothing *)
(* under it: NewOrder puts rows under the order's key before the index     *)
(* row, so a crash in between leaves an order without an index row and not *)
(* the reverse.  (Which row lies there is not said: new order, order and   *)
(* local lines share the key: txn_neworder.cc:120-151, tpcc_tables.cc:374.) *)
NoDanglingIndex ==
  lost = 0 => \A w \in Warehouses, d \in Districts, c \in Customers :
    \A o \in Customers \cup (FirstOrderId(w, d) .. FirstOrderId(w, d) + MaxTxn) :
      MakeOrderIndexKey(w, d, c, o) \in DOMAIN store => MakeOrderKey(w, d, o) \in DOMAIN store

(* What the two invariants about index rows need of the sizes, and what    *)
(* TablesKeyed and the assumptions of Keys do not give: that no row of     *)
(* another table has a key in the range of the index keys.  It holds of    *)
(* the shipped sizes up to 3299 warehouses: with more, the order keys of   *)
(* the last ones are index keys of the first customers.                    *)
IndexApart ==
  LET upper == (NumWarehouse + 1) * NumDistrict
      first == (NumDistrict + 1) * NumCustomer + 1
      last == (upper + 1) * NumCustomer
  IN /\ upper < first
     /\ (upper * MaxOrderId + Word) * MaxOlCnt + MaxOlCnt < first * Word
     /\ last * HistoryShift + upper < first * Word
     /\ \A x \in DOMAIN HeapAddress : HeapAddress[x] \notin first * Word .. (last + 1) * Word - 1

(* That no line of a loaded order has the key of a loaded order, which     *)
(* ReloadRestores needs too.  It holds of the shipped sizes up to 5688     *)
(* warehouses.                                                             *)
LinesApart ==
  \A w, v \in Warehouses, d, e \in Districts, c, b \in Customers, l \in 1 .. MaxOlCnt :
    MakeOrderLineKey(w, d, c, l) # MakeOrderKey(v, e, b)

(* And of the numbers the counters start from: every district has an item  *)
(* that shares its key, the ids read from its name are above those of the  *)
(* loaded orders, and junk is an int32_t.                                  *)
IdsFit ==
  /\ (NumWarehouse + 1) * NumDistrict <= NumItem
  /\ \A i \in Items : NumCustomer < ItemName[i]
  /\ \A j \in Junk : j < Word \div 2

(* What the stock rooms, the district counters and the order under way are *)
(* in the store and the locals.  An order is under way from the put of its *)
(* district row; its unshipped lines are those the two loops of NewOrder   *)
(* have still to put a stock row for.                                      *)
StockOf(k) ==
  LET row == store[MakeStockKey(k[1], k[2])] IN
  [quantity |-> row.at0, ytd |-> row.at4, remote |-> row.at12]
LoadedRooms == {k \in Warehouses \X Items : MakeStockKey(k[1], k[2]) \in DOMAIN store}
LoadedCounters ==
  {k \in Warehouses \X Districts : MakeDistrictKey(k[1], k[2]) \in DOMAIN store}
Unshipped ==
  LET from == IF pc \in {"no_new_order", "no_order", "no_index"} THEN 1
              ELSE IF pc = "no_stock" THEN txn.n ELSE txn.n + 1
  IN {<<LineAt(n).supply, LineAt(n).item>> : n \in from .. Generated}
UnderWay ==
  IF pc \in {"no_new_order", "no_order", "no_index", "no_stock", "no_line"}
  THEN {[home |-> <<txn.w, txn.d>>, id |-> txn.o, lines |-> Unshipped]}
  ELSE {}

Orders == INSTANCE OrderEntry WITH
  Lines <- MinOlCnt .. MaxOlCnt,
  Quantities <- QuantityPool,
  InitialQuantity <- StockQuantity,
  open <- pc \notin LoadPhases,
  stock <- [k \in LoadedRooms |-> StockOf(k)],
  next <- [k \in LoadedCounters |-> NextOrderId(k[1], k[2])],
  orders <- UnderWay

(* The benchmark implements order entry: whatever table a transaction      *)
(* reads and puts under keys of one store, each line of an order is taken  *)
(* once from the stock row it names, only orders change stock and counters *)
(* and each takes the next id, through crashes, reloads and refused puts   *)
(* (txn_neworder.cc:51-229, tpcc_tables.cc:42-54).                         *)
ImplementsOrderEntry == Orders!Spec

(* The benchmark ends: its loops and those of its transactions end, the    *)
(* retry after a duplicate included (by the fairness of the draws; the     *)
(* loop of OrderStatus is one step here), and restarts are finite          *)
(* (tpcc.cc:47-83, txn_neworder.cc:51-90, txn_delivery.cc:31-121).         *)
Finishes == <>(pc = "finished")
-----------------------------------------------------------------------------
(* What comments of the source say and the program does not do.            *)

(* "insert order line record": the line of a number that NewOrder is past  *)
(* is stored under the key made of the order and the number                *)
(* (txn_neworder.cc:182-194).                                              *)
OrderLinesInserted ==
  pc = "no_stock" =>
    \A n \in 1 .. txn.n - 1 :
      LET ol_key == MakeOrderLineKey(txn.w, txn.d, txn.o, n) IN
      ol_key \in DOMAIN store /\ store[ol_key].at0 = LineAt(n).item

(* "D_NEXT_O_ID - 1 = max(O_ID)" of the loaded tables                      *)
(* (tpcc_tables.cc:155).                                                   *)
NextIdFollowsOrders ==
  (pc = "idle" /\ done = 0) =>
    \A w \in Warehouses, d \in Districts : NextOrderId(w, d) - 1 = NumCustomer

(* "UPDATE CUSTOMER ...": the row Payment reads, changes and puts back is  *)
(* a customer row (tpcc_txn.h:40-41, txn_payment.cc:94-122).               *)
PaymentFindsCustomer ==
  pc = "pay_customer" =>
    LET c_key == MakeCustomerKey(txn.cw, txn.cd, txn.c) IN
    c_key \in DOMAIN store /\ store[c_key].type = "customer"

(* "All rows in the ORDER-LINE table with matching ...": Delivery updates  *)
(* the lines an order has and adds none (txn_delivery.cc:90-105).          *)
NoPhantomLines ==
  \A w \in Warehouses, d \in Districts, o \in Customers, l \in 1 .. MaxOlCnt :
    MakeOrderLineKey(w, d, o, l) \in DOMAIN store => l <= OrderLines[<<w, d, o>>]

(* assert(start < end), which the callers that allow for a single          *)
(* warehouse (txn_payment.cc:37, txn_neworder.cc:53) must satisfy too: an  *)
(* idle client can pick a home warehouse (tpcc_tables.h:135-136).          *)
PickAsserts == Idle => HomeWarehouses # {}
=============================================================================
