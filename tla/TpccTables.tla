----------------------------- MODULE TpccTables -----------------------------
(***************************************************************************)
(* The TPC-C tables of TPCCTable and their loading (tpcc_tables.{h,cc}).   *)
(*                                                                         *)
(* The store maps a key to the bytes last put under it, and nothing in it  *)
(* says which table they belong to: GetRecord copies them into whatever    *)
(* struct its caller passes.  A row here is the name of the struct whose   *)
(* bytes it holds (its size, in the program) and its first four 32-bit     *)
(* words, at byte offsets 0, 4, 8 and 12 of the struct of schemas.h:       *)
(*                                                                         *)
(*   struct       at0        at4            at8          at12              *)
(*   warehouse    w_tax      w_ytd          w_name       w_name            *)
(*   district     d_tax      d_ytd          d_next_o_id  d_name            *)
(*   item         i_im_id    i_price        i_name       i_name            *)
(*   customer     credit_lim c_discount     c_balance    c_ytd_payment     *)
(*   order        o_c_id     o_carrier_id   o_ol_cnt     o_all_local       *)
(*   new_order    no_dummy   no_dummy       no_dummy     no_dummy          *)
(*   order_line   ol_i_id    ol_supply_w_id ol_quantity  ol_amount         *)
(*   stock        s_quantity s_ytd          s_order_cnt  s_remote_cnt      *)
(*   history      h_amount   h_date         h_data       h_data            *)
(*   order_index  o_id       o_id           debug_magic  debug_magic       *)
(*                                                                         *)
(* Floats, clock readings, text (but for the first characters of the names *)
(* of warehouses and items, which come to be read as numbers) and the      *)
(* bytes the program never initialises are some member of Junk.            *)
(*                                                                         *)
(* A step of the loader is one put, with the get that decides on it.       *)
(***************************************************************************)
EXTENDS Keys

CONSTANTS
  Junk,            \* the 32-bit words whose value is not tracked
  WarehouseName,   \* warehouse id -> first four characters of w_name, as an int32
  ItemName,        \* item id -> first four characters of i_name, as an int32
  StockQuantity,   \* what the first draw of a stock row's generator gives
  OrderCustomer,   \* <<w, d>> -> the permutation c_ids of the loaded orders
  OrderLines,      \* <<w, d, c>> -> o_ol_cnt of the loaded order c
  LineItem,        \* <<w, d, c, l>> -> ol_i_id of its line l
  HeapAddress      \* <<w, d, c>> -> the buffer MakeCustomerIndexKey allocates, taken
                   \* to be the same in every process as nothing reads those rows

(* Every generator of the loader is constructed from a literal seed, so    *)
(* what it draws is the same at every start: constants, not choices.       *)
ASSUME LoadAssumption ==
  /\ Junk \subseteq Int
  /\ Junk # {}
  /\ WarehouseName \in [Warehouses -> Nat]
  /\ ItemName \in [Items -> Nat]
  /\ StockQuantity \in 10 .. 100
  /\ OrderCustomer \in [Warehouses \X Districts -> [Customers -> Customers]]
  /\ \A wd \in Warehouses \X Districts : \A c1, c2 \in Customers :
       OrderCustomer[wd][c1] = OrderCustomer[wd][c2] => c1 = c2
  /\ OrderLines \in [Warehouses \X Districts \X Customers -> MinOlCnt .. MaxOlCnt]
  /\ LineItem \in [Warehouses \X Districts \X Customers \X (1 .. MaxOlCnt) -> Items]
  /\ HeapAddress \in [Warehouses \X Districts \X Customers -> Int \ FlatKeys]

VARIABLES
  store,   \* kv_impl: the rows by key
  pc,      \* what the program does next; the name of a table while it loads
  loop     \* w_id, d_id, the index of the third loop (n) and of the fourth (l)

RowTypes == {"warehouse", "district", "item", "customer", "customer_index",
             "order", "new_order", "order_line", "order_index", "stock", "history"}
Row == [type : RowTypes, at0 : Int, at4 : Int, at8 : Int, at12 : Int]
MakeRow(type, a, b, c, d) ==
  [type |-> type, at0 |-> a, at4 |-> b, at8 |-> c, at12 |-> d]
-----------------------------------------------------------------------------
(* PutRecord and GetRecord.  A Get that finds nothing leaves the caller's  *)
(* struct as it was, that is uninitialised, each word of it some junk.     *)
PutRecord(s, k, row) ==
  [x \in DOMAIN s \cup {k} |-> IF x = k THEN row ELSE s[x]]
PutIfAbsent(s, k, row) == IF k \in DOMAIN s THEN s ELSE PutRecord(s, k, row)

GetRecord(s, k) ==
  IF k \in DOMAIN s THEN {s[k]}
  ELSE [type : {"uninitialised"}, at0 : Junk, at4 : Junk, at8 : Junk, at12 : Junk]

(* The bytes a struct of one type leaves when put as a struct of another   *)
As(type, row) == [row EXCEPT !.type = type]

IndexRow(key) ==
  MakeRow("order_index", key % Word, key \div Word, 0, 0)
StockRow == MakeRow("stock", StockQuantity, 0, 0, 0)

(* The o_carrier_id of a delivered order: 1 stands for MIN_CARRIER_ID ..   *)
(* MAX_CARRIER_ID, which nothing tells apart.                              *)
Carrier == 1

(* c <= num_customer_per_district_ * 0.7                                   *)
Delivered(c) == 10 * c <= 7 * NumCustomer
-----------------------------------------------------------------------------
(* The nested loops of the Populate functions: the puts of an iteration,   *)
(* each named for the table it goes to, the last value of each index, and  *)
(* the order LoadTables calls the functions in.                            *)
LoadPhases == {"warehouse", "district", "customer", "customer_index", "history",
               "order", "order_index", "new_order", "order_line", "stock", "item",
               "stock_again"}
LastRow(p) ==
  CASE p = "warehouse" -> [w |-> NumWarehouse, d |-> 1, n |-> 1, l |-> 1]
    [] p = "district" -> [w |-> NumWarehouse, d |-> NumDistrict, n |-> 1, l |-> 1]
    [] p = "item" -> [w |-> 1, d |-> 1, n |-> NumItem, l |-> 1]
    [] p \in {"stock", "stock_again"} ->
         [w |-> NumWarehouse, d |-> 1, n |-> NumItem, l |-> 1]
    [] OTHER -> [w |-> NumWarehouse, d |-> NumDistrict, n |-> NumCustomer, l |-> 1]

(* The first put of the next iteration, and of the next loop, after the    *)
(* last put of an iteration.                                               *)
NextIteration(p) ==
  CASE p = "history" -> "customer"
    [] p = "order_line" -> "order"
    [] OTHER -> p
AfterPhase(p) ==
  CASE p = "warehouse" -> "district"
    [] p = "district" -> "customer"
    [] p = "history" -> "order"
    [] p = "order_line" -> "stock"
    [] p = "stock" -> "item"
    [] p = "item" -> "stock_again"
    [] p = "stock_again" -> "idle"
FirstRow == [w |-> 1, d |-> 1, n |-> 1, l |-> 1]

(* The end of an iteration.                                                *)
Advance ==
  LET last == LastRow(pc) IN
  \/ /\ loop.n < last.n
     /\ loop' = [loop EXCEPT !.n = @ + 1, !.l = 1]
     /\ pc' = NextIteration(pc)
  \/ /\ loop.n = last.n /\ loop.d < last.d
     /\ loop' = [loop EXCEPT !.d = @ + 1, !.n = 1, !.l = 1]
     /\ pc' = NextIteration(pc)
  \/ /\ loop.n = last.n /\ loop.d = last.d /\ loop.w < last.w
     /\ loop' = [w |-> loop.w + 1, d |-> 1, n |-> 1, l |-> 1]
     /\ pc' = NextIteration(pc)
  \/ /\ loop.n = last.n /\ loop.d = last.d /\ loop.w = last.w
     /\ loop' = FirstRow
     /\ pc' = AfterPhase(pc)

GotoPut(p) == pc' = p /\ UNCHANGED loop
-----------------------------------------------------------------------------
(* The puts of the Populate functions.                                     *)
LoadWarehouse ==
  /\ pc = "warehouse"
  /\ \E j \in Junk :
       store' = PutRecord(store, WarehouseKey(loop.w),
                          MakeRow("warehouse", j, j, WarehouseName[loop.w], j))
  /\ Advance

LoadDistrict ==
  /\ pc = "district"
  /\ \E j \in Junk :
       store' = PutRecord(store, MakeDistrictKey(loop.w, loop.d),
                          MakeRow("district", j, j, NumCustomer + 1, j))
  /\ Advance

LoadCustomer ==
  /\ pc = "customer"
  /\ \E j \in Junk :
       store' = PutRecord(store, MakeCustomerKey(loop.w, loop.d, loop.n),
                          MakeRow("customer", j, j, j, j))
  /\ GotoPut("customer_index")

(* Only when Get finds nothing under the address.                          *)
LoadCustomerIndex ==
  LET customer_key == MakeCustomerKey(loop.w, loop.d, loop.n) IN
  /\ pc = "customer_index"
  /\ store' = PutIfAbsent(store, HeapAddress[<<loop.w, loop.d, loop.n>>],
                MakeRow("customer_index", customer_key % Word, customer_key \div Word, 0, 0))
  /\ GotoPut("history")

LoadHistory ==
  /\ pc = "history"
  /\ \E j \in Junk :
       store' = PutRecord(store, MakeHistoryKey(loop.w, loop.d, loop.w, loop.d, loop.n),
                          MakeRow("history", j, j, j, j))
  /\ Advance

LoadedOrder(w, d, c, carrier) ==
  MakeRow("order", OrderCustomer[<<w, d>>][c], carrier, OrderLines[<<w, d, c>>], 1)

LoadOrder ==
  LET carrier == IF Delivered(loop.n) THEN Carrier ELSE 0 IN
  /\ pc = "order"
  /\ store' = PutRecord(store, MakeOrderKey(loop.w, loop.d, loop.n),
                        LoadedOrder(loop.w, loop.d, loop.n, carrier))
  /\ GotoPut("order_index")

(* Only when Get finds none; an undelivered order has a new-order row too. *)
LoadOrderIndex ==
  LET c_id == OrderCustomer[<<loop.w, loop.d>>][loop.n] IN
  /\ pc = "order_index"
  /\ store' = PutIfAbsent(store, MakeOrderIndexKey(loop.w, loop.d, c_id, loop.n),
                          IndexRow(MakeOrderKey(loop.w, loop.d, loop.n)))
  /\ GotoPut(IF Delivered(loop.n) THEN "order_line" ELSE "new_order")

(* The key is that of the order.                                           *)
LoadNewOrder ==
  /\ pc = "new_order"
  /\ \E j \in Junk :
       store' = PutRecord(store, MakeNewOrderKey(loop.w, loop.d, loop.n),
                          MakeRow("new_order", j, j, j, j))
  /\ GotoPut("order_line")

LoadOrderLine ==
  LET ol_cnt == OrderLines[<<loop.w, loop.d, loop.n>>] IN
  /\ pc = "order_line"
  /\ \E j \in Junk :
       store' = PutRecord(store, MakeOrderLineKey(loop.w, loop.d, loop.n, loop.l),
                  MakeRow("order_line", LineItem[<<loop.w, loop.d, loop.n, loop.l>>],
                          loop.w, 5, j))
  /\ \/ /\ loop.l < ol_cnt
        /\ loop' = [loop EXCEPT !.l = @ + 1]
        /\ pc' = pc
     \/ loop.l = ol_cnt /\ Advance

(* Faulty variant: a stock row that is there already is kept.              *)
LoadStockKeeping ==
  /\ pc \in {"stock", "stock_again"}
  /\ store' = PutIfAbsent(store, MakeStockKey(loop.w, loop.n), StockRow)
  /\ Advance

(* The generator is constructed inside the loop: all rows are the same.    *)
LoadStock ==
  /\ pc \in {"stock", "stock_again"}
  /\ store' = PutRecord(store, MakeStockKey(loop.w, loop.n), StockRow)
  /\ Advance

LoadItem ==
  /\ pc = "item"
  /\ \E j \in Junk :
       store' = PutRecord(store, ItemKey(loop.n),
                          MakeRow("item", j, j, ItemName[loop.n], j))
  /\ Advance

LoadTables ==
  \/ LoadWarehouse
  \/ LoadDistrict
  \/ LoadCustomer
  \/ LoadCustomerIndex
  \/ LoadHistory
  \/ LoadOrder
  \/ LoadOrderIndex
  \/ LoadNewOrder
  \/ LoadOrderLine
  \/ LoadStock
  \/ LoadItem
=============================================================================
