-------------------------------- MODULE Keys --------------------------------
(***************************************************************************)
(* The keys of the TPC-C tables.                                           *)
(*                                                                         *)
(* Every table of the workload lives in ONE key-value store under a        *)
(* 64-bit integer key: no table prefix is added anywhere.  A row's key is  *)
(* what the Make*Key functions of tpcc_tables.h compute from its primary   *)
(* key.  This module holds those functions, the sizes they depend on and   *)
(* the set of keys of each table, so that the modules that use the store   *)
(* can say which rows share a key.                                         *)
(*                                                                         *)
(* A key is read as a signed 64-bit number here, as the functions return   *)
(* it; the cast to uint64_t in the key unions is a bijection.              *)
(***************************************************************************)
EXTENDS Integers, Functions

CONSTANTS
  NumWarehouse,    \* FLAGS_NUM_WAREHOUSE, 2 by default
  NumDistrict,     \* NUM_DISTRICT_PER_WAREHOUSE, 10
  NumCustomer,     \* NUM_CUSTOMER_PER_DISTRICT, 3000
  NumItem,         \* NUM_ITEM, 100000
  NumStock,        \* NUM_STOCK_PER_WAREHOUSE, 100000
  Word,            \* 2^32: what "<< 32" multiplies by, and the width of int32_t
  HistoryShift,    \* 2^20: what "<< 20" multiplies by
  MaxOrderId,      \* 10000000, the literal of MakeOrderLineKey
  MinOlCnt,        \* MIN_OL_CNT, 5
  MaxOlCnt         \* MAX_OL_CNT, 15, also the literal of MakeOrderLineKey

(* The sizes a run of the program has, and how they compare.               *)
ASSUME SizeAssumption ==
  /\ NumWarehouse \in Nat \ {0}
  /\ NumDistrict \in Nat \ {0}
  /\ NumCustomer \in Nat \ {0}
  /\ NumItem \in Nat \ {0}
  /\ NumStock \in Nat \ {0}
  /\ Word \in Nat \ {0}
  /\ Word % 2 = 0
  /\ HistoryShift \in Nat \ {0}
  /\ MaxOrderId \in Nat \ {0}
  /\ MinOlCnt \in Nat \ {0}
  /\ MaxOlCnt \in Nat
  /\ MinOlCnt <= MaxOlCnt
  /\ NumItem <= NumStock
  /\ 10 * MaxOlCnt < Word
  /\ 100 < Word
  /\ NumCustomer < MaxOrderId

(* What the shipped sizes satisfy for every NUM_WAREHOUSE up to 9999 (the  *)
(* lemma ShippedWidths of KeysProofs); with more, district keys are keys   *)
(* of stock rows, and with many more the 32-bit intermediate results of    *)
(* the key functions overflow.                                             *)
ASSUME WidthAssumption ==
  /\ NumWarehouse <= NumStock
  /\ (NumWarehouse + 1) * NumDistrict <= NumStock
  /\ 2 * (NumWarehouse + 1) * NumStock < Word
  /\ 2 * ((NumWarehouse + 1) * NumDistrict + 1) * NumCustomer < Word
  /\ (NumWarehouse + 1) * NumStock < NumDistrict * MaxOrderId * MaxOlCnt
  /\ (NumWarehouse + 1) * NumStock < NumDistrict * NumCustomer * HistoryShift
  /\ (NumWarehouse + 1) * NumDistrict < HistoryShift

Warehouses == 1 .. NumWarehouse
Districts == 1 .. NumDistrict
Customers == 1 .. NumCustomer
Items == 1 .. NumItem
-----------------------------------------------------------------------------
(* static_cast / assignment to int32_t of a value computed in uint32_t     *)
Int32(x) == ((x + (Word \div 2)) % Word) - (Word \div 2)

(* (int64_t)hi << 32 | (int64_t)lo.  A negative lo is sign-extended, so    *)
(* its upper 32 bits are ones and swallow hi.                              *)
Pack32(hi, lo) == IF lo < 0 THEN lo ELSE hi * Word + lo

WarehouseKey(w) == w
ItemKey(i) == i
MakeDistrictKey(w, d) == Int32(d + w * NumDistrict)
UpperId(w, d) == Int32(w * NumDistrict + d)
MakeCustomerKey(w, d, c) == Pack32(UpperId(w, d), c)
MakeNewOrderKey(w, d, o) == Pack32(UpperId(w, d), o)
MakeOrderKey(w, d, o) == Pack32(UpperId(w, d), o)
MakeOrderIndexKey(w, d, c, o) ==
  Pack32(Int32((w * NumDistrict + d) * NumCustomer + c), o)
MakeOrderLineKeyTight(w, d, o, number) ==   \* faulty: room for one line less
  (UpperId(w, d) * MaxOrderId + o) * (MaxOlCnt - 1) + number
MakeOrderLineKey(w, d, o, number) ==
  (UpperId(w, d) * MaxOrderId + o) * MaxOlCnt + number
MakeStockKey(w, i) == Int32(i + w * NumStock)

(* int64(cid) << 20 | did, where did < 2^20 (WidthAssumption)              *)
MakeHistoryKey(w, d, cw, cd, c) ==
  Int32((cw * NumDistrict + cd) * NumCustomer + c) * HistoryShift
    + Int32(d + w * NumDistrict)
-----------------------------------------------------------------------------
(* The keys of all stock rows, of all districts, and the range in which    *)
(* the keys of warehouses, districts, items and stock rows lie.            *)
StockKeys == {MakeStockKey(w, i) : w \in Warehouses, i \in Items}
DistrictKeys == {MakeDistrictKey(w, d) : w \in Warehouses, d \in Districts}
FlatKeys == 1 .. (NumWarehouse + 1) * NumStock

(* Which primary keys of a table have the same key: no two districts,      *)
(* stock rows, customers, orders or index rows.  A history row is keyed by *)
(* its customer and the district paid through, one key for all payments of *)
(* the one through the other.  Two order lines meet when their numbers are *)
(* the same and their order ids differ by the literal of MakeOrderLineKey  *)
(* for each district that lies between theirs, and then only: never within *)
(* a district, and in no two if the ids of both stay below the literal.    *)
KeysUnique ==
  LET OrderIds == 0 .. (Word \div 2) - 1 IN
  /\ IsInjective([x \in Warehouses \X Districts |-> MakeDistrictKey(x[1], x[2])])
  /\ IsInjective([x \in Warehouses \X Items |-> MakeStockKey(x[1], x[2])])
  /\ IsInjective([x \in Warehouses \X Districts \X Customers |->
                    MakeCustomerKey(x[1], x[2], x[3])])
  /\ IsInjective([x \in Warehouses \X Districts \X OrderIds |->
                    MakeOrderKey(x[1], x[2], x[3])])
  /\ IsInjective([x \in Warehouses \X Districts \X Customers \X OrderIds |->
                    MakeOrderIndexKey(x[1], x[2], x[3], x[4])])
  /\ IsInjective([x \in Warehouses \X Districts \X Warehouses \X Districts \X Customers |->
                    MakeHistoryKey(x[1], x[2], x[3], x[4], x[5])])
  /\ \A x, y \in Warehouses \X Districts, o, p \in OrderIds, n, m \in 1 .. MaxOlCnt :
       MakeOrderLineKey(x[1], x[2], o, n) = MakeOrderLineKey(y[1], y[2], p, m)
         <=> /\ n = m
             /\ o - p = (UpperId(y[1], y[2]) - UpperId(x[1], x[2])) * MaxOrderId
=============================================================================
