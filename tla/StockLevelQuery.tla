--------------------------- MODULE StockLevelQuery ---------------------------
(***************************************************************************)
(* What the transaction StockLevel computes (txn_stocklevel.cc): how many  *)
(* different items, of the lines of the last orders of a district, are     *)
(* short in the home warehouse.  It puts nothing and runs alone, so it is  *)
(* an operator on the store of TpccTxn and not a sequence of steps.        *)
(***************************************************************************)
EXTENDS TpccTxn, FiniteSets

CONSTANT
  StockLevelOrders     \* STOCK_LEVEL_ORDERS, 20

ASSUME StockLevelAssumption == StockLevelOrders \in Nat

(* MIN_STOCK_LEVEL_THRESHOLD .. MAX_STOCK_LEVEL_THRESHOLD                  *)
Thresholds == 10 .. 20

RecentOrders(w, d) ==
  LET o_id == NextOrderId(w, d) IN o_id - StockLevelOrders .. o_id - 1

(* The lines that are read, as an order id and a line number: those of an  *)
(* order up to the first for which Get finds nothing.                      *)
ReadLines(w, d) ==
  {line \in RecentOrders(w, d) \X (1 .. MaxOlCnt) :
     \A n \in 1 .. line[2] : MakeOrderLineKey(w, d, line[1], n) \in DOMAIN store}

(* ol_i_id *)
ItemOf(w, d, line) == store[MakeOrderLineKey(w, d, line[1], line[2])].at0

(* stock_val.s_quantity < threshold, where an uninitialised stock_val is j *)
Short(w, item, threshold, j) ==
  LET s_key == MakeStockKey(w, item) IN
  (IF s_key \in DOMAIN store THEN store[s_key].at0 ELSE j) < threshold

(* The lines whose item is pushed, with junk[line] for the quantity in the *)
(* turn of the loop that finds no stock row.                               *)
ShortLines(w, d, threshold, junk) ==
  {line \in ReadLines(w, d) : Short(w, ItemOf(w, d, line), threshold, junk[line])}
-----------------------------------------------------------------------------
(* The elements of the finite set S as R orders them, a set of pairs.      *)
InOrder(S, R) ==
  [k \in 1 .. Cardinality(S) |->
     CHOOSE x \in S : Cardinality({y \in S : <<y, x>> \in R}) = k - 1]

ReadBefore(lines) ==
  {pair \in lines \X lines :
     LET p == pair[1]
         q == pair[2]
     IN p[1] < q[1] \/ (p[1] = q[1] /\ p[2] < q[2])}

(* s_i_ids, as the loops leave it *)
ShortItems(w, d, threshold, junk) ==
  LET lines == ShortLines(w, d, threshold, junk)
      read == InOrder(lines, ReadBefore(lines))
  IN [k \in 1 .. Cardinality(lines) |-> ItemOf(w, d, read[k])]

(* std::sort *)
SortsBefore(s) ==
  {pair \in (1 .. Len(s)) \X (1 .. Len(s)) :
     LET i == pair[1]
         j == pair[2]
     IN s[i] < s[j] \/ (s[i] = s[j] /\ i < j)}

Sorted(s) ==
  LET from == InOrder(1 .. Len(s), SortsBefore(s)) IN [k \in 1 .. Len(s) |-> s[from[k]]]

(* num_distinct: the elements that differ from last, which is the element  *)
(* before, and -1 before the first.                                        *)
CountChanges(s_i_ids) ==
  Cardinality({i \in 1 .. Len(s_i_ids) :
                 s_i_ids[i] # (IF i = 1 THEN -1 ELSE s_i_ids[i - 1])})

(* Faulty variant: the ids are not sorted first. *)
NumDistinctUnsorted(w, d, threshold, junk) ==
  CountChanges(ShortItems(w, d, threshold, junk))
NumDistinct(w, d, threshold, junk) ==
  CountChanges(Sorted(ShortItems(w, d, threshold, junk)))
-----------------------------------------------------------------------------
(* The item ids the transaction should count: those of the short lines.    *)
(* -1 is no item: it stands before the first id, and is not counted there. *)
ItemsToCount(w, d, threshold, junk) ==
  LET items == {ItemOf(w, d, line) : line \in ShortLines(w, d, threshold, junk)}
  IN {item \in items : item # -1 \/ \E other \in items : other < -1}

(* A StockLevel transaction counts each item once, however many lines of   *)
(* the recent orders name it, and no item but those of lines that it read  *)
(* and found short, whatever rows lie under the keys it reads and whatever *)
(* a stock_val holds for which there is no row (txn_stocklevel.cc:45-110). *)
StockLevelCountsItems ==
  pc = "idle" =>
    \A w \in HomeWarehouses, d \in Districts, threshold \in Thresholds :
      \A junk \in [ReadLines(w, d) -> Junk] :
        NumDistinct(w, d, threshold, junk) = Cardinality(ItemsToCount(w, d, threshold, junk))
=============================================================================
