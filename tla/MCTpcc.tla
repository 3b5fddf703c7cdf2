------------------------------- MODULE MCTpcc -------------------------------
(* Small instances of the benchmark, of three customers to a district and  *)
(* six items, so that, as with the shipped sizes, the items' keys cover    *)
(* those of every warehouse and district, the customers, orders and new    *)
(* orders of a district share their keys, and some history keys are order  *)
(* keys.  Two warehouses of two districts, or three of one: these can      *)
(* order from each other, and their keys are district keys.                *)
EXTENDS StockLevelQuery, WorkMix

(* Junk that is no id at all; the crash run has junk that looks like one.  *)
MCNegativeJunk == {-7}

(* The frequency flags, one of them negative. *)
MCFlags == -1 .. 4

(* The item whose key is that of the first district, in the run of two     *)
(* transactions, has the greatest name that leaves room for their ids, and *)
(* MaxOrderId more than the next one's, so that lines of the two meet.     *)
MCWarehouseName == [w \in Warehouses |-> 40 + w]
MCItemName == [i \in Items |-> IF i = 2 THEN 61 ELSE 36 + 3 * i]
MCOrderCustomer ==
  [wd \in Warehouses \X Districts |-> [c \in Customers |-> 1 + ((c + wd[2]) % NumCustomer)]]
MCOrderLines ==
  [wdc \in Warehouses \X Districts \X Customers |->
     IF wdc[3] = NumCustomer THEN MinOlCnt ELSE MaxOlCnt]
MCLineItem ==
  [x \in Warehouses \X Districts \X Customers \X (1 .. MaxOlCnt) |-> 1 + ((x[3] + x[4]) % NumItem)]
MCHeapAddress ==
  [x \in Warehouses \X Districts \X Customers |-> 5000 + 100 * x[1] + 10 * x[2] + x[3]]

(* The instances are of the sizes the theorems about index rows and the    *)
(* reload are about.                                                       *)
ASSUME MCApart == IndexApart /\ IdsFit /\ LinesApart
=============================================================================
