------------------------------- MODULE WorkMix -------------------------------
(***************************************************************************)
(* The mix of transactions: CreateWorkgenArray (tpcc_tables.cc) fills the  *)
(* slots of an array, of which RunTPCC draws one for each transaction,     *)
(* from five frequency flags.  The loops share an index i, and a limit j   *)
(* to which each flag is added; the flags are signed and nothing checks    *)
(* them but the assertion at the end.                                      *)
(***************************************************************************)
EXTENDS TpccTxn, FiniteSets

CONSTANTS
  Slots,           \* the length of the array, 100
  Flags            \* what each FLAGS_FREQUENCY_* is taken from

ASSUME MixAssumption == Slots \in Nat /\ Flags \subseteq Int

(* The types in the order of the loops; a frequency is given for each.     *)
TxTypes == <<"new_order", "payment", "order_status", "delivery", "stock_level">>
Frequencies == [DOMAIN TxTypes -> Flags]

(* The array before the loops (vector(100) is all zeros, kNewOrder), and   *)
(* the indices the loops write to, in the array or not.                    *)
EmptyMix ==
  [slot |-> [k \in 0 .. Slots - 1 |-> 1], written |-> {}, i |-> 0, j |-> 0]

(* Faulty variant: each loop begins at the first slot. *)
FillFromStart(mix, t, frequency) ==
  LET j == mix.j + frequency
      writes == 0 .. j - 1
  IN [slot |-> [k \in DOMAIN mix.slot |-> IF k \in writes THEN t ELSE mix.slot[k]],
      written |-> mix.written \cup writes,
      i |-> IF j > mix.i THEN j ELSE mix.i,
      j |-> j]

(* j += frequency; for (; i < j; i++) workgen_arr[i] = t                   *)
Fill(mix, t, frequency) ==
  LET j == mix.j + frequency
      writes == mix.i .. j - 1
  IN [slot |-> [k \in DOMAIN mix.slot |-> IF k \in writes THEN t ELSE mix.slot[k]],
      written |-> mix.written \cup writes,
      i |-> IF j > mix.i THEN j ELSE mix.i,
      j |-> j]

CreateWorkgenArray(frequency) ==
  LET new_order == Fill(EmptyMix, 1, frequency[1])
      payment == Fill(new_order, 2, frequency[2])
      order_status == Fill(payment, 3, frequency[3])
      delivery == Fill(order_status, 4, frequency[4])
  IN Fill(delivery, 5, frequency[5])

(* assert(i == 100 && j == 100)                                            *)
MixAsserts(mix) == mix.i = Slots /\ mix.j = Slots

CountOf(mix, t) == Cardinality({k \in DOMAIN mix.slot : mix.slot[k] = t})
-----------------------------------------------------------------------------
MixSound(frequency) ==
  LET mix == CreateWorkgenArray(frequency)
      flagged == \A t \in DOMAIN TxTypes : frequency[t] >= 0
  IN MixAsserts(mix) =>
       /\ mix.written = 0 .. Slots - 1
       /\ \A t \in DOMAIN TxTypes :
            /\ CountOf(mix, t) <= IF frequency[t] < 0 THEN 0 ELSE frequency[t]
            /\ flagged => CountOf(mix, t) = frequency[t]

(* Whatever the flags the benchmark is started with, negative ones         *)
(* included: if the assertion holds then the loops wrote to each slot of   *)
(* the array and to nothing else, no type has more slots than its          *)
(* frequency, and each has exactly its frequency when none is negative     *)
(* (tpcc_tables.cc:56-80; the array is made before the tables are loaded,  *)
(* tpcc.cc:96-98).                                                         *)
MixFollowsFlags == pc = "warehouse" => \A frequency \in Frequencies : MixSound(frequency)
=============================================================================
