----------------------------- MODULE OrderEntry -----------------------------
(***************************************************************************)
(* What order entry promises, without keys, puts and gets: NewOrder seen   *)
(* from the stock rooms and the counters of the districts.                 *)
(*                                                                         *)
(* Stock and counters are loaded, then the warehouses open.  An order      *)
(* takes the next id of its district and ships each of its lines once,     *)
(* from the stock room the line names; nothing else touches either.  A     *)
(* process that dies leaves the rest of its order unshipped, and the stock *)
(* is fresh again before the warehouses reopen.  A write may be refused: a *)
(* line is then not taken from the stock, or an id is handed out again.    *)
(***************************************************************************)
EXTENDS Integers, FiniteSets

CONSTANTS
  Warehouses,      \* the warehouses, each with a stock room and districts
  Districts,       \* the districts of a warehouse
  Items,           \* what a stock room holds
  Lines,           \* the numbers of lines an order may have
  Quantities,      \* what a line may ask for
  InitialQuantity, \* what a stock room starts with, of each item
  MaxLost          \* bound on the number of refused writes

VARIABLES
  open,    \* whether orders are taken
  stock,   \* <<w, i>> -> quantity, units that left, lines for other warehouses
  next,    \* <<w, d>> -> the id the next order of the district takes
  orders,  \* the order under way, if any: its district, id and unshipped lines
  lost     \* writes refused

vars == <<open, stock, next, orders, lost>>

Rooms == Warehouses \X Items
Counters == Warehouses \X Districts
Fresh == [quantity |-> InitialQuantity, ytd |-> 0, remote |-> 0]

(* What a line of q units leaves of a stock room's row: ten at least stay, *)
(* or 91 are added.                                                        *)
Taken(row, q, remote) ==
  [quantity |-> row.quantity - q + (IF row.quantity - q >= 10 THEN 0 ELSE 91),
   ytd |-> row.ytd + q,
   remote |-> row.remote + remote]

Accepted == UNCHANGED lost
Refused == lost < MaxLost /\ lost' = lost + 1
-----------------------------------------------------------------------------
Init ==
  /\ open = FALSE
  /\ stock = [k \in {} |-> Fresh]
  /\ next = [wd \in {} |-> 0]
  /\ orders = {}
  /\ lost = 0

(* While the warehouses are closed rows are replaced by fresh ones and the *)
(* counters by any number.                                                 *)
Restock ==
  /\ ~open
  /\ \E k \in Rooms :
       stock' = [x \in DOMAIN stock \cup {k} |-> IF x = k THEN Fresh ELSE stock[x]]
  /\ UNCHANGED <<open, next, orders, lost>>

SetCounters ==
  /\ ~open
  /\ DOMAIN next \subseteq DOMAIN next'
  /\ \A wd \in DOMAIN next' : wd \in Counters /\ next'[wd] \in Nat
  /\ UNCHANGED <<open, stock, orders, lost>>

(* The last row was replaced. *)
Open ==
  /\ ~open
  /\ open' = TRUE
  /\ stock' = [k \in Rooms |-> Fresh]
  /\ DOMAIN next = Counters
  /\ UNCHANGED <<next, orders, lost>>

Enter ==
  /\ open /\ orders = {}
  /\ \E order \in orders' :
       /\ orders' = {order}
       /\ order.home \in Counters /\ order.id = next[order.home]
       /\ order.lines \subseteq Rooms /\ Cardinality(order.lines) \in Lines
       /\ \/ Accepted /\ next' = [next EXCEPT ![order.home] = @ + 1]
          \/ Refused /\ UNCHANGED next
  /\ UNCHANGED <<open, stock>>

Ship ==
  /\ \E order \in orders : \E k \in order.lines, q \in Quantities :
       LET remote == IF k[1] = order.home[1] THEN 0 ELSE 1 IN
       /\ orders' = {[order EXCEPT !.lines = @ \ {k}]}
       /\ \/ Accepted /\ stock' = [stock EXCEPT ![k] = Taken(@, q, remote)]
          \/ Refused /\ UNCHANGED stock
  /\ UNCHANGED <<open, next>>

(* An order ends once all its lines are shipped. *)
Close ==
  /\ \E order \in orders : order.lines = {}
  /\ orders' = {}
  /\ Accepted \/ Refused
  /\ UNCHANGED <<open, stock, next>>

(* A write that is no concern of stock and counters is refused. *)
Elsewhere == Refused /\ UNCHANGED <<open, stock, next, orders>>

Die ==
  /\ open' = FALSE
  /\ orders' = {}
  /\ UNCHANGED <<stock, next, lost>>

Next ==
  \/ Restock
  \/ SetCounters
  \/ Open
  \/ Enter
  \/ Ship
  \/ Close
  \/ Elsewhere
  \/ Die

Spec == Init /\ [][Next]_vars
=============================================================================
