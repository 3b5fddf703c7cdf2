# Verification of cuddly-workloads

cuddly-workloads is a TPC-C benchmark over a key-value store: `src/tpcc.cc`
loads the nine TPC-C tables into a RocksDB, ListDB or in-memory store and then
runs a mix of the five TPC-C transactions, one after the other, in one thread.
Beside it the repository ships a thread pool, `src/utils/thread_pool.h`.

## 1. Inventory

| Component | Source | State | Operations |
| --- | --- | --- | --- |
| Keys and schemas | `tpcc_tables.h:214-308`, `schemas.h` | none | the `Make*Key` functions; the key unions and row structs |
| Record access | `tpcc_tables.h:72-92` | the store | `PutRecord`, `GetRecord` |
| Loader | `tpcc_tables.cc:42-535` | the store, its loop indices | `LoadTables` and seven `Populate*` calls |
| NewOrder | `txn_neworder.cc` | the arrays of lines, `stock_set`, `all_local`, the taken order id | `NewOrder` |
| Payment | `txn_payment.cc` | the warehouse, district and customer it pays through | `Payment` |
| Delivery | `txn_delivery.cc` | the district loop, the drawn order | `Delivery` |
| OrderStatus, StockLevel | `txn_orderstatus.cc`, `txn_stocklevel.cc` | none they keep | read only |
| Driver | `tpcc.cc` | the loop of `RunTPCC` | `main`, `RunTPCC` |
| Workload mix | `tpcc_tables.cc:55-82` | `workgen_arr` | `CreateWorkgenArray` |
| Thread pool | `utils/thread_pool.h` | queue, counter of running tasks, two flags, one mutex, two condition variables | `push_task`, `submit`, `push_loop`, `wait_for_tasks`, destructor, `worker` |
| Backends | `*_impl.{h,cc}`, `kv_interface.h` | the store | `Put`, `Get` |

**How they interact.** `main` makes a `TPCCTable` over a backend, calls
`LoadTables`, and hands the table to `RunTPCC`, which calls a transaction per
iteration. Transactions and loader share exactly one thing, the store, and only
through `PutRecord` and `GetRecord`. There is one key space for all tables and
no table prefix: a key is the 64-bit integer a `Make*Key` function returns, and
`GetRecord` copies whatever bytes it finds into whatever struct it is given. The
thread pool is a library class; the benchmark does not call it yet.

**What is hard.** (1) Aliasing: rows of different tables have the same key.
Customers, orders and new orders of a district share all their keys; a
district's key (`w*10+d`) is also an item's. Which row a transaction meets
depends on everything that was put before. (2) Nothing makes the up to forty
puts of a transaction atomic; the store is persistent and a restarted process
loads the tables over it again. (3) `GetRecord`'s result is ignored, so a
missing row is an uninitialised struct that is then put. (4) Unsigned arithmetic
in the restocking rule. (5) A retry loop with counters that must agree. (6) A put that the store refuses,
at which no transaction looks.
(7) In the thread pool: every interleaving of workers, pushers, waiters and the
destructor over one mutex and two condition variables.

**What makes each component correct.** Keys: the rows of a table that is
updated in place are not hit by another table's. Loader: what it leaves does
not depend on what was there. NewOrder: stock is conserved, the stock bounds
hold, remote lines are counted, order ids are dense and unique, no counter
overflows, each order's lines name different stocks and are taken from them
once, from order entry to restart. StockLevel: it counts each item once. Workload mix: the array follows
the flags. Delivery and Payment: they update the rows they
name. Driver: it ends. Pool: a task runs exactly once; a wait returns when, and
only when, nothing is queued or running; the destructor ends all workers.

`PROJECT.json` lists each hazard at its line with the properties that cover it.

## 2. Modules

| Module | Models | |
| --- | --- | --- |
| `Keys` | the `Make*Key` functions on integers of a given width, with their truncation to `int32_t` and sign extension; `KeysUnique`, which rows of a table have the same key | pure operators |
| `KeysProofs` | the theorems about `Keys` | `EXTENDS Keys, TLAPS` |
| `TpccTables` | record access and the loader | `EXTENDS Keys` |
| `TpccTxn` | the transactions, `RunTPCC`, `main`, refused puts, and the process being killed and restarted | `EXTENDS TpccTables`, implements `OrderEntry` (`Orders == INSTANCE OrderEntry WITH ...`) |
| `OrderEntry` | what order entry promises about stock and order ids, without keys, puts and gets | abstract specification |
| `StockLevelQuery` | what `StockLevel` computes from the store | `EXTENDS TpccTxn`, pure operators |
| `WorkMix` | `CreateWorkgenArray` | `EXTENDS TpccTxn`, pure operators |
| `MCTpcc` | the instance TLC checks | `EXTENDS StockLevelQuery, WorkMix` |
| `TpccProofs` | types, stock rows and keys of `TpccTxn`, by `IInv` | `EXTENDS TpccTxn, KeysProofs` |
| `OrderProofs` | the lines of an order, the remote counts, which steps change stock rows and counters, and the refinement of `OrderEntry` | `EXTENDS TpccProofs` |
| `IndexProofs` | the counters, index rows, order ids, what a reload restores, and what the conditions of these come to for the shipped program | `EXTENDS OrderProofs` |
| `StockLevelProofs` | the theorem about `StockLevelQuery` | `EXTENDS StockLevelQuery, TpccProofs` |
| `WorkMixProofs` | the theorem about `WorkMix` | `EXTENDS WorkMix, TLAPS` |
| `TaskPool` | what a thread pool promises its users, without threads, locks or flags | abstract specification |
| `ThreadPool` | construction, `push_task`, `submit`, `worker`, `wait_for_tasks`, destruction | implements `TaskPool` (`Pool == INSTANCE TaskPool WITH ...`) |
| `MCThreadPool` | the instance TLC checks | `EXTENDS ThreadPool` |
| `ThreadPoolProofs` | the theorems about `ThreadPool` | `EXTENDS ThreadPool, TLAPS` |
| `PushLoop` | `push_loop`: how a range is cut into blocks and pushed | on its own: what becomes of the tasks it pushes is `ThreadPool`'s |
| `MCPushLoop` | the instance TLC checks | `EXTENDS PushLoop` |
| `PushLoopProofs` | the theorems about `PushLoop` | `EXTENDS PushLoop, TLAPS` |

### TPC-C: state and actions

`store` maps a key to a row: the name of the struct whose bytes were put there
and that struct's first four 32-bit words (the table at the head of
`TpccTables` says which field each word is). That is enough to follow what the
program *computes with*: `s_quantity`, `s_ytd`, `s_remote_cnt`, `d_next_o_id`,
`o_c_id`, `o_ol_cnt`, the line's item and supplier, and what those words are
when the row really is of another table: an item read as a district hands out
the first characters of the item's name as `d_next_o_id`. Everything else
(floats, clock readings, text, uninitialised bytes) is an arbitrary member of
the constant set `Junk`. `As(type, row)` is a put of a struct read as another
type: the bytes stay.

`pc` and `loop` are the position in the program, `txn` the local variables of
the transaction that runs, `done` the `i` of `RunTPCC`, `crashes` the number of
times the process was killed, `lost` the number of puts the store refused.

- *Loader.* One action per put of the `Populate*` functions: an iteration of the
  customer loop is `LoadCustomer`, `LoadCustomerIndex`, `LoadHistory`; one of the
  order loop is `LoadOrder`, `LoadOrderIndex`, `LoadNewOrder` (for the orders not
  delivered yet) and `LoadOrderLine` for each line. `Advance` moves to the next
  iteration, and from one function to the next in the order of `LoadTables`,
  which calls `PopulateStockTable` twice. The put-if-absent of the two index tables is kept. The generators are
  constructed from literal seeds, so what they draw is the same in every
  process: constants (`OrderLines`, `LineItem`, `StockQuantity`, ...), about
  which only `LoadAssumption` is assumed.
- *NewOrder.* `NewOrder` draws the parameters; `GenerateLocal` and
  `GenerateRemote` are one turn of the line generation loop, with the duplicate
  test and `all_local` cleared before it; then one action per put:
  `TakeOrderId`, `InsertNewOrder`, `InsertOrder`, `InsertOrderIndex`,
  `UpdateStock`, `InsertOrderLine`, the last two in turn for each line.
- *Payment.* `PayWarehouse`, `PayDistrict`, `PayCustomer`, `InsertHistory`.
- *Delivery.* `DeliverOrder`, `DeliverLine` (for each of `MAX_OL_CNT` keys),
  `DeliverCustomer`, for each district in turn.
- *OrderStatus*, *StockLevel* change nothing and are steps that count as one
  transaction. What `StockLevel` finds in the store is `NumDistinct` of
  `StockLevelQuery`: the orders before `d_next_o_id`, whatever that is, their
  lines up to the first that is missing, the items among them that are short,
  sorted and counted. A line is a pair of an order id and a number, and the
  order in which lines are read is the lexicographic one of these pairs. A
  missing stock row leaves `stock_val` uninitialised, anew in every turn of the
  loop: `junk` has a quantity for each line.
- *Put.* A put of a transaction works or is refused (`RocksDBImpl::Put` returns
  -1 for a `Status` that is not ok); the next step is the same, as no transaction
  looks at the result. The loader's puts are taken to succeed: a benchmark whose
  load failed says nothing.
- *Crash* is the process being killed between any two steps and started again on
  the same database.

`OrderEntry` is the same from the stock rooms and the district counters: while
closed, rooms are restocked and counters set; once open, an order takes the next
id of its district and ships each of its lines once, from the room the line
names; nothing else touches either. A death of the process drops the order under
way, and a refused write loses one change. The refinement reads the rooms and
counters out of the store under their keys, and the order under way off the
locals of `NewOrder` (`UnderWay`): Payment, Delivery and every put of another
table must leave what is read there as it is, although all of them go to the
one store.

`WorkMix` follows the index and the limit that the five loops share, and which
slots they write, loop by loop. The array is made before the tables are loaded, so its property
is stated at the start of the process, for all combinations of flags.

The transactions share no other state, so the granularity that matters is the
put: a step of a transaction is one put together with the gets it was computed
from. No other thread runs, so only a crash can come between two steps.

### Thread pool: state and actions

`tasks`, `tasks_running`, `waiting` and `workers_running` are the members of the
class; `pc` is where each thread is, `task` the local variable of each worker.
`pushed`, `finished` and `closing` are history: how many tasks were pushed
(tasks are numbered in that order), which returned (the future of `submit` is
ready when its task is there), and whether the destructor was called.

These members are read and written under `tasks_mutex` only, the flag of
`create_threads` and `destroy_threads` included. So what a thread does from one
lock to the next unlock or sleep is one step, and the steps of different threads
interleave in every way:

| Code | Actions |
| --- | --- |
| constructor, `create_threads` | `CreateThreads`, `SpawnThread` for each worker in turn: a worker may run before the next exists |
| `push_task`, `submit` | `push_task` under the lock, `NotifyOne` after it. Clients and running tasks push. |
| `worker` | `WorkerSleeps`, `WorkerBreaks` or `WorkerTakes` after the test of the predicate; `TaskReturns`; `WorkerCounts` with its `notify_all` |
| `wait_for_tasks` | `wait_for_tasks` (the call), then `WaitSleeps` or `WaitReturns` |
| destructor | `Destroy` (calls `wait_for_tasks`), `destroy_threads`, `NotifyAll`, `Join` |
| condition variables | notified threads go to `test`; `SpuriousWake` sends a sleeper there for no reason |

`notify_one` wakes any sleeping worker. The destructor is called when no other
client is inside a member function, as the lifetime of a C++ object demands;
tasks may still be queued, run, and push more.

`TaskPool` knows the queue, the tasks that run, those that returned, the clients
inside a wait, and whether the pool is open. The refinement reads the running
tasks off the workers (`Held`), not off `tasks_running`: that the counter and
the flag stand for them is what the refinement establishes. Between
`TaskReturns` and `WorkerCounts` the concrete pool is behind the abstract one.

`PushLoop` has the arguments of the call, the range as the code splits it, and
the tasks pushed so far; `push_block` is one iteration. The index type T is
signed or unsigned, of `Width` values: the ends are converted to it, and so are
the ends of the blocks (`Convert`), which wrap around when T is unsigned. A
signed T has to hold the length of the range, as the code leaves it undefined
otherwise (`Calls`).
`loop` is the caller's function object: forwarded as an lvalue it is copied, as
an rvalue it is moved, and `moved_from` stands for what a type such as
`std::function` leaves. A callable whose move is a copy is not hurt by this.

## 3. Runs

The TPC-C runs use three customers, six items, `Word` = 128 for 2^32,
`HistoryShift` = 32 for 2^20 and `MaxOrderId` = 8 or 16 for 10000000. `tpcc_run`
has three warehouses of one district: the first two can be home, so that each
orders from the other and both from the third, and a warehouse's key is also
that of a district, as it is in the program from eleven warehouses on. The other
runs have two warehouses (one of them can be home, as with the default of the
program) of two districts. The sizes are chosen so that what happens
with the shipped sizes happens here: items share the keys of the warehouses and
districts, customers, orders and new orders share keys, and the ids handed out
are beyond `MaxOrderId`. In `tpcc_run` the names of the items with the keys of
the first two districts are 61 and 45: the first leaves room for just the ids of
two orders below 64, half of `Word`, and both are `MaxOrderId` apart, so that
order lines of the two districts meet. A key of the small instance does what `Keys` computes
with these widths; which keys collide is a matter of the inequalities of
`SizeAssumption` and `WidthAssumption`, and the theorems rest on nothing else.
`MaxTxn` bounds the transactions of one process, `MaxCrash` the restarts,
`MaxLost` the refused puts, and `ItemPool`, `CustomerPool`, `QuantityPool` what
transactions draw from (1 and 10 are the extremes of the quantity; one customer
is enough for the passing runs, as a customer is in the keys of index, customer
and history rows only, and `KeysUnique` says of all customers that these differ). `StockLevelOrders` is 3 for 20, so that a
query reaches before and into the orders of both transactions. The loaded
quantity is 15 in `tpcc_run`, between the thresholds 10..20 of `StockLevel`, and
10 in `tpcc_crash`, where every line restocks. The mix has 4 slots for 100, and
each flag is one of -1..4: every way to add up to 4, and sums below and above.

| Run | Expect | Question |
| --- | --- | --- |
| `tpcc_run` | pass | After any two transactions, every interleaving of draws: are the stock rows, the ids and the lines what NewOrder takes them for? Two transactions suffice for a second order id in a district, a stock updated twice and every pair of transaction types. Do the orders of two warehouses that supply each other implement `OrderEntry`? What would StockLevel count in between, does the mix follow the flags, does a counter overflow, and which rows of a table have the same key? |
| `tpcc_crash` | pass | The process dies between any two puts, of the load or a transaction, once, and is restarted; one put of a transaction is refused: does the reload repair the store, does no index row dangle, does the benchmark end, and does it implement `OrderEntry` all the while? One restart suffices, as a restarted process differs from the first only in the store. The junk of this run is 2, which looks like an id. |
| `order_lines` | violation | Is each local line stored under its order-line key, as `txn_neworder.cc:182` says? |
| `next_id` | violation | Is `d_next_o_id` the last order's id plus one after the load, as `tpcc_tables.cc:155` says? |
| `pay_customer` | violation | Does Payment find a customer under the customer's key? |
| `phantom_lines` | violation | Does Delivery leave lines an order does not have alone? |
| `one_warehouse` | violation | Does the assertion of `PickWarehouseId` hold with one warehouse? |
| `pool` | pass | Every interleaving of three workers, two clients and three tasks: is each task run once and in order, is every wake-up delivered, does the pool implement `TaskPool`, progress included, and does the destructor end? |
| `two_waiters` | violation | Does `wait_for_tasks` end when two threads call it at once? |
| `push_loop` | pass | Do the blocks tile the range, in even sizes? |
| `push_loop_rvalue` | violation | Does every block get the loop function? |
| `push_loop_reversed` | violation | Is `push_loop` the `for` loop that its comment says it is? |

*Bounds of the pool.* `thread_count_` = 0 takes the branch of
`determine_thread_count` to `hardware_concurrency`, which is 3. Three workers
and three tasks let two workers be between the locks while a third falls asleep,
and let a running task push during the destructor; `MaxTasks` bounds the pushes
and nothing else. Two clients let one push while the other waits. In `pool` only
`main`, which also destroys the pool, waits: with a second waiter
`WaiterHasReason` is false, which is what `two_waiters` shows (a pool of one
worker suffices for it).

*Bounds of the loop.* All pairs of indices in -2..12, both directions, empty
ranges included, with 1, 2, 4 and 5 blocks and with the default of three: fewer
indices than blocks, as many, and every remainder of the division by them. T has
five bits (`Width` = 32), so that a negative end becomes 30 or 31 in an unsigned
T, and a signed T goes up to 15.

TPC-C properties: `TypeOK` (in `tpcc_run` only, as every run has the same
variables); `StockBounds` and `StockConserved` (stock rows are hit by
no other table's put, stay in 10..100, and lose nothing but multiples of the
restocking of 91); `RemoteCounted` (`s_remote_cnt` does not exceed `s_ytd`, and
in the last warehouse, which is no order's home, it misses no line; that a home
warehouse counts none of its own lines is part of `ImplementsOrderEntry`);
`NoOverflow` (`d_next_o_id`, `s_ytd` and `s_remote_cnt` stay below 2^31, although
the first starts from characters of a name and is read back from rows of three
tables); `OrderIdsDense` (stated while nothing has
crashed: a reload resets `d_next_o_id` and ids are issued again);
`LinesDistinct`; `RemoteLinesInserted` (while no put was refused, the remote lines
that NewOrder is past are under their own keys: the half of the comment at
`txn_neworder.cc:182` that holds, where `order_lines` refutes the other);
`ReloadRestores` (after a reload over what a killed process left, every stock,
item, index and line row, and the order or new-order row of each order, is what
the load puts there; customers, warehouses, districts and some history rows share
their keys with rows that are loaded later, and are not compared); `NoDanglingIndex`
(something lies under the key of each indexed order: a new order, an order or a
local line, as these share the key; stated while no put was
refused, as `OrderIdsDense` is: a refused order is followed by its index row);
`StockLevelCountsItems` (each short item of the lines reached is counted once: an
order is left at the first number without a row, which a local line is; the
id -1, which only a row of another table can hold, is what `last` starts from and
is missed when it comes first);
`MixFollowsFlags` (if the assertion of `CreateWorkgenArray` holds, the array was
filled and nothing else written, and no type has more slots than its flag);
`TablesKeyed` (at whatever sizes the process starts, which rows of a table have
one key: no two districts, stock rows, customers, orders or index rows; the
history rows of one customer's payments through one district; and the order lines
of one number whose ids differ by `MaxOrderId` for each district between them, and
no others, for all ids from 0 that an `int32_t` can hold); `ImplementsOrderEntry`, the refinement, over two
orders of different warehouses in `tpcc_run` and over a crash, a reload and a
refused put in `tpcc_crash`; and the
liveness property `Finishes`.

Pool properties: `TasksAccounted` (no task is lost, run twice or overtaken, and
`tasks_running` counts what it should); `NoLostWakeup` (a queued task is not left
before workers that all sleep, though the notify comes after the unlock);
`WaiterHasReason`; `DestroyedWhenDone`; `Implements` and `Progress` (`TaskPool`'s
`Spec` and `FairSpec` under the refinement); `DestructorReturns`. Loop
properties: `BlocksTile`, `BlocksBalanced`.

**Fairness.** `TpccTxn`'s `FairSpec` has `WF_vars(Step)`: a single-threaded program that is
not killed keeps running. Drawing a stock that is already in `stock_set` leaves
every variable as it is once `all_local` is 0, so weak fairness of `Step` also
says that the random generator does not draw the same stocks forever, which is
what `Finishes` needs and all it needs. Crashes are not fair and are bounded by
`MaxCrash`.

`ThreadPool`'s `FairSpec` is weak fairness of each worker, of each client inside
a call, and of the owner inside the constructor or destructor: the scheduler
runs every thread that can go on, and tasks return. A mutex held for a few
instructions needs no more. Nothing makes a client push, wait or destroy the
pool, and no spurious wake-up has to come; if one had to, a lost wake-up would be
repaired by it and `Progress` would mean nothing.

## 4. Proofs

`TpccProofs` proves for every value of the constants that satisfies
`SizeAssumption`, `WidthAssumption`, `LoadAssumption`, `PoolAssumption` and
`CounterAssumption`:

- `TypeCorrect`: `Spec => []TypeOK`
- `StockBoundsHold`: `Spec => []StockBounds`
- `StockConservedHolds`: `Spec => []StockConserved`
- `TablesStayKeyed`: `Spec => []TablesKeyed`, from `KeysAreUnique` of
  `KeysProofs`, which proves `KeysUnique`: a key is a number in a mixed radix
  (`DigitsUnique`), whose digits the widths keep within their places. The order
  id of an order line is not kept within its place: `LineKeysMeet` shows that two
  lines then meet exactly when their ids make up for their districts. `next_id`
  shows that the ids of the program, characters of a name, are such ids.

Both assumptions about sizes hold for the shipped ones (`ShippedSizes`) and up to
9999 warehouses, which `ShippedWidths` proves of `WidthAssumption`. With one more
the key of a district is the key of a stock row; with many more the 32-bit
intermediate results of the key functions overflow. `CounterAssumption` bounds the
transactions of all processes together, so that the counters, which are numbers of
any size here and `int32_t` in the code, have room for them; `ShippedCounters` has
it of the shipped program for 90 million transactions. Only the theorems about
counters and ids rest on it. (TLC evaluates all of them on the small instances, and
`IndexApart`, `IdsFit` and `LinesApart` below, which `MCTpcc` assumes.)

None of the first three invariants is inductive. `IInv` adds:

- `StoreOK(store)`: every stock row is a stock, within bounds and conserved, and
  every row under a district's key has a natural number at the offset of
  `d_next_o_id`. This second half is what keeps order ids natural numbers,
  hence their keys away from the stock keys, although the row may be an item or
  a district and be written by Payment and NewOrder in turn.
- `LoopOK`: the indices are within the loop that `pc` names.
- `Loaded`: how far the load got: which stock, district and item rows are there.
  A transaction that read a missing stock row would put an uninitialised one;
  this part shows that it never does, including after a crash in the reload.
- `InFlight`: what the locals of a transaction are at each label.

The argument: lemmas in `KeysProofs` show that no key of another table is a stock
key (by size of the results, through the truncations to `int32_t`); a put under
another key then leaves the stock rows alone (`PutOK`), and `ChangeStock` shows
that the rule of NewOrder keeps the bounds and the residue modulo 91. There is
one lemma per action; `Invariant` combines them. A refused put leaves the store,
so a step of a transaction has the two cases of `Put`, and the invariant covers
both: a stock row whose put was refused is conserved as it was.

`OrderProofs` adds the lines to it, from the same assumptions:

- `LinesDistinctHold`: `Spec => []LinesDistinct`
- `RemoteCountedHolds`: `Spec => []RemoteCounted`

`LinesDistinct` says of `stock_set` and the two arrays what a reader of the
generation loop hopes; `LinesOK` says why: local lines are supplied by the home
warehouse, remote ones by others, no two name the same stock, and
`all_local` is 1 only while no line is remote. `OrderInv` is `IInv` with
`LinesOK`. For `RemoteCounted`, `StockFrame` shows that only the loader and
`UpdateStock` change a stock row. As no process has the last warehouse for its
home (`PickWarehouseId`
draws below it), a line from there is remote and is counted; the bound of ten
units to a line does the rest, and a refused put changes both fields or none.

- `RemoteLinesAreInserted`: `Spec => []RemoteLinesInserted`. `Inserted` is the
  property without its label, and is kept because the key of a remote line is
  neither a stock key nor the key of another line of the order. The local lines
  have no such theorem: they go to the order's key, as `order_lines` shows.

`OrderProofs` also proves `ImplementsHolds`: `Spec => ImplementsOrderEntry`, from
the same assumptions. `RefineInv` is `OrderInv` with `Restocked`: what the second
`PopulateStockTable` has passed is restocked, which is what `Open` asks for in
a reload over a used store. With `LinesDistinct` a line's room is shipped from
once, so the unshipped rooms of an order lose exactly that one; `StockFrame` and
`CounterFrame` make every other put a stutter. `Payment` is where this is not
obvious: it puts a warehouse or a district back under a key that may be a
district's, and the word at `d_next_o_id` must come through.

`IndexProofs` proves, from the same assumptions:

- `NoOverflowHolds`: `Spec => []NoOverflow`

A counter of a district leaves room for the orders that this process and those
after it can still take (`CountersFit`), wherever the row it is read from comes
from: a step that loads such a row puts a name or a small number there, and
`TakeOrderId` uses up one order of the room. For `s_ytd`, `Turns` is how many
orders of all processes can have taken from a row: those of the transactions that
are over, and the one under way when it is past a line that names the row.
`LinesDistinct` makes this at most one turn to an order, and a turn takes ten
units at most (`YtdFit`). A process that was killed used up no more turns than
its transactions (`TurnsStep`), and `s_remote_cnt` is below `s_ytd` by
`RemoteCounted`.

It proves, under up to three more conditions:

- `NoDanglingIndexHolds`: `IndexApart` and `IdsFit` imply `Spec => []NoDanglingIndex`
- `OrderIdsDenseHolds`: they imply `Spec => []OrderIdsDense`
- `ReloadRestoresHolds`: with `LinesApart` they imply `Spec => []ReloadRestores`

`IndexApart` says that no row of another table has a key in the range of the
index keys. It does not follow from the widths: `MakeOrderIndexKey` has the key
of a customer above its 32 bits of order id where `MakeOrderKey` has that of a
district, and with 3300 warehouses of the shipped sizes the last district's
number reaches the first customer's. Up to 3299 it holds. `IdsFit` says that
each district shares its key with an item, that the ids read from the items'
names are above those of the loaded orders, and that junk is an `int32_t`: an id
starts from four characters of an item's name, which are a number between
808464432 ("0000") and 2054847098 ("zzzz"), as the names are drawn from letters and
digits (`NameRange`). `LinesApart` says
that no line of a loaded order has the key of one: a line of some district lies
where the orders of another one start, first for the district number 56894, which
is in warehouse 5689.

`ShippedOrdersHold` puts this together for the program as it is shipped: with up
to 3299 warehouses order ids are dense, no index row dangles and a reload restores,
for as many transactions as `CounterAssumption` allows (`ShippedCounters`). The sizes are those of
`ShippedSizes`, and `ShippedData` is what it takes
of the data: names of letters and digits, words of 32 bits, a heap below 2^47. The
three conditions follow (`ShippedIndexApart`, `ShippedIdsFit`,
`ShippedLinesApart`); for the last, an equation in two district numbers with the
coefficients of the two keys has no small solution (`NearKeys`).

The invariants:

- `FitInv` (`CountersFit`, `WordsFit`, `TxnFit`): a counter leaves room as above,
  and any word read from any row is a word. Keys stay where `IndexApart` puts them.
- `IndexInv` (`IndexRows`, `Led`, `LoadLed`): what is under an index key is an
  index row, of an order whose row is there; the two steps that put one follow
  the put of that order. No step removes a key (`StoreGrows`).
- `DenseInv` (`Named`, `Latest`, `Dense`): a counter starts from the name of the
  item that shares its key and never falls; the order not indexed yet has the
  last id handed out; an id below the counter is indexed once, any
  other not at all. `DistrictKeyUnique` keeps `TakeOrderId` in one district from
  moving the counter of another.
- `ReloadInv` (`OrdersBack`, `OrderBegun`, `ItemsBack`, with `Restocked` and
  `IndexRows`): the orders the loops are past are whole, so are the parts of the
  one they are at and the items passed. No later put has one of these keys
  (`OrderKeyApart`, `LineKeyApart`, `OrderRowsApart`); the index row, put only when
  absent, is right because any row that was there says the same.

`WorkMixProofs` proves `MixFollows`: `Spec => []MixFollowsFlags`, for all flags
and all lengths of the array. Each loop is followed from the index the last one
left (`FillOK`, `FiveTypes`), and the counts of the slots are sizes of
intervals.

`StockLevelProofs` proves `StockLevelCounts`: `Spec => []StockLevelCountsItems`,
for any store that the invariant allows, any number of orders and lines, and any
uninitialised quantity. Sorting is stated without recursion, by the number of
predecessors of an element in a strict order (`InOrder`), so that no induction
over data is needed: ranks are different and fill 1..n (`InOrderLists`), the
sorted sequence ascends and keeps its elements (`SortSorts`), and in an ascending
sequence each value has one first occurrence, which is where it is counted
(`ChangesCountValues`). That there is a first one is the well-foundedness of the
natural numbers (`LeastElement`).

`ThreadPoolProofs` proves for every number of workers, clients and tasks, from
`PoolAssumptions` (the clients are not workers, the owner is a client that
waits):

- `PoolTypeCorrect`, `EveryTaskAccounted`, `NoWakeupLost`,
  `DestroyedOnlyWhenDone`: the four invariants of `pool`
- `OneWaiterHasReason`: `Waiters = {Owner}` implies `[]WaiterHasReason`; the
  hypothesis is needed, see `two_waiters`
- `PoolImplements`: `Spec => Implements`

`TasksAccounted` is not far from inductive; what has to be added (`OwnerOK`) is
where the owner is when the flags have which value: `workers_running` holds from
the end of `CreateThreads` to `destroy_threads`, workers exit only afterwards,
and by then nothing is queued or running, because `WaitReturns` found it so and
only running tasks could push in the meantime. `NoLostWakeup` needs that a worker
that falls asleep saw an empty queue, and that a pusher is at `notify` from its
push on. `WaiterHasReason` needs that the flag is up whenever the one waiter
sleeps (`WaitOK`), so that the worker that counts the last task wakes it. The
step that needs most is `WorkerCounts`: that `tasks_running` is the cardinality
of `Uncounted` makes `LastOne` mean that no other worker has a task. Refinement
is the action-by-action argument over the same invariant.

`PushLoopProofs` proves `LoopTypeCorrect`, `Tiles` and `Balanced`, for every
range, index type, number of blocks and number of threads. `EndsExact` says that
the converted end of a block is the end itself: an end of a block lies within the
range, whose ends are of type T, and conversion is the identity on T. Its `IInv` says that the split satisfies
`size * num <= total`, with the remainder below `num` (`RangeOK`), and what the
blocks pushed so far are in terms of `i` (`PushedOK`). Two theorems delimit the
findings about `push_loop`: `LvalueCallable`, every block can be called when the
loop function is passed as an lvalue, and `ForwardLoops`, the blocks have the
indices of the `for` loop and no others when the ends, converted to T, are in
order. Only rvalues and reversed ranges are left to go wrong, and do.

Every safety property of the passing runs is a theorem, the two refinements
included. Only model-checked is liveness (`Finishes`, `Progress`,
`DestructorReturns`), which is out of the proof system's reach. The invariants that the
proofs about TPC-C add were checked on `tpcc_run` and `tpcc_crash` before they
were proved.

## 5. Where the code and its comments disagree

The violation runs of section 3, in `PROJECT.json` under "findings": local order
lines overwrite the order row (`txn_neworder.cc:194`), items overwrite districts
at load (so that order ids are far above the literal that `tpcc_tables.h:294`
calls their maximum), customers share their keys with orders, Delivery adds lines,
and one warehouse trips an assertion. In the thread pool, two concurrent waits share a
flag that the first to return clears (`thread_pool.h:180`), so that the other
may sleep forever; `push_loop` forwards an rvalue more than once (line 92); and
it runs a reversed range where the loop of its comment runs nothing (line 80).

## 6. Not modelled

- Money, text, dates: no decision of the code depends on them. That `w_ytd` and
  `d_ytd` are floats, which lose cents, is a hazard without a property.
- A put of the loader that is refused, and a `Get` that fails on a row that is
  there. A refused put of a transaction is modelled.
- `MemoryDBImpl`'s truncation of a value at its first NUL byte
  (`memorydb_impl.cc:18`): `GetRecord` then reads behind the string's end, and
  what it reads there has no model. `main` runs on RocksDB.
- The random generators: a draw is a choice from the set that is drawn from.
- The record counters of `TPCCTable`, which only the log and a test read.
- The heap address that `MakeCustomerIndexKey` returns as a key: a constant
  function outside the range of the other tables, the same in every process;
  nothing reads those rows.
- What `OrderStatus` reads: it computes nothing from it. Its loop over
  `o_ol_cnt` lines, a word that may be any bytes, is one step and taken to end,
  which `Finishes` rests on. With INT_MAX in that word the test of the loop never
  fails, and the behaviour is undefined once `i` overflows.
- The text that Payment copies into `h_data` (`txn_payment.cc:131-133`). The rows
  it reads as a warehouse and a district may be item rows, whose names are longer
  than `h_data` allows for; what is copied past its end is undefined, and the model
  has a put of the history row and nothing else.
- Counters that overflow. They are numbers of any size, and runs of more
  transactions than `CounterAssumption` allows are left out.
- Tasks that throw, and tasks that call `wait_for_tasks` on their own pool.
- A range of `push_loop` longer than its signed index type: undefined behaviour
  before the code does anything.

## 7. Plan

The order is by what matters most to the system. Done: the store and its keys,
the loader at the granularity of its puts, the transactions with crashes and
refused puts, the abstract specification of order entry and its refinement, what
`StockLevel` counts, the workload mix, the pool and its abstract specification,
`push_loop` with its index types, and the theorems of section 4. The runs are one
to a question; their bounds stay as they are.

Every safety property of the passing runs is a theorem. What is left: properties
of the abstract specifications themselves (that a `TaskPool` starts each task
once, that an `OrderEntry` ships what it was asked for), from which the
refinements carry them over.

Models that could follow: a second instance of `Put` and `Get` with the
truncation of `MemoryDBImpl`, over rows with all their words.
