----------------------------- MODULE ThreadPool ------------------------------
(***************************************************************************)
(* CW::ThreadPool (utils/thread_pool.h): a queue of tasks, a counter of    *)
(* the running ones and two flags under one mutex, with one condition      *)
(* variable for the workers and one for those who wait.                    *)
(*                                                                         *)
(* What a thread does while it holds tasks_mutex is one step, which ends   *)
(* where it unlocks or falls asleep on a condition variable.  A notify     *)
(* that comes after the unlock is a step of its own.  A thread that is     *)
(* notified, or wakes up for no reason, locks and tests its predicate      *)
(* again.                                                                  *)
(*                                                                         *)
(* Tasks are numbered in the order they are pushed in.  A future that      *)
(* submit() returned is ready when its task is in finished.                *)
(***************************************************************************)
EXTENDS Integers, Sequences, FiniteSets

CONSTANTS
  thread_count_,         \* the argument of the constructor
  hardware_concurrency,  \* what the standard library reports, 0 if it cannot
  Clients,               \* the threads, other than the workers, that use the pool
  Owner,                 \* the one that constructs and destroys it
  Waiters,               \* those that call wait_for_tasks
  MaxTasks               \* bound on the number of tasks pushed

determine_thread_count(n) ==
  IF n > 0 THEN n
  ELSE IF hardware_concurrency > 0 THEN hardware_concurrency ELSE 1

get_thread_count == determine_thread_count(thread_count_)
Workers == 1 .. get_thread_count

ASSUME PoolAssumptions ==
  /\ thread_count_ \in Nat
  /\ hardware_concurrency \in Nat
  /\ Clients \cap Workers = {}
  /\ Owner \in Waiters
  /\ Waiters \subseteq Clients
  /\ MaxTasks \in Nat

VARIABLES
  tasks,            \* the queue
  tasks_running,    \* popped and not yet counted as done
  waiting,          \* what wait_for_tasks sets while it waits
  workers_running,  \* what destroy_threads clears
  pc,               \* where each thread is
  task,             \* the local variable of each worker, 0 before the first task
  pushed,           \* the number of tasks pushed so far
  finished,         \* the tasks that returned
  closing           \* the destructor was called

vars == <<tasks, tasks_running, waiting, workers_running, pc, task, pushed,
          finished, closing>>
flags == <<waiting, workers_running, closing>>

(* Threads asleep on task_available_cv and on tasks_done_cv                *)
SleepingWorkers == {w \in Workers : pc[w] = "asleep"}
SleepingClients == {c \in Clients : pc[c] = "asleep"}

(* Faulty variant: nobody is notified.                                     *)
WakeNobody(p) == p

(* notify_all on each of them: every sleeper tests its predicate again     *)
WakeWorkers(p) == [x \in DOMAIN p |-> IF x \in SleepingWorkers THEN "test" ELSE p[x]]
WakeClients(p) == [x \in DOMAIN p |-> IF x \in SleepingClients THEN "test" ELSE p[x]]
-----------------------------------------------------------------------------
(* ThreadPool::ThreadPool: create_threads raises the flag, then starts the *)
(* workers one by one.                                                     *)
CreateThreads ==
  /\ pc[Owner] = "construct"
  /\ workers_running' = TRUE
  /\ pc' = [pc EXCEPT ![Owner] = "spawn"]
  /\ UNCHANGED <<tasks, tasks_running, waiting, task, pushed, finished, closing>>

SpawnThread(w) ==
  /\ pc[Owner] = "spawn"
  /\ pc[w] = "unborn"
  /\ \A v \in 1 .. w - 1 : pc[v] # "unborn"
  /\ pc' = [pc EXCEPT ![w] = "test", ![Owner] = IF w = get_thread_count THEN "idle" ELSE @]
  /\ UNCHANGED <<tasks, tasks_running, flags, task, pushed, finished>>
-----------------------------------------------------------------------------
(* push_task and submit, by a client between two calls or by a task that   *)
(* runs.  The push is under the lock, the notify after it.                 *)
Constructed == pc[Owner] \notin {"construct", "spawn"}
MayPush(t) ==
  \/ t \in Clients /\ pc[t] = "idle" /\ Constructed /\ ~closing
  \/ t \in Workers /\ pc[t] = "run"

(* Faulty variant: the task is pushed and nobody notified.                 *)
push_task_quietly(t) ==
  /\ MayPush(t) /\ pushed < MaxTasks
  /\ tasks' = Append(tasks, pushed + 1)
  /\ pushed' = pushed + 1
  /\ UNCHANGED <<pc, tasks_running, flags, task, finished>>

push_task(t) ==
  /\ MayPush(t) /\ pushed < MaxTasks
  /\ tasks' = Append(tasks, pushed + 1)
  /\ pushed' = pushed + 1
  /\ pc' = [pc EXCEPT ![t] = "notify"]
  /\ UNCHANGED <<tasks_running, flags, task, finished>>

AfterPush(t) == IF t \in Workers THEN "run" ELSE "idle"

NotifyOne(t) ==
  /\ pc[t] = "notify"
  /\ \/ /\ SleepingWorkers = {}
        /\ pc' = [pc EXCEPT ![t] = AfterPush(t)]
     \/ \E w \in SleepingWorkers :
          pc' = [pc EXCEPT ![t] = AfterPush(t), ![w] = "test"]
  /\ UNCHANGED <<tasks, tasks_running, flags, task, pushed, finished>>
-----------------------------------------------------------------------------
(* worker: lock and test, then sleep, break or take a task.  A worker that *)
(* is told to end leaves whatever is queued.                               *)
WorkerSleeps(w) ==
  /\ pc[w] = "test" /\ tasks = <<>> /\ workers_running
  /\ pc' = [pc EXCEPT ![w] = "asleep"]
  /\ UNCHANGED <<tasks, tasks_running, flags, task, pushed, finished>>

WorkerBreaks(w) ==
  /\ pc[w] = "test" /\ ~workers_running
  /\ pc' = [pc EXCEPT ![w] = "exited"]
  /\ UNCHANGED <<tasks, tasks_running, flags, task, pushed, finished>>

(* Faulty variants: the worker does not count itself; it leaves the task   *)
(* in the queue.                                                           *)
WorkerTakesUncounted(w) ==
  /\ pc[w] = "test" /\ tasks # <<>> /\ workers_running
  /\ task' = [task EXCEPT ![w] = Head(tasks)]
  /\ tasks' = Tail(tasks)
  /\ pc' = [pc EXCEPT ![w] = "run"]
  /\ UNCHANGED <<tasks_running, flags, pushed, finished>>
WorkerTakesFront(w) ==
  /\ pc[w] = "test" /\ tasks # <<>> /\ workers_running
  /\ task' = [task EXCEPT ![w] = Head(tasks)]
  /\ tasks_running' = tasks_running + 1
  /\ pc' = [pc EXCEPT ![w] = "run"]
  /\ UNCHANGED <<tasks, flags, pushed, finished>>

WorkerTakes(w) ==
  /\ pc[w] = "test" /\ tasks # <<>> /\ workers_running
  /\ task' = [task EXCEPT ![w] = Head(tasks)]
  /\ tasks' = Tail(tasks)
  /\ tasks_running' = tasks_running + 1
  /\ pc' = [pc EXCEPT ![w] = "run"]
  /\ UNCHANGED <<flags, pushed, finished>>

(* task() returns.                                                         *)
TaskReturns(w) ==
  /\ pc[w] = "run"
  /\ finished' = finished \cup {task[w]}
  /\ pc' = [pc EXCEPT ![w] = "count"]
  /\ UNCHANGED <<tasks, tasks_running, flags, task, pushed>>

(* Faulty variant: whether it was the last is tested before it is counted. *)
LastOneEarly == waiting /\ tasks_running = 0 /\ tasks = <<>>
LastOne == waiting /\ tasks_running = 1 /\ tasks = <<>>

(* --tasks_running; and, when it was the last, notify_all                  *)
WorkerCounts(w) ==
  /\ pc[w] = "count"
  /\ tasks_running' = tasks_running - 1
  /\ LET p == [pc EXCEPT ![w] = "test"] IN
     pc' = IF LastOne THEN WakeClients(p) ELSE p
  /\ UNCHANGED <<tasks, flags, task, pushed, finished>>
-----------------------------------------------------------------------------
(* wait_for_tasks, called by a user or by the destructor.                  *)
(* Faulty variant: only the queue is looked at.                            *)
NothingQueued == tasks = <<>>
NothingLeft == tasks_running = 0 /\ tasks = <<>>
AfterWait(c) == IF c = Owner /\ closing THEN "stop" ELSE "idle"

wait_for_tasks(c) ==
  /\ pc[c] = "idle" /\ Constructed /\ ~closing
  /\ pc' = [pc EXCEPT ![c] = "wait"]
  /\ UNCHANGED <<tasks, tasks_running, flags, task, pushed, finished>>

(* The predicate is false: the lock goes, and the thread sleeps.  Faulty   *)
(* variant: the flag is not raised.                                        *)
WaitSleepsUnflagged(c) ==
  /\ pc[c] \in {"wait", "test"} /\ ~NothingLeft
  /\ pc' = [pc EXCEPT ![c] = "asleep"]
  /\ UNCHANGED <<tasks, tasks_running, flags, task, pushed, finished>>

WaitSleeps(c) ==
  /\ pc[c] \in {"wait", "test"} /\ ~NothingLeft
  /\ waiting' = (waiting \/ pc[c] = "wait")
  /\ pc' = [pc EXCEPT ![c] = "asleep"]
  /\ UNCHANGED <<tasks, tasks_running, workers_running, closing, task, pushed, finished>>

WaitReturns(c) ==
  /\ pc[c] \in {"wait", "test"} /\ NothingLeft
  /\ waiting' = FALSE
  /\ pc' = [pc EXCEPT ![c] = AfterWait(c)]
  /\ UNCHANGED <<tasks, tasks_running, workers_running, closing, task, pushed, finished>>
-----------------------------------------------------------------------------
(* ~ThreadPool: nobody else is inside a member function, as for any C++    *)
(* object; tasks may still be queued, run and push tasks.  Faulty variant: *)
(* it does not wait for them.                                              *)
DestroyAtOnce ==
  /\ pc[Owner] = "idle" /\ ~closing
  /\ \A c \in Clients \ {Owner} : pc[c] = "idle"
  /\ closing' = TRUE
  /\ pc' = [pc EXCEPT ![Owner] = "stop"]
  /\ UNCHANGED <<tasks, tasks_running, waiting, workers_running, task, pushed, finished>>

Destroy ==
  /\ pc[Owner] = "idle" /\ ~closing
  /\ \A c \in Clients \ {Owner} : pc[c] = "idle"
  /\ closing' = TRUE
  /\ pc' = [pc EXCEPT ![Owner] = "wait"]
  /\ UNCHANGED <<tasks, tasks_running, waiting, workers_running, task, pushed, finished>>

destroy_threads ==
  /\ pc[Owner] = "stop"
  /\ workers_running' = FALSE
  /\ pc' = [pc EXCEPT ![Owner] = "notify_all"]
  /\ UNCHANGED <<tasks, tasks_running, waiting, task, pushed, finished, closing>>

NotifyAll ==
  /\ pc[Owner] = "notify_all"
  /\ pc' = WakeWorkers([pc EXCEPT ![Owner] = "join"])
  /\ UNCHANGED <<tasks, tasks_running, flags, task, pushed, finished>>

Join ==
  /\ pc[Owner] = "join"
  /\ \A w \in Workers : pc[w] = "exited"
  /\ pc' = [pc EXCEPT ![Owner] = "gone"]
  /\ UNCHANGED <<tasks, tasks_running, flags, task, pushed, finished>>
-----------------------------------------------------------------------------
(* Either condition variable may wake a thread for no reason.              *)
SpuriousWake(t) ==
  /\ pc[t] = "asleep"
  /\ pc' = [pc EXCEPT ![t] = "test"]
  /\ UNCHANGED <<tasks, tasks_running, flags, task, pushed, finished>>

Terminating == pc[Owner] = "gone" /\ UNCHANGED vars

Init ==
  /\ tasks = <<>>
  /\ tasks_running = 0
  /\ waiting = FALSE
  /\ workers_running = FALSE
  /\ pc = [t \in Workers \cup Clients |->
             IF t = Owner THEN "construct" ELSE IF t \in Workers THEN "unborn" ELSE "idle"]
  /\ task = [w \in Workers |-> 0]
  /\ pushed = 0
  /\ finished = {}
  /\ closing = FALSE

(* What a worker does once it runs, and a client inside a call             *)
WorkerStep(w) ==
  \/ NotifyOne(w)
  \/ WorkerSleeps(w)
  \/ WorkerBreaks(w)
  \/ WorkerTakes(w)
  \/ TaskReturns(w)
  \/ WorkerCounts(w)

ClientStep(c) ==
  \/ NotifyOne(c)
  \/ WaitSleeps(c)
  \/ WaitReturns(c)

OwnerStep ==
  \/ CreateThreads
  \/ \E w \in Workers : SpawnThread(w)
  \/ destroy_threads
  \/ NotifyAll
  \/ Join

Next ==
  \/ \E t \in Workers \cup Clients : push_task(t) \/ SpuriousWake(t)
  \/ \E w \in Workers : WorkerStep(w)
  \/ \E c \in Clients : ClientStep(c)
  \/ \E c \in Waiters : wait_for_tasks(c)
  \/ OwnerStep
  \/ Destroy
  \/ Terminating

Spec == Init /\ [][Next]_vars

(* A thread that can go on goes on, and tasks return.  No client has to    *)
(* push, to wait or to destroy the pool, and no spurious wake-up has to    *)
(* come.                                                                   *)
FairSpec ==
  /\ Spec
  /\ \A w \in Workers : WF_vars(WorkerStep(w))
  /\ \A c \in Clients : WF_vars(ClientStep(c))
  /\ WF_vars(OwnerStep)
-----------------------------------------------------------------------------
WorkerLabels == {"unborn", "test", "asleep", "run", "notify", "count", "exited"}
ClientLabels == {"idle", "notify", "wait", "asleep", "test"}
OwnerLabels == {"construct", "spawn", "stop", "notify_all", "join", "gone"}

(* Every variable has its type. *)
TypeOK ==
  /\ tasks \in Seq(1 .. MaxTasks)
  /\ tasks_running \in 0 .. get_thread_count
  /\ waiting \in BOOLEAN
  /\ workers_running \in BOOLEAN
  /\ pc \in [Workers \cup Clients -> WorkerLabels \cup ClientLabels \cup OwnerLabels]
  /\ \A w \in Workers : pc[w] \in WorkerLabels
  /\ \A c \in Clients : pc[c] \in ClientLabels \/ (c = Owner /\ pc[c] \in OwnerLabels)
  /\ task \in [Workers -> 0 .. MaxTasks]
  /\ pushed \in 0 .. MaxTasks
  /\ finished \subseteq 1 .. MaxTasks
  /\ closing \in BOOLEAN
-----------------------------------------------------------------------------
Holding == {w \in Workers : pc[w] \in {"run", "notify"}}
Uncounted == {w \in Workers : pc[w] \in {"run", "notify", "count"}}
Held == {task[w] : w \in Holding}
Taken == pushed - Len(tasks)

(* No task is lost, run twice or overtaken: the queue holds the last tasks *)
(* pushed in their order, and each of the others is either done or in the  *)
(* hands of one worker; tasks_running counts exactly the workers between   *)
(* the two locks of worker() (thread_pool.h:119-127, 241-260).             *)
TasksAccounted ==
  /\ Taken >= 0
  /\ \A i \in 1 .. Len(tasks) : tasks[i] = Taken + i
  /\ Held \cup finished = 1 .. Taken
  /\ Held \cap finished = {}
  /\ \A v, w \in Holding : v # w => task[v] # task[w]
  /\ tasks_running = Cardinality(Uncounted)

(* No wake-up is lost, though push_task notifies after it has unlocked: a  *)
(* task is never queued with every worker asleep, unless a thread that     *)
(* pushed is still to notify (thread_pool.h:119-127, 247).                 *)
NoLostWakeup ==
  tasks # <<>> =>
    \/ \E w \in Workers : pc[w] \notin {"unborn", "asleep", "exited"}
    \/ \E t \in Clients : pc[t] = "notify"

(* A thread that sleeps in wait_for_tasks has something to wait for: the   *)
(* worker that counts the last task sees the flag and wakes it             *)
(* (thread_pool.h:175-181, 255-258).                                       *)
WaiterHasReason ==
  \A c \in Clients : pc[c] = "asleep" => ~NothingLeft

(* "Waits for all tasks to complete, then destroys all threads": when the  *)
(* workers are told to end, every task ever pushed is done, those included *)
(* that running tasks pushed during the destructor (thread_pool.h:39-45).  *)
DestroyedWhenDone ==
  closing /\ ~workers_running => finished = 1 .. pushed /\ tasks = <<>>

(* What the users of the pool rely on.                                     *)
Pool == INSTANCE TaskPool
  WITH queue <- tasks,
       active <- Held,
       completed <- finished,
       waiters <- {c \in Clients : pc[c] \in {"wait", "asleep", "test"}},
       open <- pc[Owner] \notin {"notify_all", "join", "gone"}

(* The pool implements what is promised of it: every step of a thread is a *)
(* step of TaskPool or none (thread_pool.h:111-181).                       *)
Implements == Pool!Spec

(* It also keeps TaskPool's promises of progress: queued tasks are started *)
(* and those who wait for a quiet pool are let go (thread_pool.h:173).     *)
Progress == Pool!FairSpec

(* A destructor that was called ends (thread_pool.h:41-45, 206-217).       *)
DestructorReturns == closing ~> (pc[Owner] = "gone")
-----------------------------------------------------------------------------
(* "Wait for tasks to be completed, both those that are currently running  *)
(* in the threads and those that are still waiting in the queue": as no    *)
(* more than MaxTasks tasks come, every wait ends (thread_pool.h:173-181). *)
WaitEnds == \A c \in Waiters : pc[c] = "wait" ~> pc[c] \notin {"wait", "asleep", "test"}
=============================================================================
