-------------------------- MODULE ThreadPoolProofs ---------------------------
(***************************************************************************)
(* What the runs check of ThreadPool for three workers, two clients and    *)
(* three tasks, proved for any number of each.                             *)
(***************************************************************************)
EXTENDS ThreadPool, FiniteSetTheorems, TLAPS

OwnerStops == {"stop", "notify_all", "join", "gone"}
OwnerStopped == {"notify_all", "join", "gone"}

(* What the position of the owner says of the rest: no task before the     *)
(* pool is constructed; no other client inside it while it is destroyed;   *)
(* nothing left once the destructor's wait is over; workers end only after *)
(* they are told to.                                                       *)
OwnerOK ==
  /\ ~Constructed =>
       /\ pushed = 0 /\ ~closing
       /\ \A c \in Clients \ {Owner} : pc[c] = "idle"
  /\ pc[Owner] = "construct" => \A w \in Workers : pc[w] = "unborn"
  /\ Constructed => \A w \in Workers : pc[w] # "unborn"
  /\ workers_running <=> pc[Owner] \notin {"construct"} \cup OwnerStopped
  /\ workers_running => \A w \in Workers : pc[w] # "exited"
  /\ closing => /\ pc[Owner] \in {"wait", "asleep", "test"} \cup OwnerStops
                /\ \A c \in Clients \ {Owner} : pc[c] = "idle"
  /\ pc[Owner] \in OwnerStops => closing /\ NothingLeft

(* The inductive invariant.                                                *)
IInv ==
  /\ TypeOK
  /\ TasksAccounted
  /\ NoLostWakeup
  /\ OwnerOK
-----------------------------------------------------------------------------
LEMMA WorkersOK ==
  /\ get_thread_count \in Nat \ {0}
  /\ 1 \in Workers
  /\ IsFiniteSet(Workers)
  /\ Cardinality(Workers) = get_thread_count
  /\ Owner \in Clients
  /\ Waiters \subseteq Clients
  /\ \A w \in Workers : w \notin Clients
<1>1. get_thread_count \in Nat \ {0}
  BY PoolAssumptions DEF get_thread_count, determine_thread_count
<1>2. IsFiniteSet(Workers) /\ Cardinality(Workers) = get_thread_count
  BY <1>1, FS_Interval DEF Workers
<1> QED
  BY <1>1, <1>2, PoolAssumptions DEF Workers

LEMMA UncountedFinite ==
  /\ IsFiniteSet(Uncounted)
  /\ Cardinality(Uncounted) \in Nat
  /\ Cardinality(Uncounted) <= get_thread_count
  /\ Cardinality(Uncounted) = 0 <=> Uncounted = {}
<1>1. Uncounted \subseteq Workers
  BY DEF Uncounted
<1>2. IsFiniteSet(Uncounted) /\ Cardinality(Uncounted) <= Cardinality(Workers)
  BY <1>1, WorkersOK, FS_Subset
<1> QED
  BY <1>2, WorkersOK, FS_CardinalityType, FS_EmptySet

(* tasks_running is zero exactly when no worker is between its two locks.  *)
LEMMA NoneRuns ==
  ASSUME TasksAccounted
  PROVE  /\ tasks_running = 0 <=> Uncounted = {}
         /\ tasks_running \in 0 .. get_thread_count
         /\ \A w \in Uncounted : tasks_running > 0
BY UncountedFinite, WorkersOK DEF TasksAccounted

(* Tasks are in somebody's hands only once the pool is constructed.        *)
LEMMA HoldingConstructed ==
  ASSUME IInv
  PROVE  \A w \in Holding : Constructed /\ pc[Owner] \notin OwnerStops
<1> SUFFICES ASSUME NEW w \in Holding
             PROVE  Constructed /\ pc[Owner] \notin OwnerStops
  OBVIOUS
<1>1. task[w] \in 1 .. Taken /\ Taken <= pushed
  BY DEF IInv, TypeOK, TasksAccounted, Held, Taken
<1>2. pushed # 0
  BY <1>1 DEF IInv, TypeOK, Taken
<1>3. tasks_running > 0
  BY NoneRuns DEF IInv, Holding, Uncounted
<1> QED
  BY <1>2, <1>3 DEF IInv, OwnerOK, NothingLeft

LEMMA NoneRunsNext ==
  ASSUME TasksAccounted'
  PROVE  tasks_running' \in 0 .. get_thread_count
<1>1. Uncounted' \subseteq Workers
  BY DEF Uncounted
<1>2. IsFiniteSet(Uncounted') /\ Cardinality(Uncounted') <= Cardinality(Workers)
  BY <1>1, WorkersOK, FS_Subset
<1> QED
  BY <1>2, WorkersOK, FS_CardinalityType DEF TasksAccounted

(* A step that moves no worker into or out of task() and touches neither   *)
(* the queue nor what is done keeps the tasks accounted.                   *)
LEMMA AccountedFrame ==
  ASSUME TasksAccounted,
         UNCHANGED <<tasks, tasks_running, task, pushed, finished>>,
         Holding' = Holding, Uncounted' = Uncounted
  PROVE  TasksAccounted'
BY DEF TasksAccounted, Held, Taken

LEMMA InitOK == Init => IInv
<1> SUFFICES ASSUME Init PROVE IInv
  OBVIOUS
<1>1. /\ pc[Owner] = "construct"
      /\ \A w \in Workers : pc[w] = "unborn"
      /\ \A c \in Clients \ {Owner} : pc[c] = "idle"
      /\ pc \in [Workers \cup Clients -> WorkerLabels \cup ClientLabels \cup OwnerLabels]
  BY WorkersOK DEF Init, WorkerLabels, ClientLabels, OwnerLabels
<1>2. TypeOK
  <2>1. tasks \in Seq(1 .. MaxTasks) /\ task \in [Workers -> 0 .. MaxTasks]
    BY PoolAssumptions DEF Init
  <2>2. /\ tasks_running \in 0 .. get_thread_count
        /\ pushed \in 0 .. MaxTasks
        /\ finished \subseteq 1 .. MaxTasks
    BY WorkersOK, PoolAssumptions DEF Init
  <2>3. /\ \A w \in Workers : pc[w] \in WorkerLabels
        /\ \A c \in Clients : pc[c] \in ClientLabels \/ (c = Owner /\ pc[c] \in OwnerLabels)
    BY <1>1 DEF WorkerLabels, ClientLabels, OwnerLabels
  <2>4. waiting \in BOOLEAN /\ workers_running \in BOOLEAN /\ closing \in BOOLEAN
    BY DEF Init
  <2> QED
    BY <1>1, <2>1, <2>2, <2>3, <2>4 DEF TypeOK
<1>3. Holding = {} /\ Uncounted = {}
  BY <1>1 DEF Holding, Uncounted
<1>4. TasksAccounted
  BY <1>3, FS_EmptySet DEF Init, TasksAccounted, Held, Taken
<1>5. NoLostWakeup
  BY DEF Init, NoLostWakeup
<1>6. OwnerOK
  BY <1>1 DEF Init, OwnerOK, Constructed, OwnerStops, OwnerStopped
<1> QED
  BY <1>2, <1>4, <1>5, <1>6 DEF IInv
-----------------------------------------------------------------------------
(* Steps of the constructor                                                *)
LEMMA CreateThreadsOK ==
  ASSUME IInv, CreateThreads
  PROVE  IInv'
<1>1. /\ pc[Owner] = "construct" /\ pc' = [pc EXCEPT ![Owner] = "spawn"]
      /\ workers_running' = TRUE
      /\ UNCHANGED <<tasks, tasks_running, waiting, task, pushed, finished, closing>>
  BY DEF CreateThreads
<1>2. /\ pc'[Owner] = "spawn"
      /\ \A t \in (Workers \cup Clients) \ {Owner} : pc'[t] = pc[t]
      /\ pc' \in [Workers \cup Clients -> WorkerLabels \cup ClientLabels \cup OwnerLabels]
  BY <1>1, WorkersOK DEF IInv, TypeOK, OwnerLabels
<1>3. TypeOK'
  BY <1>1, <1>2, WorkersOK DEF IInv, TypeOK, OwnerLabels
<1>4. Holding' = Holding /\ Uncounted' = Uncounted
  BY <1>2, WorkersOK DEF Holding, Uncounted
<1>5. TasksAccounted'
  BY <1>1, <1>4, AccountedFrame DEF IInv
<1>6. tasks = <<>>
  BY <1>1 DEF IInv, TypeOK, OwnerOK, Constructed, TasksAccounted, Taken
<1>7. NoLostWakeup'
  BY <1>1, <1>6 DEF NoLostWakeup
<1>8. OwnerOK'
  BY <1>1, <1>2, WorkersOK
     DEF IInv, OwnerOK, Constructed, OwnerStops, OwnerStopped, NothingLeft
<1> QED
  BY <1>3, <1>5, <1>7, <1>8 DEF IInv

LEMMA SpawnThreadOK ==
  ASSUME IInv, NEW w \in Workers, SpawnThread(w)
  PROVE  IInv'
<1>1. /\ pc[Owner] = "spawn" /\ pc[w] = "unborn"
      /\ \A v \in 1 .. w - 1 : pc[v] # "unborn"
      /\ UNCHANGED <<tasks, tasks_running, flags, task, pushed, finished>>
  BY DEF SpawnThread
<1>2. /\ pc'[w] = "test"
      /\ pc'[Owner] = IF w = get_thread_count THEN "idle" ELSE "spawn"
      /\ \A t \in (Workers \cup Clients) \ {Owner, w} : pc'[t] = pc[t]
      /\ pc' \in [Workers \cup Clients -> WorkerLabels \cup ClientLabels \cup OwnerLabels]
  BY WorkersOK DEF SpawnThread, IInv, TypeOK, WorkerLabels, ClientLabels
<1>3. TypeOK'
  BY <1>1, <1>2, WorkersOK DEF IInv, TypeOK, WorkerLabels, ClientLabels, OwnerLabels, flags
<1>4. Holding' = Holding /\ Uncounted' = Uncounted
  BY <1>1, <1>2, WorkersOK DEF Holding, Uncounted
<1>5. TasksAccounted'
  BY <1>1, <1>4, AccountedFrame DEF IInv
<1>6. tasks = <<>>
  BY <1>1 DEF IInv, TypeOK, OwnerOK, Constructed, TasksAccounted, Taken
<1>7. NoLostWakeup'
  BY <1>1, <1>6 DEF NoLostWakeup
<1>8. w = get_thread_count => \A v \in Workers : pc'[v] # "unborn"
  BY <1>1, <1>2, WorkersOK DEF Workers
<1>9. OwnerOK'
  BY <1>1, <1>2, <1>8, WorkersOK
     DEF IInv, OwnerOK, Constructed, OwnerStops, OwnerStopped, NothingLeft, flags
<1> QED
  BY <1>3, <1>5, <1>7, <1>9 DEF IInv
-----------------------------------------------------------------------------
(* push_task: the new task is behind those queued, and whoever pushed it   *)
(* is still to notify.                                                     *)
LEMMA PushTaskOK ==
  ASSUME IInv, NEW t \in Workers \cup Clients, push_task(t)
  PROVE  IInv'
<1>1. /\ MayPush(t) /\ pushed < MaxTasks
      /\ tasks' = Append(tasks, pushed + 1)
      /\ pushed' = pushed + 1
      /\ UNCHANGED <<tasks_running, flags, task, finished>>
  BY DEF push_task
<1>2. /\ pc'[t] = "notify"
      /\ \A x \in (Workers \cup Clients) \ {t} : pc'[x] = pc[x]
      /\ pc' \in [Workers \cup Clients -> WorkerLabels \cup ClientLabels \cup OwnerLabels]
  BY DEF push_task, IInv, TypeOK, WorkerLabels
<1>3. /\ tasks \in Seq(1 .. MaxTasks) /\ pushed \in Nat /\ MaxTasks \in Nat
      /\ pushed + 1 \in 1 .. MaxTasks
  BY <1>1, PoolAssumptions DEF IInv, TypeOK
<1>4. TypeOK'
  <2>1. tasks' \in Seq(1 .. MaxTasks) /\ pushed' \in 0 .. MaxTasks
    BY <1>1, <1>3
  <2>2. /\ \A w \in Workers : pc'[w] \in WorkerLabels
        /\ \A c \in Clients : pc'[c] \in ClientLabels \/ (c = Owner /\ pc'[c] \in OwnerLabels)
    BY <1>2 DEF IInv, TypeOK, WorkerLabels, ClientLabels
  <2> QED
    BY <1>1, <1>2, <2>1, <2>2 DEF IInv, TypeOK, flags
<1>5. Holding' = Holding /\ Uncounted' = Uncounted /\ Held' = Held
  <2>1. \A w \in Workers : pc'[w] \in {"run", "notify"} <=> pc[w] \in {"run", "notify"}
    BY <1>1, <1>2, WorkersOK DEF MayPush
  <2>2. \A w \in Workers : pc'[w] = "count" <=> pc[w] = "count"
    BY <1>1, <1>2, WorkersOK DEF MayPush
  <2>3. Holding' = Holding /\ Uncounted' = Uncounted
    BY <2>1, <2>2 DEF Holding, Uncounted
  <2> QED
    BY <1>1, <2>3 DEF Held
<1>6. Len(tasks') = Len(tasks) + 1 /\ Taken' = Taken
  BY <1>1, <1>3 DEF Taken
<1>7. \A i \in 1 .. Len(tasks') : tasks'[i] = Taken' + i
  BY <1>1, <1>3, <1>6 DEF IInv, TasksAccounted, Taken
<1>8. TasksAccounted'
  BY <1>1, <1>5, <1>6, <1>7 DEF IInv, TasksAccounted
<1>9. NoLostWakeup'
  BY <1>2 DEF NoLostWakeup
<1>10. t \in Workers => Constructed /\ pc[Owner] \notin OwnerStops
  BY <1>1, HoldingConstructed, WorkersOK DEF MayPush, Holding
<1>11. /\ Constructed /\ pc[Owner] \notin OwnerStops
       /\ closing => t \in Workers
  BY <1>1, <1>10, WorkersOK
     DEF IInv, OwnerOK, MayPush, OwnerStops
<1>12. OwnerOK'
  BY <1>1, <1>2, <1>11, WorkersOK
     DEF IInv, OwnerOK, Constructed, OwnerStops, OwnerStopped, flags
<1> QED
  BY <1>4, <1>8, <1>9, <1>12 DEF IInv

(* notify_one: either no worker sleeps, or one is woken.                   *)
LEMMA NotifyOneOK ==
  ASSUME IInv, NEW t \in Workers \cup Clients, NotifyOne(t)
  PROVE  IInv'
<1>1. /\ pc[t] = "notify"
      /\ UNCHANGED <<tasks, tasks_running, flags, task, pushed, finished>>
  BY DEF NotifyOne
<1>2. PICK W \in SUBSET SleepingWorkers :
        /\ W = {} => SleepingWorkers = {}
        /\ pc' = [x \in Workers \cup Clients |->
                    IF x \in W THEN "test" ELSE IF x = t THEN AfterPush(t) ELSE pc[x]]
  <2>1. pc \in [Workers \cup Clients -> WorkerLabels \cup ClientLabels \cup OwnerLabels]
    BY DEF IInv, TypeOK
  <2>2. CASE SleepingWorkers = {} /\ pc' = [pc EXCEPT ![t] = AfterPush(t)]
    <3>1. pc' = [x \in Workers \cup Clients |->
                  IF x \in {} THEN "test" ELSE IF x = t THEN AfterPush(t) ELSE pc[x]]
      BY <2>1, <2>2
    <3> WITNESS {} \in SUBSET SleepingWorkers
    <3> QED
      BY <2>2, <3>1
  <2>3. ASSUME NEW w \in SleepingWorkers,
               pc' = [pc EXCEPT ![t] = AfterPush(t), ![w] = "test"]
        PROVE  \E W \in SUBSET SleepingWorkers :
                 /\ W = {} => SleepingWorkers = {}
                 /\ pc' = [x \in Workers \cup Clients |->
                             IF x \in W THEN "test" ELSE IF x = t THEN AfterPush(t) ELSE pc[x]]
    <3>1. w # t /\ w \in Workers
      BY <1>1 DEF SleepingWorkers
    <3>2. pc' = [x \in Workers \cup Clients |->
                  IF x \in {w} THEN "test" ELSE IF x = t THEN AfterPush(t) ELSE pc[x]]
      BY <2>1, <2>3, <3>1
    <3>3. {w} \in SUBSET SleepingWorkers /\ {w} # {}
      OBVIOUS
    <3> WITNESS {w} \in SUBSET SleepingWorkers
    <3> QED
      BY <3>2, <3>3
  <2>4. \/ SleepingWorkers = {} /\ pc' = [pc EXCEPT ![t] = AfterPush(t)]
        \/ \E w \in SleepingWorkers : pc' = [pc EXCEPT ![t] = AfterPush(t), ![w] = "test"]
    BY DEF NotifyOne
  <2> QED
    BY <2>2, <2>3, <2>4
<1>3. /\ pc'[t] = AfterPush(t)
      /\ \A x \in W : x \in Workers /\ pc[x] = "asleep" /\ pc'[x] = "test"
      /\ \A x \in (Workers \cup Clients) \ (W \cup {t}) : pc'[x] = pc[x]
      /\ AfterPush(t) = IF t \in Workers THEN "run" ELSE "idle"
  BY <1>1, <1>2 DEF SleepingWorkers, AfterPush
<1>4. TypeOK'
  BY <1>1, <1>2, <1>3, WorkersOK DEF IInv, TypeOK, WorkerLabels, ClientLabels, OwnerLabels, flags
<1>5. Holding' = Holding /\ Uncounted' = Uncounted
  BY <1>1, <1>3, WorkersOK DEF Holding, Uncounted
<1>6. TasksAccounted'
  BY <1>1, <1>5, AccountedFrame DEF IInv
<1>7. Constructed /\ pc[Owner] \notin OwnerStops /\ (t \in Clients => ~closing)
  <2>1. CASE t \in Workers
    BY <1>1, <2>1, HoldingConstructed, WorkersOK DEF Holding
  <2>2. CASE t \in Clients \ {Owner}
    BY <1>1, <2>2 DEF IInv, OwnerOK
  <2>3. CASE t = Owner
    BY <1>1, <2>3, WorkersOK DEF IInv, OwnerOK, Constructed, OwnerStops
  <2> QED
    BY <2>1, <2>2, <2>3
<1>8. OwnerOK'
  BY <1>1, <1>3, <1>7, WorkersOK
     DEF IInv, OwnerOK, Constructed, OwnerStops, OwnerStopped, NothingLeft, flags
<1>9. NoLostWakeup'
  <2>1. CASE W # {}
    BY <1>3, <2>1 DEF NoLostWakeup
  <2>2. CASE W = {}
    <3>1. pc[1] \notin {"unborn", "asleep", "exited"}
      BY <1>2, <1>7, <2>2, WorkersOK
         DEF IInv, OwnerOK, Constructed, SleepingWorkers, OwnerStops, OwnerStopped
    <3>2. pc'[1] \notin {"unborn", "asleep", "exited"}
      BY <1>3, <2>2, <3>1, WorkersOK
    <3> QED
      BY <3>2, WorkersOK DEF NoLostWakeup
  <2> QED
    BY <2>1, <2>2
<1> QED
  BY <1>4, <1>6, <1>8, <1>9 DEF IInv
-----------------------------------------------------------------------------
(* Steps of worker()                                                       *)
LEMMA WorkerSleepsOK ==
  ASSUME IInv, NEW w \in Workers, WorkerSleeps(w)
  PROVE  IInv'
<1>1. /\ pc[w] = "test" /\ tasks = <<>> /\ workers_running
      /\ UNCHANGED <<tasks, tasks_running, flags, task, pushed, finished>>
  BY DEF WorkerSleeps
<1>2. /\ pc'[w] = "asleep"
      /\ \A x \in (Workers \cup Clients) \ {w} : pc'[x] = pc[x]
      /\ pc' \in [Workers \cup Clients -> WorkerLabels \cup ClientLabels \cup OwnerLabels]
  BY DEF WorkerSleeps, IInv, TypeOK, WorkerLabels
<1>3. TypeOK'
  BY <1>1, <1>2, WorkersOK DEF IInv, TypeOK, WorkerLabels, flags
<1>4. Holding' = Holding /\ Uncounted' = Uncounted
  BY <1>1, <1>2 DEF Holding, Uncounted
<1>5. TasksAccounted'
  BY <1>1, <1>4, AccountedFrame DEF IInv
<1>6. NoLostWakeup'
  BY <1>1 DEF NoLostWakeup
<1>7. OwnerOK'
  BY <1>1, <1>2, WorkersOK
     DEF IInv, OwnerOK, Constructed, OwnerStops, OwnerStopped, NothingLeft, flags
<1> QED
  BY <1>3, <1>5, <1>6, <1>7 DEF IInv

LEMMA WorkerBreaksOK ==
  ASSUME IInv, NEW w \in Workers, WorkerBreaks(w)
  PROVE  IInv'
<1>1. /\ pc[w] = "test" /\ ~workers_running
      /\ UNCHANGED <<tasks, tasks_running, flags, task, pushed, finished>>
  BY DEF WorkerBreaks
<1>2. /\ pc'[w] = "exited"
      /\ \A x \in (Workers \cup Clients) \ {w} : pc'[x] = pc[x]
      /\ pc' \in [Workers \cup Clients -> WorkerLabels \cup ClientLabels \cup OwnerLabels]
  BY DEF WorkerBreaks, IInv, TypeOK, WorkerLabels
<1>3. TypeOK'
  BY <1>1, <1>2, WorkersOK DEF IInv, TypeOK, WorkerLabels, flags
<1>4. Holding' = Holding /\ Uncounted' = Uncounted
  BY <1>1, <1>2 DEF Holding, Uncounted
<1>5. TasksAccounted'
  BY <1>1, <1>4, AccountedFrame DEF IInv
<1>6. pc[Owner] \in OwnerStopped /\ tasks = <<>>
  BY <1>1 DEF IInv, OwnerOK, OwnerStops, OwnerStopped, NothingLeft
<1>7. NoLostWakeup'
  BY <1>1, <1>6 DEF NoLostWakeup
<1>8. OwnerOK'
  BY <1>1, <1>2, <1>6, WorkersOK
     DEF IInv, OwnerOK, Constructed, OwnerStops, OwnerStopped, NothingLeft, flags
<1> QED
  BY <1>3, <1>5, <1>7, <1>8 DEF IInv

(* The worker takes the oldest task into its hands.                        *)
LEMMA WorkerTakesOK ==
  ASSUME IInv, NEW w \in Workers, WorkerTakes(w)
  PROVE  IInv'
<1>1. /\ pc[w] = "test" /\ tasks # <<>> /\ workers_running
      /\ task' = [task EXCEPT ![w] = Head(tasks)]
      /\ tasks' = Tail(tasks)
      /\ tasks_running' = tasks_running + 1
      /\ UNCHANGED <<flags, pushed, finished>>
  BY DEF WorkerTakes
<1>2. /\ pc'[w] = "run"
      /\ \A x \in (Workers \cup Clients) \ {w} : pc'[x] = pc[x]
      /\ pc' \in [Workers \cup Clients -> WorkerLabels \cup ClientLabels \cup OwnerLabels]
  BY DEF WorkerTakes, IInv, TypeOK, WorkerLabels
<1>3. /\ tasks \in Seq(1 .. MaxTasks) /\ pushed \in Nat /\ MaxTasks \in Nat
      /\ Taken \in Nat
  BY PoolAssumptions DEF IInv, TypeOK, TasksAccounted, Taken
<1>4. /\ Head(tasks) = tasks[1] /\ Head(tasks) \in 1 .. MaxTasks
      /\ tasks' \in Seq(1 .. MaxTasks)
      /\ Len(tasks') = Len(tasks) - 1
      /\ \A i \in 1 .. Len(tasks') : tasks'[i] = tasks[i + 1]
      /\ Len(tasks) \in Nat \ {0}
  BY <1>1, <1>3
<1>5. Taken' = Taken + 1 /\ Head(tasks) = Taken + 1
  BY <1>1, <1>3, <1>4 DEF IInv, TasksAccounted, Taken
<1>6. /\ task'[w] = Taken + 1
      /\ \A v \in Workers \ {w} : task'[v] = task[v]
      /\ task' \in [Workers -> 0 .. MaxTasks]
  BY <1>1, <1>4, <1>5 DEF IInv, TypeOK
<1>7. /\ w \notin Holding /\ Holding' = Holding \cup {w}
      /\ w \notin Uncounted /\ Uncounted' = Uncounted \cup {w}
  BY <1>1, <1>2 DEF Holding, Uncounted
<1>8. Held' = Held \cup {Taken + 1}
  BY <1>6, <1>7 DEF Held, Holding
<1>9. TasksAccounted'
  <2>1. \A i \in 1 .. Len(tasks') : tasks'[i] = Taken' + i
    BY <1>3, <1>4, <1>5 DEF IInv, TasksAccounted
  <2>2. Held' \cup finished' = 1 .. Taken'
    BY <1>1, <1>3, <1>5, <1>8 DEF IInv, TasksAccounted
  <2>3. Taken + 1 \notin finished /\ Held' \cap finished' = {}
    BY <1>1, <1>3, <1>8 DEF IInv, TasksAccounted
  <2>4. \A v \in Holding : task[v] # Taken + 1 /\ task'[v] = task[v]
    BY <1>3, <1>6, <1>7 DEF IInv, TasksAccounted, Held, Holding
  <2>5. \A u, v \in Holding' : u # v => task'[u] # task'[v]
    BY <1>6, <1>7, <2>4 DEF IInv, TasksAccounted
  <2>6. tasks_running' = Cardinality(Uncounted')
    BY <1>1, <1>7, UncountedFinite, FS_AddElement DEF IInv, TasksAccounted
  <2> QED
    BY <1>3, <1>5, <2>1, <2>2, <2>3, <2>5, <2>6 DEF TasksAccounted
<1>10. TypeOK'
  <2>1. tasks_running' \in 0 .. get_thread_count
    BY <1>9, NoneRunsNext
  <2> QED
    BY <1>1, <1>2, <1>4, <1>6, <2>1, WorkersOK DEF IInv, TypeOK, WorkerLabels, flags
<1>11. NoLostWakeup'
  BY <1>2 DEF NoLostWakeup
<1>12. pc[Owner] \notin OwnerStops
  BY <1>1 DEF IInv, OwnerOK, NothingLeft
<1>13. OwnerOK'
  BY <1>1, <1>2, <1>12, WorkersOK
     DEF IInv, OwnerOK, Constructed, OwnerStops, OwnerStopped, flags
<1> QED
  BY <1>9, <1>10, <1>11, <1>13 DEF IInv

(* The task is done; nobody else has it in its hands.                      *)
LEMMA TaskReturnsOK ==
  ASSUME IInv, NEW w \in Workers, TaskReturns(w)
  PROVE  IInv'
<1>1. /\ pc[w] = "run"
      /\ finished' = finished \cup {task[w]}
      /\ UNCHANGED <<tasks, tasks_running, flags, task, pushed>>
  BY DEF TaskReturns
<1>2. /\ pc'[w] = "count"
      /\ \A x \in (Workers \cup Clients) \ {w} : pc'[x] = pc[x]
      /\ pc' \in [Workers \cup Clients -> WorkerLabels \cup ClientLabels \cup OwnerLabels]
  BY DEF TaskReturns, IInv, TypeOK, WorkerLabels
<1>3. w \in Holding /\ Holding' = Holding \ {w} /\ Uncounted' = Uncounted
  BY <1>1, <1>2 DEF Holding, Uncounted
<1>4. Taken \in Nat /\ Taken <= MaxTasks /\ Taken' = Taken
  BY <1>1, PoolAssumptions DEF IInv, TypeOK, TasksAccounted, Taken
<1>5. task[w] \in 1 .. Taken
  BY <1>3 DEF IInv, TasksAccounted, Held
<1>6. Held' = Held \ {task[w]} /\ task[w] \in Held
  BY <1>1, <1>3 DEF IInv, TasksAccounted, Held
<1>7. TypeOK'
  <2>1. task[w] \in 1 .. MaxTasks
    BY <1>4, <1>5, PoolAssumptions
  <2>2. finished' \subseteq 1 .. MaxTasks
    BY <1>1, <2>1 DEF IInv, TypeOK
  <2>3. \A x \in Clients : pc'[x] \in ClientLabels \/ (x = Owner /\ pc'[x] \in OwnerLabels)
    BY <1>2, WorkersOK DEF IInv, TypeOK
  <2>4. \A x \in Workers : pc'[x] \in WorkerLabels
    BY <1>2 DEF IInv, TypeOK, WorkerLabels
  <2> QED
    BY <1>1, <1>2, <2>2, <2>3, <2>4 DEF IInv, TypeOK, flags
<1>8. TasksAccounted'
  BY <1>1, <1>3, <1>4, <1>6 DEF IInv, TasksAccounted
<1>9. NoLostWakeup'
  BY <1>2 DEF NoLostWakeup
<1>10. OwnerOK'
  BY <1>1, <1>2, WorkersOK
     DEF IInv, OwnerOK, Constructed, OwnerStops, OwnerStopped, NothingLeft, flags
<1> QED
  BY <1>7, <1>8, <1>9, <1>10 DEF IInv

(* The worker is counted out; the clients it may wake go on waiting.       *)
LEMMA WorkerCountsOK ==
  ASSUME IInv, NEW w \in Workers, WorkerCounts(w)
  PROVE  IInv'
<1>1. /\ pc[w] = "count"
      /\ tasks_running' = tasks_running - 1
      /\ UNCHANGED <<tasks, flags, task, pushed, finished>>
  BY DEF WorkerCounts
<1>2. /\ pc'[w] = "test"
      /\ \A x \in Workers \ {w} : pc'[x] = pc[x]
      /\ \A c \in Clients : pc'[c] = pc[c] \/ (pc[c] = "asleep" /\ pc'[c] = "test")
      /\ pc' \in [Workers \cup Clients -> WorkerLabels \cup ClientLabels \cup OwnerLabels]
  <2> DEFINE p == [pc EXCEPT ![w] = "test"]
  <2>1. /\ p \in [Workers \cup Clients -> WorkerLabels \cup ClientLabels \cup OwnerLabels]
        /\ p[w] = "test"
        /\ \A x \in (Workers \cup Clients) \ {w} : p[x] = pc[x]
    BY DEF IInv, TypeOK, WorkerLabels
  <2>2. pc' = WakeClients(p) \/ pc' = p
    BY DEF WorkerCounts
  <2> HIDE DEF p
  <2>3. CASE pc' = p
    BY <2>1, <2>3, WorkersOK
  <2>4. CASE pc' = WakeClients(p)
    <3>1. pc' = [x \in Workers \cup Clients |-> IF x \in SleepingClients THEN "test" ELSE p[x]]
      BY <2>1, <2>4 DEF WakeClients
    <3>2. \A x \in Workers : x \notin SleepingClients
      BY WorkersOK DEF SleepingClients
    <3>3. \A c \in Clients : pc'[c] = pc[c] \/ (pc[c] = "asleep" /\ pc'[c] = "test")
      BY <2>1, <3>1, WorkersOK DEF SleepingClients
    <3>4. pc' \in [Workers \cup Clients -> WorkerLabels \cup ClientLabels \cup OwnerLabels]
      BY <2>1, <3>1 DEF WorkerLabels
    <3> QED
      BY <2>1, <3>1, <3>2, <3>3, <3>4
  <2> QED
    BY <2>2, <2>3, <2>4
<1>3. /\ w \in Uncounted /\ Uncounted' = Uncounted \ {w}
      /\ Holding' = Holding
  BY <1>1, <1>2 DEF Holding, Uncounted
<1>4. TasksAccounted'
  <2>1. tasks_running' = Cardinality(Uncounted')
    BY <1>1, <1>3, UncountedFinite, FS_RemoveElement DEF IInv, TasksAccounted
  <2> QED
    BY <1>1, <1>3, <2>1 DEF IInv, TasksAccounted, Held, Taken
<1>5. TypeOK'
  <2>1. tasks_running' \in 0 .. get_thread_count
    BY <1>4, NoneRunsNext
  <2>2. \A c \in Clients : pc'[c] \in ClientLabels \/ (c = Owner /\ pc'[c] \in OwnerLabels)
    BY <1>2 DEF IInv, TypeOK, ClientLabels
  <2>3. \A x \in Workers : pc'[x] \in WorkerLabels
    BY <1>2 DEF IInv, TypeOK, WorkerLabels
  <2> QED
    BY <1>1, <1>2, <2>1, <2>2, <2>3 DEF IInv, TypeOK, flags
<1>6. NoLostWakeup'
  BY <1>2 DEF NoLostWakeup
<1>7. pc[Owner] \notin OwnerStops
  BY <1>3, NoneRuns DEF IInv, OwnerOK, NothingLeft
<1>8. OwnerOK'
  BY <1>1, <1>2, <1>7, WorkersOK
     DEF IInv, OwnerOK, Constructed, OwnerStops, OwnerStopped, flags
<1> QED
  BY <1>4, <1>5, <1>6, <1>8 DEF IInv
-----------------------------------------------------------------------------
(* Steps of a client                                                       *)

(* A step that moves one client only, and neither into nor out of a push   *)
LEMMA ClientMoves ==
  ASSUME IInv, NEW c \in Clients, NEW label,
         label \in ClientLabels \/ (c = Owner /\ label \in OwnerLabels),
         pc[c] # "notify",
         pc' = [pc EXCEPT ![c] = label],
         waiting' \in BOOLEAN, workers_running' \in BOOLEAN, closing' \in BOOLEAN,
         UNCHANGED <<tasks, tasks_running, task, pushed, finished>>
  PROVE  /\ TypeOK' /\ TasksAccounted' /\ NoLostWakeup'
         /\ pc'[c] = label
         /\ \A x \in (Workers \cup Clients) \ {c} : pc'[x] = pc[x]
<1>1. /\ pc'[c] = label
      /\ \A x \in (Workers \cup Clients) \ {c} : pc'[x] = pc[x]
      /\ pc' \in [Workers \cup Clients -> WorkerLabels \cup ClientLabels \cup OwnerLabels]
  BY DEF IInv, TypeOK
<1>2. TypeOK'
  <2>1. \A x \in Clients : pc'[x] \in ClientLabels \/ (x = Owner /\ pc'[x] \in OwnerLabels)
    BY <1>1 DEF IInv, TypeOK
  <2>2. \A x \in Workers : pc'[x] \in WorkerLabels
    BY <1>1, WorkersOK DEF IInv, TypeOK
  <2> QED
    BY <1>1, <2>1, <2>2 DEF IInv, TypeOK
<1>3. Holding' = Holding /\ Uncounted' = Uncounted
  BY <1>1, WorkersOK DEF Holding, Uncounted
<1>4. TasksAccounted'
  BY <1>3, AccountedFrame DEF IInv
<1>5. NoLostWakeup'
  BY <1>1, WorkersOK DEF IInv, NoLostWakeup
<1> QED
  BY <1>1, <1>2, <1>4, <1>5

LEMMA WaitForTasksOK ==
  ASSUME IInv, NEW c \in Waiters, wait_for_tasks(c)
  PROVE  IInv'
<1>1. /\ pc[c] = "idle" /\ Constructed /\ ~closing /\ c \in Clients
      /\ pc' = [pc EXCEPT ![c] = "wait"]
      /\ UNCHANGED <<tasks, tasks_running, flags, task, pushed, finished>>
  BY WorkersOK DEF wait_for_tasks
<1>2. /\ TypeOK' /\ TasksAccounted' /\ NoLostWakeup'
      /\ pc'[c] = "wait"
      /\ \A x \in (Workers \cup Clients) \ {c} : pc'[x] = pc[x]
  BY <1>1, ClientMoves DEF ClientLabels, IInv, TypeOK, flags
<1>3. OwnerOK'
  BY <1>1, <1>2, WorkersOK
     DEF IInv, OwnerOK, Constructed, OwnerStops, OwnerStopped, NothingLeft, flags
<1> QED
  BY <1>2, <1>3 DEF IInv

LEMMA WaitSleepsOK ==
  ASSUME IInv, NEW c \in Clients, WaitSleeps(c)
  PROVE  IInv'
<1>1. /\ pc[c] \in {"wait", "test"} /\ waiting' = (waiting \/ pc[c] = "wait")
      /\ pc' = [pc EXCEPT ![c] = "asleep"]
      /\ UNCHANGED <<tasks, tasks_running, workers_running, closing, task, pushed, finished>>
  BY DEF WaitSleeps
<1>2. /\ TypeOK' /\ TasksAccounted' /\ NoLostWakeup'
      /\ pc'[c] = "asleep"
      /\ \A x \in (Workers \cup Clients) \ {c} : pc'[x] = pc[x]
  BY <1>1, ClientMoves DEF ClientLabels, IInv, TypeOK
<1>3. OwnerOK'
  BY <1>1, <1>2, WorkersOK
     DEF IInv, OwnerOK, Constructed, OwnerStops, OwnerStopped, NothingLeft
<1> QED
  BY <1>2, <1>3 DEF IInv

(* The destructor goes on when nothing is left.                            *)
LEMMA WaitReturnsOK ==
  ASSUME IInv, NEW c \in Clients, WaitReturns(c)
  PROVE  IInv'
<1>1. /\ pc[c] \in {"wait", "test"} /\ NothingLeft /\ waiting' = FALSE
      /\ pc' = [pc EXCEPT ![c] = AfterWait(c)]
      /\ UNCHANGED <<tasks, tasks_running, workers_running, closing, task, pushed, finished>>
  BY DEF WaitReturns
<1>2. /\ AfterWait(c) \in {"stop", "idle"}
      /\ AfterWait(c) = "stop" <=> (c = Owner /\ closing)
  BY DEF AfterWait
<1>3. /\ TypeOK' /\ TasksAccounted' /\ NoLostWakeup'
      /\ pc'[c] = AfterWait(c)
      /\ \A x \in (Workers \cup Clients) \ {c} : pc'[x] = pc[x]
  <2>1. AfterWait(c) \in ClientLabels \/ (c = Owner /\ AfterWait(c) \in OwnerLabels)
    BY <1>2 DEF ClientLabels, OwnerLabels
  <2>2. /\ waiting' \in BOOLEAN /\ workers_running' \in BOOLEAN /\ closing' \in BOOLEAN
        /\ pc[c] # "notify"
    BY <1>1 DEF IInv, TypeOK
  <2> QED
    BY <1>1, <2>1, <2>2, ClientMoves
<1>4. OwnerOK'
  BY <1>1, <1>2, <1>3, WorkersOK
     DEF IInv, OwnerOK, Constructed, OwnerStops, OwnerStopped, NothingLeft
<1> QED
  BY <1>3, <1>4 DEF IInv
-----------------------------------------------------------------------------
(* Steps of the destructor                                                 *)
LEMMA DestroyOK ==
  ASSUME IInv, Destroy
  PROVE  IInv'
<1>1. /\ pc[Owner] = "idle" /\ closing' = TRUE
      /\ \A c \in Clients \ {Owner} : pc[c] = "idle"
      /\ pc' = [pc EXCEPT ![Owner] = "wait"]
      /\ UNCHANGED <<tasks, tasks_running, waiting, workers_running, task, pushed, finished>>
  BY DEF Destroy
<1>2. /\ TypeOK' /\ TasksAccounted' /\ NoLostWakeup'
      /\ pc'[Owner] = "wait"
      /\ \A x \in (Workers \cup Clients) \ {Owner} : pc'[x] = pc[x]
  BY <1>1, ClientMoves, WorkersOK DEF ClientLabels, IInv, TypeOK
<1>3. OwnerOK'
  BY <1>1, <1>2, WorkersOK
     DEF IInv, OwnerOK, Constructed, OwnerStops, OwnerStopped, NothingLeft
<1> QED
  BY <1>2, <1>3 DEF IInv

LEMMA DestroyThreadsOK ==
  ASSUME IInv, destroy_threads
  PROVE  IInv'
<1>1. /\ pc[Owner] = "stop" /\ workers_running' = FALSE
      /\ pc' = [pc EXCEPT ![Owner] = "notify_all"]
      /\ UNCHANGED <<tasks, tasks_running, waiting, task, pushed, finished, closing>>
  BY DEF destroy_threads
<1>2. /\ TypeOK' /\ TasksAccounted' /\ NoLostWakeup'
      /\ pc'[Owner] = "notify_all"
      /\ \A x \in (Workers \cup Clients) \ {Owner} : pc'[x] = pc[x]
  BY <1>1, ClientMoves, WorkersOK DEF OwnerLabels, IInv, TypeOK
<1>3. OwnerOK'
  BY <1>1, <1>2, WorkersOK
     DEF IInv, OwnerOK, Constructed, OwnerStops, OwnerStopped, NothingLeft
<1> QED
  BY <1>2, <1>3 DEF IInv

LEMMA JoinOK ==
  ASSUME IInv, Join
  PROVE  IInv'
<1>1. /\ pc[Owner] = "join"
      /\ pc' = [pc EXCEPT ![Owner] = "gone"]
      /\ UNCHANGED <<tasks, tasks_running, flags, task, pushed, finished>>
  BY DEF Join
<1>2. /\ TypeOK' /\ TasksAccounted' /\ NoLostWakeup'
      /\ pc'[Owner] = "gone"
      /\ \A x \in (Workers \cup Clients) \ {Owner} : pc'[x] = pc[x]
  BY <1>1, ClientMoves, WorkersOK DEF OwnerLabels, IInv, TypeOK, flags
<1>3. OwnerOK'
  BY <1>1, <1>2, WorkersOK
     DEF IInv, OwnerOK, Constructed, OwnerStops, OwnerStopped, NothingLeft, flags
<1> QED
  BY <1>2, <1>3 DEF IInv

(* Threads that sleep come to test their predicate again, and the owner    *)
(* may move from notify_all to join: nothing else depends on it.           *)
LEMMA WakesOK ==
  ASSUME IInv,
         pc' \in [Workers \cup Clients -> WorkerLabels \cup ClientLabels \cup OwnerLabels],
         \A x \in Workers \cup Clients :
           \/ pc'[x] = pc[x]
           \/ pc[x] = "asleep" /\ pc'[x] = "test"
           \/ x = Owner /\ pc[x] = "notify_all" /\ pc'[x] = "join",
         UNCHANGED <<tasks, tasks_running, flags, task, pushed, finished>>
  PROVE  IInv'
<1>1. TypeOK'
  <2>1. \A x \in Clients : pc'[x] \in ClientLabels \/ (x = Owner /\ pc'[x] \in OwnerLabels)
    BY DEF IInv, TypeOK, ClientLabels, OwnerLabels
  <2>2. \A x \in Workers : pc'[x] \in WorkerLabels
    BY WorkersOK DEF IInv, TypeOK, WorkerLabels
  <2> QED
    BY <2>1, <2>2 DEF IInv, TypeOK, flags
<1>2. Holding' = Holding /\ Uncounted' = Uncounted
  BY WorkersOK DEF Holding, Uncounted
<1>3. TasksAccounted'
  BY <1>2, AccountedFrame DEF IInv
<1>4. NoLostWakeup'
  BY WorkersOK DEF IInv, NoLostWakeup
<1>5. OwnerOK'
  BY WorkersOK DEF IInv, OwnerOK, Constructed, OwnerStops, OwnerStopped, NothingLeft, flags
<1> QED
  BY <1>1, <1>3, <1>4, <1>5 DEF IInv

LEMMA NotifyAllOK ==
  ASSUME IInv, NotifyAll
  PROVE  IInv'
<1> DEFINE p == [pc EXCEPT ![Owner] = "join"]
<1>1. /\ pc[Owner] = "notify_all" /\ pc' = WakeWorkers(p)
      /\ UNCHANGED <<tasks, tasks_running, flags, task, pushed, finished>>
  BY DEF NotifyAll
<1>2. /\ p \in [Workers \cup Clients -> WorkerLabels \cup ClientLabels \cup OwnerLabels]
      /\ p[Owner] = "join"
      /\ \A x \in (Workers \cup Clients) \ {Owner} : p[x] = pc[x]
  BY WorkersOK DEF IInv, TypeOK, OwnerLabels
<1> HIDE DEF p
<1>3. pc' = [x \in Workers \cup Clients |-> IF x \in SleepingWorkers THEN "test" ELSE p[x]]
  BY <1>1, <1>2 DEF WakeWorkers
<1>4. pc' \in [Workers \cup Clients -> WorkerLabels \cup ClientLabels \cup OwnerLabels]
  BY <1>2, <1>3 DEF WorkerLabels
<1>5. \A x \in Workers \cup Clients :
        \/ pc'[x] = pc[x]
        \/ pc[x] = "asleep" /\ pc'[x] = "test"
        \/ x = Owner /\ pc[x] = "notify_all" /\ pc'[x] = "join"
  BY <1>1, <1>2, <1>3, WorkersOK DEF SleepingWorkers
<1> QED
  BY <1>1, <1>4, <1>5, WakesOK

LEMMA SpuriousWakeOK ==
  ASSUME IInv, NEW t \in Workers \cup Clients, SpuriousWake(t)
  PROVE  IInv'
<1>1. /\ pc[t] = "asleep" /\ pc' = [pc EXCEPT ![t] = "test"]
      /\ UNCHANGED <<tasks, tasks_running, flags, task, pushed, finished>>
  BY DEF SpuriousWake
<1>2. pc \in [Workers \cup Clients -> WorkerLabels \cup ClientLabels \cup OwnerLabels]
  BY DEF IInv, TypeOK
<1>3. pc' \in [Workers \cup Clients -> WorkerLabels \cup ClientLabels \cup OwnerLabels]
  BY <1>1, <1>2 DEF WorkerLabels
<1>4. \A x \in Workers \cup Clients :
        pc'[x] = pc[x] \/ (pc[x] = "asleep" /\ pc'[x] = "test")
  BY <1>1, <1>2
<1> QED
  BY <1>1, <1>3, <1>4, WakesOK
-----------------------------------------------------------------------------
LEMMA NextOK == IInv /\ [Next]_vars => IInv'
<1> SUFFICES ASSUME IInv, [Next]_vars
             PROVE  IInv'
  OBVIOUS
<1>1. CASE \E t \in Workers \cup Clients : push_task(t) \/ SpuriousWake(t)
  BY <1>1, PushTaskOK, SpuriousWakeOK
<1>2. CASE \E w \in Workers : WorkerStep(w)
  BY <1>2, NotifyOneOK, WorkerSleepsOK, WorkerBreaksOK, WorkerTakesOK, TaskReturnsOK,
     WorkerCountsOK DEF WorkerStep
<1>3. CASE \E c \in Clients : ClientStep(c)
  BY <1>3, NotifyOneOK, WaitSleepsOK, WaitReturnsOK DEF ClientStep
<1>4. CASE \E c \in Waiters : wait_for_tasks(c)
  BY <1>4, WaitForTasksOK
<1>5. CASE OwnerStep
  BY <1>5, CreateThreadsOK, SpawnThreadOK, DestroyThreadsOK, NotifyAllOK, JoinOK
     DEF OwnerStep
<1>6. CASE Destroy
  BY <1>6, DestroyOK
<1>7. CASE UNCHANGED vars
  <2>1. Holding' = Holding /\ Uncounted' = Uncounted
    BY <1>7 DEF vars, Holding, Uncounted
  <2>2. TasksAccounted'
    BY <1>7, <2>1, AccountedFrame DEF IInv, vars
  <2> QED
    BY <1>7, <2>2 DEF vars, IInv, TypeOK, NoLostWakeup, OwnerOK, Constructed, NothingLeft
<1> QED
  BY <1>1, <1>2, <1>3, <1>4, <1>5, <1>6, <1>7 DEF Next, Terminating

LEMMA Invariant == Spec => []IInv
BY InitOK, NextOK, PTL DEF Spec

(* For any number of workers, clients and tasks every variable keeps its   *)
(* type.                                                                   *)
THEOREM PoolTypeCorrect == Spec => []TypeOK
<1>1. IInv => TypeOK
  BY DEF IInv
<1> QED
  BY <1>1, Invariant, PTL

(* For all of them no task is lost, run twice or overtaken, and            *)
(* tasks_running counts the workers that run one.                          *)
THEOREM EveryTaskAccounted == Spec => []TasksAccounted
<1>1. IInv => TasksAccounted
  BY DEF IInv
<1> QED
  BY <1>1, Invariant, PTL

(* For all of them no task is left queued before workers that all sleep.   *)
THEOREM NoWakeupLost == Spec => []NoLostWakeup
<1>1. IInv => NoLostWakeup
  BY DEF IInv
<1> QED
  BY <1>1, Invariant, PTL

(* For all of them the destructor ends the workers when every task is done *)
THEOREM DestroyedOnlyWhenDone == Spec => []DestroyedWhenDone
<1>1. IInv => DestroyedWhenDone
  <2> SUFFICES ASSUME IInv, closing, ~workers_running
               PROVE  finished = 1 .. pushed /\ tasks = <<>>
    BY DEF DestroyedWhenDone
  <2>1. NothingLeft
    BY DEF IInv, OwnerOK, OwnerStops, OwnerStopped
  <2>2. Holding = {}
    BY <2>1, NoneRuns DEF IInv, NothingLeft, Holding, Uncounted
  <2>3. Taken = pushed
    BY <2>1 DEF IInv, TypeOK, NothingLeft, Taken
  <2> QED
    BY <2>1, <2>2, <2>3 DEF IInv, TasksAccounted, Held, NothingLeft
<1> QED
  BY <1>1, Invariant, PTL
-----------------------------------------------------------------------------
(* With the owner the only one that waits: nobody else clears the flag     *)
(* while it is inside wait_for_tasks, so that it is raised whenever the    *)
(* owner sleeps or is about to sleep again.                                *)
WaitOK ==
  /\ \A c \in Clients \ {Owner} : pc[c] \in {"idle", "notify"}
  /\ pc[Owner] \in {"asleep", "test"} => waiting
  /\ pc[Owner] = "asleep" => ~NothingLeft

LEMMA WaitInit == Init => WaitOK
BY WorkersOK DEF Init, WaitOK

(* A step of a worker that wakes no client                                 *)
LEMMA WaitWorker ==
  ASSUME IInv, WaitOK, UNCHANGED waiting, NothingLeft' => NothingLeft,
         \A c \in Clients : pc'[c] = pc[c]
  PROVE  WaitOK'
BY WorkersOK DEF WaitOK

(* A push: the one who pushes neither waited nor waits.                    *)
LEMMA WaitPush ==
  ASSUME IInv, WaitOK, NEW t \in Workers \cup Clients, push_task(t) \/ NotifyOne(t)
  PROVE  WaitOK'
<1>1. pc \in [Workers \cup Clients -> WorkerLabels \cup ClientLabels \cup OwnerLabels]
  BY DEF IInv, TypeOK
<1>2. UNCHANGED waiting
  BY DEF push_task, NotifyOne, flags
<1>3. NothingLeft' => NothingLeft
  BY DEF push_task, NotifyOne, NothingLeft, IInv, TypeOK
<1>4. \A c \in Clients : \/ pc'[c] = pc[c]
                         \/ pc[c] = "idle" /\ pc'[c] = "notify"
                         \/ pc[c] = "notify" /\ pc'[c] = "idle"
  <2>1. CASE push_task(t)
    BY <1>1, <2>1, WorkersOK DEF push_task, MayPush
  <2>2. CASE NotifyOne(t)
    BY <1>1, <2>2, WorkersOK DEF NotifyOne, AfterPush, SleepingWorkers
  <2> QED
    BY <2>1, <2>2
<1> QED
  BY <1>2, <1>3, <1>4, WorkersOK DEF WaitOK

LEMMA WaitWorkerStep ==
  ASSUME IInv, WaitOK, NEW w \in Workers, WorkerStep(w)
  PROVE  WaitOK'
<1>1. pc \in [Workers \cup Clients -> WorkerLabels \cup ClientLabels \cup OwnerLabels]
  BY DEF IInv, TypeOK
<1>2. CASE NotifyOne(w)
  BY <1>2, WaitPush
<1>3. CASE WorkerSleeps(w) \/ WorkerBreaks(w) \/ TaskReturns(w)
  <2>1. UNCHANGED waiting /\ NothingLeft' = NothingLeft
    BY <1>3 DEF WorkerSleeps, WorkerBreaks, TaskReturns, flags, NothingLeft
  <2>2. \A c \in Clients : pc'[c] = pc[c]
    BY <1>1, <1>3, WorkersOK DEF WorkerSleeps, WorkerBreaks, TaskReturns
  <2> QED
    BY <2>1, <2>2, WaitWorker
<1>4. CASE WorkerTakes(w)
  <2>1. UNCHANGED waiting /\ ~NothingLeft'
    BY <1>4 DEF WorkerTakes, flags, NothingLeft, IInv, TypeOK
  <2>2. \A c \in Clients : pc'[c] = pc[c]
    BY <1>1, <1>4, WorkersOK DEF WorkerTakes
  <2> QED
    BY <2>1, <2>2, WaitWorker
<1>5. CASE WorkerCounts(w)
  <2> DEFINE p == [pc EXCEPT ![w] = "test"]
  <2>1. /\ UNCHANGED <<waiting, tasks>> /\ tasks_running' = tasks_running - 1
        /\ pc' = IF LastOne THEN WakeClients(p) ELSE p
    BY <1>5 DEF WorkerCounts, flags
  <2>2. /\ p \in [Workers \cup Clients -> WorkerLabels \cup ClientLabels \cup OwnerLabels]
        /\ \A c \in Clients : p[c] = pc[c]
    BY <1>1, WorkersOK DEF WorkerLabels
  <2> HIDE DEF p
  <2>3. CASE LastOne
    <3>1. pc' = [x \in Workers \cup Clients |-> IF x \in SleepingClients THEN "test" ELSE p[x]]
      BY <2>1, <2>2, <2>3 DEF WakeClients
    <3>2. \A c \in Clients : pc'[c] = IF pc[c] = "asleep" THEN "test" ELSE pc[c]
      BY <2>2, <3>1 DEF SleepingClients
    <3> QED
      BY <2>1, <2>3, <3>2, WorkersOK DEF WaitOK, LastOne
  <2>4. CASE ~LastOne
    <3>1. pc[Owner] = "asleep" => ~NothingLeft'
      BY <2>1, <2>4 DEF WaitOK, LastOne, NothingLeft, IInv, TypeOK
    <3> QED
      BY <2>1, <2>2, <2>4, <3>1, WorkersOK DEF WaitOK
  <2> QED
    BY <2>3, <2>4
<1> QED
  BY <1>2, <1>3, <1>4, <1>5 DEF WorkerStep

LEMMA WaitNext ==
  ASSUME Waiters = {Owner}, IInv, WaitOK, [Next]_vars
  PROVE  WaitOK'
<1>1. pc \in [Workers \cup Clients -> WorkerLabels \cup ClientLabels \cup OwnerLabels]
  BY DEF IInv, TypeOK
<1>2. ASSUME NEW t \in Workers \cup Clients, push_task(t)
      PROVE  WaitOK'
  BY <1>2, WaitPush
<1>3. ASSUME NEW t \in Workers \cup Clients, SpuriousWake(t)
      PROVE  WaitOK'
  BY <1>1, <1>3, WorkersOK DEF SpuriousWake, WaitOK, NothingLeft, flags
<1>4. ASSUME NEW w \in Workers, WorkerStep(w)
      PROVE  WaitOK'
  BY <1>4, WaitWorkerStep
<1>5. ASSUME NEW c \in Clients, ClientStep(c)
      PROVE  WaitOK'
  <2>1. CASE NotifyOne(c)
    BY <2>1, WaitPush
  <2>2. CASE WaitSleeps(c)
    BY <1>1, <2>2, WorkersOK DEF WaitSleeps, WaitOK, NothingLeft
  <2>3. CASE WaitReturns(c)
    BY <1>1, <2>3, WorkersOK DEF WaitReturns, WaitOK, NothingLeft, AfterWait
  <2> QED
    BY <1>5, <2>1, <2>2, <2>3 DEF ClientStep
<1>6. ASSUME NEW c \in Waiters, wait_for_tasks(c)
      PROVE  WaitOK'
  BY <1>1, <1>6, WorkersOK DEF wait_for_tasks, WaitOK, NothingLeft, flags
<1>7. CASE OwnerStep
  <2>1. CASE NotifyAll
    <3>1. pc' = [x \in Workers \cup Clients |->
                  IF x \in SleepingWorkers THEN "test" ELSE [pc EXCEPT ![Owner] = "join"][x]]
      BY <1>1, <2>1 DEF NotifyAll, WakeWorkers
    <3>2. \A c \in Clients : pc'[c] = IF c = Owner THEN "join" ELSE pc[c]
      BY <1>1, <3>1, WorkersOK DEF SleepingWorkers
    <3> QED
      BY <3>2, WorkersOK DEF WaitOK
  <2>2. CASE \E w \in Workers : SpawnThread(w)
    <3>1. PICK w \in Workers : SpawnThread(w)
      BY <2>2
    <3>2. pc'[Owner] \in {"spawn", "idle"} /\ \A c \in Clients \ {Owner} : pc'[c] = pc[c]
      BY <1>1, <3>1, WorkersOK DEF SpawnThread
    <3> QED
      BY <3>2, WorkersOK DEF WaitOK
  <2>3. CASE CreateThreads \/ destroy_threads \/ Join
    BY <1>1, <2>3, WorkersOK DEF CreateThreads, destroy_threads, Join, WaitOK
  <2> QED
    BY <1>7, <2>1, <2>2, <2>3 DEF OwnerStep
<1>8. CASE Destroy
  BY <1>1, <1>8, WorkersOK DEF Destroy, WaitOK
<1>9. CASE UNCHANGED vars
  BY <1>9 DEF vars, WaitOK, NothingLeft
<1> QED
  BY <1>2, <1>3, <1>4, <1>5, <1>6, <1>7, <1>8, <1>9 DEF Next, Terminating

(* When one thread only ever waits, it never sleeps through a pool that    *)
(* has nothing left to do: for any number of workers, clients and tasks.   *)
(* (The run two_waiters shows that with two it may.)                       *)
THEOREM OneWaiterHasReason ==
  ASSUME Waiters = {Owner}
  PROVE  Spec => []WaiterHasReason
<1>1. IInv /\ WaitOK => WaiterHasReason
  BY DEF WaitOK, WaiterHasReason
<1>2. IInv /\ WaitOK /\ [Next]_vars => WaitOK'
  BY WaitNext
<1>3. Spec => [](IInv /\ WaitOK)
  BY <1>2, InitOK, NextOK, WaitInit, PTL DEF Spec
<1> QED
  BY <1>1, <1>3, PTL
-----------------------------------------------------------------------------
(* The refinement.  InWait is what TaskPool calls waiters, Open its open.  *)
InWait == {c \in Clients : pc[c] \in {"wait", "asleep", "test"}}
Open == pc[Owner] \notin OwnerStopped

LEMMA PoolStutters ==
  ASSUME UNCHANGED <<tasks, Held, finished, InWait, Open>>
  PROVE  UNCHANGED Pool!vars
BY DEF Pool!vars, InWait, Open, OwnerStopped

LEMMA RefineInit == Init => Pool!Init
<1> SUFFICES ASSUME Init PROVE Pool!Init
  OBVIOUS
<1>1. /\ pc[Owner] = "construct"
      /\ \A w \in Workers : pc[w] = "unborn"
      /\ \A c \in Clients \ {Owner} : pc[c] = "idle"
  BY WorkersOK DEF Init
<1> QED
  BY <1>1 DEF Init, Pool!Init, Held, Holding

(* A step that changes neither the queue nor what workers hold, nor who    *)
(* waits, is none of TaskPool.                                             *)
LEMMA RefineStutter ==
  ASSUME UNCHANGED <<tasks, task, finished>>,
         \A w \in Workers : pc'[w] \in {"run", "notify"} <=> pc[w] \in {"run", "notify"},
         \A c \in Clients : pc'[c] \in {"wait", "asleep", "test"}
                              <=> pc[c] \in {"wait", "asleep", "test"},
         pc'[Owner] \in OwnerStopped <=> pc[Owner] \in OwnerStopped
  PROVE  UNCHANGED Pool!vars
<1>1. Holding' = Holding /\ InWait' = InWait /\ Open' = Open
  BY DEF Holding, InWait, Open
<1>2. Held' = Held
  BY <1>1 DEF Held
<1> QED
  BY <1>1, <1>2, PoolStutters

LEMMA RefinePush ==
  ASSUME IInv, NEW t \in Workers \cup Clients, push_task(t)
  PROVE  Pool!Push
<1>1. /\ MayPush(t) /\ pushed < MaxTasks
      /\ tasks' = Append(tasks, pushed + 1)
      /\ UNCHANGED <<task, finished>>
      /\ pc' = [pc EXCEPT ![t] = "notify"]
  BY DEF push_task
<1>2. /\ pc \in [Workers \cup Clients -> WorkerLabels \cup ClientLabels \cup OwnerLabels]
      /\ pushed \in Nat /\ tasks \in Seq(1 .. MaxTasks) /\ MaxTasks \in Nat
  BY PoolAssumptions DEF IInv, TypeOK
<1>3. pc[Owner] \notin OwnerStops
  <2>1. CASE t \in Workers
    BY <1>1, <2>1, HoldingConstructed, WorkersOK DEF MayPush, Holding
  <2>2. CASE t \in Clients
    BY <1>1, <2>2, WorkersOK DEF MayPush, IInv, OwnerOK
  <2> QED
    BY <2>1, <2>2
<1>4. /\ \A w \in Workers : pc'[w] \in {"run", "notify"} <=> pc[w] \in {"run", "notify"}
      /\ \A c \in Clients : pc'[c] \in {"wait", "asleep", "test"}
                              <=> pc[c] \in {"wait", "asleep", "test"}
  BY <1>1, <1>2, WorkersOK DEF MayPush
<1>5. Open /\ Open'
  BY <1>1, <1>2, <1>3, WorkersOK DEF Open, OwnerStops, OwnerStopped
<1>6. Holding' = Holding /\ InWait' = InWait
  BY <1>4 DEF Holding, InWait
<1>7. Held' = Held
  BY <1>1, <1>6 DEF Held
<1>8. /\ pushed + 1 \in 1 .. MaxTasks
      /\ pushed + 1 \notin Held \cup finished
      /\ \A k \in 1 .. Len(tasks) : tasks[k] # pushed + 1
  BY <1>1, <1>2 DEF IInv, TasksAccounted, Taken
<1> QED
  BY <1>1, <1>5, <1>6, <1>7, <1>8 DEF Pool!Push, Pool!TaskIds, InWait, Open, OwnerStopped

LEMMA RefineStart ==
  ASSUME IInv, NEW w \in Workers, WorkerTakes(w)
  PROVE  Pool!Start
<1>1. /\ pc[w] = "test" /\ tasks # <<>> /\ workers_running
      /\ task' = [task EXCEPT ![w] = Head(tasks)]
      /\ tasks' = Tail(tasks)
      /\ pc' = [pc EXCEPT ![w] = "run"]
      /\ UNCHANGED finished
  BY DEF WorkerTakes
<1>2. /\ pc \in [Workers \cup Clients -> WorkerLabels \cup ClientLabels \cup OwnerLabels]
      /\ task \in [Workers -> 0 .. MaxTasks]
  BY DEF IInv, TypeOK
<1>3. w \notin Holding /\ Holding' = Holding \cup {w}
  BY <1>1, <1>2 DEF Holding
<1>4. Held' = Held \cup {Head(tasks)}
  BY <1>1, <1>2, <1>3 DEF Held, Holding
<1>5. InWait' = InWait /\ Open /\ Open'
  BY <1>1, <1>2, WorkersOK DEF InWait, Open, IInv, OwnerOK
<1> QED
  BY <1>1, <1>4, <1>5 DEF Pool!Start, InWait, Open, OwnerStopped

LEMMA RefineComplete ==
  ASSUME IInv, NEW w \in Workers, TaskReturns(w)
  PROVE  \E t \in Pool!TaskIds : Pool!Complete(t)
<1>1. /\ pc[w] = "run"
      /\ finished' = finished \cup {task[w]}
      /\ pc' = [pc EXCEPT ![w] = "count"]
      /\ UNCHANGED <<tasks, task>>
  BY DEF TaskReturns
<1>2. /\ pc \in [Workers \cup Clients -> WorkerLabels \cup ClientLabels \cup OwnerLabels]
      /\ pushed \in 0 .. MaxTasks /\ MaxTasks \in Nat /\ Len(tasks) \in Nat
  BY PoolAssumptions DEF IInv, TypeOK
<1>3. w \in Holding /\ Holding' = Holding \ {w}
  BY <1>1, <1>2 DEF Holding
<1>4. task[w] \in Held /\ Held' = Held \ {task[w]}
  BY <1>1, <1>3 DEF IInv, TasksAccounted, Held
<1>5. task[w] \in 1 .. MaxTasks
  BY <1>2, <1>4 DEF IInv, TasksAccounted, Taken
<1>6. InWait' = InWait /\ Open' = Open
  BY <1>1, <1>2, WorkersOK DEF InWait, Open
<1>7. Pool!Complete(task[w])
  BY <1>1, <1>4, <1>6 DEF Pool!Complete, InWait, Open, OwnerStopped
<1> QED
  BY <1>5, <1>7 DEF Pool!TaskIds

LEMMA RefineWait ==
  ASSUME IInv, NEW c \in Clients, pc[c] = "idle", ~closing,
         pc' = [pc EXCEPT ![c] = "wait"],
         UNCHANGED <<tasks, task, finished>>
  PROVE  Pool!BeginWait(c)
<1>1. pc \in [Workers \cup Clients -> WorkerLabels \cup ClientLabels \cup OwnerLabels]
  BY DEF IInv, TypeOK
<1>2. pc[Owner] \notin OwnerStops
  BY DEF IInv, OwnerOK
<1>3. c \notin InWait /\ InWait' = InWait \cup {c} /\ Open /\ Open'
  BY <1>1, <1>2, WorkersOK DEF InWait, Open, OwnerStops, OwnerStopped
<1>4. Holding' = Holding
  BY <1>1, WorkersOK DEF Holding
<1>5. Held' = Held
  BY <1>4 DEF Held
<1> QED
  BY <1>3, <1>5 DEF Pool!BeginWait, InWait, Open, OwnerStopped

LEMMA NothingHeld ==
  ASSUME IInv, NothingLeft
  PROVE  Held = {} /\ tasks = <<>>
<1>1. Holding = {}
  BY NoneRuns DEF IInv, NothingLeft, Holding, Uncounted
<1> QED
  BY <1>1 DEF Held, NothingLeft

LEMMA RefineEndWait ==
  ASSUME IInv, NEW c \in Clients, WaitReturns(c)
  PROVE  Pool!EndWait(c)
<1>1. /\ pc[c] \in {"wait", "test"} /\ NothingLeft
      /\ pc' = [pc EXCEPT ![c] = AfterWait(c)]
      /\ UNCHANGED <<tasks, task, finished>>
      /\ AfterWait(c) \in {"stop", "idle"}
  BY DEF WaitReturns, AfterWait
<1>2. pc \in [Workers \cup Clients -> WorkerLabels \cup ClientLabels \cup OwnerLabels]
  BY DEF IInv, TypeOK
<1>3. c \in InWait /\ InWait' = InWait \ {c} /\ Open' = Open
  BY <1>1, <1>2, WorkersOK DEF InWait, Open, OwnerStopped
<1>4. Holding' = Holding
  BY <1>1, <1>2, WorkersOK DEF Holding
<1>5. Held' = Held
  BY <1>1, <1>4 DEF Held
<1> QED
  BY <1>1, <1>3, <1>5, NothingHeld DEF Pool!EndWait, Pool!Quiet, InWait, Open, OwnerStopped

LEMMA RefineClose ==
  ASSUME IInv, destroy_threads
  PROVE  Pool!Close
<1>1. /\ pc[Owner] = "stop"
      /\ pc' = [pc EXCEPT ![Owner] = "notify_all"]
      /\ UNCHANGED <<tasks, task, finished>>
  BY DEF destroy_threads
<1>2. pc \in [Workers \cup Clients -> WorkerLabels \cup ClientLabels \cup OwnerLabels]
  BY DEF IInv, TypeOK
<1>3. NothingLeft /\ \A c \in Clients \ {Owner} : pc[c] = "idle"
  BY <1>1 DEF IInv, OwnerOK, OwnerStops
<1>4. InWait = {} /\ InWait' = {} /\ Open /\ ~Open'
  BY <1>1, <1>2, <1>3, WorkersOK DEF InWait, Open, OwnerStopped
<1>5. Holding' = Holding
  BY <1>1, <1>2, WorkersOK DEF Holding
<1>6. Held' = Held
  BY <1>1, <1>5 DEF Held
<1> QED
  BY <1>1, <1>3, <1>4, <1>6, NothingHeld DEF Pool!Close, Pool!Quiet, InWait, Open, OwnerStopped

(* The steps nobody outside sees: of a worker or client that notifies,     *)
(* sleeps or wakes up, of one that counts itself out, and of the owner     *)
(* that starts and joins threads.                                          *)
LEMMA RefineHidden ==
  ASSUME IInv,
         \/ \E t \in Workers \cup Clients : NotifyOne(t) \/ SpuriousWake(t)
         \/ \E w \in Workers : WorkerSleeps(w) \/ WorkerBreaks(w) \/ WorkerCounts(w)
         \/ \E w \in Workers : SpawnThread(w)
         \/ \E c \in Clients : WaitSleeps(c)
         \/ CreateThreads \/ NotifyAll \/ Join
  PROVE  UNCHANGED Pool!vars
<1>1. pc \in [Workers \cup Clients -> WorkerLabels \cup ClientLabels \cup OwnerLabels]
  BY DEF IInv, TypeOK
<1> DEFINE Hidden ==
      /\ UNCHANGED <<tasks, task, finished>>
      /\ \A w \in Workers : pc'[w] \in {"run", "notify"} <=> pc[w] \in {"run", "notify"}
      /\ \A c \in Clients : pc'[c] \in {"wait", "asleep", "test"}
                              <=> pc[c] \in {"wait", "asleep", "test"}
      /\ pc'[Owner] \in OwnerStopped <=> pc[Owner] \in OwnerStopped
<1>2. Hidden => UNCHANGED Pool!vars
  BY RefineStutter
<1>3. ASSUME NEW t \in Workers \cup Clients, NotifyOne(t)
      PROVE  Hidden
  BY <1>1, <1>3, WorkersOK DEF NotifyOne, AfterPush, SleepingWorkers, OwnerStopped
<1>4. ASSUME NEW t \in Workers \cup Clients, SpuriousWake(t)
      PROVE  Hidden
  BY <1>1, <1>4, WorkersOK DEF SpuriousWake, OwnerStopped
<1>5. ASSUME NEW w \in Workers, WorkerSleeps(w) \/ WorkerBreaks(w)
      PROVE  Hidden
  BY <1>1, <1>5, WorkersOK DEF WorkerSleeps, WorkerBreaks, OwnerStopped
<1>6. ASSUME NEW w \in Workers, WorkerCounts(w)
      PROVE  Hidden
  <2> DEFINE p == [pc EXCEPT ![w] = "test"]
  <2>1. /\ pc[w] = "count" /\ UNCHANGED <<tasks, task, finished>>
        /\ pc' = WakeClients(p) \/ pc' = p
    BY <1>6 DEF WorkerCounts
  <2>2. /\ p \in [Workers \cup Clients -> WorkerLabels \cup ClientLabels \cup OwnerLabels]
        /\ p[w] = "test"
        /\ \A x \in (Workers \cup Clients) \ {w} : p[x] = pc[x]
    BY <1>1 DEF WorkerLabels
  <2> HIDE DEF p
  <2>3. CASE pc' = p
    BY <2>1, <2>2, <2>3, WorkersOK DEF OwnerStopped
  <2>4. CASE pc' = WakeClients(p)
    <3>1. pc' = [x \in Workers \cup Clients |-> IF x \in SleepingClients THEN "test" ELSE p[x]]
      BY <2>2, <2>4 DEF WakeClients
    <3>2. \A x \in Workers : pc'[x] = IF x = w THEN "test" ELSE pc[x]
      BY <2>2, <3>1, WorkersOK DEF SleepingClients
    <3>3. \A c \in Clients : pc'[c] = IF pc[c] = "asleep" THEN "test" ELSE pc[c]
      BY <2>2, <3>1, WorkersOK DEF SleepingClients
    <3> QED
      BY <2>1, <3>2, <3>3, WorkersOK DEF OwnerStopped
  <2> QED
    BY <2>1, <2>3, <2>4
<1>7. ASSUME NEW w \in Workers, SpawnThread(w)
      PROVE  Hidden
  BY <1>1, <1>7, WorkersOK DEF SpawnThread, OwnerStopped
<1>8. ASSUME NEW c \in Clients, WaitSleeps(c)
      PROVE  Hidden
  BY <1>1, <1>8, WorkersOK DEF WaitSleeps, OwnerStopped
<1>9. CASE CreateThreads \/ Join
  <2>1. Hidden
    BY <1>1, <1>9, WorkersOK DEF CreateThreads, Join, OwnerStopped
  <2> QED
    BY <1>2, <2>1
<1>10. CASE NotifyAll
  <2> DEFINE p == [pc EXCEPT ![Owner] = "join"]
  <2>1. /\ pc[Owner] = "notify_all" /\ UNCHANGED <<tasks, task, finished>>
        /\ pc' = WakeWorkers(p)
    BY <1>10 DEF NotifyAll
  <2>2. /\ p \in [Workers \cup Clients -> WorkerLabels \cup ClientLabels \cup OwnerLabels]
        /\ p[Owner] = "join"
        /\ \A x \in (Workers \cup Clients) \ {Owner} : p[x] = pc[x]
    BY <1>1, WorkersOK DEF OwnerLabels
  <2> HIDE DEF p
  <2>3. pc' = [x \in Workers \cup Clients |-> IF x \in SleepingWorkers THEN "test" ELSE p[x]]
    BY <2>1, <2>2 DEF WakeWorkers
  <2>4. \A x \in Workers : pc'[x] = IF pc[x] = "asleep" THEN "test" ELSE pc[x]
    BY <2>2, <2>3, WorkersOK DEF SleepingWorkers
  <2>5. \A c \in Clients : pc'[c] = IF c = Owner THEN "join" ELSE pc[c]
    BY <2>2, <2>3, WorkersOK DEF SleepingWorkers
  <2>6. Hidden
    BY <2>1, <2>4, <2>5, WorkersOK DEF OwnerStopped
  <2> QED
    BY <1>2, <2>6
<1> HIDE DEF Hidden
<1> QED
  BY <1>2, <1>3, <1>4, <1>5, <1>6, <1>7, <1>8, <1>9, <1>10

LEMMA RefineNext == IInv /\ [Next]_vars => [Pool!Next]_(Pool!vars)
<1> SUFFICES ASSUME IInv, [Next]_vars
             PROVE  Pool!Next \/ UNCHANGED Pool!vars
  OBVIOUS
<1>1. ASSUME NEW t \in Workers \cup Clients, push_task(t)
      PROVE  Pool!Next
  BY <1>1, RefinePush DEF Pool!Next
<1>2. ASSUME NEW w \in Workers, WorkerTakes(w)
      PROVE  Pool!Next
  BY <1>2, RefineStart DEF Pool!Next
<1>3. ASSUME NEW w \in Workers, TaskReturns(w)
      PROVE  Pool!Next
  BY <1>3, RefineComplete DEF Pool!Next
<1>4. ASSUME NEW c \in Waiters, wait_for_tasks(c)
      PROVE  Pool!Next
  <2>1. /\ c \in Clients /\ pc[c] = "idle" /\ ~closing
        /\ pc' = [pc EXCEPT ![c] = "wait"]
        /\ UNCHANGED <<tasks, task, finished>>
    BY <1>4, WorkersOK DEF wait_for_tasks
  <2> QED
    BY <2>1, RefineWait DEF Pool!Next
<1>5. CASE Destroy
  <2>1. /\ pc[Owner] = "idle" /\ ~closing
        /\ pc' = [pc EXCEPT ![Owner] = "wait"]
        /\ UNCHANGED <<tasks, task, finished>>
    BY <1>5 DEF Destroy
  <2> QED
    BY <2>1, RefineWait, WorkersOK DEF Pool!Next
<1>6. ASSUME NEW c \in Clients, WaitReturns(c)
      PROVE  Pool!Next
  BY <1>6, RefineEndWait DEF Pool!Next
<1>7. CASE destroy_threads
  BY <1>7, RefineClose DEF Pool!Next
<1>8. CASE UNCHANGED vars
  BY <1>8, RefineStutter DEF vars
<1> QED
  BY <1>1, <1>2, <1>3, <1>4, <1>5, <1>6, <1>7, <1>8, RefineHidden
     DEF Next, WorkerStep, ClientStep, OwnerStep, Terminating

(* The pool implements TaskPool for any number of workers, clients and     *)
(* tasks: tasks start in the order they were pushed in, each once, and     *)
(* both a wait and the destructor's go on only in a moment at which        *)
(* nothing is queued and nothing runs.                                     *)
THEOREM PoolImplements == Spec => Implements
<1>1. Spec => []IInv
  BY Invariant
<1> QED
  BY <1>1, RefineInit, RefineNext, PTL DEF Spec, Implements, Pool!Spec
=============================================================================
