------------------------------ MODULE TaskPool -------------------------------
(***************************************************************************)
(* What a thread pool promises its users: tasks start in the order they    *)
(* were pushed in, each once; a wait returns at a moment at which nothing  *)
(* is queued or runs; and the pool closes at such a moment only.           *)
(***************************************************************************)
EXTENDS Naturals, Sequences, FiniteSets

CONSTANTS
  Clients,     \* the threads that use the pool
  MaxTasks     \* bound on the number of tasks

VARIABLES
  queue,       \* the tasks nobody started, oldest first
  active,      \* the tasks that run
  completed,   \* the tasks that returned
  waiters,     \* the clients inside a wait
  open         \* the pool was not closed

vars == <<queue, active, completed, waiters, open>>

TaskIds == 1 .. MaxTasks
Quiet == queue = <<>> /\ active = {}

Init ==
  /\ queue = <<>>
  /\ active = {}
  /\ completed = {}
  /\ waiters = {}
  /\ open = TRUE

(* A task nobody pushed yet is pushed. *)
Push ==
  /\ open
  /\ \E t \in TaskIds \ (active \cup completed) :
       /\ \A i \in 1 .. Len(queue) : queue[i] # t
       /\ queue' = Append(queue, t)
  /\ UNCHANGED <<active, completed, waiters, open>>

Start ==
  /\ open /\ queue # <<>>
  /\ active' = active \cup {Head(queue)}
  /\ queue' = Tail(queue)
  /\ UNCHANGED <<completed, waiters, open>>

Complete(t) ==
  /\ t \in active
  /\ active' = active \ {t}
  /\ completed' = completed \cup {t}
  /\ UNCHANGED <<queue, waiters, open>>

BeginWait(c) ==
  /\ open /\ c \notin waiters
  /\ waiters' = waiters \cup {c}
  /\ UNCHANGED <<queue, active, completed, open>>

EndWait(c) ==
  /\ Quiet /\ c \in waiters
  /\ waiters' = waiters \ {c}
  /\ UNCHANGED <<queue, active, completed, open>>

Close ==
  /\ open /\ Quiet /\ waiters = {}
  /\ open' = FALSE
  /\ UNCHANGED <<queue, active, completed, waiters>>

Next ==
  \/ Push
  \/ Start
  \/ \E t \in TaskIds : Complete(t)
  \/ \E c \in Clients : BeginWait(c) \/ EndWait(c)
  \/ Close

Spec == Init /\ [][Next]_vars

(* Queued tasks get started, tasks return, and a client does not sleep     *)
(* through a quiet pool that stays quiet.                                  *)
FairSpec ==
  /\ Spec
  /\ WF_vars(Start)
  /\ \A t \in TaskIds : WF_vars(Complete(t))
  /\ \A c \in Clients : WF_vars(EndWait(c))
=============================================================================
