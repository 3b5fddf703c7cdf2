SPECIFICATION FairSpec
CONSTANTS
  main = main
  other = other
  thread_count_ = 0
  hardware_concurrency = 3
  Clients <- MCClients
  Owner = main
  Waiters = {main}
  MaxTasks = 3
INVARIANTS
  TypeOK
  TasksAccounted
  NoLostWakeup
  WaiterHasReason
  DestroyedWhenDone
PROPERTIES
  Implements
  Progress
  DestructorReturns
