SPECIFICATION FairSpec
CONSTANTS
  main = main
  other = other
  thread_count_ = 2
  hardware_concurrency = 0
  Clients <- MCClients
  Owner = main
  Waiters <- MCClients
  MaxTasks = 3
PROPERTIES
  WaitEnds
