SPECIFICATION Spec
CONSTANTS
  thread_count = 3
  Width = 32
  Types = {"signed", "unsigned"}
  Indices <- MCIndices
  BlockCounts = {0, 1, 2, 4, 5}
  LoopArguments = {"lvalue"}
INVARIANTS
  TypeOK
  BlocksTile
  BlocksBalanced
