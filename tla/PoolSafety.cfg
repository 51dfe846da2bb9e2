SPECIFICATION Spec
CONSTANTS
  Names = {n1, n2}
  Contexts = {c1, c2, c3}
  Threads = {w1, w2}
  None = None
  MaxTasks = 3
SYMMETRY Symmetry
INVARIANTS
  TypeOK
  CountersConsistent
  HandleNeverDangles
  CompletionFindsEntry
  PoolThreadFindsEntry
  TimeoutTargetsOwnTask
  ResultTellsTruth
  CancelIsHonoured
  StatusSound
PROPERTY
  LifecycleRefined
CHECK_DEADLOCK FALSE
