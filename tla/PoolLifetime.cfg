SPECIFICATION LifeFairSpec
CONSTANTS
  Names = {n1, n2}
  Contexts = {c1, c2}
  Threads = {w1}
  None = None
  MaxTasks = 2
INVARIANTS
  ClosuresFindService
  LoopOutlivesTasks
  BookkeepingKept
PROPERTIES
  TaskReportedDespiteEnd
  LoopEnds
CHECK_DEADLOCK FALSE
