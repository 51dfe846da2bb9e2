SPECIFICATION Spec
CONSTANTS
  Names = {n1, n2}
  Contexts = {c1, c2}
  Threads = {w1}
  None = None
  MaxTasks = 2
INVARIANT
  TimedOutTaskIsCancelled
CHECK_DEADLOCK FALSE
