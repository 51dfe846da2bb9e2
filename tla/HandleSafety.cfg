SPECIFICATION FairSpec
CONSTANTS
  Objects = {o1, o2, o3}
  Cells = {c1, c2, c3}
  None = None
INVARIANTS
  TypeOK
  OwnerSound
  CallbackFindsOwner
  NothingLeaks
  LoopCleansUp
PROPERTY
  ClosingEnds
CHECK_DEADLOCK FALSE
