SPECIFICATION Spec
CONSTANTS
  a = a
  b = b
  c = c
  Ids = {a, b, c}
  None = None
  Forever = Forever
  Timeouts = {1, 2}
  Policies <- SomePolicies
  MaxFires = 2
  maxTimers = 2
  Clients <- AllClients
SYMMETRY Symmetry
INVARIANTS
  TypeOK
  OnlyRunningIsArmed
  RunningIsArmed
  LimitHolds
  GraveyardDisjoint
  EndedIsPending
  LastCallbackKept
  LiveIsListed
PROPERTIES
  OrderlyLifecycle
  RunningCallbackKept
  TimersManaged
