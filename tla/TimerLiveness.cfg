SPECIFICATION FairSpec
CONSTANTS
  a = a
  b = b
  c = c
  Ids = {a, b}
  None = None
  Forever = Forever
  Timeouts = {2}
  Policies <- AllPolicies
  MaxFires = 2
  maxTimers = 2
  Clients <- JustLasting
PROPERTY
  RunningTimerFires
