SPECIFICATION Spec
CONSTANTS
  a = a
  b = b
  c = c
  Ids = {a, b}
  None = None
  Forever = Forever
  Timeouts = {1, 2}
  Policies <- AllPolicies
  MaxFires = 2
  maxTimers = 1
  Clients <- JustQuiet
SYMMETRY Symmetry
PROPERTY
  LifecycleOrdered
