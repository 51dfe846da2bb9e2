SPECIFICATION Spec
CONSTANTS
  Ids = {t1, t2}
  Clients <- AllClients
  MaxDepth = 3
SYMMETRY Symmetry
INVARIANTS
  TypeOK
  ReferencesKept
  LiveIsListed
PROPERTY
  NoSilentEnd
CHECK_DEADLOCK FALSE
