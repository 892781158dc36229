SPECIFICATION FairSpec
CONSTANTS
  h1 = h1
  h2 = h2
  d1 = d1
  d2 = d2
  k1 = k1
  direct = direct
  Hash = {h1}
  Day = {d1}
  Size = {0}
  Kind = {}
  NoKind = NoKind
  NoEntry = NoEntry
  NoSnapshot = NoSnapshot
  Ticker = ticker
  Closer = closer
  Direct = {direct}
  FlushEvery = TRUE
  MaxOps = 2
  MaxFaults = 2
  MaxStarts = 2
INVARIANTS
  FlushDurable
  CleanIsPersisted
  IInv
PROPERTIES
  NothingForgotten
  ImplementsWriteBehind
  EventuallyPersisted
\* The model stops at its bounds.
CHECK_DEADLOCK FALSE
