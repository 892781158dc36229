SPECIFICATION Spec
CONSTANTS
  h1 = h1
  h2 = h2
  d1 = d1
  d2 = d2
  k1 = k1
  direct = direct
  Hash = {h1, h2}
  Day = {d1, d2}
  Size = {0, 1}
  Kind = {k1}
  NoKind = NoKind
  NoEntry = NoEntry
  NoSnapshot = NoSnapshot
  Ticker = ticker
  Closer = closer
  Direct = {}
  FlushEvery = TRUE
  MaxOps = 3
  MaxFaults = 0
  MaxStarts = 1
SYMMETRY MCSymmetry
INVARIANTS
  TypeOK
  CountersAgree
PROPERTIES
  EntriesKeepHistory
\* The model stops at its bounds.
CHECK_DEADLOCK FALSE
