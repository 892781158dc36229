SPECIFICATION Spec
CONSTANTS
  Hash = {h1}
  Client = {c1, c2}
  Run = {r1}
  Gets = TRUE
  Purges = FALSE
  Backends = {"sqlite", "s3"}
  NoObject = NoObject
  NoEntry = NoEntry
  TTL = 1
  MaxTime = 3
  LastRequest = 3
  MaxUploads = 2
  MaxFaults = 0
  MaxStarts = 1
PROPERTIES
  CleanupSparesFresh
\* The model stops at its bounds.
CHECK_DEADLOCK FALSE
