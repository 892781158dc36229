SPECIFICATION Spec
CONSTANTS
  Hash = {h1}
  Client = {c1}
  Run = {r1}
  Gets = FALSE
  Purges = FALSE
  Backends = {"s3"}
  NoObject = NoObject
  NoEntry = NoEntry
  TTL = 1
  MaxTime = 3
  LastRequest = 3
  MaxUploads = 2
  MaxFaults = 0
  MaxStarts = 1
PROPERTIES
  CleanupHonoursTTL
\* The model stops at its bounds.
CHECK_DEADLOCK FALSE
