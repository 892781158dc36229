SPECIFICATION FairSpec
CONSTANTS
  Hash = {h1}
  Client = {c1}
  Run = {r1}
  Gets = TRUE
  Purges = TRUE
  Backends = {"sqlite", "s3"}
  NoObject = NoObject
  NoEntry = NoEntry
  TTL = 1
  MaxTime = 3
  LastRequest = 1
  MaxUploads = 2
  MaxFaults = 1
  MaxStarts = 1
PROPERTIES
  ExpiredAreDeleted
  GhostsAreForgotten
\* The model stops at its bounds.
CHECK_DEADLOCK FALSE
