SPECIFICATION Spec
CONSTANTS
  Hash = {h1}
  Client = {c1, c2, c3}
  Run = {}
  Gets = TRUE
  Purges = FALSE
  Backends = {"sqlite", "s3"}
  NoObject = NoObject
  NoEntry = NoEntry
  TTL = 1
  MaxTime = 1
  LastRequest = 1
  MaxUploads = 3
  MaxFaults = 2
  MaxStarts = 2
INVARIANTS
  AckedUploadSurvives
  AckedUploadIsListed
PROPERTIES
  NoOverwrite
\* The model stops at its bounds.
CHECK_DEADLOCK FALSE
