CONSTANTS
  u0 = u0
  u1 = u1
  u2 = u2
  h1 = h1
  h2 = h2
  Hash = {h1, h2}
  Upload = {u0, u1, u2}
  Old = {u0}
  Archives <- MCArchives
  Requests <- MCRequests
  Nobody = Nobody
  PageLimit = 1
  MaxRestarts = 1
  Target <- MCTarget
  Words <- MCWords
  MaxPaths = 1
SPECIFICATION Spec

PROPERTIES HeadersWin
CHECK_DEADLOCK FALSE
