SPECIFICATION Spec
CONSTANTS
  Mutator = {m1}
  Poller = {p1}
  Validator = {"etag"}
  Loader = {l1}
  NoPage = NoPage
  MaxApplied = 2
  MaxVersion = 3
  MaxTime = 0
INVARIANTS
  DashboardNeverAhead
