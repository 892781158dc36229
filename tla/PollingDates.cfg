SPECIFICATION Spec
CONSTANTS
  Mutator = {m1}
  Poller = {p1}
  Validator = {"ims"}
  Loader = {}
  NoPage = NoPage
  MaxApplied = 2
  MaxVersion = 3
  MaxTime = 1
INVARIANTS
  SleepersAreUpToDate
