SPECIFICATION FairSpec
CONSTANTS
  Mutator = {m1, m2}
  Poller = {p1}
  Validator = {"etag"}
  Loader = {l1}
  NoPage = NoPage
  MaxApplied = 2
  MaxVersion = 4
  MaxTime = 1
INVARIANTS
  LabelsNeverAhead
  SleepersAreUpToDate
  IInv
PROPERTIES
  AnnouncedIsShown
