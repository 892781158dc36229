CONSTANTS
  h1 = h1
  h2 = h2
  h3 = h3
  build = build
  test = test
  Hash = {h1, h2, h3}
  Time = {0, 1, 2, 3}
  Kind = {build, test}
  NoKind = NoKind
  NoRow = NoRow
  Writer = {w1, w2}
  Catalogs = {"sqlite", "s3"}
  Files = {0, 5}
  Contents <- MCContents
  MaxCalls = 2
  Input <- MCInput
  DayLength = 2
  MaxFaults = 1
  PageSize = 1
  Filters <- MCFilters
  DaysShown = 1
  MaxWalks = 1
  c1 = c1
  c2 = c2
  c3 = c3
  p1 = p1
  p2 = p2
  v1 = v1
  v2 = v2
  v3 = v3
  IP = {c1, c2, c3, p1, p2}
  NotSeen = NotSeen
  Away = Away
  Visitor = {v1, v2, v3}
  Address <- MCAddress
  Proxies <- MCProxies
  Forged <- MCForged
  AllowNets = {}
  Token = 2
  Rate = 1
  Burst = 6
  BucketCap = 1
  BucketIdle = 1
  MaxFails = 2
  LockFor = 2
  MinIdle = 1
  MaxMap = 1
  MaxTime = 4
  MaxRequests = 5
  Tab = {t1, t2}
  Usernames <- MCUsernames
  SessionTTL = 1
  NoCookie = NoCookie
  LoginPage = LoginPage
  Ready = Ready
  MaxHours = 2
  MaxProcesses = 2
  Duration <- MCDuration
  SampleLimit = 3
  MaxObserved = 5
  Job = {j1}
  Tries = 2
  RunDeadline = 1
  Never = Never
  MaxMinutes = 2
  MaxChanges = 3
SPECIFICATION FairServerSpec
INVARIANTS
  TotalsLeadDays WalkShowsAll BarsFillTheFrame
  LimiterForgetsLittle KeysAreAddresses LateFailuresAreFew GateIsBounded
  PercentilesAreRanks
  CleanExitSavesAll OverlapIsBounded
PROPERTIES RowsKeepHistory ReportIsHonest LockHolds ActsFollowLogins FormsOutliveSessions
  ComesUp SignalEndsProcess
CHECK_DEADLOCK FALSE
