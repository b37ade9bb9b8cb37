\* Three deliveries on one pull request, every lease kept and presented again.
SPECIFICATION StoreSpec
CONSTANTS
  Radix = 2
  Digits = 0
  TicksPerSecond = 1
  MaxTime = 1
  PRs = {p1}
  Targets = {t1, t2}
  Deliveries = {d1, d2, d3}
  CheckRuns = {c1}
  Ingesters = {i1}
  ReconcileLease = 1
  SourceLease = 1
  MaxSourceLease = 1
  MaxGen = 3
  MaxStoreLeaseGen = 2
  MaxAttempts = 2
  None = None
SYMMETRY Symmetry
INVARIANTS
  CurrentJobMatches
  LiveWorkIsCurrent
  SourceDrivesJob
PROPERTIES
  StoppedStaysStopped
  EffectOncePerDelivery
CHECK_DEADLOCK FALSE
