\* One process, two changes, a crash or a failed call in the first ticks.
SPECIFICATION FairSpec
CONSTANTS
  p1 = p1
  t1 = t1
  t2 = t2
  c1 = c1
  None = None
  Radix = 2
  Digits = 0
  TicksPerSecond = 1
  MaxTime = 5
  Receivers = {r1}
  Deliveries = {d1, d2}
  Bodies <- HintBodies
  EnqueuedBodies <- HintBodies
  Owners = {ctl}
  InboxLease = 2
  ClaimLimit = 1
  MaxLeaseGen = 6
  MaxConflicts = 0
  PRs = {p1}
  Targets = {t1, t2}
  CheckRuns = {}
  Ingesters = {}
  ReconcileLease = 2
  SourceLease = 1
  MaxSourceLease = 1
  MaxGen = 2
  MaxStoreLeaseGen = 3
  MaxAttempts = 1
  Workers = {w1}
  ProcessingTimeout = 2
  PollDelay = 1
  MaxVersion = 2
  MaxFaults = 1
  FaultsUntil = 2
  Snapshots <- MCSnapshots
PROPERTIES
  QueuedIsAcknowledged
CHECK_DEADLOCK FALSE
