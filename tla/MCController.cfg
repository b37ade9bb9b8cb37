\* Two processes, every kind of delivery, three changes of one pull request, one fault.
SPECIFICATION Spec
SYMMETRY Symmetry
CONSTANTS
  p1 = p1
  t1 = t1
  t2 = t2
  c1 = c1
  None = None
  Radix = 2
  Digits = 0
  TicksPerSecond = 1
  MaxTime = 3
  Receivers = {r1}
  Deliveries = {d1, d2}
  Bodies <- AllBodies
  EnqueuedBodies <- AllBodies
  Owners = {ctl}
  InboxLease = 2
  ClaimLimit = 1
  MaxLeaseGen = 2
  MaxConflicts = 0
  PRs = {p1}
  Targets = {t1, t2}
  CheckRuns = {c1}
  Ingesters = {}
  ReconcileLease = 2
  SourceLease = 1
  MaxSourceLease = 1
  MaxGen = 3
  MaxStoreLeaseGen = 2
  MaxAttempts = 2
  Workers = {w1, w2}
  ProcessingTimeout = 2
  PollDelay = 1
  MaxVersion = 3
  MaxFaults = 1
  FaultsUntil = 2
  Snapshots <- MCSnapshotsClosing
INVARIANTS
  AcknowledgedHintsReflected
  ControllerInvariant
  ViewMatchesSnapshot
PROPERTIES
  KeepsContract
CHECK_DEADLOCK FALSE
