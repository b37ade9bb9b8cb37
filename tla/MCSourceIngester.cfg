\* Two processes on one pull request: an import outlives its lease, the ref
\* moves back and forth, the controller supersedes the job, and a process
\* that stalls for ever is one that died.
SPECIFICATION IngestSpec
SYMMETRY Symmetry
CONSTANTS
  None = None
  Radix = 2
  Digits = 0
  TicksPerSecond = 1
  MaxTime = 1
  PRs = {p1}
  Targets = {t1, t2}
  Deliveries = {d1, d2, d3}
  CheckRuns = {}
  Ingesters = {i1}
  ReconcileLease = 1
  SourceLease = 1
  MaxSourceLease = 1
  MaxGen = 3
  MaxStoreLeaseGen = 2
  MaxAttempts = 1
  Processes = {x1, x2}
  MaxMoves = 1
  MaxFaults = 1
  FaultsUntil = 2
INVARIANTS
  PublishedHoldsTarget
  IngestInvariant
PROPERTIES
  StoresAreImmutable
CHECK_DEADLOCK FALSE
