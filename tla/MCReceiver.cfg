\* Three connections against two connection slots and one request slot, every
\* kind of request, a restart.
SPECIFICATION ReceiverSpec
SYMMETRY Symmetry
CONSTANTS
  d1 = d1
  b1 = b1
  b2 = b2
  None = None
  Radix = 2
  Digits = 0
  TicksPerSecond = 1
  MaxTime = 1
  Deliveries = {d1}
  Receivers = {r1}
  Bodies = {b1, b2}
  EnqueuedBodies = {b1}
  Owners = {}
  InboxLease = 1
  ClaimLimit = 1
  MaxLeaseGen = 1
  MaxConflicts = 2
  Conns = {c1, c2, c3}
  Requests <- EveryKind
  MaxActiveConnections = 2
  MaxActiveRequests = 1
  ReadTimeout = 1
  IntakeTimeout = 1
  WriteTimeout = 1
  ShutdownTimeout = 1
  MaxRequests = 2
  MaxStarts = 2
INVARIANTS
  AnswersAreTruthful
  ReceiverInvariant
CHECK_DEADLOCK FALSE
