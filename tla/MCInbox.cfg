\* Two deliveries, two processes, seconds of two binary digits: leases expire, are taken
\* over, and are presented again after the takeover.
SPECIFICATION InboxSpec
CONSTANTS
  Radix = 2
  Digits = 2
  TicksPerSecond = 4
  MaxTime = 7
  Receivers = {r1, r2}
  Deliveries = {d1, d2}
  Bodies = {pr, ping}
  EnqueuedBodies = {pr}
  Owners = {o1, o2}
  InboxLease = 2
  ClaimLimit = 2
  MaxLeaseGen = 2
  MaxConflicts = 1
  None = None
INVARIANTS
  EnqueuedAtomically
  AckByNewestLease
PROPERTIES
  TakeoverWithinExpirySecond
CHECK_DEADLOCK FALSE
