\* Three clients against two connection slots and one request slot, every
\* goroutine fair.
SPECIFICATION FairBrokerSpec
CONSTANTS
  Conns = {c1, c2, c3}
  Requests <- EveryRequest
  MaxConcurrentConnections = 2
  MaxRequestsInFlight = 1
INVARIANTS
  BrokerInvariant
PROPERTIES
  ClientIsSettled
CHECK_DEADLOCK FALSE
