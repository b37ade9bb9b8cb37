------------------------------- MODULE Broker -------------------------------
(***************************************************************************)
(* The credential broker (internal/githubbroker and                        *)
(* cmd/glassroot-credential-broker): an accept loop that starts a          *)
(* goroutine per connection under a limit on connections (connSem), in     *)
(* which a request is admitted under a second limit (sem), read, turned    *)
(* into an installation token by GitHub and answered; and its shutdown.    *)
(*                                                                         *)
(* Deadlines of a connection and of the call to GitHub may pass at any     *)
(* time: a step that is under one either succeeds or fails.  The client    *)
(* (Client.RequestToken) has a deadline of its own and may be gone when    *)
(* its token comes.                                                        *)
(***************************************************************************)
EXTENDS Naturals, FiniteSets

CONSTANTS
  Conns,                      \* connections clients open, each used once
  Requests,                   \* what a client may send
  MaxConcurrentConnections,   \* Limits.MaxConcurrentConnections
  MaxRequestsInFlight         \* Limits.MaxRequestsInFlight

\* The peer check and the frame and request checks a client passes or not.
Request == [peer : BOOLEAN, valid : BOOLEAN]

ASSUME BrokerAssumption ==
  /\ Requests \subseteq Request
  /\ MaxConcurrentConnections \in Nat \ {0}
  /\ MaxRequestsInFlight \in Nat \ {0}

VARIABLES
  conn,      \* the goroutine of every connection
  client,    \* what the client at the other end knows
  connSem,   \* tokens in Server.connSem
  sem,       \* tokens in Server.sem
  server     \* the accept loop and the main goroutine

brokerVars == <<conn, client, connSem, sem, server>>

InHandler == {"admit", "read", "issue", "write", "leave", "exit"}
Errors == {"connection-limit", "peer-rejected", "request-invalid", "issue-failed"}

BrokerTypeOK ==
  /\ conn \in [Conns -> [pc : InHandler \cup {"none", "backlog", "done"},
                         req : Requests \cup {[peer |-> FALSE, valid |-> FALSE]},
                         holds : BOOLEAN, minted : BOOLEAN]]
  /\ client \in [Conns -> {"none", "waiting", "token", "gave-up", "closed"} \cup Errors]
  /\ connSem \in 0..MaxConcurrentConnections
  /\ sem \in 0..MaxRequestsInFlight
  /\ server \in {"serving", "stopping", "ended", "down"}

NoConn == [pc |-> "none", req |-> [peer |-> FALSE, valid |-> FALSE], holds |-> FALSE,
           minted |-> FALSE]

BrokerInit ==
  /\ conn = [c \in Conns |-> NoConn]
  /\ client = [c \in Conns |-> "none"]
  /\ connSem = 0
  /\ sem = 0
  /\ server = "serving"

-----------------------------------------------------------------------------
(* The client.                                                             *)

Connect(c, q) ==
  /\ server = "serving"
  /\ conn[c].pc = "none"
  /\ conn' = [conn EXCEPT ![c].pc = "backlog", ![c].req = q]
  /\ client' = [client EXCEPT ![c] = "waiting"]
  /\ UNCHANGED <<connSem, sem, server>>

\* The client's deadline passes before an answer comes.
GiveUp(c) ==
  /\ client[c] = "waiting"
  /\ client' = [client EXCEPT ![c] = "gave-up"]
  /\ UNCHANGED <<conn, connSem, sem, server>>

\* What is written to a connection reaches a client that still waits.
Told(c, answer) ==
  client' = [client EXCEPT ![c] = IF @ = "waiting" THEN answer ELSE @]

-----------------------------------------------------------------------------
(* Serve and handle.                                                       *)

ConnSlotFree == connSem < MaxConcurrentConnections

\* Above the limit, the accept loop answers and closes by itself.
AcceptConn(c) ==
  /\ server = "serving"
  /\ conn[c].pc = "backlog"
  /\ \/ /\ ConnSlotFree
        /\ connSem' = connSem + 1
        /\ conn' = [conn EXCEPT ![c].pc = "admit"]
        /\ UNCHANGED client
     \/ /\ ~ConnSlotFree
        /\ conn' = [conn EXCEPT ![c].pc = "done"]
        /\ Told(c, "connection-limit")
        /\ UNCHANGED connSem
  /\ UNCHANGED <<sem, server>>

\* checkPeer, then the limit on requests in flight, which is never waited for.
Admit(c) ==
  /\ conn[c].pc = "admit"
  /\ \/ /\ ~conn[c].req.peer
        /\ conn' = [conn EXCEPT ![c].pc = "leave"]
        /\ Told(c, "peer-rejected")
        /\ UNCHANGED sem
     \/ /\ conn[c].req.peer
        /\ sem = MaxRequestsInFlight
        /\ conn' = [conn EXCEPT ![c].pc = "leave"]
        /\ Told(c, "connection-limit")
        /\ UNCHANGED sem
     \/ /\ conn[c].req.peer
        /\ sem < MaxRequestsInFlight
        /\ sem' = sem + 1
        /\ conn' = [conn EXCEPT ![c].pc = "read", ![c].holds = TRUE]
        /\ UNCHANGED client
  /\ UNCHANGED <<connSem, server>>

\* readFrame and decodeRequestPayload; the frame may also come too late, and
\* then the error is not written either: the deadline covers both.
ReadRequest(c) ==
  /\ conn[c].pc = "read"
  /\ \/ /\ conn[c].req.valid
        /\ conn' = [conn EXCEPT ![c].pc = "issue"]
        /\ UNCHANGED client
     \/ /\ conn' = [conn EXCEPT ![c].pc = "leave"]
        /\ Told(c, "request-invalid") \/ UNCHANGED client
  /\ UNCHANGED <<connSem, sem, server>>

\* IssueInstallationToken (external): GitHub mints a token, or the call fails.
Issue(c) ==
  /\ conn[c].pc = "issue"
  /\ \/ /\ conn' = [conn EXCEPT ![c].pc = "write", ![c].minted = TRUE]
        /\ UNCHANGED client
     \/ /\ conn' = [conn EXCEPT ![c].pc = "leave"]
        /\ Told(c, "issue-failed") \/ UNCHANGED client
  /\ UNCHANGED <<connSem, sem, server>>

\* The token is written, unless the connection's deadline has passed.
WriteToken(c) ==
  /\ conn[c].pc = "write"
  /\ conn' = [conn EXCEPT ![c].pc = "leave"]
  /\ Told(c, "token") \/ UNCHANGED client
  /\ UNCHANGED <<connSem, sem, server>>

Leave_KeepsSlot(c) ==
  /\ conn[c].pc = "leave"
  /\ conn' = [conn EXCEPT ![c].pc = "exit", ![c].holds = FALSE]
  /\ Told(c, "closed")
  /\ UNCHANGED <<connSem, sem, server>>

Leave_KeepsConnection(c) ==
  /\ conn[c].pc = "leave"
  /\ sem' = IF conn[c].holds THEN sem - 1 ELSE sem
  /\ conn' = [conn EXCEPT ![c].pc = "exit", ![c].holds = FALSE]
  /\ UNCHANGED <<client, connSem, server>>

\* The deferred calls of handle: token and lease are cleared, the request slot
\* goes back, the connection is closed.
Leave(c) ==
  /\ conn[c].pc = "leave"
  /\ sem' = IF conn[c].holds THEN sem - 1 ELSE sem
  /\ conn' = [conn EXCEPT ![c].pc = "exit", ![c].holds = FALSE]
  /\ Told(c, "closed")
  /\ UNCHANGED <<connSem, server>>

\* The deferred receive from connSem in the goroutine around handle.
ExitHandler(c) ==
  /\ conn[c].pc = "exit"
  /\ connSem' = connSem - 1
  /\ conn' = [conn EXCEPT ![c].pc = "done"]
  /\ UNCHANGED <<client, sem, server>>

-----------------------------------------------------------------------------
(* Shutdown.                                                               *)

\* A signal, or a failing accept.  The listener is closed; who was not accepted yet is disconnected.
Shutdown ==
  /\ server = "serving"
  /\ server' = "stopping"
  /\ conn' = [c \in Conns |-> IF conn[c].pc = "backlog" THEN [conn[c] EXCEPT !.pc = "done"]
                              ELSE conn[c]]
  /\ client' = [c \in Conns |-> IF conn[c].pc = "backlog" /\ client[c] = "waiting"
                                THEN "closed" ELSE client[c]]
  /\ UNCHANGED <<connSem, sem>>

\* The accept loop returns and closes done, which is all that Shutdown waits for.
ServeEnds ==
  /\ server = "stopping"
  /\ server' = "ended"
  /\ UNCHANGED <<conn, client, connSem, sem>>

\* serve returns: the process ends with every goroutine it still has.
Exit ==
  /\ server = "ended"
  /\ server' = "down"
  /\ conn' = [c \in Conns |-> [NoConn EXCEPT !.pc = "done", !.req = conn[c].req,
                                             !.minted = conn[c].minted]]
  /\ client' = [c \in Conns |-> IF client[c] = "waiting" THEN "closed" ELSE client[c]]
  /\ connSem' = 0
  /\ sem' = 0

-----------------------------------------------------------------------------
HandlerStep(c) ==
  Admit(c) \/ ReadRequest(c) \/ Issue(c) \/ WriteToken(c) \/ Leave(c) \/ ExitHandler(c)

BrokerNext ==
  \/ \E c \in Conns, q \in Requests : Connect(c, q)
  \/ \E c \in Conns : GiveUp(c) \/ AcceptConn(c) \/ HandlerStep(c)
  \/ Shutdown \/ ServeEnds \/ Exit

BrokerSpec == BrokerInit /\ [][BrokerNext]_brokerVars

\* Goroutines run; every wait of theirs is under a deadline.
FairBrokerSpec ==
  /\ BrokerSpec
  /\ \A c \in Conns : WF_brokerVars(HandlerStep(c)) /\ WF_brokerVars(AcceptConn(c))
  /\ WF_brokerVars(ServeEnds \/ Exit)

-----------------------------------------------------------------------------
(* Properties.                                                             *)

\* Every goroutine of a connection has exactly one token of connSem, and every
\* request between admission and the deferred calls one of sem: on no path
\* through handle does a token leak or go back twice.
SlotsMatch ==
  /\ connSem = Cardinality({c \in Conns : conn[c].pc \in InHandler})
  /\ sem = Cardinality({c \in Conns : conn[c].holds})
  /\ \A c \in Conns : conn[c].pc \in {"read", "issue", "write"} => conn[c].holds

\* A token is asked of GitHub only for a peer that was accepted and a request
\* that was valid, and only such a client is ever told a token, even when it
\* gave up and another connection took its slot.
OnlyValidRequestsMint ==
  \A c \in Conns :
    /\ conn[c].minted => conn[c].req.peer /\ conn[c].req.valid
    /\ client[c] = "token" => conn[c].minted

\* The safety of the broker: slots are accounted for, tokens are earned.
BrokerInvariant == BrokerTypeOK /\ SlotsMatch /\ OnlyValidRequestsMint

\* Every client that connects is answered or disconnected: a connection ends
\* whatever its client does, so slots are available again.
ClientIsSettled ==
  \A c \in Conns : client[c] = "waiting" ~> client[c] # "waiting"
=============================================================================
