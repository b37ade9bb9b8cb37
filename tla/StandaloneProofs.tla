-------------------------- MODULE StandaloneProofs --------------------------
(***************************************************************************)
(* The safety of the two programs that use none of the stores: the         *)
(* credential broker and the local run.                                    *)
(***************************************************************************)
EXTENDS Broker, LocalRun, FiniteSetTheorems, TLAPS

-----------------------------------------------------------------------------
(* The safety of Broker, for any set of connections, also an infinite one, *)
(* and any limits.                                                         *)
(*                                                                         *)
(* SlotsMatch counts goroutines and OnlyValidRequestsMint looks back from  *)
(* a token; neither is inductive.  BrokerIInv adds that the goroutines     *)
(* counted are finitely many, which phases of handle hold a request slot   *)
(* (so Admit takes one that is not held yet and Leave returns one that     *)
(* is), and what the phases behind the checks know about the request.      *)

Handling == {c \in Conns : conn[c].pc \in InHandler}
Holding == {c \in Conns : conn[c].holds}

\* What is counted is finite, although nothing bounds the connections.
FinitelyManyHandled == IsFiniteSet(Handling) /\ IsFiniteSet(Holding)

\* A request slot is held from admission to the deferred calls, and nowhere else.
HoldsWhileAdmitted ==
  \A c \in Conns : conn[c].holds => conn[c].pc \in {"read", "issue", "write", "leave"}

\* The phases of handle are behind the checks they follow, and a token is minted in the
\* last of them only.
PhasesFollowChecks ==
  \A c \in Conns :
    /\ conn[c].pc \in {"read", "issue"} => conn[c].req.peer
    /\ conn[c].pc = "issue" => conn[c].req.valid
    /\ conn[c].pc = "write" => conn[c].minted
    /\ conn[c].pc \in {"none", "backlog", "admit", "read", "issue"} => ~conn[c].minted

BrokerIInv ==
  /\ BrokerInvariant
  /\ FinitelyManyHandled
  /\ HoldsWhileAdmitted
  /\ PhasesFollowChecks

ConnRecord ==
  [pc : InHandler \cup {"none", "backlog", "done"},
   req : Requests \cup {[peer |-> FALSE, valid |-> FALSE]}, holds : BOOLEAN, minted : BOOLEAN]

\* SlotsMatch in terms of the two sets.
LEMMA SlotsAreCounted ==
  SlotsMatch <=> /\ connSem = Cardinality(Handling)
                 /\ sem = Cardinality(Holding)
                 /\ \A c \in Conns : conn[c].pc \in {"read", "issue", "write"} => conn[c].holds
BY DEF SlotsMatch, Handling, Holding

LEMMA BrokerInitInv == BrokerInit => BrokerIInv
<1> SUFFICES ASSUME BrokerInit PROVE BrokerIInv
  OBVIOUS
<1> USE DEF BrokerInit, NoConn, InHandler
<1>1. BrokerTypeOK
  BY BrokerAssumption DEF BrokerTypeOK
<1>2. Handling = {} /\ Holding = {}
  BY DEF Handling, Holding
<1>3. SlotsMatch /\ FinitelyManyHandled
  BY <1>2, FS_EmptySet, SlotsAreCounted DEF FinitelyManyHandled
<1>4. OnlyValidRequestsMint /\ HoldsWhileAdmitted /\ PhasesFollowChecks
  BY DEF OnlyValidRequestsMint, HoldsWhileAdmitted, PhasesFollowChecks
<1> QED
  BY <1>1, <1>3, <1>4 DEF BrokerIInv, BrokerInvariant

-----------------------------------------------------------------------------
(* A step of one connection changes the counted sets by at most itself.    *)

\* The goroutine that enters or leaves accounts for exactly one token of each semaphore.
LEMMA SlotsAfterOne ==
  ASSUME BrokerIInv, NEW c \in Conns, conn' \in [Conns -> ConnRecord],
         \A e \in Conns : e # c => conn'[e] = conn[e],
         connSem' = IF conn[c].pc \in InHandler
                    THEN IF conn'[c].pc \in InHandler THEN connSem ELSE connSem - 1
                    ELSE IF conn'[c].pc \in InHandler THEN connSem + 1 ELSE connSem,
         sem' = IF conn[c].holds THEN IF conn'[c].holds THEN sem ELSE sem - 1
                ELSE IF conn'[c].holds THEN sem + 1 ELSE sem,
         conn'[c].pc \in {"read", "issue", "write"} => conn'[c].holds
  PROVE  SlotsMatch' /\ FinitelyManyHandled' /\ connSem' \in Nat /\ sem' \in Nat
<1> USE DEF BrokerIInv, BrokerInvariant
<1>1. Handling' = IF conn'[c].pc \in InHandler THEN Handling \cup {c} ELSE Handling \ {c}
  BY DEF Handling
<1>2. c \in Handling <=> conn[c].pc \in InHandler
  BY DEF Handling
<1>3. IsFiniteSet(Handling') /\ connSem' = Cardinality(Handling')
  <2>1. IsFiniteSet(Handling) /\ connSem = Cardinality(Handling) /\ Cardinality(Handling) \in Nat
    BY FS_CardinalityType, SlotsAreCounted DEF FinitelyManyHandled
  <2>2. CASE conn'[c].pc \in InHandler
    BY <1>1, <1>2, <2>1, <2>2, FS_AddElement
  <2>3. CASE conn'[c].pc \notin InHandler
    BY <1>1, <1>2, <2>1, <2>3, FS_RemoveElement
  <2> QED
    BY <2>2, <2>3
<1>4. Holding' = IF conn'[c].holds THEN Holding \cup {c} ELSE Holding \ {c}
  BY DEF Holding
<1>5. c \in Holding <=> conn[c].holds
  BY DEF Holding
<1>6. IsFiniteSet(Holding') /\ sem' = Cardinality(Holding')
  <2>1. IsFiniteSet(Holding) /\ sem = Cardinality(Holding) /\ Cardinality(Holding) \in Nat
    BY FS_CardinalityType, SlotsAreCounted DEF FinitelyManyHandled
  <2>2. CASE conn'[c].holds
    BY <1>4, <1>5, <2>1, <2>2, FS_AddElement
  <2>3. CASE ~conn'[c].holds
    BY <1>4, <1>5, <2>1, <2>3, FS_RemoveElement
  <2> QED
    BY <2>2, <2>3
<1>7. \A e \in Conns : conn'[e].pc \in {"read", "issue", "write"} => conn'[e].holds
  BY DEF SlotsMatch
<1>8. SlotsMatch'
  BY <1>3, <1>6, <1>7 DEF SlotsMatch, Handling, Holding
<1> QED
  BY <1>3, <1>6, <1>8, FS_CardinalityType DEF FinitelyManyHandled

\* What a goroutine must keep true of its own connection.
LocalInv(n, told) ==
  /\ n.pc \in {"read", "issue", "write"} => n.holds
  /\ n.holds => n.pc \in {"read", "issue", "write", "leave"}
  /\ n.pc \in {"read", "issue"} => n.req.peer
  /\ n.pc = "issue" => n.req.valid
  /\ n.pc = "write" => n.minted
  /\ n.pc \in {"none", "backlog", "admit", "read", "issue"} => ~n.minted
  /\ n.minted => n.req.peer /\ n.req.valid
  /\ told = "token" => n.minted

ClientStates == {"none", "waiting", "token", "gave-up", "closed"} \cup Errors

\* The invariant, one connection at a time.
LEMMA LocallyInvariant ==
  ASSUME BrokerTypeOK
  PROVE  /\ BrokerIInv => \A c \in Conns : LocalInv(conn[c], client[c])
         /\ (\A c \in Conns : LocalInv(conn[c], client[c]))
              => HoldsWhileAdmitted /\ PhasesFollowChecks /\ OnlyValidRequestsMint
BY DEF BrokerIInv, BrokerInvariant, LocalInv, SlotsMatch, HoldsWhileAdmitted, PhasesFollowChecks,
       OnlyValidRequestsMint

\* A step that replaces one connection's record by n.
LEMMA OneConnection ==
  ASSUME BrokerIInv, NEW c \in Conns, NEW n \in ConnRecord, NEW told \in ClientStates,
         conn' = [conn EXCEPT ![c] = n], client' = [client EXCEPT ![c] = told], server' = server,
         connSem' = IF conn[c].pc \in InHandler
                    THEN IF n.pc \in InHandler THEN connSem ELSE connSem - 1
                    ELSE IF n.pc \in InHandler THEN connSem + 1 ELSE connSem,
         sem' = IF conn[c].holds THEN IF n.holds THEN sem ELSE sem - 1
                ELSE IF n.holds THEN sem + 1 ELSE sem,
         connSem' <= MaxConcurrentConnections, sem' <= MaxRequestsInFlight,
         LocalInv(n, told)
  PROVE  BrokerIInv'
<1> USE DEF BrokerIInv, BrokerInvariant
<1>1. /\ conn' \in [Conns -> ConnRecord] /\ conn'[c] = n
      /\ \A e \in Conns : e # c => conn'[e] = conn[e]
  BY DEF BrokerTypeOK, ConnRecord
<1>2. /\ client' \in [Conns -> ClientStates] /\ client'[c] = told
      /\ \A e \in Conns : e # c => client'[e] = client[e]
  BY DEF BrokerTypeOK, ClientStates
<1>3. SlotsMatch' /\ FinitelyManyHandled' /\ connSem' \in Nat /\ sem' \in Nat
  BY <1>1, SlotsAfterOne DEF LocalInv
<1>4. BrokerTypeOK'
  BY <1>1, <1>2, <1>3, BrokerAssumption DEF BrokerTypeOK, ConnRecord, ClientStates
<1>5. \A e \in Conns : LocalInv(conn'[e], client'[e])
  BY <1>1, <1>2, LocallyInvariant
<1>6. HoldsWhileAdmitted' /\ PhasesFollowChecks' /\ OnlyValidRequestsMint'
  BY <1>5 DEF LocalInv, HoldsWhileAdmitted, PhasesFollowChecks, OnlyValidRequestsMint
<1> QED
  BY <1>3, <1>4, <1>6

-----------------------------------------------------------------------------
(* One lemma per group of operations.                                      *)

LEMMA ConnFacts ==
  ASSUME BrokerIInv, NEW c \in Conns
  PROVE  /\ conn[c] \in ConnRecord /\ client[c] \in ClientStates
         /\ LocalInv(conn[c], client[c])
         /\ connSem \in 0..MaxConcurrentConnections /\ sem \in 0..MaxRequestsInFlight
BY LocallyInvariant DEF BrokerIInv, BrokerInvariant, BrokerTypeOK, ConnRecord, ClientStates

\* The client: connects, gives up.
LEMMA ConnectInv ==
  ASSUME BrokerIInv, NEW c \in Conns, NEW q \in Requests, Connect(c, q)
  PROVE  BrokerIInv'
<1> DEFINE n == [conn[c] EXCEPT !.pc = "backlog", !.req = q]
<1> USE ConnFacts, BrokerAssumption
<1>1. conn' = [conn EXCEPT ![c] = n] /\ client' = [client EXCEPT ![c] = "waiting"]
  BY DEF Connect, BrokerIInv, BrokerInvariant, BrokerTypeOK
<1>2. /\ n \in ConnRecord /\ "waiting" \in ClientStates
      /\ n.pc = "backlog" /\ n.req = q /\ n.holds = conn[c].holds /\ n.minted = conn[c].minted
  BY DEF ConnRecord, ClientStates
<1>3. conn[c].pc = "none" /\ UNCHANGED <<connSem, sem, server>>
  BY DEF Connect
<1>4. LocalInv(n, "waiting")
  BY <1>2, <1>3 DEF LocalInv
<1>5. conn[c].pc \notin InHandler /\ n.pc \notin InHandler /\ ~conn[c].holds /\ ~n.holds
  BY <1>2, <1>3 DEF InHandler, LocalInv
<1>6. connSem <= MaxConcurrentConnections /\ sem <= MaxRequestsInFlight
  OBVIOUS
<1> HIDE DEF n
<1> QED
  BY <1>1, <1>2, <1>3, <1>4, <1>5, <1>6, OneConnection

LEMMA GiveUpInv == ASSUME BrokerIInv, NEW c \in Conns, GiveUp(c) PROVE BrokerIInv'
<1>1. /\ conn' = [conn EXCEPT ![c] = conn[c]] /\ client' = [client EXCEPT ![c] = "gave-up"]
      /\ UNCHANGED <<connSem, sem, server>>
  BY DEF GiveUp, BrokerIInv, BrokerInvariant, BrokerTypeOK
<1>2. conn[c] \in ConnRecord /\ "gave-up" \in ClientStates /\ LocalInv(conn[c], "gave-up")
  BY ConnFacts DEF LocalInv, ClientStates
<1>3. connSem <= MaxConcurrentConnections /\ sem <= MaxRequestsInFlight
  BY ConnFacts, BrokerAssumption
<1> QED
  BY <1>1, <1>2, <1>3, OneConnection

\* What a client that may still wait is told.
ToldOf(c, reply) == IF client[c] = "waiting" THEN reply ELSE client[c]

LEMMA ToldFacts ==
  ASSUME BrokerIInv, NEW c \in Conns, NEW reply \in ClientStates, Told(c, reply)
  PROVE  client' = [client EXCEPT ![c] = ToldOf(c, reply)] /\ ToldOf(c, reply) \in ClientStates
BY ConnFacts DEF Told, ToldOf, BrokerIInv, BrokerInvariant, BrokerTypeOK

LEMMA UntoldFacts ==
  ASSUME BrokerIInv, NEW c \in Conns, UNCHANGED client
  PROVE  client' = [client EXCEPT ![c] = client[c]] /\ client[c] \in ClientStates
BY ConnFacts DEF BrokerIInv, BrokerInvariant, BrokerTypeOK

\* The accept loop takes a slot for a connection, or turns it away.
LEMMA AcceptConnInv == ASSUME BrokerIInv, NEW c \in Conns, AcceptConn(c) PROVE BrokerIInv'
<1> USE ConnFacts, BrokerAssumption
<1>1. conn[c].pc = "backlog" /\ conn[c].pc \notin InHandler /\ ~conn[c].holds /\ ~conn[c].minted
  BY DEF AcceptConn, InHandler, LocalInv
<1>2. UNCHANGED <<sem, server>> /\ sem <= MaxRequestsInFlight /\ connSem <= MaxConcurrentConnections
  BY DEF AcceptConn
<1>3. CASE ConnSlotFree /\ connSem' = connSem + 1 /\ conn' = [conn EXCEPT ![c].pc = "admit"] /\ UNCHANGED client
  <2> DEFINE n == [conn[c] EXCEPT !.pc = "admit"]
  <2>1. conn' = [conn EXCEPT ![c] = n]
    BY <1>3 DEF BrokerIInv, BrokerInvariant, BrokerTypeOK
  <2>2. n \in ConnRecord /\ n.pc = "admit" /\ n.req = conn[c].req /\ ~n.holds /\ ~n.minted
    BY <1>1 DEF ConnRecord, InHandler
  <2>3. LocalInv(n, client[c]) /\ n.pc \in InHandler
    BY <1>1, <2>2 DEF LocalInv, InHandler
  <2>4. connSem' <= MaxConcurrentConnections
    BY <1>3 DEF ConnSlotFree
  <2> HIDE DEF n
  <2> QED
    BY <1>1, <1>2, <1>3, <2>1, <2>2, <2>3, <2>4, UntoldFacts, OneConnection
<1>4. CASE /\ conn' = [conn EXCEPT ![c].pc = "done"] /\ Told(c, "connection-limit") /\ UNCHANGED connSem
  <2> DEFINE n == [conn[c] EXCEPT !.pc = "done"]
             told == ToldOf(c, "connection-limit")
  <2>1. conn' = [conn EXCEPT ![c] = n]
    BY <1>4 DEF BrokerIInv, BrokerInvariant, BrokerTypeOK
  <2>2. n \in ConnRecord /\ n.pc = "done" /\ ~n.holds /\ ~n.minted
    BY <1>1 DEF ConnRecord, InHandler
  <2>3. client' = [client EXCEPT ![c] = told] /\ told \in ClientStates
    BY <1>4, ToldFacts DEF ClientStates, Errors
  <2>4. LocalInv(n, told) /\ n.pc \notin InHandler
    BY <1>1, <2>2 DEF LocalInv, InHandler, ToldOf
  <2> HIDE DEF n, told
  <2> QED
    BY <1>1, <1>2, <1>4, <2>1, <2>2, <2>3, <2>4, OneConnection
<1> QED
  BY <1>3, <1>4 DEF AcceptConn

\* A step of handle that only goes on to another phase and may tell the client something.
LEMMA PhaseStep ==
  ASSUME BrokerIInv, NEW c \in Conns, NEW p \in InHandler, NEW told \in ClientStates,
         conn[c].pc \in InHandler, conn' = [conn EXCEPT ![c].pc = p],
         client' = [client EXCEPT ![c] = told], UNCHANGED <<connSem, sem, server>>,
         LocalInv([conn[c] EXCEPT !.pc = p], told)
  PROVE  BrokerIInv'
<1> DEFINE n == [conn[c] EXCEPT !.pc = p]
<1>1. conn' = [conn EXCEPT ![c] = n]
  BY DEF BrokerIInv, BrokerInvariant, BrokerTypeOK
<1>2. n \in ConnRecord /\ n.pc = p /\ n.holds = conn[c].holds
  BY ConnFacts DEF ConnRecord
<1>3. connSem <= MaxConcurrentConnections /\ sem <= MaxRequestsInFlight
  BY ConnFacts, BrokerAssumption
<1> HIDE DEF n
<1>4. sem' = IF conn[c].holds THEN IF n.holds THEN sem ELSE sem - 1
             ELSE IF n.holds THEN sem + 1 ELSE sem
  BY <1>2
<1>5. LocalInv(n, told)
  BY DEF n
<1> QED
  BY <1>1, <1>2, <1>3, <1>4, <1>5, OneConnection

\* Going to the deferred calls is always possible: nothing is promised there.
LEMMA LeavingIsFine ==
  ASSUME BrokerIInv, NEW c \in Conns, NEW reply, reply # "token" \/ conn[c].minted,
         conn[c].pc \in {"admit", "read", "issue", "write"}
  PROVE  /\ LocalInv([conn[c] EXCEPT !.pc = "leave"], ToldOf(c, reply))
         /\ LocalInv([conn[c] EXCEPT !.pc = "leave"], client[c])
<1> DEFINE n == [conn[c] EXCEPT !.pc = "leave"]
<1>1. n.pc = "leave" /\ n.req = conn[c].req /\ n.holds = conn[c].holds /\ n.minted = conn[c].minted
  BY ConnFacts DEF ConnRecord
<1> HIDE DEF n
<1>2. LocalInv(n, ToldOf(c, reply)) /\ LocalInv(n, client[c])
  BY <1>1, ConnFacts DEF LocalInv, ToldOf
<1> QED
  BY <1>2 DEF n

\* A phase that ends with a reply, which may not reach the client.
LEMMA LeaveStep ==
  ASSUME BrokerIInv, NEW c \in Conns, NEW reply \in ClientStates, reply # "token" \/ conn[c].minted,
         conn[c].pc \in {"admit", "read", "issue", "write"},
         conn' = [conn EXCEPT ![c].pc = "leave"], Told(c, reply) \/ UNCHANGED client,
         UNCHANGED <<connSem, sem, server>>
  PROVE  BrokerIInv'
<1>1. conn[c].pc \in InHandler /\ "leave" \in InHandler
  BY DEF InHandler
<1>2. CASE Told(c, reply)
  BY <1>1, <1>2, LeavingIsFine, ToldFacts, PhaseStep
<1>3. CASE UNCHANGED client
  BY <1>1, <1>3, LeavingIsFine, UntoldFacts, PhaseStep
<1> QED
  BY <1>2, <1>3

\* checkPeer and the limit on requests in flight.
LEMMA AdmitInv == ASSUME BrokerIInv, NEW c \in Conns, Admit(c) PROVE BrokerIInv'
<1> USE ConnFacts, BrokerAssumption
<1>1. conn[c].pc = "admit" /\ conn[c].pc \in InHandler /\ ~conn[c].holds /\ ~conn[c].minted
  BY DEF Admit, InHandler, LocalInv
<1>2. UNCHANGED <<connSem, server>> /\ connSem <= MaxConcurrentConnections
  BY DEF Admit
<1>3. CASE /\ conn' = [conn EXCEPT ![c].pc = "leave"] /\ UNCHANGED sem
           /\ Told(c, "peer-rejected") \/ Told(c, "connection-limit")
  <2>1. "peer-rejected" \in ClientStates /\ "connection-limit" \in ClientStates
    BY DEF ClientStates, Errors
  <2> QED
    BY <1>1, <1>2, <1>3, <2>1, LeaveStep
<1>4. CASE /\ conn[c].req.peer /\ sem < MaxRequestsInFlight /\ sem' = sem + 1 /\ UNCHANGED client
           /\ conn' = [conn EXCEPT ![c].pc = "read", ![c].holds = TRUE]
  <2> DEFINE n == [conn[c] EXCEPT !.pc = "read", !.holds = TRUE]
  <2>1. conn' = [conn EXCEPT ![c] = n]
    BY <1>4 DEF BrokerIInv, BrokerInvariant, BrokerTypeOK
  <2>2. n \in ConnRecord /\ n.pc = "read" /\ n.req = conn[c].req /\ n.holds /\ ~n.minted
    BY <1>1 DEF ConnRecord, InHandler
  <2>3. LocalInv(n, client[c]) /\ n.pc \in InHandler
    BY <1>1, <1>4, <2>2 DEF LocalInv, InHandler
  <2>4. sem' <= MaxRequestsInFlight
    BY <1>4
  <2> HIDE DEF n
  <2> QED
    BY <1>1, <1>2, <1>4, <2>1, <2>2, <2>3, <2>4, UntoldFacts, OneConnection
<1> QED
  BY <1>3, <1>4 DEF Admit

\* The request is read and checked.
LEMMA ReadRequestInv == ASSUME BrokerIInv, NEW c \in Conns, ReadRequest(c) PROVE BrokerIInv'
<1>1. conn[c].pc = "read" /\ conn[c].pc \in InHandler /\ "issue" \in InHandler
  BY DEF ReadRequest, InHandler
<1>2. UNCHANGED <<connSem, sem, server>>
  BY DEF ReadRequest
<1>3. CASE conn[c].req.valid /\ conn' = [conn EXCEPT ![c].pc = "issue"] /\ UNCHANGED client
  <2> DEFINE n == [conn[c] EXCEPT !.pc = "issue"]
  <2>1. n.pc = "issue" /\ n.req = conn[c].req /\ n.holds = conn[c].holds /\ n.minted = conn[c].minted
    BY ConnFacts DEF ConnRecord
  <2> HIDE DEF n
  <2>2. LocalInv(n, client[c])
    BY <1>1, <1>3, <2>1, ConnFacts DEF LocalInv
  <2> QED
    BY <1>1, <1>2, <1>3, <2>2, UntoldFacts, PhaseStep DEF n
<1>4. CASE conn' = [conn EXCEPT ![c].pc = "leave"] /\ (Told(c, "request-invalid") \/ UNCHANGED client)
  <2>1. "request-invalid" \in ClientStates
    BY DEF ClientStates, Errors
  <2> QED
    BY <1>1, <1>2, <1>4, <2>1, LeaveStep
<1> QED
  BY <1>3, <1>4 DEF ReadRequest

\* GitHub mints a token, or the call fails.
LEMMA IssueInv == ASSUME BrokerIInv, NEW c \in Conns, Issue(c) PROVE BrokerIInv'
<1> USE ConnFacts, BrokerAssumption
<1>1. conn[c].pc = "issue" /\ conn[c].pc \in InHandler /\ conn[c].holds
  BY DEF Issue, InHandler, LocalInv
<1>2. /\ UNCHANGED <<connSem, sem, server>>
      /\ sem <= MaxRequestsInFlight /\ connSem <= MaxConcurrentConnections
  BY DEF Issue
<1>3. CASE conn' = [conn EXCEPT ![c].pc = "write", ![c].minted = TRUE] /\ UNCHANGED client
  <2> DEFINE n == [conn[c] EXCEPT !.pc = "write", !.minted = TRUE]
  <2>1. conn' = [conn EXCEPT ![c] = n]
    BY <1>3 DEF BrokerIInv, BrokerInvariant, BrokerTypeOK
  <2>2. n \in ConnRecord /\ n.pc = "write" /\ n.req = conn[c].req /\ n.holds /\ n.minted
    BY <1>1 DEF ConnRecord, InHandler
  <2>3. LocalInv(n, client[c]) /\ n.pc \in InHandler
    BY <1>1, <2>2 DEF LocalInv, InHandler
  <2> HIDE DEF n
  <2> QED
    BY <1>1, <1>2, <1>3, <2>1, <2>2, <2>3, UntoldFacts, OneConnection
<1>4. CASE conn' = [conn EXCEPT ![c].pc = "leave"] /\ (Told(c, "issue-failed") \/ UNCHANGED client)
  <2>1. "issue-failed" \in ClientStates
    BY DEF ClientStates, Errors
  <2> QED
    BY <1>1, <1>2, <1>4, <2>1, LeaveStep
<1> QED
  BY <1>3, <1>4 DEF Issue

LEMMA WriteTokenInv == ASSUME BrokerIInv, NEW c \in Conns, WriteToken(c) PROVE BrokerIInv'
<1>1. conn[c].pc = "write" /\ conn[c].minted /\ "token" \in ClientStates
  BY ConnFacts DEF WriteToken, LocalInv, ClientStates
<1> QED
  BY <1>1, LeaveStep DEF WriteToken

\* The deferred calls: the request slot goes back, then the connection slot.
LEMMA LeaveInv == ASSUME BrokerIInv, NEW c \in Conns, Leave(c) PROVE BrokerIInv'
<1> USE ConnFacts, BrokerAssumption
<1> DEFINE n == [conn[c] EXCEPT !.pc = "exit", !.holds = FALSE]
           told == ToldOf(c, "closed")
<1>1. conn[c].pc = "leave" /\ conn[c].pc \in InHandler
  BY DEF Leave, InHandler
<1>2. conn' = [conn EXCEPT ![c] = n]
  BY DEF Leave, BrokerIInv, BrokerInvariant, BrokerTypeOK
<1>3. /\ n \in ConnRecord /\ n.pc = "exit" /\ n.pc \in InHandler /\ ~n.holds
      /\ n.req = conn[c].req /\ n.minted = conn[c].minted
  BY DEF ConnRecord, InHandler
<1>4. client' = [client EXCEPT ![c] = told] /\ told \in ClientStates
  BY ToldFacts DEF Leave, ClientStates
<1> HIDE DEF n
<1>5. LocalInv(n, told)
  BY <1>1, <1>3 DEF LocalInv, ToldOf
<1>6. /\ UNCHANGED <<connSem, server>> /\ connSem <= MaxConcurrentConnections
      /\ sem' = IF conn[c].holds THEN sem - 1 ELSE sem
      /\ sem' <= MaxRequestsInFlight
  BY DEF Leave
<1> HIDE DEF told
<1> QED
  BY <1>1, <1>2, <1>3, <1>4, <1>5, <1>6, OneConnection

LEMMA ExitHandlerInv == ASSUME BrokerIInv, NEW c \in Conns, ExitHandler(c) PROVE BrokerIInv'
<1> USE ConnFacts, BrokerAssumption
<1> DEFINE n == [conn[c] EXCEPT !.pc = "done"]
<1>1. conn[c].pc = "exit" /\ conn[c].pc \in InHandler /\ ~conn[c].holds
  BY DEF ExitHandler, InHandler, LocalInv
<1>2. conn' = [conn EXCEPT ![c] = n]
  BY DEF ExitHandler, BrokerIInv, BrokerInvariant, BrokerTypeOK
<1>3. /\ n \in ConnRecord /\ n.pc = "done" /\ n.pc \notin InHandler /\ ~n.holds
      /\ n.req = conn[c].req /\ n.minted = conn[c].minted
  BY <1>1 DEF ConnRecord, InHandler
<1> HIDE DEF n
<1>4. LocalInv(n, client[c])
  BY <1>1, <1>3 DEF LocalInv
<1>5. /\ UNCHANGED <<client, sem, server>> /\ sem <= MaxRequestsInFlight
      /\ connSem' = connSem - 1 /\ connSem' <= MaxConcurrentConnections
  BY DEF ExitHandler
<1> QED
  BY <1>1, <1>2, <1>3, <1>4, <1>5, UntoldFacts, OneConnection

\* Shutdown drops the backlog, which holds no slot.
LEMMA ShutdownInv == BrokerIInv /\ Shutdown => BrokerIInv'
<1> SUFFICES ASSUME BrokerIInv, Shutdown PROVE BrokerIInv'
  OBVIOUS
<1> USE DEF BrokerIInv, BrokerInvariant
<1>1. \A c \in Conns : /\ conn'[c] = IF conn[c].pc = "backlog" THEN [conn[c] EXCEPT !.pc = "done"] ELSE conn[c]
                       /\ client'[c] = IF conn[c].pc = "backlog" /\ client[c] = "waiting"
                                       THEN "closed" ELSE client[c]
  BY DEF Shutdown
<1>2. \A c \in Conns : conn[c] \in ConnRecord /\ client[c] \in ClientStates /\ LocalInv(conn[c], client[c])
  BY ConnFacts
<1>3. \A c \in Conns : /\ conn'[c] \in ConnRecord /\ client'[c] \in ClientStates
                       /\ conn'[c].holds = conn[c].holds /\ conn'[c].minted = conn[c].minted
                       /\ conn'[c].req = conn[c].req
                       /\ conn'[c].pc = conn[c].pc \/ (conn[c].pc = "backlog" /\ conn'[c].pc = "done")
  BY <1>1, <1>2 DEF ConnRecord, ClientStates
<1>4. BrokerTypeOK'
  <2>1. conn' \in [Conns -> ConnRecord] /\ client' \in [Conns -> ClientStates]
    BY <1>3 DEF Shutdown
  <2> QED
    BY <2>1 DEF Shutdown, BrokerTypeOK, ConnRecord, ClientStates
<1>5. \A c \in Conns : LocalInv(conn'[c], client'[c])
  BY <1>1, <1>2, <1>3 DEF LocalInv
<1>6. Handling' = Handling /\ Holding' = Holding
  BY <1>3 DEF Handling, Holding, InHandler
<1>7. SlotsMatch' /\ FinitelyManyHandled'
  BY <1>3, <1>6, SlotsAreCounted DEF Shutdown, FinitelyManyHandled, SlotsMatch, Handling, Holding
<1>8. HoldsWhileAdmitted' /\ PhasesFollowChecks' /\ OnlyValidRequestsMint'
  BY <1>5 DEF LocalInv, HoldsWhileAdmitted, PhasesFollowChecks, OnlyValidRequestsMint
<1> QED
  BY <1>4, <1>7, <1>8

\* The process ends: no goroutine is left and no slot is taken.
LEMMA ExitInv == BrokerIInv /\ Exit => BrokerIInv'
<1> SUFFICES ASSUME BrokerIInv, Exit PROVE BrokerIInv'
  OBVIOUS
<1> USE DEF BrokerIInv, BrokerInvariant
<1>1. \A c \in Conns : conn[c] \in ConnRecord /\ client[c] \in ClientStates /\ LocalInv(conn[c], client[c])
  BY ConnFacts
<1>2. \A c \in Conns : /\ conn'[c] \in ConnRecord /\ client'[c] \in ClientStates
                       /\ ~conn'[c].holds /\ conn'[c].minted = conn[c].minted
                       /\ conn'[c].req = conn[c].req /\ conn'[c].pc = "done"
                       /\ client'[c] = IF client[c] = "waiting" THEN "closed" ELSE client[c]
  BY <1>1 DEF Exit, NoConn, ConnRecord, ClientStates
<1>3. BrokerTypeOK'
  <2>1. conn' \in [Conns -> ConnRecord] /\ client' \in [Conns -> ClientStates]
    BY <1>2 DEF Exit
  <2>2. connSem' \in 0..MaxConcurrentConnections /\ sem' \in 0..MaxRequestsInFlight
    <3>1. connSem' = 0 /\ sem' = 0
      BY DEF Exit
    <3> HIDE DEF BrokerIInv
    <3> QED
      BY <3>1, BrokerAssumption
  <2>3. server' = "down"
    BY DEF Exit
  <2> QED
    BY <2>1, <2>2, <2>3 DEF BrokerTypeOK, ConnRecord, ClientStates
<1>4. Handling' = {} /\ Holding' = {}
  BY <1>2 DEF Handling, Holding, InHandler
<1>5. SlotsMatch' /\ FinitelyManyHandled'
  BY <1>2, <1>4, FS_EmptySet DEF Exit, FinitelyManyHandled, SlotsMatch, Handling, Holding
<1>6. \A c \in Conns : LocalInv(conn'[c], client'[c])
  BY <1>1, <1>2 DEF LocalInv
<1>7. HoldsWhileAdmitted' /\ PhasesFollowChecks' /\ OnlyValidRequestsMint'
  BY <1>6 DEF LocalInv, HoldsWhileAdmitted, PhasesFollowChecks, OnlyValidRequestsMint
<1> QED
  BY <1>3, <1>5, <1>7

LEMMA BrokerStepInv == BrokerIInv /\ [BrokerNext]_brokerVars => BrokerIInv'
<1> SUFFICES ASSUME BrokerIInv, [BrokerNext]_brokerVars PROVE BrokerIInv'
  OBVIOUS
<1>1. CASE BrokerNext
  <2>1. ASSUME NEW c \in Conns, HandlerStep(c) PROVE BrokerIInv'
    BY <2>1, AdmitInv, ReadRequestInv, IssueInv, WriteTokenInv, LeaveInv, ExitHandlerInv DEF HandlerStep
  <2>2. CASE ServeEnds
    BY <2>2 DEF ServeEnds, BrokerIInv, BrokerInvariant, BrokerTypeOK, SlotsMatch, OnlyValidRequestsMint,
                FinitelyManyHandled, Handling, Holding, HoldsWhileAdmitted, PhasesFollowChecks
  <2>3. ASSUME NEW c \in Conns, NEW q \in Requests, Connect(c, q) PROVE BrokerIInv'
    BY <2>3, ConnectInv
  <2>4. ASSUME NEW c \in Conns, GiveUp(c) PROVE BrokerIInv'
    BY <2>4, GiveUpInv
  <2>5. ASSUME NEW c \in Conns, AcceptConn(c) PROVE BrokerIInv'
    BY <2>5, AcceptConnInv
  <2>6. CASE Shutdown
    BY <2>6, ShutdownInv
  <2>7. CASE Exit
    BY <2>7, ExitInv
  <2> QED
    BY <1>1, <2>1, <2>2, <2>3, <2>4, <2>5, <2>6, <2>7 DEF BrokerNext
<1>2. CASE UNCHANGED brokerVars
  BY <1>2 DEF brokerVars, BrokerIInv, BrokerInvariant, BrokerTypeOK, SlotsMatch, OnlyValidRequestsMint,
              FinitelyManyHandled, Handling, Holding, HoldsWhileAdmitted, PhasesFollowChecks
<1> QED
  BY <1>1, <1>2

\* The credential broker, whatever its clients send and whenever it is stopped: every
\* connection goroutine and every admitted request accounts for exactly one token of its
\* semaphore on every path through handle, and GitHub is asked for a token only for an
\* accepted peer with a valid request (Serve, handle, Shutdown).
THEOREM BrokerIsSafe == BrokerSpec => []BrokerInvariant
<1>1. BrokerIInv => BrokerInvariant
  BY DEF BrokerIInv
<1> QED
  BY <1>1, BrokerInitInv, BrokerStepInv, PTL DEF BrokerSpec

-----------------------------------------------------------------------------
(* The safety of LocalRun, for any number of runs for one output path.     *)
(*                                                                         *)
(* What the properties say of an output directory rests on what each call  *)
(* of Run finds when it is reached: the tree is complete before it is      *)
(* synced, synced before it is renamed, and the output is in place until   *)
(* the parent is synced.  RunInv says this phase by phase; DiskFollows     *)
(* says that what is at the output path on disk is what the processes see  *)
(* there, which is what a loss of power leaves.                            *)

Ended == {"done", "killed"}
Building == {"mkdirs", "prepare", "engine", "execute", "close", "relocate", "inspect", "write",
             "removework", "tree", "syncstaging", "lstat", "rename", "unwind"}
Phases == {"validate", "staging", "syncparent", "withdraw"} \cup Building \cup Ended
Entries == FinalTree \cup WorkDirs

\* Where the directory of a run is when a call is reached.
PlaceInv(r) ==
  /\ pc[r] \in {"validate", "staging"} => place[r] = "none"
  /\ pc[r] \in Building => place[r] = "staging"
  /\ pc[r] = "syncparent" => place[r] = "output"
  /\ pc[r] = "withdraw" => place[r] \in {"withdrawn", "none"}

\* What it holds then.
TreeInv(r) ==
  /\ pc[r] \in {"syncstaging", "lstat", "rename"} => names[r] = FinalTree
  /\ pc[r] \in {"lstat", "rename"} => diskNames[r] = FinalTree
  /\ place[r] = "output" => names[r] = FinalTree /\ diskNames[r] = FinalTree

\* A run holds workspaces and the Docker client only between opening and closing them.
OpenInv(r) == open[r] # {} => pc[r] \in {"engine", "execute", "close", "unwind"}

\* Run returns once, and success only when the output is in place for good.
AnswerInv(r) ==
  /\ answer[r] = "none" <=> pc[r] # "done"
  /\ answer[r] = "ok" => place[r] = "output" /\ diskPlace[r] = "output"

\* The output path on disk is not ahead of what the processes see.
DiskInv(r) ==
  /\ pc[r] \notin Ended => ~AtOutput(diskPlace[r])
  /\ AtOutput(diskPlace[r]) => place[r] = diskPlace[r]

RunInv(r) ==
  pc[r] \in Phases /\ PlaceInv(r) /\ TreeInv(r) /\ OpenInv(r) /\ AnswerInv(r) /\ DiskInv(r)

\* A directory that was being taken back is at the output path on disk only after a loss
\* of power, when no run goes on.
WithdrawnOnDisk ==
  (\E r \in Runs : diskPlace[r] = "withdrawn") => \A q \in Runs : pc[q] \in Ended

LocalRunIInv ==
  /\ TypeOK /\ pc \in [Runs -> Phases]
  /\ \A r \in Runs : RunInv(r)
  /\ \A r, q \in Runs : AtOutput(place[r]) /\ AtOutput(place[q]) => r = q
  /\ owner # "none" => \A r \in Runs : ~AtOutput(place[r])
  /\ WithdrawnOnDisk

-----------------------------------------------------------------------------
(* The entries of an output directory.                                     *)

LEMMA TreeFacts ==
  /\ FinalTree # {} /\ FinalTree \subseteq Entries /\ WorkDirs \subseteq Entries
  /\ Reports \subseteq Entries /\ "evidence" \in Entries
  /\ \A k \in 0..4 : FirstReports(k) \subseteq Entries
<1>1. \A k \in 0..4 : FirstReports(k) \subseteq Reports
  BY DEF Reports, FirstReports
<1> QED
  BY <1>1 DEF FinalTree, Entries

LEMMA LocalRunInitInv == Init => LocalRunIInv
<1> SUFFICES ASSUME Init PROVE LocalRunIInv
  OBVIOUS
<1>1. TypeOK /\ pc \in [Runs -> Phases]
  BY DEF Init, TypeOK, Phases, Places
<1>2. ASSUME NEW r \in Runs PROVE RunInv(r) /\ ~AtOutput(place[r]) /\ diskPlace[r] = "none"
  BY DEF Init, RunInv, PlaceInv, TreeInv, OpenInv, AnswerInv, DiskInv, AtOutput, Phases, Building, Ended
<1> QED
  BY <1>1, <1>2 DEF LocalRunIInv, WithdrawnOnDisk, Init

\* A step that changes only what run r owns, and takes no output path.
LEMMA OwnStep ==
  ASSUME LocalRunIInv, NEW r \in Runs, TypeOK', pc' \in [Runs -> Phases], pc[r] \notin Ended,
         \A q \in Runs : q # r => /\ pc'[q] = pc[q] /\ place'[q] = place[q]
                                  /\ names'[q] = names[q] /\ diskNames'[q] = diskNames[q]
                                  /\ open'[q] = open[q] /\ answer'[q] = answer[q],
         diskPlace' = diskPlace, owner' = owner, RunInv(r)',
         AtOutput(place'[r]) => AtOutput(place[r])
  PROVE  LocalRunIInv'
<1>1. ASSUME NEW q \in Runs PROVE RunInv(q)'
  <2>1. CASE q # r
    BY <2>1 DEF LocalRunIInv, RunInv, PlaceInv, TreeInv, OpenInv, AnswerInv, DiskInv
  <2> QED
    BY <2>1
<1>2. \A q \in Runs : AtOutput(place'[q]) => AtOutput(place[q])
  OBVIOUS
<1>3. WithdrawnOnDisk'
  BY DEF LocalRunIInv, WithdrawnOnDisk
<1>4. /\ \A q, s \in Runs : AtOutput(place'[q]) /\ AtOutput(place'[s]) => q = s
      /\ owner' # "none" => \A q \in Runs : ~AtOutput(place'[q])
  BY <1>2 DEF LocalRunIInv
<1> QED
  BY <1>1, <1>3, <1>4 DEF LocalRunIInv

\* A step on the staging directory of run r.
LEMMA BuildStep ==
  ASSUME LocalRunIInv, NEW r \in Runs, NEW p \in Building, NEW nm \in SUBSET Entries,
         NEW dn \in SUBSET Entries, NEW op \in SUBSET {"workspaces", "engine"},
         pc[r] \in Building, pc' = [pc EXCEPT ![r] = p], names' = [names EXCEPT ![r] = nm],
         diskNames' = [diskNames EXCEPT ![r] = dn], open' = [open EXCEPT ![r] = op],
         UNCHANGED <<place, diskPlace, answer, owner>>,
         p \in {"syncstaging", "lstat", "rename"} => nm = FinalTree,
         p \in {"lstat", "rename"} => dn = FinalTree,
         op # {} => p \in {"engine", "execute", "close", "unwind"}
  PROVE  LocalRunIInv'
<1>1. /\ TypeOK /\ pc \in [Runs -> Phases] /\ RunInv(r) /\ pc[r] \notin Ended /\ p \in Phases
      /\ place[r] = "staging" /\ answer[r] = "none" /\ ~AtOutput(diskPlace[r])
  BY DEF LocalRunIInv, RunInv, PlaceInv, AnswerInv, DiskInv, Building, Ended, Phases
<1>2. TypeOK'
  <2>1. names \in [Runs -> SUBSET Entries] /\ diskNames \in [Runs -> SUBSET Entries]
    BY <1>1 DEF TypeOK, Entries
  <2>2. names' \in [Runs -> SUBSET Entries] /\ diskNames' \in [Runs -> SUBSET Entries]
    BY <2>1
  <2>3. open' \in [Runs -> SUBSET {"workspaces", "engine"}]
    BY <1>1 DEF TypeOK
  <2> QED
    BY <1>1, <2>2, <2>3 DEF TypeOK, Entries
<1>3. pc' \in [Runs -> Phases]
  BY <1>1
<1>4. /\ pc'[r] = p /\ names'[r] = nm /\ diskNames'[r] = dn /\ open'[r] = op
      /\ place'[r] = "staging" /\ answer'[r] = "none" /\ diskPlace'[r] = diskPlace[r]
  BY <1>1 DEF TypeOK
<1>5. RunInv(r)'
  BY <1>1, <1>4 DEF RunInv, PlaceInv, TreeInv, OpenInv, AnswerInv, DiskInv, Building, Ended
<1>6. \A q \in Runs : q # r => /\ pc'[q] = pc[q] /\ place'[q] = place[q]
                               /\ names'[q] = names[q] /\ diskNames'[q] = diskNames[q]
                               /\ open'[q] = open[q] /\ answer'[q] = answer[q]
  BY <1>1 DEF TypeOK
<1> QED
  BY <1>1, <1>2, <1>3, <1>5, <1>6, OwnStep

\* Nothing is open unless it was opened, and what is there has its type.
LEMMA RunFacts ==
  ASSUME LocalRunIInv, NEW r \in Runs
  PROVE  /\ names[r] \in SUBSET Entries /\ diskNames[r] \in SUBSET Entries
         /\ open[r] \in SUBSET {"workspaces", "engine"} /\ RunInv(r)
         /\ names = [names EXCEPT ![r] = names[r]]
         /\ diskNames = [diskNames EXCEPT ![r] = diskNames[r]]
         /\ open = [open EXCEPT ![r] = open[r]]
BY DEF LocalRunIInv, TypeOK, Entries

\* A step that only goes on to another call.
LEMMA JumpStep ==
  ASSUME LocalRunIInv, NEW r \in Runs, NEW p \in Building, pc[r] \in Building,
         Goto(r, p), UNCHANGED <<disk, open, answer, owner>>,
         p \in {"syncstaging", "lstat", "rename"} => names[r] = FinalTree,
         p \in {"lstat", "rename"} => diskNames[r] = FinalTree,
         open[r] # {} => p \in {"engine", "execute", "close", "unwind"}
  PROVE  LocalRunIInv'
<1>1. /\ names' = [names EXCEPT ![r] = names[r]] /\ diskNames' = [diskNames EXCEPT ![r] = diskNames[r]]
      /\ open' = [open EXCEPT ![r] = open[r]] /\ pc' = [pc EXCEPT ![r] = p]
      /\ UNCHANGED <<place, diskPlace, answer, owner>>
  BY RunFacts DEF Goto, disk
<1>2. /\ names[r] \in SUBSET Entries /\ diskNames[r] \in SUBSET Entries
      /\ open[r] \in SUBSET {"workspaces", "engine"}
  BY RunFacts
<1> QED
  BY <1>1, <1>2, BuildStep

LEMMA MakeWorkDirsInv == ASSUME LocalRunIInv, NEW r \in Runs, MakeWorkDirs(r) PROVE LocalRunIInv'
<1>1. /\ pc[r] \in Building /\ "prepare" \in Building /\ "unwind" \in Building /\ open[r] = {}
      /\ UNCHANGED <<place, diskPlace, diskNames, open, answer, owner>>
  BY RunFacts DEF MakeWorkDirs, Building, RunInv, OpenInv
<1>2. CASE Goto(r, "prepare") /\ names' = [names EXCEPT ![r] = WorkDirs]
  BY <1>1, <1>2, BuildStep, RunFacts, TreeFacts DEF Goto
<1>3. ASSUME NEW made \in SUBSET WorkDirs, Goto(r, "unwind"), names' = [names EXCEPT ![r] = made]
      PROVE  LocalRunIInv'
  BY <1>1, <1>3, BuildStep, RunFacts, TreeFacts DEF Goto
<1> QED
  BY <1>2, <1>3 DEF MakeWorkDirs

LEMMA PrepareInv == ASSUME LocalRunIInv, NEW r \in Runs, Prepare(r) PROVE LocalRunIInv'
<1>1. /\ pc[r] \in Building /\ "engine" \in Building /\ "unwind" \in Building
      /\ UNCHANGED <<disk, answer, owner>>
  BY DEF Prepare, Building
<1>2. CASE Goto(r, "engine") /\ open' = [open EXCEPT ![r] = @ \cup {"workspaces"}]
  BY <1>1, <1>2, BuildStep, RunFacts DEF Goto, disk
<1>3. CASE Goto(r, "unwind") /\ UNCHANGED open
  BY <1>1, <1>3, JumpStep, RunFacts
<1> QED
  BY <1>2, <1>3 DEF Prepare

LEMMA OpenEngineInv == ASSUME LocalRunIInv, NEW r \in Runs, OpenEngine(r) PROVE LocalRunIInv'
<1>1. /\ pc[r] \in Building /\ "execute" \in Building /\ "unwind" \in Building
      /\ UNCHANGED <<disk, answer, owner>>
  BY DEF OpenEngine, Building
<1>2. CASE Goto(r, "execute") /\ open' = [open EXCEPT ![r] = @ \cup {"engine"}]
  BY <1>1, <1>2, BuildStep, RunFacts DEF Goto, disk
<1>3. CASE Goto(r, "unwind") /\ UNCHANGED open
  BY <1>1, <1>3, JumpStep, RunFacts
<1> QED
  BY <1>2, <1>3 DEF OpenEngine

LEMMA ExecuteAndCommitInv ==
  ASSUME LocalRunIInv, NEW r \in Runs, ExecuteAndCommit(r) PROVE LocalRunIInv'
<1>1. pc[r] \in Building /\ "close" \in Building /\ "unwind" \in Building
  BY DEF ExecuteAndCommit, Step, Building
<1> QED
  BY <1>1, JumpStep DEF ExecuteAndCommit, Step

LEMMA CloseResourcesInv == ASSUME LocalRunIInv, NEW r \in Runs, CloseResources(r) PROVE LocalRunIInv'
<1>1. /\ pc[r] \in Building /\ "relocate" \in Building /\ "unwind" \in Building
      /\ UNCHANGED <<disk, answer, owner>>
  BY DEF CloseResources, Building
<1>2. ASSUME NEW p \in {"relocate", "unwind"}, Goto(r, p), open' = [open EXCEPT ![r] = {}]
      PROVE  LocalRunIInv'
  BY <1>1, <1>2, BuildStep, RunFacts DEF Goto, disk
<1>3. CASE Goto(r, "unwind") /\ open' = [open EXCEPT ![r] = @ \ {"workspaces"}]
  BY <1>1, <1>3, BuildStep, RunFacts DEF Goto, disk
<1> QED
  BY <1>2, <1>3 DEF CloseResources

LEMMA RelocateInv == ASSUME LocalRunIInv, NEW r \in Runs, Relocate(r) PROVE LocalRunIInv'
<1>1. /\ pc[r] \in Building /\ "inspect" \in Building /\ "unwind" \in Building /\ open[r] = {}
      /\ UNCHANGED <<place, diskPlace, open, answer, owner>>
  BY RunFacts DEF Relocate, Building, RunInv, OpenInv
<1> DEFINE nm == names[r] \cup {"evidence"}
<1>2. nm \in SUBSET Entries
  BY RunFacts, TreeFacts
<1>3. CASE Goto(r, "unwind") /\ UNCHANGED <<names, diskNames>>
  BY <1>1, <1>3, JumpStep DEF disk
<1>4. CASE names' = [names EXCEPT ![r] = nm] /\ Goto(r, "unwind") /\ UNCHANGED diskNames
  BY <1>1, <1>2, <1>4, BuildStep, RunFacts DEF Goto
<1>5. ASSUME NEW p \in {"inspect", "unwind"}, Goto(r, p), names' = [names EXCEPT ![r] = nm],
             diskNames' = [diskNames EXCEPT ![r] = nm]
      PROVE  LocalRunIInv'
  BY <1>1, <1>2, <1>5, BuildStep, RunFacts DEF Goto
<1> QED
  BY <1>3, <1>4, <1>5 DEF Relocate

LEMMA InspectInv == ASSUME LocalRunIInv, NEW r \in Runs, Inspect(r) PROVE LocalRunIInv'
<1>1. pc[r] \in Building /\ "write" \in Building /\ "unwind" \in Building /\ open[r] = {}
  BY RunFacts DEF Inspect, Step, Building, RunInv, OpenInv
<1> QED
  BY <1>1, JumpStep DEF Inspect, Step

LEMMA WriteOutputsInv == ASSUME LocalRunIInv, NEW r \in Runs, WriteOutputs(r) PROVE LocalRunIInv'
<1>1. /\ pc[r] \in Building /\ "removework" \in Building /\ "unwind" \in Building /\ open[r] = {}
      /\ UNCHANGED <<place, diskPlace, diskNames, open, answer, owner>>
  BY RunFacts DEF WriteOutputs, Building, RunInv, OpenInv
<1>2. ASSUME NEW p \in {"removework", "unwind"}, NEW some \in SUBSET Entries, Goto(r, p),
             names' = [names EXCEPT ![r] = @ \cup some]
      PROVE  LocalRunIInv'
  <2>1. names[r] \cup some \in SUBSET Entries
    BY RunFacts
  <2> QED
    BY <1>1, <1>2, <2>1, BuildStep, RunFacts DEF Goto
<1> QED
  BY <1>2, TreeFacts DEF WriteOutputs

LEMMA RemoveWorkDirsInv == ASSUME LocalRunIInv, NEW r \in Runs, RemoveWorkDirs(r) PROVE LocalRunIInv'
<1>1. /\ pc[r] \in Building /\ "tree" \in Building /\ "unwind" \in Building /\ open[r] = {}
      /\ UNCHANGED <<place, diskPlace, diskNames, open, answer, owner>>
  BY RunFacts DEF RemoveWorkDirs, Building, RunInv, OpenInv
<1>2. ASSUME NEW p \in {"tree", "unwind"}, NEW left \in SUBSET WorkDirs, Goto(r, p),
             names' = [names EXCEPT ![r] = (@ \ WorkDirs) \cup left]
      PROVE  LocalRunIInv'
  <2>1. (names[r] \ WorkDirs) \cup left \in SUBSET Entries
    BY RunFacts, TreeFacts
  <2> QED
    BY <1>1, <1>2, <2>1, BuildStep, RunFacts DEF Goto
<1>3. CASE Goto(r, "tree") /\ names' = [names EXCEPT ![r] = @ \ WorkDirs]
  <2>1. names[r] \ WorkDirs = (names[r] \ WorkDirs) \cup {} /\ {} \in SUBSET WorkDirs
    OBVIOUS
  <2> QED
    BY <1>2, <1>3, <2>1
<1> QED
  BY <1>2, <1>3 DEF RemoveWorkDirs

LEMMA VerifyTreeInv == ASSUME LocalRunIInv, NEW r \in Runs, VerifyTree(r) PROVE LocalRunIInv'
<1>1. pc[r] \in Building /\ "syncstaging" \in Building /\ "unwind" \in Building /\ open[r] = {}
  BY RunFacts DEF VerifyTree, Building, RunInv, OpenInv
<1> QED
  BY <1>1, JumpStep DEF VerifyTree

LEMMA SyncStagingInv == ASSUME LocalRunIInv, NEW r \in Runs, SyncStaging(r) PROVE LocalRunIInv'
<1>1. /\ pc[r] \in Building /\ "lstat" \in Building /\ "unwind" \in Building /\ open[r] = {}
      /\ names[r] = FinalTree
      /\ UNCHANGED <<place, diskPlace, names, open, answer, owner>>
  BY RunFacts DEF SyncStaging, Building, RunInv, OpenInv, TreeInv
<1>2. CASE Goto(r, "lstat") /\ diskNames' = [diskNames EXCEPT ![r] = names[r]]
  BY <1>1, <1>2, BuildStep, RunFacts DEF Goto
<1>3. CASE Goto(r, "unwind") /\ UNCHANGED diskNames
  BY <1>1, <1>3, JumpStep DEF disk
<1> QED
  BY <1>2, <1>3 DEF SyncStaging

LEMMA LstatOutputInv == ASSUME LocalRunIInv, NEW r \in Runs, LstatOutput(r) PROVE LocalRunIInv'
<1>1. /\ pc[r] \in Building /\ "rename" \in Building /\ "unwind" \in Building /\ open[r] = {}
      /\ names[r] = FinalTree /\ diskNames[r] = FinalTree
  BY RunFacts DEF LstatOutput, Building, RunInv, OpenInv, TreeInv
<1> QED
  BY <1>1, JumpStep DEF LstatOutput

-----------------------------------------------------------------------------
(* The steps before the staging directory, and those on the output path.   *)

\* A step that changes the place, the entries, what is open and the answer of run r.
LEMMA OwnerStep ==
  ASSUME LocalRunIInv, NEW r \in Runs, pc[r] \notin Ended, NEW p \in Phases, NEW pl \in Places,
         NEW nm \in SUBSET Entries, NEW op \in SUBSET {"workspaces", "engine"},
         NEW an \in {"none", "ok", "failed", "invalid-request", "cleanup-failed"},
         pc' = [pc EXCEPT ![r] = p], place' = [place EXCEPT ![r] = pl],
         names' = [names EXCEPT ![r] = nm], open' = [open EXCEPT ![r] = op],
         answer' = [answer EXCEPT ![r] = an], UNCHANGED <<diskPlace, diskNames, owner>>,
         RunInv(r)', AtOutput(pl) => AtOutput(place[r])
  PROVE  LocalRunIInv'
<1>1. TypeOK /\ pc \in [Runs -> Phases]
  BY DEF LocalRunIInv
<1>2. TypeOK'
  <2>1. names' \in [Runs -> SUBSET Entries]
    <3>1. names \in [Runs -> SUBSET Entries]
      BY <1>1 DEF TypeOK, Entries
    <3> QED
      BY <3>1
  <2>2. open' \in [Runs -> SUBSET {"workspaces", "engine"}]
    BY <1>1 DEF TypeOK
  <2>3. place' \in [Runs -> Places]
    BY <1>1 DEF TypeOK
  <2>4. answer' \in [Runs -> {"none", "ok", "failed", "invalid-request", "cleanup-failed"}]
    BY <1>1 DEF TypeOK
  <2> QED
    BY <1>1, <2>1, <2>2, <2>3, <2>4 DEF TypeOK, Entries
<1>3. pc' \in [Runs -> Phases]
  BY <1>1
<1>4. \A q \in Runs : q # r => /\ pc'[q] = pc[q] /\ place'[q] = place[q]
                               /\ names'[q] = names[q] /\ diskNames'[q] = diskNames[q]
                               /\ open'[q] = open[q] /\ answer'[q] = answer[q]
  BY <1>1 DEF TypeOK
<1>5. place'[r] = pl
  BY <1>1 DEF TypeOK
<1> QED
  BY <1>2, <1>3, <1>4, <1>5, OwnStep

LEMMA RunTypes ==
  ASSUME LocalRunIInv, NEW r \in Runs
  PROVE  /\ pc[r] \in Phases /\ place[r] \in Places /\ diskPlace[r] \in Places
         /\ answer[r] \in {"none", "ok", "failed", "invalid-request", "cleanup-failed"}
         /\ place = [place EXCEPT ![r] = place[r]] /\ answer = [answer EXCEPT ![r] = answer[r]]
         /\ pc = [pc EXCEPT ![r] = pc[r]]
         /\ DOMAIN pc = Runs /\ DOMAIN place = Runs /\ DOMAIN names = Runs
         /\ DOMAIN open = Runs /\ DOMAIN answer = Runs
BY DEF LocalRunIInv, TypeOK

LEMMA ValidateInv == ASSUME LocalRunIInv, NEW r \in Runs, Validate(r) PROVE LocalRunIInv'
<1>1. /\ pc[r] = "validate" /\ place[r] = "none" /\ open[r] = {} /\ answer[r] = "none"
      /\ UNCHANGED <<disk, open, owner>> /\ pc[r] \notin Ended /\ "staging" \in Phases /\ "done" \in Phases
      /\ ~AtOutput(diskPlace[r])
  BY RunFacts DEF Validate, RunInv, PlaceInv, OpenInv, AnswerInv, DiskInv, Ended, Phases
<1>2. CASE Goto(r, "staging") /\ UNCHANGED answer
  <2>1. RunInv(r)'
    BY <1>1, <1>2, RunTypes DEF Goto, disk, RunInv, PlaceInv, TreeInv, OpenInv, AnswerInv, DiskInv,
                                Phases, Building, Ended
  <2>2. /\ pc' = [pc EXCEPT ![r] = "staging"] /\ place' = [place EXCEPT ![r] = place[r]]
        /\ names' = [names EXCEPT ![r] = names[r]] /\ open' = [open EXCEPT ![r] = open[r]]
        /\ answer' = [answer EXCEPT ![r] = answer[r]] /\ UNCHANGED <<diskPlace, diskNames, owner>>
    BY <1>1, <1>2, RunFacts, RunTypes DEF Goto, disk
  <2> QED
    BY <1>1, <2>1, <2>2, OwnerStep, RunFacts, RunTypes
<1>3. CASE Returns(r, "invalid-request")
  <2>1. RunInv(r)'
    BY <1>1, <1>3, RunTypes DEF Goto, Returns, disk, RunInv, PlaceInv, TreeInv, OpenInv, AnswerInv,
                                DiskInv, Phases, Building, Ended
  <2>2. /\ pc' = [pc EXCEPT ![r] = "done"] /\ place' = [place EXCEPT ![r] = place[r]]
        /\ names' = [names EXCEPT ![r] = names[r]] /\ open' = [open EXCEPT ![r] = open[r]]
        /\ answer' = [answer EXCEPT ![r] = "invalid-request"] /\ UNCHANGED <<diskPlace, diskNames, owner>>
    BY <1>1, <1>3, RunFacts, RunTypes DEF Goto, Returns, disk
  <2> QED
    BY <1>1, <2>1, <2>2, OwnerStep, RunFacts, RunTypes
<1> QED
  BY <1>2, <1>3 DEF Validate

LEMMA CreateStagingInv == ASSUME LocalRunIInv, NEW r \in Runs, CreateStaging(r) PROVE LocalRunIInv'
<1>1. /\ pc[r] = "staging" /\ place[r] = "none" /\ open[r] = {} /\ answer[r] = "none"
      /\ UNCHANGED <<diskPlace, names, diskNames, open, owner>> /\ pc[r] \notin Ended
      /\ "mkdirs" \in Phases /\ "done" \in Phases /\ ~AtOutput(diskPlace[r])
  BY RunFacts DEF CreateStaging, RunInv, PlaceInv, OpenInv, AnswerInv, DiskInv, Ended, Phases, Building
<1>2. CASE Goto(r, "mkdirs") /\ UNCHANGED answer /\ place' = [place EXCEPT ![r] = "staging"]
  <2>1. RunInv(r)'
    BY <1>1, <1>2, RunTypes DEF Goto, RunInv, PlaceInv, TreeInv, OpenInv, AnswerInv, DiskInv,
                                Phases, Building, Ended
  <2>2. "staging" \in Places /\ ~AtOutput("staging")
    BY DEF Places, AtOutput
  <2>3. /\ pc' = [pc EXCEPT ![r] = "mkdirs"] /\ place' = [place EXCEPT ![r] = "staging"]
        /\ names' = [names EXCEPT ![r] = names[r]] /\ open' = [open EXCEPT ![r] = open[r]]
        /\ answer' = [answer EXCEPT ![r] = answer[r]] /\ UNCHANGED <<diskPlace, diskNames, owner>>
    BY <1>1, <1>2, RunFacts, RunTypes DEF Goto
  <2> QED
    BY <1>1, <2>1, <2>2, <2>3, OwnerStep, RunFacts, RunTypes
<1>3. CASE Returns(r, "failed") /\ UNCHANGED place
  <2>1. RunInv(r)'
    BY <1>1, <1>3, RunTypes DEF Goto, Returns, RunInv, PlaceInv, TreeInv, OpenInv, AnswerInv,
                                DiskInv, Phases, Building, Ended
  <2>2. /\ pc' = [pc EXCEPT ![r] = "done"] /\ place' = [place EXCEPT ![r] = place[r]]
        /\ names' = [names EXCEPT ![r] = names[r]] /\ open' = [open EXCEPT ![r] = open[r]]
        /\ answer' = [answer EXCEPT ![r] = "failed"] /\ UNCHANGED <<diskPlace, diskNames, owner>>
    BY <1>1, <1>3, RunFacts, RunTypes DEF Goto, Returns
  <2> QED
    BY <1>1, <2>1, <2>2, OwnerStep, RunFacts, RunTypes, ZenonT(60)
<1> QED
  BY <1>2, <1>3 DEF CreateStaging

LEMMA WithdrawInv == ASSUME LocalRunIInv, NEW r \in Runs, Withdraw(r) PROVE LocalRunIInv'
<1>1. /\ pc[r] = "withdraw" /\ place[r] \in {"withdrawn", "none"} /\ open[r] = {} /\ answer[r] = "none"
      /\ UNCHANGED <<diskPlace, diskNames, open, owner>> /\ pc[r] \notin Ended
      /\ "done" \in Phases /\ ~AtOutput(diskPlace[r])
  BY RunFacts DEF Withdraw, RunInv, PlaceInv, OpenInv, AnswerInv, DiskInv, Ended, Phases
<1>2. ASSUME NEW n \in names[r], names' = [names EXCEPT ![r] = @ \ {n}], UNCHANGED <<pc, place, answer>>
      PROVE  LocalRunIInv'
  <2>1. RunInv(r)'
    BY <1>1, <1>2, RunFacts, RunTypes DEF RunInv, PlaceInv, TreeInv, OpenInv, AnswerInv, DiskInv,
                                Phases, Building, Ended
  <2>2. /\ pc' = [pc EXCEPT ![r] = pc[r]] /\ place' = [place EXCEPT ![r] = place[r]]
        /\ names' = [names EXCEPT ![r] = names[r] \ {n}] /\ open' = [open EXCEPT ![r] = open[r]]
        /\ answer' = [answer EXCEPT ![r] = answer[r]] /\ UNCHANGED <<diskPlace, diskNames, owner>>
    BY <1>1, <1>2, RunFacts, RunTypes
  <2>3. names[r] \ {n} \in SUBSET Entries
    BY RunFacts
  <2> QED
    BY <1>1, <2>1, <2>2, <2>3, OwnerStep, RunFacts, RunTypes
<1>3. ASSUME NEW pl \in {place[r], "none"}, place' = [place EXCEPT ![r] = pl], Returns(r, "failed"),
             UNCHANGED names
      PROVE  LocalRunIInv'
  <2>1. RunInv(r)'
    BY <1>1, <1>3, RunTypes DEF Goto, Returns, RunInv, PlaceInv, TreeInv, OpenInv, AnswerInv,
                                DiskInv, Phases, Building, Ended
  <2>2. pl \in Places /\ (AtOutput(pl) => AtOutput(place[r]))
    BY <1>3, RunTypes DEF Places, AtOutput
  <2>3. /\ pc' = [pc EXCEPT ![r] = "done"] /\ place' = [place EXCEPT ![r] = pl]
        /\ names' = [names EXCEPT ![r] = names[r]] /\ open' = [open EXCEPT ![r] = open[r]]
        /\ answer' = [answer EXCEPT ![r] = "failed"] /\ UNCHANGED <<diskPlace, diskNames, owner>>
    BY <1>1, <1>3, RunFacts, RunTypes DEF Goto, Returns
  <2> QED
    BY <1>1, <2>1, <2>2, <2>3, OwnerStep, RunFacts, RunTypes
<1> QED
  BY <1>2, <1>3, RunTypes DEF Withdraw

LEMMA UnwindAllInv == ASSUME LocalRunIInv, NEW r \in Runs, UnwindAll(r) PROVE LocalRunIInv'
<1>1. /\ pc[r] = "unwind" /\ place[r] = "staging" /\ answer[r] = "none"
      /\ UNCHANGED <<diskPlace, diskNames, owner>> /\ pc[r] \notin Ended
      /\ "done" \in Phases /\ ~AtOutput(diskPlace[r]) /\ open' = [open EXCEPT ![r] = {}]
  BY RunFacts DEF UnwindAll, DeferredClose, RunInv, PlaceInv, AnswerInv, DiskInv, Ended, Phases, Building
<1>2. ASSUME NEW pl \in {"staging", "none"}, place' = [place EXCEPT ![r] = pl],
             NEW an \in {"failed", "cleanup-failed"}, Returns(r, an),
             NEW nm \in SUBSET Entries, names' = [names EXCEPT ![r] = nm]
      PROVE  LocalRunIInv'
  <2>1. RunInv(r)'
    BY <1>1, <1>2, RunTypes DEF Goto, Returns, RunInv, PlaceInv, TreeInv, OpenInv, AnswerInv,
                                DiskInv, Phases, Building, Ended
  <2>2. pl \in Places /\ ~AtOutput(pl)
    BY <1>2 DEF Places, AtOutput
  <2> QED
    BY <1>1, <1>2, <2>1, <2>2, OwnerStep DEF Goto, Returns
<1> QED
  BY <1>1, <1>2, RunFacts, RunTypes DEF UnwindAll

LEMMA KillInv == ASSUME LocalRunIInv, NEW r \in Runs, Kill(r) PROVE LocalRunIInv'
<1>1. pc[r] \notin Ended /\ "killed" \in Phases
  BY DEF Kill, Ended, Phases
<1>2. RunInv(r)'
  BY <1>1, RunFacts, RunTypes DEF Kill, Goto, disk, RunInv, PlaceInv, TreeInv, OpenInv, AnswerInv,
                                DiskInv, Phases, Building, Ended
<1>3. /\ pc' = [pc EXCEPT ![r] = "killed"] /\ place' = [place EXCEPT ![r] = place[r]]
      /\ names' = [names EXCEPT ![r] = names[r]] /\ open' = [open EXCEPT ![r] = {}]
      /\ answer' = [answer EXCEPT ![r] = answer[r]] /\ UNCHANGED <<diskPlace, diskNames, owner>>
  BY RunFacts, RunTypes DEF Kill, Goto, disk
<1> QED
  BY <1>1, <1>2, <1>3, OwnerStep, RunFacts, RunTypes

\* The rename takes the place of an empty directory only, which is not on disk at the
\* output path: a whole output is not empty, and after a loss of power no run renames.
LEMMA RenameInv == ASSUME LocalRunIInv, NEW r \in Runs, Rename(r) PROVE LocalRunIInv'
<1>1. /\ pc[r] = "rename" /\ pc[r] \in Building /\ open[r] = {} /\ answer[r] = "none"
      /\ names[r] = FinalTree /\ diskNames[r] = FinalTree /\ ~AtOutput(diskPlace[r])
      /\ UNCHANGED <<diskPlace, names, diskNames, open, answer>>
      /\ "syncparent" \in Phases /\ "unwind" \in Building /\ "rename" \notin Ended
  BY RunFacts DEF Rename, Building, RunInv, OpenInv, TreeInv, DiskInv, AnswerInv, Ended, Phases
<1>2. CASE Goto(r, "unwind") /\ UNCHANGED <<owner, place>>
  BY <1>1, <1>2, JumpStep DEF disk
<1>3. CASE /\ RenameWorks(r) /\ Goto(r, "syncparent") /\ owner' = "none"
           /\ place' = [q \in Runs |-> IF q = r THEN "output"
                                       ELSE IF AtOutput(place[q]) THEN "none" ELSE place[q]]
  <2>1. TypeOK /\ pc \in [Runs -> Phases]
    BY DEF LocalRunIInv
  <2>2. TypeOK' /\ pc' \in [Runs -> Phases]
    <3>1. place' \in [Runs -> Places]
      BY <1>3, <2>1 DEF TypeOK, Places
    <3>2. pc' \in [Runs -> Phases]
      BY <1>1, <1>3, <2>1 DEF Goto
    <3> QED
      BY <1>1, <1>3, <2>1, <3>1, <3>2 DEF TypeOK
  <2>3. RunInv(r)'
    BY <1>1, <1>3, <2>1 DEF Goto, RunInv, PlaceInv, TreeInv, OpenInv, AnswerInv, DiskInv, Building, Ended
  <2>4. \A q \in Runs : diskPlace[q] # "withdrawn"
    BY <1>1 DEF LocalRunIInv, WithdrawnOnDisk
  <2>5. ASSUME NEW q \in Runs, q # r PROVE RunInv(q)' /\ ~AtOutput(place'[q])
    <3>1. RunInv(q) /\ pc'[q] = pc[q] /\ answer' = answer /\ open' = open
      BY <1>1, <1>3, <2>1, <2>5 DEF LocalRunIInv, Goto
    <3>2. CASE AtOutput(place[q])
      <4>1. place'[q] = "none" /\ names[q] = {}
        BY <1>3, <2>5, <3>2 DEF RenameWorks
      <4>2. place[q] = "withdrawn"
        BY <3>1, <3>2, <4>1, TreeFacts DEF RunInv, TreeInv, AtOutput
      <4>3. ~AtOutput(diskPlace[q])
        BY <2>4, <3>1, <4>2 DEF RunInv, DiskInv
      <4>4. answer[q] # "ok" /\ pc[q] \notin Building /\ pc[q] # "syncparent"
        BY <3>1, <4>2 DEF RunInv, AnswerInv, PlaceInv
      <4>5. RunInv(q)'
        BY <1>1, <3>1, <4>1, <4>3, <4>4
           DEF RunInv, PlaceInv, TreeInv, OpenInv, AnswerInv, DiskInv, Building, Ended, Phases
      <4> QED
        BY <4>1, <4>5 DEF AtOutput
    <3>3. CASE ~AtOutput(place[q])
      <4>1. place'[q] = place[q]
        BY <1>3, <2>5, <3>3
      <4> QED
        BY <1>1, <3>1, <3>3, <4>1 DEF RunInv, PlaceInv, TreeInv, OpenInv, AnswerInv, DiskInv
    <3> QED
      BY <3>2, <3>3
  <2>6. WithdrawnOnDisk'
    BY <1>1, <2>4 DEF WithdrawnOnDisk
  <2> QED
    BY <1>3, <2>2, <2>3, <2>5, <2>6 DEF LocalRunIInv
<1> QED
  BY <1>2, <1>3 DEF Rename

\* The sync of the parent is the only step that puts the output path on disk.
LEMMA SyncParentInv == ASSUME LocalRunIInv, NEW r \in Runs, SyncParent(r) PROVE LocalRunIInv'
<1>1. /\ pc[r] = "syncparent" /\ place[r] = "output" /\ open[r] = {} /\ answer[r] = "none"
      /\ names[r] = FinalTree /\ diskNames[r] = FinalTree /\ ~AtOutput(diskPlace[r])
      /\ UNCHANGED <<names, diskNames, open, owner>>
      /\ "withdraw" \in Phases /\ "done" \in Phases /\ "syncparent" \notin Ended
  BY RunFacts DEF SyncParent, RunInv, PlaceInv, OpenInv, TreeInv, DiskInv, AnswerInv, Ended, Phases, Building
<1>2. TypeOK /\ pc \in [Runs -> Phases]
  BY DEF LocalRunIInv
<1>3. CASE Returns(r, "ok") /\ diskPlace' = place
  <2>1. pc'[r] = "done"
    BY <1>2, <1>3 DEF Returns, Goto
  <2>2. place' = place
    BY <1>2, <2>1 DEF SyncParent, TypeOK
  <2>3. TypeOK' /\ pc' \in [Runs -> Phases]
    <3>1. answer' \in [Runs -> {"none", "ok", "failed", "invalid-request", "cleanup-failed"}]
      BY <1>2, <1>3 DEF Returns, TypeOK
    <3>2. pc' \in [Runs -> Phases]
      BY <1>1, <1>2, <1>3 DEF Returns, Goto
    <3> QED
      BY <1>1, <1>2, <1>3, <2>2, <3>1, <3>2 DEF TypeOK
  <2>4. RunInv(r)'
    BY <1>1, <1>2, <1>3, <2>1, <2>2
       DEF Returns, TypeOK, RunInv, PlaceInv, TreeInv, OpenInv, AnswerInv, DiskInv, Building, Ended, Phases
  <2>5. ASSUME NEW q \in Runs, q # r PROVE RunInv(q)' /\ ~AtOutput(place[q])
    <3>1. /\ RunInv(q) /\ pc'[q] = pc[q] /\ answer'[q] = answer[q] /\ open'[q] = open[q]
          /\ names'[q] = names[q] /\ diskNames'[q] = diskNames[q] /\ diskPlace'[q] = place[q]
          /\ place'[q] = place[q]
      BY <1>1, <1>2, <1>3, <2>2, <2>5 DEF LocalRunIInv, Returns, Goto, TypeOK
    <3>2. AtOutput(place[r])
      BY <1>1 DEF AtOutput
    <3>3. ~AtOutput(place[q])
      BY <2>5, <3>2 DEF LocalRunIInv
    <3>4. answer[q] # "ok"
      BY <3>1, <3>3 DEF RunInv, AnswerInv, AtOutput
    <3>5. RunInv(q)'
      BY <3>1, <3>3, <3>4 DEF RunInv, PlaceInv, TreeInv, OpenInv, AnswerInv, DiskInv
    <3> QED
      BY <3>3, <3>5
  <2>6. WithdrawnOnDisk'
    BY <1>1, <1>3, <2>5 DEF WithdrawnOnDisk, AtOutput
  <2> QED
    BY <1>1, <2>2, <2>3, <2>4, <2>5, <2>6 DEF LocalRunIInv
<1>4. CASE Goto(r, "withdraw") /\ UNCHANGED <<answer, diskPlace>>
  <2>1. /\ pc' = [pc EXCEPT ![r] = "withdraw"] /\ place' = [place EXCEPT ![r] = "withdrawn"]
        /\ names' = [names EXCEPT ![r] = names[r]] /\ open' = [open EXCEPT ![r] = open[r]]
        /\ answer' = [answer EXCEPT ![r] = answer[r]] /\ UNCHANGED <<diskPlace, diskNames, owner>>
    <3>1. pc'[r] = "withdraw"
      BY <1>2, <1>4 DEF Goto
    <3> QED
      BY <1>1, <1>4, <3>1, RunFacts, RunTypes DEF SyncParent, Goto
  <2>2. RunInv(r)'
    BY <1>1, <1>2, <2>1
       DEF TypeOK, RunInv, PlaceInv, TreeInv, OpenInv, AnswerInv, DiskInv, Building, Ended, Phases
  <2>3. "withdrawn" \in Places /\ (AtOutput("withdrawn") => AtOutput(place[r]))
    BY <1>1 DEF Places, AtOutput
  <2>4. /\ pc[r] \notin Ended /\ names[r] \in SUBSET Entries /\ open[r] \in SUBSET {"workspaces", "engine"}
        /\ answer[r] \in {"none", "ok", "failed", "invalid-request", "cleanup-failed"}
    BY <1>1, RunFacts, RunTypes
  <2> QED
    BY <1>1, <2>1, <2>2, <2>3, <2>4, OwnerStep
<1> QED
  BY <1>3, <1>4 DEF SyncParent

LEMMA OwnerMakesInv == LocalRunIInv /\ OwnerMakes => LocalRunIInv'
<1> SUFFICES ASSUME LocalRunIInv, OwnerMakes PROVE LocalRunIInv'
  OBVIOUS
<1>1. /\ UNCHANGED <<pc, place, diskPlace, names, diskNames, open, answer>>
      /\ owner' \in {"empty", "full"} /\ \A r \in Runs : ~AtOutput(place[r])
  BY DEF OwnerMakes, disk, OutputExists, LocalRunIInv
<1>2. \A r \in Runs : RunInv(r)'
  BY <1>1 DEF LocalRunIInv, RunInv, PlaceInv, TreeInv, OpenInv, AnswerInv, DiskInv
<1> QED
  BY <1>1, <1>2 DEF LocalRunIInv, TypeOK, WithdrawnOnDisk

\* After a loss of power every run has ended, and what is found at the output path was
\* there on disk or for the processes.
LEMMA PowerLossInv == LocalRunIInv /\ PowerLoss => LocalRunIInv'
<1> SUFFICES ASSUME LocalRunIInv, PowerLoss PROVE LocalRunIInv'
  OBVIOUS
<1>1. PICK w \in [Runs -> Places] :
        /\ \A r \in Runs : w[r] \in {place[r], diskPlace[r]}
        /\ \A r, q \in Runs : AtOutput(w[r]) /\ AtOutput(w[q]) => r = q
        /\ place' = w /\ diskPlace' = w
        /\ \E left \in UNION {AfterPowerLoss(names[r], diskNames[r]) : r \in Runs} :
             /\ \A r \in Runs : AtOutput(w[r]) => left \in AfterPowerLoss(names[r], diskNames[r])
             /\ names' = [r \in Runs |-> IF AtOutput(w[r]) THEN left ELSE {}]
        /\ owner' = IF \E r \in Runs : AtOutput(w[r]) THEN "none" ELSE owner
  BY DEF PowerLoss
<1>2. PICK left \in UNION {AfterPowerLoss(names[r], diskNames[r]) : r \in Runs} :
        /\ \A r \in Runs : AtOutput(w[r]) => left \in AfterPowerLoss(names[r], diskNames[r])
        /\ names' = [r \in Runs |-> IF AtOutput(w[r]) THEN left ELSE {}]
  BY <1>1
<1>3. /\ diskNames' = names' /\ pc' = [r \in Runs |-> IF pc[r] = "done" THEN "done" ELSE "killed"]
      /\ open' = [r \in Runs |-> {}] /\ answer' = answer
  BY DEF PowerLoss
<1>4. TypeOK' /\ pc' \in [Runs -> Phases]
  <2>1. left \in SUBSET Entries
    <3>1. \A r \in Runs : AfterPowerLoss(names[r], diskNames[r]) \subseteq SUBSET Entries
      BY RunFacts DEF AfterPowerLoss
    <3> QED
      BY <3>1, <1>2
  <2>2. names' \in [Runs -> SUBSET Entries]
    BY <1>2, <2>1
  <2>3. owner' \in {"none", "empty", "full"}
    BY <1>1 DEF LocalRunIInv, TypeOK
  <2>4. open' \in [Runs -> SUBSET {"workspaces", "engine"}]
    BY <1>3
  <2>5. place' \in [Runs -> Places] /\ diskPlace' \in [Runs -> Places]
    BY <1>1
  <2>6. pc' \in [Runs -> Phases]
    BY <1>3 DEF Phases, Ended
  <2>7. answer' \in [Runs -> {"none", "ok", "failed", "invalid-request", "cleanup-failed"}]
    BY <1>3 DEF LocalRunIInv, TypeOK
  <2>8. diskNames' \in [Runs -> SUBSET Entries]
    BY <1>3, <2>2
  <2> QED
    BY <2>2, <2>3, <2>4, <2>5, <2>6, <2>7, <2>8 DEF TypeOK, Entries
<1>5. ASSUME NEW r \in Runs PROVE RunInv(r)'
  <2>1. /\ RunInv(r) /\ pc'[r] \in Ended /\ (pc'[r] = "done" <=> pc[r] = "done") /\ open'[r] = {}
        /\ answer'[r] = answer[r] /\ place'[r] = w[r] /\ diskPlace'[r] = w[r]
    BY <1>1, <1>3 DEF LocalRunIInv, Ended
  <2>2. w[r] = "output" => names'[r] = FinalTree /\ diskNames'[r] = FinalTree
    <3> SUFFICES ASSUME w[r] = "output" PROVE names'[r] = FinalTree
      BY <1>3
    <3>1. place[r] = "output"
      BY <1>1, <2>1 DEF RunInv, DiskInv, AtOutput
    <3>2. names[r] = FinalTree /\ diskNames[r] = FinalTree
      BY <2>1, <3>1 DEF RunInv, TreeInv
    <3>3. names'[r] = left /\ left \in AfterPowerLoss(FinalTree, FinalTree)
      BY <1>2, <3>2 DEF AtOutput
    <3> QED
      BY <3>3 DEF AfterPowerLoss
  <2>3. answer[r] = "ok" => w[r] = "output"
    BY <1>1, <2>1 DEF RunInv, AnswerInv
  <2>4. pc'[r] \in Phases /\ (answer'[r] = "none" <=> pc'[r] # "done")
    BY <2>1 DEF RunInv, AnswerInv, Phases
  <2> QED
    BY <2>1, <2>2, <2>3, <2>4
       DEF RunInv, PlaceInv, TreeInv, OpenInv, AnswerInv, DiskInv, Building, Ended, Phases
<1>6. WithdrawnOnDisk'
  BY <1>3 DEF WithdrawnOnDisk, Ended
<1>7. owner' # "none" => \A r \in Runs : ~AtOutput(place'[r])
  BY <1>1
<1> QED
  BY <1>1, <1>4, <1>5, <1>6, <1>7 DEF LocalRunIInv

-----------------------------------------------------------------------------
(* The theorems.                                                           *)

LEMMA RunStepInv == ASSUME LocalRunIInv, NEW r \in Runs, RunStep(r) PROVE LocalRunIInv'
<1>1. CASE Validate(r) \/ CreateStaging(r)
  BY <1>1, ValidateInv, CreateStagingInv
<1>2. CASE MakeWorkDirs(r) \/ Prepare(r) \/ OpenEngine(r) \/ ExecuteAndCommit(r)
  BY <1>2, MakeWorkDirsInv, PrepareInv, OpenEngineInv, ExecuteAndCommitInv
<1>3. CASE CloseResources(r) \/ Relocate(r) \/ Inspect(r) \/ WriteOutputs(r)
  BY <1>3, CloseResourcesInv, RelocateInv, InspectInv, WriteOutputsInv
<1>4. CASE RemoveWorkDirs(r) \/ VerifyTree(r) \/ SyncStaging(r) \/ LstatOutput(r)
  BY <1>4, RemoveWorkDirsInv, VerifyTreeInv, SyncStagingInv, LstatOutputInv
<1>5. CASE Rename(r) \/ SyncParent(r) \/ Withdraw(r) \/ UnwindAll(r)
  BY <1>5, RenameInv, SyncParentInv, WithdrawInv, UnwindAllInv
<1> QED
  BY <1>1, <1>2, <1>3, <1>4, <1>5 DEF RunStep

LEMMA LocalRunStepInv == LocalRunIInv /\ [Next]_vars => LocalRunIInv'
<1> SUFFICES ASSUME LocalRunIInv, [Next]_vars PROVE LocalRunIInv'
  OBVIOUS
<1>1. ASSUME NEW r \in Runs, RunStep(r) PROVE LocalRunIInv'
  BY <1>1, RunStepInv
<1>2. ASSUME NEW r \in Runs, Kill(r) PROVE LocalRunIInv'
  BY <1>2, KillInv
<1>3. CASE OwnerMakes \/ PowerLoss
  BY <1>3, OwnerMakesInv, PowerLossInv
<1>4. CASE UNCHANGED vars
  <2>1. \A r \in Runs : RunInv(r)'
    BY <1>4 DEF vars, LocalRunIInv, RunInv, PlaceInv, TreeInv, OpenInv, AnswerInv, DiskInv
  <2> QED
    BY <1>4, <2>1 DEF vars, LocalRunIInv, TypeOK, WithdrawnOnDisk
<1> QED
  BY <1>1, <1>2, <1>3, <1>4 DEF Next

\* The inductive invariant itself.
THEOREM LocalRunIsInductive == Spec => []LocalRunIInv
BY LocalRunInitInv, LocalRunStepInv, PTL DEF Spec

\* Whoever looks at the output path, at any moment and after any failure, kill or loss of
\* power, finds no directory of a run, a whole one of a single run, or one that is being
\* taken back (Run: the tree is verified and synced before the rename).
THEOREM OutputAlwaysWhole == Spec => []LocalRunInvariant
<1>1. LocalRunIInv => LocalRunInvariant
  BY DEF LocalRunIInv, LocalRunInvariant, OutputIsWhole, RunInv, TreeInv
<1> QED
  BY <1>1, LocalRunIsInductive, PTL

\* Once Run has returned success its output stays, whole: no other run for the same path
\* replaces it and no loss of power undoes it, because the parent was synced before.
THEOREM SuccessIsDurable == Spec => []SuccessLasts
<1>1. LocalRunIInv => SuccessLasts
  BY DEF LocalRunIInv, SuccessLasts, RunInv, TreeInv, AnswerInv
<1> QED
  BY <1>1, LocalRunIsInductive, PTL

\* The owner's files at the output path survive every run, although Lstat and rename are
\* two calls: rename(2) refuses a directory that is not empty.
THEOREM OwnersFilesAreKept == Spec => OwnersFilesStay
<1>1. LocalRunIInv /\ [Next]_vars => [owner = "full" => owner' = "full"]_vars
  <2> SUFFICES ASSUME LocalRunIInv, Next, owner = "full" PROVE owner' = "full"
    OBVIOUS
  <2>1. \A r \in Runs : ~AtOutput(place[r]) /\ ~AtOutput(diskPlace[r])
    BY DEF LocalRunIInv, RunInv, DiskInv
  <2>2. ASSUME NEW r \in Runs, RunStep(r) PROVE owner' = "full"
    BY <2>2 DEF RunStep, Validate, CreateStaging, MakeWorkDirs, Prepare, OpenEngine, ExecuteAndCommit,
                CloseResources, Relocate, Inspect, WriteOutputs, RemoveWorkDirs, VerifyTree,
                SyncStaging, LstatOutput, Rename, RenameWorks, SyncParent, Withdraw, UnwindAll
  <2>3. ASSUME NEW r \in Runs, Kill(r) PROVE owner' = "full"
    BY <2>3 DEF Kill
  <2>4. CASE OwnerMakes
    BY <2>4 DEF OwnerMakes, OutputExists
  <2>5. CASE PowerLoss
    BY <2>1, <2>5 DEF PowerLoss
  <2> QED
    BY <2>2, <2>3, <2>4, <2>5 DEF Next
<1> QED
  BY <1>1, LocalRunIsInductive, PTL DEF Spec, OwnersFilesStay

\* Whatever call fails, Run returns only when its workspaces and the Docker client are
\* closed, and a staging directory it could not remove is reported (the deferred calls).
THEOREM RunsCleanUp == Spec => NothingLeftBehind
<1> DEFINE Returned(r) == pc[r] # "done" /\ pc'[r] = "done" =>
                            /\ open'[r] = {}
                            /\ place'[r] = "staging" => answer'[r] = "cleanup-failed"
<1>1. LocalRunIInv /\ [Next]_vars => [\A r \in Runs : Returned(r)]_vars
  <2> SUFFICES ASSUME LocalRunIInv, Next, NEW r \in Runs, pc[r] # "done", pc'[r] = "done"
               PROVE  open'[r] = {} /\ (place'[r] = "staging" => answer'[r] = "cleanup-failed")
    OBVIOUS
  <2>1. LocalRunIInv' /\ open'[r] = {}
    BY LocalRunStepInv DEF LocalRunIInv, RunInv, OpenInv
  <2>2. pc \in [Runs -> Phases] /\ RunInv(r)
    BY DEF LocalRunIInv
  <2>3. ASSUME NEW q \in Runs, RunStep(q), q # r PROVE pc'[r] = pc[r]
    BY <2>2, <2>3 DEF RunStep, Step, Goto, Returns, Validate, CreateStaging, MakeWorkDirs, Prepare,
                OpenEngine, ExecuteAndCommit, CloseResources, Relocate, Inspect, WriteOutputs,
                RemoveWorkDirs, VerifyTree, SyncStaging, LstatOutput, Rename, SyncParent, Withdraw, UnwindAll
  <2>4. CASE MakeWorkDirs(r) \/ Prepare(r) \/ OpenEngine(r) \/ ExecuteAndCommit(r) \/ CloseResources(r)
    BY <2>2, <2>4 DEF Step, Goto, MakeWorkDirs, Prepare, OpenEngine, ExecuteAndCommit, CloseResources
  <2>5. CASE Relocate(r) \/ Inspect(r) \/ WriteOutputs(r) \/ RemoveWorkDirs(r) \/ VerifyTree(r)
    BY <2>2, <2>5 DEF Step, Goto, Relocate, Inspect, WriteOutputs, RemoveWorkDirs, VerifyTree
  <2>6. CASE SyncStaging(r) \/ LstatOutput(r) \/ Rename(r)
    BY <2>2, <2>6 DEF Goto, SyncStaging, LstatOutput, Rename
  <2>7. CASE Validate(r) \/ CreateStaging(r)
    <3>1. place[r] = "none"
      BY <2>2, <2>7 DEF Validate, CreateStaging, RunInv, PlaceInv
    <3>2. place'[r] # "staging"
      BY <2>2, <2>7, <3>1 DEF Validate, CreateStaging, Goto, disk
    <3> QED
      BY <2>1, <3>2
  <2>8. CASE SyncParent(r)
    <3>1. place[r] = "output"
      BY <2>2, <2>8 DEF SyncParent, RunInv, PlaceInv
    <3>2. place'[r] # "staging"
      BY <2>8, <3>1 DEF SyncParent, LocalRunIInv, TypeOK
    <3> QED
      BY <2>1, <3>2
  <2>9. CASE Withdraw(r)
    <3>1. place[r] \in {"withdrawn", "none"}
      BY <2>2, <2>9 DEF Withdraw, RunInv, PlaceInv
    <3>2. place'[r] # "staging"
      BY <2>9, <3>1 DEF Withdraw, LocalRunIInv, TypeOK
    <3> QED
      BY <2>1, <3>2
  <2>10. CASE UnwindAll(r)
    BY <2>1, <2>10 DEF UnwindAll, Returns, LocalRunIInv, TypeOK
  <2>11. ~RunStep(r) => pc'[r] = pc[r] \/ pc'[r] = "killed"
    <3>1. ASSUME NEW q \in Runs, Kill(q) PROVE pc'[r] \in {pc[r], "killed"}
      BY <2>2, <3>1 DEF Kill, Goto
    <3>2. CASE OwnerMakes \/ PowerLoss
      BY <3>2 DEF OwnerMakes, PowerLoss
    <3> QED
      BY <2>3, <3>1, <3>2 DEF Next
  <2> QED
    BY <2>4, <2>5, <2>6, <2>7, <2>8, <2>9, <2>10, <2>11 DEF RunStep
<1> QED
  BY <1>1, LocalRunIsInductive, PTL DEF Spec, NothingLeftBehind
=============================================================================
