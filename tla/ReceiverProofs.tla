--------------------------- MODULE ReceiverProofs ---------------------------
(***************************************************************************)
(* The safety of Receiver, for any connections, requests, limits and       *)
(* timeouts.                                                               *)
(*                                                                         *)
(* Every step of the receiver is a step of the inbox or leaves it alone,   *)
(* so ReceiverSpec implements InboxSpec and the invariant of StoreProofs   *)
(* holds.  On top of it: an answer is true from the moment its status is   *)
(* chosen (PromisesHold), a check that a request is past has been passed   *)
(* (ConnInv), both semaphores count what is held (RequestSlots,            *)
(* ServerInv), and Shutdown forgets a connection only when its goroutine   *)
(* has left the handler for good (ConnInv, ServerInv).                     *)
(***************************************************************************)
EXTENDS Receiver, StoreProofs, FiniteSetTheorems

Holding == {c \in Conns : conn[c].holds}
Opened == {c \in Conns : conn[c].pc \notin {"none", "untrack", "done"}}

\* What an answer says about the recorded deliveries db.
Truthful(db, q, status, forced) ==
  /\ status = 202 => q.flaw = "none" /\ db[q.id].body = q.body
  /\ status = 409 => db[q.id].body \notin {None, q.body}
  /\ status = 401 => q.flaw = "signature" \/ forced

\* The goroutine of one connection.
ConnInv(k) ==
  /\ k.pc \in InHandler => k.req \in Requests
  /\ k.pc \in {"body", "verify", "accept"} => k.req.flaw # "route"
  /\ k.pc \in {"verify", "accept"} => k.req.flaw # "header"
  /\ k.pc = "accept" => k.req.flaw = "none"
  /\ k.pc \in {"respond", "flush"} => k.status \in Statuses
  /\ k.holds => k.pc \in {"body", "verify", "accept", "respond"}
  /\ k.state = "idle" => k.pc \in {"wait", "close", "closing", "untrack"}
  /\ k.dropped => k.pc \in {"close", "closing", "untrack"}

\* An answer that was chosen is true, and stays true until it is written.
PromisesHold ==
  \A c \in Conns : conn[c].pc \in {"respond", "flush"} =>
                     Truthful(inbox, conn[c].req, conn[c].status, server.timedOut)

RequestSlots == IsFiniteSet(Holding) /\ active = Cardinality(Holding)

\* What the phases of the server know about the connections.
ServerInv ==
  /\ server.pc = "down" => sem = 0 /\ \A c \in Conns : conn[c].pc \in {"none", "done"}
  /\ server.pc = "serving" =>
       /\ IsFiniteSet(Opened) /\ sem = Cardinality(Opened)
       /\ \A c \in Opened : conn[c].release
  /\ server.pc \in {"closing", "releasing"} =>
       server.victim \in Conns /\ conn[server.victim].pc \in {"close", "closing", "untrack"}
  /\ server.pc \in {"drained", "closed", "zeroed"} /\ ~server.timedOut =>
       \A c \in Conns : conn[c].pc \notin InHandler \cup {"wait"}

ReceiverIInv ==
  /\ IInv /\ ReceiverTypeOK
  /\ \A c \in Conns : ConnInv(conn[c])
  /\ PromisesHold /\ AnswersAreTruthful
  /\ RequestSlots /\ ServerInv

-----------------------------------------------------------------------------
(* What the receiver does to the inbox.                                    *)

LEMMA RequestFacts ==
  ASSUME NEW q \in Requests
  PROVE  q.id \in Deliveries /\ q.body \in Bodies /\ q.body # None /\ q.flaw \in Flaws
BY ReceiverAssumption, InboxAssumption DEF Request

\* Every step is a step of the store, or does not touch it.
LEMMA StepUsesInbox ==
  ASSUME ReceiverIInv, [ReceiverNext]_receiverVars
  PROVE  [InboxNext]_inboxVars
<1>1. openStores \subseteq Receivers
  BY DEF ReceiverIInv, IInv, InboxTypeOK
<1>2. ASSUME NEW r \in Receivers, Open(r) \/ Close(r) PROVE [InboxNext]_inboxVars
  BY <1>2 DEF InboxNext
<1>3. ASSUME NEW r \in Receivers, NEW d \in Deliveries, NEW b \in Bodies, Accept(r, d, b)
      PROVE  [InboxNext]_inboxVars
  BY <1>3 DEF InboxNext
<1>4. CASE ReceiverTick
  BY <1>4 DEF ReceiverTick, InboxNext
<1>5. ASSUME NEW r \in Receivers, NewServer(r) PROVE [InboxNext]_inboxVars
  BY <1>2, <1>5 DEF NewServer
<1>6. ASSUME NEW c \in Conns, StoreDelivery(c) PROVE [InboxNext]_inboxVars
  <2>1. conn[c].req \in Requests
    BY <1>6 DEF ReceiverIInv, ConnInv, StoreDelivery, InHandler
  <2> QED
    BY <1>3, <1>6, <2>1, RequestFacts DEF StoreDelivery
<1>7. ASSUME NEW c \in Conns, AcceptConn(c) \/ Hangup(c) \/ ConnStep(c) PROVE [InboxNext]_inboxVars
  BY <1>6, <1>7 DEF AcceptConn, Hangup, ConnStep, Admit, ReadBody, Verify, StoreFails, Return, Flush,
                    CloseChecks, CloseReleases, Untrack
<1>8. ASSUME NEW c \in Conns, NEW q \in Requests, SendRequest(c, q) PROVE [InboxNext]_inboxVars
  BY <1>8 DEF SendRequest
<1>9. CASE CloseStore \/ Crash
  BY <1>1, <1>2, <1>9 DEF CloseStore, Crash
<1>10. CASE RemoveSocket \/ Signal \/ ShutdownStep
  BY <1>9, <1>10 DEF RemoveSocket, Signal, ShutdownStep, ShutdownCloses, ShutdownChecks, ShutdownReleases,
                     ShutdownDrained, ShutdownExpires, ZeroSecrets, Exit
<1>11. CASE UNCHANGED receiverVars
  BY <1>11 DEF receiverVars
<1> QED
  BY <1>4, <1>5, <1>7, <1>8, <1>9, <1>10, <1>11 DEF ReceiverNext

\* A recorded content stays, so what an answer says of it stays true.
LEMMA TruthIsKept ==
  ASSUME IInv, [InboxNext]_inboxVars, NEW q \in Requests, NEW status, NEW forced,
         Truthful(inbox, q, status, forced)
  PROVE  Truthful(inbox', q, status, forced)
<1>1. q.id \in Deliveries /\ q.body # None
  BY RequestFacts
<1>2. inbox[q.id].body # None => inbox'[q.id].body = inbox[q.id].body
  BY <1>1, FirstContentStep
<1> QED
  BY <1>1, <1>2 DEF Truthful

LEMMA AnswersAreKept ==
  ASSUME ReceiverIInv, [InboxNext]_inboxVars, NEW a \in answers
  PROVE  Truthful(inbox', a.req, a.status, a.forced)
<1>1. a.req \in Requests
  BY DEF ReceiverIInv, ReceiverTypeOK, Answer
<1>2. Truthful(inbox, a.req, a.status, a.forced)
  BY DEF ReceiverIInv, AnswersAreTruthful, Truthful
<1> QED
  BY <1>1, <1>2, TruthIsKept DEF ReceiverIInv

LEMMA ReceiverInitInv == ReceiverInit => ReceiverIInv
<1> SUFFICES ASSUME ReceiverInit PROVE ReceiverIInv
  OBVIOUS
<1>1. IInv
  BY InitInv DEF ReceiverInit
<1>2. \A c \in Conns : conn[c] = NoConn
  BY DEF ReceiverInit
<1>3. NoConn \in Conn
  BY DEF NoConn, Conn, ConnSteps
<1>4. ReceiverTypeOK
  <2>1. conn \in [Conns -> Conn]
    BY <1>3 DEF ReceiverInit
  <2>2. sem \in 0..MaxActiveConnections /\ active \in 0..MaxActiveRequests /\ requests \in 0..MaxRequests
    BY ReceiverAssumption, InboxAssumption DEF ReceiverInit
  <2>3. server \in [pc : ServerSteps, deadline : Nat, victim : Conns \cup {None},
                    timedOut : BOOLEAN, socket : BOOLEAN, starts : 0..MaxStarts]
    BY ReceiverAssumption DEF ReceiverInit, ServerSteps
  <2> QED
    BY <1>1, <2>1, <2>2, <2>3 DEF ReceiverTypeOK, IInv, ReceiverInit
<1>5. \A c \in Conns : ConnInv(conn[c])
  BY <1>2 DEF NoConn, ConnInv, InHandler
<1>6. PromisesHold /\ AnswersAreTruthful
  BY <1>2 DEF NoConn, PromisesHold, AnswersAreTruthful, ReceiverInit
<1>7. RequestSlots
  <2>1. Holding = {}
    BY <1>2 DEF Holding, NoConn
  <2> QED
    BY <2>1, FS_EmptySet DEF RequestSlots, ReceiverInit
<1>8. ServerInv
  BY <1>2 DEF ServerInv, NoConn, ReceiverInit
<1> QED
  BY <1>1, <1>4, <1>5, <1>6, <1>7, <1>8 DEF ReceiverIInv

-----------------------------------------------------------------------------
(* A step of one connection, while the server stays in its phase.          *)

ConnOpen(k) == k.pc \notin {"none", "untrack", "done"}

LEMMA ConnFacts ==
  ASSUME ReceiverIInv, NEW c \in Conns
  PROVE  /\ conn[c] \in Conn /\ ConnInv(conn[c])
         /\ sem \in 0..MaxActiveConnections /\ active \in 0..MaxActiveRequests
         /\ now \in Nat /\ requests \in 0..MaxRequests
BY ClockAssumption DEF ReceiverIInv, ReceiverTypeOK, IInv, InboxTypeOK, ClockTypeOK

\* The handler that takes or returns a token of Handler.active accounts for exactly one.
LEMMA RequestSlotsAfterOne ==
  ASSUME RequestSlots, NEW c \in Conns, \A e \in Conns : e # c => conn'[e] = conn[e],
         active' = IF conn[c].holds THEN IF conn'[c].holds THEN active ELSE active - 1
                   ELSE IF conn'[c].holds THEN active + 1 ELSE active
  PROVE  RequestSlots' /\ active' \in Nat
<1>1. Holding' = IF conn'[c].holds THEN Holding \cup {c} ELSE Holding \ {c}
  BY DEF Holding
<1>2. c \in Holding <=> conn[c].holds
  BY DEF Holding
<1>3. IsFiniteSet(Holding) /\ active = Cardinality(Holding) /\ Cardinality(Holding) \in Nat
  BY FS_CardinalityType DEF RequestSlots
<1>4. IsFiniteSet(Holding') /\ active' = Cardinality(Holding')
  <2>1. CASE conn'[c].holds
    BY <1>1, <1>2, <1>3, <2>1, FS_AddElement
  <2>2. CASE ~conn'[c].holds
    BY <1>1, <1>2, <1>3, <2>2, FS_RemoveElement
  <2> QED
    BY <2>1, <2>2
<1> QED
  BY <1>4, FS_CardinalityType DEF RequestSlots

\* ... and the connection that takes or returns one of limitedListener.sem.
LEMMA ConnSlotsAfterOne ==
  ASSUME IsFiniteSet(Opened), sem = Cardinality(Opened), NEW c \in Conns,
         \A e \in Conns : e # c => conn'[e] = conn[e],
         sem' = IF ConnOpen(conn[c]) THEN IF ConnOpen(conn'[c]) THEN sem ELSE sem - 1
                ELSE IF ConnOpen(conn'[c]) THEN sem + 1 ELSE sem
  PROVE  IsFiniteSet(Opened') /\ sem' = Cardinality(Opened')
<1>1. Opened' = IF ConnOpen(conn'[c]) THEN Opened \cup {c} ELSE Opened \ {c}
  BY DEF Opened, ConnOpen
<1>2. c \in Opened <=> ConnOpen(conn[c])
  BY DEF Opened, ConnOpen
<1>3. Cardinality(Opened) \in Nat
  BY FS_CardinalityType
<1>4. CASE ConnOpen(conn'[c])
  BY <1>1, <1>2, <1>3, <1>4, FS_AddElement
<1>5. CASE ~ConnOpen(conn'[c])
  BY <1>1, <1>2, <1>3, <1>5, FS_RemoveElement
<1> QED
  BY <1>4, <1>5

\* Replacing the record of one connection by n.
LEMMA OneConnection ==
  ASSUME ReceiverIInv, [InboxNext]_inboxVars, NEW c \in Conns, NEW n \in Conn,
         conn' = [conn EXCEPT ![c] = n], server' = server, server.pc # "down",
         sem' \in 0..MaxActiveConnections, active' <= MaxActiveRequests,
         requests' \in 0..MaxRequests, ConnInv(n),
         n.pc \in {"respond", "flush"} => Truthful(inbox', n.req, n.status, server.timedOut),
         answers' = answers \/ \E a \in Answer : /\ answers' = answers \cup {a}
                                                /\ Truthful(inbox', a.req, a.status, a.forced),
         active' = IF conn[c].holds THEN IF n.holds THEN active ELSE active - 1
                   ELSE IF n.holds THEN active + 1 ELSE active,
         server.pc = "serving" =>
           /\ sem' = IF ConnOpen(conn[c]) THEN IF ConnOpen(n) THEN sem ELSE sem - 1
                     ELSE IF ConnOpen(n) THEN sem + 1 ELSE sem
           /\ ConnOpen(n) => n.release,
         server.pc \in {"closing", "releasing"} /\ server.victim = c =>
           n.pc \in {"close", "closing", "untrack"},
         server.pc \in {"drained", "closed", "zeroed"} /\ ~server.timedOut =>
           n.pc \notin InHandler \cup {"wait"}
  PROVE  ReceiverIInv'
<1>1. IInv' /\ InboxTypeOK'
  BY StepInv DEF ReceiverIInv, IInv
<1>2. conn' \in [Conns -> Conn] /\ conn'[c] = n /\ \A e \in Conns : e # c => conn'[e] = conn[e]
  BY DEF ReceiverIInv, ReceiverTypeOK
<1>3. RequestSlots' /\ active' \in Nat
  BY <1>2, RequestSlotsAfterOne DEF ReceiverIInv
<1>4. ReceiverTypeOK'
  <2>1. answers' \subseteq Answer
    BY DEF ReceiverIInv, ReceiverTypeOK
  <2>2. active' \in 0..MaxActiveRequests
    BY <1>3, ReceiverAssumption
  <2>3. Answer' = Answer /\ Conn' = Conn
    BY DEF Answer, Conn
  <2> QED
    BY <1>1, <1>2, <2>1, <2>2, <2>3 DEF ReceiverIInv, ReceiverTypeOK
<1>5. \A e \in Conns : ConnInv(conn'[e])
  BY <1>2 DEF ReceiverIInv
<1>6. PromisesHold'
  <2> SUFFICES ASSUME NEW e \in Conns, conn'[e].pc \in {"respond", "flush"}
               PROVE  Truthful(inbox', conn'[e].req, conn'[e].status, server.timedOut)
    BY DEF PromisesHold
  <2>1. CASE e = c
    BY <1>2, <2>1
  <2>2. CASE e # c
    <3>1. conn'[e] = conn[e] /\ conn[e].req \in Requests
      BY <1>2, <2>2 DEF ReceiverIInv, ConnInv, InHandler
    <3>2. Truthful(inbox, conn[e].req, conn[e].status, server.timedOut)
      BY <3>1 DEF ReceiverIInv, PromisesHold
    <3>3. Truthful(inbox', conn[e].req, conn[e].status, server.timedOut)
      BY <3>1, <3>2, TruthIsKept DEF ReceiverIInv
    <3> QED
      BY <3>1, <3>3
  <2> QED
    BY <2>1, <2>2
<1>7. AnswersAreTruthful'
  BY AnswersAreKept DEF AnswersAreTruthful, Truthful
<1>8. ServerInv'
  <2>1. CASE server.pc = "serving"
    <3>1. IsFiniteSet(Opened) /\ sem = Cardinality(Opened) /\ \A e \in Opened : conn[e].release
      BY <2>1 DEF ReceiverIInv, ServerInv
    <3>2. IsFiniteSet(Opened') /\ sem' = Cardinality(Opened')
      BY <1>2, <2>1, <3>1, ConnSlotsAfterOne
    <3>3. \A e \in Opened' : conn'[e].release
      BY <1>2, <2>1, <3>1 DEF Opened, ConnOpen
    <3> QED
      BY <2>1, <3>2, <3>3 DEF ServerInv
  <2>2. CASE server.pc # "serving"
    BY <1>2, <2>2 DEF ReceiverIInv, ServerInv
  <2> QED
    BY <2>1, <2>2
<1> QED
  BY <1>1, <1>3, <1>4, <1>5, <1>6, <1>7, <1>8 DEF ReceiverIInv

\* A goroutine that runs, runs in a process that is up.
LEMMA RunsInProcess ==
  ASSUME ReceiverIInv, NEW c \in Conns, conn[c].pc \notin {"none", "done"}
  PROVE  /\ server.pc # "down"
         /\ server.pc = "serving" /\ conn[c].pc # "untrack" => conn[c].release
         /\ conn[c].pc \notin {"close", "closing", "untrack"} =>
              ~(server.pc \in {"closing", "releasing"} /\ server.victim = c)
         /\ conn[c].pc \in InHandler \cup {"wait"} =>
              ~(server.pc \in {"drained", "closed", "zeroed"} /\ ~server.timedOut)
BY DEF ReceiverIInv, ServerInv, Opened

\* A step within the handler that takes and returns no slot.
LEMMA HandlerPhase ==
  ASSUME ReceiverIInv, [InboxNext]_inboxVars, NEW c \in Conns, NEW n \in Conn,
         conn' = [conn EXCEPT ![c] = n], UNCHANGED <<sem, active, server, answers, requests>>,
         conn[c].pc \in {"handle", "body", "verify", "accept"},
         n.pc \in {"verify", "accept", "respond"}, n.req = conn[c].req, n.state = conn[c].state,
         n.holds = conn[c].holds, n.release = conn[c].release, n.dropped = conn[c].dropped,
         n.pc \in {"verify", "accept"} => n.req.flaw \notin {"route", "header"},
         n.pc = "accept" => n.req.flaw = "none",
         n.pc = "respond" => /\ n.status \in Statuses
                             /\ Truthful(inbox', n.req, n.status, server.timedOut)
  PROVE  ReceiverIInv'
<1>1. ConnInv(n)
  BY ConnFacts DEF ConnInv, InHandler
<1>2. /\ server.pc # "down" /\ (server.pc = "serving" => n.release)
      /\ ~(server.pc \in {"closing", "releasing"} /\ server.victim = c)
      /\ ~(server.pc \in {"drained", "closed", "zeroed"} /\ ~server.timedOut)
  BY RunsInProcess DEF InHandler
<1>3. ConnOpen(conn[c]) /\ ConnOpen(n)
  BY DEF ConnOpen
<1>4. /\ sem' \in 0..MaxActiveConnections /\ active' <= MaxActiveRequests
      /\ requests' \in 0..MaxRequests
  BY ConnFacts
<1> QED
  BY <1>1, <1>2, <1>3, <1>4, OneConnection

\* The handler chooses its answer.
LEMMA ReplyInv ==
  ASSUME ReceiverIInv, [InboxNext]_inboxVars, NEW c \in Conns, NEW status \in Statuses,
         Reply(c, status), UNCHANGED <<sem, active, server, answers, requests>>,
         conn[c].pc \in {"handle", "body", "verify", "accept"},
         Truthful(inbox', conn[c].req, status, server.timedOut)
  PROVE  ReceiverIInv'
<1> DEFINE n == [conn[c] EXCEPT !.pc = "respond", !.status = status]
<1>1. conn[c] \in Conn
  BY ConnFacts
<1>2. /\ n \in Conn /\ n.pc = "respond" /\ n.status = status /\ n.req = conn[c].req
      /\ n.state = conn[c].state /\ n.holds = conn[c].holds /\ n.release = conn[c].release
      /\ n.dropped = conn[c].dropped
  BY <1>1 DEF Conn, ConnSteps, InHandler
<1>3. conn' = [conn EXCEPT ![c] = n]
  BY <1>1 DEF Reply, ReceiverIInv, ReceiverTypeOK, Conn
<1> HIDE DEF n
<1> QED
  BY <1>2, <1>3, HandlerPhase

LEMMA PassInv ==
  ASSUME ReceiverIInv, [InboxNext]_inboxVars, NEW c \in Conns, NEW p \in {"verify", "accept"},
         conn' = [conn EXCEPT ![c].pc = p], UNCHANGED <<sem, active, server, answers, requests>>,
         conn[c].pc \in {"handle", "body", "verify", "accept"},
         conn[c].req.flaw \notin {"route", "header"}, p = "accept" => conn[c].req.flaw = "none"
  PROVE  ReceiverIInv'
<1> DEFINE n == [conn[c] EXCEPT !.pc = p]
<1>1. conn[c] \in Conn
  BY ConnFacts
<1>2. /\ n \in Conn /\ n.pc = p /\ n.req = conn[c].req
      /\ n.state = conn[c].state /\ n.holds = conn[c].holds /\ n.release = conn[c].release
      /\ n.dropped = conn[c].dropped
  BY <1>1 DEF Conn, ConnSteps, InHandler
<1>3. conn' = [conn EXCEPT ![c] = n]
  BY <1>1 DEF ReceiverIInv, ReceiverTypeOK, Conn
<1> HIDE DEF n
<1>4. /\ n.pc \in {"verify", "accept", "respond"} /\ n.pc # "respond"
      /\ n.req.flaw \notin {"route", "header"} /\ (n.pc = "accept" => n.req.flaw = "none")
  BY <1>2
<1> QED
  BY <1>2, <1>3, <1>4, HandlerPhase

\* Statuses that say nothing about the inbox.
LEMMA PlainAnswers ==
  ASSUME NEW q, NEW status \in {400, 404, 503}, NEW forced
  PROVE  Truthful(inbox', q, status, forced) /\ status \in Statuses
BY DEF Truthful, Statuses

LEMMA ReadBodyInv == ASSUME ReceiverIInv, NEW c \in Conns, ReadBody(c) PROVE ReceiverIInv'
<1>1. /\ conn[c].pc = "body" /\ UNCHANGED <<sem, active, server, answers, requests>>
      /\ [InboxNext]_inboxVars
  BY DEF ReadBody
<1>2. CASE Reply(c, 400)
  BY <1>1, <1>2, ReplyInv, PlainAnswers
<1>3. CASE conn[c].req.flaw # "header" /\ conn' = [conn EXCEPT ![c].pc = "verify"]
  <2>1. conn[c].req.flaw # "route"
    BY <1>1, ConnFacts DEF ConnInv
  <2> QED
    BY <1>1, <1>3, <2>1, PassInv
<1> QED
  BY <1>2, <1>3 DEF ReadBody

\* A signature is refused wrongly only when the secrets were overwritten, which a handler
\* sees only after a shutdown that timed out.
LEMMA VerifyInv == ASSUME ReceiverIInv, NEW c \in Conns, Verify(c) PROVE ReceiverIInv'
<1>1. /\ conn[c].pc = "verify" /\ UNCHANGED <<sem, active, server, answers, requests>>
      /\ [InboxNext]_inboxVars /\ conn[c].req \in Requests /\ conn[c].pc \in InHandler
      /\ conn[c].req.flaw \notin {"route", "header"}
  BY ConnFacts DEF Verify, ConnInv, InHandler
<1>2. CASE (conn[c].req.flaw = "signature" \/ server.pc = "zeroed") /\ Reply(c, 401)
  <2>1. server.pc = "zeroed" => server.timedOut
    BY <1>1, RunsInProcess
  <2>2. Truthful(inbox', conn[c].req, 401, server.timedOut) /\ 401 \in Statuses
    BY <1>2, <2>1 DEF Truthful, Statuses
  <2> QED
    BY <1>1, <1>2, <2>2, ReplyInv
<1>3. CASE Reply(c, 400)
  BY <1>1, <1>3, ReplyInv, PlainAnswers
<1>4. CASE /\ conn[c].req.flaw \notin {"signature", "projection"}
           /\ conn' = [conn EXCEPT ![c].pc = "accept"]
  <2>1. conn[c].req.flaw = "none"
    BY <1>1, <1>4, RequestFacts DEF Flaws
  <2> QED
    BY <1>1, <1>4, <2>1, PassInv
<1> QED
  BY <1>2, <1>3, <1>4 DEF Verify

\* The status follows from what the transaction found, and the content it found or wrote
\* is the one that stays.
LEMMA StoreDeliveryInv == ASSUME ReceiverIInv, NEW c \in Conns, StoreDelivery(c) PROVE ReceiverIInv'
<1> DEFINE q == conn[c].req
           decision == AcceptDecision(q.id, q.body)
<1>1. /\ conn[c].pc = "accept" /\ UNCHANGED <<sem, active, server, answers, requests>>
      /\ q \in Requests /\ q.flaw = "none" /\ Reply(c, StatusFor(decision))
  BY ConnFacts DEF StoreDelivery, ConnInv, InHandler
<1>2. q.id \in Deliveries /\ q.body \in Bodies /\ q.body # None
  BY <1>1, RequestFacts
<1>3. PICK r \in Receivers : Accept(r, q.id, q.body)
  BY DEF StoreDelivery
<1>4. [InboxNext]_inboxVars
  BY <1>2, <1>3 DEF InboxNext
<1>5. Truthful(inbox', q, StatusFor(decision), server.timedOut)
  <2>1. inbox' = InboxAfter(r, q.id, q.body)
    BY <1>3 DEF Accept
  <2>2. inbox \in [Deliveries -> InboxRow]
    BY DEF ReceiverIInv, IInv, InboxTypeOK
  <2>3. CASE inbox[q.id].body = None
    <3>1. decision \in {"new-enqueued", "new-ignored"}
      BY <2>3 DEF AcceptDecision
    <3>2. inbox'[q.id].body = q.body
      BY <1>2, <2>1, <2>2, <3>1 DEF InboxAfter
    <3> QED
      BY <1>1, <3>1, <3>2 DEF Truthful, StatusFor
  <2>4. CASE inbox[q.id].body # None
    <3>1. inbox'[q.id].body = inbox[q.id].body
      BY <1>2, <1>4, <2>4, FirstContentStep DEF ReceiverIInv
    <3>2. StatusFor(decision) = IF inbox[q.id].body = q.body THEN 202 ELSE 409
      BY <2>4 DEF AcceptDecision, StatusFor
    <3> QED
      BY <1>1, <2>4, <3>1, <3>2 DEF Truthful
  <2> QED
    BY <2>3, <2>4
<1>6. StatusFor(decision) \in Statuses
  BY DEF StatusFor, Statuses
<1> HIDE DEF decision
<1> QED
  BY <1>1, <1>4, <1>5, <1>6, ReplyInv

LEMMA StoreFailsInv == ASSUME ReceiverIInv, NEW c \in Conns, StoreFails(c) PROVE ReceiverIInv'
<1>1. /\ conn[c].pc = "accept" /\ UNCHANGED <<sem, active, server, answers, requests>>
      /\ [InboxNext]_inboxVars /\ Reply(c, 503)
  BY DEF StoreFails
<1> QED
  BY <1>1, ReplyInv, PlainAnswers

\* The request slot is taken at admission and given back when the handler returns.
LEMMA AdmitInv == ASSUME ReceiverIInv, NEW c \in Conns, Admit(c) PROVE ReceiverIInv'
<1>1. /\ conn[c].pc = "handle" /\ UNCHANGED <<sem, server, answers, requests>>
      /\ [InboxNext]_inboxVars /\ conn[c].req \in Requests /\ ~conn[c].holds
  BY ConnFacts DEF Admit, ConnInv, InHandler
<1>2. CASE (Reply(c, 404) \/ Reply(c, 503)) /\ UNCHANGED active
  BY <1>1, <1>2, ReplyInv, PlainAnswers
<1>3. CASE /\ conn[c].req.flaw # "route" /\ RequestSlotFree /\ active' = active + 1
           /\ conn' = [conn EXCEPT ![c].pc = "body", ![c].holds = TRUE]
  <2> DEFINE n == [conn[c] EXCEPT !.pc = "body", !.holds = TRUE]
  <2>1. conn[c] \in Conn
    BY ConnFacts
  <2>2. /\ n \in Conn /\ n.pc = "body" /\ n.holds /\ n.req = conn[c].req /\ n.state = conn[c].state
        /\ n.release = conn[c].release /\ n.dropped = conn[c].dropped
    BY <2>1 DEF Conn, ConnSteps, InHandler
  <2>3. conn' = [conn EXCEPT ![c] = n]
    BY <1>3, <2>1 DEF ReceiverIInv, ReceiverTypeOK, Conn
  <2> HIDE DEF n
  <2>4. ConnInv(n)
    BY <1>1, <1>3, <2>2, ConnFacts DEF ConnInv, InHandler
  <2>5. ConnOpen(conn[c]) /\ ConnOpen(n)
    BY <1>1, <2>2 DEF ConnOpen
  <2>6. /\ sem' \in 0..MaxActiveConnections /\ active' <= MaxActiveRequests /\ requests' \in 0..MaxRequests
    <3>1. active \in Nat /\ active < MaxActiveRequests /\ MaxActiveRequests \in Nat
      BY <1>3, ConnFacts, ReceiverAssumption DEF RequestSlotFree
    <3>2. active' <= MaxActiveRequests
      BY <1>3, <3>1
    <3> QED
      BY <1>1, <3>2, ConnFacts
  <2>7. /\ server.pc # "down" /\ (server.pc = "serving" => n.release)
        /\ ~(server.pc \in {"closing", "releasing"} /\ server.victim = c)
        /\ ~(server.pc \in {"drained", "closed", "zeroed"} /\ ~server.timedOut)
    BY <1>1, <2>2, RunsInProcess DEF InHandler
  <2> QED
    BY <1>1, <1>3, <2>2, <2>3, <2>4, <2>5, <2>6, <2>7, OneConnection
<1> QED
  BY <1>2, <1>3 DEF Admit

LEMMA ReturnInv == ASSUME ReceiverIInv, NEW c \in Conns, Return(c) PROVE ReceiverIInv'
<1> DEFINE n == [conn[c] EXCEPT !.pc = "flush", !.holds = FALSE]
<1>1. /\ conn[c].pc = "respond" /\ UNCHANGED <<sem, server, answers, requests>>
      /\ [InboxNext]_inboxVars /\ UNCHANGED inbox /\ conn[c] \in Conn
      /\ active' = IF conn[c].holds THEN active - 1 ELSE active
  BY ConnFacts DEF Return, inboxVars
<1>2. /\ n \in Conn /\ n.pc = "flush" /\ ~n.holds /\ n.req = conn[c].req /\ n.state = conn[c].state
      /\ n.release = conn[c].release /\ n.dropped = conn[c].dropped /\ n.status = conn[c].status
  BY <1>1 DEF Conn, ConnSteps, InHandler
<1>3. conn' = [conn EXCEPT ![c] = n]
  BY <1>1 DEF Return, ReceiverIInv, ReceiverTypeOK, Conn
<1> HIDE DEF n
<1>4. ConnInv(n)
  BY <1>1, <1>2, ConnFacts DEF ConnInv, InHandler
<1>5. ConnOpen(conn[c]) /\ ConnOpen(n)
  BY <1>1, <1>2 DEF ConnOpen
<1>6. /\ sem' \in 0..MaxActiveConnections /\ active' <= MaxActiveRequests /\ requests' \in 0..MaxRequests
  <2>1. active \in Nat /\ active <= MaxActiveRequests /\ MaxActiveRequests \in Nat
    BY ConnFacts, ReceiverAssumption
  <2>2. active' <= MaxActiveRequests
    BY <1>1, <2>1
  <2> QED
    BY <1>1, <2>2, ConnFacts
<1>7. /\ server.pc # "down" /\ (server.pc = "serving" => n.release)
      /\ ~(server.pc \in {"closing", "releasing"} /\ server.victim = c)
      /\ ~(server.pc \in {"drained", "closed", "zeroed"} /\ ~server.timedOut)
  BY <1>1, <1>2, RunsInProcess DEF InHandler
<1>8. Truthful(inbox', n.req, n.status, server.timedOut)
  BY <1>1, <1>2 DEF ReceiverIInv, PromisesHold
<1> QED
  BY <1>1, <1>2, <1>3, <1>4, <1>5, <1>6, <1>7, <1>8, OneConnection

\* The answer that is written is the one that was chosen, and still true.
LEMMA FlushInv == ASSUME ReceiverIInv, NEW c \in Conns, Flush(c) PROVE ReceiverIInv'
<1>1. /\ conn[c].pc = "flush" /\ UNCHANGED <<sem, active, server, requests>>
      /\ [InboxNext]_inboxVars /\ UNCHANGED inbox /\ conn[c] \in Conn /\ ~conn[c].holds
      /\ conn[c].req \in Requests /\ conn[c].status \in Statuses /\ ~conn[c].dropped
  BY ConnFacts DEF Flush, inboxVars, ConnInv, InHandler
<1>2. PICK p \in {"wait", "close"}, st \in {"idle", "active"} :
        /\ conn' = [conn EXCEPT ![c] = EndRequest(conn[c], p, st)]
        /\ st = "idle" => p = "wait"
  <2>1. CASE conn' = [conn EXCEPT ![c] = EndRequest(conn[c], "wait", "idle")]
    BY <2>1
  <2>2. CASE conn' = [conn EXCEPT ![c] = EndRequest(conn[c], "close", "active")]
    BY <2>2
  <2> QED
    BY <2>1, <2>2 DEF Flush
<1> DEFINE n == EndRequest(conn[c], p, st)
<1>3. /\ n \in Conn /\ n.pc = p /\ n.state = st /\ n.req = None /\ n.holds = conn[c].holds
      /\ n.release = conn[c].release /\ n.dropped = conn[c].dropped
  BY <1>1 DEF EndRequest, Conn, ConnSteps, InHandler
<1>4. conn' = [conn EXCEPT ![c] = n]
  BY <1>2
<1> HIDE DEF n
<1>5. n.pc \in {"wait", "close"} /\ (n.state = "idle" => n.pc = "wait")
  BY <1>2, <1>3
<1>6. ConnInv(n)
  BY <1>1, <1>3, <1>5 DEF ConnInv, InHandler
<1>7. ConnOpen(conn[c]) /\ ConnOpen(n)
  BY <1>1, <1>5 DEF ConnOpen
<1>8. /\ sem' \in 0..MaxActiveConnections /\ active' <= MaxActiveRequests /\ requests' \in 0..MaxRequests
  BY <1>1, ConnFacts
<1>9. /\ server.pc # "down" /\ (server.pc = "serving" => n.release)
      /\ ~(server.pc \in {"closing", "releasing"} /\ server.victim = c)
      /\ ~(server.pc \in {"drained", "closed", "zeroed"} /\ ~server.timedOut)
  BY <1>1, <1>3, RunsInProcess DEF InHandler
<1>10. answers' = answers \/ \E a \in Answer : /\ answers' = answers \cup {a}
                                               /\ Truthful(inbox', a.req, a.status, a.forced)
  <2>1. server.timedOut \in BOOLEAN
    BY DEF ReceiverIInv, ReceiverTypeOK
  <2>2. AnswerOf(c) \in Answer /\ AnswerOf(c).req = conn[c].req /\ AnswerOf(c).status = conn[c].status
        /\ AnswerOf(c).forced = server.timedOut
    BY <1>1, <2>1 DEF AnswerOf, Answer
  <2>3. Truthful(inbox', conn[c].req, conn[c].status, server.timedOut)
    BY <1>1 DEF ReceiverIInv, PromisesHold
  <2> QED
    BY <2>2, <2>3 DEF Flush
<1> QED
  BY <1>1, <1>3, <1>4, <1>5, <1>6, <1>7, <1>8, <1>9, <1>10, OneConnection

\* The listener: a slot for every connection that is kept.
LEMMA AcceptConnInv == ASSUME ReceiverIInv, NEW c \in Conns, AcceptConn(c) PROVE ReceiverIInv'
<1>1. /\ conn[c].pc = "none" /\ server.pc = "serving" /\ UNCHANGED <<active, server, answers, requests>>
      /\ [InboxNext]_inboxVars /\ conn[c] \in Conn /\ ~conn[c].holds /\ ~ConnOpen(conn[c])
  BY ConnFacts DEF AcceptConn, ConnInv, ConnOpen
<1>2. active' <= MaxActiveRequests /\ requests' \in 0..MaxRequests
  BY <1>1, ConnFacts
<1>3. CASE /\ SlotFree /\ sem' = sem + 1
           /\ conn' = [conn EXCEPT ![c].pc = "wait", ![c].release = TRUE]
  <2> DEFINE n == [conn[c] EXCEPT !.pc = "wait", !.release = TRUE]
  <2>1. /\ n \in Conn /\ n.pc = "wait" /\ n.release /\ n.req = conn[c].req /\ n.state = conn[c].state
        /\ n.holds = conn[c].holds /\ n.dropped = conn[c].dropped
    BY <1>1 DEF Conn, ConnSteps, InHandler
  <2>2. conn' = [conn EXCEPT ![c] = n]
    BY <1>1, <1>3 DEF ReceiverIInv, ReceiverTypeOK, Conn
  <2> HIDE DEF n
  <2>3. ConnInv(n) /\ ConnOpen(n)
    BY <1>1, <2>1, ConnFacts DEF ConnInv, InHandler, ConnOpen
  <2>4. sem' \in 0..MaxActiveConnections
    <3>1. sem \in Nat /\ sem < MaxActiveConnections /\ MaxActiveConnections \in Nat
      BY <1>3, ConnFacts, ReceiverAssumption DEF SlotFree
    <3> QED
      BY <1>3, <3>1
  <2> QED
    BY <1>1, <1>2, <1>3, <2>1, <2>2, <2>3, <2>4, OneConnection
<1>4. CASE conn' = [conn EXCEPT ![c] = Gone] /\ UNCHANGED sem
  <2>1. Gone \in Conn /\ Gone.pc = "done" /\ ~Gone.holds /\ ConnInv(Gone) /\ ~ConnOpen(Gone)
    BY DEF Gone, NoConn, Conn, ConnSteps, ConnInv, InHandler, ConnOpen
  <2>2. sem' \in 0..MaxActiveConnections
    BY <1>4, ConnFacts
  <2> QED
    BY <1>1, <1>2, <1>4, <2>1, <2>2, OneConnection
<1> QED
  BY <1>3, <1>4 DEF AcceptConn

LEMMA SendRequestInv ==
  ASSUME ReceiverIInv, NEW c \in Conns, NEW q \in Requests, SendRequest(c, q) PROVE ReceiverIInv'
<1> DEFINE n == [conn[c] EXCEPT !.pc = "handle", !.state = "active", !.req = q, !.since = now]
<1>1. /\ conn[c].pc = "wait" /\ UNCHANGED <<sem, active, server, answers>> /\ ~conn[c].holds
      /\ requests < MaxRequests /\ requests' = requests + 1
      /\ [InboxNext]_inboxVars /\ conn[c] \in Conn /\ now \in Nat /\ ~conn[c].dropped
  BY ConnFacts DEF SendRequest, ConnInv
<1>2. /\ n \in Conn /\ n.pc = "handle" /\ n.state = "active" /\ n.req = q /\ n.holds = conn[c].holds
      /\ n.release = conn[c].release /\ n.dropped = conn[c].dropped
  BY <1>1 DEF Conn, ConnSteps, InHandler
<1>3. conn' = [conn EXCEPT ![c] = n]
  BY <1>1 DEF SendRequest, ReceiverIInv, ReceiverTypeOK, Conn
<1> HIDE DEF n
<1>4. ConnInv(n) /\ ConnOpen(n) /\ ConnOpen(conn[c])
  BY <1>1, <1>2 DEF ConnInv, InHandler, ConnOpen
<1>5. sem' \in 0..MaxActiveConnections /\ active' <= MaxActiveRequests
  BY <1>1, ConnFacts
<1>6. requests' \in 0..MaxRequests
  <2>1. requests \in Nat /\ MaxRequests \in Nat
    BY ConnFacts, ReceiverAssumption, InboxAssumption
  <2> QED
    BY <1>1, <2>1
<1>7. /\ server.pc # "down" /\ (server.pc = "serving" => n.release)
      /\ ~(server.pc \in {"closing", "releasing"} /\ server.victim = c)
      /\ ~(server.pc \in {"drained", "closed", "zeroed"} /\ ~server.timedOut)
  BY <1>1, <1>2, RunsInProcess
<1> QED
  BY <1>1, <1>2, <1>3, <1>4, <1>5, <1>6, <1>7, OneConnection

\* The steps of limitedConn.Close, and the end of a connection.
LEMMA ClosingStep ==
  ASSUME ReceiverIInv, [InboxNext]_inboxVars, NEW c \in Conns, NEW n \in Conn,
         conn' = [conn EXCEPT ![c] = n], UNCHANGED <<active, server, answers, requests>>,
         conn[c].pc \in {"wait", "close", "closing", "untrack"},
         n.pc \in {"close", "closing", "untrack"} \/
           (n = Gone /\ server.pc \notin {"closing", "releasing"}),
         ~n.holds,
         sem' \in 0..MaxActiveConnections,
         server.pc = "serving" =>
           /\ sem' = IF ConnOpen(conn[c]) /\ ~ConnOpen(n) THEN sem - 1 ELSE sem
           /\ ConnOpen(n) => n.release,
         ~ConnOpen(conn[c]) => ~ConnOpen(n)
  PROVE  ReceiverIInv'
<1>1. ConnInv(n) /\ (n = Gone => n.pc = "done")
  BY DEF ConnInv, InHandler, Gone, NoConn
<1>2. ~conn[c].holds
  BY ConnFacts DEF ConnInv
<1>3. active' <= MaxActiveRequests /\ requests' \in 0..MaxRequests
  BY ConnFacts
<1>4. server.pc # "down"
  BY RunsInProcess
<1>5. server.pc \in {"closing", "releasing"} => n.pc \in {"close", "closing", "untrack"}
  OBVIOUS
<1>6. n.pc \in {"close", "closing", "untrack", "done"}
  BY <1>1
<1>7. n.pc \notin InHandler \cup {"wait"} /\ n.pc \notin {"respond", "flush"}
  BY <1>6 DEF InHandler
<1> QED
  BY <1>1, <1>2, <1>3, <1>4, <1>5, <1>7, OneConnection

\* A step to another phase of closing, which keeps the rest of the record.
LEMMA PhaseOfClosing ==
  ASSUME ReceiverIInv, NEW c \in Conns, NEW p \in {"close", "closing", "untrack"},
         conn' = [conn EXCEPT ![c].pc = p], UNCHANGED <<inboxVars, sem, active, server, answers, requests>>,
         conn[c].pc \in {"wait", "close"}, p = "untrack" => ~conn[c].release
  PROVE  ReceiverIInv'
<1> DEFINE n == [conn[c] EXCEPT !.pc = p]
<1>1. conn[c] \in Conn /\ ~conn[c].holds /\ [InboxNext]_inboxVars /\ sem' \in 0..MaxActiveConnections
  BY ConnFacts DEF ConnInv
<1>2. /\ n \in Conn /\ n.pc = p /\ n.state = conn[c].state /\ ~n.holds /\ n.release = conn[c].release
  BY <1>1 DEF Conn, ConnSteps, InHandler
<1>3. conn' = [conn EXCEPT ![c] = n]
  BY <1>1 DEF ReceiverIInv, ReceiverTypeOK, Conn
<1> HIDE DEF n
<1>4. server.pc = "serving" => n.release
  BY <1>2, RunsInProcess
<1>5. ConnOpen(conn[c]) /\ (server.pc = "serving" => ConnOpen(n))
  BY <1>2, <1>4 DEF ConnOpen
<1> QED
  BY <1>1, <1>2, <1>3, <1>4, <1>5, ClosingStep

LEMMA HangupInv == ASSUME ReceiverIInv, NEW c \in Conns, Hangup(c) PROVE ReceiverIInv'
BY PhaseOfClosing DEF Hangup

LEMMA CloseChecksInv == ASSUME ReceiverIInv, NEW c \in Conns, CloseChecks(c) PROVE ReceiverIInv'
BY PhaseOfClosing DEF CloseChecks

LEMMA CloseReleasesInv == ASSUME ReceiverIInv, NEW c \in Conns, CloseReleases(c) PROVE ReceiverIInv'
<1> DEFINE n == [conn[c] EXCEPT !.pc = "untrack", !.release = FALSE]
<1>1. /\ conn[c] \in Conn /\ ~conn[c].holds /\ [InboxNext]_inboxVars /\ conn[c].pc = "closing"
      /\ UNCHANGED <<active, server, answers, requests>> /\ sem' = sem - 1 /\ sem > 0
  BY ConnFacts DEF ConnInv, CloseReleases
<1>2. n \in Conn /\ n.pc = "untrack" /\ ~n.holds
  BY <1>1 DEF Conn, ConnSteps, InHandler
<1>3. conn' = [conn EXCEPT ![c] = n]
  BY <1>1 DEF CloseReleases, ReceiverIInv, ReceiverTypeOK, Conn
<1> HIDE DEF n
<1>4. sem' \in 0..MaxActiveConnections
  <2>1. sem \in 0..MaxActiveConnections /\ MaxActiveConnections \in Nat
    BY ConnFacts, ReceiverAssumption
  <2> QED
    BY <1>1, <2>1
<1>5. ConnOpen(conn[c]) /\ ~ConnOpen(n)
  BY <1>1, <1>2 DEF ConnOpen
<1> QED
  BY <1>1, <1>2, <1>3, <1>4, <1>5, ClosingStep

LEMMA UntrackInv == ASSUME ReceiverIInv, NEW c \in Conns, Untrack(c) PROVE ReceiverIInv'
<1>1. /\ [InboxNext]_inboxVars /\ conn[c].pc = "untrack" /\ server.pc \notin {"closing", "releasing"}
      /\ UNCHANGED <<sem, active, server, answers, requests>> /\ conn' = [conn EXCEPT ![c] = Gone]
      /\ sem' \in 0..MaxActiveConnections
  BY ConnFacts DEF Untrack
<1>2. Gone \in Conn /\ ~Gone.holds /\ ~ConnOpen(Gone) /\ ~ConnOpen(conn[c])
  BY <1>1 DEF Gone, NoConn, Conn, ConnSteps, InHandler, ConnOpen
<1> QED
  BY <1>1, <1>2, ClosingStep

-----------------------------------------------------------------------------
(* The steps of the server.                                                *)

\* What a step of the server has to show when it does not touch the inbox rows.
LEMMA ServerStep ==
  ASSUME ReceiverIInv, [InboxNext]_inboxVars, ReceiverTypeOK',
         \A c \in Conns : ConnInv(conn'[c]), \A c \in Conns : conn'[c].holds = conn[c].holds,
         \A c \in Conns : conn'[c].pc \in {"respond", "flush"} =>
           conn'[c].pc = conn[c].pc /\ conn'[c].req = conn[c].req /\ conn'[c].status = conn[c].status,
         UNCHANGED <<active, answers>>, ServerInv',
         \/ server.timedOut => server'.timedOut
         \/ \A c \in Conns : conn'[c].pc \notin {"respond", "flush"}
  PROVE  ReceiverIInv'
<1>1. IInv'
  BY StepInv DEF ReceiverIInv
<1>2. RequestSlots'
  <2>1. Holding' = Holding
    BY DEF Holding
  <2> QED
    BY <2>1 DEF ReceiverIInv, RequestSlots
<1>3. PromisesHold'
  <2> SUFFICES ASSUME NEW c \in Conns, conn'[c].pc \in {"respond", "flush"}
               PROVE  Truthful(inbox', conn'[c].req, conn'[c].status, server'.timedOut)
    BY DEF PromisesHold
  <2>1. conn[c].req \in Requests /\ Truthful(inbox, conn[c].req, conn[c].status, server.timedOut)
    BY DEF ReceiverIInv, PromisesHold, ConnInv, InHandler
  <2>2. Truthful(inbox', conn[c].req, conn[c].status, server.timedOut)
    BY <2>1, TruthIsKept DEF ReceiverIInv
  <2> QED
    BY <2>2 DEF Truthful
<1>4. AnswersAreTruthful'
  BY AnswersAreKept DEF AnswersAreTruthful, Truthful
<1> QED
  BY <1>1, <1>2, <1>3, <1>4 DEF ReceiverIInv

ServerRecord == [pc : ServerSteps, deadline : Nat, victim : Conns \cup {None},
                 timedOut : BOOLEAN, socket : BOOLEAN, starts : 0..MaxStarts]

LEMMA ServerFacts ==
  ASSUME ReceiverIInv
  PROVE  server \in ServerRecord /\ ServerInv /\ now \in Nat
BY ClockAssumption DEF ReceiverIInv, ReceiverTypeOK, ServerRecord, IInv, InboxTypeOK, ClockTypeOK

\* The server goes on to another phase and the connections do not move.
LEMMA ServerOnly ==
  ASSUME ReceiverIInv, [InboxNext]_inboxVars, NEW n \in ServerRecord, server' = n,
         UNCHANGED <<conn, sem, active, answers, requests>>, ServerInv',
         (server.timedOut => n.timedOut) \/ server.pc = "down"
  PROVE  ReceiverIInv'
<1>1. InboxTypeOK'
  BY StepInv DEF ReceiverIInv, IInv
<1>2. ReceiverTypeOK'
  BY <1>1 DEF ReceiverIInv, ReceiverTypeOK, ServerRecord, Answer, Conn
<1>3. \A c \in Conns : ConnInv(conn'[c])
  BY DEF ReceiverIInv
<1>4. \/ server.timedOut => server'.timedOut
      \/ \A c \in Conns : conn'[c].pc \notin {"respond", "flush"}
  BY ServerFacts DEF ServerInv
<1> QED
  BY <1>2, <1>3, <1>4, ServerStep

LEMMA SignalInv == ASSUME ReceiverIInv, Signal PROVE ReceiverIInv'
<1> DEFINE n == [server EXCEPT !.pc = "poll", !.deadline = now + ShutdownTimeout]
<1>1. now + ShutdownTimeout \in Nat
  BY ServerFacts, ReceiverAssumption
<1>2. n \in ServerRecord /\ n.pc = "poll" /\ n.timedOut = server.timedOut
  BY <1>1, ServerFacts DEF ServerRecord, ServerSteps
<1>3. server' = n /\ [InboxNext]_inboxVars /\ UNCHANGED <<conn, sem, active, answers, requests>>
  BY DEF Signal
<1> HIDE DEF n
<1>4. ServerInv'
  BY <1>2, <1>3 DEF ServerInv
<1> QED
  BY <1>2, <1>3, <1>4, ServerOnly

\* The server is drained when every connection it tracks is gone: what it forgot before
\* had left the handler.
LEMMA ShutdownDrainedInv == ASSUME ReceiverIInv, ShutdownDrained PROVE ReceiverIInv'
<1> DEFINE n == [server EXCEPT !.pc = "drained"]
<1>1. n \in ServerRecord /\ n.pc = "drained" /\ n.timedOut = server.timedOut
  BY ServerFacts DEF ServerRecord, ServerSteps
<1>2. server' = n /\ [InboxNext]_inboxVars /\ UNCHANGED <<conn, sem, active, answers, requests>>
  BY DEF ShutdownDrained
<1> HIDE DEF n
<1>3. \A c \in Conns : conn[c].pc \notin InHandler \cup {"wait"}
  BY ConnFacts DEF ShutdownDrained, Quiescent, Tracked, ConnInv, InHandler
<1>4. ServerInv'
  BY <1>1, <1>2, <1>3 DEF ServerInv
<1> QED
  BY <1>1, <1>2, <1>4, ServerOnly

LEMMA ShutdownExpiresInv == ASSUME ReceiverIInv, ShutdownExpires PROVE ReceiverIInv'
<1> DEFINE n == [server EXCEPT !.pc = "drained", !.timedOut = TRUE]
<1>1. n \in ServerRecord /\ n.pc = "drained" /\ n.timedOut
  BY ServerFacts DEF ServerRecord, ServerSteps
<1>2. server' = n /\ [InboxNext]_inboxVars /\ UNCHANGED <<conn, sem, active, answers, requests>>
  BY DEF ShutdownExpires
<1> HIDE DEF n
<1>3. ServerInv'
  BY <1>1, <1>2 DEF ServerInv
<1> QED
  BY <1>1, <1>2, <1>3, ServerOnly

LEMMA CloseStoreInv == ASSUME ReceiverIInv, CloseStore PROVE ReceiverIInv'
<1> DEFINE n == [server EXCEPT !.pc = "closed", !.socket = FALSE]
<1>1. n \in ServerRecord /\ n.pc = "closed" /\ n.timedOut = server.timedOut
  BY ServerFacts DEF ServerRecord, ServerSteps
<1>2. server' = n /\ UNCHANGED <<conn, sem, active, answers, requests>> /\ server.pc = "drained"
  BY DEF CloseStore
<1>3. [InboxNext]_inboxVars
  BY DEF CloseStore, InboxNext, ReceiverIInv, IInv, InboxTypeOK
<1> HIDE DEF n
<1>4. ServerInv'
  BY <1>1, <1>2, ServerFacts DEF ServerInv
<1> QED
  BY <1>1, <1>2, <1>3, <1>4, ServerOnly

LEMMA ZeroSecretsInv == ASSUME ReceiverIInv, ZeroSecrets PROVE ReceiverIInv'
<1> DEFINE n == [server EXCEPT !.pc = "zeroed"]
<1>1. n \in ServerRecord /\ n.pc = "zeroed" /\ n.timedOut = server.timedOut
  BY ServerFacts DEF ServerRecord, ServerSteps
<1>2. /\ server' = n /\ [InboxNext]_inboxVars /\ UNCHANGED <<conn, sem, active, answers, requests>>
      /\ server.pc = "closed"
  BY DEF ZeroSecrets
<1> HIDE DEF n
<1>3. ServerInv'
  BY <1>1, <1>2, ServerFacts DEF ServerInv
<1> QED
  BY <1>1, <1>2, <1>3, ServerOnly

LEMMA RemoveSocketInv == ASSUME ReceiverIInv, RemoveSocket PROVE ReceiverIInv'
<1> DEFINE n == [server EXCEPT !.socket = FALSE]
<1>1. n \in ServerRecord /\ n.pc = server.pc /\ n.timedOut = server.timedOut
  BY ServerFacts DEF ServerRecord
<1>2. /\ server' = n /\ [InboxNext]_inboxVars /\ UNCHANGED <<conn, sem, active, answers, requests>>
      /\ server.pc = "down"
  BY DEF RemoveSocket
<1> HIDE DEF n
<1>3. ServerInv'
  BY <1>1, <1>2, ServerFacts DEF ServerInv
<1> QED
  BY <1>1, <1>2, <1>3, ServerOnly

LEMMA NewServerInv == ASSUME ReceiverIInv, NEW r \in Receivers, NewServer(r) PROVE ReceiverIInv'
<1> DEFINE n == [pc |-> "serving", deadline |-> 0, victim |-> None, timedOut |-> FALSE,
                 socket |-> TRUE, starts |-> server.starts + 1]
<1>1. server.pc = "down" /\ server.starts < MaxStarts /\ server' = n /\ Open(r)
      /\ UNCHANGED <<conn, sem, active, answers, requests>>
  BY DEF NewServer
<1>2. server.starts + 1 \in 0..MaxStarts
  <2>1. server.starts \in 0..MaxStarts /\ MaxStarts \in Nat
    BY ServerFacts, ReceiverAssumption DEF ServerRecord
  <2> QED
    BY <1>1, <2>1
<1>3. n \in ServerRecord /\ n.pc = "serving"
  BY <1>2 DEF ServerRecord, ServerSteps
<1>4. [InboxNext]_inboxVars
  BY <1>1 DEF InboxNext
<1> HIDE DEF n
<1>5. Opened' = {} /\ sem' = 0
  BY <1>1, ServerFacts DEF ServerInv, Opened
<1>6. ServerInv'
  BY <1>1, <1>3, <1>5, FS_EmptySet DEF ServerInv
<1> QED
  BY <1>1, <1>3, <1>4, <1>6, ServerOnly

\* Shutdown on one idle connection: its goroutine is out of the handler, and stays out
\* while Shutdown holds the mutex.
LEMMA ShutdownOnOne ==
  ASSUME ReceiverIInv, UNCHANGED <<inboxVars, active, answers, requests>>, NEW c \in Conns,
         NEW n \in Conn, conn' = [conn EXCEPT ![c] = n], NEW m \in ServerRecord, server' = m,
         sem' \in 0..MaxActiveConnections, m.pc \in {"poll", "closing", "releasing"},
         m.timedOut = server.timedOut, m.pc # "poll" => m.victim = c,
         n.pc \in {"close", "closing", "untrack"}, n.holds = conn[c].holds, ~n.holds
  PROVE  ReceiverIInv'
<1>1. conn' \in [Conns -> Conn] /\ conn'[c] = n /\ \A e \in Conns : e # c => conn'[e] = conn[e]
  BY DEF ReceiverIInv, ReceiverTypeOK
<1>2. [InboxNext]_inboxVars
  OBVIOUS
<1>3. InboxTypeOK'
  BY <1>2, StepInv DEF ReceiverIInv, IInv
<1>4. ReceiverTypeOK'
  BY <1>1, <1>3 DEF ReceiverIInv, ReceiverTypeOK, ServerRecord, Answer, Conn
<1>5. ConnInv(n)
  BY DEF ConnInv, InHandler
<1>6. \A e \in Conns : ConnInv(conn'[e])
  BY <1>1, <1>5 DEF ReceiverIInv
<1>7. ServerInv'
  BY <1>1 DEF ServerInv
<1> QED
  BY <1>1, <1>2, <1>4, <1>6, <1>7, ServerStep

LEMMA ShutdownClosesInv == ASSUME ReceiverIInv, NEW c \in Conns, ShutdownCloses(c) PROVE ReceiverIInv'
<1> DEFINE m == [server EXCEPT !.pc = "closing", !.victim = c]
           n == [conn[c] EXCEPT !.pc = IF @ = "wait" THEN "close" ELSE @]
<1>1. m \in ServerRecord /\ m.pc = "closing" /\ m.victim = c /\ m.timedOut = server.timedOut
  BY ServerFacts DEF ServerRecord, ServerSteps
<1>2. conn[c] \in Conn /\ conn[c].pc \in {"wait", "close", "closing", "untrack"} /\ ~conn[c].holds
  BY ConnFacts DEF ShutdownCloses, ConnInv
<1>3. n \in Conn /\ n.pc \in {"close", "closing", "untrack"} /\ n.holds = conn[c].holds
  BY <1>2 DEF Conn, ConnSteps, InHandler
<1>4. conn' = [conn EXCEPT ![c] = n] /\ server' = m /\ UNCHANGED <<inboxVars, sem, active, answers, requests>>
  BY <1>2 DEF ShutdownCloses, ReceiverIInv, ReceiverTypeOK, Conn
<1> HIDE DEF n, m
<1>5. sem' \in 0..MaxActiveConnections
  BY <1>4, ConnFacts
<1> QED
  BY <1>1, <1>2, <1>3, <1>4, <1>5, ShutdownOnOne

LEMMA ShutdownChecksInv == ASSUME ReceiverIInv, ShutdownChecks PROVE ReceiverIInv'
<1> DEFINE c == server.victim
<1>1. /\ server.pc = "closing" /\ c \in Conns /\ conn[c].pc \in {"close", "closing", "untrack"}
      /\ UNCHANGED <<inboxVars, sem, active, answers, requests>>
  BY ServerFacts DEF ShutdownChecks, ServerInv
<1>2. conn[c] \in Conn /\ ~conn[c].holds /\ sem' \in 0..MaxActiveConnections
  BY <1>1, ConnFacts DEF ConnInv
<1>3. CASE server' = [server EXCEPT !.pc = "releasing"] /\ UNCHANGED conn
  <2> DEFINE m == [server EXCEPT !.pc = "releasing"]
  <2>1. m \in ServerRecord /\ m.pc = "releasing" /\ m.victim = c /\ m.timedOut = server.timedOut
    BY ServerFacts DEF ServerRecord, ServerSteps
  <2>2. conn' = [conn EXCEPT ![c] = conn[c]] /\ server' = m
    BY <1>3 DEF ReceiverIInv, ReceiverTypeOK
  <2> HIDE DEF c, m
  <2> QED
    BY <1>1, <1>2, <2>1, <2>2, ShutdownOnOne
<1>4. CASE /\ server' = [server EXCEPT !.pc = "poll", !.victim = None]
           /\ conn' = [conn EXCEPT ![c].dropped = TRUE]
  <2> DEFINE m == [server EXCEPT !.pc = "poll", !.victim = None]
             n == [conn[c] EXCEPT !.dropped = TRUE]
  <2>1. m \in ServerRecord /\ m.pc = "poll" /\ m.timedOut = server.timedOut
    BY ServerFacts DEF ServerRecord, ServerSteps
  <2>2. n \in Conn /\ n.pc = conn[c].pc /\ n.holds = conn[c].holds
    BY <1>2 DEF Conn
  <2>3. conn' = [conn EXCEPT ![c] = n] /\ server' = m
    BY <1>4 DEF ReceiverIInv, ReceiverTypeOK, Conn
  <2> HIDE DEF c, m, n
  <2> QED
    BY <1>1, <1>2, <2>1, <2>2, <2>3, ShutdownOnOne
<1> QED
  BY <1>3, <1>4 DEF ShutdownChecks

LEMMA ShutdownReleasesInv == ASSUME ReceiverIInv, ShutdownReleases PROVE ReceiverIInv'
<1> DEFINE c == server.victim
           m == [server EXCEPT !.pc = "poll", !.victim = None]
           n == [conn[c] EXCEPT !.release = FALSE, !.dropped = TRUE]
<1>1. /\ server.pc = "releasing" /\ c \in Conns /\ conn[c].pc \in {"close", "closing", "untrack"}
      /\ UNCHANGED <<inboxVars, active, answers, requests>> /\ sem > 0 /\ sem' = sem - 1
  BY ServerFacts DEF ShutdownReleases, ServerInv
<1>2. conn[c] \in Conn /\ ~conn[c].holds
  BY <1>1, ConnFacts DEF ConnInv
<1>3. sem' \in 0..MaxActiveConnections
  <2>1. sem \in 0..MaxActiveConnections /\ MaxActiveConnections \in Nat
    BY <1>1, ConnFacts, ReceiverAssumption
  <2> QED
    BY <1>1, <2>1
<1>4. m \in ServerRecord /\ m.pc = "poll" /\ m.timedOut = server.timedOut
  BY ServerFacts DEF ServerRecord, ServerSteps
<1>5. n \in Conn /\ n.pc = conn[c].pc /\ n.holds = conn[c].holds
  BY <1>2 DEF Conn
<1>6. conn' = [conn EXCEPT ![c] = n] /\ server' = m
  BY DEF ShutdownReleases, ReceiverIInv, ReceiverTypeOK, Conn
<1> HIDE DEF c, m, n
<1> QED
  BY <1>1, <1>2, <1>3, <1>4, <1>5, <1>6, ShutdownOnOne

\* With the process every goroutine goes, and every token.
LEMMA ProcessGoneInv ==
  ASSUME ReceiverIInv, [InboxNext]_inboxVars, ProcessGone PROVE ReceiverIInv'
<1> DEFINE m == [server EXCEPT !.pc = "down", !.victim = None]
<1>1. m \in ServerRecord /\ m.pc = "down" /\ server' = m
  BY ServerFacts DEF ServerRecord, ServerSteps, ProcessGone
<1> HIDE DEF m
<1>2. NoConn \in Conn /\ Gone \in Conn
  BY DEF NoConn, Gone, Conn, ConnSteps
<1>3. /\ conn' \in [Conns -> Conn] /\ \A c \in Conns : conn'[c] \in {NoConn, Gone}
      /\ sem' = 0 /\ active' = 0 /\ UNCHANGED <<answers, requests>>
  BY <1>2 DEF ProcessGone
<1>4. \A c \in Conns : conn'[c].pc \in {"none", "done"} /\ ~conn'[c].holds /\ ConnInv(conn'[c])
  BY <1>3 DEF NoConn, Gone, ConnInv, InHandler
<1>5. IInv' /\ InboxTypeOK'
  BY StepInv DEF ReceiverIInv, IInv
<1>6. ReceiverTypeOK'
  <2>1. 0 \in 0..MaxActiveConnections /\ 0 \in 0..MaxActiveRequests
    BY ReceiverAssumption
  <2> QED
    BY <1>1, <1>3, <1>5, <2>1 DEF ReceiverIInv, ReceiverTypeOK, ServerRecord, Answer, Conn
<1>7. RequestSlots'
  <2>1. Holding' = {}
    BY <1>4 DEF Holding
  <2> QED
    BY <1>3, <2>1, FS_EmptySet DEF RequestSlots
<1>8. PromisesHold' /\ ServerInv'
  BY <1>1, <1>3, <1>4 DEF PromisesHold, ServerInv
<1>9. AnswersAreTruthful'
  BY <1>3, AnswersAreKept DEF AnswersAreTruthful, Truthful
<1> QED
  BY <1>4, <1>5, <1>6, <1>7, <1>8, <1>9 DEF ReceiverIInv

LEMMA TickReceiverInv == ASSUME ReceiverIInv, [InboxNext]_inboxVars, UNCHANGED recvVars PROVE ReceiverIInv'
<1>1. UNCHANGED <<conn, sem, active, server, answers, requests>>
  BY DEF recvVars
<1>2. server \in ServerRecord /\ ServerInv'
  BY <1>1, ServerFacts DEF ServerInv, Opened
<1> QED
  BY <1>1, <1>2, ServerOnly

-----------------------------------------------------------------------------
(* The theorems.                                                           *)

LEMMA ConnStepInv == ASSUME ReceiverIInv, NEW c \in Conns, ConnStep(c) PROVE ReceiverIInv'
<1>1. CASE Admit(c) \/ ReadBody(c) \/ Verify(c) \/ StoreDelivery(c) \/ StoreFails(c)
  BY <1>1, AdmitInv, ReadBodyInv, VerifyInv, StoreDeliveryInv, StoreFailsInv
<1>2. CASE Return(c) \/ Flush(c) \/ CloseChecks(c) \/ CloseReleases(c) \/ Untrack(c)
  BY <1>2, ReturnInv, FlushInv, CloseChecksInv, CloseReleasesInv, UntrackInv
<1> QED
  BY <1>1, <1>2 DEF ConnStep

LEMMA ShutdownStepInv == ASSUME ReceiverIInv, ShutdownStep PROVE ReceiverIInv'
<1>1. ASSUME NEW c \in Conns, ShutdownCloses(c) PROVE ReceiverIInv'
  BY <1>1, ShutdownClosesInv
<1>2. CASE ShutdownChecks \/ ShutdownReleases \/ ShutdownDrained \/ ShutdownExpires
  BY <1>2, ShutdownChecksInv, ShutdownReleasesInv, ShutdownDrainedInv, ShutdownExpiresInv
<1>3. CASE CloseStore \/ ZeroSecrets
  BY <1>3, CloseStoreInv, ZeroSecretsInv
<1>4. CASE Exit
  BY <1>4, ProcessGoneInv DEF Exit
<1> QED
  BY <1>1, <1>2, <1>3, <1>4 DEF ShutdownStep

LEMMA ReceiverStepInv == ReceiverIInv /\ [ReceiverNext]_receiverVars => ReceiverIInv'
<1> SUFFICES ASSUME ReceiverIInv, [ReceiverNext]_receiverVars PROVE ReceiverIInv'
  OBVIOUS
<1>1. [InboxNext]_inboxVars
  BY StepUsesInbox
<1>2. CASE ReceiverTick \/ UNCHANGED receiverVars
  BY <1>1, <1>2, TickReceiverInv DEF ReceiverTick, receiverVars
<1>3. ASSUME NEW r \in Receivers, NewServer(r) PROVE ReceiverIInv'
  BY <1>3, NewServerInv
<1>4. CASE RemoveSocket \/ Signal
  BY <1>4, RemoveSocketInv, SignalInv
<1>5. ASSUME NEW c \in Conns, AcceptConn(c) \/ Hangup(c) PROVE ReceiverIInv'
  BY <1>5, AcceptConnInv, HangupInv
<1>6. ASSUME NEW c \in Conns, ConnStep(c) PROVE ReceiverIInv'
  BY <1>6, ConnStepInv
<1>7. ASSUME NEW c \in Conns, NEW q \in Requests, SendRequest(c, q) PROVE ReceiverIInv'
  BY <1>7, SendRequestInv
<1>8. CASE ShutdownStep
  BY <1>8, ShutdownStepInv
<1>9. CASE Crash
  BY <1>1, <1>9, ProcessGoneInv DEF Crash
<1> QED
  BY <1>2, <1>3, <1>4, <1>5, <1>6, <1>7, <1>8, <1>9 DEF ReceiverNext

LEMMA ReceiverInvariance == ReceiverSpec => []ReceiverIInv
BY ReceiverInitInv, ReceiverStepInv, PTL DEF ReceiverSpec

\* The receiver uses the store as the store is specified: with its handlers, time-outs,
\* crashes and restarts it implements InboxSpec, so all that StoreProofs proves of the
\* inbox and outbox holds of the store behind the receiver.
THEOREM ReceiverImplementsInbox == ReceiverSpec => InboxSpec
<1>1. ReceiverInit => InboxInit
  BY DEF ReceiverInit
<1>2. ReceiverIInv /\ [ReceiverNext]_receiverVars => [InboxNext]_inboxVars
  BY StepUsesInbox
<1> QED
  BY <1>1, <1>2, ReceiverInvariance, PTL DEF ReceiverSpec, InboxSpec

\* What a client was told is so: 202 means stored with this content and 409 stored with
\* another, for ever after, and 401 is a bad signature unless a shutdown timed out over the
\* handler and the secrets were overwritten (Handler.handle, Server.Shutdown).
THEOREM AnswersStayTrue == ReceiverSpec => []AnswersAreTruthful
<1>1. ReceiverIInv => AnswersAreTruthful
  BY DEF ReceiverIInv
<1> QED
  BY <1>1, ReceiverInvariance, PTL

\* While it serves the receiver neither leaks nor returns twice a slot of either limit,
\* and a shutdown in time closes store and secrets under no handler.
THEOREM ReceiverIsSafe == ReceiverSpec => []ReceiverInvariant
<1>1. ReceiverIInv => ReceiverInvariant
  <2> SUFFICES ASSUME ReceiverIInv PROVE ReceiverInvariant
    OBVIOUS
  <2>1. SlotsMatch
    BY DEF ReceiverIInv, ServerInv, RequestSlots, SlotsMatch, Opened, Holding
  <2>2. GracefulStop
    BY DEF ReceiverIInv, ServerInv, GracefulStop
  <2> QED
    BY <2>1, <2>2 DEF ReceiverIInv, ReceiverInvariant
<1> QED
  BY <1>1, ReceiverInvariance, PTL
=============================================================================
