------------------------------ MODULE Receiver ------------------------------
(***************************************************************************)
(* The webhook receiver (internal/githubreceiver and cmd/glassroot-        *)
(* receiver): an HTTP server on a Unix socket whose handlers verify a      *)
(* delivery, store it in the inbox and answer, under a limit on            *)
(* connections (limitedListener), a limit on requests (Handler.active) and *)
(* four timeouts; and its shutdown.                                        *)
(*                                                                         *)
(* Every connection has a goroutine of net/http (external) that runs the   *)
(* handler; Shutdown runs in another one and closes idle connections       *)
(* itself.  What two goroutines share - the two semaphores, the secrets,   *)
(* the store and the release function of a connection, which limitedConn   *)
(* reads and clears without a lock - is read and written in steps of its   *)
(* own.  A request is reduced to the delivery it carries and to the first  *)
(* check it fails, if any.                                                 *)
(***************************************************************************)
EXTENDS Inbox

CONSTANTS
  Conns,                  \* connections clients open, each used once
  Requests,               \* what a client may send
  MaxActiveConnections,   \* Limits.MaxActiveConnections
  MaxActiveRequests,      \* Limits.MaxActiveRequests
  ReadTimeout,            \* Limits.ReadTimeout, in ticks
  IntakeTimeout,          \* Limits.PerRequestIntakeTimeout
  WriteTimeout,           \* Limits.WriteTimeout
  ShutdownTimeout,        \* Limits.ShutdownTimeout
  MaxRequests,            \* bound on requests sent
  MaxStarts               \* bound on starts of the process

\* The first check of Handler.handle that a request fails.
Flaws == {"none", "route", "header", "signature", "projection"}
Request == [id : Deliveries, body : Bodies, flaw : Flaws]

ASSUME ReceiverAssumption ==
  /\ Requests \subseteq Request
  /\ MaxActiveConnections \in Nat \ {0} /\ MaxActiveRequests \in Nat \ {0}
  /\ ReadTimeout \in Nat \ {0} /\ IntakeTimeout \in Nat \ {0}
  /\ WriteTimeout \in Nat \ {0} /\ ShutdownTimeout \in Nat \ {0}
  /\ MaxRequests \in 0..MaxConflicts /\ MaxStarts \in Nat

VARIABLES
  conn,      \* the goroutine and the state of every connection
  sem,       \* tokens in limitedListener.sem
  active,    \* tokens in Handler.active
  server,    \* the main goroutine and Shutdown
  answers,   \* history: the answers clients received
  requests   \* requests sent so far

recvVars == <<conn, sem, active, server, answers, requests>>
receiverVars == <<inboxVars, recvVars>>

InHandler == {"handle", "body", "verify", "accept", "respond", "flush"}
ConnSteps == InHandler \cup {"none", "wait", "close", "closing", "untrack", "done"}
ServerSteps == {"down", "serving", "poll", "closing", "releasing", "drained", "closed", "zeroed"}
\* 400 stands for 413 and 415 too.
Statuses == {202, 400, 401, 404, 409, 503}
Answer == [req : Requests, status : Statuses, forced : BOOLEAN]

\* state is the http.ConnState; release says whether limitedConn.release is set;
\* dropped, that Shutdown has forgotten the connection; holds, that the handler
\* has a token of Handler.active.
Conn == [pc : ConnSteps, state : {"new", "active", "idle"}, req : Requests \cup {None},
         status : Statuses \cup {0}, since : Nat, holds : BOOLEAN, release : BOOLEAN,
         dropped : BOOLEAN]

ReceiverTypeOK ==
  /\ InboxTypeOK
  /\ conn \in [Conns -> Conn]
  /\ sem \in 0..MaxActiveConnections
  /\ active \in 0..MaxActiveRequests
  /\ server \in [pc : ServerSteps, deadline : Nat, victim : Conns \cup {None},
                 timedOut : BOOLEAN, socket : BOOLEAN, starts : 0..MaxStarts]
  /\ answers \subseteq Answer
  /\ requests \in 0..MaxRequests

NoConn == [pc |-> "none", state |-> "new", req |-> None, status |-> 0, since |-> 0,
           holds |-> FALSE, release |-> FALSE, dropped |-> FALSE]

Gone == [NoConn EXCEPT !.pc = "done"]

ReceiverInit ==
  /\ InboxInit
  /\ conn = [c \in Conns |-> NoConn]
  /\ sem = 0
  /\ active = 0
  /\ server = [pc |-> "down", deadline |-> 0, victim |-> None, timedOut |-> FALSE,
               socket |-> FALSE, starts |-> 0]
  /\ answers = {}
  /\ requests = 0

-----------------------------------------------------------------------------
(* Starting, and accepting connections.                                    *)

\* ListenUnix refuses a path that exists, so a socket left by a crash has to be
\* removed first; what NewServer opened before it failed is closed again.
NewServer(r) ==
  /\ server.pc = "down"
  /\ ~server.socket
  /\ server.starts < MaxStarts
  /\ Open(r)
  /\ server' = [pc |-> "serving", deadline |-> 0, victim |-> None, timedOut |-> FALSE,
                socket |-> TRUE, starts |-> server.starts + 1]
  /\ UNCHANGED <<conn, sem, active, answers, requests>>

\* The operator removes the socket of a process that is gone.
RemoveSocket ==
  /\ server.pc = "down"
  /\ server.socket
  /\ server' = [server EXCEPT !.socket = FALSE]
  /\ UNCHANGED <<inboxVars, conn, sem, active, answers, requests>>

SlotFree == sem < MaxActiveConnections

\* limitedListener.Accept: a connection above the limit is closed at once.
AcceptConn(c) ==
  /\ server.pc = "serving"
  /\ conn[c].pc = "none"
  /\ \/ /\ SlotFree
        /\ sem' = sem + 1
        /\ conn' = [conn EXCEPT ![c].pc = "wait", ![c].release = TRUE]
     \/ /\ ~SlotFree
        /\ conn' = [conn EXCEPT ![c] = Gone]
        /\ UNCHANGED sem
  /\ UNCHANGED <<inboxVars, active, server, answers, requests>>

\* The header of a request is read; its write deadline is set at this moment.
SendRequest(c, q) ==
  /\ conn[c].pc = "wait"
  /\ requests < MaxRequests
  /\ conn' = [conn EXCEPT ![c].pc = "handle", ![c].state = "active", ![c].req = q,
                          ![c].since = now]
  /\ requests' = requests + 1
  /\ UNCHANGED <<inboxVars, sem, active, server, answers>>

\* The client closes, or the header or idle timeout passes.
Hangup(c) ==
  /\ conn[c].pc = "wait"
  /\ conn' = [conn EXCEPT ![c].pc = "close"]
  /\ UNCHANGED <<inboxVars, sem, active, server, answers, requests>>

-----------------------------------------------------------------------------
(* Handler.handle.                                                         *)

Reply(c, status) == conn' = [conn EXCEPT ![c].pc = "respond", ![c].status = status]

RequestSlotFree == active < MaxActiveRequests

\* Method, path and query, then the request limit, which is never waited for.
Admit(c) ==
  /\ conn[c].pc = "handle"
  /\ \/ conn[c].req.flaw = "route" /\ Reply(c, 404) /\ UNCHANGED active
     \/ /\ conn[c].req.flaw # "route"
        /\ ~RequestSlotFree
        /\ Reply(c, 503)
        /\ UNCHANGED active
     \/ /\ conn[c].req.flaw # "route"
        /\ RequestSlotFree
        /\ active' = active + 1
        /\ conn' = [conn EXCEPT ![c].pc = "body", ![c].holds = TRUE]
  /\ UNCHANGED <<inboxVars, sem, server, answers, requests>>

\* Headers, trailers, then the body, which the client may send slowly.
ReadBody(c) ==
  /\ conn[c].pc = "body"
  /\ IF conn[c].req.flaw = "header" \/ now >= conn[c].since + ReadTimeout
     THEN Reply(c, 400)
     ELSE conn' = [conn EXCEPT ![c].pc = "verify"]
  /\ UNCHANGED <<inboxVars, sem, active, server, answers, requests>>

\* VerifyWebhookSignature reads the secrets Shutdown overwrites; then
\* ProjectWebhook and crossCheck.
Verify(c) ==
  /\ conn[c].pc = "verify"
  /\ IF conn[c].req.flaw = "signature" \/ server.pc = "zeroed" THEN Reply(c, 401)
     ELSE IF conn[c].req.flaw = "projection" THEN Reply(c, 400)
     ELSE conn' = [conn EXCEPT ![c].pc = "accept"]
  /\ UNCHANGED <<inboxVars, sem, active, server, answers, requests>>

StatusFor_AlwaysAccepted(decision) == 202

StatusFor(decision) == IF decision = "delivery-conflict" THEN 409 ELSE 202

\* The context of the intake is alive and the transaction commits.
StoreDelivery(c) ==
  /\ conn[c].pc = "accept"
  /\ now < conn[c].since + IntakeTimeout
  /\ \E r \in Receivers : Accept(r, conn[c].req.id, conn[c].req.body)
  /\ Reply(c, StatusFor(AcceptDecision(conn[c].req.id, conn[c].req.body)))
  /\ UNCHANGED <<sem, active, server, answers, requests>>

\* The database is busy for too long or closed, or the context has ended.
StoreFails(c) ==
  /\ conn[c].pc = "accept"
  /\ Reply(c, 503)
  /\ UNCHANGED <<inboxVars, sem, active, server, answers, requests>>

\* The deferred receive from Handler.active; the answer is still in a buffer.
Return(c) ==
  /\ conn[c].pc = "respond"
  /\ active' = IF conn[c].holds THEN active - 1 ELSE active
  /\ conn' = [conn EXCEPT ![c].pc = "flush", ![c].holds = FALSE]
  /\ UNCHANGED <<inboxVars, sem, server, answers, requests>>

AnswerOf(c) == [req |-> conn[c].req, status |-> conn[c].status, forced |-> server.timedOut]

\* The request is over: its locals go out of scope.
EndRequest(k, pc, state) == [k EXCEPT !.pc = pc, !.state = state, !.req = None, !.status = 0, !.since = 0]

\* net/http writes the answer, unless its deadline has passed; the connection is
\* kept unless the write failed or the server is shutting down.
Flush(c) ==
  /\ conn[c].pc = "flush"
  /\ IF now < conn[c].since + WriteTimeout
     THEN /\ answers' = answers \cup {AnswerOf(c)}
          /\ conn' = [conn EXCEPT ![c] = IF server.pc = "serving" THEN EndRequest(@, "wait", "idle")
                                         ELSE EndRequest(@, "close", "active")]
     ELSE /\ conn' = [conn EXCEPT ![c] = EndRequest(@, "close", "active")]
          /\ UNCHANGED answers
  /\ UNCHANGED <<inboxVars, sem, active, server, requests>>

-----------------------------------------------------------------------------
(* limitedConn.Close in the goroutine of the connection: it looks whether  *)
(* release is set, receives from the semaphore, and clears release.        *)

CloseChecks(c) ==
  /\ conn[c].pc = "close"
  /\ conn' = [conn EXCEPT ![c].pc = IF conn[c].release THEN "closing" ELSE "untrack"]
  /\ UNCHANGED <<inboxVars, sem, active, server, answers, requests>>

\* A receive from an empty channel waits.
CloseReleases(c) ==
  /\ conn[c].pc = "closing"
  /\ sem > 0
  /\ sem' = sem - 1
  /\ conn' = [conn EXCEPT ![c].pc = "untrack", ![c].release = FALSE]
  /\ UNCHANGED <<inboxVars, active, server, answers, requests>>

\* http.Server forgets the connection; closeIdleConns holds the same mutex.
Untrack(c) ==
  /\ conn[c].pc = "untrack"
  /\ server.pc \notin {"closing", "releasing"}
  /\ conn' = [conn EXCEPT ![c] = Gone]
  /\ UNCHANGED <<inboxVars, sem, active, server, answers, requests>>

-----------------------------------------------------------------------------
(* Shutdown.  http.Server.Shutdown (external) polls: it closes idle        *)
(* connections and ends when none is left or its context is done.          *)

Tracked(c) == conn[c].pc \notin {"none", "done"} /\ ~conn[c].dropped

\* A signal, or a failing accept.
Signal ==
  /\ server.pc = "serving"
  /\ server' = [server EXCEPT !.pc = "poll", !.deadline = now + ShutdownTimeout]
  /\ UNCHANGED <<inboxVars, conn, sem, active, answers, requests>>

\* The close wakes the goroutine of the connection, which then closes it too.
ShutdownCloses(c) ==
  /\ server.pc = "poll"
  /\ Tracked(c) /\ conn[c].state = "idle"
  /\ server' = [server EXCEPT !.pc = "closing", !.victim = c]
  /\ conn' = [conn EXCEPT ![c].pc = IF @ = "wait" THEN "close" ELSE @]
  /\ UNCHANGED <<inboxVars, sem, active, answers, requests>>

ShutdownChecks ==
  /\ server.pc = "closing"
  /\ IF conn[server.victim].release
     THEN server' = [server EXCEPT !.pc = "releasing"] /\ UNCHANGED conn
     ELSE /\ server' = [server EXCEPT !.pc = "poll", !.victim = None]
          /\ conn' = [conn EXCEPT ![server.victim].dropped = TRUE]
  /\ UNCHANGED <<inboxVars, sem, active, answers, requests>>

ShutdownReleases ==
  /\ server.pc = "releasing"
  /\ sem > 0
  /\ sem' = sem - 1
  /\ conn' = [conn EXCEPT ![server.victim].release = FALSE, ![server.victim].dropped = TRUE]
  /\ server' = [server EXCEPT !.pc = "poll", !.victim = None]
  /\ UNCHANGED <<inboxVars, active, answers, requests>>

Quiescent == \A c \in Conns : ~Tracked(c)

ShutdownDrained ==
  /\ server.pc = "poll"
  /\ Quiescent
  /\ server' = [server EXCEPT !.pc = "drained"]
  /\ UNCHANGED <<inboxVars, conn, sem, active, answers, requests>>

ShutdownExpires ==
  /\ server.pc = "poll"
  /\ now >= server.deadline
  /\ server' = [server EXCEPT !.pc = "drained", !.timedOut = TRUE]
  /\ UNCHANGED <<inboxVars, conn, sem, active, answers, requests>>

CloseStore_WithoutWaiting ==
  /\ server.pc \in {"poll", "drained"}
  /\ \E r \in openStores : Close(r)
  /\ server' = [server EXCEPT !.pc = "closed", !.socket = FALSE]
  /\ UNCHANGED <<conn, sem, active, answers, requests>>

\* Whether the shutdown timed out or not, the socket is removed and the store
\* closed next,
CloseStore ==
  /\ server.pc = "drained"
  /\ \E r \in openStores : Close(r)
  /\ server' = [server EXCEPT !.pc = "closed", !.socket = FALSE]
  /\ UNCHANGED <<conn, sem, active, answers, requests>>

\* and the secrets are overwritten.
ZeroSecrets ==
  /\ server.pc = "closed"
  /\ server' = [server EXCEPT !.pc = "zeroed"]
  /\ UNCHANGED <<inboxVars, conn, sem, active, answers, requests>>

\* The process ends, and with it every goroutine.
ProcessGone ==
  /\ server' = [server EXCEPT !.pc = "down", !.victim = None]
  /\ conn' = [c \in Conns |-> IF conn[c].pc = "none" THEN NoConn
                              ELSE Gone]
  /\ sem' = 0
  /\ active' = 0
  /\ UNCHANGED <<answers, requests>>

Exit == server.pc = "zeroed" /\ ProcessGone /\ UNCHANGED inboxVars

\* The process is killed; a transaction that has not committed never does.
Crash ==
  /\ server.pc \in {"serving", "poll"}
  /\ \E r \in openStores : Close(r)
  /\ ProcessGone

-----------------------------------------------------------------------------
ConnStep(c) ==
  \/ Admit(c) \/ ReadBody(c) \/ Verify(c) \/ StoreDelivery(c) \/ StoreFails(c)
  \/ Return(c) \/ Flush(c) \/ CloseChecks(c) \/ CloseReleases(c) \/ Untrack(c)

ShutdownStep ==
  \/ \E c \in Conns : ShutdownCloses(c)
  \/ ShutdownChecks \/ ShutdownReleases \/ ShutdownDrained \/ ShutdownExpires
  \/ CloseStore \/ ZeroSecrets \/ Exit

ReceiverTick == InboxTick /\ UNCHANGED recvVars

ReceiverNext ==
  \/ ReceiverTick
  \/ \E r \in Receivers : NewServer(r)
  \/ RemoveSocket
  \/ \E c \in Conns : AcceptConn(c) \/ Hangup(c) \/ ConnStep(c)
  \/ \E c \in Conns, q \in Requests : SendRequest(c, q)
  \/ Signal \/ ShutdownStep \/ Crash

ReceiverSpec == ReceiverInit /\ [][ReceiverNext]_receiverVars

\* Goroutines run, the header and idle timeouts end waiting connections, and
\* time passes.
FairReceiverSpec ==
  /\ ReceiverSpec
  /\ WF_receiverVars(ReceiverTick)
  /\ \A c \in Conns : WF_receiverVars(ConnStep(c)) /\ WF_receiverVars(Hangup(c))
  /\ WF_receiverVars(ShutdownStep)

-----------------------------------------------------------------------------
(* Properties.                                                             *)

\* An answer tells the client the truth, whatever happened to its request
\* since: 202 only for a delivery that is durably stored with this content,
\* 409 only for one stored with another, 401 only for a bad signature, unless
\* the secrets were overwritten under the handler by a shutdown that timed out.
AnswersAreTruthful ==
  \A a \in answers :
    /\ a.status = 202 => a.req.flaw = "none" /\ inbox[a.req.id].body = a.req.body
    /\ a.status = 409 => inbox[a.req.id].body \notin {None, a.req.body}
    /\ a.status = 401 => a.req.flaw = "signature" \/ a.forced

\* While the receiver serves, every connection that is open has exactly one
\* slot of the connection limit and every request in work one of the request
\* limit, on every path through the handler: no slot leaks, none is given back
\* twice.
SlotsMatch ==
  server.pc = "serving" =>
    /\ sem = Cardinality({c \in Conns : conn[c].pc \notin {"none", "untrack", "done"}})
    /\ active = Cardinality({c \in Conns : conn[c].holds})

\* A shutdown that did not time out closes the store and overwrites the
\* secrets only when no handler is left that could use them.
GracefulStop ==
  server.pc \in {"drained", "closed", "zeroed"} /\ ~server.timedOut =>
    \A c \in Conns : conn[c].pc \notin InHandler

\* What the receiver keeps in order: its slots while it serves, its store and
\* its secrets while it stops.
ReceiverInvariant == ReceiverTypeOK /\ SlotsMatch /\ GracefulStop

\* The shutdown ends.  (GITHUB_WEBHOOK_RECEIVER.md: serve handles SIGINT and
\* SIGTERM by ... shutting down the HTTP server, closing the listener, closing
\* SQLite.)
ShutdownEnds == server.pc = "poll" ~> server.pc \notin {"poll", "closing", "releasing"}
=============================================================================
