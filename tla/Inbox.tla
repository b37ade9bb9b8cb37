------------------------------- MODULE Inbox -------------------------------
(***************************************************************************)
(* The webhook inbox and outbox (internal/githubinbox): one SQLite         *)
(* database that a receiver process writes (Accept) and a controller       *)
(* process drains under leases (ClaimOutbox, AcknowledgeOutbox,            *)
(* ReleaseOutbox).                                                         *)
(*                                                                         *)
(* Every operation runs in one transaction of a serialisable database, so  *)
(* it is one atomic action; a transaction that fails rolls back and is a   *)
(* stuttering step.  Clients are arbitrary: any lease ever handed out      *)
(* (`handles') may be presented again at any later time, by a process that *)
(* stalled, was restarted with the same owner name, or retries a call.     *)
(***************************************************************************)
EXTENDS StoreBase, FiniteSets

CONSTANTS
  Receivers,        \* receiver IDs a process may be configured with
  Bodies,           \* verified contents; with the delivery ID they fix the fingerprint
  EnqueuedBodies,   \* the contents whose disposition is "enqueued"
  Owners,           \* lease owner names
  InboxLease,       \* lease duration in ticks
  ClaimLimit,       \* largest limit a caller passes to ClaimOutbox
  MaxLeaseGen,      \* stands for math.MaxInt64, where ClaimOutbox refuses
  MaxConflicts      \* bound on conflict_count

ASSUME InboxAssumption ==
  /\ EnqueuedBodies \subseteq Bodies
  /\ InboxLease \in Nat \ {0}
  /\ ClaimLimit \in Nat \ {0}
  /\ MaxLeaseGen \in Nat \ {0}
  /\ MaxConflicts \in Nat
  /\ None \notin Bodies /\ None \notin Owners /\ None \notin Receivers

VARIABLES
  receiverID,       \* github_metadata 'receiver_id'
  openStores,       \* receiver IDs of the Store values that are open
  inbox,            \* github_inbox, by delivery
  outbox,           \* github_outbox, by delivery: the id is a hash of the delivery
  nextSeq,          \* AUTOINCREMENT of github_outbox.sequence
  handles,          \* every lease ever returned by ClaimOutbox
  acks              \* the leases whose acknowledgement changed a row

dbVars == <<receiverID, openStores>>
rowVars == <<inbox, outbox, nextSeq>>
leaseVars == <<handles, acks>>
inboxVars == <<now, receiverID, openStores, inbox, outbox, nextSeq, handles, acks>>

OutboxStates == {"absent", "pending", "leased", "acknowledged"}

InboxRow == [receiver : Receivers \cup {None}, body : Bodies \cup {None},
             conflicts : 0..MaxConflicts]
OutboxRow == [state : OutboxStates, seq : Nat, body : Bodies \cup {None},
              owner : Owners \cup {None}, gen : 0..MaxLeaseGen, expires : Nat]
Handle == [id : Deliveries, owner : Owners, gen : 1..MaxLeaseGen]

InboxTypeOK ==
  /\ ClockTypeOK
  /\ receiverID \in Receivers \cup {None}
  /\ openStores \subseteq Receivers
  /\ inbox \in [Deliveries -> InboxRow]
  /\ outbox \in [Deliveries -> OutboxRow]
  /\ nextSeq \in Nat
  /\ handles \subseteq Handle
  /\ acks \subseteq Handle

NoInboxRow == [receiver |-> None, body |-> None, conflicts |-> 0]
NoOutboxRow == [state |-> "absent", seq |-> 0, body |-> None, owner |-> None,
                gen |-> 0, expires |-> 0]

InboxInit ==
  /\ ClockInit
  /\ receiverID = None
  /\ openStores = {}
  /\ inbox = [d \in Deliveries |-> NoInboxRow]
  /\ outbox = [d \in Deliveries |-> NoOutboxRow]
  /\ nextSeq = 1
  /\ handles = {}
  /\ acks = {}

-----------------------------------------------------------------------------
(* Open and Close.                                                         *)

\* bindMetadata: the first Open writes the receiver ID, a later one must agree.
MayBind(r) == receiverID \in {None, r}

Open(r) ==
  /\ r \notin openStores
  /\ MayBind(r)
  /\ receiverID' = IF receiverID = None THEN r ELSE receiverID
  /\ openStores' = openStores \cup {r}
  /\ UNCHANGED <<now, rowVars, leaseVars>>

Close(r) ==
  /\ r \in openStores
  /\ openStores' = openStores \ {r}
  /\ UNCHANGED <<now, receiverID, rowVars, leaseVars>>

-----------------------------------------------------------------------------
(* Accept.                                                                 *)

\* INSERT OR IGNORE and the fingerprint comparison that follows it.
AcceptDecision(d, b) ==
  IF inbox[d].body = None
  THEN IF b \in EnqueuedBodies THEN "new-enqueued" ELSE "new-ignored"
  ELSE IF inbox[d].body = b THEN "duplicate-same-delivery" ELSE "delivery-conflict"

PendingRow(b) == [state |-> "pending", seq |-> nextSeq, body |-> b, owner |-> None,
                  gen |-> 0, expires |-> 0]

InboxAfter(r, d, b) ==
  CASE AcceptDecision(d, b) \in {"new-enqueued", "new-ignored"} ->
         [inbox EXCEPT ![d] = [receiver |-> r, body |-> b, conflicts |-> 0]]
    [] AcceptDecision(d, b) = "delivery-conflict" ->
         [inbox EXCEPT ![d].conflicts = @ + 1]
    [] OTHER -> inbox

OutboxAfter_EnqueueAlways(d, b) ==
  IF AcceptDecision(d, b) \in {"new-enqueued", "new-ignored"}
  THEN [outbox EXCEPT ![d] = PendingRow(b)]
  ELSE outbox

OutboxAfter(d, b) ==
  IF AcceptDecision(d, b) = "new-enqueued"
  THEN [outbox EXCEPT ![d] = PendingRow(b)]
  ELSE outbox

\* Inbox row and outbox row are inserted by the same transaction.
Accept(r, d, b) ==
  /\ r \in openStores
  /\ inbox[d].conflicts < MaxConflicts \/ AcceptDecision(d, b) # "delivery-conflict"
  /\ inbox' = InboxAfter(r, d, b)
  /\ outbox' = OutboxAfter(d, b)
  /\ nextSeq' = IF AcceptDecision(d, b) = "new-enqueued" THEN nextSeq + 1 ELSE nextSeq
  /\ UNCHANGED <<now, dbVars, leaseVars>>

-----------------------------------------------------------------------------
(* ClaimOutbox.                                                            *)

Claimable_PendingOnly(row) == row.state = "pending"

Claimable_AnyLease(row) == row.state \in {"pending", "leased"}

\* state='pending' OR (state='leased' AND lease_expires_at <= ?), a text comparison.
Claimable(row) ==
  \/ row.state = "pending"
  \/ row.state = "leased" /\ TextAtMost(row.expires, now)

\* ORDER BY sequence LIMIT limit.
ClaimCandidates(limit) ==
  {d \in Deliveries :
     /\ Claimable(outbox[d])
     /\ Cardinality({e \in Deliveries : /\ Claimable(outbox[e])
                                        /\ outbox[e].seq < outbox[d].seq}) < limit}

LeasedRow(row, o) ==
  [state |-> "leased", seq |-> row.seq, body |-> row.body, owner |-> o,
   gen |-> row.gen + 1, expires |-> now + InboxLease]

\* One record at the largest generation fails the whole claim.
NoOverflow(D) == \A d \in D : outbox[d].gen < MaxLeaseGen

HandleFor(d, o) == [id |-> d, owner |-> o, gen |-> outbox[d].gen + 1]

ClaimOutbox(o, limit) ==
  LET D == ClaimCandidates(limit) IN
  /\ D # {}
  /\ NoOverflow(D)
  /\ outbox' = [d \in Deliveries |-> IF d \in D THEN LeasedRow(outbox[d], o) ELSE outbox[d]]
  /\ handles' = handles \cup {HandleFor(d, o) : d \in D}
  /\ UNCHANGED <<now, dbVars, inbox, nextSeq, acks>>

-----------------------------------------------------------------------------
(* AcknowledgeOutbox and ReleaseOutbox, both through finishLease.          *)

HoldsLease_OwnerOnly(h) == outbox[h.id].owner = h.owner

\* Exact owner and exact generation; the expiry time is not looked at.
HoldsLease(h) == outbox[h.id].owner = h.owner /\ outbox[h.id].gen = h.gen

FinishState(h) == outbox[h.id].state = "leased"

\* Acknowledging an acknowledged record again is accepted and changes nothing.
AcknowledgeOutbox(h) ==
  /\ HoldsLease(h)
  /\ FinishState(h)
  /\ outbox' = [outbox EXCEPT ![h.id].state = "acknowledged"]
  /\ acks' = acks \cup {h}
  /\ UNCHANGED <<now, dbVars, inbox, nextSeq, handles>>

\* The owner and the generation stay in the row, so the next claim counts on.
ReleaseOutbox(h) ==
  /\ HoldsLease(h)
  /\ FinishState(h)
  /\ outbox' = [outbox EXCEPT ![h.id].state = "pending", ![h.id].expires = 0]
  /\ UNCHANGED <<now, dbVars, inbox, nextSeq, leaseVars>>

-----------------------------------------------------------------------------
InboxTick == Tick /\ UNCHANGED <<dbVars, rowVars, leaseVars>>

InboxNext ==
  \/ InboxTick
  \/ \E r \in Receivers : Open(r) \/ Close(r)
  \/ \E r \in Receivers, d \in Deliveries, b \in Bodies : Accept(r, d, b)
  \/ \E o \in Owners, limit \in 1..ClaimLimit : ClaimOutbox(o, limit)
  \/ \E h \in handles : AcknowledgeOutbox(h)
  \/ \E h \in handles : ReleaseOutbox(h)

InboxSpec == InboxInit /\ [][InboxNext]_inboxVars

-----------------------------------------------------------------------------
(* Properties.                                                             *)

\* The database belongs to the receiver that first opened it: every open
\* store and every stored delivery carries that receiver's ID (bindMetadata
\* and validateDelivery).
OneReceiver ==
  /\ openStores \subseteq {receiverID}
  /\ \A d \in Deliveries : inbox[d].receiver \in {None, receiverID}

\* Accept inserts the inbox row and the outbox row together or not at all,
\* and never queues an ignored delivery: a delivery has an outbox record
\* exactly when an enqueued content of it was recorded, and it is that content.
EnqueuedAtomically ==
  \A d \in Deliveries :
    /\ outbox[d].state # "absent" <=> inbox[d].body \in EnqueuedBodies
    /\ outbox[d].state # "absent" => outbox[d].body = inbox[d].body

\* A generation names one claim.  Two leases on a record never share a
\* generation, none is newer than the row, and a leased row's own lease is
\* among them: the pair (owner, generation) that finishLease compares is a
\* fencing token even when every process uses the same owner name.
GenerationNamesOneClaim ==
  /\ \A h, k \in handles : h.id = k.id /\ h.gen = k.gen => h = k
  /\ \A h \in handles : h.gen <= outbox[h.id].gen
  /\ \A d \in Deliveries :
       outbox[d].state \in {"leased", "acknowledged"} =>
         [id |-> d, owner |-> outbox[d].owner, gen |-> outbox[d].gen] \in handles

\* A stale lease never acknowledges: the lease that acknowledged a record is
\* the newest one ever handed out for it, and stays so.
AckByNewestLease ==
  \A h \in acks : \A k \in handles : k.id = h.id => k.gen <= h.gen

\* An acknowledged record is never claimed, released or changed again.
AcknowledgedIsFinal ==
  [][\A d \in Deliveries :
       outbox[d].state = "acknowledged" => outbox'[d] = outbox[d]]_inboxVars

\* The first content recorded for a delivery ID is kept: a redelivery with
\* other content only counts a conflict (and its outbox record is not touched).
FirstDeliveryWins ==
  [][\A d \in Deliveries :
       inbox[d].body # None => /\ inbox'[d].body = inbox[d].body
                               /\ inbox'[d].receiver = inbox[d].receiver
                               /\ inbox'[d].conflicts >= inbox[d].conflicts]_inboxVars

\* A lease is not taken over before the second in which it expires begins.
TakeoverWithinExpirySecond ==
  [][\A d \in Deliveries :
       outbox[d].state = "leased" /\ outbox'[d].gen # outbox[d].gen
         => Second(outbox[d].expires) <= Second(now)]_inboxVars
=============================================================================
