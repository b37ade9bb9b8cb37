---------------------------- MODULE StoreProofs ----------------------------
(***************************************************************************)
(* The safety properties of the two databases: Inbox, for any number of    *)
(* receivers, deliveries, contents, owners and ticks, and ControllerStore, *)
(* for any number of pull requests, deliveries, targets, generations and   *)
(* attempts, and for clients that present any lease at any time.           *)
(*                                                                         *)
(* The two share nothing but the clock, and no lemma is about both; they   *)
(* are in one module because each of their clients needs one or both.      *)
(*                                                                         *)
(* The properties of the inbox are not inductive one by one.  IInv joins   *)
(* them with two facts they lean on: a record that does not exist has      *)
(* never been leased (so Accept, which starts a record at generation 0,    *)
(* cannot reuse a generation), and the lease that acknowledged a record is *)
(* the one its row still carries.  How two expiry times compare plays no   *)
(* part: TextAtMost is not expanded.  Fencing rests on the generation       *)
(* alone.                                                                  *)
(*                                                                         *)
(* For the controller store, StoreInv joins the invariants that TLC checks *)
(* with two facts: attempt numbers form a prefix 1..n (AttemptsAreDense    *)
(* alone does not say that a last one exists), and a job that exists has a *)
(* target.                                                                 *)
(***************************************************************************)
EXTENDS Inbox, ControllerStore, TLAPS

-----------------------------------------------------------------------------
(* The inbox.                                                              *)

\* A record that was never enqueued was never leased.
AbsentNeverLeased ==
  \A d \in Deliveries : outbox[d].state = "absent" => outbox[d].gen = 0

\* The row of an acknowledged record still carries the lease that did it.
AckedRowKeepsLease ==
  \A h \in acks : outbox[h.id].state = "acknowledged" /\ outbox[h.id].gen = h.gen

IInv ==
  /\ InboxTypeOK
  /\ OneReceiver
  /\ EnqueuedAtomically
  /\ AbsentNeverLeased
  /\ GenerationNamesOneClaim
  /\ AckedRowKeepsLease

\* What ClaimOutbox selects is a set of existing, unacknowledged records.
LEMMA CandidatesAreOpen ==
  ASSUME NEW limit, NEW d \in ClaimCandidates(limit)
  PROVE  d \in Deliveries /\ outbox[d].state \in {"pending", "leased"}
BY DEF ClaimCandidates, Claimable

\* The newest lease is the row's own, so an acknowledgement is by the newest.
LEMMA InvImpliesAckByNewest == IInv => AckByNewestLease
BY DEF IInv, InboxTypeOK, Handle, GenerationNamesOneClaim, AckedRowKeepsLease, AckByNewestLease

LEMMA InitInv == InboxInit => IInv
<1> SUFFICES ASSUME InboxInit PROVE IInv
  OBVIOUS
<1> USE InboxAssumption, ClockAssumption DEF InboxInit, ClockInit, NoInboxRow, NoOutboxRow
<1>1. InboxTypeOK
  BY DEF InboxTypeOK, ClockTypeOK, InboxRow, OutboxRow, OutboxStates
<1>2. OneReceiver
  BY DEF OneReceiver
<1>3. EnqueuedAtomically
  BY DEF EnqueuedAtomically
<1>4. AbsentNeverLeased /\ GenerationNamesOneClaim /\ AckedRowKeepsLease
  BY DEF AbsentNeverLeased, GenerationNamesOneClaim, AckedRowKeepsLease
<1> QED
  BY <1>1, <1>2, <1>3, <1>4 DEF IInv

-----------------------------------------------------------------------------
(* One lemma per operation.                                                *)

LEMMA TickInv == IInv /\ InboxTick => IInv'
BY ClockAssumption
   DEF IInv, InboxTick, Tick, dbVars, rowVars, leaseVars, InboxTypeOK, ClockTypeOK, OneReceiver,
       EnqueuedAtomically, AbsentNeverLeased, GenerationNamesOneClaim, AckedRowKeepsLease

LEMMA OpenInv == ASSUME NEW r \in Receivers, IInv, Open(r) \/ Close(r) PROVE IInv'
<1> USE DEF IInv, Open, Close, MayBind, rowVars, leaseVars
<1>1. InboxTypeOK'
  BY DEF InboxTypeOK, ClockTypeOK
<1>2. OneReceiver'
  BY InboxAssumption DEF InboxTypeOK, OneReceiver
<1>3. (EnqueuedAtomically /\ AbsentNeverLeased /\ GenerationNamesOneClaim /\ AckedRowKeepsLease)'
  BY DEF EnqueuedAtomically, AbsentNeverLeased, GenerationNamesOneClaim, AckedRowKeepsLease
<1> QED
  BY <1>1, <1>2, <1>3

\* Accept adds a record only where there was none, and leaves every other alone.
LEMMA AcceptRows ==
  ASSUME InboxTypeOK, NEW r \in Receivers, NEW d \in Deliveries, NEW b \in Bodies, Accept(r, d, b)
  PROVE  /\ inbox' \in [Deliveries -> InboxRow]
         /\ outbox' \in [Deliveries -> OutboxRow]
         /\ \A e \in Deliveries : e # d => inbox'[e] = inbox[e] /\ outbox'[e] = outbox[e]
         /\ \/ /\ inbox[d].body = None /\ inbox'[d].body = b /\ inbox'[d].receiver = r
               /\ IF b \in EnqueuedBodies
                  THEN outbox'[d] = PendingRow(b) ELSE outbox'[d] = outbox[d]
            \/ /\ inbox[d].body # None /\ inbox'[d].body = inbox[d].body
               /\ inbox'[d].receiver = inbox[d].receiver /\ outbox'[d] = outbox[d]
               /\ inbox'[d].conflicts >= inbox[d].conflicts
<1>1. PendingRow(b) \in OutboxRow
  BY InboxAssumption DEF PendingRow, OutboxRow, OutboxStates, InboxTypeOK
<1>2. CASE inbox[d].body = None
  <2>1. inbox' = [inbox EXCEPT ![d] = [receiver |-> r, body |-> b, conflicts |-> 0]]
    BY <1>2 DEF Accept, InboxAfter, AcceptDecision
  <2>2. outbox' = IF b \in EnqueuedBodies THEN [outbox EXCEPT ![d] = PendingRow(b)] ELSE outbox
    BY <1>2 DEF Accept, OutboxAfter, AcceptDecision
  <2>3. [receiver |-> r, body |-> b, conflicts |-> 0] \in InboxRow
    BY InboxAssumption DEF InboxRow
  <2> QED
    BY <1>1, <1>2, <2>1, <2>2, <2>3 DEF InboxTypeOK
<1>3. CASE inbox[d].body # None /\ inbox[d].body = b
  BY <1>3 DEF Accept, InboxAfter, OutboxAfter, AcceptDecision, InboxTypeOK, InboxRow
<1>4. CASE inbox[d].body # None /\ inbox[d].body # b
  <2>1. inbox' = [inbox EXCEPT ![d].conflicts = @ + 1] /\ outbox' = outbox
    BY <1>4 DEF Accept, InboxAfter, OutboxAfter, AcceptDecision
  <2>2. inbox[d].conflicts < MaxConflicts
    BY <1>4 DEF Accept, AcceptDecision
  <2> QED
    BY <1>4, <2>1, <2>2, InboxAssumption DEF InboxTypeOK, InboxRow
<1> QED
  BY <1>2, <1>3, <1>4

LEMMA AcceptInv ==
  ASSUME NEW r \in Receivers, NEW d \in Deliveries, NEW b \in Bodies, IInv, Accept(r, d, b)
  PROVE  IInv'
<1> USE DEF IInv
<1>1. /\ inbox' \in [Deliveries -> InboxRow]
      /\ outbox' \in [Deliveries -> OutboxRow]
      /\ \A e \in Deliveries : e # d => inbox'[e] = inbox[e] /\ outbox'[e] = outbox[e]
      /\ \/ /\ inbox[d].body = None /\ inbox'[d].body = b /\ inbox'[d].receiver = r
            /\ IF b \in EnqueuedBodies
               THEN outbox'[d] = PendingRow(b) ELSE outbox'[d] = outbox[d]
         \/ /\ inbox[d].body # None /\ inbox'[d].body = inbox[d].body
            /\ inbox'[d].receiver = inbox[d].receiver /\ outbox'[d] = outbox[d]
  BY AcceptRows
<1>2. /\ UNCHANGED <<now, receiverID, openStores, handles, acks>>
      /\ r \in openStores
      /\ nextSeq' \in {nextSeq, nextSeq + 1}
  BY DEF Accept, dbVars, leaseVars
<1>3. PendingRow(b).state = "pending" /\ PendingRow(b).gen = 0 /\ PendingRow(b).body = b
  BY DEF PendingRow
<1>4. outbox[d].state = "absent" \/ outbox'[d] = outbox[d]
  BY <1>1, InboxAssumption DEF EnqueuedAtomically
<1>5. InboxTypeOK'
  BY <1>1, <1>2 DEF InboxTypeOK, ClockTypeOK
<1>6. OneReceiver'
  BY <1>1, <1>2 DEF OneReceiver
<1>7. EnqueuedAtomically'
  BY <1>1, <1>3, <1>4, InboxAssumption DEF EnqueuedAtomically
<1>8. AbsentNeverLeased'
  BY <1>1, <1>3 DEF AbsentNeverLeased
<1>9. \A h \in handles : outbox'[h.id] = outbox[h.id]
  BY <1>1, <1>4 DEF AbsentNeverLeased, GenerationNamesOneClaim, InboxTypeOK, Handle
<1>10. GenerationNamesOneClaim'
  BY <1>1, <1>2, <1>3, <1>4, <1>9 DEF GenerationNamesOneClaim, InboxTypeOK, Handle
<1>11. AckedRowKeepsLease'
  BY <1>1, <1>2, <1>4 DEF AckedRowKeepsLease, InboxTypeOK, Handle
<1> QED
  BY <1>5, <1>6, <1>7, <1>8, <1>10, <1>11

LEMMA ClaimInv ==
  ASSUME NEW o \in Owners, NEW limit \in 1..ClaimLimit, IInv, ClaimOutbox(o, limit)
  PROVE  IInv'
<1> USE DEF IInv
<1> DEFINE D == ClaimCandidates(limit)
<1>1. D \subseteq Deliveries /\ \A d \in D : outbox[d].state \in {"pending", "leased"}
  BY CandidatesAreOpen
<1>2. \A d \in D : outbox[d].gen + 1 \in 1..MaxLeaseGen
  BY <1>1, InboxAssumption DEF ClaimOutbox, NoOverflow, InboxTypeOK, OutboxRow
<1>3. \A d \in Deliveries : outbox'[d] = IF d \in D THEN LeasedRow(outbox[d], o) ELSE outbox[d]
  BY DEF ClaimOutbox
<1>4. \A d \in D : /\ LeasedRow(outbox[d], o) \in OutboxRow
                   /\ LeasedRow(outbox[d], o).state = "leased"
                   /\ LeasedRow(outbox[d], o).owner = o
                   /\ LeasedRow(outbox[d], o).gen = outbox[d].gen + 1
                   /\ LeasedRow(outbox[d], o).body = outbox[d].body
  <2> TAKE d \in D
  <2>1. outbox[d] \in OutboxRow /\ now + InboxLease \in Nat
    BY <1>1, InboxAssumption, ClockAssumption DEF InboxTypeOK, ClockTypeOK
  <2> QED
    BY <1>2, <2>1 DEF LeasedRow, OutboxRow, OutboxStates
<1>5. \A d \in D : HandleFor(d, o) \in Handle
  BY <1>1, <1>2 DEF HandleFor, Handle
<1>6. /\ UNCHANGED <<now, receiverID, openStores, inbox, nextSeq, acks>>
      /\ handles' = handles \cup {HandleFor(d, o) : d \in D}
      /\ outbox' \in [Deliveries -> OutboxRow]
  BY <1>4 DEF ClaimOutbox, dbVars, InboxTypeOK
<1>7. InboxTypeOK'
  BY <1>5, <1>6 DEF InboxTypeOK, ClockTypeOK
<1>8. OneReceiver'
  BY <1>6 DEF OneReceiver
<1>9. EnqueuedAtomically'
  BY <1>1, <1>3, <1>4, <1>6 DEF EnqueuedAtomically
<1>10. AbsentNeverLeased'
  BY <1>3, <1>4 DEF AbsentNeverLeased
<1>11. GenerationNamesOneClaim'
  <2>1. \A h \in handles : h \in Handle /\ h.id \in Deliveries /\ h.gen <= outbox[h.id].gen
    BY DEF GenerationNamesOneClaim, InboxTypeOK, Handle
  <2>2. \A d \in Deliveries : outbox[d].gen \in Nat /\ outbox'[d].gen \in Nat
    BY <1>6 DEF InboxTypeOK, OutboxRow
  <2>3. \A h \in handles' : \/ h \in handles
                            \/ \E d \in D : h = [id |-> d, owner |-> o, gen |-> outbox[d].gen + 1]
    BY <1>6 DEF HandleFor
  <2>4. \A h \in handles : h.gen \in Nat /\ (h.id \in D => h.gen < outbox[h.id].gen + 1)
    BY <2>1, <2>2 DEF Handle
  <2>5. \A h, k \in handles' : h.id = k.id /\ h.gen = k.gen => h = k
    BY <2>3, <2>4 DEF GenerationNamesOneClaim
  <2>6. \A h \in handles' : h.gen <= outbox'[h.id].gen
    BY <1>1, <1>3, <1>4, <2>1, <2>2, <2>3, <2>4
  <2>7. \A d \in Deliveries :
          outbox'[d].state \in {"leased", "acknowledged"} =>
            [id |-> d, owner |-> outbox'[d].owner, gen |-> outbox'[d].gen] \in handles'
    BY <1>3, <1>4, <1>6 DEF GenerationNamesOneClaim, HandleFor
  <2> QED
    BY <2>5, <2>6, <2>7 DEF GenerationNamesOneClaim
<1>12. AckedRowKeepsLease'
  BY <1>1, <1>3, <1>6 DEF AckedRowKeepsLease, InboxTypeOK, Handle
<1> QED
  BY <1>7, <1>8, <1>9, <1>10, <1>11, <1>12

\* AcknowledgeOutbox and ReleaseOutbox change the state of one leased row only.
LEMMA FinishInv ==
  ASSUME NEW h \in handles, IInv, AcknowledgeOutbox(h) \/ ReleaseOutbox(h)
  PROVE  IInv'
<1> USE DEF IInv
<1>1. h \in Handle /\ h.id \in Deliveries /\ h.gen \in Nat
  BY DEF InboxTypeOK, Handle
<1>2. /\ outbox[h.id].state = "leased" /\ outbox[h.id].owner = h.owner /\ outbox[h.id].gen = h.gen
      /\ UNCHANGED <<now, receiverID, openStores, inbox, nextSeq, handles>>
  BY DEF AcknowledgeOutbox, ReleaseOutbox, HoldsLease, FinishState, dbVars, leaseVars
<1>3. /\ outbox' \in [Deliveries -> OutboxRow]
      /\ outbox'[h.id].owner = outbox[h.id].owner /\ outbox'[h.id].gen = outbox[h.id].gen
      /\ outbox'[h.id].body = outbox[h.id].body
      /\ \A d \in Deliveries : d # h.id => outbox'[d] = outbox[d]
  BY <1>1 DEF AcknowledgeOutbox, ReleaseOutbox, InboxTypeOK, OutboxRow, OutboxStates
<1>4. \/ outbox'[h.id].state = "acknowledged" /\ acks' = acks \cup {h}
      \/ outbox'[h.id].state = "pending" /\ acks' = acks
  BY <1>1 DEF AcknowledgeOutbox, ReleaseOutbox, InboxTypeOK, OutboxRow, leaseVars
<1>5. InboxTypeOK'
  BY <1>1, <1>2, <1>3, <1>4 DEF InboxTypeOK, ClockTypeOK
<1>6. OneReceiver'
  BY <1>2 DEF OneReceiver
<1>7. EnqueuedAtomically' /\ AbsentNeverLeased'
  BY <1>1, <1>2, <1>3, <1>4 DEF EnqueuedAtomically, AbsentNeverLeased
<1>8. GenerationNamesOneClaim'
  BY <1>1, <1>2, <1>3, <1>4 DEF GenerationNamesOneClaim, InboxTypeOK, Handle
<1>9. AckedRowKeepsLease'
  BY <1>1, <1>2, <1>3, <1>4 DEF AckedRowKeepsLease, InboxTypeOK, Handle
<1> QED
  BY <1>5, <1>6, <1>7, <1>8, <1>9

LEMMA StepInv == IInv /\ [InboxNext]_inboxVars => IInv'
<1> SUFFICES ASSUME IInv, [InboxNext]_inboxVars PROVE IInv'
  OBVIOUS
<1>1. CASE UNCHANGED inboxVars
  BY <1>1 DEF inboxVars, IInv, InboxTypeOK, ClockTypeOK, OneReceiver, EnqueuedAtomically,
              AbsentNeverLeased, GenerationNamesOneClaim, AckedRowKeepsLease
<1>2. CASE InboxNext
  BY <1>2, TickInv, OpenInv, AcceptInv, ClaimInv, FinishInv DEF InboxNext
<1> QED
  BY <1>1, <1>2

LEMMA Invariance == InboxSpec => []IInv
BY InitInv, StepInv, PTL DEF InboxSpec

-----------------------------------------------------------------------------
(* The properties.                                                         *)

\* Every state of the inbox database is well typed; in particular a lease
\* generation never passes its largest value (ClaimOutbox's overflow check).
THEOREM TypeCorrectness == InboxSpec => []InboxTypeOK
BY Invariance, PTL DEF IInv

\* A database never mixes the deliveries of two receivers (bindMetadata).
THEOREM DatabaseHasOneReceiver == InboxSpec => []OneReceiver
BY Invariance, PTL DEF IInv

\* Inbox row and outbox row exist together and agree (the transaction of Accept).
THEOREM EnqueueIsAtomic == InboxSpec => []EnqueuedAtomically
BY Invariance, PTL DEF IInv

\* The generation finishLease compares is a fencing token.
THEOREM GenerationsFence == InboxSpec => []GenerationNamesOneClaim
BY Invariance, PTL DEF IInv

\* A lease that was taken over never acknowledges, whenever it comes back.
THEOREM StaleLeaseNeverAcknowledges == InboxSpec => []AckByNewestLease
<1>1. IInv => AckByNewestLease
  BY InvImpliesAckByNewest
<1> QED
  BY <1>1, Invariance, PTL

\* No step changes an acknowledged record: ClaimOutbox selects none,
\* finishLease asks for a leased one, Accept for one that does not exist.
LEMMA AcknowledgedStep ==
  ASSUME IInv, [InboxNext]_inboxVars, NEW d \in Deliveries, outbox[d].state = "acknowledged"
  PROVE  outbox'[d] = outbox[d]
<1>1. CASE UNCHANGED inboxVars
  BY <1>1 DEF inboxVars
<1>2. CASE InboxTick
  BY <1>2 DEF InboxTick, rowVars
<1>3. CASE \E r \in Receivers : Open(r) \/ Close(r)
  BY <1>3 DEF Open, Close, rowVars
<1>4. CASE \E r \in Receivers, e \in Deliveries, b \in Bodies : Accept(r, e, b)
  <2>1. PICK r \in Receivers, e \in Deliveries, b \in Bodies : Accept(r, e, b)
    BY <1>4
  <2>2. /\ e # d => outbox'[d] = outbox[d]
        /\ inbox[e].body = None \/ outbox'[e] = outbox[e]
    BY <2>1, AcceptRows DEF IInv
  <2>3. inbox[d].body \in EnqueuedBodies
    BY DEF IInv, EnqueuedAtomically
  <2> QED
    BY <2>2, <2>3, InboxAssumption
<1>5. CASE \E o \in Owners, limit \in 1..ClaimLimit : ClaimOutbox(o, limit)
  BY <1>5, CandidatesAreOpen DEF ClaimOutbox
<1>6. CASE \E h \in handles : AcknowledgeOutbox(h) \/ ReleaseOutbox(h)
  BY <1>6 DEF AcknowledgeOutbox, ReleaseOutbox, FinishState, IInv, InboxTypeOK, Handle
<1> QED
  BY <1>1, <1>2, <1>3, <1>4, <1>5, <1>6 DEF InboxNext

\* A record is acknowledged once and for all.
THEOREM AcknowledgementIsFinal == InboxSpec => AcknowledgedIsFinal
<1>1. IInv /\ [InboxNext]_inboxVars =>
        [\A d \in Deliveries : outbox[d].state = "acknowledged" => outbox'[d] = outbox[d]]_inboxVars
  BY AcknowledgedStep
<1> QED
  BY <1>1, Invariance, PTL DEF InboxSpec, AcknowledgedIsFinal

\* A step changes a recorded delivery only by counting a conflict.
LEMMA FirstContentStep ==
  ASSUME IInv, [InboxNext]_inboxVars, NEW d \in Deliveries, inbox[d].body # None
  PROVE  /\ inbox'[d].body = inbox[d].body
         /\ inbox'[d].receiver = inbox[d].receiver
         /\ inbox'[d].conflicts >= inbox[d].conflicts
<1>1. inbox[d].conflicts \in Nat
  BY DEF IInv, InboxTypeOK, InboxRow
<1>2. CASE UNCHANGED inbox
  BY <1>1, <1>2
<1>3. CASE \E r \in Receivers, e \in Deliveries, b \in Bodies : Accept(r, e, b)
  <2>1. PICK r \in Receivers, e \in Deliveries, b \in Bodies : Accept(r, e, b)
    BY <1>3
  <2>2. /\ e # d => inbox'[d] = inbox[d]
        /\ \/ inbox[e].body = None
           \/ /\ inbox'[e].body = inbox[e].body
              /\ inbox'[e].receiver = inbox[e].receiver
              /\ inbox'[e].conflicts >= inbox[e].conflicts
    BY <2>1, AcceptRows DEF IInv
  <2> QED
    BY <1>1, <2>2
<1> QED
  BY <1>2, <1>3
  DEF InboxNext, inboxVars, InboxTick, Open, Close, ClaimOutbox, AcknowledgeOutbox,
      ReleaseOutbox, rowVars

\* The first recorded content of a delivery is never replaced (INSERT OR IGNORE).
THEOREM FirstContentIsKept == InboxSpec => FirstDeliveryWins
<1>1. IInv /\ [InboxNext]_inboxVars =>
        [\A d \in Deliveries :
           inbox[d].body # None => /\ inbox'[d].body = inbox[d].body
                                   /\ inbox'[d].receiver = inbox[d].receiver
                                   /\ inbox'[d].conflicts >= inbox[d].conflicts]_inboxVars
  BY FirstContentStep
<1> QED
  BY <1>1, Invariance, PTL DEF InboxSpec, FirstDeliveryWins

-----------------------------------------------------------------------------
(* Takeover: here the text comparison matters.                             *)

\* A leased record changes hands in the second its lease expires at the earliest.
THEOREM NoTakeoverBeforeExpirySecond == InboxSpec => TakeoverWithinExpirySecond
<1>1. ASSUME IInv, [InboxNext]_inboxVars, NEW d \in Deliveries,
             outbox[d].state = "leased", outbox'[d].gen # outbox[d].gen
      PROVE  Second(outbox[d].expires) <= Second(now)
  <2>1. CASE \E r \in Receivers, e \in Deliveries, b \in Bodies : Accept(r, e, b)
    <3>1. PICK r \in Receivers, e \in Deliveries, b \in Bodies : Accept(r, e, b)
      BY <2>1
    <3>2. /\ e # d => outbox'[d] = outbox[d]
          /\ inbox[e].body = None \/ outbox'[e] = outbox[e]
      BY <1>1, <3>1, AcceptRows DEF IInv
    <3>3. inbox[d].body \in EnqueuedBodies
      BY <1>1 DEF IInv, EnqueuedAtomically
    <3> QED
      BY <1>1, <3>2, <3>3, InboxAssumption
  <2>2. CASE \E o \in Owners, limit \in 1..ClaimLimit : ClaimOutbox(o, limit)
    <3>1. Claimable(outbox[d])
      BY <1>1, <2>2 DEF ClaimOutbox, ClaimCandidates
    <3>2. TextAtMost(outbox[d].expires, now)
      BY <1>1, <3>1 DEF Claimable
    <3>3. outbox[d].expires \in Nat /\ now \in Nat
      BY <1>1, ClockAssumption DEF IInv, InboxTypeOK, ClockTypeOK, OutboxRow
    <3>4. Second(outbox[d].expires) \in Nat /\ Second(now) \in Nat
      BY <3>3, ClockAssumption DEF Second
    <3> QED
      BY <3>2, <3>4 DEF TextAtMost
  <2>3. CASE \E h \in handles : AcknowledgeOutbox(h) \/ ReleaseOutbox(h)
    BY <1>1, <2>3 DEF AcknowledgeOutbox, ReleaseOutbox, IInv, InboxTypeOK, OutboxRow, Handle
  <2>4. CASE UNCHANGED outbox
    BY <1>1, <2>4
  <2> QED
    BY <1>1, <2>1, <2>2, <2>3, <2>4
    DEF InboxNext, inboxVars, InboxTick, Open, Close, rowVars
<1>2. IInv /\ [InboxNext]_inboxVars =>
        [\A d \in Deliveries :
           outbox[d].state = "leased" /\ outbox'[d].gen # outbox[d].gen
             => Second(outbox[d].expires) <= Second(now)]_inboxVars
  BY <1>1
<1> QED
  BY <1>2, Invariance, PTL DEF InboxSpec, TakeoverWithinExpirySecond

-----------------------------------------------------------------------------
(* The controller store.                                                   *)

\* The attempts of a job that exist are those numbered 1..n.
Numbered(A, n) == \A i \in 1..MaxAttempts : A[i] # "absent" <=> i <= n

AttemptsFormPrefix ==
  \A p \in PRs, g \in Gens : \E n \in 0..MaxAttempts : Numbered(attempts[p][g], n)

JobsHaveTargets ==
  \A p \in PRs, g \in Gens : jobs[p][g].state # "absent" => jobs[p][g].target \in Targets

AttemptsHaveJobs ==
  \A p \in PRs, g \in Gens, i \in 1..MaxAttempts :
    attempts[p][g][i] # "absent" => jobs[p][g].state # "absent"

StoreInv ==
  /\ StoreTypeOK
  /\ CurrentJobMatches
  /\ LiveWorkIsCurrent
  /\ SourceDrivesJob
  /\ AttemptsFormPrefix
  /\ AttemptsHaveJobs
  /\ JobsHaveTargets

LEMMA PrefixIsDense == AttemptsFormPrefix /\ AttemptsHaveJobs => AttemptsAreDense
<1> SUFFICES ASSUME AttemptsFormPrefix, AttemptsHaveJobs, NEW p \in PRs, NEW g \in Gens,
                    NEW i \in 1..MaxAttempts, attempts[p][g][i] # "absent"
             PROVE  /\ jobs[p][g].state # "absent"
                    /\ \A k \in 1..i : attempts[p][g][k] # "absent"
  BY DEF AttemptsAreDense
<1>1. PICK n \in 0..MaxAttempts : Numbered(attempts[p][g], n)
  BY DEF AttemptsFormPrefix
<1> QED
  BY <1>1, ControllerStoreAssumption DEF Numbered, AttemptsHaveJobs

\* A stored expiry is a time.
LEMMA WholeSecondIsTime == ASSUME NEW t \in Nat PROVE WholeSecond(t) \in Nat
<1>1. Second(t) \in Nat
  BY ClockAssumption DEF Second
<1> QED
  BY <1>1, ClockAssumption DEF WholeSecond

LEMMA StoreInitInv == StoreInit => StoreInv
<1> SUFFICES ASSUME StoreInit PROVE StoreInv
  OBVIOUS
<1> USE ControllerStoreAssumption, ClockAssumption
    DEF StoreInit, ClockInit, NoJob, NoSource, NoAttempts, NoLease, Gens
<1>1. StoreTypeOK
  BY DEF StoreTypeOK, ClockTypeOK, PRRow, JobRow, SourceRow, Ineligible, JobLive, JobTerminal,
         SourceOpen, SourceSettled, Decisions
<1>2. CurrentJobMatches
  BY DEF CurrentJobMatches
<1>3. LiveWorkIsCurrent /\ SourceDrivesJob
  BY DEF LiveWorkIsCurrent, SourceDrivesJob, JobLive, SourceOpen
<1>4. AttemptsFormPrefix
  <2>1. \A p \in PRs, g \in Gens : attempts[p][g] = NoAttempts
    OBVIOUS
  <2>2. Numbered(NoAttempts, 0)
    BY DEF Numbered
  <2> QED
    BY <2>1, <2>2 DEF AttemptsFormPrefix
<1>5. AttemptsHaveJobs /\ JobsHaveTargets
  BY DEF AttemptsHaveJobs, JobsHaveTargets
<1> QED
  BY <1>1, <1>2, <1>3, <1>4, <1>5 DEF StoreInv

-----------------------------------------------------------------------------
(* Stopping the current job of a pull request.                             *)

\* What StoppedJobs, StoppedAttempts and StoppedSources do, row by row.
LEMMA StopRows ==
  ASSUME StoreTypeOK, NEW p \in PRs, NEW st \in {"superseded", "cancelled"}
  PROVE  /\ StoppedJobs(p, st) \in [Gens -> JobRow]
         /\ StoppedSources(p, st) \in [Gens -> SourceRow]
         /\ StoppedAttempts(p) \in [Gens -> [1..MaxAttempts -> {"absent", "queued", "cancelled"}]]
         /\ \A g \in Gens :
              /\ StoppedJobs(p, st)[g].target = jobs[p][g].target
              /\ StoppedJobs(p, st)[g].state =
                   IF g = prState[p].job /\ jobs[p][g].state \notin JobTerminal
                   THEN st ELSE jobs[p][g].state
              /\ g # prState[p].job => StoppedJobs(p, st)[g] = jobs[p][g]
              /\ jobs[p][g].state \in JobTerminal => StoppedJobs(p, st)[g] = jobs[p][g]
              /\ StoppedSources(p, st)[g].gen = sources[p][g].gen
              /\ StoppedSources(p, st)[g].state =
                   IF g = prState[p].job /\ sources[p][g].state \in SourceOpen
                   THEN st ELSE sources[p][g].state
              /\ g # prState[p].job => StoppedSources(p, st)[g] = sources[p][g]
              /\ sources[p][g].state \notin SourceOpen => StoppedSources(p, st)[g] = sources[p][g]
              /\ \A i \in 1..MaxAttempts :
                   StoppedAttempts(p)[g][i] =
                     IF g = prState[p].job /\ attempts[p][g][i] = "queued"
                     THEN "cancelled" ELSE attempts[p][g][i]
              /\ g # prState[p].job => StoppedAttempts(p)[g] = attempts[p][g]
<1>1. \A g \in Gens : /\ jobs[p][g] \in JobRow /\ sources[p][g] \in SourceRow
                      /\ attempts[p][g] \in [1..MaxAttempts -> {"absent", "queued", "cancelled"}]
  BY DEF StoreTypeOK
<1>2. \A g \in Gens : /\ [jobs[p][g] EXCEPT !.state = st] \in JobRow
                      /\ [jobs[p][g] EXCEPT !.state = st].state = st
                      /\ [jobs[p][g] EXCEPT !.state = st].target = jobs[p][g].target
  BY <1>1 DEF JobRow, JobTerminal
<1>3. \A g \in Gens : /\ [sources[p][g] EXCEPT !.state = st] \in SourceRow
                      /\ [sources[p][g] EXCEPT !.state = st].state = st
                      /\ [sources[p][g] EXCEPT !.state = st].gen = sources[p][g].gen
  BY <1>1 DEF SourceRow, SourceSettled
<1>4. StoppedJobs(p, st) \in [Gens -> JobRow] /\ StoppedSources(p, st) \in [Gens -> SourceRow]
  BY <1>1, <1>2, <1>3 DEF StoppedJobs, StoppedSources
<1>5. StoppedAttempts(p) \in [Gens -> [1..MaxAttempts -> {"absent", "queued", "cancelled"}]]
  BY <1>1 DEF StoppedAttempts
<1>6. ASSUME NEW g \in Gens
      PROVE  /\ StoppedJobs(p, st)[g].target = jobs[p][g].target
             /\ StoppedJobs(p, st)[g].state =
                  IF g = prState[p].job /\ jobs[p][g].state \notin JobTerminal
                  THEN st ELSE jobs[p][g].state
             /\ g # prState[p].job => StoppedJobs(p, st)[g] = jobs[p][g]
             /\ jobs[p][g].state \in JobTerminal => StoppedJobs(p, st)[g] = jobs[p][g]
  BY <1>2 DEF StoppedJobs
<1>7. ASSUME NEW g \in Gens
      PROVE  /\ StoppedSources(p, st)[g].gen = sources[p][g].gen
             /\ StoppedSources(p, st)[g].state =
                  IF g = prState[p].job /\ sources[p][g].state \in SourceOpen
                  THEN st ELSE sources[p][g].state
             /\ g # prState[p].job => StoppedSources(p, st)[g] = sources[p][g]
             /\ sources[p][g].state \notin SourceOpen => StoppedSources(p, st)[g] = sources[p][g]
  BY <1>3 DEF StoppedSources
<1>8. ASSUME NEW g \in Gens
      PROVE  /\ \A i \in 1..MaxAttempts :
                  StoppedAttempts(p)[g][i] =
                    IF g = prState[p].job /\ attempts[p][g][i] = "queued"
                    THEN "cancelled" ELSE attempts[p][g][i]
             /\ g # prState[p].job => StoppedAttempts(p)[g] = attempts[p][g]
  BY <1>1 DEF StoppedAttempts
<1> QED
  BY <1>4, <1>5, <1>6, <1>7, <1>8

-----------------------------------------------------------------------------
(* A new generation of a pull request.                                     *)

\* What NewGeneration does to the rows of the pull request, and to no other.
LEMMA NewGenerationRows ==
  ASSUME StoreTypeOK, NEW p \in PRs, NEW s \in Snapshot, NewGeneration(p, s)
  PROVE  LET g == prState[p].gen + 1 IN
         /\ g \in Gens
         /\ prState' \in [PRs -> PRRow] /\ jobs' \in [PRs -> [Gens -> JobRow]]
         /\ sources' \in [PRs -> [Gens -> SourceRow]] /\ nextSource' \in Nat
         /\ attempts' \in
              [PRs -> [Gens -> [1..MaxAttempts -> {"absent", "queued", "cancelled"}]]]
         /\ prState'[p] = [gen |-> g, elig |-> EligibilityFor(s),
                           target |-> IF Schedules(p, s) THEN s.target ELSE None,
                           job |-> IF Schedules(p, s) THEN g ELSE 0]
         /\ \A q \in PRs : q # p => /\ prState'[q] = prState[q] /\ jobs'[q] = jobs[q]
                                     /\ attempts'[q] = attempts[q] /\ sources'[q] = sources[q]
         /\ \A h \in Gens : h # g \/ ~Schedules(p, s) =>
              /\ jobs'[p][h] = StoppedJobs(p, "superseded")[h]
              /\ attempts'[p][h] = StoppedAttempts(p)[h]
              /\ sources'[p][h] = StoppedSources(p, "superseded")[h]
         /\ Schedules(p, s) =>
              /\ s.target \in Targets
              /\ jobs'[p][g] = [state |-> "importing-source", target |-> s.target]
              /\ attempts'[p][g] = [NoAttempts EXCEPT ![1] = "queued"]
              /\ sources'[p][g] = NewRequest
<1> DEFINE g == prState[p].gen + 1
<1>1. prState[p] \in PRRow /\ prState[p].gen < MaxGen
  BY DEF StoreTypeOK, NewGeneration
<1>2. g \in Gens /\ g \in 0..MaxGen
  BY <1>1, ControllerStoreAssumption DEF PRRow, Gens
<1>3. s.target \in Targets \cup {None} /\ EligibilityFor(s) \in {"eligible"} \cup Ineligible
  BY DEF Snapshot, EligibilityFor, Ineligible
<1>4. Schedules(p, s) => s.target \in Targets
  BY <1>3 DEF Schedules, EligibilityFor
<1>5. [gen |-> g, elig |-> EligibilityFor(s),
       target |-> IF Schedules(p, s) THEN s.target ELSE None,
       job |-> IF Schedules(p, s) THEN g ELSE 0] \in PRRow
  BY <1>2, <1>3, ControllerStoreAssumption DEF PRRow
<1>6. NewRequest \in SourceRow
  BY ControllerStoreAssumption DEF NewRequest, SourceRow, SourceOpen, StoreTypeOK
<1>7. [NoAttempts EXCEPT ![1] = "queued"] \in [1..MaxAttempts -> {"absent", "queued", "cancelled"}]
  BY ControllerStoreAssumption DEF NoAttempts
<1>8. Schedules(p, s) => [state |-> "importing-source", target |-> s.target] \in JobRow
  BY <1>4 DEF JobRow, JobLive
<1>9. /\ StoppedJobs(p, "superseded") \in [Gens -> JobRow]
      /\ StoppedSources(p, "superseded") \in [Gens -> SourceRow]
      /\ StoppedAttempts(p) \in [Gens -> [1..MaxAttempts -> {"absent", "queued", "cancelled"}]]
  BY StopRows
<1>10. prState' = [prState EXCEPT ![p] = [gen |-> g, elig |-> EligibilityFor(s),
                     target |-> IF Schedules(p, s) THEN s.target ELSE None,
                     job |-> IF Schedules(p, s) THEN g ELSE 0]]
  BY DEF NewGeneration
<1>11. nextSource' \in Nat
  BY DEF NewGeneration, StoreTypeOK
<1>12. CASE Schedules(p, s)
  <2>1. /\ jobs' = [jobs EXCEPT ![p] = [StoppedJobs(p, "superseded") EXCEPT ![g] =
                      [state |-> "importing-source", target |-> s.target]]]
        /\ attempts' = [attempts EXCEPT ![p] = [StoppedAttempts(p) EXCEPT ![g] =
                      [NoAttempts EXCEPT ![1] = "queued"]]]
        /\ sources' = [sources EXCEPT ![p] = [StoppedSources(p, "superseded") EXCEPT ![g] =
                      NewRequest]]
    BY <1>12 DEF NewGeneration, WithNewJob, WithFirstAttempt, WithRequest, SupersededJobs
  <2> HIDE DEF g
  <2> QED
    BY <1>2, <1>4, <1>5, <1>6, <1>7, <1>8, <1>9, <1>10, <1>11, <1>12, <2>1 DEF StoreTypeOK, g
<1>13. CASE ~Schedules(p, s)
  <2>1. /\ jobs' = [jobs EXCEPT ![p] = StoppedJobs(p, "superseded")]
        /\ attempts' = [attempts EXCEPT ![p] = StoppedAttempts(p)]
        /\ sources' = [sources EXCEPT ![p] = StoppedSources(p, "superseded")]
    BY <1>13 DEF NewGeneration, SupersededJobs
  <2> QED
    BY <1>2, <1>5, <1>9, <1>10, <1>11, <1>13, <2>1 DEF StoreTypeOK
<1> QED
  BY <1>12, <1>13

\* The invariants about the rows of a pull request.
RowInv ==
  /\ CurrentJobMatches
  /\ LiveWorkIsCurrent
  /\ SourceDrivesJob
  /\ AttemptsFormPrefix
  /\ AttemptsHaveJobs
  /\ JobsHaveTargets

\* Stopping keeps the numbering of attempts.
LEMMA StopNumbered ==
  ASSUME StoreTypeOK, NEW p \in PRs, NEW g \in Gens, NEW n \in 0..MaxAttempts,
         Numbered(attempts[p][g], n)
  PROVE  Numbered(StoppedAttempts(p)[g], n)
<1>1. \A i \in 1..MaxAttempts :
        StoppedAttempts(p)[g][i] = "absent" <=> attempts[p][g][i] = "absent"
  BY StopRows
<1> QED
  BY <1>1 DEF Numbered

\* After stopping nothing of the pull request is live, and nothing is forgotten.
LEMMA StopInv ==
  ASSUME StoreInv, NEW p \in PRs, NEW st \in {"superseded", "cancelled"}, NEW h \in Gens
  PROVE  /\ StoppedJobs(p, st)[h].state \notin JobLive
         /\ StoppedSources(p, st)[h].state \notin SourceOpen
         /\ StoppedJobs(p, st)[h].state = "absent" <=> jobs[p][h].state = "absent"
         /\ \A i \in 1..MaxAttempts :
              /\ StoppedAttempts(p)[h][i] # "queued"
              /\ StoppedAttempts(p)[h][i] = "absent" <=> attempts[p][h][i] = "absent"
<1>1. StoreTypeOK
  BY DEF StoreInv
<1>2. /\ StoppedJobs(p, st)[h].state =
           IF h = prState[p].job /\ jobs[p][h].state \notin JobTerminal
           THEN st ELSE jobs[p][h].state
      /\ StoppedSources(p, st)[h].state =
           IF h = prState[p].job /\ sources[p][h].state \in SourceOpen
           THEN st ELSE sources[p][h].state
      /\ \A i \in 1..MaxAttempts :
           StoppedAttempts(p)[h][i] =
             IF h = prState[p].job /\ attempts[p][h][i] = "queued"
             THEN "cancelled" ELSE attempts[p][h][i]
  BY <1>1, StopRows, SMTT(40)
<1>3. h # prState[p].job => /\ jobs[p][h].state \notin JobLive
                            /\ sources[p][h].state \notin SourceOpen
                            /\ \A i \in 1..MaxAttempts : attempts[p][h][i] # "queued"
  BY DEF StoreInv, LiveWorkIsCurrent
<1>4. h = prState[p].job => jobs[p][h].state # "absent"
  BY DEF StoreInv, CurrentJobMatches, Gens
<1> QED
  BY <1>2, <1>3, <1>4 DEF JobLive, JobTerminal, SourceOpen

LEMMA NewGenerationInv ==
  ASSUME StoreInv, NEW p \in PRs, NEW s \in Snapshot, Advances(p, s), NewGeneration(p, s)
  PROVE  RowInv'
<1> DEFINE g == prState[p].gen + 1
<1> USE DEF StoreInv
<1>1. /\ g \in Gens /\ prState[p].gen \in Nat /\ prState[p].job \in Nat
      /\ prState[p].job <= prState[p].gen
  <2>1. g \in Gens
    BY NewGenerationRows
  <2>2. prState[p].gen \in Nat /\ prState[p].job \in Nat
    BY ControllerStoreAssumption DEF StoreTypeOK, PRRow
  <2> QED
    BY <2>1, <2>2 DEF CurrentJobMatches
<1>2. Schedules(p, s) <=> EligibilityFor(s) = "eligible"
  BY DEF Schedules
<1>3. /\ prState'[p] = [gen |-> g, elig |-> EligibilityFor(s),
                        target |-> IF Schedules(p, s) THEN s.target ELSE None,
                        job |-> IF Schedules(p, s) THEN g ELSE 0]
      /\ \A q \in PRs : q # p => /\ prState'[q] = prState[q] /\ jobs'[q] = jobs[q]
                                  /\ attempts'[q] = attempts[q] /\ sources'[q] = sources[q]
  BY NewGenerationRows
<1>4. \A h \in Gens : h # g \/ ~Schedules(p, s) =>
        /\ jobs'[p][h] = StoppedJobs(p, "superseded")[h]
        /\ attempts'[p][h] = StoppedAttempts(p)[h]
        /\ sources'[p][h] = StoppedSources(p, "superseded")[h]
  BY NewGenerationRows
<1>5. Schedules(p, s) =>
        /\ s.target \in Targets
        /\ jobs'[p][g] = [state |-> "importing-source", target |-> s.target]
        /\ attempts'[p][g] = [NoAttempts EXCEPT ![1] = "queued"]
        /\ sources'[p][g] = NewRequest
  BY NewGenerationRows
<1> HIDE DEF g
<1>6. CurrentJobMatches'
  <2>1. \A q \in PRs : q # p =>
          /\ prState'[q].job = (IF prState'[q].elig = "eligible" THEN prState'[q].gen ELSE 0)
          /\ prState'[q].elig = "eligible" =>
               /\ prState'[q].gen > 0 /\ prState'[q].target # None
               /\ jobs'[q][prState'[q].gen].state # "absent"
               /\ jobs'[q][prState'[q].gen].target = prState'[q].target
          /\ \A h \in Gens : h > prState'[q].gen =>
               jobs'[q][h] = NoJob /\ sources'[q][h] = NoSource /\ attempts'[q][h] = NoAttempts
    BY <1>3 DEF CurrentJobMatches
  <2>2. /\ prState'[p].job = (IF prState'[p].elig = "eligible" THEN prState'[p].gen ELSE 0)
        /\ prState'[p].elig = "eligible" =>
             /\ prState'[p].gen > 0 /\ prState'[p].target # None
             /\ jobs'[p][prState'[p].gen].state # "absent"
             /\ jobs'[p][prState'[p].gen].target = prState'[p].target
    BY <1>1, <1>2, <1>3, <1>5, ControllerStoreAssumption DEF Gens
  <2>3. ASSUME NEW h \in Gens, h > g
        PROVE  jobs'[p][h] = NoJob /\ sources'[p][h] = NoSource /\ attempts'[p][h] = NoAttempts
    <3>1. h # g /\ h > prState[p].gen /\ h # prState[p].job
      BY <1>1, <2>3 DEF g, Gens
    <3>2. /\ StoppedJobs(p, "superseded")[h] = jobs[p][h]
          /\ StoppedAttempts(p)[h] = attempts[p][h]
          /\ StoppedSources(p, "superseded")[h] = sources[p][h]
      BY <3>1, StopRows
    <3> QED
      BY <1>4, <3>1, <3>2 DEF CurrentJobMatches
  <2> QED
    BY <1>3, <2>1, <2>2, <2>3 DEF CurrentJobMatches
<1>7. LiveWorkIsCurrent' /\ SourceDrivesJob'
  <2>1. ASSUME NEW h \in Gens, h # g \/ ~Schedules(p, s)
        PROVE  /\ jobs'[p][h].state \notin JobLive
               /\ sources'[p][h].state \notin SourceOpen
               /\ \A i \in 1..MaxAttempts : attempts'[p][h][i] # "queued"
    BY <1>4, <2>1, StopInv
  <2>2. Schedules(p, s) => prState'[p].job = g
    BY <1>3
  <2>3. Schedules(p, s) => jobs'[p][g].state = "importing-source"
    BY <1>5
  <2>4. LiveWorkIsCurrent'
    BY <1>3, <2>1, <2>2 DEF LiveWorkIsCurrent
  <2>5. SourceDrivesJob'
    BY <1>3, <2>1, <2>3 DEF SourceDrivesJob, JobLive
  <2> QED
    BY <2>4, <2>5
<1>8. AttemptsFormPrefix'
  <2>1. Numbered([NoAttempts EXCEPT ![1] = "queued"], 1)
    BY ControllerStoreAssumption DEF Numbered, NoAttempts
  <2>2. \A h \in Gens : \E n \in 0..MaxAttempts : Numbered(attempts'[p][h], n)
    BY <1>1, <1>4, <1>5, <2>1, StopNumbered, ControllerStoreAssumption DEF AttemptsFormPrefix
  <2> QED
    BY <1>3, <2>2 DEF AttemptsFormPrefix
<1>9. AttemptsHaveJobs' /\ JobsHaveTargets'
  <2>1. \A h \in Gens : h # g \/ ~Schedules(p, s) =>
          /\ jobs'[p][h].state = "absent" <=> jobs[p][h].state = "absent"
          /\ jobs'[p][h].target = jobs[p][h].target
          /\ \A i \in 1..MaxAttempts : attempts'[p][h][i] = "absent" <=> attempts[p][h][i] = "absent"
    <3>1. \A h \in Gens : StoppedJobs(p, "superseded")[h].target = jobs[p][h].target
      BY StopRows
    <3> QED
      BY <1>4, <3>1, StopInv
  <2> QED
    BY <1>3, <1>5, <2>1 DEF AttemptsHaveJobs, JobsHaveTargets
<1> QED
  BY <1>6, <1>7, <1>8, <1>9 DEF RowInv

-----------------------------------------------------------------------------
(* The operations that leave the rows of pull requests alone.              *)

LEMMA RowFrame ==
  ASSUME StoreInv, UNCHANGED <<prState, jobs, attempts, sources>>
  PROVE  RowInv'
BY DEF StoreInv, RowInv, CurrentJobMatches, LiveWorkIsCurrent, SourceDrivesJob,
       AttemptsFormPrefix, Numbered, AttemptsHaveJobs, JobsHaveTargets

LEMMA PlainStepsInv ==
  ASSUME StoreInv,
         \/ StoreTick
         \/ \E p \in PRs : AcquireReconcileLease(p)
         \/ \E o \in Deliveries, l \in granted, n \in 0..now : DuplicateProcessed(o, l, n)
         \/ \E c \in CheckRuns, p \in PRs, g \in Gens, t \in Targets :
              RegisterCheckBinding(c, p, g, t)
         \/ \E o \in Deliveries, d \in {"rerequest-ignored", "legacy-unreconcilable"} :
              RecordProcessingDecision(o, d)
  PROVE  StoreInv'
<1> USE DEF jobVars
<1>1. UNCHANGED <<prState, jobs, attempts, sources, nextSource>>
  BY DEF StoreTick, AcquireReconcileLease, DuplicateProcessed, RegisterCheckBinding,
         RecordProcessingDecision
<1>2. StoreTypeOK
  BY DEF StoreInv
<1>3. CASE StoreTick
  <2>1. StoreTypeOK'
    BY <1>1, <1>2, <1>3, ClockAssumption DEF StoreTick, Tick, StoreTypeOK, ClockTypeOK
  <2> QED
    BY <1>1, <2>1, RowFrame DEF StoreInv, RowInv
<1>4. ASSUME NEW p \in PRs, AcquireReconcileLease(p)
      PROVE  StoreInv'
  <2>1. now + ReconcileLease \in Nat /\ WholeSecond(now + ReconcileLease) \in Nat
    <3>1. now + ReconcileLease \in Nat
      BY <1>2, ClockAssumption, ControllerStoreAssumption DEF StoreTypeOK, ClockTypeOK
    <3> QED
      BY <3>1, WholeSecondIsTime
  <2>2. recLeases[p].gen + 1 \in 1..MaxStoreLeaseGen /\ recLeases[p].gen + 1 \in 0..MaxStoreLeaseGen
    BY <1>2, <1>4, ControllerStoreAssumption DEF StoreTypeOK, AcquireReconcileLease
  <2>3. GrantedLease(p) \in ReconcileHandle
    BY <2>1, <2>2 DEF GrantedLease, ReconcileHandle
  <2>4. [gen |-> recLeases[p].gen + 1, expires |-> WholeSecond(now + ReconcileLease)]
          \in [gen : 0..MaxStoreLeaseGen, expires : Nat]
    BY <2>1, <2>2
  <2>5. StoreTypeOK'
    BY <1>1, <1>2, <1>4, <2>3, <2>4 DEF AcquireReconcileLease, StoreTypeOK, ClockTypeOK
  <2> QED
    BY <1>1, <2>5, RowFrame DEF StoreInv, RowInv
<1>5. ASSUME NEW o \in Deliveries, NEW l \in granted, NEW n \in 0..now,
             DuplicateProcessed(o, l, n)
      PROVE  StoreInv'
  <2>1. NoLease \in [gen : 0..MaxStoreLeaseGen, expires : Nat]
    BY ControllerStoreAssumption DEF NoLease
  <2>2. StoreTypeOK'
    BY <1>1, <1>2, <1>5, <2>1
    DEF DuplicateProcessed, ReleaseReconcileLease, StoreTypeOK, ClockTypeOK
  <2> QED
    BY <1>1, <2>2, RowFrame DEF StoreInv, RowInv
<1>6. ASSUME NEW c \in CheckRuns, NEW p \in PRs, NEW g \in Gens, NEW t \in Targets,
             RegisterCheckBinding(c, p, g, t)
      PROVE  StoreInv'
  <2>1. [pr |-> p, gen |-> g, target |-> t] \in Binding
    BY DEF Binding
  <2>2. StoreTypeOK'
    BY <1>1, <1>2, <1>6, <2>1 DEF RegisterCheckBinding, StoreTypeOK, ClockTypeOK
  <2> QED
    BY <1>1, <2>2, RowFrame DEF StoreInv, RowInv
<1>7. ASSUME NEW o \in Deliveries, NEW d \in {"rerequest-ignored", "legacy-unreconcilable"},
             RecordProcessingDecision(o, d)
      PROVE  StoreInv'
  <2>1. StoreTypeOK'
    BY <1>1, <1>2, <1>7 DEF RecordProcessingDecision, StoreTypeOK, ClockTypeOK, Decisions
  <2> QED
    BY <1>1, <2>1, RowFrame DEF StoreInv, RowInv
<1> QED
  BY <1>3, <1>4, <1>5, <1>6, <1>7

-----------------------------------------------------------------------------
(* Snapshots, rerequests and hints.                                        *)

LEMMA SnapshotInv ==
  ASSUME StoreInv, NEW o \in Deliveries, NEW l \in granted, NEW s \in Snapshot, NEW n \in 0..now,
         ApplyPullRequestSnapshot(o, l, s, n)
  PROVE  StoreInv'
<1>1. StoreTypeOK /\ l.pr \in PRs
  BY DEF StoreInv, StoreTypeOK, ReconcileHandle
<1>2. SnapshotDecision(l.pr, s) \in Decisions
  BY DEF SnapshotDecision, Decisions
<1>3. NoLease \in [gen : 0..MaxStoreLeaseGen, expires : Nat]
  BY ControllerStoreAssumption DEF NoLease
<1>4. /\ UNCHANGED <<now, bindings, granted, sourceHandles>>
      /\ processed' \in [Deliveries -> Decisions \cup {"none"}]
      /\ recLeases' \in [PRs -> [gen : 0..MaxStoreLeaseGen, expires : Nat]]
  BY <1>1, <1>2, <1>3 DEF ApplyPullRequestSnapshot, ReleaseReconcileLease, StoreTypeOK
<1>5. CASE Advances(l.pr, s)
  <2>1. NewGeneration(l.pr, s)
    BY <1>5 DEF ApplyPullRequestSnapshot
  <2>2. RowInv'
    BY <1>1, <1>5, <2>1, NewGenerationInv
  <2>3. /\ prState' \in [PRs -> PRRow] /\ jobs' \in [PRs -> [Gens -> JobRow]]
        /\ sources' \in [PRs -> [Gens -> SourceRow]] /\ nextSource' \in Nat
        /\ attempts' \in
             [PRs -> [Gens -> [1..MaxAttempts -> {"absent", "queued", "cancelled"}]]]
    BY <1>1, <2>1, NewGenerationRows
  <2>4. StoreTypeOK'
    BY <1>1, <1>4, <2>3 DEF StoreTypeOK, ClockTypeOK
  <2> QED
    BY <2>2, <2>4 DEF StoreInv, RowInv
<1>6. CASE ~Advances(l.pr, s)
  <2>1. UNCHANGED <<prState, jobs, attempts, sources, nextSource>>
    BY <1>6 DEF ApplyPullRequestSnapshot, jobVars
  <2>2. StoreTypeOK'
    BY <1>1, <1>4, <2>1 DEF StoreTypeOK, ClockTypeOK
  <2> QED
    BY <2>1, <2>2, RowFrame DEF StoreInv, RowInv
<1> QED
  BY <1>5, <1>6

\* MAX(attempt_number) is the length of the prefix.
LEMMA LastAttemptIsLength ==
  ASSUME NEW p \in PRs, NEW g \in Gens, NEW n \in 0..MaxAttempts, Numbered(attempts[p][g], n)
  PROVE  LastAttempt(p, g) = n
<1> DEFINE IsLast(m) == /\ m > 0 => attempts[p][g][m] # "absent"
                        /\ \A i \in (m + 1)..MaxAttempts : attempts[p][g][i] = "absent"
<1>1. IsLast(n)
  BY ControllerStoreAssumption DEF Numbered
<1>2. ASSUME NEW m \in 0..MaxAttempts, IsLast(m) PROVE m = n
  <2>1. m > n => FALSE
    BY <1>2, ControllerStoreAssumption DEF Numbered
  <2>2. m < n => FALSE
    BY <1>2, ControllerStoreAssumption DEF Numbered
  <2> QED
    BY <2>1, <2>2, ControllerStoreAssumption
<1>3. LastAttempt(p, g) = CHOOSE m \in 0..MaxAttempts : IsLast(m)
  BY DEF LastAttempt
<1> QED
  BY <1>1, <1>2, <1>3

LEMMA RerequestInv ==
  ASSUME StoreInv, NEW o \in Deliveries, NEW l \in granted, NEW c \in CheckRuns,
         NEW genuine \in BOOLEAN, NEW t \in Targets \cup {None}, NEW n \in 0..now,
         ApplyCheckRunRerequest(o, l, c, genuine, t, n)
  PROVE  StoreInv'
<1>1. StoreTypeOK /\ l.pr \in PRs
  BY DEF StoreInv, StoreTypeOK, ReconcileHandle
<1>2. RerequestDecision(l, c, genuine, t) \in {"rerequest-ignored", "rerequest-created"}
  BY DEF ApplyCheckRunRerequest, RerequestDecision
<1>3. NoLease \in [gen : 0..MaxStoreLeaseGen, expires : Nat]
  BY ControllerStoreAssumption DEF NoLease
<1>4. /\ UNCHANGED <<now, prState, jobs, sources, nextSource, bindings, granted, sourceHandles>>
      /\ processed' \in [Deliveries -> Decisions \cup {"none"}]
      /\ recLeases' \in [PRs -> [gen : 0..MaxStoreLeaseGen, expires : Nat]]
  BY <1>1, <1>2, <1>3
  DEF ApplyCheckRunRerequest, ReleaseReconcileLease, StoreTypeOK, Decisions
<1>5. CASE RerequestDecision(l, c, genuine, t) = "rerequest-ignored"
  <2>1. attempts' = attempts
    BY <1>5 DEF ApplyCheckRunRerequest
  <2>2. StoreTypeOK'
    BY <1>1, <1>4, <2>1 DEF StoreTypeOK, ClockTypeOK
  <2> QED
    BY <1>4, <2>1, <2>2, RowFrame DEF StoreInv, RowInv
<1>6. CASE RerequestDecision(l, c, genuine, t) = "rerequest-created"
  <2> DEFINE g == bindings[c].gen
  <2>1. /\ bindings[c] # None /\ bindings[c].pr = l.pr /\ BindingCurrent(bindings[c], t)
        /\ ~(LastAttempt(l.pr, g) + 1 > MaxAttempts)
    BY <1>6 DEF RerequestDecision
  <2>2. g \in Gens /\ prState[l.pr].job = g /\ prState[l.pr].elig = "eligible" /\ prState[l.pr].gen = g
    BY <1>1, <2>1 DEF StoreTypeOK, Binding, BindingCurrent
  <2>3. PICK m \in 0..MaxAttempts : Numbered(attempts[l.pr][g], m)
    BY <1>1, <2>2 DEF StoreInv, AttemptsFormPrefix
  <2>4. LastAttempt(l.pr, g) = m /\ m + 1 \in 1..MaxAttempts
    BY <1>1, <2>1, <2>2, <2>3, LastAttemptIsLength, ControllerStoreAssumption
  <2>5. attempts' = [attempts EXCEPT ![l.pr][g][m + 1] = "queued"]
    BY <1>6, <2>4 DEF ApplyCheckRunRerequest
  <2> HIDE DEF g
  <2>6. attempts' \in [PRs -> [Gens -> [1..MaxAttempts -> {"absent", "queued", "cancelled"}]]]
    BY <1>1, <2>2, <2>4, <2>5 DEF StoreTypeOK
  <2>7. /\ attempts'[l.pr][g][m + 1] = "queued"
        /\ \A i \in 1..MaxAttempts : i # m + 1 => attempts'[l.pr][g][i] = attempts[l.pr][g][i]
        /\ \A h \in Gens : h # g => attempts'[l.pr][h] = attempts[l.pr][h]
        /\ \A q \in PRs : q # l.pr => attempts'[q] = attempts[q]
    <3> DEFINE A == [attempts[l.pr][g] EXCEPT ![m + 1] = "queued"]
    <3>1. attempts \in [PRs -> [Gens -> [1..MaxAttempts -> {"absent", "queued", "cancelled"}]]]
      BY <1>1 DEF StoreTypeOK
    <3>2. /\ A[m + 1] = "queued"
          /\ \A i \in 1..MaxAttempts : i # m + 1 => A[i] = attempts[l.pr][g][i]
      <4>1. DOMAIN attempts[l.pr][g] = 1..MaxAttempts
        BY <1>1, <2>2, <3>1
      <4> QED
        BY <2>4, <4>1, Zenon
    <3>3. attempts' = [attempts EXCEPT ![l.pr] = [attempts[l.pr] EXCEPT ![g] = A]]
      BY <2>5
    <3> HIDE DEF A
    <3>4. /\ attempts'[l.pr] = [attempts[l.pr] EXCEPT ![g] = A]
          /\ \A q \in PRs : q # l.pr => attempts'[q] = attempts[q]
      BY <1>1, <3>1, <3>3
    <3>5. attempts'[l.pr][g] = A /\ \A h \in Gens : h # g => attempts'[l.pr][h] = attempts[l.pr][h]
      BY <1>1, <2>2, <3>1, <3>4
    <3> QED
      BY <3>2, <3>4, <3>5
  <2>8. StoreTypeOK'
    BY <1>1, <1>4, <2>6 DEF StoreTypeOK, ClockTypeOK
  <2>9. Numbered(attempts'[l.pr][g], m + 1)
    BY <2>3, <2>4, <2>7, ControllerStoreAssumption DEF Numbered
  <2>10. AttemptsFormPrefix'
    <3>1. m + 1 \in 0..MaxAttempts
      BY <2>4
    <3>2. ASSUME NEW q \in PRs, NEW h \in Gens
          PROVE  \E k \in 0..MaxAttempts : Numbered(attempts'[q][h], k)
      <4>1. PICK k \in 0..MaxAttempts : Numbered(attempts[q][h], k)
        BY DEF StoreInv, AttemptsFormPrefix
      <4>2. q # l.pr \/ h # g => attempts'[q][h] = attempts[q][h]
        BY <2>7
      <4> QED
        BY <2>9, <3>1, <4>1, <4>2
    <3> QED
      BY <3>2 DEF AttemptsFormPrefix
  <2>11. CurrentJobMatches'
    <3>1. \A q \in PRs, h \in Gens : h > prState[q].gen => attempts'[q][h] = attempts[q][h]
      BY <2>2, <2>7 DEF Gens
    <3> QED
      BY <1>4, <3>1 DEF StoreInv, CurrentJobMatches
  <2>12. LiveWorkIsCurrent'
    BY <1>4, <2>2, <2>7 DEF StoreInv, LiveWorkIsCurrent
  <2>13. AttemptsHaveJobs'
    <3>1. jobs[l.pr][g].state # "absent"
      BY <1>1, <2>2 DEF StoreInv, CurrentJobMatches
    <3> QED
      BY <1>4, <2>7, <3>1 DEF StoreInv, AttemptsHaveJobs
  <2>14. SourceDrivesJob' /\ JobsHaveTargets'
    BY <1>4 DEF StoreInv, SourceDrivesJob, JobsHaveTargets
  <2> QED
    BY <2>8, <2>10, <2>11, <2>12, <2>13, <2>14 DEF StoreInv
<1> QED
  BY <1>2, <1>5, <1>6

\* An installation hint blocks its eligible pull requests and stops their jobs.
LEMMA HintInv ==
  ASSUME StoreInv, NEW o \in Deliveries, NEW hint \in SUBSET PRs, ApplyInstallationHint(o, hint)
  PROVE  StoreInv'
<1> DEFINE B == Blocked(hint)
<1>1. StoreTypeOK /\ B \subseteq PRs
  BY DEF StoreInv, Blocked
<1>2. \A p \in B : /\ prState[p] \in PRRow /\ prState[p].gen + 1 \in 0..MaxGen
                   /\ prState[p].gen \in Nat /\ prState[p].job = prState[p].gen
  BY <1>1, ControllerStoreAssumption
  DEF ApplyInstallationHint, Blocked, StoreTypeOK, PRRow, StoreInv, CurrentJobMatches
<1>3. \A p \in B : BlockedRow(p) \in PRRow
  BY <1>2, ControllerStoreAssumption DEF BlockedRow, PRRow, Ineligible
<1>4. \A p \in PRs :
        /\ prState'[p] = IF p \in B THEN BlockedRow(p) ELSE prState[p]
        /\ jobs'[p] = IF p \in B THEN StoppedJobs(p, "cancelled") ELSE jobs[p]
        /\ attempts'[p] = IF p \in B THEN StoppedAttempts(p) ELSE attempts[p]
        /\ sources'[p] = IF p \in B THEN StoppedSources(p, "cancelled") ELSE sources[p]
  BY DEF ApplyInstallationHint
<1>5. /\ UNCHANGED <<now, nextSource, recLeases, bindings, granted, sourceHandles>>
      /\ processed' \in [Deliveries -> Decisions \cup {"none"}]
  BY <1>1 DEF ApplyInstallationHint, StoreTypeOK, Decisions
<1> HIDE DEF B
<1>6. /\ prState' \in [PRs -> PRRow] /\ jobs' \in [PRs -> [Gens -> JobRow]]
      /\ attempts' \in [PRs -> [Gens -> [1..MaxAttempts -> {"absent", "queued", "cancelled"}]]]
      /\ sources' \in [PRs -> [Gens -> SourceRow]]
  <2>1. \A p \in PRs : prState[p] \in PRRow /\ jobs[p] \in [Gens -> JobRow]
                       /\ sources[p] \in [Gens -> SourceRow]
                       /\ attempts[p] \in [Gens -> [1..MaxAttempts -> {"absent", "queued", "cancelled"}]]
    BY <1>1 DEF StoreTypeOK
  <2>2. \A p \in B :
          /\ StoppedJobs(p, "cancelled") \in [Gens -> JobRow]
          /\ StoppedSources(p, "cancelled") \in [Gens -> SourceRow]
          /\ StoppedAttempts(p) \in [Gens -> [1..MaxAttempts -> {"absent", "queued", "cancelled"}]]
    BY <1>1, StopRows
  <2>3. /\ prState' = [p \in PRs |-> IF p \in B THEN BlockedRow(p) ELSE prState[p]]
        /\ jobs' = [p \in PRs |-> IF p \in B THEN StoppedJobs(p, "cancelled") ELSE jobs[p]]
        /\ attempts' = [p \in PRs |-> IF p \in B THEN StoppedAttempts(p) ELSE attempts[p]]
        /\ sources' = [p \in PRs |-> IF p \in B THEN StoppedSources(p, "cancelled") ELSE sources[p]]
    BY DEF ApplyInstallationHint, B
  <2> QED
    BY <1>3, <2>1, <2>2, <2>3
<1>7. StoreTypeOK'
  BY <1>1, <1>5, <1>6 DEF StoreTypeOK, ClockTypeOK
<1>8. ASSUME NEW p \in B, NEW h \in Gens
      PROVE  /\ jobs'[p][h].state \notin JobLive /\ sources'[p][h].state \notin SourceOpen
             /\ jobs'[p][h].state = "absent" <=> jobs[p][h].state = "absent"
             /\ jobs'[p][h].target = jobs[p][h].target
             /\ \A i \in 1..MaxAttempts :
                  /\ attempts'[p][h][i] # "queued"
                  /\ attempts'[p][h][i] = "absent" <=> attempts[p][h][i] = "absent"
             /\ h > prState[p].gen => /\ jobs'[p][h] = jobs[p][h] /\ sources'[p][h] = sources[p][h]
                                      /\ attempts'[p][h] = attempts[p][h]
  <2>1. /\ p \in PRs /\ jobs'[p] = StoppedJobs(p, "cancelled") /\ attempts'[p] = StoppedAttempts(p)
        /\ sources'[p] = StoppedSources(p, "cancelled")
    BY <1>1, <1>4
  <2>2. h > prState[p].gen => h # prState[p].job
    BY <1>2 DEF Gens
  <2>3. /\ StoppedJobs(p, "cancelled")[h].target = jobs[p][h].target
        /\ h # prState[p].job => /\ StoppedJobs(p, "cancelled")[h] = jobs[p][h]
                                 /\ StoppedSources(p, "cancelled")[h] = sources[p][h]
                                 /\ StoppedAttempts(p)[h] = attempts[p][h]
    BY <1>1, <2>1, StopRows
  <2> QED
    BY <2>1, <2>2, <2>3, StopInv
<1>9. CurrentJobMatches'
  <2>1. \A p \in B : /\ prState'[p].gen = prState[p].gen + 1 /\ prState'[p].job = 0
                     /\ prState'[p].elig = "installation-blocked"
    <3>1. \A p \in B : prState'[p] = BlockedRow(p)
      BY <1>1, <1>4
    <3>2. \A p \in B : /\ BlockedRow(p).gen = prState[p].gen + 1 /\ BlockedRow(p).job = 0
                       /\ BlockedRow(p).elig = "installation-blocked"
      BY <1>2 DEF BlockedRow
    <3> QED
      BY <3>1, <3>2
  <2>2. \A p \in B, h \in Gens : h > prState'[p].gen =>
          jobs'[p][h] = NoJob /\ sources'[p][h] = NoSource /\ attempts'[p][h] = NoAttempts
    <3>1. \A p \in B, h \in Gens : h > prState'[p].gen => h > prState[p].gen
      BY <1>2, <2>1 DEF Gens
    <3> QED
      BY <1>1, <1>8, <3>1 DEF StoreInv, CurrentJobMatches
  <2>3. \A p \in PRs : p \notin B =>
          /\ prState'[p] = prState[p] /\ jobs'[p] = jobs[p]
          /\ attempts'[p] = attempts[p] /\ sources'[p] = sources[p]
    BY <1>4
  <2> QED
    BY <2>1, <2>2, <2>3 DEF StoreInv, CurrentJobMatches
<1>10. LiveWorkIsCurrent' /\ SourceDrivesJob'
  BY <1>4, <1>8 DEF StoreInv, LiveWorkIsCurrent, SourceDrivesJob, JobLive
<1>11. AttemptsFormPrefix'
  <2>1. ASSUME NEW p \in PRs, NEW h \in Gens
        PROVE  \E k \in 0..MaxAttempts : Numbered(attempts'[p][h], k)
    <3>1. PICK k \in 0..MaxAttempts : Numbered(attempts[p][h], k)
      BY DEF StoreInv, AttemptsFormPrefix
    <3>2. Numbered(StoppedAttempts(p)[h], k)
      BY <1>1, <3>1, StopNumbered
    <3> QED
      BY <1>4, <3>1, <3>2
  <2> QED
    BY <2>1 DEF AttemptsFormPrefix
<1>12. AttemptsHaveJobs' /\ JobsHaveTargets'
  BY <1>4, <1>8 DEF StoreInv, AttemptsHaveJobs, JobsHaveTargets
<1> QED
  BY <1>7, <1>9, <1>10, <1>11, <1>12 DEF StoreInv

-----------------------------------------------------------------------------
(* Source requests.                                                        *)

\* A row of one source request changes, and of its job.
LEMMA SourceRowInv ==
  ASSUME StoreInv, NEW p \in PRs, NEW g \in Gens, NEW row \in SourceRow, NEW job \in JobRow,
         sources' = [sources EXCEPT ![p][g] = row],
         jobs' = [jobs EXCEPT ![p][g] = job],
         UNCHANGED <<now, prState, attempts, nextSource, processed, recLeases, bindings, granted>>,
         sourceHandles' \subseteq SourceHandle,
         sources[p][g].state \in SourceOpen,
         job.target = jobs[p][g].target,
         \/ job.state = "importing-source"
         \/ job.state = "awaiting-runner" /\ row.state = "completed"
         \/ job.state = "failed" /\ row.state = "failed"
  PROVE  StoreInv'
<1>1. StoreTypeOK
  BY DEF StoreInv
<1>2. /\ sources' \in [PRs -> [Gens -> SourceRow]] /\ jobs' \in [PRs -> [Gens -> JobRow]]
      /\ sources'[p][g] = row /\ jobs'[p][g] = job
      /\ \A q \in PRs, h \in Gens : q # p \/ h # g =>
           sources'[q][h] = sources[q][h] /\ jobs'[q][h] = jobs[q][h]
  BY <1>1 DEF StoreTypeOK
<1>3. StoreTypeOK'
  BY <1>1, <1>2 DEF StoreTypeOK, ClockTypeOK
<1>4. jobs[p][g].state = "importing-source" /\ prState[p].job = g /\ job.state # "absent"
  BY DEF StoreInv, SourceDrivesJob, LiveWorkIsCurrent, JobLive
<1>5. prState[p].elig = "eligible" /\ prState[p].gen = g
  BY <1>4 DEF StoreInv, CurrentJobMatches, Gens
<1>6. CurrentJobMatches'
  <2>1. \A q \in PRs, h \in Gens : h > prState[q].gen =>
          jobs'[q][h] = jobs[q][h] /\ sources'[q][h] = sources[q][h]
    BY <1>2, <1>5 DEF Gens
  <2>2. \A q \in PRs : prState[q].elig = "eligible" =>
          /\ prState[q].gen \in Gens
          /\ jobs'[q][prState[q].gen].state # "absent"
          /\ jobs'[q][prState[q].gen].target = prState[q].target
    <3>1. \A q \in PRs : prState[q].elig = "eligible" => prState[q].gen \in Gens
      BY <1>1, ControllerStoreAssumption DEF StoreInv, CurrentJobMatches, StoreTypeOK, PRRow, Gens
    <3> QED
      BY <1>2, <1>4, <1>5, <3>1 DEF StoreInv, CurrentJobMatches
  <2> QED
    BY <2>1, <2>2 DEF StoreInv, CurrentJobMatches
<1>7. LiveWorkIsCurrent'
  BY <1>2, <1>4 DEF StoreInv, LiveWorkIsCurrent
<1>8. SourceDrivesJob'
  BY <1>2 DEF StoreInv, SourceDrivesJob, SourceOpen
<1>9. AttemptsFormPrefix' /\ AttemptsHaveJobs' /\ JobsHaveTargets'
  BY <1>2, <1>4 DEF StoreInv, AttemptsFormPrefix, Numbered, AttemptsHaveJobs, JobsHaveTargets
<1> QED
  BY <1>3, <1>6, <1>7, <1>8, <1>9 DEF StoreInv

LEMMA SourceStepsInv ==
  ASSUME StoreInv,
         \/ \E i \in Ingesters, p \in PRs, g \in Gens : ClaimSourceImports(i, p, g)
         \/ \E h \in sourceHandles, next \in {"pending", "completed"} : FinishSourceLease(h, next)
         \/ \E h \in sourceHandles, failed \in BOOLEAN : ApplySourceImportResult(h, failed)
  PROVE  StoreInv'
<1>1. StoreTypeOK
  BY DEF StoreInv
<1>2. ASSUME NEW p \in PRs, NEW g \in Gens
      PROVE  /\ jobs = [jobs EXCEPT ![p][g] = jobs[p][g]]
             /\ jobs[p][g] \in JobRow /\ sources[p][g] \in SourceRow
             /\ sources[p][g].state \in SourceOpen => jobs[p][g].state = "importing-source"
  BY <1>1 DEF StoreTypeOK, StoreInv, SourceDrivesJob
<1>3. ASSUME NEW i \in Ingesters, NEW p \in PRs, NEW g \in Gens, ClaimSourceImports(i, p, g)
      PROVE  StoreInv'
  <2>1. sources[p][g].gen + 1 \in 1..MaxStoreLeaseGen /\ sources[p][g].gen + 1 \in 0..MaxStoreLeaseGen
    BY <1>2, <1>3, ControllerStoreAssumption DEF ClaimSourceImports, NoLeaseOverflow, SourceRow
  <2>2. WholeSecond(now + SourceLease) \in Nat
    <3>1. now + SourceLease \in Nat
      BY <1>1, ClockAssumption, ControllerStoreAssumption DEF StoreTypeOK, ClockTypeOK
    <3> QED
      BY <3>1, WholeSecondIsTime
  <2>3. ClaimedSource(sources[p][g], i) \in SourceRow
    BY <1>2, <2>1, <2>2 DEF ClaimedSource, SourceRow, SourceOpen
  <2>4. [pr |-> p, job |-> g, owner |-> i, gen |-> sources[p][g].gen + 1] \in SourceHandle
    BY <2>1 DEF SourceHandle
  <2>5. /\ sources' = [sources EXCEPT ![p][g] = ClaimedSource(sources[p][g], i)]
        /\ sourceHandles' \subseteq SourceHandle
        /\ UNCHANGED <<now, prState, jobs, attempts, nextSource, processed, recLeases, bindings, granted>>
    BY <1>1, <1>3, <2>4 DEF ClaimSourceImports, StoreTypeOK
  <2>6. sources[p][g].state \in SourceOpen
    BY <1>3 DEF ClaimSourceImports, NextSource, SourceClaimable, SourceOpen
  <2> QED
    BY <1>2, <2>3, <2>5, <2>6, SourceRowInv
<1>4. ASSUME NEW h \in sourceHandles
      PROVE  /\ h.pr \in PRs /\ h.job \in Gens
             /\ HoldsSourceLease(h) => sources[h.pr][h.job].state \in SourceOpen
  BY <1>1 DEF StoreTypeOK, SourceHandle, HoldsSourceLease, SourceOpen
<1>5. ASSUME NEW h \in sourceHandles, NEW st \in {"pending", "completed", "failed"}
      PROVE  /\ FinishedSource(sources[h.pr][h.job], st) \in SourceRow
             /\ FinishedSource(sources[h.pr][h.job], st).state = st
  BY <1>2, <1>4 DEF FinishedSource, SourceRow, SourceOpen, SourceSettled
<1>6. ASSUME NEW h \in sourceHandles, NEW next \in {"pending", "completed"}, FinishSourceLease(h, next)
      PROVE  StoreInv'
  <2>1. /\ sources' = [sources EXCEPT ![h.pr][h.job] = FinishedSource(sources[h.pr][h.job], next)]
        /\ HoldsSourceLease(h) /\ sourceHandles' \subseteq SourceHandle
        /\ UNCHANGED <<now, prState, jobs, attempts, nextSource, processed, recLeases, bindings, granted>>
    BY <1>1, <1>6 DEF FinishSourceLease, StoreTypeOK
  <2>2. h.pr \in PRs /\ h.job \in Gens /\ sources[h.pr][h.job].state \in SourceOpen
    BY <1>4, <2>1
  <2>3. /\ jobs' = [jobs EXCEPT ![h.pr][h.job] = jobs[h.pr][h.job]]
        /\ jobs[h.pr][h.job] \in JobRow /\ jobs[h.pr][h.job].state = "importing-source"
    BY <1>2, <2>1, <2>2
  <2>4. FinishedSource(sources[h.pr][h.job], next) \in SourceRow
    BY <1>5
  <2> QED
    BY <2>1, <2>2, <2>3, <2>4, SourceRowInv
<1>7. ASSUME NEW h \in sourceHandles, NEW failed \in BOOLEAN, ApplySourceImportResult(h, failed)
      PROVE  StoreInv'
  <2> DEFINE st == IF failed THEN "failed" ELSE "completed"
             job == AdvancedJob(jobs[h.pr][h.job], failed)
  <2>1. /\ sources' = [sources EXCEPT ![h.pr][h.job] = FinishedSource(sources[h.pr][h.job], st)]
        /\ jobs' = [jobs EXCEPT ![h.pr][h.job] = job]
        /\ HoldsSourceLease(h) /\ sourceHandles' \subseteq SourceHandle
        /\ UNCHANGED <<now, prState, attempts, nextSource, processed, recLeases, bindings, granted>>
    BY <1>1, <1>7 DEF ApplySourceImportResult, StoreTypeOK
  <2>2. jobs[h.pr][h.job].state = "importing-source"
    BY <1>2, <1>4, <2>1
  <2>3. /\ job \in JobRow /\ job.target = jobs[h.pr][h.job].target
        /\ job.state = IF failed THEN "failed" ELSE "awaiting-runner"
    BY <1>2, <1>4, <2>2 DEF AdvancedJob, JobRow, JobLive, JobTerminal
  <2>4. /\ FinishedSource(sources[h.pr][h.job], st) \in SourceRow
        /\ FinishedSource(sources[h.pr][h.job], st).state = st
    BY <1>5
  <2> QED
    BY <1>4, <2>1, <2>3, <2>4, SourceRowInv
<1> QED
  BY <1>3, <1>6, <1>7

-----------------------------------------------------------------------------
LEMMA StoreStepInv == StoreInv /\ [StoreNext]_storeVars => StoreInv'
<1> SUFFICES ASSUME StoreInv, [StoreNext]_storeVars PROVE StoreInv'
  OBVIOUS
<1>1. CASE UNCHANGED storeVars
  <2>1. StoreTypeOK'
    BY <1>1 DEF storeVars, StoreInv, StoreTypeOK, ClockTypeOK
  <2> QED
    BY <1>1, <2>1, RowFrame DEF storeVars, StoreInv, RowInv
<1>2. CASE StoreNext
  BY <1>2, PlainStepsInv, SnapshotInv, RerequestInv, HintInv, SourceStepsInv DEF StoreNext
<1> QED
  BY <1>1, <1>2

LEMMA StoreInvariance == StoreSpec => []StoreInv
BY StoreInitInv, StoreStepInv, PTL DEF StoreSpec

-----------------------------------------------------------------------------
(* The properties.                                                         *)

\* Every state of the controller database is well typed: no generation passes
\* its largest value, and a Check Run is bound to a target that exists.
THEOREM StoreTypeCorrectness == StoreSpec => []StoreTypeOK
BY StoreInvariance, PTL DEF StoreInv

\* The current job of a pull request is the job of its generation and target.
THEOREM CurrentJobIsCurrent == StoreSpec => []CurrentJobMatches
BY StoreInvariance, PTL DEF StoreInv

\* Nothing of a superseded generation is left running, queued or claimable.
THEOREM SupersededWorkIsStopped == StoreSpec => []LiveWorkIsCurrent
BY StoreInvariance, PTL DEF StoreInv

\* Jobs and their source requests move together.
THEOREM RunnableJobHasSource == StoreSpec => []SourceDrivesJob
BY StoreInvariance, PTL DEF StoreInv

\* Rerequests number the attempts of a job 1, 2, ... without gaps.
THEOREM AttemptNumbersAreDense == StoreSpec => []AttemptsAreDense
<1>1. StoreInv => AttemptsAreDense
  BY PrefixIsDense DEF StoreInv
<1> QED
  BY <1>1, StoreInvariance, PTL

-----------------------------------------------------------------------------
(* What a step may do to the rows of a generation.                         *)

\* Generations do not decrease and what is stopped stays stopped.
Forward(p, g) ==
  /\ prState'[p].gen >= prState[p].gen
  /\ sources'[p][g].gen >= sources[p][g].gen
  /\ jobs[p][g].state \in JobTerminal => jobs'[p][g] = jobs[p][g]
  /\ sources[p][g].state \in SourceSettled => sources'[p][g] = sources[p][g]
  /\ \A i \in 1..MaxAttempts :
       attempts[p][g][i] = "cancelled" => attempts'[p][g][i] = "cancelled"

LEMMA RowTypes ==
  ASSUME StoreInv, NEW p \in PRs, NEW g \in Gens
  PROVE  /\ prState[p].gen \in Nat /\ sources[p][g].gen \in Nat
         /\ jobs[p][g] \in JobRow /\ sources[p][g] \in SourceRow
BY ControllerStoreAssumption DEF StoreInv, StoreTypeOK, PRRow, SourceRow

\* A step that leaves these rows alone.
LEMMA ForwardFrame ==
  ASSUME StoreInv, NEW p \in PRs, NEW g \in Gens,
         prState'[p] = prState[p], jobs'[p][g] = jobs[p][g],
         sources'[p][g] = sources[p][g], attempts'[p][g] = attempts[p][g]
  PROVE  Forward(p, g)
<1>1. prState[p].gen \in Nat /\ sources[p][g].gen \in Nat
  BY RowTypes
<1> QED
  BY <1>1 DEF Forward

LEMMA ForwardSnapshot ==
  ASSUME StoreInv, NEW p \in PRs, NEW s \in Snapshot, NewGeneration(p, s),
         NEW q \in PRs, NEW h \in Gens
  PROVE  Forward(q, h)
<1> DEFINE g == prState[p].gen + 1
<1>1. StoreTypeOK /\ prState[p].gen \in Nat /\ g \in Gens
  BY RowTypes, NewGenerationRows DEF StoreInv
<1>2. CASE q # p
  BY <1>1, <1>2, NewGenerationRows, ForwardFrame
<1>3. prState'[p].gen = g
  <2>1. prState'[p] = [gen |-> g, elig |-> EligibilityFor(s),
                       target |-> IF Schedules(p, s) THEN s.target ELSE None,
                       job |-> IF Schedules(p, s) THEN g ELSE 0]
    BY <1>1, NewGenerationRows
  <2> HIDE DEF g
  <2> QED
    BY <2>1
<1>4. CASE q = p /\ (h # g \/ ~Schedules(p, s))
  <2>1. /\ jobs'[p][h] = StoppedJobs(p, "superseded")[h]
        /\ attempts'[p][h] = StoppedAttempts(p)[h]
        /\ sources'[p][h] = StoppedSources(p, "superseded")[h]
    <3>1. \A k \in Gens : k # g \/ ~Schedules(p, s) =>
            /\ jobs'[p][k] = StoppedJobs(p, "superseded")[k]
            /\ attempts'[p][k] = StoppedAttempts(p)[k]
            /\ sources'[p][k] = StoppedSources(p, "superseded")[k]
      BY <1>1, NewGenerationRows
    <3> HIDE DEF g
    <3> QED
      BY <1>4, <3>1
  <2>2. /\ jobs[p][h].state \in JobTerminal => StoppedJobs(p, "superseded")[h] = jobs[p][h]
        /\ StoppedSources(p, "superseded")[h].gen = sources[p][h].gen
        /\ sources[p][h].state \notin SourceOpen =>
             StoppedSources(p, "superseded")[h] = sources[p][h]
        /\ \A i \in 1..MaxAttempts :
             attempts[p][h][i] = "cancelled" => StoppedAttempts(p)[h][i] = "cancelled"
    BY <1>1, StopRows
  <2>3. sources[p][h].gen \in Nat
    BY RowTypes
  <2> QED
    BY <1>1, <1>4, <1>3, <2>1, <2>2, <2>3 DEF Forward, SourceSettled, SourceOpen
<1>5. CASE q = p /\ h = g /\ Schedules(p, s)
  <2>1. jobs[p][g] = NoJob /\ sources[p][g] = NoSource /\ attempts[p][g] = NoAttempts
    BY <1>1 DEF StoreInv, CurrentJobMatches
  <2>2. sources'[p][g] = NewRequest
    BY <1>1, <1>5, NewGenerationRows
  <2>3. /\ NoJob.state \notin JobTerminal /\ NoSource.state \notin SourceSettled
        /\ NoSource.gen = 0 /\ NewRequest.gen = 0
        /\ \A i \in 1..MaxAttempts : NoAttempts[i] = "absent"
    BY DEF NoJob, NoSource, NewRequest, NoAttempts, JobTerminal, SourceSettled
  <2> HIDE DEF g
  <2>4. prState'[p].gen >= prState[p].gen
    BY <1>1, <1>3 DEF g
  <2> QED
    BY <1>5, <2>1, <2>2, <2>3, <2>4 DEF Forward
<1> QED
  BY <1>2, <1>4, <1>5

LEMMA ForwardHint ==
  ASSUME StoreInv, NEW o \in Deliveries, NEW hint \in SUBSET PRs, ApplyInstallationHint(o, hint),
         NEW q \in PRs, NEW h \in Gens
  PROVE  Forward(q, h)
<1>1. StoreTypeOK /\ prState[q].gen \in Nat /\ sources[q][h].gen \in Nat
  BY RowTypes DEF StoreInv
<1>2. CASE q \notin Blocked(hint)
  <2>1. prState'[q] = prState[q] /\ jobs'[q] = jobs[q] /\ sources'[q] = sources[q]
        /\ attempts'[q] = attempts[q]
    BY <1>2 DEF ApplyInstallationHint
  <2> QED
    BY <2>1, ForwardFrame
<1>3. CASE q \in Blocked(hint)
  <2>1. /\ prState'[q] = BlockedRow(q) /\ jobs'[q] = StoppedJobs(q, "cancelled")
        /\ attempts'[q] = StoppedAttempts(q) /\ sources'[q] = StoppedSources(q, "cancelled")
    BY <1>3 DEF ApplyInstallationHint
  <2>2. /\ jobs[q][h].state \in JobTerminal => StoppedJobs(q, "cancelled")[h] = jobs[q][h]
        /\ StoppedSources(q, "cancelled")[h].gen = sources[q][h].gen
        /\ sources[q][h].state \notin SourceOpen =>
             StoppedSources(q, "cancelled")[h] = sources[q][h]
        /\ \A i \in 1..MaxAttempts :
             attempts[q][h][i] = "cancelled" => StoppedAttempts(q)[h][i] = "cancelled"
    BY <1>1, StopRows
  <2>3. BlockedRow(q).gen = prState[q].gen + 1
    BY DEF BlockedRow
  <2> QED
    BY <1>1, <2>1, <2>2, <2>3 DEF Forward, SourceSettled, SourceOpen
<1> QED
  BY <1>2, <1>3

\* A row of an open source request, and its job, change together.
LEMMA ForwardSource ==
  ASSUME StoreInv, NEW p \in PRs, NEW g \in Gens, NEW row, NEW job,
         sources' = [sources EXCEPT ![p][g] = row], jobs' = [jobs EXCEPT ![p][g] = job],
         UNCHANGED <<prState, attempts>>,
         sources[p][g].state \in SourceOpen, row.gen >= sources[p][g].gen,
         NEW q \in PRs, NEW h \in Gens
  PROVE  Forward(q, h)
<1>1. /\ sources'[p][g] = row /\ jobs'[p][g] = job
      /\ q # p \/ h # g => sources'[q][h] = sources[q][h] /\ jobs'[q][h] = jobs[q][h]
  BY DEF StoreInv, StoreTypeOK
<1>2. jobs[p][g].state = "importing-source"
  BY DEF StoreInv, SourceDrivesJob
<1>3. prState[q].gen \in Nat
  BY RowTypes
<1>4. CASE q # p \/ h # g
  BY <1>1, <1>4, ForwardFrame
<1>5. CASE q = p /\ h = g
  BY <1>1, <1>2, <1>3, <1>5 DEF Forward, JobTerminal, SourceOpen, SourceSettled
<1> QED
  BY <1>4, <1>5

LEMMA ForwardStep ==
  ASSUME StoreInv, [StoreNext]_storeVars, NEW q \in PRs, NEW h \in Gens
  PROVE  Forward(q, h)
<1>1. StoreTypeOK
  BY DEF StoreInv
<1>2. CASE UNCHANGED <<prState, jobs, attempts, sources>>
  BY <1>2, ForwardFrame
<1>3. ASSUME NEW o \in Deliveries, NEW l \in granted, NEW s \in Snapshot, NEW n \in 0..now,
             ApplyPullRequestSnapshot(o, l, s, n)
      PROVE  Forward(q, h)
  <2>1. l.pr \in PRs
    BY <1>1 DEF StoreTypeOK, ReconcileHandle
  <2>2. NewGeneration(l.pr, s) \/ UNCHANGED <<prState, jobs, attempts, sources>>
    BY <1>3 DEF ApplyPullRequestSnapshot, jobVars
  <2> QED
    BY <1>2, <2>1, <2>2, ForwardSnapshot
<1>4. ASSUME NEW o \in Deliveries, NEW l \in granted, NEW c \in CheckRuns, NEW genuine \in BOOLEAN,
             NEW t \in Targets \cup {None}, NEW n \in 0..now,
             ApplyCheckRunRerequest(o, l, c, genuine, t, n)
      PROVE  Forward(q, h)
  <2>1. UNCHANGED <<prState, jobs, sources>>
    BY <1>4 DEF ApplyCheckRunRerequest
  <2>2. CASE attempts' = attempts
    BY <1>2, <2>1, <2>2
  <2>3. CASE attempts' # attempts
    <3>1. /\ bindings[c] # None /\ bindings[c].pr = l.pr
          /\ ~(LastAttempt(l.pr, bindings[c].gen) + 1 > MaxAttempts)
          /\ attempts' = [attempts EXCEPT ![l.pr][bindings[c].gen]
                                           [LastAttempt(l.pr, bindings[c].gen) + 1] = "queued"]
      BY <1>4, <2>3 DEF ApplyCheckRunRerequest, RerequestDecision
    <3>2. l.pr \in PRs /\ bindings[c].gen \in Gens
      BY <1>1, <3>1 DEF StoreTypeOK, ReconcileHandle, Binding
    <3>3. PICK m \in 0..MaxAttempts : Numbered(attempts[l.pr][bindings[c].gen], m)
      BY <3>2 DEF StoreInv, AttemptsFormPrefix
    <3>4. LastAttempt(l.pr, bindings[c].gen) = m /\ m + 1 \in 1..MaxAttempts
      BY <3>1, <3>2, <3>3, LastAttemptIsLength, ControllerStoreAssumption
    <3>5. attempts[l.pr][bindings[c].gen][m + 1] = "absent"
      BY <3>3, <3>4 DEF Numbered
    <3>6. \A i \in 1..MaxAttempts : attempts[q][h][i] = "cancelled" => attempts'[q][h][i] = "cancelled"
      BY <1>1, <3>1, <3>2, <3>4, <3>5 DEF StoreTypeOK
    <3> QED
      BY <2>1, <3>6, RowTypes DEF Forward
  <2> QED
    BY <2>2, <2>3
<1>5. ASSUME NEW o \in Deliveries, NEW hint \in SUBSET PRs, ApplyInstallationHint(o, hint)
      PROVE  Forward(q, h)
  BY <1>5, ForwardHint
<1>6. ASSUME NEW i \in Ingesters, NEW p \in PRs, NEW g \in Gens, ClaimSourceImports(i, p, g)
      PROVE  Forward(q, h)
  <2>1. /\ sources' = [sources EXCEPT ![p][g] = ClaimedSource(sources[p][g], i)]
        /\ UNCHANGED <<prState, jobs, attempts>> /\ sources[p][g].state \in SourceOpen
    BY <1>6 DEF ClaimSourceImports, NextSource, SourceClaimable, SourceOpen
  <2>2. jobs' = [jobs EXCEPT ![p][g] = jobs[p][g]]
    BY <1>1, <2>1 DEF StoreTypeOK
  <2>3. ClaimedSource(sources[p][g], i).gen >= sources[p][g].gen
    BY RowTypes DEF ClaimedSource
  <2> QED
    BY <2>1, <2>2, <2>3, ForwardSource
<1>7. ASSUME NEW k \in sourceHandles
      PROVE  /\ k.pr \in PRs /\ k.job \in Gens
             /\ \A st : FinishedSource(sources[k.pr][k.job], st).gen >= sources[k.pr][k.job].gen
             /\ HoldsSourceLease(k) => sources[k.pr][k.job].state \in SourceOpen
             /\ jobs = [jobs EXCEPT ![k.pr][k.job] = jobs[k.pr][k.job]]
  <2>1. k.pr \in PRs /\ k.job \in Gens
    BY <1>1 DEF StoreTypeOK, SourceHandle
  <2>2. sources[k.pr][k.job].gen \in Nat
    BY <2>1, RowTypes
  <2>3. \A st : FinishedSource(sources[k.pr][k.job], st).gen >= sources[k.pr][k.job].gen
    BY <2>2 DEF FinishedSource
  <2>4. HoldsSourceLease(k) => sources[k.pr][k.job].state \in SourceOpen
    BY DEF HoldsSourceLease, SourceOpen
  <2>5. jobs = [jobs EXCEPT ![k.pr][k.job] = jobs[k.pr][k.job]]
    BY <1>1, <2>1 DEF StoreTypeOK
  <2> QED
    BY <2>1, <2>3, <2>4, <2>5
<1>8. ASSUME NEW k \in sourceHandles, NEW next \in {"pending", "completed"}, FinishSourceLease(k, next)
      PROVE  Forward(q, h)
  <2>1. /\ sources' = [sources EXCEPT ![k.pr][k.job] = FinishedSource(sources[k.pr][k.job], next)]
        /\ UNCHANGED <<prState, jobs, attempts>> /\ HoldsSourceLease(k)
    BY <1>8 DEF FinishSourceLease
  <2> QED
    BY <1>7, <2>1, ForwardSource
<1>9. ASSUME NEW k \in sourceHandles, NEW failed \in BOOLEAN, ApplySourceImportResult(k, failed)
      PROVE  Forward(q, h)
  <2> DEFINE st == IF failed THEN "failed" ELSE "completed"
  <2>1. /\ sources' = [sources EXCEPT ![k.pr][k.job] = FinishedSource(sources[k.pr][k.job], st)]
        /\ jobs' = [jobs EXCEPT ![k.pr][k.job] = AdvancedJob(jobs[k.pr][k.job], failed)]
        /\ UNCHANGED <<prState, attempts>> /\ HoldsSourceLease(k)
    BY <1>9 DEF ApplySourceImportResult
  <2> HIDE DEF st
  <2> QED
    BY <1>7, <2>1, ForwardSource
<1> QED
  BY <1>2, <1>3, <1>4, <1>5, <1>6, <1>8, <1>9
  DEF StoreNext, storeVars, StoreTick, AcquireReconcileLease, DuplicateProcessed,
      RegisterCheckBinding, RecordProcessingDecision, jobVars

\* The generations of pull requests and of source leases never decrease.
THEOREM GenerationsAreMonotonic == StoreSpec => GenerationsNeverDecrease
<1>1. StoreInv /\ [StoreNext]_storeVars =>
        [\A p \in PRs : /\ prState'[p].gen >= prState[p].gen
                        /\ \A g \in Gens : sources'[p][g].gen >= sources[p][g].gen]_storeVars
  <2>1. 1 \in Gens
    BY ControllerStoreAssumption DEF Gens
  <2> QED
    BY <2>1, ForwardStep DEF Forward
<1> QED
  BY <1>1, StoreInvariance, PTL DEF StoreSpec, GenerationsNeverDecrease

\* No late result, lease or delivery revives what was stopped.
THEOREM StoppedIsFinal == StoreSpec => StoppedStaysStopped
<1>1. StoreInv /\ [StoreNext]_storeVars =>
        [\A p \in PRs, g \in Gens :
           /\ jobs[p][g].state \in JobTerminal => jobs'[p][g] = jobs[p][g]
           /\ sources[p][g].state \in SourceSettled => sources'[p][g] = sources[p][g]
           /\ \A i \in 1..MaxAttempts :
                attempts[p][g][i] = "cancelled" => attempts'[p][g][i] = "cancelled"]_storeVars
  BY ForwardStep DEF Forward
<1> QED
  BY <1>1, StoreInvariance, PTL DEF StoreSpec, StoppedStaysStopped
-----------------------------------------------------------------------------
(* Deliveries take effect once.                                            *)

\* What EffectOncePerDelivery says of one step.
EffectStep ==
  /\ \A o \in Deliveries : processed[o] # "none" => processed'[o] = processed[o]
  /\ (\/ \E p \in PRs : prState'[p].gen # prState[p].gen
      \/ \E p \in PRs, g \in Gens, i \in 1..MaxAttempts :
           attempts[p][g][i] = "absent" /\ attempts'[p][g][i] # "absent")
     => \E o \in Deliveries : processed[o] = "none" /\ processed'[o] # "none"

\* A transaction that records a fresh delivery may have any effect.
LEMMA FreshDelivery ==
  ASSUME StoreTypeOK, NEW o \in Deliveries, NotYetProcessed(o), NEW d \in Decisions,
         processed' = [processed EXCEPT ![o] = d]
  PROVE  EffectStep
<1>1. processed'[o] # "none" /\ processed[o] = "none"
  BY DEF StoreTypeOK, Decisions, NotYetProcessed
<1>2. \A x \in Deliveries : processed[x] # "none" => processed'[x] = processed[x]
  BY <1>1 DEF StoreTypeOK
<1> QED
  BY <1>1, <1>2 DEF EffectStep

\* Every step of the store is one of the two kinds.
LEMMA EffectOfStep ==
  ASSUME StoreInv, [StoreNext]_storeVars
  PROVE  EffectStep
<1>1. StoreTypeOK
  BY DEF StoreInv
<1>2. CASE UNCHANGED <<processed, prState, attempts>>
  BY <1>2 DEF EffectStep
<1>3. ASSUME NEW o \in Deliveries, NEW l \in granted, NEW s \in Snapshot, NEW n \in 0..now,
             ApplyPullRequestSnapshot(o, l, s, n)
      PROVE  EffectStep
  <2>1. SnapshotDecision(l.pr, s) \in Decisions
    BY DEF SnapshotDecision, Decisions
  <2> QED
    BY <1>1, <1>3, <2>1, FreshDelivery DEF ApplyPullRequestSnapshot
<1>4. ASSUME NEW o \in Deliveries, NEW l \in granted, NEW c \in CheckRuns, NEW genuine \in BOOLEAN,
             NEW t \in Targets \cup {None}, NEW n \in 0..now,
             ApplyCheckRunRerequest(o, l, c, genuine, t, n)
      PROVE  EffectStep
  <2>1. RerequestDecision(l, c, genuine, t) \in Decisions
    BY <1>4 DEF ApplyCheckRunRerequest, RerequestDecision, Decisions
  <2> QED
    BY <1>1, <1>4, <2>1, FreshDelivery DEF ApplyCheckRunRerequest
<1>5. ASSUME NEW o \in Deliveries, NEW hint \in SUBSET PRs, ApplyInstallationHint(o, hint)
      PROVE  EffectStep
  <2>1. "installation-hint" \in Decisions
    BY DEF Decisions
  <2> QED
    BY <1>1, <1>5, <2>1, FreshDelivery DEF ApplyInstallationHint
<1>6. ASSUME NEW o \in Deliveries, NEW decision \in {"rerequest-ignored", "legacy-unreconcilable"},
             RecordProcessingDecision(o, decision)
      PROVE  EffectStep
  <2>1. decision \in Decisions
    BY DEF Decisions
  <2> QED
    BY <1>1, <1>6, <2>1, FreshDelivery DEF RecordProcessingDecision
<1> QED
  BY <1>2, <1>3, <1>4, <1>5, <1>6
  DEF StoreNext, storeVars, StoreTick, AcquireReconcileLease, DuplicateProcessed,
      RegisterCheckBinding, ClaimSourceImports, FinishSourceLease,
      ApplySourceImportResult, jobVars

\* A delivery takes effect at most once, however often it is processed.
THEOREM DeliveryTakesEffectOnce == StoreSpec => EffectOncePerDelivery
<1>1. StoreInv /\ [StoreNext]_storeVars => [EffectStep]_storeVars
  BY EffectOfStep
<1> QED
  BY <1>1, StoreInvariance, PTL DEF StoreSpec, EffectOncePerDelivery, EffectStep

=============================================================================
