-------------------------- MODULE ControllerProofs --------------------------
(***************************************************************************)
(* The safety properties of Controller, for any number of controller       *)
(* processes, deliveries and pull requests, and its refinement of          *)
(* ReconcileContract.                                                      *)
(*                                                                         *)
(* The controller is first shown to be a client of its two stores, so that *)
(* the invariants of Inbox and ControllerStore hold here.  The argument    *)
(* then rests on time: a reconcile lease restarts at generation 1 when it  *)
(* is released, so the generation alone does not fence, and what keeps a   *)
(* slow process from putting an old snapshot back is that its deadline is  *)
(* never after the expiry of its lease (LeaseInv), which                   *)
(* ControllerAssumption makes true of the whole-second expiry.             *)
(***************************************************************************)
EXTENDS Controller, StoreProofs

PRVersion == [version : 0..MaxVersion, snap : Snapshots]
WorkerRow == [pc : Steps, rec : Deliveries \cup {None}, gen : Nat, deadline : Nat,
              lease : ReconcileHandle \cup {None}, snap : PRVersion \cup {None}]
Sent == [body : Bodies, version : 0..MaxVersion]

-----------------------------------------------------------------------------
(* What the locals r of a process say about the state around it, which the *)
(* parameters name: O is the outbox, P the processed deliveries, n the     *)
(* time, G the leases granted, L the lease rows, V GitHub, S what was sent *)
(* and A the versions applied.                                             *)

RecInv(r, O, n) ==
  r.pc # "idle" =>
    /\ r.rec \in Deliveries
    /\ O[r.rec].state # "absent"
    /\ r.deadline <= n + ProcessingTimeout

AckInv(r, P) == r.pc = "ack" => P[r.rec] # "none"

Busy(r, n) == r.pc \in {"read", "apply"} /\ n < r.deadline

\* The lease row is the process's own, and lives as long as its deadline.
LeaseInv(r, O, n, G, L) ==
  r.pc \in {"read", "apply"} =>
    /\ r.lease \in G
    /\ r.lease.expires - ReconcileLease \in 0..n
    /\ O[r.rec].body.kind = "pull_request" => r.lease.pr = O[r.rec].body.pr
    /\ n < r.deadline => /\ L[r.lease.pr].gen = r.lease.gen
                         /\ r.deadline <= L[r.lease.pr].expires

\* The snapshot is as new as what the delivery announced and, while the
\* deadline lasts, as new as anything applied.
SnapInv(r, O, n, V, S, A) ==
  r.pc = "apply" =>
    /\ r.snap \in PRVersion
    /\ r.snap.version <= V[r.lease.pr].version
    /\ r.snap.version = V[r.lease.pr].version => r.snap.snap = V[r.lease.pr].snap
    /\ O[r.rec].body.kind = "pull_request" => r.snap.version >= S[r.rec].version
    /\ n < r.deadline => r.snap.version >= A[r.lease.pr]

WorkersInv ==
  \A w \in Workers :
    /\ RecInv(worker[w], outbox, now)
    /\ AckInv(worker[w], processed)
    /\ LeaseInv(worker[w], outbox, now, granted, recLeases)
    /\ SnapInv(worker[w], outbox, now, github, sent, applied)

-----------------------------------------------------------------------------
(* What the stores and GitHub say together.                                *)

\* GitHub announces versions that exist; the receiver stores what was sent;
\* only what was sent is processed.
SentInv ==
  \A d \in Deliveries :
    /\ sent[d] # None =>
         IF sent[d].body.kind = "pull_request"
         THEN /\ sent[d].body.pr \in PRs
              /\ sent[d].version <= github[sent[d].body.pr].version
         ELSE sent[d].version = 0
    /\ inbox[d].body # None => sent[d] # None /\ inbox[d].body = sent[d].body
    /\ processed[d] # "none" => sent[d] # None

\* Nothing is applied that GitHub did not show.
AppliedExists == \A p \in PRs : applied[p] <= github[p].version

\* A processed hint is reflected already, acknowledged or not.
ProcessedReflected ==
  \A d \in Deliveries :
    processed[d] # "none" /\ sent[d].body.kind = "pull_request"
      => applied[sent[d].body.pr] >= sent[d].version

NoTargetUnlessEligible ==
  \A p \in PRs : prState[p].elig # "eligible" => prState[p].target = None

ControllerIInv ==
  /\ IInv
  /\ StoreInv
  /\ NoTargetUnlessEligible
  /\ github \in [PRs -> PRVersion]
  /\ sent \in [Deliveries -> Sent \cup {None}]
  /\ applied \in [PRs -> 0..MaxVersion]
  /\ worker \in [Workers -> WorkerRow]
  /\ faults \in 0..MaxFaults
  /\ SentInv
  /\ AppliedExists
  /\ ProcessedReflected
  /\ AcknowledgedWasProcessed
  /\ WorkersInv
  /\ ReconcileIsExclusive
  /\ ViewMatchesSnapshot

-----------------------------------------------------------------------------
(* The controller is a client of its stores.                               *)

\* What a process knows of the record it works on.
LEMMA RecordFacts ==
  ASSUME ControllerIInv, NEW w \in Workers, worker[w].pc # "idle"
  PROVE  /\ worker[w] \in WorkerRow /\ worker[w].rec \in Deliveries
         /\ outbox[worker[w].rec].state # "absent"
         /\ sent[worker[w].rec] \in Sent /\ sent[worker[w].rec] # None
         /\ Body(w) = sent[worker[w].rec].body /\ Body(w) \in Bodies
         /\ Body(w).kind = "pull_request" => Body(w).pr \in PRs
         /\ Body(w).kind = "installation" => Body(w).prs \in SUBSET PRs
         /\ Body(w).kind = "check_run" => Body(w).run \in CheckRuns /\ Body(w).genuine \in BOOLEAN
<1> DEFINE d == worker[w].rec
<1>1. worker[w] \in WorkerRow /\ d \in Deliveries /\ outbox[d].state # "absent"
  BY DEF ControllerIInv, WorkersInv, RecInv
<1> HIDE DEF d
<1>2. inbox[d].body \in EnqueuedBodies /\ outbox[d].body = inbox[d].body
  BY <1>1 DEF ControllerIInv, IInv, EnqueuedAtomically
<1>3. sent[d] # None /\ outbox[d].body = sent[d].body
  BY <1>1, <1>2, InboxAssumption DEF ControllerIInv, SentInv
<1>4. sent[d] \in Sent
  BY <1>1, <1>3 DEF ControllerIInv
<1>5. sent[d].body \in Bodies /\ (sent[d].body.kind = "pull_request" => sent[d].body.pr \in PRs)
  BY <1>1, <1>3, <1>4 DEF Sent, ControllerIInv, SentInv
<1>6. Body(w) = sent[d].body
  BY <1>3 DEF Body, d
<1> QED
  BY <1>1, <1>3, <1>4, <1>5, <1>6, ProjectionAssumption DEF d

\* What a process knows of the lease it holds.
LEMMA LeaseFacts ==
  ASSUME ControllerIInv, NEW w \in Workers, worker[w].pc \in {"read", "apply"}
  PROVE  /\ worker[w].lease \in granted /\ worker[w].lease \in ReconcileHandle
         /\ worker[w].lease.pr \in PRs /\ worker[w].lease.gen \in 1..MaxStoreLeaseGen
         /\ worker[w].lease.expires - ReconcileLease \in 0..now
<1>1. /\ worker[w].lease \in granted /\ worker[w].lease.expires - ReconcileLease \in 0..now
  BY DEF ControllerIInv, WorkersInv, LeaseInv
<1>2. worker[w].lease \in ReconcileHandle
  BY <1>1 DEF ControllerIInv, StoreInv, StoreTypeOK
<1> QED
  BY <1>1, <1>2 DEF ReconcileHandle

\* The pull request a lease is asked for.
LEMMA NeedsLeaseFacts ==
  ASSUME ControllerIInv, NEW w \in Workers, worker[w].pc = "process", NeedsLease(w)
  PROVE  PRof(w) \in PRs /\ (Body(w).kind = "pull_request" => PRof(w) = Body(w).pr)
<1>1. CASE Body(w).kind = "pull_request"
  BY <1>1, RecordFacts DEF PRof
<1>2. CASE Body(w).kind # "pull_request"
  <2>1. Body(w).kind = "check_run" /\ bindings[Body(w).run] # None /\ Body(w).run \in CheckRuns
    BY <1>2, RecordFacts DEF NeedsLease
  <2>2. bindings[Body(w).run] \in Binding
    BY <2>1 DEF ControllerIInv, StoreInv, StoreTypeOK
  <2> QED
    BY <2>1, <2>2 DEF PRof, Binding
<1> QED
  BY <1>1, <1>2

LEMMA ControllerStepIsInboxStep ==
  ASSUME ControllerIInv, [Next]_vars
  PROVE  [InboxNext]_inboxVars
<1>1. CASE UNCHANGED <<now, inboxOnly>>
  BY <1>1 DEF inboxOnly, inboxVars
<1>2. CASE ControllerTick
  BY <1>2 DEF ControllerTick, InboxNext, InboxTick, inboxOnly, dbVars, rowVars, leaseVars
<1>3. ASSUME NEW r \in Receivers, StartReceiver(r)
      PROVE  InboxNext
  BY <1>3 DEF StartReceiver, InboxNext
<1>4. ASSUME NEW r \in Receivers, NEW d \in Deliveries, Deliver(r, d)
      PROVE  InboxNext
  <2>1. sent[d].body \in Bodies
    BY <1>4 DEF Deliver, ControllerIInv, Sent
  <2> QED
    BY <1>4, <2>1 DEF Deliver, InboxNext
<1>5. ASSUME NEW w \in Workers, ClaimNext(w)
      PROVE  InboxNext
  <2>1. 1 \in 1..ClaimLimit
    BY InboxAssumption
  <2> QED
    BY <1>5, <2>1 DEF ClaimNext, InboxNext
<1>6. ASSUME NEW w \in Workers, worker[w].pc # "idle",
             HoldsLease(Lease(w)), FinishState(Lease(w))
      PROVE  Lease(w) \in handles
  <2>1. worker[w].rec \in Deliveries
    BY <1>6, RecordFacts
  <2>2. outbox[worker[w].rec].state = "leased" /\ outbox[worker[w].rec].gen = worker[w].gen
    BY <1>6 DEF HoldsLease, FinishState, Lease
  <2> QED
    BY <2>1, <2>2 DEF Lease, ControllerIInv, IInv, GenerationNamesOneClaim
<1>7. ASSUME NEW w \in Workers, Acknowledge(w) \/ Release(w)
      PROVE  [InboxNext]_inboxVars
  <2>1. worker[w].pc # "idle"
    BY <1>7 DEF Acknowledge, Release
  <2>2. \/ UNCHANGED <<now, inboxOnly>>
        \/ /\ HoldsLease(Lease(w)) /\ FinishState(Lease(w))
           /\ AcknowledgeOutbox(Lease(w)) \/ ReleaseOutbox(Lease(w))
    BY <1>7 DEF Acknowledge, Release
  <2> QED
    BY <1>1, <1>6, <2>1, <2>2 DEF InboxNext
<1>8. ASSUME NEW w \in Workers,
             \/ ProcessInstallation(w) \/ ProcessLegacy(w) \/ IgnoreRerequest(w) \/ LookupFails(w)
             \/ AcquireLease(w) \/ LeaseBusy(w) \/ ReadPullRequest(w) \/ ApplySnapshot(w)
             \/ ApplyRerequest(w) \/ ApplyRefused(w) \/ Expire(w) \/ CallFails(w) \/ Crash(w)
      PROVE  UNCHANGED <<now, inboxOnly>>
  BY <1>8 DEF ProcessInstallation, ProcessLegacy, IgnoreRerequest, LookupFails, Decide,
              AcquireLease, LeaseBusy, ReadPullRequest, ApplySnapshot, ApplyRerequest,
              ApplyRefused, Expire, CallFails, Crash, ApplyInstallationHint,
              RecordProcessingDecision, AcquireReconcileLease, ApplyPullRequestSnapshot,
              DuplicateProcessed, ApplyCheckRunRerequest
<1>9. ASSUME NEW p, NEW s, NEW d, NEW b, NEW c, NEW g,
             GitHubChange(p, s, d, b) \/ GitHubEvent(d, b) \/ PublishCheck(c, p, g)
      PROVE  UNCHANGED <<now, inboxOnly>>
  BY <1>9 DEF GitHubChange, GitHubEvent, PublishCheck, RegisterCheckBinding
<1>10. UNCHANGED vars => UNCHANGED <<now, inboxOnly>>
  BY DEF vars
<1> QED
  BY <1>1, <1>2, <1>3, <1>4, <1>5, <1>7, <1>8, <1>9, <1>10 DEF Next, WorkerStep

LEMMA ControllerStepIsStoreStep ==
  ASSUME ControllerIInv, [Next]_vars
  PROVE  [StoreNext]_storeVars
<1>1. CASE UNCHANGED <<now, storeOnly>>
  BY <1>1 DEF storeOnly, storeVars
<1>2. CASE ControllerTick
  BY <1>2 DEF ControllerTick, StoreNext, StoreTick, storeOnly, jobVars
<1>3. ASSUME NEW c \in CheckRuns, NEW p \in PRs, NEW g \in Gens, PublishCheck(c, p, g)
      PROVE  StoreNext
  <2>1. jobs[p][g].target \in Targets
    BY <1>3 DEF PublishCheck, ControllerIInv, StoreInv, JobsHaveTargets
  <2> QED
    BY <1>3, <2>1 DEF PublishCheck, StoreNext
<1>4. ASSUME NEW w \in Workers, ProcessInstallation(w)
      PROVE  [StoreNext]_storeVars
  <2>1. worker[w].rec \in Deliveries /\ Body(w).prs \in SUBSET PRs
    BY <1>4, RecordFacts DEF ProcessInstallation
  <2>2. UNCHANGED <<now, storeOnly>> \/ ApplyInstallationHint(worker[w].rec, Body(w).prs)
    BY <1>4 DEF ProcessInstallation
  <2> QED
    BY <1>1, <2>1, <2>2 DEF StoreNext
<1>5. ASSUME NEW w \in Workers, ProcessLegacy(w) \/ IgnoreRerequest(w) \/ LookupFails(w)
      PROVE  [StoreNext]_storeVars
  <2>1. worker[w].rec \in Deliveries
    BY <1>5, RecordFacts DEF ProcessLegacy, IgnoreRerequest, LookupFails
  <2>2. \/ UNCHANGED <<now, storeOnly>>
        \/ \E k \in {"rerequest-ignored", "legacy-unreconcilable"} :
             RecordProcessingDecision(worker[w].rec, k)
    BY <1>5 DEF ProcessLegacy, IgnoreRerequest, LookupFails, Decide
  <2> QED
    BY <1>1, <2>1, <2>2 DEF StoreNext
<1>7. ASSUME NEW w \in Workers, AcquireLease(w)
      PROVE  StoreNext
  BY <1>7, NeedsLeaseFacts DEF AcquireLease, StoreNext
<1>8. ASSUME NEW w \in Workers, worker[w].pc = "apply"
      PROVE  /\ worker[w].rec \in Deliveries /\ worker[w].lease \in granted
             /\ now \in 0..now /\ worker[w].lease.expires - ReconcileLease \in 0..now
             /\ worker[w].snap.snap \in Snapshot
             /\ SnapshotTarget(worker[w].snap.snap) \in Targets \cup {None}
  <2>1. worker[w].rec \in Deliveries
    BY <1>8, RecordFacts
  <2>2. worker[w].lease \in granted /\ worker[w].lease.expires - ReconcileLease \in 0..now
    BY <1>8, LeaseFacts
  <2>3. worker[w].snap.snap \in Snapshot
    BY <1>8, ControllerAssumption DEF ControllerIInv, WorkersInv, SnapInv, PRVersion
  <2>4. SnapshotTarget(worker[w].snap.snap) \in Targets \cup {None}
    BY <2>3 DEF SnapshotTarget, Snapshot
  <2>5. now \in 0..now
    BY DEF ControllerIInv, IInv, InboxTypeOK, ClockTypeOK
  <2> QED
    BY <2>1, <2>2, <2>3, <2>4, <2>5
<1>9. ASSUME NEW w \in Workers, ApplySnapshot(w)
      PROVE  StoreNext
  <2>1. worker[w].pc = "apply"
    BY <1>9 DEF ApplySnapshot
  <2>2. \/ ApplyPullRequestSnapshot(worker[w].rec, worker[w].lease, worker[w].snap.snap, now)
        \/ DuplicateProcessed(worker[w].rec, worker[w].lease, now)
    BY <1>9 DEF ApplySnapshot
  <2> QED
    BY <1>8, <2>1, <2>2 DEF StoreNext
<1>10. ASSUME NEW w \in Workers, ApplyRerequest(w)
      PROVE  StoreNext
  <2>1. worker[w].pc = "apply"
    BY <1>10 DEF ApplyRerequest
  <2>2. Body(w).run \in CheckRuns /\ Body(w).genuine \in BOOLEAN
    BY <1>10, RecordFacts DEF ApplyRerequest
  <2>3. \/ ApplyCheckRunRerequest(worker[w].rec, worker[w].lease, Body(w).run, Body(w).genuine,
                                  SnapshotTarget(worker[w].snap.snap),
                                  worker[w].lease.expires - ReconcileLease)
        \/ DuplicateProcessed(worker[w].rec, worker[w].lease,
                              worker[w].lease.expires - ReconcileLease)
    BY <1>10 DEF ApplyRerequest
  <2> QED
    BY <1>8, <2>1, <2>2, <2>3 DEF StoreNext
<1>11. ASSUME NEW w \in Workers,
              \/ ClaimNext(w) \/ LeaseBusy(w) \/ ReadPullRequest(w) \/ ApplyRefused(w) \/ Expire(w)
              \/ Release(w) \/ Acknowledge(w) \/ CallFails(w) \/ Crash(w)
       PROVE  UNCHANGED <<now, storeOnly>>
  BY <1>11 DEF ClaimNext, ClaimOutbox, LeaseBusy, ReadPullRequest, ApplyRefused, Expire, Release,
               ReleaseOutbox, Acknowledge, AcknowledgeOutbox, CallFails, Crash
<1>12. ASSUME NEW p, NEW s, NEW d, NEW b, NEW r,
              GitHubChange(p, s, d, b) \/ GitHubEvent(d, b) \/ StartReceiver(r) \/ Deliver(r, d)
       PROVE  UNCHANGED <<now, storeOnly>>
  BY <1>12 DEF GitHubChange, GitHubEvent, StartReceiver, Open, Deliver, Accept
<1>13. UNCHANGED vars => UNCHANGED <<now, storeOnly>>
  BY DEF vars
<1> QED
  BY <1>1, <1>2, <1>3, <1>4, <1>5, <1>7, <1>9, <1>10, <1>11, <1>12, <1>13 DEF Next, WorkerStep

-----------------------------------------------------------------------------
(* What no step undoes.                                                    *)

GitHubStep ==
  /\ github' \in [PRs -> PRVersion]
  /\ \A p \in PRs : github'[p] = github[p] \/ github'[p].version = github[p].version + 1
  /\ sent' \in [Deliveries -> Sent \cup {None}]
  /\ \A d \in Deliveries : sent[d] # None => sent'[d] = sent[d]

EnvStep ==
  /\ IInv' /\ StoreInv'
  /\ \A d \in Deliveries : outbox[d].state # "absent" =>
       outbox'[d].state # "absent" /\ outbox'[d].body = outbox[d].body
  /\ \A d \in Deliveries : processed[d] # "none" => processed'[d] = processed[d]
  /\ granted \subseteq granted'
  /\ now \in Nat /\ now' \in Nat /\ now <= now'
  /\ GitHubStep

LEMMA EnvFacts ==
  ASSUME ControllerIInv, [Next]_vars
  PROVE  EnvStep
<1>1. [InboxNext]_inboxVars /\ [StoreNext]_storeVars
  BY ControllerStepIsInboxStep, ControllerStepIsStoreStep
<1>2. IInv /\ StoreInv /\ IInv' /\ StoreInv'
  BY <1>1, StepInv, StoreStepInv DEF ControllerIInv
<1>3. ASSUME NEW d \in Deliveries, outbox[d].state # "absent"
      PROVE  outbox'[d].state # "absent" /\ outbox'[d].body = outbox[d].body
  <2>1. inbox[d].body \in EnqueuedBodies /\ outbox[d].body = inbox[d].body
    BY <1>2, <1>3 DEF IInv, EnqueuedAtomically
  <2>2. inbox'[d].body = inbox[d].body
    BY <1>1, <1>2, <2>1, FirstContentStep, InboxAssumption
  <2> QED
    BY <1>2, <2>1, <2>2 DEF IInv, EnqueuedAtomically
<1>4. \A d \in Deliveries : processed[d] # "none" => processed'[d] = processed[d]
  BY <1>1, <1>2, EffectOfStep DEF EffectStep
<1>5. granted \subseteq granted'
  BY <1>1, ZenonT(60) DEF StoreNext, storeVars, StoreTick, AcquireReconcileLease, DuplicateProcessed,
         RegisterCheckBinding, RecordProcessingDecision, ApplyCheckRunRerequest,
         ApplyPullRequestSnapshot, ApplyInstallationHint,
         ClaimSourceImports, FinishSourceLease, ApplySourceImportResult
<1>6. now \in Nat /\ now' \in Nat
  BY <1>2, ClockAssumption DEF IInv, InboxTypeOK, ClockTypeOK
<1>7. now <= now'
  <2>1. now' = now \/ now' = now + 1
    BY <1>1 DEF InboxNext, inboxVars, InboxTick, Tick, Open, Close, Accept, ClaimOutbox,
                AcknowledgeOutbox, ReleaseOutbox
  <2> QED
    BY <1>6, <2>1
<1>8. GitHubStep
  <2>1. github \in [PRs -> PRVersion] /\ sent \in [Deliveries -> Sent \cup {None}]
    BY DEF ControllerIInv
  <2>2. CASE UNCHANGED <<github, sent>>
    BY <2>1, <2>2 DEF GitHubStep
  <2>3. ASSUME NEW p \in PRs, NEW s \in Snapshots, NEW d \in Deliveries, NEW b \in Bodies,
               GitHubChange(p, s, d, b)
        PROVE  GitHubStep
    <3> DEFINE v == github[p].version + 1
    <3>1. v \in 0..MaxVersion
      BY <2>1, <2>3, ControllerAssumption DEF GitHubChange, PRVersion
    <3>2. github' = [github EXCEPT ![p] = [version |-> v, snap |-> s]]
          /\ sent' = [sent EXCEPT ![d] = [body |-> b, version |-> v]] /\ sent[d] = None
      BY <2>3 DEF GitHubChange
    <3>3. v = github[p].version + 1
      OBVIOUS
    <3> HIDE DEF v
    <3>4. [version |-> v, snap |-> s] \in PRVersion /\ [body |-> b, version |-> v] \in Sent
      BY <3>1 DEF PRVersion, Sent
    <3> QED
      BY <2>1, <3>2, <3>3, <3>4 DEF GitHubStep
  <2>4. ASSUME NEW d \in Deliveries, NEW b \in Bodies, GitHubEvent(d, b)
        PROVE  GitHubStep
    <3>1. github' = github /\ sent' = [sent EXCEPT ![d] = [body |-> b, version |-> 0]]
          /\ sent[d] = None
      BY <2>4 DEF GitHubEvent
    <3>2. [body |-> b, version |-> 0] \in Sent
      BY ControllerAssumption DEF Sent
    <3> QED
      BY <2>1, <3>1, <3>2 DEF GitHubStep
  <2>5. ASSUME NEW w \in Workers, WorkerStep(w) \/ LookupFails(w) \/ CallFails(w) \/ Crash(w)
        PROVE  UNCHANGED <<github, sent>>
    BY <2>5 DEF WorkerStep, LookupFails, CallFails, Crash, envVars, ClaimNext, ProcessInstallation,
                ProcessLegacy, IgnoreRerequest, AcquireLease, LeaseBusy, ReadPullRequest,
                ApplySnapshot, ApplyRerequest, ApplyRefused, Expire, Release, Acknowledge
  <2>6. ASSUME NEW r, NEW d, NEW c, NEW p, NEW g,
               ControllerTick \/ StartReceiver(r) \/ Deliver(r, d) \/ PublishCheck(c, p, g)
        PROVE  UNCHANGED <<github, sent>>
    BY <2>6 DEF ControllerTick, StartReceiver, Deliver, PublishCheck, envVars
  <2>7. UNCHANGED vars => UNCHANGED <<github, sent>>
    BY DEF vars
  <2> QED
    BY <2>2, <2>3, <2>4, <2>5, <2>6, <2>7 DEF Next
<1> QED
  BY <1>2, <1>3, <1>4, <1>5, <1>6, <1>7, <1>8 DEF EnvStep

\* A process keeps what it knows while the lease it holds, and the version
\* applied to its pull request, are left alone.
LEMMA KeepWorker ==
  ASSUME ControllerIInv, EnvStep, NEW r \in WorkerRow,
         RecInv(r, outbox, now), AckInv(r, processed),
         LeaseInv(r, outbox, now, granted, recLeases),
         SnapInv(r, outbox, now, github, sent, applied),
         Busy(r, now) => /\ recLeases'[r.lease.pr] = recLeases[r.lease.pr]
                         /\ applied'[r.lease.pr] = applied[r.lease.pr]
  PROVE  /\ RecInv(r, outbox', now') /\ AckInv(r, processed')
         /\ LeaseInv(r, outbox', now', granted', recLeases')
         /\ SnapInv(r, outbox', now', github', sent', applied')
<1>1. now \in Nat /\ now' \in Nat /\ now <= now' /\ r.deadline \in Nat
  BY DEF EnvStep, WorkerRow
<1>2. now' < r.deadline => now < r.deadline
  BY <1>1
<1>3. r.pc # "idle" => /\ r.rec \in Deliveries /\ outbox[r.rec].state # "absent"
                       /\ outbox'[r.rec].state # "absent"
                       /\ outbox'[r.rec].body = outbox[r.rec].body
  BY DEF RecInv, EnvStep
<1>4. RecInv(r, outbox', now')
  BY <1>1, <1>3, ControllerAssumption DEF RecInv
<1>5. AckInv(r, processed')
  BY <1>3 DEF AckInv, EnvStep
<1>6. LeaseInv(r, outbox', now', granted', recLeases')
  <2> SUFFICES ASSUME r.pc \in {"read", "apply"}
               PROVE  LeaseInv(r, outbox', now', granted', recLeases')
    BY DEF LeaseInv
  <2>1. /\ r.lease \in granted /\ r.lease.expires - ReconcileLease \in 0..now
        /\ outbox[r.rec].body.kind = "pull_request" => r.lease.pr = outbox[r.rec].body.pr
        /\ now < r.deadline => /\ recLeases[r.lease.pr].gen = r.lease.gen
                               /\ r.deadline <= recLeases[r.lease.pr].expires
    BY DEF LeaseInv
  <2>2. r.lease.expires - ReconcileLease \in 0..now'
    BY <1>1, <2>1
  <2>3. now' < r.deadline => /\ recLeases'[r.lease.pr].gen = r.lease.gen
                             /\ r.deadline <= recLeases'[r.lease.pr].expires
    BY <1>2, <2>1 DEF Busy
  <2> QED
    BY <1>3, <2>1, <2>2, <2>3 DEF LeaseInv, EnvStep
<1>7. SnapInv(r, outbox', now', github', sent', applied')
  <2> SUFFICES ASSUME r.pc = "apply"
               PROVE  SnapInv(r, outbox', now', github', sent', applied')
    BY DEF SnapInv
  <2> DEFINE p == r.lease.pr
  <2>1. /\ r.snap \in PRVersion /\ r.snap.version <= github[p].version
        /\ r.snap.version = github[p].version => r.snap.snap = github[p].snap
        /\ outbox[r.rec].body.kind = "pull_request" => r.snap.version >= sent[r.rec].version
        /\ now < r.deadline => r.snap.version >= applied[p]
    BY DEF SnapInv
  <2>2. p \in PRs
    BY DEF LeaseInv, ControllerIInv, StoreInv, StoreTypeOK, ReconcileHandle
  <2> HIDE DEF p
  <2>3. r.snap.version \in Nat /\ github[p].version \in Nat
    BY <2>1, <2>2 DEF PRVersion, ControllerIInv
  <2>4. github'[p] = github[p] \/ github'[p].version = github[p].version + 1
    BY <2>2 DEF EnvStep, GitHubStep
  <2>5. /\ r.snap.version <= github'[p].version
        /\ r.snap.version = github'[p].version => r.snap.snap = github'[p].snap
    BY <2>1, <2>3, <2>4
  <2>6. sent'[r.rec] = sent[r.rec]
    <3>1. sent[r.rec] # None
      BY <1>3, InboxAssumption DEF ControllerIInv, SentInv, IInv, EnqueuedAtomically
    <3> QED
      BY <1>3, <3>1 DEF EnvStep, GitHubStep
  <2>7. now' < r.deadline => r.snap.version >= applied'[p]
    BY <1>2, <2>1 DEF Busy, p
  <2> QED
    BY <1>3, <2>1, <2>5, <2>6, <2>7 DEF SnapInv, p
<1> QED
  BY <1>4, <1>5, <1>6, <1>7

-----------------------------------------------------------------------------
(* The processes.                                                          *)

KnowsNext(r) ==
  /\ RecInv(r, outbox', now') /\ AckInv(r, processed')
  /\ LeaseInv(r, outbox', now', granted', recLeases')
  /\ SnapInv(r, outbox', now', github', sent', applied')

\* After a step every process knows what it should, and leases are exclusive.
WorkersFine ==
  /\ worker' \in [Workers -> WorkerRow]
  /\ \A y \in Workers : KnowsNext(worker'[y])
  /\ \A y, z \in Workers :
       Busy(worker'[y], now') /\ Busy(worker'[z], now') /\ y # z
         => worker'[y].lease.pr # worker'[z].lease.pr

\* The step leaves the lease rows and versions of the other busy processes alone.
OthersKept(w) ==
  \A y \in Workers : y # w /\ Busy(worker[y], now) =>
    /\ recLeases'[worker[y].lease.pr] = recLeases[worker[y].lease.pr]
    /\ applied'[worker[y].lease.pr] = applied[worker[y].lease.pr]

LEMMA WorkerKnows ==
  ASSUME ControllerIInv, NEW w \in Workers
  PROVE  /\ worker[w] \in WorkerRow
         /\ RecInv(worker[w], outbox, now) /\ AckInv(worker[w], processed)
         /\ LeaseInv(worker[w], outbox, now, granted, recLeases)
         /\ SnapInv(worker[w], outbox, now, github, sent, applied)
BY DEF ControllerIInv, WorkersInv

\* Process w moves to the locals n; the others stay.
LEMMA OneWorker ==
  ASSUME ControllerIInv, EnvStep, NEW w \in Workers, NEW n \in WorkerRow,
         worker' = [worker EXCEPT ![w] = n], KnowsNext(n), OthersKept(w),
         Busy(n, now') => \A y \in Workers : y # w /\ Busy(worker[y], now) =>
                            worker[y].lease.pr # n.lease.pr
  PROVE  WorkersFine
<1>1. worker \in [Workers -> WorkerRow]
  BY DEF ControllerIInv
<1>2. worker' \in [Workers -> WorkerRow] /\ worker'[w] = n
      /\ \A y \in Workers : y # w => worker'[y] = worker[y]
  BY <1>1
<1>3. ASSUME NEW y \in Workers, y # w
      PROVE  KnowsNext(worker[y])
  BY <1>3, WorkerKnows, KeepWorker DEF KnowsNext, OthersKept
<1>4. \A y \in Workers : KnowsNext(worker'[y])
  BY <1>2, <1>3
<1>5. ASSUME NEW y \in Workers, Busy(worker[y], now')
      PROVE  Busy(worker[y], now)
  <2>1. worker[y].deadline \in Nat /\ now \in Nat /\ now' \in Nat /\ now <= now'
    BY <1>1 DEF WorkerRow, EnvStep
  <2> QED
    BY <1>5, <2>1 DEF Busy
<1>6. ASSUME NEW y \in Workers, NEW z \in Workers, y # z,
             Busy(worker'[y], now'), Busy(worker'[z], now')
      PROVE  worker'[y].lease.pr # worker'[z].lease.pr
  <2>1. CASE y # w /\ z # w
    <3>1. Busy(worker[y], now) /\ Busy(worker[z], now)
      BY <1>2, <1>5, <1>6, <2>1
    <3> QED
      BY <1>2, <1>6, <2>1, <3>1 DEF ControllerIInv, ReconcileIsExclusive, Reconciling, InTime, Busy
  <2>2. CASE y = w
    BY <1>2, <1>5, <1>6, <2>2
  <2>3. CASE z = w
    BY <1>2, <1>5, <1>6, <2>3
  <2> QED
    BY <2>1, <2>2, <2>3
<1> QED
  BY <1>2, <1>4, <1>6 DEF WorkersFine

LEMMA QuietOthers ==
  ASSUME NEW w \in Workers, UNCHANGED <<recLeases, applied>>
  PROVE  OthersKept(w)
BY DEF OthersKept

\* No process moves.
LEMMA NobodyMoves ==
  ASSUME ControllerIInv, EnvStep, UNCHANGED <<worker, recLeases, applied>>
  PROVE  WorkersFine
<1>1. ASSUME NEW w \in Workers
      PROVE  WorkersFine
  <2>1. worker[w] \in WorkerRow /\ worker' = [worker EXCEPT ![w] = worker[w]]
    BY DEF ControllerIInv
  <2>2. KnowsNext(worker[w])
    BY WorkerKnows, KeepWorker DEF KnowsNext
  <2>3. worker[w].deadline \in Nat /\ now \in Nat /\ now' \in Nat /\ now <= now'
    BY <2>1 DEF WorkerRow, EnvStep
  <2>4. Busy(worker[w], now') => Busy(worker[w], now)
    BY <2>3 DEF Busy
  <2>5. Busy(worker[w], now) => \A y \in Workers : y # w /\ Busy(worker[y], now) =>
          worker[y].lease.pr # worker[w].lease.pr
    BY DEF ControllerIInv, ReconcileIsExclusive, Reconciling, InTime, Busy
  <2> QED
    BY <2>1, <2>2, <2>4, <2>5, QuietOthers, OneWorker
<1>2. CASE Workers = {}
  BY <1>2 DEF WorkersFine, ControllerIInv
<1> QED
  BY <1>1, <1>2

\* A process ends its work on a record.
LEMMA GoesToEnd ==
  ASSUME ControllerIInv, EnvStep, NEW w \in Workers, worker[w].pc # "idle",
         NEW c \in {"ack", "release"}, Goto(w, c), OthersKept(w),
         c = "ack" => processed'[worker[w].rec] # "none"
  PROVE  WorkersFine
<1> DEFINE n == [worker[w] EXCEPT !.pc = c]
<1>1. worker[w] \in WorkerRow /\ worker' = [worker EXCEPT ![w] = n]
  BY DEF ControllerIInv, Goto
<1>2. n \in WorkerRow /\ n.pc = c /\ n.rec = worker[w].rec /\ n.deadline = worker[w].deadline
  BY <1>1 DEF WorkerRow, Steps
<1> HIDE DEF n
<1>3. RecInv(n, outbox', now')
  <2>1. /\ worker[w].rec \in Deliveries /\ outbox[worker[w].rec].state # "absent"
        /\ worker[w].deadline <= now + ProcessingTimeout
    BY WorkerKnows DEF RecInv
  <2>2. worker[w].deadline \in Nat /\ now \in Nat /\ now' \in Nat /\ now <= now'
    BY <1>1 DEF WorkerRow, EnvStep
  <2>3. worker[w].deadline <= now' + ProcessingTimeout
    BY <2>1, <2>2, ControllerAssumption
  <2> QED
    BY <1>2, <2>1, <2>3 DEF RecInv, EnvStep
<1>4. KnowsNext(n) /\ ~Busy(n, now')
  BY <1>2, <1>3 DEF KnowsNext, AckInv, LeaseInv, SnapInv, Busy
<1> QED
  BY <1>1, <1>2, <1>4, OneWorker

\* A process goes back to its loop, or is started again.
LEMMA GoesIdle ==
  ASSUME ControllerIInv, EnvStep, NEW w \in Workers, NEW t \in Nat,
         worker' = [worker EXCEPT ![w] = Idle(t)], OthersKept(w)
  PROVE  WorkersFine
<1>1. Idle(t) \in WorkerRow /\ Idle(t).pc = "idle"
  BY DEF Idle, WorkerRow, Steps
<1>2. KnowsNext(Idle(t)) /\ ~Busy(Idle(t), now')
  BY <1>1 DEF KnowsNext, RecInv, AckInv, LeaseInv, SnapInv, Busy
<1> QED
  BY <1>1, <1>2, OneWorker

\* A stored expiry loses less than a second.
LEMMA WholeSecondIsClose ==
  ASSUME NEW t \in Nat
  PROVE  WholeSecond(t) \in Nat /\ t < WholeSecond(t) + TicksPerSecond
<1>1. TicksPerSecond \in Nat \ {0}
  BY ClockAssumption
<1>2. (t \div TicksPerSecond) * TicksPerSecond \in Nat
  BY <1>1
<1>3. t < (t \div TicksPerSecond) * TicksPerSecond + TicksPerSecond
  BY <1>1
<1> QED
  BY <1>2, <1>3 DEF WholeSecond, Second

LEMMA ClaimNextFine ==
  ASSUME ControllerIInv, EnvStep, NEW w \in Workers, ClaimNext(w)
  PROVE  WorkersFine
<1>1. PICK o \in Owners : ClaimOutbox(o, 1)
  BY DEF ClaimNext
<1>2. PICK d \in ClaimCandidates(1) :
        worker' = [worker EXCEPT ![w] =
          [pc |-> "process", rec |-> d, gen |-> outbox[d].gen + 1,
           deadline |-> now + ProcessingTimeout, lease |-> None, snap |-> None]]
  BY DEF ClaimNext
<1> DEFINE n == [pc |-> "process", rec |-> d, gen |-> outbox[d].gen + 1,
                 deadline |-> now + ProcessingTimeout, lease |-> None, snap |-> None]
<1>3. d \in Deliveries /\ outbox[d].gen \in Nat /\ outbox[d].state # "absent"
  BY CandidatesAreOpen DEF ControllerIInv, IInv, InboxTypeOK, OutboxRow
<1>4. UNCHANGED <<now, recLeases, applied>> /\ now + ProcessingTimeout \in Nat /\ now \in Nat
  BY <1>1, ControllerAssumption DEF ClaimNext, ClaimOutbox, storeOnly, EnvStep
<1>5. /\ n \in WorkerRow /\ n.pc = "process" /\ n.rec = d /\ n.deadline = now + ProcessingTimeout
  BY <1>3, <1>4 DEF WorkerRow, Steps
<1>6. worker' = [worker EXCEPT ![w] = n]
  BY <1>2
<1> HIDE DEF n
<1>7. RecInv(n, outbox', now')
  <2>1. n.deadline <= now' + ProcessingTimeout
    BY <1>4, <1>5
  <2> QED
    BY <1>3, <1>5, <2>1 DEF RecInv, EnvStep
<1>8. KnowsNext(n) /\ ~Busy(n, now')
  BY <1>5, <1>7 DEF KnowsNext, AckInv, LeaseInv, SnapInv, Busy
<1> QED
  BY <1>4, <1>5, <1>6, <1>8, QuietOthers, OneWorker

\* A lease that is free is not the lease of a busy process.
LEMMA BusyIsNotFree ==
  ASSUME ControllerIInv, NEW y \in Workers, Busy(worker[y], now)
  PROVE  worker[y].lease.pr \in PRs /\ ~LeaseFree(worker[y].lease.pr)
<1> DEFINE p == worker[y].lease.pr
<1>1. /\ worker[y].pc \in {"read", "apply"} /\ now < worker[y].deadline
      /\ worker[y].deadline \in Nat /\ now \in Nat
  BY ClockAssumption DEF Busy, ControllerIInv, WorkerRow, IInv, InboxTypeOK, ClockTypeOK
<1>2. p \in PRs /\ worker[y].lease.gen \in 1..MaxStoreLeaseGen
  BY <1>1, LeaseFacts
<1>3. recLeases[p].gen = worker[y].lease.gen /\ worker[y].deadline <= recLeases[p].expires
  BY <1>1, WorkerKnows DEF LeaseInv
<1>4. recLeases[p].expires \in Nat
  BY <1>2 DEF ControllerIInv, StoreInv, StoreTypeOK
<1> HIDE DEF p
<1>5. recLeases[p].gen # 0 /\ ~(recLeases[p].expires <= now)
  BY <1>1, <1>2, <1>3, <1>4
<1> QED
  BY <1>2, <1>5 DEF LeaseFree, p

LEMMA AcquireLeaseFine ==
  ASSUME ControllerIInv, EnvStep, NEW w \in Workers, AcquireLease(w)
  PROVE  WorkersFine
<1> DEFINE p == PRof(w)
           l == GrantedLease(p)
           n == [worker[w] EXCEPT !.pc = "read", !.lease = l]
           row == [gen |-> recLeases[p].gen + 1, expires |-> WholeSecond(now + ReconcileLease)]
<1>1. worker[w].pc = "process" /\ NeedsLease(w) /\ LeaseFree(p)
  BY DEF AcquireLease, AcquireReconcileLease
<1>2. p \in PRs /\ (Body(w).kind = "pull_request" => p = Body(w).pr)
  BY <1>1, NeedsLeaseFacts
<1>3. /\ recLeases' = [recLeases EXCEPT ![p] = row] /\ l \in granted'
      /\ UNCHANGED <<now, outbox, applied>>
      /\ worker' = [worker EXCEPT ![w].pc = "read", ![w].lease = l]
  BY DEF AcquireLease, AcquireReconcileLease, inboxOnly
<1>4. worker[w] \in WorkerRow /\ worker' = [worker EXCEPT ![w] = n]
  BY <1>3 DEF ControllerIInv
<1>5. l \in ReconcileHandle
  BY <1>3 DEF EnvStep, StoreInv, StoreTypeOK
<1>6. l.pr = p /\ l.gen = recLeases[p].gen + 1 /\ l.expires = now + ReconcileLease
      /\ row.gen = recLeases[p].gen + 1 /\ row.expires = WholeSecond(now + ReconcileLease)
  BY DEF GrantedLease
<1> HIDE DEF l, row
<1>7. /\ n \in WorkerRow /\ n.pc = "read" /\ n.rec = worker[w].rec /\ n.lease = l
      /\ n.deadline = worker[w].deadline
  BY <1>4, <1>5 DEF WorkerRow, Steps
<1> HIDE DEF n
<1>8. /\ worker[w].rec \in Deliveries /\ outbox[worker[w].rec].state # "absent"
      /\ worker[w].deadline <= now + ProcessingTimeout /\ worker[w].deadline \in Nat /\ now \in Nat
  BY <1>1, <1>4, WorkerKnows DEF RecInv, WorkerRow, EnvStep
<1>9. recLeases'[p] = row
  BY <1>2, <1>3 DEF ControllerIInv, StoreInv, StoreTypeOK
<1>10. worker[w].deadline <= row.expires
  <2>1. now + ReconcileLease \in Nat
    BY <1>8, ControllerStoreAssumption
  <2>2. row.expires \in Nat /\ now + ReconcileLease < row.expires + TicksPerSecond
    BY <1>6, <2>1, WholeSecondIsClose
  <2>3. /\ ProcessingTimeout \in Nat /\ TicksPerSecond \in Nat /\ ReconcileLease \in Nat
        /\ ProcessingTimeout + TicksPerSecond <= ReconcileLease + 1
    BY ControllerAssumption, ClockAssumption, ControllerStoreAssumption
  <2> QED
    BY <1>8, <2>2, <2>3
<1>11. l.expires - ReconcileLease \in 0..now
  BY <1>6, <1>8, ControllerStoreAssumption
<1>12. KnowsNext(n)
  <2>1. RecInv(n, outbox', now')
    BY <1>3, <1>7, <1>8 DEF RecInv
  <2>2. LeaseInv(n, outbox', now', granted', recLeases')
    BY <1>2, <1>3, <1>6, <1>7, <1>9, <1>10, <1>11 DEF LeaseInv, Body
  <2> QED
    BY <1>7, <2>1, <2>2 DEF KnowsNext, AckInv, SnapInv
<1>13. ASSUME NEW y \in Workers, Busy(worker[y], now)
       PROVE  worker[y].lease.pr # p /\ worker[y].lease.pr \in PRs
  BY <1>1, <1>13, BusyIsNotFree
<1>14. OthersKept(w)
  BY <1>3, <1>13 DEF OthersKept, ControllerIInv, StoreInv, StoreTypeOK
<1> HIDE DEF p
<1> QED
  BY <1>4, <1>6, <1>7, <1>12, <1>13, <1>14, OneWorker

LEMMA ReadFine ==
  ASSUME ControllerIInv, EnvStep, NEW w \in Workers, ReadPullRequest(w)
  PROVE  WorkersFine
<1> DEFINE p == worker[w].lease.pr
           n == [worker[w] EXCEPT !.pc = "apply", !.snap = github[p]]
<1>1. /\ worker[w].pc = "read" /\ now < worker[w].deadline
      /\ worker' = [worker EXCEPT ![w].pc = "apply", ![w].snap = github[p]]
      /\ UNCHANGED <<now, outbox, processed, granted, recLeases, github, sent, applied>>
  BY DEF ReadPullRequest, InTime, inboxOnly, storeOnly, envVars
<1>2. worker[w] \in WorkerRow /\ worker' = [worker EXCEPT ![w] = n]
  BY <1>1 DEF ControllerIInv
<1>3. p \in PRs /\ github[p] \in PRVersion
  BY <1>1, LeaseFacts DEF ControllerIInv
<1>4. /\ n \in WorkerRow /\ n.pc = "apply" /\ n.rec = worker[w].rec /\ n.lease = worker[w].lease
      /\ n.deadline = worker[w].deadline /\ n.snap = github[p]
  BY <1>2, <1>3 DEF WorkerRow, Steps
<1> HIDE DEF n
<1>5. RecInv(n, outbox', now') /\ AckInv(n, processed')
  BY <1>1, <1>4, WorkerKnows DEF RecInv, AckInv
<1>6. LeaseInv(n, outbox', now', granted', recLeases')
  BY <1>1, <1>4, WorkerKnows DEF LeaseInv
<1>7. SnapInv(n, outbox', now', github', sent', applied')
  <2>1. github[p].version \in Nat
    BY <1>3 DEF PRVersion
  <2>2. applied[p] \in Nat /\ applied[p] <= github[p].version
    BY <1>3 DEF ControllerIInv, AppliedExists
  <2>3. Body(w).kind = "pull_request" =>
          sent[worker[w].rec].version \in Nat /\ sent[worker[w].rec].version <= github[p].version
    <3> HAVE Body(w).kind = "pull_request"
    <3>1. /\ worker[w].rec \in Deliveries /\ sent[worker[w].rec] # None
          /\ sent[worker[w].rec].body = Body(w) /\ sent[worker[w].rec] \in Sent
      BY <1>1, RecordFacts
    <3>2. p = Body(w).pr
      BY <1>1, WorkerKnows DEF LeaseInv, Body
    <3> QED
      BY <3>1, <3>2 DEF ControllerIInv, SentInv, Sent
  <2> HIDE DEF p
  <2>4. n.lease.pr = p
    BY <1>4 DEF p
  <2>5. /\ n.snap.version <= github[p].version
        /\ Body(w).kind = "pull_request" => n.snap.version >= sent[n.rec].version
        /\ n.snap.version >= applied[p]
    BY <1>4, <2>1, <2>2, <2>3
  <2> QED
    BY <1>1, <1>3, <1>4, <2>4, <2>5 DEF SnapInv, Body
<1>8. Busy(worker[w], now) /\ now' = now
  BY <1>1 DEF Busy
<1>9. \A y \in Workers : y # w /\ Busy(worker[y], now) => worker[y].lease.pr # n.lease.pr
  BY <1>4, <1>8 DEF ControllerIInv, ReconcileIsExclusive, Reconciling, InTime, Busy
<1> QED
  BY <1>1, <1>2, <1>4, <1>5, <1>6, <1>7, <1>9, QuietOthers, OneWorker DEF KnowsNext

\* Applying ends a lease, and touches no pull request but that of the lease.
LEMMA ApplyLeavesOthers ==
  ASSUME ControllerIInv, NEW w \in Workers, worker[w].pc = "apply", InTime(w),
         ReleaseReconcileLease(worker[w].lease),
         \/ applied' = applied
         \/ \E v : applied' = [applied EXCEPT ![worker[w].lease.pr] = v]
  PROVE  OthersKept(w)
<1> SUFFICES ASSUME NEW y \in Workers, y # w, Busy(worker[y], now)
             PROVE  /\ recLeases'[worker[y].lease.pr] = recLeases[worker[y].lease.pr]
                    /\ applied'[worker[y].lease.pr] = applied[worker[y].lease.pr]
  BY DEF OthersKept
<1>1. worker[y].lease.pr # worker[w].lease.pr
  BY DEF ControllerIInv, ReconcileIsExclusive, Reconciling, InTime, Busy
<1>2. worker[y].lease.pr \in PRs
  BY BusyIsNotFree
<1> QED
  BY <1>1, <1>2 DEF ReleaseReconcileLease, ControllerIInv, StoreInv, StoreTypeOK

\* A decision that is recorded is there.
LEMMA RecordedIsThere ==
  ASSUME StoreInv, NEW d \in Deliveries, NEW k \in Decisions,
         processed' = [processed EXCEPT ![d] = k]
  PROVE  processed'[d] # "none"
BY DEF StoreInv, StoreTypeOK, Decisions

LEMMA ApplySnapshotFine ==
  ASSUME ControllerIInv, EnvStep, NEW w \in Workers, ApplySnapshot(w)
  PROVE  WorkersFine
<1>1. worker[w].pc = "apply" /\ InTime(w) /\ Goto(w, "ack")
  BY DEF ApplySnapshot
<1>2. worker[w].rec \in Deliveries
  BY <1>1, RecordFacts
<1>3. ReleaseReconcileLease(worker[w].lease)
  BY DEF ApplySnapshot, ApplyPullRequestSnapshot, DuplicateProcessed
<1>4. \/ applied' = applied
      \/ \E v : applied' = [applied EXCEPT ![worker[w].lease.pr] = v]
  BY DEF ApplySnapshot
<1>5. processed'[worker[w].rec] # "none"
  <2>1. CASE DuplicateProcessed(worker[w].rec, worker[w].lease, now)
    BY <2>1 DEF DuplicateProcessed
  <2>2. CASE ApplyPullRequestSnapshot(worker[w].rec, worker[w].lease, worker[w].snap.snap, now)
    <3>1. SnapshotDecision(worker[w].lease.pr, worker[w].snap.snap) \in Decisions
      BY DEF SnapshotDecision, Decisions
    <3> QED
      BY <1>2, <2>2, <3>1, RecordedIsThere DEF ApplyPullRequestSnapshot, ControllerIInv
  <2> QED
    BY <2>1, <2>2 DEF ApplySnapshot
<1> QED
  BY <1>1, <1>3, <1>4, <1>5, ApplyLeavesOthers, GoesToEnd

LEMMA ApplyRerequestFine ==
  ASSUME ControllerIInv, EnvStep, NEW w \in Workers, ApplyRerequest(w)
  PROVE  WorkersFine
<1> DEFINE n == worker[w].lease.expires - ReconcileLease
           t == SnapshotTarget(worker[w].snap.snap)
<1>1. worker[w].pc = "apply" /\ InTime(w) /\ Goto(w, "ack") /\ applied' = applied
  BY DEF ApplyRerequest
<1>2. worker[w].rec \in Deliveries
  BY <1>1, RecordFacts
<1>3. \/ ApplyCheckRunRerequest(worker[w].rec, worker[w].lease, Body(w).run, Body(w).genuine, t, n)
      \/ DuplicateProcessed(worker[w].rec, worker[w].lease, n)
  BY DEF ApplyRerequest
<1> HIDE DEF n, t
<1>4. ReleaseReconcileLease(worker[w].lease)
  BY <1>3 DEF ApplyCheckRunRerequest, DuplicateProcessed
<1>5. processed'[worker[w].rec] # "none"
  <2>1. CASE DuplicateProcessed(worker[w].rec, worker[w].lease, n)
    BY <2>1 DEF DuplicateProcessed
  <2>2. CASE ApplyCheckRunRerequest(worker[w].rec, worker[w].lease, Body(w).run,
                                    Body(w).genuine, t, n)
    <3>1. RerequestDecision(worker[w].lease, Body(w).run, Body(w).genuine, t) \in Decisions
      BY <2>2 DEF ApplyCheckRunRerequest, RerequestDecision, Decisions
    <3> QED
      BY <1>2, <2>2, <3>1, RecordedIsThere DEF ApplyCheckRunRerequest, ControllerIInv
  <2> QED
    BY <1>3, <2>1, <2>2
<1> QED
  BY <1>1, <1>4, <1>5, ApplyLeavesOthers, GoesToEnd

\* processInstallation and recordDecision.
LEMMA DecideFine ==
  ASSUME ControllerIInv, EnvStep, NEW w \in Workers,
         ProcessInstallation(w) \/ ProcessLegacy(w) \/ IgnoreRerequest(w) \/ LookupFails(w)
  PROVE  WorkersFine
<1>1. worker[w].pc = "process" /\ Goto(w, "ack") /\ UNCHANGED <<recLeases, applied>>
  BY DEF ProcessInstallation, ProcessLegacy, IgnoreRerequest, LookupFails, Decide, storeOnly,
         ApplyInstallationHint, RecordProcessingDecision
<1>2. worker[w].rec \in Deliveries
  BY <1>1, RecordFacts
<1>3. \/ processed[worker[w].rec] # "none" /\ processed' = processed
      \/ \E k \in Decisions : processed' = [processed EXCEPT ![worker[w].rec] = k]
  BY DEF ProcessInstallation, ProcessLegacy, IgnoreRerequest, LookupFails, Decide, storeOnly,
         ApplyInstallationHint, RecordProcessingDecision, Decisions
<1>4. processed'[worker[w].rec] # "none"
  BY <1>2, <1>3, RecordedIsThere DEF ControllerIInv
<1> QED
  BY <1>1, <1>4, QuietOthers, GoesToEnd

\* Every step leaves the processes as they should be.
LEMMA WorkersStep ==
  ASSUME ControllerIInv, EnvStep, [Next]_vars
  PROVE  WorkersFine
<1>1. CASE UNCHANGED <<worker, recLeases, applied>>
  BY <1>1, NobodyMoves
<1>2. ControllerTick \/ UNCHANGED vars => UNCHANGED <<worker, recLeases, applied>>
  BY DEF ControllerTick, vars, storeOnly
<1>3. ASSUME NEW p, NEW s, NEW d, NEW b, NEW c, NEW g, NEW r,
             \/ GitHubChange(p, s, d, b) \/ GitHubEvent(d, b) \/ StartReceiver(r) \/ Deliver(r, d)
             \/ PublishCheck(c, p, g)
      PROVE  UNCHANGED <<worker, recLeases, applied>>
  BY <1>3 DEF GitHubChange, GitHubEvent, StartReceiver, Deliver, PublishCheck,
              RegisterCheckBinding, storeOnly
<1>4. ASSUME NEW w \in Workers,
             LeaseBusy(w) \/ ApplyRefused(w) \/ Expire(w) \/ CallFails(w)
      PROVE  WorkersFine
  <2>1. worker[w].pc # "idle" /\ Goto(w, "release") /\ UNCHANGED <<recLeases, applied>>
    BY <1>4 DEF LeaseBusy, ApplyRefused, Expire, CallFails, storeOnly
  <2> QED
    BY <2>1, QuietOthers, GoesToEnd
<1>5. ASSUME NEW w \in Workers, Release(w) \/ Acknowledge(w) \/ Crash(w)
      PROVE  WorkersFine
  <2>1. AfterSleep \in Nat
    BY ControllerAssumption, ClockAssumption DEF AfterSleep, EnvStep
  <2>2. \/ worker' = [worker EXCEPT ![w] = Idle(0)]
        \/ worker' = [worker EXCEPT ![w] = Idle(AfterSleep)]
    BY <1>5 DEF Release, Acknowledge, Crash
  <2>3. UNCHANGED <<recLeases, applied>>
    BY <1>5 DEF Release, Acknowledge, Crash, storeOnly
  <2> QED
    BY <2>1, <2>2, <2>3, QuietOthers, GoesIdle
<1> QED
  BY <1>1, <1>2, <1>3, <1>4, <1>5, ClaimNextFine, DecideFine, AcquireLeaseFine, ReadFine,
     ApplySnapshotFine, ApplyRerequestFine DEF Next, WorkerStep

-----------------------------------------------------------------------------
(* What was sent, processed and applied.                                   *)

\* A process records a decision on a delivery that announces no change.
Decides(w) ==
  /\ worker[w].pc # "idle"
  /\ Body(w).kind # "pull_request"
  /\ processed[worker[w].rec] = "none"
  /\ \E k \in Decisions : processed' = [processed EXCEPT ![worker[w].rec] = k]
  /\ UNCHANGED <<applied, github, sent>>
  /\ prState' = prState \/ ApplyInstallationHint(worker[w].rec, Body(w).prs)

\* A process applies the snapshot it read, for a delivery not yet processed.
Applies(w) ==
  /\ worker[w].pc = "apply" /\ InTime(w)
  /\ Body(w).kind = "pull_request"
  /\ ApplyPullRequestSnapshot(worker[w].rec, worker[w].lease, worker[w].snap.snap, now)
  /\ applied' = [applied EXCEPT ![worker[w].lease.pr] = worker[w].snap.version]
  /\ UNCHANGED <<github, sent>>

\* The four kinds of step that matter for the view of a pull request.
ViewStep ==
  \/ \E p \in PRs, s \in Snapshots, d \in Deliveries, b \in Bodies : GitHubChange(p, s, d, b)
  \/ \E d \in Deliveries, b \in Bodies : GitHubEvent(d, b)
  \/ \E w \in Workers : Decides(w)
  \/ \E w \in Workers : Applies(w)

LEMMA KindsOfStep ==
  ASSUME ControllerIInv, [Next]_vars
  PROVE  ViewStep \/ UNCHANGED <<processed, applied, prState, github, sent>>
<1>1. ASSUME NEW w \in Workers, ProcessInstallation(w)
      PROVE  Decides(w) \/ UNCHANGED <<processed, applied, prState, github, sent>>
  <2>1. CASE processed[worker[w].rec] # "none"
    BY <1>1, <2>1 DEF ProcessInstallation, storeOnly, envVars
  <2>2. CASE processed[worker[w].rec] = "none"
    BY <1>1, <2>2 DEF ProcessInstallation, envVars, Decides, ApplyInstallationHint, Decisions
  <2> QED
    BY <2>1, <2>2
<1>2. ASSUME NEW w \in Workers, ProcessLegacy(w) \/ IgnoreRerequest(w) \/ LookupFails(w)
      PROVE  Decides(w) \/ UNCHANGED <<processed, applied, prState, github, sent>>
  <2>1. CASE processed[worker[w].rec] # "none"
    BY <1>2, <2>1 DEF ProcessLegacy, IgnoreRerequest, LookupFails, Decide, storeOnly, envVars
  <2>2. CASE processed[worker[w].rec] = "none"
    BY <1>2, <2>2 DEF ProcessLegacy, IgnoreRerequest, LookupFails, Decide, envVars, Decides,
                      RecordProcessingDecision, Decisions
  <2> QED
    BY <2>1, <2>2
<1>3. ASSUME NEW w \in Workers, ApplyRerequest(w)
      PROVE  Decides(w) \/ UNCHANGED <<processed, applied, prState, github, sent>>
  <2> DEFINE n == worker[w].lease.expires - ReconcileLease
             t == SnapshotTarget(worker[w].snap.snap)
  <2>1. \/ ApplyCheckRunRerequest(worker[w].rec, worker[w].lease, Body(w).run, Body(w).genuine, t, n)
        \/ DuplicateProcessed(worker[w].rec, worker[w].lease, n)
    BY <1>3 DEF ApplyRerequest
  <2>2. /\ UNCHANGED <<applied, github, sent>> /\ worker[w].pc # "idle"
        /\ Body(w).kind # "pull_request"
    BY <1>3 DEF ApplyRerequest, envVars
  <2> HIDE DEF n, t
  <2>3. CASE DuplicateProcessed(worker[w].rec, worker[w].lease, n)
    BY <2>2, <2>3 DEF DuplicateProcessed
  <2>4. CASE ApplyCheckRunRerequest(worker[w].rec, worker[w].lease, Body(w).run,
                                    Body(w).genuine, t, n)
    <3>1. RerequestDecision(worker[w].lease, Body(w).run, Body(w).genuine, t) \in Decisions
      BY <2>4 DEF ApplyCheckRunRerequest, RerequestDecision, Decisions
    <3>2. /\ processed[worker[w].rec] = "none" /\ prState' = prState
          /\ processed' = [processed EXCEPT ![worker[w].rec] =
               RerequestDecision(worker[w].lease, Body(w).run, Body(w).genuine, t)]
      BY <2>4 DEF ApplyCheckRunRerequest, NotYetProcessed
    <3> QED
      BY <2>2, <3>1, <3>2 DEF Decides
  <2> QED
    BY <2>1, <2>3, <2>4
<1>4. ASSUME NEW w \in Workers, ApplySnapshot(w)
      PROVE  Applies(w) \/ UNCHANGED <<processed, applied, prState, github, sent>>
  BY <1>4 DEF ApplySnapshot, DuplicateProcessed, Applies, envVars
<1>5. ASSUME NEW w \in Workers,
             \/ ClaimNext(w) \/ AcquireLease(w) \/ LeaseBusy(w) \/ ReadPullRequest(w)
             \/ ApplyRefused(w) \/ Expire(w) \/ Release(w) \/ Acknowledge(w)
             \/ CallFails(w) \/ Crash(w)
      PROVE  UNCHANGED <<processed, applied, prState, github, sent>>
  BY <1>5 DEF ClaimNext, AcquireLease, AcquireReconcileLease, LeaseBusy, ReadPullRequest,
              ApplyRefused, Expire, Release, Acknowledge, CallFails, Crash, storeOnly, envVars
<1>6. ASSUME NEW c, NEW p, NEW g, NEW r, NEW d,
             \/ ControllerTick \/ UNCHANGED vars \/ StartReceiver(r) \/ Deliver(r, d)
             \/ PublishCheck(c, p, g)
      PROVE  UNCHANGED <<processed, applied, prState, github, sent>>
  BY <1>6 DEF ControllerTick, vars, StartReceiver, Deliver, PublishCheck, RegisterCheckBinding,
              storeOnly, envVars
<1> QED
  BY <1>1, <1>2, <1>3, <1>4, <1>5, <1>6 DEF Next, WorkerStep, ViewStep

\* The receiver stores what was sent, and nothing else is stored.
LEMMA InboxHoldsSent ==
  ASSUME ControllerIInv, [Next]_vars, NEW d \in Deliveries
  PROVE  inbox'[d].body = inbox[d].body \/ (sent[d] # None /\ inbox'[d].body = sent[d].body)
<1>1. ASSUME NEW r \in Receivers, NEW e \in Deliveries, Deliver(r, e)
      PROVE  inbox'[d].body = inbox[d].body \/ (sent[d] # None /\ inbox'[d].body = sent[d].body)
  <2>1. sent[e] # None /\ Accept(r, e, sent[e].body) /\ sent[e].body \in Bodies
    BY <1>1 DEF Deliver, ControllerIInv, Sent
  <2>2. /\ e # d => inbox'[d] = inbox[d]
        /\ inbox'[e].body = sent[e].body \/ inbox'[e].body = inbox[e].body
    BY <2>1, AcceptRows DEF ControllerIInv, IInv
  <2> QED
    BY <2>1, <2>2
<1>2. CASE inbox' = inbox
  BY <1>2
<1>3. ASSUME NEW w \in Workers, WorkerStep(w) \/ LookupFails(w) \/ CallFails(w) \/ Crash(w)
      PROVE  inbox' = inbox
  BY <1>3 DEF WorkerStep, LookupFails, CallFails, Crash, ClaimNext, ClaimOutbox,
              ProcessInstallation, ProcessLegacy, IgnoreRerequest, Decide, AcquireLease, LeaseBusy,
              ReadPullRequest, ApplySnapshot, ApplyRerequest, ApplyRefused, Expire, Release,
              Acknowledge, AcknowledgeOutbox, ReleaseOutbox, inboxOnly
<1>4. ASSUME NEW p, NEW s, NEW e, NEW b, NEW c, NEW g, NEW r,
             \/ GitHubChange(p, s, e, b) \/ GitHubEvent(e, b) \/ StartReceiver(r)
             \/ PublishCheck(c, p, g) \/ ControllerTick \/ UNCHANGED vars
      PROVE  inbox' = inbox
  BY <1>4 DEF GitHubChange, GitHubEvent, StartReceiver, Open, rowVars, PublishCheck,
              ControllerTick, vars, inboxOnly
<1> QED
  BY <1>1, <1>2, <1>3, <1>4 DEF Next

\* Only a process that has recorded a decision acknowledges.
LEMMA AcknowledgedStays ==
  ASSUME ControllerIInv, EnvStep, [Next]_vars
  PROVE  AcknowledgedWasProcessed'
<1> SUFFICES ASSUME NEW d \in Deliveries, outbox'[d].state = "acknowledged"
             PROVE  processed'[d] # "none"
  BY DEF AcknowledgedWasProcessed
<1>1. CASE outbox[d].state = "acknowledged"
  BY <1>1 DEF ControllerIInv, AcknowledgedWasProcessed, EnvStep
<1>2. ASSUME NEW w \in Workers, Acknowledge(w) \/ Release(w)
      PROVE  outbox[d].state = "acknowledged" \/ processed[d] # "none"
  <2>1. worker[w].pc # "idle" /\ worker[w].rec \in Deliveries
    BY <1>2, RecordFacts DEF Acknowledge, Release
  <2>2. \/ outbox' = outbox
        \/ Acknowledge(w) /\ outbox' = [outbox EXCEPT ![worker[w].rec].state = "acknowledged"]
        \/ outbox' = [outbox EXCEPT ![worker[w].rec].state = "pending",
                                    ![worker[w].rec].expires = 0]
    BY <1>2 DEF Acknowledge, Release, AcknowledgeOutbox, ReleaseOutbox, Lease, inboxOnly
  <2>3. Acknowledge(w) => processed[worker[w].rec] # "none"
    BY WorkerKnows DEF Acknowledge, AckInv
  <2> QED
    BY <2>1, <2>2, <2>3 DEF ControllerIInv, IInv, InboxTypeOK, OutboxRow
<1>3. ASSUME NEW w \in Workers, ClaimNext(w)
      PROVE  outbox[d].state = "acknowledged"
  <2>1. PICK o \in Owners : ClaimOutbox(o, 1)
    BY <1>3 DEF ClaimNext
  <2>2. outbox'[d] = IF d \in ClaimCandidates(1) THEN LeasedRow(outbox[d], o) ELSE outbox[d]
    BY <2>1 DEF ClaimOutbox
  <2> QED
    BY <2>2 DEF LeasedRow
<1>4. ASSUME NEW r \in Receivers, NEW e \in Deliveries, Deliver(r, e)
      PROVE  outbox[d].state = "acknowledged"
  <2>1. Accept(r, e, sent[e].body) /\ sent[e].body \in Bodies
    BY <1>4 DEF Deliver, ControllerIInv, Sent
  <2>2. outbox'[d] = outbox[d] \/ outbox'[d] = PendingRow(sent[e].body)
    BY <2>1, AcceptRows DEF ControllerIInv, IInv
  <2> QED
    BY <2>2 DEF PendingRow
<1>5. CASE outbox' = outbox
  BY <1>1, <1>5
<1>6. ASSUME NEW w \in Workers,
             \/ ProcessInstallation(w) \/ ProcessLegacy(w) \/ IgnoreRerequest(w) \/ LookupFails(w)
             \/ AcquireLease(w) \/ LeaseBusy(w) \/ ReadPullRequest(w) \/ ApplySnapshot(w)
             \/ ApplyRerequest(w) \/ ApplyRefused(w) \/ Expire(w) \/ CallFails(w) \/ Crash(w)
      PROVE  outbox' = outbox
  BY <1>6 DEF ProcessInstallation, ProcessLegacy, IgnoreRerequest, LookupFails, Decide,
              AcquireLease, LeaseBusy, ReadPullRequest, ApplySnapshot, ApplyRerequest,
              ApplyRefused, Expire, CallFails, Crash, inboxOnly
<1>7. ASSUME NEW p, NEW s, NEW e, NEW b, NEW c, NEW g, NEW r,
             \/ GitHubChange(p, s, e, b) \/ GitHubEvent(e, b) \/ StartReceiver(r)
             \/ PublishCheck(c, p, g) \/ ControllerTick \/ UNCHANGED vars
      PROVE  outbox' = outbox
  BY <1>7 DEF GitHubChange, GitHubEvent, StartReceiver, Open, rowVars, PublishCheck,
              ControllerTick, vars, inboxOnly
<1>8. processed[d] # "none" => processed'[d] # "none"
  BY DEF EnvStep
<1> QED
  BY <1>1, <1>2, <1>3, <1>4, <1>5, <1>6, <1>7, <1>8 DEF Next, WorkerStep

\* The snapshot a process applies: as new as the delivery announced, as new as
\* anything applied before, and GitHub's own when it has the newest version.
LEMMA AppliesFacts ==
  ASSUME ControllerIInv, NEW w \in Workers, Applies(w)
  PROVE  LET r == worker[w]
             p == worker[w].lease.pr
         IN /\ r.rec \in Deliveries /\ p \in PRs /\ processed[r.rec] = "none"
            /\ r.snap.version \in 0..MaxVersion /\ r.snap.snap \in Snapshot
            /\ sent[r.rec] # None /\ sent[r.rec] \in Sent
            /\ sent[r.rec].body.kind = "pull_request" /\ sent[r.rec].body.pr = p
            /\ sent[r.rec].version <= r.snap.version
            /\ applied[p] <= r.snap.version
            /\ r.snap.version <= github[p].version
            /\ r.snap.version = github[p].version => r.snap.snap = github[p].snap
<1> DEFINE r == worker[w]
           p == worker[w].lease.pr
<1>1. r.pc = "apply" /\ now < r.deadline /\ Body(w).kind = "pull_request" /\ processed[r.rec] = "none"
  BY DEF Applies, InTime, ApplyPullRequestSnapshot, NotYetProcessed
<1>2. /\ r.rec \in Deliveries /\ sent[r.rec] \in Sent /\ sent[r.rec] # None
      /\ Body(w) = sent[r.rec].body
  BY <1>1, RecordFacts
<1>3. p \in PRs
  BY <1>1, LeaseFacts
<1>4. p = Body(w).pr
  BY <1>1, WorkerKnows DEF LeaseInv, Body
<1>5. /\ r.snap \in PRVersion /\ r.snap.version <= github[p].version
      /\ r.snap.version = github[p].version => r.snap.snap = github[p].snap
      /\ r.snap.version >= sent[r.rec].version
      /\ r.snap.version >= applied[p]
  BY <1>1, WorkerKnows DEF SnapInv, Body
<1>6. r.snap.version \in 0..MaxVersion /\ r.snap.snap \in Snapshot
  BY <1>5, ControllerAssumption DEF PRVersion
<1>7. sent[r.rec].version \in Nat /\ applied[p] \in Nat
  BY <1>2, <1>3 DEF Sent, ControllerIInv
<1> HIDE DEF r, p
<1>8. sent[r.rec].version <= r.snap.version /\ applied[p] <= r.snap.version
  BY <1>5, <1>6, <1>7
<1> QED
  BY <1>1, <1>2, <1>3, <1>4, <1>5, <1>6, <1>8 DEF r, p

\* What was sent, processed and applied agree after every step.
LEMMA HistoryStep ==
  ASSUME ControllerIInv, EnvStep, [Next]_vars
  PROVE  applied' \in [PRs -> 0..MaxVersion] /\ SentInv' /\ AppliedExists' /\ ProcessedReflected'
<1> DEFINE SentOK(d) == sent'[d] # None =>
             IF sent'[d].body.kind = "pull_request"
             THEN /\ sent'[d].body.pr \in PRs
                  /\ sent'[d].version <= github'[sent'[d].body.pr].version
             ELSE sent'[d].version = 0
           DoneOK(d) == processed'[d] # "none" => sent'[d] # None
           Kept == /\ applied' \in [PRs -> 0..MaxVersion] /\ AppliedExists' /\ ProcessedReflected'
                   /\ \A d \in Deliveries : SentOK(d) /\ DoneOK(d)
<1>1. /\ applied \in [PRs -> 0..MaxVersion] /\ github \in [PRs -> PRVersion]
      /\ sent \in [Deliveries -> Sent \cup {None}] /\ SentInv /\ AppliedExists /\ ProcessedReflected
  BY DEF ControllerIInv
<1>2. /\ \A p \in PRs : applied[p] \in Nat /\ github[p].version \in Nat
      /\ \A d \in Deliveries : sent[d] # None => sent[d].version \in Nat
  BY <1>1 DEF PRVersion, Sent
<1>3. ASSUME UNCHANGED <<processed, applied, github, sent>>
      PROVE  Kept
  BY <1>1, <1>3 DEF SentInv, AppliedExists, ProcessedReflected
<1>4. ASSUME NEW p \in PRs, NEW s \in Snapshots, NEW d \in Deliveries, NEW b \in Bodies,
             GitHubChange(p, s, d, b)
      PROVE  Kept
  <2> DEFINE v == github[p].version + 1
             m == [body |-> b, version |-> v]
             g == [version |-> v, snap |-> s]
  <2>1. /\ github' = [github EXCEPT ![p] = g] /\ sent' = [sent EXCEPT ![d] = m] /\ sent[d] = None
        /\ UNCHANGED <<processed, applied>> /\ b.kind = "pull_request" /\ b.pr = p
    BY <1>4 DEF GitHubChange, storeOnly
  <2>2. m.body = b /\ m.version = v /\ g.version = v /\ v \in Nat /\ github[p].version <= v
    BY <1>2
  <2> HIDE DEF v, m, g
  <2>3. /\ github'[p] = g /\ sent'[d] = m
        /\ \A q \in PRs : q # p => github'[q] = github[q]
        /\ \A e \in Deliveries : e # d => sent'[e] = sent[e]
    BY <1>1, <2>1
  <2>4. \A q \in PRs : github[q].version <= github'[q].version /\ github'[q].version \in Nat
    BY <1>2, <2>2, <2>3
  <2>5. processed[d] = "none"
    BY <1>1, <2>1 DEF SentInv
  <2>6. ASSUME NEW e \in Deliveries
        PROVE  SentOK(e) /\ DoneOK(e)
    <3>1. CASE e = d
      BY <2>1, <2>2, <2>3, <2>5, <3>1
    <3>2. CASE e # d
      BY <1>1, <1>2, <2>1, <2>3, <2>4, <3>2 DEF SentInv
    <3> QED
      BY <3>1, <3>2
  <2>7. AppliedExists'
    BY <1>1, <1>2, <2>1, <2>4 DEF AppliedExists
  <2>8. ProcessedReflected'
    BY <1>1, <2>1, <2>3, <2>5 DEF ProcessedReflected
  <2> QED
    BY <1>1, <2>1, <2>6, <2>7, <2>8
<1>5. ASSUME NEW d \in Deliveries, NEW b \in Bodies, GitHubEvent(d, b)
      PROVE  Kept
  <2> DEFINE m == [body |-> b, version |-> 0]
  <2>1. /\ sent' = [sent EXCEPT ![d] = m] /\ sent[d] = None /\ b.kind # "pull_request"
        /\ UNCHANGED <<processed, applied, github>>
    BY <1>5 DEF GitHubEvent, storeOnly
  <2>2. m.body = b /\ m.version = 0
    OBVIOUS
  <2> HIDE DEF m
  <2>3. sent'[d] = m /\ \A e \in Deliveries : e # d => sent'[e] = sent[e]
    BY <1>1, <2>1
  <2>4. processed[d] = "none"
    BY <1>1, <2>1 DEF SentInv
  <2> QED
    BY <1>1, <2>1, <2>2, <2>3, <2>4 DEF SentInv, AppliedExists, ProcessedReflected
<1>6. ASSUME NEW w \in Workers, Decides(w)
      PROVE  Kept
  <2> DEFINE d == worker[w].rec
  <2>1. /\ d \in Deliveries /\ sent[d] # None /\ sent[d].body.kind # "pull_request"
    BY <1>6, RecordFacts DEF Decides
  <2>2. UNCHANGED <<applied, github, sent>>
        /\ \A e \in Deliveries : e # d => processed'[e] = processed[e]
    BY <1>6 DEF Decides, ControllerIInv, StoreInv, StoreTypeOK
  <2> HIDE DEF d
  <2> QED
    BY <1>1, <2>1, <2>2 DEF SentInv, AppliedExists, ProcessedReflected
<1>7. ASSUME NEW w \in Workers, Applies(w)
      PROVE  Kept
  <2> DEFINE d == worker[w].rec
             p == worker[w].lease.pr
             v == worker[w].snap.version
  <2>1. /\ d \in Deliveries /\ p \in PRs /\ v \in 0..MaxVersion /\ sent[d] # None
        /\ sent[d].body.kind = "pull_request" /\ sent[d].body.pr = p
        /\ sent[d].version <= v /\ applied[p] <= v /\ v <= github[p].version
    BY <1>7, AppliesFacts
  <2>2. /\ UNCHANGED <<github, sent>> /\ applied' = [applied EXCEPT ![p] = v]
        /\ \A e \in Deliveries : e # d => processed'[e] = processed[e]
    BY <1>7 DEF Applies, ApplyPullRequestSnapshot, ControllerIInv, StoreInv, StoreTypeOK
  <2> HIDE DEF d, p, v
  <2>3. applied'[p] = v /\ \A q \in PRs : q # p => applied'[q] = applied[q]
    BY <1>1, <2>1, <2>2
  <2>4. \A q \in PRs : applied[q] <= applied'[q] /\ applied'[q] \in Nat
    BY <1>2, <2>1, <2>3
  <2>5. AppliedExists' /\ applied' \in [PRs -> 0..MaxVersion]
    BY <1>1, <2>1, <2>2, <2>3 DEF AppliedExists
  <2>6. ProcessedReflected'
    <3> SUFFICES ASSUME NEW e \in Deliveries, processed'[e] # "none",
                        sent'[e].body.kind = "pull_request"
                 PROVE  applied'[sent'[e].body.pr] >= sent'[e].version
      BY DEF ProcessedReflected
    <3>1. CASE e = d
      BY <1>2, <2>1, <2>2, <2>3, <3>1
    <3>2. CASE e # d
      <4>1. /\ processed[e] # "none" /\ sent[e] # None /\ sent[e].body.pr \in PRs
            /\ applied[sent[e].body.pr] >= sent[e].version
        BY <1>1, <2>2, <3>2 DEF SentInv, ProcessedReflected
      <4> QED
        BY <1>2, <2>2, <2>4, <4>1
    <3> QED
      BY <3>1, <3>2
  <2>7. \A e \in Deliveries : SentOK(e) /\ DoneOK(e)
    BY <1>1, <2>1, <2>2 DEF SentInv
  <2> QED
    BY <2>5, <2>6, <2>7
<1>8. Kept
  BY <1>3, <1>4, <1>5, <1>6, <1>7, KindsOfStep DEF ViewStep
<1>9. ASSUME NEW d \in Deliveries, inbox'[d].body # None
      PROVE  sent'[d] # None /\ inbox'[d].body = sent'[d].body
  <2>1. sent[d] # None /\ inbox'[d].body = sent[d].body
    BY <1>1, <1>9, InboxHoldsSent DEF SentInv
  <2> QED
    BY <2>1 DEF EnvStep, GitHubStep
<1>10. SentInv'
  BY <1>8, <1>9 DEF SentInv
<1> QED
  BY <1>8, <1>10

-----------------------------------------------------------------------------
(* The view of a pull request.                                             *)

\* Whether or not it starts a generation, an applied snapshot is what the row
\* of the pull request shows afterwards.
LEMMA SnapshotIsShown ==
  ASSUME StoreInv, NoTargetUnlessEligible, NEW o \in Deliveries, NEW l \in granted,
         NEW s \in Snapshot, NEW n, ApplyPullRequestSnapshot(o, l, s, n)
  PROVE  /\ l.pr \in PRs
         /\ prState'[l.pr].elig = EligibilityFor(s)
         /\ prState'[l.pr].target = SnapshotTarget(s)
         /\ \A q \in PRs : q # l.pr => prState'[q] = prState[q]
<1> DEFINE p == l.pr
<1>1. StoreTypeOK /\ p \in PRs
  BY DEF StoreInv, StoreTypeOK, ReconcileHandle
<1>2. CASE Advances(p, s)
  <2>1. NewGeneration(p, s)
    BY <1>2 DEF ApplyPullRequestSnapshot
  <2>2. Schedules(p, s) <=> EligibilityFor(s) = "eligible"
    BY <1>2 DEF Schedules
  <2>3. prState' = [prState EXCEPT ![p] =
          [gen |-> prState[p].gen + 1, elig |-> EligibilityFor(s),
           target |-> IF Schedules(p, s) THEN s.target ELSE None,
           job |-> IF Schedules(p, s) THEN prState[p].gen + 1 ELSE 0]]
    BY <2>1 DEF NewGeneration
  <2> HIDE DEF p
  <2>4. /\ prState'[p].elig = EligibilityFor(s)
        /\ prState'[p].target = IF Schedules(p, s) THEN s.target ELSE None
        /\ \A q \in PRs : q # p => prState'[q] = prState[q]
    BY <1>1, <2>3 DEF StoreTypeOK
  <2> QED
    BY <1>1, <2>2, <2>4 DEF SnapshotTarget, p
<1>3. CASE ~Advances(p, s)
  <2>1. prState' = prState
    BY <1>3 DEF ApplyPullRequestSnapshot
  <2>2. prState[p].elig = EligibilityFor(s)
    BY <1>3 DEF Advances
  <2>3. prState[p].target = SnapshotTarget(s)
    BY <1>1, <1>3, <2>2 DEF Advances, SnapshotTarget, NoTargetUnlessEligible
  <2> QED
    BY <1>1, <2>1, <2>2, <2>3
<1> QED
  BY <1>2, <1>3

LEMMA ViewStepInv ==
  ASSUME ControllerIInv, EnvStep, [Next]_vars
  PROVE  NoTargetUnlessEligible' /\ ViewMatchesSnapshot'
<1>1. /\ NoTargetUnlessEligible /\ ViewMatchesSnapshot /\ StoreInv /\ AppliedExists
      /\ applied \in [PRs -> 0..MaxVersion] /\ github \in [PRs -> PRVersion]
  BY DEF ControllerIInv
<1>2. CASE UNCHANGED <<applied, prState, github>>
  BY <1>1, <1>2 DEF NoTargetUnlessEligible, ViewMatchesSnapshot
<1>3. ASSUME NEW p \in PRs, NEW s \in Snapshots, NEW d \in Deliveries, NEW b \in Bodies,
             GitHubChange(p, s, d, b)
      PROVE  NoTargetUnlessEligible' /\ ViewMatchesSnapshot'
  <2>1. /\ github' = [github EXCEPT ![p] = [version |-> github[p].version + 1, snap |-> s]]
        /\ UNCHANGED <<applied, prState>>
    BY <1>3 DEF GitHubChange, storeOnly
  <2>2. /\ github'[p].version = github[p].version + 1
        /\ \A q \in PRs : q # p => github'[q] = github[q]
    BY <1>1, <2>1
  <2>3. applied[p] \in Nat /\ github[p].version \in Nat /\ applied[p] <= github[p].version
    BY <1>1 DEF PRVersion, AppliedExists
  <2>4. applied'[p] # github'[p].version
    BY <2>1, <2>2, <2>3
  <2> QED
    BY <1>1, <2>1, <2>2, <2>4 DEF NoTargetUnlessEligible, ViewMatchesSnapshot
<1>4. ASSUME NEW d \in Deliveries, NEW b \in Bodies, GitHubEvent(d, b)
      PROVE  UNCHANGED <<applied, prState, github>>
  BY <1>4 DEF GitHubEvent, storeOnly
<1>5. ASSUME NEW w \in Workers, Decides(w)
      PROVE  NoTargetUnlessEligible' /\ ViewMatchesSnapshot'
  <2>1. UNCHANGED <<applied, github>>
    BY <1>5 DEF Decides
  <2>2. ASSUME NEW q \in PRs
        PROVE  \/ prState'[q] = prState[q]
               \/ prState'[q].elig = "installation-blocked" /\ prState'[q].target = None
    BY <1>5 DEF Decides, ApplyInstallationHint, BlockedRow
  <2> QED
    BY <1>1, <2>1, <2>2 DEF NoTargetUnlessEligible, ViewMatchesSnapshot
<1>6. ASSUME NEW w \in Workers, Applies(w)
      PROVE  NoTargetUnlessEligible' /\ ViewMatchesSnapshot'
  <2> DEFINE p == worker[w].lease.pr
             s == worker[w].snap.snap
             v == worker[w].snap.version
  <2>1. /\ worker[w].rec \in Deliveries /\ p \in PRs /\ s \in Snapshot
        /\ v = github[p].version => s = github[p].snap
    BY <1>6, AppliesFacts
  <2>2. worker[w].lease \in granted
    BY <1>6, LeaseFacts DEF Applies
  <2>3. /\ UNCHANGED github /\ applied' = [applied EXCEPT ![p] = v]
        /\ ApplyPullRequestSnapshot(worker[w].rec, worker[w].lease, s, now)
    BY <1>6 DEF Applies
  <2>4. /\ prState'[p].elig = EligibilityFor(s) /\ prState'[p].target = SnapshotTarget(s)
        /\ \A q \in PRs : q # p => prState'[q] = prState[q]
    BY <1>1, <2>1, <2>2, <2>3, SnapshotIsShown
  <2> HIDE DEF p, s, v
  <2>5. applied'[p] = v /\ \A q \in PRs : q # p => applied'[q] = applied[q]
    BY <1>1, <2>1, <2>3
  <2>6. EligibilityFor(s) # "eligible" => SnapshotTarget(s) = None
    BY DEF SnapshotTarget
  <2>7. NoTargetUnlessEligible'
    BY <1>1, <2>4, <2>6 DEF NoTargetUnlessEligible
  <2>8. ViewMatchesSnapshot'
    <3> SUFFICES ASSUME NEW q \in PRs, applied'[q] = github'[q].version, applied'[q] > 0
                 PROVE  \/ prState'[q].elig = "installation-blocked"
                        \/ /\ prState'[q].elig = EligibilityFor(github'[q].snap)
                           /\ prState'[q].target = SnapshotTarget(github'[q].snap)
      BY DEF ViewMatchesSnapshot, EligibilityFor, SnapshotTarget
    <3>1. CASE q = p
      BY <2>1, <2>3, <2>4, <2>5, <3>1
    <3>2. CASE q # p
      BY <1>1, <2>3, <2>4, <2>5, <3>2 DEF ViewMatchesSnapshot
    <3> QED
      BY <3>1, <3>2
  <2> QED
    BY <2>7, <2>8
<1> QED
  BY <1>2, <1>3, <1>4, <1>5, <1>6, KindsOfStep DEF ViewStep

-----------------------------------------------------------------------------
(* The inductive invariant.                                                *)

LEMMA ControllerInitInv == Init => ControllerIInv
<1> SUFFICES ASSUME Init PROVE ControllerIInv
  OBVIOUS
<1>1. IInv /\ StoreInv
  BY InitInv, StoreInitInv DEF Init
<1>2. /\ github \in [PRs -> PRVersion] /\ \A p \in PRs : github[p].version = 0
  <2>1. [version : {0}, snap : Snapshots] \subseteq PRVersion
    BY ControllerAssumption DEF PRVersion
  <2> QED
    BY <2>1 DEF Init
<1>3. /\ sent \in [Deliveries -> Sent \cup {None}] /\ \A d \in Deliveries : sent[d] = None
      /\ applied \in [PRs -> 0..MaxVersion] /\ \A p \in PRs : applied[p] = 0
      /\ faults \in 0..MaxFaults
  BY ControllerAssumption DEF Init
<1>4. /\ \A d \in Deliveries : /\ processed[d] = "none" /\ inbox[d].body = None
                               /\ outbox[d].state = "absent"
      /\ \A p \in PRs : prState[p].target = None
  BY DEF Init, InboxInit, StoreInit, NoInboxRow, NoOutboxRow
<1>5. \A w \in Workers : worker[w] = Idle(0)
  BY DEF Init
<1>6. Idle(0) \in WorkerRow /\ Idle(0).pc = "idle"
  BY DEF Idle, WorkerRow, Steps
<1>7. worker \in [Workers -> WorkerRow]
  BY <1>6 DEF Init
<1>8. WorkersInv /\ ReconcileIsExclusive
  BY <1>5, <1>6 DEF WorkersInv, RecInv, AckInv, LeaseInv, SnapInv, ReconcileIsExclusive, Reconciling
<1>9. SentInv /\ AppliedExists /\ ProcessedReflected /\ AcknowledgedWasProcessed
  BY <1>2, <1>3, <1>4 DEF SentInv, AppliedExists, ProcessedReflected, AcknowledgedWasProcessed
<1>10. NoTargetUnlessEligible /\ ViewMatchesSnapshot
  BY <1>3, <1>4 DEF NoTargetUnlessEligible, ViewMatchesSnapshot
<1> QED
  BY <1>1, <1>2, <1>3, <1>7, <1>8, <1>9, <1>10 DEF ControllerIInv

LEMMA FaultsStep ==
  ASSUME ControllerIInv, [Next]_vars
  PROVE  faults' \in 0..MaxFaults
<1>1. faults \in 0..MaxFaults /\ MaxFaults \in Nat
  BY ControllerAssumption DEF ControllerIInv
<1>2. ASSUME NEW w \in Workers, LookupFails(w) \/ CallFails(w) \/ Crash(w)
      PROVE  faults' = faults + 1 /\ faults < MaxFaults
  BY <1>2 DEF LookupFails, CallFails, Crash
<1>3. ASSUME NEW w \in Workers, WorkerStep(w)
      PROVE  faults' = faults
  BY <1>3 DEF WorkerStep, ClaimNext, ProcessInstallation, ProcessLegacy, IgnoreRerequest,
              AcquireLease, LeaseBusy, ReadPullRequest, ApplySnapshot, ApplyRerequest,
              ApplyRefused, Expire, Release, Acknowledge, envVars
<1>4. ASSUME NEW p, NEW s, NEW d, NEW b, NEW c, NEW g, NEW r,
             \/ GitHubChange(p, s, d, b) \/ GitHubEvent(d, b) \/ StartReceiver(r) \/ Deliver(r, d)
             \/ PublishCheck(c, p, g) \/ ControllerTick \/ UNCHANGED vars
      PROVE  faults' = faults
  BY <1>4 DEF GitHubChange, GitHubEvent, StartReceiver, Deliver, PublishCheck, ControllerTick,
              vars, envVars
<1> QED
  BY <1>1, <1>2, <1>3, <1>4 DEF Next

LEMMA ControllerStepInv == ControllerIInv /\ [Next]_vars => ControllerIInv'
<1> SUFFICES ASSUME ControllerIInv, [Next]_vars PROVE ControllerIInv'
  OBVIOUS
<1>1. EnvStep
  BY EnvFacts
<1>2. WorkersFine
  BY <1>1, WorkersStep
<1>3. /\ applied' \in [PRs -> 0..MaxVersion] /\ SentInv' /\ AppliedExists' /\ ProcessedReflected'
      /\ AcknowledgedWasProcessed' /\ NoTargetUnlessEligible' /\ ViewMatchesSnapshot'
      /\ faults' \in 0..MaxFaults
  BY <1>1, HistoryStep, AcknowledgedStays, ViewStepInv, FaultsStep
<1>4. WorkersInv' /\ worker' \in [Workers -> WorkerRow]
  BY <1>2 DEF WorkersFine, WorkersInv, KnowsNext
<1>5. ReconcileIsExclusive'
  BY <1>2 DEF WorkersFine, ReconcileIsExclusive, Reconciling, InTime, Busy
<1> QED
  BY <1>1, <1>3, <1>4, <1>5 DEF ControllerIInv, EnvStep, GitHubStep

LEMMA ControllerInvariance == Spec => []ControllerIInv
BY ControllerInitInv, ControllerStepInv, PTL DEF Spec

-----------------------------------------------------------------------------
(* The theorems.                                                           *)

\* The controller uses both stores as their clients may: whatever is proved of
\* InboxSpec and of StoreSpec holds while controllers, receiver and GitHub run.
THEOREM ControllerUsesStores == Spec => InboxSpec /\ StoreSpec
<1>1. Init => InboxInit /\ StoreInit
  BY DEF Init
<1>2. ControllerIInv /\ [Next]_vars => [InboxNext]_inboxVars /\ [StoreNext]_storeVars
  BY ControllerStepIsInboxStep, ControllerStepIsStoreStep
<1> QED
  BY <1>1, <1>2, ControllerInvariance, PTL DEF Spec, InboxSpec, StoreSpec

\* A hint that is acknowledged is reflected, and stays so: no slower process
\* puts an older snapshot back (Controller.ProcessRecord under its deadline).
THEOREM HintsAreReflected == Spec => []AcknowledgedHintsReflected
<1>1. ControllerIInv => AcknowledgedHintsReflected
  BY DEF ControllerIInv, AcknowledgedHintsReflected, AcknowledgedWasProcessed, ProcessedReflected
<1> QED
  BY <1>1, ControllerInvariance, PTL

\* When the last applied snapshot is the newest, the stored row is what GitHub
\* shows, unless an installation hint blocked it (ApplyPullRequestSnapshot).
THEOREM ViewFollowsGitHub == Spec => []ViewMatchesSnapshot
<1>1. ControllerIInv => ViewMatchesSnapshot
  BY DEF ControllerIInv
<1> QED
  BY <1>1, ControllerInvariance, PTL

\* Decisions precede acknowledgements, and two processes never reconcile one
\* pull request within their deadlines, although lease generations restart.
THEOREM ControllerIsSafe == Spec => []ControllerInvariant
<1>1. ControllerIInv => TypeOK
  <2> SUFFICES ASSUME ControllerIInv PROVE TypeOK
    OBVIOUS
  <2>1. \A p \in PRs : github[p].version \in 0..MaxVersion /\ github[p].snap \in Snapshots
    BY DEF ControllerIInv, PRVersion
  <2>2. \A w \in Workers : worker[w].pc \in Steps /\ worker[w].rec \in Deliveries \cup {None}
    BY DEF ControllerIInv, WorkerRow
  <2> QED
    BY <2>1, <2>2 DEF ControllerIInv, TypeOK, IInv, StoreInv
<1>2. ControllerIInv => ControllerInvariant
  BY <1>1 DEF ControllerIInv, ControllerInvariant
<1> QED
  BY <1>2, ControllerInvariance, PTL

-----------------------------------------------------------------------------
(* The refinement of ReconcileContract: the values its variables take.     *)

VersionOf(G) == [p \in PRs |-> G[p].version]
AnnouncedOf(S) ==
  [d \in Deliveries |->
     IF S[d] = None THEN None
     ELSE [pr |-> IF S[d].body.kind = "pull_request" THEN S[d].body.pr ELSE None,
           version |-> S[d].version]]
DoneOf(P) == {d \in Deliveries : P[d] # "none"}

LEMMA AbstractAnnounce ==
  ASSUME NEW p \in PRs, NEW d \in Deliveries,
         AnnouncedOf(sent)[d] = None,
         VersionOf(github') = [VersionOf(github) EXCEPT ![p] = VersionOf(github)[p] + 1],
         AnnouncedOf(sent') =
           [AnnouncedOf(sent) EXCEPT ![d] = [pr |-> p, version |-> VersionOf(github)[p] + 1]],
         applied' = applied, DoneOf(processed') = DoneOf(processed)
  PROVE  Contract!Announce(p, d)
BY DEF Contract!Announce, VersionOf, AnnouncedOf, DoneOf

LEMMA AbstractOther ==
  ASSUME NEW d \in Deliveries,
         AnnouncedOf(sent)[d] = None,
         AnnouncedOf(sent') = [AnnouncedOf(sent) EXCEPT ![d] = [pr |-> None, version |-> 0]],
         VersionOf(github') = VersionOf(github),
         applied' = applied, DoneOf(processed') = DoneOf(processed)
  PROVE  Contract!AnnounceOther(d)
BY DEF Contract!AnnounceOther, VersionOf, AnnouncedOf, DoneOf

LEMMA AbstractReconcileOther ==
  ASSUME NEW d \in Deliveries,
         d \notin DoneOf(processed), AnnouncedOf(sent)[d] # None,
         DoneOf(processed') = DoneOf(processed) \cup {d},
         AnnouncedOf(sent)[d].pr = None, applied' = applied,
         VersionOf(github') = VersionOf(github), AnnouncedOf(sent') = AnnouncedOf(sent)
  PROVE  Contract!Reconcile(d)
BY DEF Contract!Reconcile, VersionOf, AnnouncedOf, DoneOf

LEMMA AbstractReconcile ==
  ASSUME NEW d \in Deliveries, NEW p \in PRs, NEW v,
         d \notin DoneOf(processed), AnnouncedOf(sent)[d] # None,
         DoneOf(processed') = DoneOf(processed) \cup {d},
         AnnouncedOf(sent)[d].pr = p,
         v \in AnnouncedOf(sent)[d].version .. VersionOf(github)[p], v >= applied[p],
         applied' = [applied EXCEPT ![p] = v],
         VersionOf(github') = VersionOf(github), AnnouncedOf(sent') = AnnouncedOf(sent)
  PROVE  Contract!Reconcile(d)
<1>1. AnnouncedOf(sent)[d].pr # None
  BY ProjectionAssumption
<1> QED
  BY <1>1 DEF Contract!Reconcile, VersionOf, AnnouncedOf, DoneOf

LEMMA AbstractStutter ==
  ASSUME applied' = applied, DoneOf(processed') = DoneOf(processed),
         VersionOf(github') = VersionOf(github), AnnouncedOf(sent') = AnnouncedOf(sent)
  PROVE  UNCHANGED Contract!contractVars
BY DEF Contract!contractVars, VersionOf, AnnouncedOf, DoneOf

\* What a delivery that was sent announces.
LEMMA AnnouncedFacts ==
  ASSUME ControllerIInv, NEW d \in Deliveries, sent[d] # None
  PROVE  /\ AnnouncedOf(sent)[d] # None
         /\ AnnouncedOf(sent)[d].version = sent[d].version
         /\ AnnouncedOf(sent)[d].pr =
              IF sent[d].body.kind = "pull_request" THEN sent[d].body.pr ELSE None
<1> DEFINE q == IF sent[d].body.kind = "pull_request" THEN sent[d].body.pr ELSE None
           m == [pr |-> q, version |-> sent[d].version]
<1>1. AnnouncedOf(sent)[d] = m
  BY DEF AnnouncedOf
<1>2. q \in PRs \cup {None} /\ sent[d].version \in Nat
  BY DEF ControllerIInv, SentInv, Sent
<1> HIDE DEF q
<1>3. m \in [pr : PRs \cup {None}, version : Nat] /\ m.pr = q /\ m.version = sent[d].version
  BY <1>2
<1> HIDE DEF m
<1> QED
  BY <1>1, <1>3, ProjectionAssumption DEF q

\* Sending delivery d makes its announcement, and no other.
LEMMA AnnouncedAfter ==
  ASSUME ControllerIInv, NEW d \in Deliveries, sent[d] = None, NEW b \in Bodies, NEW v \in Nat,
         sent' = [sent EXCEPT ![d] = [body |-> b, version |-> v]]
  PROVE  /\ AnnouncedOf(sent)[d] = None
         /\ AnnouncedOf(sent') = [AnnouncedOf(sent) EXCEPT ![d] =
              [pr |-> IF b.kind = "pull_request" THEN b.pr ELSE None, version |-> v]]
<1> DEFINE m == [body |-> b, version |-> v]
           a == [pr |-> IF b.kind = "pull_request" THEN b.pr ELSE None, version |-> v]
<1>1. m \in [body : Bodies, version : Nat] /\ m.body = b /\ m.version = v
  OBVIOUS
<1>2. m # None
  BY <1>1, ProjectionAssumption
<1>3. sent'[d] = m /\ \A e \in Deliveries : e # d => sent'[e] = sent[e]
  BY DEF ControllerIInv
<1>4. AnnouncedOf(sent)[d] = None
  BY DEF AnnouncedOf
<1>5. AnnouncedOf(sent')[d] = a
  <2>1. AnnouncedOf(sent')[d] = IF sent'[d] = None THEN None
          ELSE [pr |-> IF sent'[d].body.kind = "pull_request" THEN sent'[d].body.pr ELSE None,
                version |-> sent'[d].version]
    BY DEF AnnouncedOf
  <2> HIDE DEF m
  <2> QED
    BY <1>1, <1>2, <1>3, <2>1
<1>6. \A e \in Deliveries : e # d => AnnouncedOf(sent')[e] = AnnouncedOf(sent)[e]
  BY <1>3 DEF AnnouncedOf
<1>7. /\ AnnouncedOf(sent) = [e \in Deliveries |-> AnnouncedOf(sent)[e]]
      /\ AnnouncedOf(sent') = [e \in Deliveries |-> AnnouncedOf(sent')[e]]
  BY DEF AnnouncedOf
<1> HIDE DEF a
<1>8. AnnouncedOf(sent') = [AnnouncedOf(sent) EXCEPT ![d] = a]
  BY <1>5, <1>6, <1>7
<1> QED
  BY <1>4, <1>8 DEF a

LEMMA ContractStep ==
  ASSUME ControllerIInv, [Next]_vars
  PROVE  [Contract!ContractNext]_(Contract!contractVars)
<1>1. ASSUME UNCHANGED <<processed, applied, github, sent>>
      PROVE  UNCHANGED Contract!contractVars
  BY <1>1, AbstractStutter
<1>2. ASSUME NEW p \in PRs, NEW s \in Snapshots, NEW d \in Deliveries, NEW b \in Bodies,
             GitHubChange(p, s, d, b)
      PROVE  Contract!Announce(p, d)
  <2> DEFINE v == github[p].version + 1
  <2>1. /\ github' = [github EXCEPT ![p] = [version |-> v, snap |-> s]]
        /\ sent' = [sent EXCEPT ![d] = [body |-> b, version |-> v]] /\ sent[d] = None
        /\ b.kind = "pull_request" /\ b.pr = p /\ UNCHANGED <<applied, processed>>
    BY <1>2 DEF GitHubChange, storeOnly
  <2>2. v \in Nat /\ VersionOf(github)[p] + 1 = v
    BY DEF ControllerIInv, PRVersion, VersionOf
  <2>3. /\ AnnouncedOf(sent)[d] = None
        /\ AnnouncedOf(sent') = [AnnouncedOf(sent) EXCEPT ![d] = [pr |-> p, version |-> v]]
    <3> HIDE DEF v
    <3>1. PICK n \in Nat : n = v
      BY <2>2
    <3>2. sent' = [sent EXCEPT ![d] = [body |-> b, version |-> n]] /\ sent[d] = None
      BY <2>1, <3>1
    <3>3. /\ AnnouncedOf(sent)[d] = None
          /\ AnnouncedOf(sent') = [AnnouncedOf(sent) EXCEPT ![d] =
               [pr |-> IF b.kind = "pull_request" THEN b.pr ELSE None, version |-> n]]
      BY <3>2, AnnouncedAfter, ZenonT(60)
    <3>4. (IF b.kind = "pull_request" THEN b.pr ELSE None) = p
      BY <2>1
    <3> QED
      BY <3>1, <3>3, <3>4
  <2>4. VersionOf(github') = [VersionOf(github) EXCEPT ![p] = VersionOf(github)[p] + 1]
    <3>1. /\ github'[p].version = v /\ \A q \in PRs : q # p => github'[q] = github[q]
      BY <2>1 DEF ControllerIInv
    <3> HIDE DEF v
    <3> QED
      BY <2>2, <3>1 DEF VersionOf
  <2> HIDE DEF v
  <2> QED
    BY <2>1, <2>2, <2>3, <2>4, AbstractAnnounce
<1>3. ASSUME NEW d \in Deliveries, NEW b \in Bodies, GitHubEvent(d, b)
      PROVE  Contract!AnnounceOther(d)
  <2>1. /\ sent' = [sent EXCEPT ![d] = [body |-> b, version |-> 0]] /\ sent[d] = None
        /\ b.kind # "pull_request" /\ UNCHANGED <<github, applied, processed>>
    BY <1>3 DEF GitHubEvent, storeOnly
  <2>2. /\ AnnouncedOf(sent)[d] = None
        /\ AnnouncedOf(sent') = [AnnouncedOf(sent) EXCEPT ![d] = [pr |-> None, version |-> 0]]
    BY <2>1, AnnouncedAfter
  <2> QED
    BY <2>1, <2>2, AbstractOther
<1>4. ASSUME NEW d \in Deliveries, processed[d] = "none", NEW k \in Decisions,
             processed' = [processed EXCEPT ![d] = k]
      PROVE  d \notin DoneOf(processed) /\ DoneOf(processed') = DoneOf(processed) \cup {d}
  <2>1. processed'[d] # "none" /\ \A e \in Deliveries : e # d => processed'[e] = processed[e]
    BY <1>4 DEF ControllerIInv, StoreInv, StoreTypeOK, Decisions
  <2> QED
    BY <1>4, <2>1 DEF DoneOf
<1>5. ASSUME NEW w \in Workers, Decides(w)
      PROVE  \E d \in Deliveries : Contract!Reconcile(d)
  <2>1. PICK d \in Deliveries : d = worker[w].rec
    BY <1>5, RecordFacts DEF Decides
  <2>2. sent[d] # None /\ sent[d].body.kind # "pull_request"
    BY <1>5, <2>1, RecordFacts DEF Decides
  <2>3. d \notin DoneOf(processed) /\ DoneOf(processed') = DoneOf(processed) \cup {d}
    BY <1>4, <1>5, <2>1 DEF Decides
  <2>4. /\ applied' = applied /\ VersionOf(github') = VersionOf(github)
        /\ AnnouncedOf(sent') = AnnouncedOf(sent)
    BY <1>5 DEF Decides
  <2>5. AnnouncedOf(sent)[d] # None /\ AnnouncedOf(sent)[d].pr = None
    BY <2>2, AnnouncedFacts
  <2> QED
    BY <2>3, <2>4, <2>5, AbstractReconcileOther
<1>6. ASSUME NEW w \in Workers, Applies(w)
      PROVE  \E d \in Deliveries : Contract!Reconcile(d)
  <2>1. /\ worker[w].rec \in Deliveries /\ worker[w].lease.pr \in PRs
        /\ worker[w].snap.version \in 0..MaxVersion
    BY <1>6, AppliesFacts
  <2>2. PICK d \in Deliveries : d = worker[w].rec
    BY <2>1
  <2>3. PICK p \in PRs : p = worker[w].lease.pr
    BY <2>1
  <2>4. PICK v \in 0..MaxVersion : v = worker[w].snap.version
    BY <2>1
  <2>5. /\ processed[d] = "none" /\ sent[d] # None /\ sent[d] \in Sent
        /\ sent[d].body.kind = "pull_request" /\ sent[d].body.pr = p
        /\ sent[d].version <= v /\ applied[p] <= v /\ v <= github[p].version
    BY <1>6, <2>2, <2>3, <2>4, AppliesFacts
  <2>6. SnapshotDecision(p, worker[w].snap.snap) \in Decisions
    BY DEF SnapshotDecision, Decisions
  <2>7. /\ processed' = [processed EXCEPT ![d] = SnapshotDecision(p, worker[w].snap.snap)]
        /\ applied' = [applied EXCEPT ![p] = v] /\ UNCHANGED <<github, sent>>
    BY <1>6, <2>2, <2>3, <2>4 DEF Applies, ApplyPullRequestSnapshot
  <2>8. d \notin DoneOf(processed) /\ DoneOf(processed') = DoneOf(processed) \cup {d}
    BY <1>4, <2>5, <2>6, <2>7
  <2>9. /\ AnnouncedOf(sent)[d] # None /\ AnnouncedOf(sent)[d].pr = p
        /\ AnnouncedOf(sent)[d].version = sent[d].version /\ VersionOf(github)[p] = github[p].version
    BY <2>5, AnnouncedFacts DEF VersionOf
  <2>10. sent[d].version \in Nat /\ github[p].version \in Nat /\ applied[p] \in Nat
    BY <2>5 DEF ControllerIInv, Sent, PRVersion
  <2>11. v \in AnnouncedOf(sent)[d].version .. VersionOf(github)[p] /\ v >= applied[p]
    BY <2>5, <2>9, <2>10
  <2>12. VersionOf(github') = VersionOf(github) /\ AnnouncedOf(sent') = AnnouncedOf(sent)
    BY <2>7
  <2>13. Contract!Reconcile(d)
    BY <2>7, <2>8, <2>9, <2>11, <2>12, AbstractReconcile
  <2> QED
    BY <2>13
<1>7. ViewStep => Contract!ContractNext
  BY <1>2, <1>3, <1>5, <1>6 DEF ViewStep, Contract!ContractNext
<1> QED
  BY <1>1, <1>7, KindsOfStep

\* The controller implements its contract: a delivery takes effect at most
\* once, brings the view at least to the change it announced, and no delivery
\* takes the view back.
THEOREM ContractIsKept == Spec => KeepsContract
<1>1. Init => Contract!ContractInit
  <2> SUFFICES ASSUME Init PROVE Contract!ContractInit
    OBVIOUS
  <2>1. \A p \in PRs : github[p].version = 0
    BY DEF Init
  <2>2. \A d \in Deliveries : sent[d] = None /\ processed[d] = "none"
    BY DEF Init, StoreInit
  <2>3. applied = [p \in PRs |-> 0]
    BY DEF Init
  <2> QED
    BY <2>1, <2>2, <2>3 DEF Contract!ContractInit
<1>2. ControllerIInv /\ [Next]_vars => [Contract!ContractNext]_(Contract!contractVars)
  BY ContractStep
<1> QED
  BY <1>1, <1>2, ControllerInvariance, PTL DEF Spec, KeepsContract, Contract!ContractSpec
=============================================================================
