----------------------------- MODULE Controller -----------------------------
(***************************************************************************)
(* The GitHub controller (internal/githubcontroller and the serve loop of  *)
(* cmd/glassroot-controller) over the two stores it works between: it      *)
(* claims a record of the webhook outbox, reconciles it with GitHub and    *)
(* the controller store, and acknowledges or releases the record.          *)
(*                                                                         *)
(* The stores' transactions are the actions of Inbox and ControllerStore.  *)
(* Between two of them other processes run: a second controller process    *)
(* (an old one that stalled, or one restarted early), the receiver, and    *)
(* GitHub itself.  All controller processes use the one owner name the     *)
(* database is bound to.  GitHub is external: it changes pull requests and *)
(* announces each change with a delivery, which arrives late, in any order *)
(* and any number of times.                                                *)
(***************************************************************************)
EXTENDS Inbox, ControllerStore

CONSTANTS
  Workers,            \* controller processes
  ProcessingTimeout,  \* DeliveryProcessingTimeout, in ticks
  PollDelay,          \* the sleep after an error or an empty queue, in ticks
  MaxVersion,         \* bound on the versions of a pull request
  MaxFaults,          \* bound on crashes and failed calls
  FaultsUntil,        \* no crash, failed call or missed deadline after this time
  Snapshots           \* what a pull request may look like

\* A delivery takes less than a lease to process, even one truncated to the second.
ASSUME ControllerAssumption ==
  /\ ProcessingTimeout \in Nat \ {0}
  /\ PollDelay \in Nat
  /\ MaxVersion \in Nat /\ MaxFaults \in Nat /\ FaultsUntil \in Nat
  /\ Snapshots \subseteq Snapshot
  /\ ProcessingTimeout + TicksPerSecond <= ReconcileLease + 1
  /\ ProcessingTimeout <= InboxLease

\* Projections name what the receiver parsed; None is no delivery.
ASSUME ProjectionAssumption ==
  /\ \A b \in Bodies :
       /\ b.kind = "installation" => b.prs \subseteq PRs
       /\ b.kind = "check_run" => b.run \in CheckRuns /\ b.genuine \in BOOLEAN
  /\ None \notin PRs
  /\ None \notin [body : Bodies, version : Nat]
  /\ None \notin [pr : PRs \cup {None}, version : Nat]

VARIABLES
  github,     \* external: version and snapshot of every pull request
  sent,       \* external: what GitHub sent with a delivery ID, or None
  applied,    \* history: the version of the snapshot last applied to a pull request
  worker,     \* the program counter and locals of every controller process
  faults      \* faults so far

envVars == <<github, sent, faults>>
inboxOnly == <<receiverID, openStores, inbox, outbox, nextSeq, handles, acks>>
storeOnly == <<prState, jobs, attempts, sources, nextSource, processed,
               recLeases, bindings, granted, sourceHandles>>
vars == <<now, inboxOnly, storeOnly, github, sent, applied, worker, faults>>

Steps == {"idle", "process", "read", "apply", "ack", "release"}

\* Sleeping ends with the clock at the latest.
AfterSleep == IF now + PollDelay < MaxTime THEN now + PollDelay ELSE MaxTime

Idle(wake) == [pc |-> "idle", rec |-> None, gen |-> 0, deadline |-> wake,
               lease |-> None, snap |-> None]

Init ==
  /\ InboxInit
  /\ StoreInit
  /\ github \in [PRs -> [version : {0}, snap : Snapshots]]
  /\ sent = [d \in Deliveries |-> None]
  /\ applied = [p \in PRs |-> 0]
  /\ worker = [w \in Workers |-> Idle(0)]
  /\ faults = 0

-----------------------------------------------------------------------------
(* GitHub and the receiver.                                                *)

\* A change of a pull request, announced by delivery d with projection body b.
GitHubChange(p, s, d, b) ==
  /\ github[p].version < MaxVersion
  /\ s # github[p].snap
  /\ sent[d] = None
  /\ b.kind = "pull_request" /\ b.pr = p
  /\ github' = [github EXCEPT ![p] = [version |-> @.version + 1, snap |-> s]]
  /\ sent' = [sent EXCEPT ![d] = [body |-> b, version |-> github[p].version + 1]]
  /\ UNCHANGED <<now, inboxOnly, storeOnly, applied, worker, faults>>

\* Any other event: a rerequest, of a Check Run the store may not know yet, an
\* installation change, an old projection.
GitHubEvent(d, b) ==
  /\ sent[d] = None
  /\ b.kind # "pull_request"
  /\ sent' = [sent EXCEPT ![d] = [body |-> b, version |-> 0]]
  /\ UNCHANGED <<now, inboxOnly, storeOnly, github, applied, worker, faults>>

StartReceiver(r) == Open(r) /\ UNCHANGED <<storeOnly, github, sent, applied, worker, faults>>

\* The receiver stores the delivery before it answers; GitHub may send it again.
Deliver(r, d) ==
  /\ sent[d] # None
  /\ Accept(r, d, sent[d].body)
  /\ UNCHANGED <<storeOnly, envVars, applied, worker>>

\* The future publisher binds a Check Run to a job that exists (external).
PublishCheck(c, p, g) ==
  /\ jobs[p][g].state # "absent"
  /\ RegisterCheckBinding(c, p, g, jobs[p][g].target)
  /\ UNCHANGED <<inboxOnly, envVars, applied, worker>>

-----------------------------------------------------------------------------
(* One controller process.                                                 *)

Body(w) == outbox[worker[w].rec].body
Lease(w) == [id |-> worker[w].rec, owner |-> outbox[worker[w].rec].owner, gen |-> worker[w].gen]
PRof(w) == IF Body(w).kind = "check_run" THEN bindings[Body(w).run].pr ELSE Body(w).pr
Goto(w, pc) == worker' = [worker EXCEPT ![w].pc = pc]

InTime_Ignored(w) == TRUE

\* The context of ProcessRecord is alive; every transaction and call needs it.
InTime(w) == now < worker[w].deadline

\* ProcessNext: claim one record; the clock of ProcessRecord starts.
ClaimNext(w) ==
  /\ worker[w].pc = "idle"
  /\ now >= worker[w].deadline
  /\ \E o \in Owners : ClaimOutbox(o, 1)
  /\ \E d \in ClaimCandidates(1) :
       worker' = [worker EXCEPT ![w] =
         [pc |-> "process", rec |-> d, gen |-> outbox[d].gen + 1,
          deadline |-> now + ProcessingTimeout, lease |-> None, snap |-> None]]
  /\ UNCHANGED <<storeOnly, envVars, applied>>

\* processInstallation
ProcessInstallation(w) ==
  /\ worker[w].pc = "process" /\ InTime(w)
  /\ Body(w).kind = "installation"
  /\ IF processed[worker[w].rec] # "none"
     THEN UNCHANGED <<now, storeOnly>>
     ELSE ApplyInstallationHint(worker[w].rec, Body(w).prs)
  /\ Goto(w, "ack")
  /\ UNCHANGED <<inboxOnly, envVars, applied>>

\* recordDecision: processed once, whatever it is asked to record later.
Decide(w, decision) ==
  /\ IF processed[worker[w].rec] # "none"
     THEN UNCHANGED <<now, storeOnly>>
     ELSE RecordProcessingDecision(worker[w].rec, decision)
  /\ Goto(w, "ack")
  /\ UNCHANGED <<inboxOnly, applied>>

ProcessLegacy(w) ==
  /\ worker[w].pc = "process" /\ InTime(w)
  /\ Body(w).kind = "legacy"
  /\ Decide(w, "legacy-unreconcilable")
  /\ UNCHANGED envVars

\* GetCurrentPRState before any lease: the PR is known (its route is stored).
Known(p) == prState[p].gen > 0

\* A hint, or a rerequest of a Check Run the store knows.
NeedsLease(w) ==
  \/ Body(w).kind = "pull_request"
  \/ /\ Body(w).kind = "check_run"
     /\ bindings[Body(w).run] # None
     /\ Known(bindings[Body(w).run].pr)

IgnoreRerequest(w) ==
  /\ worker[w].pc = "process" /\ InTime(w)
  /\ Body(w).kind = "check_run"
  /\ ~NeedsLease(w)
  /\ Decide(w, "rerequest-ignored")
  /\ UNCHANGED envVars

\* LookupCheckBinding or GetCurrentPRState fails for a reason of its own, such
\* as a busy database: the caller treats every error as an unknown Check Run.
LookupFails(w) ==
  /\ worker[w].pc = "process" /\ InTime(w)
  /\ Body(w).kind = "check_run"
  /\ faults < MaxFaults /\ now <= FaultsUntil
  /\ Decide(w, "rerequest-ignored")
  /\ faults' = faults + 1
  /\ UNCHANGED <<github, sent>>

AcquireLease(w) ==
  /\ worker[w].pc = "process" /\ InTime(w)
  /\ NeedsLease(w)
  /\ AcquireReconcileLease(PRof(w))
  /\ worker' = [worker EXCEPT ![w].pc = "read", ![w].lease = GrantedLease(PRof(w))]
  /\ UNCHANGED <<inboxOnly, envVars, applied>>

LeaseBusy_Swallowed(w) ==
  /\ worker[w].pc = "process" /\ NeedsLease(w) /\ ~LeaseFree(PRof(w))
  /\ Goto(w, "ack")
  /\ UNCHANGED <<now, inboxOnly, storeOnly, envVars, applied>>

LeaseBusy(w) ==
  /\ worker[w].pc = "process" /\ InTime(w)
  /\ NeedsLease(w)
  /\ ~(LeaseFree(PRof(w)) /\ recLeases[PRof(w)].gen < MaxStoreLeaseGen)
  /\ Goto(w, "release")
  /\ UNCHANGED <<now, inboxOnly, storeOnly, envVars, applied>>

\* RequestToken and GetPullRequest: the snapshot is GitHub's state at this moment.
ReadPullRequest(w) ==
  /\ worker[w].pc = "read" /\ InTime(w)
  /\ worker' = [worker EXCEPT ![w].pc = "apply", ![w].snap = github[worker[w].lease.pr]]
  /\ UNCHANGED <<now, inboxOnly, storeOnly, envVars, applied>>

SnapshotTarget(s) == IF EligibilityFor(s) = "eligible" THEN s.target ELSE None

\* ApplyPullRequestSnapshot reads the clock again; ApplyCheckRunRerequest is
\* given the time read when the lease was taken (n = expires - duration).
ApplySnapshot(w) ==
  /\ worker[w].pc = "apply" /\ InTime(w)
  /\ Body(w).kind = "pull_request"
  /\ \/ /\ ApplyPullRequestSnapshot(worker[w].rec, worker[w].lease, worker[w].snap.snap, now)
        /\ applied' = [applied EXCEPT ![worker[w].lease.pr] = worker[w].snap.version]
     \/ DuplicateProcessed(worker[w].rec, worker[w].lease, now) /\ UNCHANGED applied
  /\ Goto(w, "ack")
  /\ UNCHANGED <<inboxOnly, envVars>>

ApplyRerequest(w) ==
  /\ worker[w].pc = "apply" /\ InTime(w)
  /\ Body(w).kind = "check_run"
  /\ \/ ApplyCheckRunRerequest(worker[w].rec, worker[w].lease, Body(w).run, Body(w).genuine,
                               SnapshotTarget(worker[w].snap.snap),
                               worker[w].lease.expires - ReconcileLease)
     \/ DuplicateProcessed(worker[w].rec, worker[w].lease,
                           worker[w].lease.expires - ReconcileLease)
  /\ Goto(w, "ack")
  /\ UNCHANGED <<inboxOnly, envVars, applied>>

\* The store refuses the call: the lease is stale, or the rerequest is an error.
ApplyRefused(w) ==
  /\ worker[w].pc = "apply" /\ InTime(w)
  /\ \/ ~HoldsReconcileLease(worker[w].lease)
     \/ Body(w).kind = "pull_request" /\ now > worker[w].lease.expires
     \/ /\ NotYetProcessed(worker[w].rec)
        /\ \/ /\ Body(w).kind = "check_run"
              /\ RerequestDecision(worker[w].lease, Body(w).run, Body(w).genuine,
                                   SnapshotTarget(worker[w].snap.snap)) = "error"
           \/ /\ Body(w).kind = "pull_request"
              /\ Advances(worker[w].lease.pr, worker[w].snap.snap)
              /\ prState[worker[w].lease.pr].gen = MaxGen
  /\ Goto(w, "release")
  /\ UNCHANGED <<now, inboxOnly, storeOnly, envVars, applied>>

\* The deadline passes; whatever call is next fails.  The reconcile lease stays.
Expire(w) ==
  /\ worker[w].pc \in {"process", "read", "apply"}
  /\ ~InTime(w)
  /\ Goto(w, "release")
  /\ UNCHANGED <<now, inboxOnly, storeOnly, envVars, applied>>

\* ReleaseOutbox; its error is ignored.  The loop sleeps before the next claim.
Release(w) ==
  /\ worker[w].pc = "release"
  /\ IF HoldsLease(Lease(w)) /\ FinishState(Lease(w))
     THEN ReleaseOutbox(Lease(w))
     ELSE UNCHANGED <<now, inboxOnly>>
  /\ worker' = [worker EXCEPT ![w] = Idle(AfterSleep)]
  /\ UNCHANGED <<storeOnly, envVars, applied>>

\* AcknowledgeOutbox; a stale lease is an error, the record stays with its new holder.
Acknowledge(w) ==
  /\ worker[w].pc = "ack"
  /\ IF HoldsLease(Lease(w)) /\ FinishState(Lease(w))
     THEN AcknowledgeOutbox(Lease(w)) /\ worker' = [worker EXCEPT ![w] = Idle(0)]
     ELSE /\ UNCHANGED <<now, inboxOnly>>
          /\ worker' = [worker EXCEPT ![w] = Idle(AfterSleep)]
  /\ UNCHANGED <<storeOnly, envVars, applied>>

-----------------------------------------------------------------------------
(* Faults.                                                                 *)

\* The broker, GitHub or a database fails the call at hand.
CallFails(w) ==
  /\ worker[w].pc \in {"process", "read", "apply"}
  /\ faults < MaxFaults /\ now <= FaultsUntil
  /\ Goto(w, "release")
  /\ faults' = faults + 1
  /\ UNCHANGED <<now, inboxOnly, storeOnly, github, sent, applied>>

\* The process dies, at any point, and is started again.
Crash(w) ==
  /\ worker[w].pc # "idle"
  /\ faults < MaxFaults /\ now <= FaultsUntil
  /\ worker' = [worker EXCEPT ![w] = Idle(0)]
  /\ faults' = faults + 1
  /\ UNCHANGED <<now, inboxOnly, storeOnly, github, sent, applied>>

-----------------------------------------------------------------------------
Timely(w) == worker[w].pc \in {"process", "read", "apply"} => now + 1 < worker[w].deadline

ControllerTick ==
  /\ Tick
  /\ now < FaultsUntil \/ \A w \in Workers : Timely(w)
  /\ UNCHANGED <<inboxOnly, storeOnly, envVars, applied, worker>>

WorkerStep(w) ==
  \/ ClaimNext(w) \/ ProcessInstallation(w) \/ ProcessLegacy(w) \/ IgnoreRerequest(w)
  \/ AcquireLease(w) \/ LeaseBusy(w) \/ ReadPullRequest(w) \/ ApplySnapshot(w)
  \/ ApplyRerequest(w) \/ ApplyRefused(w) \/ Expire(w) \/ Release(w) \/ Acknowledge(w)

Next ==
  \/ ControllerTick
  \/ \E p \in PRs, s \in Snapshots, d \in Deliveries, b \in Bodies : GitHubChange(p, s, d, b)
  \/ \E d \in Deliveries, b \in Bodies : GitHubEvent(d, b)
  \/ \E r \in Receivers : StartReceiver(r)
  \/ \E r \in Receivers, d \in Deliveries : Deliver(r, d)
  \/ \E c \in CheckRuns, p \in PRs, g \in Gens : PublishCheck(c, p, g)
  \/ \E w \in Workers : WorkerStep(w)
  \/ \E w \in Workers : LookupFails(w) \/ CallFails(w) \/ Crash(w)

Spec == Init /\ [][Next]_vars

\* The serve loop runs forever, time passes, and GitHub delivers what it sent.
FairSpec ==
  /\ Spec
  /\ WF_vars(ControllerTick)
  /\ \A w \in Workers : WF_vars(WorkerStep(w))
  /\ \A r \in Receivers : WF_vars(StartReceiver(r))
  /\ \A r \in Receivers, d \in Deliveries : WF_vars(Deliver(r, d))

-----------------------------------------------------------------------------
(* Properties.                                                             *)

TypeOK ==
  /\ InboxTypeOK
  /\ StoreTypeOK
  /\ \A p \in PRs : github[p].version \in 0..MaxVersion /\ github[p].snap \in Snapshots
  /\ applied \in [PRs -> 0..MaxVersion]
  /\ \A w \in Workers : worker[w].pc \in Steps /\ worker[w].rec \in Deliveries \cup {None}
  /\ faults \in 0..MaxFaults

\* Once the delivery that announced a change is acknowledged, the controller
\* has applied a snapshot at least as new, and no slower process has put an
\* older one back: the view of a pull request converges with GitHub.
AcknowledgedHintsReflected ==
  \A d \in Deliveries :
    outbox[d].state = "acknowledged" /\ sent[d].body.kind = "pull_request"
      => applied[sent[d].body.pr] >= sent[d].version

\* The controller's row of a pull request is what the last applied snapshot
\* says, unless an installation hint blocked it: when that snapshot is the
\* newest there is, the current job is for what GitHub shows now.
ViewMatchesSnapshot ==
  \A p \in PRs :
    applied[p] = github[p].version /\ applied[p] > 0 =>
      \/ prState[p].elig = "installation-blocked"
      \/ /\ prState[p].elig = EligibilityFor(github[p].snap)
         /\ prState[p].target = SnapshotTarget(github[p].snap)

\* A record is acknowledged only after the controller store recorded a
\* decision for it: a crash between the two commits repeats work, never loses it.
AcknowledgedWasProcessed ==
  \A d \in Deliveries : outbox[d].state = "acknowledged" => processed[d] # "none"

Reconciling(w) == worker[w].pc \in {"read", "apply"} /\ InTime(w)

\* While a process is reconciling a pull request within its deadline, nobody
\* else holds that pull request's lease: the lease outlives the work it guards.
ReconcileIsExclusive ==
  \A w, x \in Workers :
    Reconciling(w) /\ Reconciling(x) /\ w # x
      => worker[w].lease.pr # worker[x].lease.pr

\* Two processes and two databases in step: no lease is shared, no acknowledgement
\* precedes its decision.
ControllerInvariant == TypeOK /\ AcknowledgedWasProcessed /\ ReconcileIsExclusive

\* The controller keeps its contract: at-most-once effect, forward only.
Contract ==
  INSTANCE ReconcileContract WITH
    version <- [p \in PRs |-> github[p].version],
    announced <- [d \in Deliveries |->
                    IF sent[d] = None THEN None
                    ELSE [pr |-> IF sent[d].body.kind = "pull_request"
                                 THEN sent[d].body.pr ELSE None,
                          version |-> sent[d].version]],
    view <- applied,
    done <- {d \in Deliveries : processed[d] # "none"}

\* Spec implements ReconcileContract: see that module.
KeepsContract == Contract!ContractSpec

\* Every queued delivery is eventually acknowledged once calls stop failing:
\* neither an abandoned outbox lease nor an abandoned reconcile lease blocks it
\* for good.
QueuedIsAcknowledged ==
  \A d \in Deliveries :
    outbox[d].state # "absent" ~> outbox[d].state = "acknowledged"

\* A rerequest of a Check Run the store knows is not dropped because the
\* database was busy.  (GITHUB_CONTROLLER.md: transient database failures
\* release the receiver outbox lease.)
TransientFailureIsNotADecision ==
  [][\A w \in Workers :
       /\ worker[w].pc = "process"
       /\ NeedsLease(w)
       /\ faults' # faults
       => processed'[worker[w].rec] = processed[worker[w].rec]]_vars
=============================================================================
