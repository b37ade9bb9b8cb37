-------------------------- MODULE ControllerStore --------------------------
(***************************************************************************)
(* The durable state of the GitHub controller                              *)
(* (internal/githubcontrollerstore): the current state of every pull       *)
(* request, its analysis jobs, attempts and source-import requests, the    *)
(* record of processed deliveries, and the leases that serialise work.     *)
(*                                                                         *)
(* Two processes share the database: the controller (reconcile leases,     *)
(* snapshots, rerequests, installation hints) and the source ingester      *)
(* (source leases, import results).  Every operation is one serialisable   *)
(* transaction, hence one action; an operation that returns an error rolls *)
(* back and is a stuttering step.  As in Inbox, clients are arbitrary: any *)
(* lease ever granted may be presented at any later time.                  *)
(*                                                                         *)
(* Identifiers are hashes of what they name.  A job ID hashes its target   *)
(* and its generation, and a target names its pull request, so a job is    *)
(* the pair (pull request, generation); a job has one source request.  The *)
(* database is bound to one controller ID (bindMetadata), so the owner of  *)
(* every reconcile lease is the same and only its generation tells.        *)
(***************************************************************************)
EXTENDS StoreBase, FiniteSets

CONSTANTS
  PRs,              \* pull request keys (installation, base repository, number)
  Targets,          \* the (base commit, head commit) pairs a snapshot may show
  CheckRuns,        \* Check Run IDs
  Ingesters,        \* source ingester IDs
  ReconcileLease,   \* duration of a reconcile lease, in ticks
  SourceLease,      \* duration the ingester asks for, in ticks
  MaxSourceLease,   \* the longest duration the store grants
  MaxGen,           \* stands for math.MaxInt64: PR generations refuse to pass it
  MaxStoreLeaseGen, \* stands for math.MaxInt64 again, for lease generations
  MaxAttempts       \* MaxAttemptsPerJob

ASSUME ControllerStoreAssumption ==
  /\ ReconcileLease \in Nat \ {0}
  /\ SourceLease \in Nat \ {0}
  /\ MaxSourceLease \in Nat \ {0}
  /\ MaxGen \in Nat \ {0}
  /\ MaxStoreLeaseGen \in Nat \ {0}
  /\ MaxAttempts \in Nat \ {0}
  /\ None \notin Targets /\ None \notin Ingesters

VARIABLES
  prState,          \* pull_request_state
  jobs,             \* jobs, by pull request and generation
  attempts,         \* attempts, by job and attempt number: their states
  sources,          \* source_requests, by job
  nextSource,       \* AUTOINCREMENT of source_requests.sequence
  processed,        \* processed_deliveries: the decision recorded for an outbox ID
  recLeases,        \* reconcile_leases; generation 0 is no row
  bindings,         \* check_bindings
  granted,          \* every reconcile lease ever returned
  sourceHandles     \* every source lease ever returned

jobVars == <<jobs, attempts, sources, nextSource>>
storeVars == <<now, prState, jobs, attempts, sources, nextSource, processed,
               recLeases, bindings, granted, sourceHandles>>

Gens == 1..MaxGen
Ineligible == {"draft", "closed", "source-unavailable", "installation-blocked"}
JobTerminal == {"completed", "failed", "superseded", "cancelled"}
JobLive == {"importing-source", "awaiting-runner"}
SourceOpen == {"pending", "leased"}
SourceSettled == {"completed", "failed", "superseded", "cancelled"}
Decisions == {"scheduled-new-target", "no-change-current-target", "marked-ineligible",
              "rerequest-created", "rerequest-ignored", "installation-hint",
              "legacy-unreconcilable"}

PRRow == [gen : 0..MaxGen, elig : {"none", "eligible"} \cup Ineligible,
          target : Targets \cup {None}, job : 0..MaxGen]
JobRow == [state : {"absent"} \cup JobLive \cup JobTerminal, target : Targets \cup {None}]
SourceRow == [state : {"absent"} \cup SourceOpen \cup SourceSettled, seq : Nat,
              owner : Ingesters \cup {None}, gen : 0..MaxStoreLeaseGen, expires : Nat]
Snapshot == [closed : BOOLEAN, draft : BOOLEAN, target : Targets \cup {None}]
ReconcileHandle == [pr : PRs, gen : 1..MaxStoreLeaseGen, expires : Nat]
SourceHandle == [pr : PRs, job : Gens, owner : Ingesters, gen : 1..MaxStoreLeaseGen]
Binding == [pr : PRs, gen : Gens, target : Targets]

StoreTypeOK ==
  /\ ClockTypeOK
  /\ prState \in [PRs -> PRRow]
  /\ jobs \in [PRs -> [Gens -> JobRow]]
  /\ attempts \in [PRs -> [Gens -> [1..MaxAttempts -> {"absent", "queued", "cancelled"}]]]
  /\ sources \in [PRs -> [Gens -> SourceRow]]
  /\ nextSource \in Nat
  /\ processed \in [Deliveries -> Decisions \cup {"none"}]
  /\ recLeases \in [PRs -> [gen : 0..MaxStoreLeaseGen, expires : Nat]]
  /\ bindings \in [CheckRuns -> Binding \cup {None}]
  /\ granted \subseteq ReconcileHandle
  /\ sourceHandles \subseteq SourceHandle

NoJob == [state |-> "absent", target |-> None]
NoSource == [state |-> "absent", seq |-> 0, owner |-> None, gen |-> 0, expires |-> 0]
NoAttempts == [i \in 1..MaxAttempts |-> "absent"]
NoLease == [gen |-> 0, expires |-> 0]

StoreInit ==
  /\ ClockInit
  /\ prState = [p \in PRs |-> [gen |-> 0, elig |-> "none", target |-> None, job |-> 0]]
  /\ jobs = [p \in PRs |-> [g \in Gens |-> NoJob]]
  /\ attempts = [p \in PRs |-> [g \in Gens |-> NoAttempts]]
  /\ sources = [p \in PRs |-> [g \in Gens |-> NoSource]]
  /\ nextSource = 1
  /\ processed = [o \in Deliveries |-> "none"]
  /\ recLeases = [p \in PRs |-> NoLease]
  /\ bindings = [c \in CheckRuns |-> None]
  /\ granted = {}
  /\ sourceHandles = {}

-----------------------------------------------------------------------------
(* Reconcile leases.                                                       *)

LeaseFree_Always(p) == TRUE

\* No row, or the stored expiry (a whole second) is not after now.
LeaseFree(p) == recLeases[p].gen = 0 \/ recLeases[p].expires <= now

GrantedLease(p) ==
  [pr |-> p, gen |-> recLeases[p].gen + 1, expires |-> now + ReconcileLease]

AcquireReconcileLease(p) ==
  /\ LeaseFree(p)
  /\ recLeases[p].gen < MaxStoreLeaseGen
  /\ recLeases' = [recLeases EXCEPT ![p] = [gen |-> @.gen + 1,
                                            expires |-> WholeSecond(now + ReconcileLease)]]
  /\ granted' = granted \cup {GrantedLease(p)}
  /\ UNCHANGED <<now, prState, jobVars, processed, bindings, sourceHandles>>

\* DELETE ... WHERE owner=? AND lease_generation=? must delete one row.
HoldsReconcileLease(l) == recLeases[l.pr].gen = l.gen

\* The row goes away, and with it the generation: the next lease is 1 again.
ReleaseReconcileLease(l) ==
  /\ HoldsReconcileLease(l)
  /\ recLeases' = [recLeases EXCEPT ![l.pr] = NoLease]

\* checkProcessed of a processed record: only the lease is given back.
DuplicateProcessed(o, l, n) ==
  /\ n <= l.expires
  /\ processed[o] # "none"
  /\ ReleaseReconcileLease(l)
  /\ UNCHANGED <<now, prState, jobVars, processed, bindings, granted, sourceHandles>>

-----------------------------------------------------------------------------
(* Stopping the current job: its attempts and its open source request go   *)
(* with it.                                                                *)

StoppedJobs(p, state) ==
  [g \in Gens |->
     IF g = prState[p].job /\ jobs[p][g].state \notin JobTerminal
     THEN [jobs[p][g] EXCEPT !.state = state] ELSE jobs[p][g]]

StoppedAttempts_Kept(p) == attempts[p]

StoppedAttempts(p) ==
  [g \in Gens |-> [i \in 1..MaxAttempts |->
     IF g = prState[p].job /\ attempts[p][g][i] = "queued"
     THEN "cancelled" ELSE attempts[p][g][i]]]

StoppedSources_PendingOnly(p, state) ==
  [g \in Gens |->
     IF g = prState[p].job /\ sources[p][g].state = "pending"
     THEN [sources[p][g] EXCEPT !.state = state] ELSE sources[p][g]]

StoppedSources(p, state) ==
  [g \in Gens |->
     IF g = prState[p].job /\ sources[p][g].state \in SourceOpen
     THEN [sources[p][g] EXCEPT !.state = state] ELSE sources[p][g]]

-----------------------------------------------------------------------------
(* ApplyPullRequestSnapshot.                                               *)

EligibilityFor(s) ==
  IF s.closed THEN "closed"
  ELSE IF s.draft THEN "draft"
  ELSE IF s.target = None THEN "source-unavailable"
  ELSE "eligible"

Advances_NewTargetOnly(p, s) ==
  EligibilityFor(s) = "eligible" /\ prState[p].target # s.target

\* Whether the snapshot starts a new generation of the pull request.
Advances(p, s) ==
  IF EligibilityFor(s) = "eligible"
  THEN ~(prState[p].elig = "eligible" /\ prState[p].target = s.target)
  ELSE prState[p].gen = 0 \/ prState[p].elig # EligibilityFor(s)

SnapshotDecision(p, s) ==
  IF EligibilityFor(s) # "eligible" THEN "marked-ineligible"
  ELSE IF Advances(p, s) THEN "scheduled-new-target" ELSE "no-change-current-target"

Schedules(p, s) == Advances(p, s) /\ EligibilityFor(s) = "eligible"

\* supersedeCurrent
SupersededJobs(p) == StoppedJobs(p, "superseded")

\* insertTargetJobAttemptSource for generation g: job, first attempt, request.
WithNewJob(J, g, s) == [J EXCEPT ![g] = [state |-> "importing-source", target |-> s.target]]
WithFirstAttempt(A, g) == [A EXCEPT ![g] = [NoAttempts EXCEPT ![1] = "queued"]]
NewRequest == [state |-> "pending", seq |-> nextSource, owner |-> None, gen |-> 0, expires |-> 0]
WithRequest(S, g) == [S EXCEPT ![g] = NewRequest]

NewGeneration(p, s) ==
  LET g == prState[p].gen + 1 IN
  /\ prState[p].gen < MaxGen
  /\ prState' = [prState EXCEPT ![p] =
       [gen |-> g, elig |-> EligibilityFor(s),
        target |-> IF Schedules(p, s) THEN s.target ELSE None,
        job |-> IF Schedules(p, s) THEN g ELSE 0]]
  /\ jobs' = [jobs EXCEPT ![p] =
       IF Schedules(p, s) THEN WithNewJob(SupersededJobs(p), g, s) ELSE SupersededJobs(p)]
  /\ attempts' = [attempts EXCEPT ![p] =
       IF Schedules(p, s) THEN WithFirstAttempt(StoppedAttempts(p), g) ELSE StoppedAttempts(p)]
  /\ sources' = [sources EXCEPT ![p] =
       IF Schedules(p, s) THEN WithRequest(StoppedSources(p, "superseded"), g)
                          ELSE StoppedSources(p, "superseded")]
  /\ nextSource' = IF Schedules(p, s) THEN nextSource + 1 ELSE nextSource

NotYetProcessed_Unchecked(o) == TRUE

NotYetProcessed(o) == processed[o] = "none"

\* n is the time the caller read before the call, which may be long ago.
ApplyPullRequestSnapshot(o, l, s, n) ==
  /\ n <= l.expires
  /\ NotYetProcessed(o)
  /\ IF Advances(l.pr, s) THEN NewGeneration(l.pr, s) ELSE UNCHANGED <<prState, jobVars>>
  /\ processed' = [processed EXCEPT ![o] = SnapshotDecision(l.pr, s)]
  /\ ReleaseReconcileLease(l)
  /\ UNCHANGED <<now, bindings, granted, sourceHandles>>

-----------------------------------------------------------------------------
(* Check Run bindings and rerequests.                                      *)

\* INSERT OR IGNORE; registering another binding for the Check Run is refused.
\* What the caller names is not looked up: the job need not exist, or be of target t.
RegisterCheckBinding(c, p, g, t) ==
  /\ bindings[c] = None
  /\ bindings' = [bindings EXCEPT ![c] = [pr |-> p, gen |-> g, target |-> t]]
  /\ UNCHANGED <<now, prState, jobVars, processed, recLeases, granted, sourceHandles>>

LastAttempt(p, g) ==
  CHOOSE n \in 0..MaxAttempts :
    /\ n > 0 => attempts[p][g][n] # "absent"
    /\ \A i \in (n + 1)..MaxAttempts : attempts[p][g][i] = "absent"

\* The bound job is still the current one, in the store and in the fresh snapshot
\* (t is the snapshot's target, None when it is not eligible).
BindingCurrent(b, t) ==
  /\ prState[b.pr].elig = "eligible"
  /\ prState[b.pr].gen = b.gen
  /\ prState[b.pr].job = b.gen
  /\ prState[b.pr].target = b.target
  /\ t = b.target

\* The binding must be of the installation, external ID and pull request named;
\* the caller's `genuine' stands for the first two.
RerequestDecision(l, c, genuine, t) ==
  IF bindings[c] = None THEN "rerequest-ignored"
  ELSE IF ~genuine \/ bindings[c].pr # l.pr THEN "error"
  ELSE IF ~BindingCurrent(bindings[c], t) THEN "rerequest-ignored"
  ELSE IF LastAttempt(l.pr, bindings[c].gen) + 1 > MaxAttempts THEN "error"
  ELSE "rerequest-created"

ApplyCheckRunRerequest(o, l, c, genuine, t, n) ==
  LET decision == RerequestDecision(l, c, genuine, t) IN
  /\ n <= l.expires
  /\ NotYetProcessed(o)
  /\ decision # "error"
  /\ attempts' = IF decision = "rerequest-created"
                 THEN LET g == bindings[c].gen IN
                      [attempts EXCEPT ![l.pr][g][LastAttempt(l.pr, g) + 1] = "queued"]
                 ELSE attempts
  /\ processed' = [processed EXCEPT ![o] = decision]
  /\ ReleaseReconcileLease(l)
  /\ UNCHANGED <<now, prState, jobs, sources, nextSource, bindings, granted, sourceHandles>>

-----------------------------------------------------------------------------
(* Installation hints and plain decisions: neither takes a reconcile lease. *)

\* The eligible pull requests among those the hint covers (hint = {} when the
\* action does not invalidate anything).
Blocked(hint) == {p \in hint : prState[p].elig = "eligible"}

BlockedRow_KeepsJob(p) ==
  [prState[p] EXCEPT !.gen = @ + 1, !.elig = "installation-blocked"]

BlockedRow(p) ==
  [gen |-> prState[p].gen + 1, elig |-> "installation-blocked", target |-> None, job |-> 0]

ApplyInstallationHint(o, hint) ==
  LET B == Blocked(hint) IN
  /\ NotYetProcessed(o)
  /\ \A p \in B : prState[p].gen < MaxGen
  /\ prState' = [p \in PRs |-> IF p \in B THEN BlockedRow(p) ELSE prState[p]]
  /\ jobs' = [p \in PRs |-> IF p \in B THEN StoppedJobs(p, "cancelled") ELSE jobs[p]]
  /\ attempts' = [p \in PRs |-> IF p \in B THEN StoppedAttempts(p) ELSE attempts[p]]
  /\ sources' = [p \in PRs |-> IF p \in B THEN StoppedSources(p, "cancelled") ELSE sources[p]]
  /\ processed' = [processed EXCEPT ![o] = "installation-hint"]
  /\ UNCHANGED <<now, nextSource, recLeases, bindings, granted, sourceHandles>>

RecordProcessingDecision(o, decision) ==
  /\ NotYetProcessed(o)
  /\ processed' = [processed EXCEPT ![o] = decision]
  /\ UNCHANGED <<now, prState, jobVars, recLeases, bindings, granted, sourceHandles>>

-----------------------------------------------------------------------------
(* Source-import requests.                                                 *)

\* Both sides of the comparison are whole seconds.
SourceClaimable(row) ==
  \/ row.state = "pending"
  \/ row.state = "leased" /\ row.expires <= WholeSecond(now)

\* ORDER BY sequence LIMIT 1: the oldest claimable request.
NextSource(p, g) ==
  /\ SourceClaimable(sources[p][g])
  /\ \A q \in PRs, h \in Gens :
       SourceClaimable(sources[q][h]) => sources[p][g].seq <= sources[q][h].seq

NoLeaseOverflow(row) == row.gen < MaxStoreLeaseGen

ClaimedSource(row, i) ==
  [state |-> "leased", seq |-> row.seq, owner |-> i, gen |-> row.gen + 1,
   expires |-> WholeSecond(now + SourceLease)]

ClaimSourceImports(i, p, g) ==
  /\ SourceLease <= MaxSourceLease
  /\ NextSource(p, g)
  /\ NoLeaseOverflow(sources[p][g])
  /\ sources' = [sources EXCEPT ![p][g] = ClaimedSource(@, i)]
  /\ sourceHandles' = sourceHandles \cup
       {[pr |-> p, job |-> g, owner |-> i, gen |-> sources[p][g].gen + 1]}
  /\ UNCHANGED <<now, prState, jobs, attempts, nextSource, processed, recLeases, bindings, granted>>

HoldsSourceLease_AnyState(h) ==
  sources[h.pr][h.job].owner = h.owner /\ sources[h.pr][h.job].gen = h.gen

\* Owner, lease generation and state 'leased'; not the expiry time.
HoldsSourceLease(h) ==
  /\ sources[h.pr][h.job].state = "leased"
  /\ sources[h.pr][h.job].owner = h.owner
  /\ sources[h.pr][h.job].gen = h.gen

\* The row keeps owner and generation, so the next claim counts on.
FinishedSource(row, next) ==
  [state |-> next, seq |-> row.seq, owner |-> row.owner, gen |-> row.gen, expires |-> 0]

\* finishSourceLease: ReleaseSourceImport ("pending"), AcknowledgeSourceImport ("completed").
FinishSourceLease(h, next) ==
  /\ HoldsSourceLease(h)
  /\ sources' = [sources EXCEPT ![h.pr][h.job] = FinishedSource(@, next)]
  /\ UNCHANGED <<now, prState, jobs, attempts, nextSource, processed, recLeases, bindings,
                 granted, sourceHandles>>

\* UPDATE jobs ... WHERE state='importing-source'
AdvancedJob(row, failed) ==
  IF row.state = "importing-source"
  THEN [row EXCEPT !.state = IF failed THEN "failed" ELSE "awaiting-runner"]
  ELSE row

ApplySourceImportResult(h, failed) ==
  /\ HoldsSourceLease(h)
  /\ sources' = [sources EXCEPT ![h.pr][h.job] =
       FinishedSource(@, IF failed THEN "failed" ELSE "completed")]
  /\ jobs' = [jobs EXCEPT ![h.pr][h.job] = AdvancedJob(@, failed)]
  /\ UNCHANGED <<now, prState, attempts, nextSource, processed, recLeases, bindings,
                 granted, sourceHandles>>

-----------------------------------------------------------------------------
StoreTick == /\ Tick
             /\ UNCHANGED <<prState, jobVars, processed, recLeases, bindings, granted, sourceHandles>>

StoreNext ==
  \/ StoreTick
  \/ \E p \in PRs : AcquireReconcileLease(p)
  \/ \E o \in Deliveries, l \in granted, n \in 0..now : DuplicateProcessed(o, l, n)
  \/ \E o \in Deliveries, l \in granted, s \in Snapshot, n \in 0..now :
       ApplyPullRequestSnapshot(o, l, s, n)
  \/ \E c \in CheckRuns, p \in PRs, g \in Gens, t \in Targets :
       RegisterCheckBinding(c, p, g, t)
  \/ \E o \in Deliveries, l \in granted, c \in CheckRuns, genuine \in BOOLEAN,
        t \in Targets \cup {None}, n \in 0..now :
       ApplyCheckRunRerequest(o, l, c, genuine, t, n)
  \/ \E o \in Deliveries, hint \in SUBSET PRs : ApplyInstallationHint(o, hint)
  \/ \E o \in Deliveries, decision \in {"rerequest-ignored", "legacy-unreconcilable"} :
       RecordProcessingDecision(o, decision)
  \/ \E i \in Ingesters, p \in PRs, g \in Gens : ClaimSourceImports(i, p, g)
  \/ \E h \in sourceHandles, next \in {"pending", "completed"} : FinishSourceLease(h, next)
  \/ \E h \in sourceHandles, failed \in BOOLEAN : ApplySourceImportResult(h, failed)

StoreSpec == StoreInit /\ [][StoreNext]_storeVars

-----------------------------------------------------------------------------
(* Properties.                                                             *)

\* The row of a pull request and its current job agree: an eligible pull
\* request has exactly the job of its own generation, made for its target,
\* and any other has none; no job, attempt or request exists for a generation
\* not reached yet (so the plain INSERT of the next job cannot collide).
CurrentJobMatches ==
  \A p \in PRs :
    /\ prState[p].job = (IF prState[p].elig = "eligible" THEN prState[p].gen ELSE 0)
    /\ prState[p].elig = "eligible" =>
         /\ prState[p].gen > 0
         /\ prState[p].target # None
         /\ jobs[p][prState[p].gen].state # "absent"
         /\ jobs[p][prState[p].gen].target = prState[p].target
    /\ \A g \in Gens : g > prState[p].gen =>
         jobs[p][g] = NoJob /\ sources[p][g] = NoSource /\ attempts[p][g] = NoAttempts

\* Superseded work is stopped as a whole: a job that may still run, an attempt
\* that is still queued and a source request that may still be claimed all
\* belong to the current generation of an eligible pull request.
LiveWorkIsCurrent ==
  \A p \in PRs, g \in Gens :
    \/ prState[p].job = g
    \/ /\ jobs[p][g].state \notin JobLive
       /\ sources[p][g].state \notin SourceOpen
       /\ \A i \in 1..MaxAttempts : attempts[p][g][i] # "queued"

\* A source request is open only while its job waits for it, and a job waits
\* for a runner only once its source request is completed.
SourceDrivesJob ==
  \A p \in PRs, g \in Gens :
    /\ sources[p][g].state \in SourceOpen => jobs[p][g].state = "importing-source"
    /\ jobs[p][g].state = "awaiting-runner" => sources[p][g].state = "completed"

\* Generations of a pull request, and lease generations of a request, never
\* decrease (GITHUB_CONTROLLER.md: generations never decrease).
GenerationsNeverDecrease ==
  [][\A p \in PRs : /\ prState'[p].gen >= prState[p].gen
                    /\ \A g \in Gens : sources'[p][g].gen >= sources[p][g].gen]_storeVars

\* A late result cannot revive work: a job that was stopped or failed, a
\* settled source request and a cancelled attempt stay as they are.
StoppedStaysStopped ==
  [][\A p \in PRs, g \in Gens :
       /\ jobs[p][g].state \in JobTerminal => jobs'[p][g] = jobs[p][g]
       /\ sources[p][g].state \in SourceSettled => sources'[p][g] = sources[p][g]
       /\ \A i \in 1..MaxAttempts :
            attempts[p][g][i] = "cancelled" => attempts'[p][g][i] = "cancelled"]_storeVars

\* A delivery takes effect once: a pull request changes generation, or a job
\* or an attempt is added, only in the transaction that records a delivery not
\* recorded before, and a recorded decision is never rewritten.
EffectOncePerDelivery ==
  [][/\ \A o \in Deliveries : processed[o] # "none" => processed'[o] = processed[o]
     /\ (\/ \E p \in PRs : prState'[p].gen # prState[p].gen
         \/ \E p \in PRs, g \in Gens, i \in 1..MaxAttempts :
              attempts[p][g][i] = "absent" /\ attempts'[p][g][i] # "absent")
        => \E o \in Deliveries : processed[o] = "none" /\ processed'[o] # "none"]_storeVars

\* Attempt numbers of a job are dense: a rerequest neither reuses a number nor
\* skips one (SELECT MAX(attempt_number) and the insert are one transaction).
AttemptsAreDense ==
  \A p \in PRs, g \in Gens :
    \A i \in 1..MaxAttempts :
      attempts[p][g][i] # "absent" =>
        /\ jobs[p][g].state # "absent"
        /\ \A k \in 1..i : attempts[p][g][k] # "absent"
=============================================================================
