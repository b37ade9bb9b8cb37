------------------------ MODULE SourceIngesterProofs ------------------------
(***************************************************************************)
(* The safety properties of SourceIngester, for any number of ingester     *)
(* processes, pull requests and targets, however far an import outlives    *)
(* its lease and however often refs move and processes crash.              *)
(*                                                                         *)
(* The ingester is first shown to be a client of the controller store:     *)
(* each of its steps is a step of ControllerStore, so what is proved of    *)
(* the store holds here.  IngestIInv then joins StoreInv with what         *)
(* the locals of a process promise: the target it copied at the claim is   *)
(* still that of the job, what is staged is that target, and a process     *)
(* about to report success has a store of that target on disk, even when   *)
(* its lease is gone.                                                      *)
(***************************************************************************)
EXTENDS SourceIngester, StoreProofs

ProcRow == [pc : Steps, req : SourceHandle \cup {None}, target : Targets \cup {None},
            staged : Targets \cup {None}]
PublishedRow == [holds : Targets \cup {None}, by : SourceHandle \cup {None}]

\* What the locals r of a process say about its request, given the leases H
\* granted so far, the jobs J and the published stores S.
ProcInv(r, H, J, S) ==
  /\ r \in ProcRow
  /\ r.pc # "idle" =>
       /\ r.req \in H
       /\ r.target \in Targets
       /\ J[r.req.pr][r.req.job].state # "absent"
       /\ J[r.req.pr][r.req.job].target = r.target
  /\ r.pc = "publish" => r.staged = r.target
  /\ r.pc = "apply" => S[<<r.req.pr, r.target>>].holds = r.target

IngestIInv ==
  /\ StoreInv
  /\ pullRef \in [PRs -> Targets]
  /\ stores \in [StoreIDs -> PublishedRow]
  /\ proc \in [Processes -> ProcRow]
  /\ moves \in 0..MaxMoves
  /\ faults \in 0..MaxFaults
  /\ \A x \in Processes : ProcInv(proc[x], sourceHandles, jobs, stores)
  /\ PublishedHoldsTarget
  /\ RunnableHasSource

-----------------------------------------------------------------------------
(* The history of a job: its target never changes, and it is handed to a   *)
(* runner only by a successful import result.                              *)

JobHistory(q, h) ==
  /\ jobs[q][h].state # "absent" =>
       jobs'[q][h].state # "absent" /\ jobs'[q][h].target = jobs[q][h].target
  /\ jobs'[q][h].state = "awaiting-runner" =>
       \/ jobs'[q][h] = jobs[q][h]
       \/ \E k \in sourceHandles :
            k.pr = q /\ k.job = h /\ ApplySourceImportResult(k, FALSE)

\* Stopping a job names a terminal state and keeps the target.
LEMMA StopHistory ==
  ASSUME StoreInv, NEW q \in PRs, NEW h \in Gens, NEW st \in {"superseded", "cancelled"},
         jobs'[q][h] = StoppedJobs(q, st)[h]
  PROVE  JobHistory(q, h)
<1>1. StoreTypeOK
  BY DEF StoreInv
<1>2. /\ StoppedJobs(q, st)[h].target = jobs[q][h].target
      /\ StoppedJobs(q, st)[h].state =
           IF h = prState[q].job /\ jobs[q][h].state \notin JobTerminal
           THEN st ELSE jobs[q][h].state
  BY <1>1, StopRows
<1>3. /\ StoppedJobs(q, st)[h].state \notin JobLive
      /\ StoppedJobs(q, st)[h].state = "absent" <=> jobs[q][h].state = "absent"
  BY StopInv
<1> QED
  BY <1>2, <1>3 DEF JobHistory, JobLive

LEMMA NewGenerationHistory ==
  ASSUME StoreInv, NEW p \in PRs, NEW s \in Snapshot, NewGeneration(p, s),
         NEW q \in PRs, NEW h \in Gens
  PROVE  JobHistory(q, h)
<1> DEFINE g == prState[p].gen + 1
<1>1. StoreTypeOK /\ prState[p].gen \in Nat /\ g \in Gens
  BY RowTypes, NewGenerationRows DEF StoreInv
<1>2. CASE q # p
  <2>1. jobs'[q] = jobs[q]
    BY <1>1, <1>2, NewGenerationRows
  <2> QED
    BY <2>1 DEF JobHistory
<1>3. CASE q = p /\ (h # g \/ ~Schedules(p, s))
  <2>1. \A k \in Gens : k # g \/ ~Schedules(p, s) =>
          jobs'[p][k] = StoppedJobs(p, "superseded")[k]
    BY <1>1, NewGenerationRows
  <2> HIDE DEF g
  <2> QED
    BY <1>3, <2>1, StopHistory
<1>4. CASE q = p /\ h = g /\ Schedules(p, s)
  <2>1. jobs'[p][g] = [state |-> "importing-source", target |-> s.target]
    BY <1>1, <1>4, NewGenerationRows
  <2>2. jobs[p][g] = NoJob
    BY <1>1 DEF StoreInv, CurrentJobMatches
  <2> HIDE DEF g
  <2> QED
    BY <1>4, <2>1, <2>2 DEF JobHistory, NoJob
<1> QED
  BY <1>2, <1>3, <1>4

LEMMA JobHistoryStep ==
  ASSUME StoreInv, [StoreNext]_storeVars, NEW q \in PRs, NEW h \in Gens
  PROVE  JobHistory(q, h)
<1>1. StoreTypeOK
  BY DEF StoreInv
<1>2. CASE jobs'[q][h] = jobs[q][h]
  BY <1>2 DEF JobHistory
<1>3. ASSUME NEW o \in Deliveries, NEW l \in granted, NEW s \in Snapshot, NEW n \in 0..now,
             ApplyPullRequestSnapshot(o, l, s, n)
      PROVE  JobHistory(q, h)
  <2>1. l.pr \in PRs
    BY <1>1 DEF StoreTypeOK, ReconcileHandle
  <2>2. NewGeneration(l.pr, s) \/ jobs' = jobs
    BY <1>3 DEF ApplyPullRequestSnapshot, jobVars
  <2> QED
    BY <1>2, <2>1, <2>2, NewGenerationHistory
<1>4. ASSUME NEW o \in Deliveries, NEW hint \in SUBSET PRs, ApplyInstallationHint(o, hint)
      PROVE  JobHistory(q, h)
  <2>1. jobs'[q] = IF q \in Blocked(hint) THEN StoppedJobs(q, "cancelled") ELSE jobs[q]
    BY <1>4 DEF ApplyInstallationHint
  <2> QED
    BY <1>2, <2>1, StopHistory
<1>5. ASSUME NEW k \in sourceHandles, NEW failed \in BOOLEAN, ApplySourceImportResult(k, failed)
      PROVE  JobHistory(q, h)
  <2>1. k.pr \in PRs /\ k.job \in Gens
    BY <1>1 DEF StoreTypeOK, SourceHandle
  <2>2. jobs' = [jobs EXCEPT ![k.pr][k.job] = AdvancedJob(jobs[k.pr][k.job], failed)]
    BY <1>5 DEF ApplySourceImportResult
  <2>3. CASE q # k.pr \/ h # k.job
    <3>1. jobs'[q][h] = jobs[q][h]
      BY <1>1, <2>1, <2>2, <2>3 DEF StoreTypeOK
    <3> QED
      BY <1>2, <3>1
  <2>4. CASE q = k.pr /\ h = k.job
    <3>1. jobs'[q][h] = AdvancedJob(jobs[q][h], failed) /\ jobs[q][h] \in JobRow
      BY <1>1, <2>1, <2>2, <2>4 DEF StoreTypeOK
    <3>2. CASE failed
      BY <3>1, <3>2 DEF JobHistory, AdvancedJob, JobRow
    <3>3. CASE ~failed
      <4>1. ApplySourceImportResult(k, FALSE)
        BY <1>5, <3>3
      <4>2. jobs[q][h].state # "absent" =>
              jobs'[q][h].state # "absent" /\ jobs'[q][h].target = jobs[q][h].target
        BY <3>1, <3>3 DEF AdvancedJob, JobRow
      <4> QED
        BY <2>4, <4>1, <4>2 DEF JobHistory
    <3> QED
      BY <3>2, <3>3
  <2> QED
    BY <2>3, <2>4
<1>6. CASE jobs' = jobs
  BY <1>2, <1>6
<1> QED
  BY <1>3, <1>4, <1>5, <1>6, ZenonT(60)
  DEF StoreNext, storeVars, StoreTick, AcquireReconcileLease, DuplicateProcessed,
      RegisterCheckBinding, RecordProcessingDecision, ApplyCheckRunRerequest,
      ClaimSourceImports, FinishSourceLease, jobVars

-----------------------------------------------------------------------------
(* The ingester is a client of the controller store.                       *)

\* The types a step may rely on.
LEMMA ProcFacts ==
  ASSUME IngestIInv, NEW x \in Processes
  PROVE  /\ proc[x] \in ProcRow
         /\ proc[x].pc # "idle" =>
              /\ proc[x].req \in sourceHandles /\ proc[x].req \in SourceHandle
              /\ proc[x].req.pr \in PRs /\ proc[x].req.job \in Gens
              /\ proc[x].target \in Targets
              /\ StoreID(x) \in StoreIDs
<1>1. ProcInv(proc[x], sourceHandles, jobs, stores) /\ sourceHandles \subseteq SourceHandle
  BY DEF IngestIInv, StoreInv, StoreTypeOK
<1>2. proc[x].pc # "idle" => /\ proc[x].req \in sourceHandles /\ proc[x].req \in SourceHandle
                             /\ proc[x].target \in Targets
  BY <1>1 DEF ProcInv
<1>3. proc[x].pc # "idle" => proc[x].req.pr \in PRs /\ proc[x].req.job \in Gens
  BY <1>2 DEF SourceHandle
<1> QED
  BY <1>1, <1>2, <1>3 DEF ProcInv, StoreID, StoreIDs

LEMMA IngestStepIsStoreStep ==
  ASSUME IngestIInv, [IngestNext]_ingestVars
  PROVE  [StoreNext]_storeVars
<1>1. CASE UNCHANGED <<now, dbOnly>>
  BY <1>1 DEF dbOnly, storeVars
<1>2. CASE IngestTick
  BY <1>2 DEF IngestTick, StoreNext, StoreTick, dbOnly, jobVars
<1>3. CASE ControllerStep
  <2>1. ASSUME NEW o \in Deliveries, NEW l \in granted, NEW t \in Targets \cup {None},
               ApplyPullRequestSnapshot(o, l, ShownAs(t), now)
        PROVE  StoreNext
    <3>1. ShownAs(t) \in Snapshot
      BY DEF ShownAs, Snapshot
    <3>2. now \in 0..now
      BY DEF IngestIInv, StoreInv, StoreTypeOK, ClockTypeOK
    <3> QED
      BY <2>1, <3>1, <3>2 DEF StoreNext
  <2>2. ASSUME NEW o \in Deliveries, NEW p \in PRs, ApplyInstallationHint(o, {p})
        PROVE  StoreNext
    <3>1. {p} \in SUBSET PRs
      OBVIOUS
    <3> QED
      BY <2>2, <3>1 DEF StoreNext
  <2>3. ASSUME NEW p \in PRs, AcquireReconcileLease(p)
        PROVE  StoreNext
    BY <2>3 DEF StoreNext
  <2> QED
    BY <1>3, <2>1, <2>2, <2>3 DEF ControllerStep
<1>4. ASSUME NEW x \in Processes, Claim(x)
      PROVE  StoreNext
  BY <1>4 DEF Claim, StoreNext
<1>5. ASSUME NEW x \in Processes, Apply(x)
      PROVE  [StoreNext]_storeVars
  <2>1. proc[x].req \in sourceHandles
    BY <1>5, ProcFacts DEF Apply
  <2>2. ApplySourceImportResult(proc[x].req, FALSE) \/ UNCHANGED <<now, dbOnly>>
    BY <1>5 DEF Apply
  <2> QED
    BY <1>1, <2>1, <2>2 DEF StoreNext
<1>6. ASSUME NEW x \in Processes, Release(x)
      PROVE  [StoreNext]_storeVars
  <2>1. proc[x].req \in sourceHandles
    BY <1>6, ProcFacts DEF Release
  <2>2. FinishSourceLease(proc[x].req, "pending") \/ UNCHANGED <<now, dbOnly>>
    BY <1>6 DEF Release
  <2> QED
    BY <1>1, <2>1, <2>2 DEF StoreNext
<1>7. ASSUME NEW x \in Processes,
             ReuseIfAvailable(x) \/ Import(x) \/ Publish(x) \/ ImportFails(x) \/ Crash(x)
      PROVE  UNCHANGED <<now, dbOnly>>
  BY <1>7 DEF ReuseIfAvailable, Import, Publish, ImportFails, Crash
<1>8. ASSUME NEW p \in PRs, NEW t \in Targets, RefMoves(p, t)
      PROVE  UNCHANGED <<now, dbOnly>>
  BY <1>8 DEF RefMoves
<1>9. UNCHANGED ingestVars => UNCHANGED <<now, dbOnly>>
  BY DEF ingestVars
<1> QED
  BY <1>1, <1>2, <1>3, <1>4, <1>5, <1>6, <1>7, <1>8, <1>9 DEF IngestNext, ProcessStep

-----------------------------------------------------------------------------
(* The inductive invariant.                                                *)

\* A process that is idle promises nothing.
LEMMA IdleIsFine ==
  ASSUME NEW H, NEW J, NEW S
  PROVE  IdleProc \in ProcRow /\ ProcInv(IdleProc, H, J, S)
BY DEF IdleProc, ProcInv, ProcRow, Steps

LEMMA IngestInitInv == IngestInit => IngestIInv
<1> SUFFICES ASSUME IngestInit PROVE IngestIInv
  OBVIOUS
<1>1. StoreInv
  BY StoreInitInv DEF IngestInit
<1>2. /\ pullRef \in [PRs -> Targets] /\ moves \in 0..MaxMoves /\ faults \in 0..MaxFaults
      /\ stores \in [StoreIDs -> PublishedRow] /\ \A k \in StoreIDs : stores[k] = NoStore
  BY SourceIngesterAssumption DEF IngestInit, PublishedRow, NoStore
<1>3. proc \in [Processes -> ProcRow]
      /\ \A x \in Processes : ProcInv(proc[x], sourceHandles, jobs, stores)
  BY IdleIsFine DEF IngestInit
<1>4. \A p \in PRs, g \in Gens : jobs[p][g].state = "absent"
  BY DEF IngestInit, StoreInit, NoJob
<1> QED
  BY <1>1, <1>2, <1>3, <1>4 DEF IngestIInv, PublishedHoldsTarget, RunnableHasSource

\* A process whose locals do not change keeps its promises: leases are never
\* forgotten, jobs keep their targets, published stores stay.
LEMMA ProcKept ==
  ASSUME IngestIInv, [StoreNext]_storeVars, NEW r, ProcInv(r, sourceHandles, jobs, stores),
         \A k \in StoreIDs : stores[k] # NoStore => stores'[k] = stores[k]
  PROVE  ProcInv(r, sourceHandles', jobs', stores')
<1>1. sourceHandles \subseteq sourceHandles'
  BY ZenonT(60) DEF StoreNext, storeVars, StoreTick, AcquireReconcileLease, DuplicateProcessed,
         RegisterCheckBinding, RecordProcessingDecision, ApplyCheckRunRerequest,
         ApplyPullRequestSnapshot, ApplyInstallationHint,
         ClaimSourceImports, FinishSourceLease, ApplySourceImportResult
<1>2. CASE r.pc = "idle"
  BY <1>2 DEF ProcInv
<1>3. CASE r.pc # "idle"
  <2>1. r.req \in SourceHandle /\ r.target \in Targets
    BY <1>3 DEF ProcInv, IngestIInv, StoreInv, StoreTypeOK
  <2>2. r.req.pr \in PRs /\ r.req.job \in Gens
    BY <2>1 DEF SourceHandle
  <2>3. StoreInv
    BY DEF IngestIInv
  <2>4. JobHistory(r.req.pr, r.req.job)
    BY <2>2, <2>3, JobHistoryStep
  <2>5. r.pc = "apply" => stores'[<<r.req.pr, r.target>>].holds = r.target
    <3>1. <<r.req.pr, r.target>> \in StoreIDs
      BY <2>1, <2>2 DEF StoreIDs
    <3>2. NoStore.holds # r.target
      BY <2>1, ControllerStoreAssumption DEF NoStore
    <3> QED
      BY <3>1, <3>2 DEF ProcInv
  <2> QED
    BY <1>1, <1>3, <2>4, <2>5 DEF ProcInv, JobHistory
<1> QED
  BY <1>2, <1>3

\* One process moves to the locals n; the others stay.
LEMMA OneProc ==
  ASSUME IngestIInv, [StoreNext]_storeVars, NEW x \in Processes, NEW n,
         \A k \in StoreIDs : stores[k] # NoStore => stores'[k] = stores[k],
         proc' = [proc EXCEPT ![x] = n], ProcInv(n, sourceHandles', jobs', stores')
  PROVE  /\ proc' \in [Processes -> ProcRow]
         /\ \A y \in Processes : ProcInv(proc'[y], sourceHandles', jobs', stores')
<1>1. proc \in [Processes -> ProcRow] /\ n \in ProcRow
  BY DEF IngestIInv, ProcInv
<1>2. ASSUME NEW y \in Processes, y # x
      PROVE  proc'[y] = proc[y] /\ ProcInv(proc[y], sourceHandles, jobs, stores)
  BY <1>1, <1>2 DEF IngestIInv
<1>3. ASSUME NEW y \in Processes
      PROVE  ProcInv(proc'[y], sourceHandles', jobs', stores')
  BY <1>1, <1>2, <1>3, ProcKept
<1> QED
  BY <1>1, <1>3

\* Only the program counter moves, to a step whose promise already holds.
LEMMA GotoInv ==
  ASSUME IngestIInv, NEW x \in Processes, proc[x].pc # "idle",
         NEW c \in {"import", "apply", "release"},
         c = "apply" => stores[StoreID(x)].holds = proc[x].target
  PROVE  ProcInv([proc[x] EXCEPT !.pc = c], sourceHandles, jobs, stores)
<1> DEFINE n == [proc[x] EXCEPT !.pc = c]
<1>1. ProcInv(proc[x], sourceHandles, jobs, stores)
  BY DEF IngestIInv
<1>2. /\ n \in ProcRow /\ n.pc = c /\ n.req = proc[x].req /\ n.target = proc[x].target
      /\ n.staged = proc[x].staged
  BY <1>1 DEF ProcInv, ProcRow, Steps
<1> HIDE DEF n
<1>3. ProcInv(n, sourceHandles, jobs, stores)
  BY <1>1, <1>2 DEF ProcInv, StoreID
<1> QED
  BY <1>3 DEF n

\* openExisting, under a store that is there.
LEMMA OpenExistingInv ==
  ASSUME IngestIInv, NEW x \in Processes, proc[x].pc # "idle", OpenExisting(x)
  PROVE  \E n : proc' = [proc EXCEPT ![x] = n] /\ ProcInv(n, sourceHandles, jobs, stores)
<1> DEFINE c == IF Verified(stores[StoreID(x)].holds, proc[x].target) THEN "apply" ELSE "release"
<1>1. proc' = [proc EXCEPT ![x].pc = c]
  BY DEF OpenExisting, Goto
<1>2. c \in {"import", "apply", "release"} /\ (c = "apply" => stores[StoreID(x)].holds = proc[x].target)
  BY DEF Verified
<1> HIDE DEF c
<1>3. proc' = [proc EXCEPT ![x] = [proc[x] EXCEPT !.pc = c]]
  BY <1>1 DEF IngestIInv
<1>4. ProcInv([proc[x] EXCEPT !.pc = c], sourceHandles, jobs, stores)
  BY <1>2, GotoInv
<1> QED
  BY <1>3, <1>4

\* A step of a process that publishes nothing and leaves the database alone.
LEMMA QuietStep ==
  ASSUME IngestIInv, NEW x \in Processes, ReuseIfAvailable(x) \/ Import(x) \/ ImportFails(x)
  PROVE  \E n : proc' = [proc EXCEPT ![x] = n] /\ ProcInv(n, sourceHandles, jobs, stores)
<1>1. ASSUME proc[x].pc # "idle", NEW c \in {"import", "release"}, Goto(x, c)
      PROVE  \E n : proc' = [proc EXCEPT ![x] = n] /\ ProcInv(n, sourceHandles, jobs, stores)
  <2>1. proc' = [proc EXCEPT ![x] = [proc[x] EXCEPT !.pc = c]]
    BY <1>1 DEF IngestIInv, Goto
  <2>2. ProcInv([proc[x] EXCEPT !.pc = c], sourceHandles, jobs, stores)
    BY <1>1, GotoInv
  <2> QED
    BY <2>1, <2>2
<1>2. CASE ReuseIfAvailable(x)
  BY <1>1, <1>2, OpenExistingInv DEF ReuseIfAvailable
<1>3. CASE ImportFails(x)
  BY <1>1, <1>3 DEF ImportFails
<1>4. CASE Import(x)
  <2> DEFINE content == pullRef[proc[x].req.pr]
             n == [proc[x] EXCEPT !.pc = "publish", !.staged = content]
  <2>1. CASE proc' = [proc EXCEPT ![x].pc = "publish", ![x].staged = content]
             /\ Verified(content, proc[x].target)
    <3>1. ProcInv(proc[x], sourceHandles, jobs, stores) /\ proc[x].pc # "idle"
      BY <1>4 DEF IngestIInv, Import
    <3>2. content = proc[x].target /\ content \in Targets
      BY <2>1, <3>1, ProcFacts DEF Verified
    <3>3. proc' = [proc EXCEPT ![x] = n]
      BY <2>1 DEF IngestIInv
    <3>4. /\ n \in ProcRow /\ n.pc = "publish" /\ n.req = proc[x].req /\ n.target = proc[x].target
          /\ n.staged = proc[x].target
      BY <3>1, <3>2 DEF ProcInv, ProcRow, Steps
    <3> HIDE DEF n
    <3>5. ProcInv(n, sourceHandles, jobs, stores)
      BY <3>1, <3>4 DEF ProcInv
    <3> QED
      BY <3>3, <3>5
  <2>2. \/ OpenExisting(x) \/ Goto(x, "release")
        \/ /\ proc' = [proc EXCEPT ![x].pc = "publish", ![x].staged = content]
           /\ Verified(content, proc[x].target)
    BY <1>4 DEF Import
  <2>3. proc[x].pc # "idle"
    BY <1>4 DEF Import
  <2> HIDE DEF content, n
  <2> QED
    BY <1>1, <2>1, <2>2, <2>3, OpenExistingInv
<1> QED
  BY <1>2, <1>3, <1>4

\* What a step may do to the published stores and to the locals.
StoresStay == \A k \in StoreIDs : stores[k] # NoStore => stores'[k] = stores[k]
ProcsFine ==
  /\ proc' \in [Processes -> ProcRow]
  /\ \A y \in Processes : ProcInv(proc'[y], sourceHandles', jobs', stores')

\* The rename creates a store, and only where there is none.
LEMMA PublishInv ==
  ASSUME IngestIInv, [StoreNext]_storeVars, NEW x \in Processes, Publish(x)
  PROVE  StoresStay /\ stores' \in [StoreIDs -> PublishedRow] /\ PublishedHoldsTarget' /\ ProcsFine
<1>1. proc[x].pc = "publish" /\ UNCHANGED <<sourceHandles, jobs>>
  BY DEF Publish, dbOnly
<1>2. /\ ProcInv(proc[x], sourceHandles, jobs, stores) /\ proc[x] \in ProcRow
      /\ proc[x].req \in SourceHandle /\ proc[x].target \in Targets /\ StoreID(x) \in StoreIDs
  BY <1>1, ProcFacts DEF IngestIInv
<1>3. CASE Exists(x)
  <2>1. OpenExisting(x) /\ stores' = stores
    BY <1>3 DEF Publish
  <2>2. PICK n : proc' = [proc EXCEPT ![x] = n] /\ ProcInv(n, sourceHandles, jobs, stores)
    BY <1>1, <2>1, OpenExistingInv
  <2>3. StoresStay /\ stores' \in [StoreIDs -> PublishedRow] /\ PublishedHoldsTarget'
    BY <2>1 DEF IngestIInv, StoresStay, PublishedHoldsTarget
  <2>4. ProcInv(n, sourceHandles', jobs', stores')
    BY <1>1, <2>1, <2>2
  <2> QED
    BY <2>2, <2>3, <2>4, OneProc DEF StoresStay, ProcsFine
<1>4. CASE ~Exists(x)
  <2> DEFINE row == [holds |-> proc[x].staged, by |-> proc[x].req]
             n == [proc[x] EXCEPT !.pc = "apply"]
  <2>1. stores' = [stores EXCEPT ![StoreID(x)] = row] /\ proc' = [proc EXCEPT ![x].pc = "apply"]
    BY <1>4 DEF Publish, Goto
  <2>2. proc[x].staged = proc[x].target
    BY <1>1, <1>2 DEF ProcInv
  <2>3. row \in PublishedRow /\ row.holds = proc[x].target
    BY <1>2, <2>2 DEF PublishedRow
  <2>4. proc' = [proc EXCEPT ![x] = n]
    BY <2>1 DEF IngestIInv
  <2>5. n \in ProcRow /\ n.pc = "apply" /\ n.req = proc[x].req /\ n.target = proc[x].target
    BY <1>2 DEF ProcRow, Steps
  <2> HIDE DEF row, n
  <2>6. /\ stores' \in [StoreIDs -> PublishedRow] /\ stores'[StoreID(x)] = row
        /\ \A k \in StoreIDs : k # StoreID(x) => stores'[k] = stores[k]
    BY <1>2, <2>1, <2>3 DEF IngestIInv
  <2>7. StoresStay
    BY <1>4, <2>6 DEF StoresStay, Exists
  <2>8. PublishedHoldsTarget'
    <3>1. StoreID(x)[2] = proc[x].target
      BY DEF StoreID
    <3>2. \A k \in StoreIDs : stores'[k] # NoStore => stores'[k].holds = k[2]
      BY <2>3, <2>6, <3>1 DEF IngestIInv, PublishedHoldsTarget
    <3> QED
      BY <3>2 DEF PublishedHoldsTarget, NoStore
  <2>9. ProcInv(n, sourceHandles', jobs', stores')
    <3>1. stores'[<<n.req.pr, n.target>>].holds = n.target
      BY <2>3, <2>5, <2>6 DEF StoreID
    <3> QED
      BY <1>1, <1>2, <2>5, <3>1 DEF ProcInv
  <2> QED
    BY <2>4, <2>6, <2>7, <2>8, <2>9, OneProc DEF StoresStay, ProcsFine
<1> QED
  BY <1>3, <1>4

\* A claim copies the target of a job that exists.
LEMMA ProcClaimInv ==
  ASSUME IngestIInv, [StoreNext]_storeVars, NEW x \in Processes, Claim(x)
  PROVE  ProcsFine
<1>1. PICK i \in Ingesters, p \in PRs, g \in Gens :
        /\ ClaimSourceImports(i, p, g)
        /\ proc' = [proc EXCEPT ![x] =
             [pc |-> "check", target |-> jobs[p][g].target, staged |-> None,
              req |-> [pr |-> p, job |-> g, owner |-> i, gen |-> sources[p][g].gen + 1]]]
  BY DEF Claim
<1> DEFINE h == [pr |-> p, job |-> g, owner |-> i, gen |-> sources[p][g].gen + 1]
           n == [pc |-> "check", target |-> jobs[p][g].target, staged |-> None, req |-> h]
<1>2. stores' = stores /\ jobs' = jobs /\ h \in sourceHandles'
  BY <1>1 DEF Claim, ClaimSourceImports
<1>3. sources[p][g].state \in SourceOpen
  BY <1>1 DEF ClaimSourceImports, NextSource, SourceClaimable, SourceOpen
<1>4. jobs[p][g].state # "absent" /\ jobs[p][g].target \in Targets
  BY <1>3 DEF IngestIInv, StoreInv, SourceDrivesJob, JobsHaveTargets
<1>5. h \in SourceHandle /\ h.pr = p /\ h.job = g
  <2>1. StoreInv'
    BY StoreStepInv DEF IngestIInv
  <2> QED
    BY <1>2, <2>1 DEF StoreInv, StoreTypeOK
<1> HIDE DEF h
<1>6. /\ n \in ProcRow /\ n.pc = "check" /\ n.req = h /\ n.target = jobs[p][g].target
  BY <1>4, <1>5 DEF ProcRow, Steps
<1>7. proc' = [proc EXCEPT ![x] = n]
  BY <1>1 DEF h
<1> HIDE DEF n
<1>8. ProcInv(n, sourceHandles', jobs', stores')
  BY <1>2, <1>4, <1>5, <1>6 DEF ProcInv
<1> QED
  BY <1>2, <1>7, <1>8, OneProc DEF ProcsFine

\* Every step keeps the published stores and the promises of every process.
LEMMA ProcsStep ==
  ASSUME IngestIInv, [StoreNext]_storeVars, [IngestNext]_ingestVars
  PROVE  StoresStay /\ stores' \in [StoreIDs -> PublishedRow] /\ PublishedHoldsTarget' /\ ProcsFine
<1>1. CASE stores' = stores /\ ProcsFine
  BY <1>1 DEF StoresStay, IngestIInv, PublishedHoldsTarget
<1>2. CASE UNCHANGED <<stores, proc>>
  <2>1. ASSUME NEW y \in Processes
        PROVE  ProcInv(proc'[y], sourceHandles', jobs', stores')
    BY <1>2, ProcKept DEF IngestIInv
  <2> QED
    BY <1>1, <1>2, <2>1 DEF ProcsFine, IngestIInv
<1>3. ASSUME NEW x \in Processes, ReuseIfAvailable(x) \/ Import(x) \/ ImportFails(x)
      PROVE  stores' = stores /\ ProcsFine
  <2>1. PICK n : proc' = [proc EXCEPT ![x] = n] /\ ProcInv(n, sourceHandles, jobs, stores)
    BY <1>3, QuietStep
  <2>2. UNCHANGED <<sourceHandles, jobs, stores>>
    BY <1>3 DEF ReuseIfAvailable, Import, ImportFails, dbOnly
  <2> QED
    BY <2>1, <2>2, OneProc DEF ProcsFine
<1>4. ASSUME NEW x \in Processes, Apply(x) \/ Release(x) \/ Crash(x)
      PROVE  stores' = stores /\ ProcsFine
  <2>1. stores' = stores /\ proc' = [proc EXCEPT ![x] = IdleProc]
    BY <1>4 DEF Apply, Release, Crash
  <2>2. ProcInv(IdleProc, sourceHandles', jobs', stores')
    BY IdleIsFine
  <2> QED
    BY <2>1, <2>2, OneProc DEF ProcsFine
<1>5. ASSUME NEW x \in Processes, Claim(x)
      PROVE  stores' = stores /\ ProcsFine
  BY <1>5, ProcClaimInv DEF Claim
<1>6. ASSUME NEW x \in Processes, Publish(x)
      PROVE  StoresStay /\ stores' \in [StoreIDs -> PublishedRow] /\ PublishedHoldsTarget' /\ ProcsFine
  BY <1>6, PublishInv
<1>7. ASSUME NEW p \in PRs, NEW t \in Targets, RefMoves(p, t)
      PROVE  UNCHANGED <<stores, proc>>
  BY <1>7 DEF RefMoves
<1>8. IngestTick \/ ControllerStep \/ UNCHANGED ingestVars => UNCHANGED <<stores, proc>>
  BY DEF IngestTick, ControllerStep, ingestVars
<1> QED
  BY <1>1, <1>2, <1>3, <1>4, <1>5, <1>6, <1>7, <1>8 DEF IngestNext, ProcessStep

\* A job becomes runnable only by Apply, whose process has the store on disk.
LEMMA RunnableStep ==
  ASSUME IngestIInv, [StoreNext]_storeVars, [IngestNext]_ingestVars, StoreInv', StoresStay
  PROVE  RunnableHasSource'
<1> SUFFICES ASSUME NEW p \in PRs, NEW g \in Gens, jobs'[p][g].state = "awaiting-runner"
             PROVE  /\ stores'[<<p, jobs'[p][g].target>>].holds = jobs'[p][g].target
                    /\ sources'[p][g].state = "completed"
  BY DEF RunnableHasSource
<1>1. sources'[p][g].state = "completed"
  BY DEF StoreInv, SourceDrivesJob
<1>2. /\ StoreInv /\ JobHistory(p, g)
      /\ jobs'[p][g].target \in Targets /\ <<p, jobs'[p][g].target>> \in StoreIDs
  BY JobHistoryStep DEF IngestIInv, StoreInv, JobsHaveTargets, StoreIDs
<1>3. ASSUME NEW t \in Targets, stores[<<p, t>>].holds = t
      PROVE  stores'[<<p, t>>].holds = t
  <2>1. <<p, t>> \in StoreIDs /\ NoStore.holds # t
    BY ControllerStoreAssumption DEF StoreIDs, NoStore
  <2> QED
    BY <1>3, <2>1 DEF StoresStay
<1>4. CASE jobs'[p][g] = jobs[p][g]
  BY <1>1, <1>2, <1>3, <1>4 DEF IngestIInv, RunnableHasSource
<1>5. ASSUME NEW x \in Processes, Apply(x), HoldsSourceLease(proc[x].req)
      PROVE  jobs'[p][g] = jobs[p][g] \/ stores[<<p, jobs'[p][g].target>>].holds = jobs'[p][g].target
  <2> DEFINE r == proc[x]
  <2>1. /\ jobs' = [jobs EXCEPT ![r.req.pr][r.req.job] = AdvancedJob(jobs[r.req.pr][r.req.job], FALSE)]
        /\ r.pc = "apply"
    BY <1>5 DEF Apply, ApplySourceImportResult
  <2>2. /\ r.req.pr \in PRs /\ r.req.job \in Gens
        /\ jobs[r.req.pr][r.req.job].state # "absent"
        /\ jobs[r.req.pr][r.req.job].target = r.target
        /\ stores[<<r.req.pr, r.target>>].holds = r.target
    BY <2>1, ProcFacts DEF IngestIInv, ProcInv
  <2> HIDE DEF r
  <2>3. CASE p = r.req.pr /\ g = r.req.job
    <3>1. jobs'[p][g].target = r.target
      BY <1>2, <2>2, <2>3 DEF JobHistory
    <3> QED
      BY <2>2, <2>3, <3>1
  <2>4. CASE p # r.req.pr \/ g # r.req.job
    BY <1>2, <2>1, <2>2, <2>4 DEF StoreInv, StoreTypeOK
  <2> QED
    BY <2>3, <2>4
<1>6. CASE ControllerStep
  <2>1. CASE \E q \in PRs : AcquireReconcileLease(q)
    BY <1>1, <1>4, <2>1 DEF AcquireReconcileLease, jobVars
  <2>2. ASSUME NEW o \in Deliveries, NEW d \in Decisions, NotYetProcessed(o),
               processed' = [processed EXCEPT ![o] = d]
        PROVE  processed' # processed
    <3>1. processed[o] = "none" /\ processed'[o] = d /\ d # "none"
      BY <1>2, <2>2 DEF StoreInv, StoreTypeOK, NotYetProcessed, Decisions
    <3> QED
      BY <3>1
  <2>3. ASSUME NEW o \in Deliveries, NEW l \in granted, NEW t \in Targets \cup {None},
               ApplyPullRequestSnapshot(o, l, ShownAs(t), now)
        PROVE  processed' # processed
    <3>1. SnapshotDecision(l.pr, ShownAs(t)) \in Decisions
      BY DEF SnapshotDecision, Decisions
    <3> QED
      BY <2>2, <2>3, <3>1 DEF ApplyPullRequestSnapshot
  <2>4. ASSUME NEW o \in Deliveries, NEW q \in PRs, ApplyInstallationHint(o, {q})
        PROVE  processed' # processed
    <3>1. "installation-hint" \in Decisions
      BY DEF Decisions
    <3> QED
      BY <2>2, <2>4, <3>1 DEF ApplyInstallationHint
  <2>5. CASE processed' # processed
    <3>1. \A k : ~ApplySourceImportResult(k, FALSE)
      BY <2>5 DEF ApplySourceImportResult
    <3> QED
      BY <1>1, <1>2, <1>4, <3>1 DEF JobHistory
  <2> QED
    BY <1>6, <2>1, <2>3, <2>4, <2>5 DEF ControllerStep
<1>7. ASSUME NEW x \in Processes,
             \/ Claim(x) \/ ReuseIfAvailable(x) \/ Import(x) \/ Publish(x) \/ Release(x)
             \/ ImportFails(x) \/ Crash(x)
             \/ Apply(x) /\ ~HoldsSourceLease(proc[x].req)
      PROVE  jobs' = jobs
  BY <1>7 DEF Claim, ClaimSourceImports, ReuseIfAvailable, Import, Publish, Release,
              FinishSourceLease, ImportFails, Crash, Apply, dbOnly
<1>8. ASSUME NEW q \in PRs, NEW t \in Targets, RefMoves(q, t)
      PROVE  jobs' = jobs
  BY <1>8 DEF RefMoves, dbOnly
<1>9. IngestTick \/ UNCHANGED ingestVars => jobs' = jobs
  BY DEF IngestTick, ingestVars, dbOnly
<1>10. CASE jobs' = jobs
  BY <1>4, <1>10
<1> QED
  BY <1>1, <1>2, <1>3, <1>4, <1>5, <1>6, <1>7, <1>8, <1>9, <1>10 DEF IngestNext, ProcessStep

LEMMA IngestStepInv == IngestIInv /\ [IngestNext]_ingestVars => IngestIInv'
<1> SUFFICES ASSUME IngestIInv, [IngestNext]_ingestVars PROVE IngestIInv'
  OBVIOUS
<1>1. [StoreNext]_storeVars
  BY IngestStepIsStoreStep
<1>2. StoreInv'
  BY <1>1, StoreStepInv DEF IngestIInv
<1>3. StoresStay /\ stores' \in [StoreIDs -> PublishedRow] /\ PublishedHoldsTarget' /\ ProcsFine
  BY <1>1, ProcsStep
<1>4. RunnableHasSource'
  BY <1>1, <1>2, <1>3, RunnableStep
<1>5. pullRef' \in [PRs -> Targets] /\ moves' \in 0..MaxMoves /\ faults' \in 0..MaxFaults
  <2>1. /\ pullRef \in [PRs -> Targets] /\ moves \in 0..MaxMoves /\ faults \in 0..MaxFaults
        /\ MaxMoves \in Nat /\ MaxFaults \in Nat
    BY SourceIngesterAssumption DEF IngestIInv
  <2>2. CASE UNCHANGED <<pullRef, moves, faults>>
    BY <2>1, <2>2
  <2>3. ASSUME NEW p \in PRs, NEW t \in Targets, RefMoves(p, t)
        PROVE  pullRef' \in [PRs -> Targets] /\ moves' \in 0..MaxMoves /\ faults' \in 0..MaxFaults
    BY <2>1, <2>3 DEF RefMoves
  <2>4. ASSUME NEW x \in Processes, ImportFails(x) \/ Crash(x)
        PROVE  pullRef' \in [PRs -> Targets] /\ moves' \in 0..MaxMoves /\ faults' \in 0..MaxFaults
    BY <2>1, <2>4 DEF ImportFails, Crash
  <2>5. ASSUME NEW x \in Processes, ProcessStep(x)
        PROVE  UNCHANGED <<pullRef, moves, faults>>
    BY <2>5 DEF ProcessStep, Claim, ReuseIfAvailable, Import, Publish, Apply, Release
  <2>6. IngestTick \/ ControllerStep \/ UNCHANGED ingestVars => UNCHANGED <<pullRef, moves, faults>>
    BY DEF IngestTick, ControllerStep, ingestVars
  <2> QED
    BY <2>2, <2>3, <2>4, <2>5, <2>6 DEF IngestNext
<1> QED
  BY <1>2, <1>3, <1>4, <1>5 DEF IngestIInv, ProcsFine

LEMMA IngestInvariance == IngestSpec => []IngestIInv
BY IngestInitInv, IngestStepInv, PTL DEF IngestSpec

-----------------------------------------------------------------------------
(* The theorems.                                                           *)

\* The ingester, with the controller beside it, uses the controller store as
\* its clients may: whatever is proved of StoreSpec holds while it runs.
THEOREM IngesterImplementsStore == IngestSpec => StoreSpec
<1>1. IngestInit => StoreInit
  BY DEF IngestInit
<1>2. IngestIInv /\ [IngestNext]_ingestVars => [StoreNext]_storeVars
  BY IngestStepIsStoreStep
<1> QED
  BY <1>1, <1>2, IngestInvariance, PTL DEF IngestSpec, StoreSpec

\* What is published under a store ID is what the ID is a hash of
\* (githubsourcestore.Importer.Import), although refs move during a fetch.
THEOREM StoresHoldTheirTargets == IngestSpec => []PublishedHoldsTarget
<1>1. IngestIInv => PublishedHoldsTarget
  BY DEF IngestIInv
<1> QED
  BY <1>1, IngestInvariance, PTL

\* A job is runnable only when the store of its target is on disk and its
\* source request is completed, although an import may report under a lease
\* that was taken over and for a job of another generation.
THEOREM RunnableJobsHaveStores == IngestSpec => []IngestInvariant
<1>1. IngestIInv => IngestTypeOK
  <2> SUFFICES ASSUME IngestIInv PROVE IngestTypeOK
    OBVIOUS
  <2>1. ASSUME NEW x \in Processes
        PROVE  /\ proc[x].pc \in Steps
               /\ proc[x].pc # "idle" => proc[x].req \in sourceHandles /\ proc[x].target \in Targets
    BY ProcFacts DEF ProcRow
  <2> QED
    BY <2>1 DEF IngestIInv, IngestTypeOK, StoreInv, PublishedRow
<1>2. IngestIInv => IngestInvariant
  BY <1>1 DEF IngestIInv, IngestInvariant
<1> QED
  BY <1>2, IngestInvariance, PTL

\* The rename never replaces a published store: the slower of two importers
\* of one target opens what it finds.
THEOREM PublishedStoresStay == IngestSpec => StoresAreImmutable
<1>1. IngestIInv /\ [IngestNext]_ingestVars =>
        [\A k \in StoreIDs : stores[k] # NoStore => stores'[k] = stores[k]]_ingestVars
  BY IngestStepIsStoreStep, ProcsStep DEF StoresStay
<1> QED
  BY <1>1, IngestInvariance, PTL DEF IngestSpec, StoresAreImmutable
=============================================================================
