------------------------------- MODULE Execute -------------------------------
(***************************************************************************)
(* A local run from the frozen plan to the verified bundle: the executor   *)
(* of attempts (internal/runner), the Docker development runner            *)
(* (internal/runner/dockerdev over internal/dockerengine), the capture     *)
(* hooks of internal/localrun, the artifact collector                      *)
(* (internal/artifactcollect) and the evidence session.                    *)
(*                                                                         *)
(* The executor is one goroutine; `pc' is the call it makes next.  Beside  *)
(* it the container writes, closes its streams and exits, deadlines pass,  *)
(* calls fail (at most MaxFaults of them), and the process may crash.      *)
(***************************************************************************)
EXTENDS Evidence, FiniteSetsExt

CONSTANTS
  Workspaces,           \* what a container may leave behind
  MaxStreamBytes,       \* dockerdev Limits.MaxStdoutBytes = MaxStderrBytes
  MaxTotalOutputBytes,  \* dockerdev Limits.MaxTotalOutputBytes
  MaxRunnerEvents,      \* runner.Limits.MaxEventsPerAttempt
  FrameSizes,           \* bytes a frame may have
  Exits,                \* how a container may end: exit code and out-of-memory kill
  MaxFrames,            \* bound: frames the containers write
  MaxFaults             \* bound: calls that fail

\* What the collector meets at a path: a file with one of two contents, a file over the
\* limit, a link, a special file, a file with a second name, or a link or special file
\* that only lies on the way of a pattern.
FileKind == {"absent", "text", "data", "large", "symlink", "special", "hardlink", "blocked"}
Workspace == [rules : BOOLEAN, files : [Paths -> FileKind]]

ASSUME ExecuteAssumption ==
  /\ Workspaces \subseteq Workspace
  /\ {MaxStreamBytes, MaxTotalOutputBytes, MaxRunnerEvents} \subseteq Nat \ {0}
  /\ FrameSizes \subseteq Nat \ {0} /\ Exits \subseteq (Nat \X BOOLEAN)
  /\ {MaxFrames, MaxFaults} \subseteq Nat

VARIABLES
  pc,        \* the executor's next call
  att,       \* the attempt it executes
  s,         \* the evidence session
  run,       \* executionState, the attempt's sink and the hooks
  cont,      \* the attempt's container
  work,      \* the workspace the container left, and the paths still to handle
  ctx,       \* whose deadline has passed: "live", "attempt" or "run"
  bundle,    \* the published bundle, or NoBundle
  answer,    \* what the run reports
  faults,    \* calls that have failed
  world      \* what really happened: output lost, container leaked, bundle damaged

vars == <<pc, att, s, run, cont, work, ctx, bundle, answer, faults, world>>

NoBundle == [p \in {} |-> p]
NoContainer == [state |-> "none", open |-> FALSE, exit |-> 0, oom |-> FALSE]
EmptyWorkspace == [rules |-> FALSE, files |-> [p \in Paths |-> "absent"]]
NoOutput == [st \in Streams |-> 0]

\* The part of run that belongs to an attempt (attemptDraftSink and RunAttemptWithOutput).
FreshAttempt == [count |-> 0, first |-> 0, last |-> 0, status |-> "succeeded", exit |-> 0,
                 accepted |-> NoOutput, written |-> NoOutput, truncated |-> {}]

Init ==
  /\ pc = "plan"
  /\ att = 1
  /\ s = Begin
  /\ run = [seq |-> 0, frames |-> 0, results |-> <<>>, incomplete |-> FALSE, this |-> FreshAttempt]
  /\ cont = NoContainer
  /\ work = [tree |-> EmptyWorkspace, todo |-> {}]
  /\ ctx = "live"
  /\ bundle = NoBundle
  /\ answer = "none"
  /\ faults = 0
  /\ world = [lost |-> FALSE, leaked |-> FALSE, damaged |-> FALSE]

Dead == ctx # "live"
MayFail == IF faults < MaxFaults THEN BOOLEAN ELSE {FALSE}
Counts(f) == faults' = faults + (IF f THEN 1 ELSE 0)

\* An error: AbortAttempt closes the logs, then localrun aborts the session, which removes
\* the staging directory.
Aborted == [Begin EXCEPT !.state = "aborted", !.files = <<>>, !.entries = <<>>]
Stop(code) == pc' = "done" /\ answer' = code /\ s' = Aborted

\* An error after the container was created goes through cleanup first.
StopAfterCleanup == pc' = "cleanup" /\ UNCHANGED <<s, answer>>

-----------------------------------------------------------------------------
(* The plan and the start of an attempt.                                   *)

\* ExecutePlanWithHooks before the first attempt: limits, capabilities, bindings.
CheckPlan ==
  /\ pc = "plan"
  /\ \E f \in MayFail :
       /\ Counts(f)
       /\ IF f \/ Dead THEN Stop("failed") ELSE pc' = "before" /\ UNCHANGED <<s, answer>>
  /\ UNCHANGED <<att, run, cont, work, ctx, bundle, world>>

\* BeforeAttempt opens both logs under the attempt's own deadline.
BeforeAttempt ==
  /\ pc = "before"
  /\ \E f \in MayFail :
       LET opened == OpenLog(OpenLog(s, att, "stdout", Dead, f), att, "stderr", Dead, FALSE)
       IN  /\ Counts(f)
           /\ IF opened.state # "active" THEN Stop("failed")
              ELSE pc' = "started" /\ s' = opened /\ UNCHANGED answer
  /\ UNCHANGED <<att, run, cont, work, ctx, bundle, world>>

-----------------------------------------------------------------------------
(* Events (attemptDraftSink.Emit).                                         *)

SinkEmit(t, kind, f) ==
  IF Dead \/ run.this.count >= MaxRunnerEvents THEN [t EXCEPT !.state = "failed"]
  ELSE Emit(t, att, run.seq + 1, kind, FALSE, f)

Counted(r) ==
  [r EXCEPT !.seq = @ + 1, !.this.count = @ + 1, !.this.last = r.seq + 1,
            !.this.first = IF @ = 0 THEN r.seq + 1 ELSE @]

\* The calls that emit one event: its kind, the call after it, and whether there is a
\* container to clean up when it fails.
EmitCalls == [
  started   |-> [kind |-> "scenario_started",   next |-> "image",  container |-> FALSE],
  warn      |-> [kind |-> "observer_warning",   next |-> "pstart", container |-> TRUE],
  pstart    |-> [kind |-> "process_start",      next |-> "output", container |-> TRUE],
  exit      |-> [kind |-> "process_exit",       next |-> "remove", container |-> TRUE],
  completed |-> [kind |-> "scenario_completed", next |-> "ended",  container |-> FALSE]]

EmitEvent ==
  /\ pc \in DOMAIN EmitCalls
  /\ \E f \in MayFail :
       LET call == EmitCalls[pc]
           emitted == SinkEmit(s, call.kind, f)
       IN  /\ Counts(f)
           /\ \/ /\ emitted.state = "active"
                 /\ s' = emitted /\ run' = Counted(run) /\ pc' = call.next
                 /\ UNCHANGED answer
              \/ /\ emitted.state # "active"
                 /\ UNCHANGED run
                 /\ IF call.container THEN StopAfterCleanup ELSE Stop("failed")
  /\ UNCHANGED <<att, cont, work, ctx, bundle, world>>

-----------------------------------------------------------------------------
(* The container (RunAttemptWithOutput).                                   *)

\* InspectImage, verifyImageMetadata and buildContainerSpec.
InspectImage ==
  /\ pc = "image"
  /\ \E f \in MayFail :
       /\ Counts(f)
       /\ IF f \/ Dead THEN Stop("failed") ELSE pc' = "create" /\ UNCHANGED <<s, answer>>
  /\ UNCHANGED <<att, run, cont, work, ctx, bundle, world>>

\* CreateContainer: when the answer does not come, the daemon may have created it.
CreateContainer ==
  /\ pc = "create"
  /\ \E f \in MayFail, made \in BOOLEAN :
       /\ Counts(f)
       /\ IF f \/ Dead
          THEN /\ Stop("failed")
               /\ world' = [world EXCEPT !.leaked = @ \/ made]
               /\ UNCHANGED cont
          ELSE /\ made
               /\ pc' = "attach"
               /\ cont' = [NoContainer EXCEPT !.state = "created"]
               /\ UNCHANGED <<s, answer, world>>
  /\ UNCHANGED <<att, run, work, ctx, bundle>>

AttachContainer ==
  /\ pc = "attach"
  /\ \E f \in MayFail :
       /\ Counts(f)
       /\ IF f \/ Dead THEN StopAfterCleanup ELSE pc' = "start" /\ UNCHANGED <<s, answer>>
  /\ UNCHANGED <<att, run, cont, work, ctx, bundle, world>>

StartContainer ==
  /\ pc = "start"
  /\ \E f \in MayFail :
       /\ Counts(f)
       /\ IF f \/ Dead
          THEN StopAfterCleanup /\ UNCHANGED cont
          ELSE /\ pc' = "warn"
               /\ cont' = [cont EXCEPT !.state = "running", !.open = TRUE]
               /\ UNCHANGED <<s, answer>>
  /\ UNCHANGED <<att, run, work, ctx, bundle, world>>

\* The container closes its output, or ends with or without an out-of-memory kill.
CloseStreams ==
  /\ cont.state = "running" /\ cont.open
  /\ cont' = [cont EXCEPT !.open = FALSE]
  /\ UNCHANGED <<pc, att, s, run, work, ctx, bundle, answer, faults, world>>

Exit(code, oom) ==
  /\ cont.state = "running"
  /\ cont' = [cont EXCEPT !.state = "exited", !.open = FALSE, !.exit = code, !.oom = oom]
  /\ UNCHANGED <<pc, att, s, run, work, ctx, bundle, answer, faults, world>>

\* DecodeDockerAttachFrames looks at the deadline on entry and before each read of a
\* frame's bytes, never while it waits for the next frame.
EnterDecode ==
  /\ pc = "output"
  /\ IF Dead THEN StopAfterCleanup ELSE pc' = "decode" /\ UNCHANGED <<s, answer>>
  /\ UNCHANGED <<att, run, cont, work, ctx, bundle, faults, world>>

\* What a stream may still take, and what the callback of RunAttemptWithOutput passes on
\* of it.
Accepted(st, k) ==
  LET rest == MaxStreamBytes - run.this.accepted[st]
  IN  IF rest > 0 THEN Least(k, rest) ELSE 0

Allowed(st) ==
  Least(MaxStreamBytes - run.this.written[st], MaxTotalOutputBytes - SumFunction(run.this.written))

PassedOn(st, k) == IF Allowed(st) > 0 THEN Least(Accepted(st, k), Allowed(st)) ELSE 0

ReadFrame(st, k) ==
  /\ pc = "decode" /\ cont.open /\ run.frames < MaxFrames
  /\ \E f \in MayFail :
       LET w == PassedOn(st, k)
           logged == IF w > 0 THEN WriteLog(s, att, st, w, f) ELSE s
           dropped == {d \in {st} : Accepted(st, k) < k}
                        \cup {d \in {"output"} : w < Accepted(st, k)}
       IN  /\ Counts(f)
           /\ IF Dead \/ logged.state # "active"
              THEN StopAfterCleanup /\ UNCHANGED <<run, world>>
              ELSE /\ s' = logged
                   /\ run' = [run EXCEPT !.frames = @ + 1,
                                         !.this.accepted[st] = @ + Accepted(st, k),
                                         !.this.written[st] = @ + w,
                                         !.this.truncated = @ \cup dropped]
                   /\ world' = [world EXCEPT
                                 !.lost = @ \/ logged.log[att][st].stored
                                                 # s.log[att][st].stored + k]
                   /\ UNCHANGED <<pc, answer>>
  /\ UNCHANGED <<att, cont, work, ctx, bundle>>

\* The end of the stream; the attach connection is closed.
StreamEnded_WhileRunning == ~cont.open /\ cont.state = "running"
StreamEnded == ~cont.open
EndOfStream ==
  /\ pc = "decode" /\ StreamEnded
  /\ \E f \in MayFail :
       /\ Counts(f)
       /\ IF f THEN StopAfterCleanup ELSE pc' = "wait" /\ UNCHANGED <<s, answer>>
  /\ UNCHANGED <<att, run, cont, work, ctx, bundle, world>>

WaitContainer ==
  /\ pc = "wait"
  /\ \E f \in MayFail :
       /\ Counts(f)
       /\ \/ f /\ StopAfterCleanup
          \/ ~f /\ cont.state = "exited" /\ pc' = "inspect" /\ UNCHANGED <<s, answer>>
  /\ UNCHANGED <<att, run, cont, work, ctx, bundle, world>>

\* Docker refuses to kill a container that does not run; a forced removal works on any.
KillWorks(c) == c.state = "running"

\* cleanup: kill if asked to, then remove whatever the kill said.
CleanupOk(kill, f) == ~f /\ (kill => KillWorks(cont))
RemovedUnless(f) == cont' = [cont EXCEPT !.state = IF f THEN @ ELSE "removed", !.open = FALSE]

\* The deadline passes while the runner waits: stop, then cleanup with a kill.  The kill
\* fails on a container that the stop ended.  A stop that failed may have ended it too; if
\* not, the kill works, and the error of the stop is returned.  A stop and a cleanup that
\* fail together (the daemon is gone) count as one fault.
WaitExpires ==
  /\ pc = "wait" /\ Dead
  /\ \E stopFails, f \in MayFail, ended \in BOOLEAN :
       LET left == IF ended THEN [cont EXCEPT !.state = "exited"] ELSE cont
       IN  /\ Counts(stopFails \/ f)
           /\ stopFails \/ ended
           /\ cont' = [left EXCEPT !.state = IF f THEN @ ELSE "removed", !.open = FALSE]
           /\ IF f \/ stopFails \/ ~KillWorks(left)
              THEN /\ Stop(IF f \/ ~KillWorks(left) THEN "cleanup-failed" ELSE "failed")
                   /\ UNCHANGED run
              ELSE /\ run' = [run EXCEPT !.this.status = "timed_out", !.this.exit = 137]
                   /\ pc' = "after" /\ UNCHANGED <<s, answer>>
  /\ UNCHANGED <<att, work, ctx, bundle, world>>

Status(c) == IF c.oom THEN "resource_limited" ELSE IF c.exit # 0 THEN "failed" ELSE "succeeded"

\* InspectContainer and verifyContainerConfig; an out-of-memory kill is emitted, and an
\* error of that emit is only noticed by the next one.
InspectContainer ==
  /\ pc = "inspect"
  /\ \E f \in MayFail :
       LET emitted == IF cont.oom THEN SinkEmit(s, "resource_limit", FALSE) ELSE s
           outcome == [run EXCEPT !.this.status = Status(cont), !.this.exit = cont.exit]
       IN  /\ Counts(f)
           /\ IF f \/ Dead
              THEN StopAfterCleanup /\ UNCHANGED run
              ELSE /\ pc' = "exit"
                   /\ s' = emitted
                   /\ run' = IF cont.oom /\ emitted.state = "active" THEN Counted(outcome)
                             ELSE outcome
                   /\ UNCHANGED answer
  /\ UNCHANGED <<att, cont, work, ctx, bundle, world>>

\* cleanup(primary, true) on the way out of an error.
CleanUp_ExitedOnly ==
  /\ pc = "cleanup"
  /\ \E f \in MayFail :
       /\ Counts(f)
       /\ cont' = [cont EXCEPT !.state = IF f \/ @ = "created" THEN @ ELSE "removed"]
       /\ Stop(IF CleanupOk(TRUE, f) THEN "failed" ELSE IF f THEN "cleanup-failed" ELSE "failed")
  /\ UNCHANGED <<att, run, work, ctx, bundle, world>>
CleanUp ==
  /\ pc = "cleanup"
  /\ \E f \in MayFail :
       /\ Counts(f)
       /\ RemovedUnless(f)
       /\ Stop(IF CleanupOk(TRUE, f) THEN "failed" ELSE "cleanup-failed")
  /\ UNCHANGED <<att, run, work, ctx, bundle, world>>

\* cleanup(nil, false) at the end of a run, then validateOutcome.
RemoveContainer ==
  /\ pc = "remove"
  /\ \E f \in MayFail :
       /\ Counts(f)
       /\ RemovedUnless(f)
       /\ IF ~CleanupOk(FALSE, f) THEN Stop("cleanup-failed")
          ELSE IF ~OutcomeCoherent(run.this) THEN Stop("failed")
          ELSE pc' = "after" /\ UNCHANGED <<s, answer>>
  /\ UNCHANGED <<att, run, work, ctx, bundle, world>>

-----------------------------------------------------------------------------
(* After the attempt: logs, artifacts, result.                             *)

Truncated(st) == {st, "output"} \cap run.this.truncated # {}
MarkIfTruncated(t, st) == IF Truncated(st) THEN MarkTruncated(t, att, st) ELSE t

Collected == {"text", "data", "large", "hardlink"}       \* regular files
NotComplete == {"large", "symlink", "special", "blocked"}
PathsOf(kinds) == {p \in Paths : work.tree.files[p] \in kinds}
ArtifactPaths == PathsOf(FileKind \ {"absent", "blocked"})
BlockedPaths == PathsOf({"blocked"})
CollectionComplete == PathsOf(NotComplete) = {}

\* AfterAttempt up to the collection: truncations are marked and both logs closed.
AfterAttempt ==
  /\ pc = "after"
  /\ \E f \in MayFail, w \in Workspaces :
       LET marked == MarkIfTruncated(MarkIfTruncated(s, "stdout"), "stderr")
           closed == CloseLog(CloseLog(marked, att, "stdout", f), att, "stderr", FALSE)
       IN  /\ Counts(f)
           /\ IF closed.state # "active"
              THEN Stop("failed") /\ UNCHANGED <<run, work>>
              ELSE /\ s' = closed
                   /\ run' = [run EXCEPT !.incomplete = @ \/ run.this.truncated # {}]
                   /\ work' = [tree |-> w, todo |-> {p \in Paths : w.files[p] \in Collected}]
                   /\ pc' = IF w.rules THEN "collect" ELSE "completed"
                   /\ UNCHANGED answer
  /\ UNCHANGED <<att, cont, ctx, bundle, world>>

Content(p) == [object |-> work.tree.files[p]]
LastRecord(t) == t.arts[att][Len(t.arts[att])]
StoredNow(t, p) == t.state = "active" /\ t.arts[att] # <<>> /\ LastRecord(t).path = p
                   /\ LastRecord(t).disposition = "stored"

\* Collect, one regular file after the other in path order.  A file over the limit is
\* left out; what the session does not store as it was read is an error.
CollectFile ==
  /\ pc = "collect" /\ work.todo # {}
  /\ LET p == Min(work.todo)
         kind == work.tree.files[p]
     IN  \E f \in MayFail :
           LET added == IF kind = "large" THEN s ELSE AddArtifact(s, att, p, Content(p), Dead, f)
           IN  /\ Counts(f)
               /\ IF Dead \/ kind = "hardlink" \/ (kind # "large" /\ ~StoredNow(added, p))
                  THEN Stop("failed") /\ UNCHANGED work
                  ELSE /\ s' = added
                       /\ work' = [work EXCEPT !.todo = @ \ {p}]
                       /\ UNCHANGED <<pc, answer>>
  /\ UNCHANGED <<att, run, cont, ctx, bundle, world>>

\* The workspace is walked a second time; it must not have changed.
Collect ==
  /\ pc = "collect" /\ work.todo = {}
  /\ \E f \in MayFail :
       LET marked == IF CollectionComplete /\ ArtifactPaths = {}
                     THEN MarkCollectionComplete(s, att, Dead) ELSE s
       IN  /\ Counts(f)
           /\ IF f \/ Dead
              THEN Stop("failed") /\ UNCHANGED work
              ELSE /\ s' = marked
                   /\ work' = [work EXCEPT !.todo = ArtifactPaths]
                   /\ pc' = "record" /\ UNCHANGED answer
  /\ UNCHANGED <<att, run, cont, ctx, bundle, world>>

DispositionOf(kind) ==
  CASE kind = "large" -> "omitted_limit"
    [] kind \in {"symlink", "blocked"} -> "omitted_symlink"
    [] OTHER -> "omitted_special"

\* recordArtifactResults, in path order: an event for a stored artifact, a record and a
\* warning for one that was left out.
RecordResult ==
  /\ pc = "record" /\ work.todo # {}
  /\ LET p == Min(work.todo)
         kind == work.tree.files[p]
         stored == kind \in {"text", "data"}
         refused == ~stored /\ ~MayRecordOmission(s, att, p)
         recorded == IF stored THEN s
                     ELSE RecordArtifactOmission(s, att, p, DispositionOf(kind), Dead)
     IN  \E f \in MayFail :
           LET emitted == SinkEmit(recorded, IF stored THEN "artifact_activity"
                                             ELSE "observer_warning", f)
           IN  /\ Counts(f)
               /\ IF refused \/ emitted.state # "active"
                  THEN Stop("failed") /\ UNCHANGED <<run, work, world>>
                  ELSE /\ s' = emitted
                       /\ run' = [Counted(run) EXCEPT !.incomplete = @ \/ ~stored]
                       /\ work' = [work EXCEPT !.todo = @ \ {p}]
                       /\ world' = [world EXCEPT !.lost = @ \/ ~stored]
                       /\ UNCHANGED <<pc, answer>>
  /\ UNCHANGED <<att, cont, ctx, bundle>>

\* recordBlockedPatterns: only when nothing was found at all, and only for the first
\* blocked pattern.
RecordBlocked(f) ==
  LET p == Min(BlockedPaths)
      recorded == RecordArtifactOmission(s, att, p, DispositionOf("blocked"), Dead)
      emitted == SinkEmit(recorded, "observer_warning", f)
  IN  IF MayRecordOmission(s, att, p) THEN emitted ELSE Fail(emitted)

Recorded ==
  /\ pc = "record" /\ work.todo = {}
  /\ \E f \in MayFail :
       LET blocked == ArtifactPaths = {} /\ ~CollectionComplete
           t == IF blocked THEN RecordBlocked(f) ELSE s
       IN  /\ Counts(f)
           /\ IF t.state # "active"
              THEN Stop("failed") /\ UNCHANGED <<run, world>>
              ELSE /\ s' = t
                   /\ run' = [(IF blocked THEN Counted(run) ELSE run)
                                EXCEPT !.incomplete = @ \/ ~CollectionComplete]
                   /\ world' = [world EXCEPT !.lost = @ \/ ~CollectionComplete]
                   /\ pc' = "completed" /\ UNCHANGED answer
  /\ UNCHANGED <<att, cont, work, ctx, bundle>>

AttemptResult(r) == [status |-> r.status, exit |-> r.exit, first |-> r.first, last |-> r.last,
                     count |-> r.count]

\* The attempt's result is appended; the next attempt has a deadline of its own.
NextAttempt ==
  /\ pc = "ended"
  /\ run' = [run EXCEPT !.results = Append(@, AttemptResult(run.this)), !.this = FreshAttempt]
  /\ ctx' = IF ctx = "attempt" THEN "live" ELSE ctx
  /\ cont' = NoContainer
  /\ \/ /\ att < N
        /\ att' = att + 1
        /\ IF ctx = "run" THEN Stop("failed") ELSE pc' = "before" /\ UNCHANGED <<s, answer>>
     \/ att = N /\ pc' = "commit" /\ UNCHANGED <<att, s, answer>>
  /\ work' = [tree |-> EmptyWorkspace, todo |-> {}]
  /\ UNCHANGED <<bundle, faults, world>>

-----------------------------------------------------------------------------
(* Commit, verification and later reads.                                   *)

Completion == [results |-> run.results, complete |-> TRUE, incomplete |-> run.incomplete,
               total |-> run.seq]

\* Session.Commit until the staging directory is synced.
Commit ==
  /\ pc = "commit"
  /\ \E f \in MayFail : \E staged \in {IF Dead \/ f THEN Fail(s) ELSE Staged(s, Completion)} :
       /\ Counts(f)
       /\ IF staged.state # "active" THEN Stop("failed")
          ELSE pc' = "publish" /\ s' = staged /\ UNCHANGED answer
  /\ UNCHANGED <<att, run, cont, work, ctx, bundle, world>>

\* publish: the staging directory gets its final name.
Publish ==
  /\ pc = "publish"
  /\ \E f \in MayFail :
       /\ Counts(f)
       /\ IF f THEN Stop("failed") /\ UNCHANGED bundle
          ELSE /\ bundle' = s.files
               /\ pc' = "sync" /\ UNCHANGED <<s, answer>>
  /\ UNCHANGED <<att, run, cont, work, ctx, world>>

\* The parent directory is synced; if that fails the published bundle is removed.
SyncParent ==
  /\ pc = "sync"
  /\ \E f \in MayFail :
       /\ Counts(f)
       /\ IF f THEN Stop("failed") /\ bundle' = NoBundle
          ELSE /\ s' = [s EXCEPT !.state = "committed"]
               /\ pc' = "verify" /\ UNCHANGED <<bundle, answer>>
  /\ UNCHANGED <<att, run, cont, work, ctx, world>>

\* verifyRelocateAndVerifyEvidence
Verify ==
  /\ pc = "verify"
  /\ \/ /\ ~Dead /\ OpenAndVerify(bundle, s.files[ManifestFile])
        /\ pc' = "verified" /\ answer' = "ok"
     \/ /\ Dead \/ ~OpenAndVerify(bundle, s.files[ManifestFile])
        /\ pc' = "done" /\ answer' = "rejected"
  /\ UNCHANGED <<att, s, run, cont, work, ctx, bundle, faults, world>>

\* Every WalkEvents, CopyLog and CopyArtifact of an open bundle, until one fails.
ReadBundle ==
  /\ pc = "verified"
  /\ \/ /\ \A p \in Copied(s.entries) : ReadAgain(bundle, s.files[ManifestFile], p)
        /\ pc' = "read" /\ UNCHANGED answer
     \/ /\ \E p \in Copied(s.entries) : ~ReadAgain(bundle, s.files[ManifestFile], p)
        /\ pc' = "done" /\ answer' = "rejected"
  /\ UNCHANGED <<att, s, run, cont, work, ctx, bundle, faults, world>>

-----------------------------------------------------------------------------
(* What happens around the executor.                                       *)

Running == pc \notin {"done", "read", "crashed"}

\* The deadline of the attempt, or of the whole run, passes.
Expire ==
  /\ Running
  /\ \/ ctx = "live" /\ pc \notin {"plan", "commit", "publish", "sync", "verify", "verified"}
        /\ ctx' = "attempt"
     \/ ctx # "run" /\ ctx' = "run"
  /\ UNCHANGED <<pc, att, s, run, cont, work, bundle, answer, faults, world>>

\* The process dies; the container and the directories stay as they are.
Crash ==
  /\ Running
  /\ pc' = "crashed"
  /\ UNCHANGED <<att, s, run, cont, work, ctx, bundle, answer, faults, world>>

\* A file of the published bundle is changed, lost or added.
Damage ==
  /\ bundle # NoBundle /\ pc \in {"verify", "verified"} /\ ~world.damaged
  /\ world' = [world EXCEPT !.damaged = TRUE]
  /\ \/ \E p \in DOMAIN bundle : bundle' = Put(bundle, p, [damaged |-> TRUE])
     \/ \E p \in DOMAIN bundle : bundle' = Restrict(bundle, DOMAIN bundle \ {p})
     \/ bundle' = Put(bundle, <<"extra">>, [damaged |-> TRUE])
  /\ UNCHANGED <<pc, att, s, run, cont, work, ctx, answer, faults>>

Executor ==
  \/ CheckPlan \/ BeforeAttempt \/ EmitEvent \/ InspectImage \/ CreateContainer
  \/ AttachContainer \/ StartContainer \/ EnterDecode \/ EndOfStream \/ WaitContainer \/ WaitExpires
  \/ InspectContainer \/ CleanUp \/ RemoveContainer \/ AfterAttempt \/ CollectFile \/ Collect
  \/ RecordResult \/ Recorded \/ NextAttempt \/ Commit \/ Publish \/ SyncParent \/ Verify
  \/ ReadBundle

ContainerEnds == \E x \in Exits : Exit(x[1], x[2])
Frames == \E st \in Streams, k \in FrameSizes : ReadFrame(st, k)

Next == Executor \/ ContainerEnds \/ Frames \/ CloseStreams \/ Expire \/ Crash \/ Damage

Spec == Init /\ [][Next]_vars

\* The executor runs on, and deadlines pass.  Nothing is assumed of the container.
FairSpec == Spec /\ WF_vars(Executor \/ Frames) /\ WF_vars(Expire)

-----------------------------------------------------------------------------
(* Properties.                                                             *)

PCs == {"plan", "before", "image", "create", "attach", "start", "output", "decode", "wait", "inspect",
        "cleanup", "remove", "after", "collect", "record", "ended", "commit", "publish", "sync",
        "verify", "verified", "read", "done", "crashed"} \cup DOMAIN EmitCalls

\* Types: capture states, counters within the limits, and the session's idea of the
\* sequence is the runner's.
TypeOK ==
  /\ pc \in PCs /\ att \in Attempts
  /\ s.state \in {"active", "failed", "committed", "aborted"}
  /\ \A a \in Attempts : \A f \in DOMAIN s.states[a] : s.states[a][f] \in CaptureState
  /\ \A st \in Streams : run.this.written[st] \in 0..MaxStreamBytes
  /\ TotalLogBytes(s) <= MaxTotalLogBytes
  /\ cont.state \in {"none", "created", "running", "exited", "removed"}
  /\ ctx \in {"live", "attempt", "run"}
  /\ answer \in {"none", "ok", "failed", "cleanup-failed", "rejected"}
  /\ s.state = "active" => s.next = run.seq

IndexesSorted(b) == \A a \in Attempts : SortedByPath(IndexRecords(b, a))

\* A bundle is visible under its final name only as a whole, also after a crash or a
\* failed commit (publish): whatever is published and not damaged since is accepted by
\* the strict reader, unless the records of an artifact index are out of order.
PublishedVerifies ==
  bundle # NoBundle /\ ~world.damaged /\ IndexesSorted(bundle)
    => OpenAndVerify(bundle, bundle[ManifestFile])

\* "Evidence complete" means that nothing the container wrote and nothing the plan asked
\* to collect was dropped on the way through the runner's and the session's limits.
CompleteMeansNothingLost ==
  bundle # NoBundle /\ ManifestFile \in DOMAIN bundle
    => LET m == bundle[ManifestFile]
       IN  "evidenceComplete" \in DOMAIN m /\ m.evidenceComplete => ~world.lost

\* A run that has ended removed every container whose ID the runner was told, unless it
\* says that the cleanup failed.  A container that the daemon made while the answer to the
\* create call was lost stays, and only of a run that failed.
NoContainerLeft ==
  /\ pc \in {"done", "verified", "read"}
       => cont.state \in {"none", "removed"} \/ answer = "cleanup-failed"
  /\ world.leaked => pc = "done" /\ answer = "failed"

\* What the executor, the session and the container engine agree on.
ExecuteInvariant == TypeOK /\ NoContainerLeft

\* A bundle that lost, gained or changed a file after the commit is never accepted, and a
\* file read later from an accepted bundle is the committed one.
DamageIsNoticed ==
  /\ [][pc = "verify" /\ pc' = "verified" => bundle = s.files]_vars
  /\ [](pc = "read" => \A p \in Copied(s.entries) : p \in DOMAIN bundle /\ bundle[p] = s.files[p])

Ended == pc \in {"done", "verified", "read", "crashed"}

\* A run ends, with a verified bundle, an error or a crash, whatever the container does,
\* with one exception: it may wait for ever for the next frame of a container that keeps
\* its output open, because DecodeDockerAttachFrames does not look at the deadline there.
\* No other call of the runner, of the session or of the cleanup waits for the container.
OnlyReadingHangs == <>Ended \/ <>[](pc = "decode" /\ cont.open)

\* What docs/RUNNER_CONTRACT.md says of the deadline of a run: "ExecutePlan honors ... the
\* plan global timeout".  It does not hold: see OnlyReadingHangs.
DeadlineEndsRun == ctx = "run" ~> Ended

\* What docs/DOCKER_DEV_RUNNER.md says: the runner removes the container it created,
\* whatever fails.  It does not hold when the answer to the creation is lost.
CreatedIsRemoved ==
  pc = "done" /\ answer # "cleanup-failed"
    => ~world.leaked /\ cont.state \in {"none", "removed"}

\* What is committed can be read: every bundle a commit publishes is accepted by the
\* strict reader, also one with omitted artifacts.
CommittedIsReadable ==
  bundle # NoBundle /\ ~world.damaged => OpenAndVerify(bundle, bundle[ManifestFile])
=============================================================================
