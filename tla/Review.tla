-------------------------------- MODULE Review --------------------------------
(***************************************************************************)
(* A pull request from its run to its verdict: the attempts of the plan    *)
(* are run and bundled, the bundle is inspected (internal/inspect: verify, *)
(* normalize, compare, evaluate, apply the waivers of the base, build the  *)
(* report), and people react: the author edits the waiver file or the      *)
(* configuration of the head, the head is merged, time passes, the request *)
(* is run and inspected again.                                             *)
(***************************************************************************)
EXTENDS Policy

CONSTANTS
  Cases,              \* plans to review: [scenarios, repetitions, ignore, scripts, contexts, edits]
  HeadConfigs,        \* assessments of the head's configuration
  MaxNow, MaxRuns, MaxCommits   \* bounds: time, runs and commits

VARIABLES
  plan,
  base, head,         \* the commits: [commit, waivers] and whether the base's configuration is
                      \* accepted, and the assessment of the head's
  ran,                \* the event sequences of the attempts that ran
  bundle, review,
  now, runs,
  stage,              \* "running", "bundled" or "reviewed"
  granted             \* history: what the waivers that were written are about

\* An event as the bundle's reader hands it over: process numbers are numbers, and the
\* times have a common unit.
IsEvent(e) ==
  /\ e = [kind |-> e.kind, source |-> e.source, at |-> e.at, body |-> e.body] /\ e.at \in Int
  /\ e.body.of = "process" =>
       /\ e.body.pid \in Nat /\ e.body.ppid \in Nat
       /\ e.body = [of |-> "process", pid |-> e.body.pid, ppid |-> e.body.ppid,
                    exe |-> e.body.exe, exit |-> e.body.exit, duration |-> e.body.duration]

\* A plan has attempts, scripts are finite, and a valid modification of the configuration
\* changes something (config.assessHead).
ASSUME ReviewAssumption ==
  /\ MaxLifetime \in Nat
  /\ \A p \in Cases :
       /\ p.repetitions \in Nat \ {0} /\ Len(p.scenarios) \in Nat \ {0}
       /\ \A s \in p.scripts : s \in Seq({s[i] : i \in DOMAIN s}) /\ \A i \in DOMAIN s : IsEvent(s[i])
  /\ \A c \in HeadConfigs : c.state = "modified-valid" => 1 \in DOMAIN c.changes

vars == <<plan, base, head, ran, bundle, review, now, runs, stage, granted>>

NoBundle == [attempts |-> <<>>]
NoReview == [refused |-> TRUE]
NoFile == [entry |-> "absent", text |-> EmptyText]
Unchanged == [state |-> "unchanged", changes |-> <<>>]

-----------------------------------------------------------------------------
(* The run *)

\* The plan's attempts: revisions, then scenarios, then repetitions.
AttemptKeys(p) ==
  LET n == Len(p.scenarios) * p.repetitions
  IN  [i \in 1..(2 * n) |->
         [revision |-> IF i <= n THEN "base" ELSE "head",
          scenario |-> p.scenarios[(((i - 1) % n) \div p.repetitions) + 1],
          repetition |-> ((i - 1) % p.repetitions) + 1]]

\* How a run goes: rebuilds says that pipeline.Build would make its plan again.
RealRun == [evidenceComplete |-> TRUE, synthetic |-> FALSE, executes |-> TRUE, rebuilds |-> TRUE]

Bundled(scripts, finished, context) ==
  [commits |-> <<base.commit, head.commit>>,
   attempts |-> [i \in DOMAIN AttemptKeys(plan) |->
                   LET k == AttemptKeys(plan)[i]
                   IN  [revision |-> k.revision, scenario |-> k.scenario, repetition |-> k.repetition,
                        events |-> IF i <= Len(scripts) THEN scripts[i] ELSE <<>>, result |-> i <= finished]],
   executionComplete |-> finished = Len(AttemptKeys(plan)), evidenceComplete |-> context.evidenceComplete,
   rebuilds |-> context.rebuilds,
   runner |-> [synthetic |-> context.synthetic, executes |-> context.executes]]

Init ==
  /\ plan \in Cases
  /\ base = [commit |-> 0, waivers |-> NoFile, accepted |-> TRUE]
  /\ head = [commit |-> 1, waivers |-> NoFile, config |-> Unchanged]
  /\ ran = <<>> /\ bundle = NoBundle /\ review = NoReview
  /\ now = 1 /\ runs = 1 /\ stage = "running" /\ granted = {}

\* External: what a workload does.
RunAttempt ==
  /\ stage = "running" /\ Len(ran) < Len(AttemptKeys(plan))
  /\ \E s \in plan.scripts : ran' = Append(ran, s)
  /\ UNCHANGED <<plan, base, head, bundle, review, now, runs, stage, granted>>

\* All attempts have a result.
Commit ==
  /\ stage = "running" /\ Len(ran) = Len(AttemptKeys(plan))
  /\ \E c \in plan.contexts : bundle' = Bundled(ran, Len(ran), c)
  /\ stage' = "bundled"
  /\ UNCHANGED <<plan, base, head, ran, review, now, runs, granted>>

\* The run stops in the attempt that ran last.
CommitInterrupted ==
  /\ stage = "running" /\ ran # <<>>
  /\ bundle' = Bundled(ran, Len(ran) - 1, [RealRun EXCEPT !.evidenceComplete = FALSE])
  /\ stage' = "bundled"
  /\ UNCHANGED <<plan, base, head, ran, review, now, runs, granted>>

-----------------------------------------------------------------------------
(* The inspection *)

\* The bundle was made from exactly the commits the request names.
BoundTo(b, baseCommit, headCommit) == b.commits = <<baseCommit, headCommit>>

\* config.LoadTrusted: the base's configuration is accepted and the head's can be read.
ConfigLoads(b, h) == b.accepted /\ h.config.state \notin {"too-large", "unreadable"}

\* Each pass takes what the one before made; a refusal of any is one of the whole.
Inspect ==
  /\ stage = "bundled"
  /\ \E trace \in {Normalize(bundle, plan.ignore)} :
     \E delta \in {CompareTraces(trace)} :
     \E evaluation \in {Evaluate(delta)} :
     \E application \in {Apply(evaluation, head.config, base.waivers, head.waivers, now)} :
       review' = [refused |-> ~(/\ BoundTo(bundle, base.commit, head.commit)
                                /\ ConfigLoads(base, head) /\ bundle.rebuilds
                                /\ ~application.refused /\ BindingOk(delta, application) /\ RefsOk(trace, delta)),
                  trace |-> trace, delta |-> delta, evaluation |-> evaluation, application |-> application]
  /\ stage' = "reviewed"
  /\ UNCHANGED <<plan, base, head, ran, bundle, now, runs, granted>>

-----------------------------------------------------------------------------
(* What people do *)

Waiver(id, f, rule, issued, expires) ==
  [id |-> id, finding |-> FindingID(f), rule |-> rule, reason |-> "r", issued |-> issued, expires |-> expires]
Text(ws) == [spelling |-> "a", wellFormed |-> TRUE, waivers |-> ws]
FileOf(ws) == [entry |-> "file", text |-> Text(ws)]

Written == IF head.waivers.entry = "file" THEN head.waivers.text.waivers ELSE <<>>
NewID == IF Written = <<>> THEN "w1" ELSE "w2"

\* What is waived: the findings of the review that name a record.
Reviewable == IF review.refused THEN {} ELSE {f \in review.evaluation.findings : f.records # {}}

NewHead(waivers) == [head EXCEPT !.commit = @ + 1, !.waivers = waivers]

MayEdit == stage = "reviewed" /\ plan.edits /\ head.commit < MaxCommits

\* The author waives a finding, from now on or from the next hour on.
WriteWaiver ==
  /\ MayEdit
  /\ \E f \in Reviewable, issued \in {now, now + 1} :
       \E r \in {x \in review.delta.records : {RecordID(x)} = f.records} :
         /\ head' = NewHead(FileOf(Append(Written, Waiver(NewID, f, f.rule, issued, issued + 1))))
         /\ granted' = granted \cup {[record |-> r, rule |-> f.rule, issued |-> issued, expires |-> issued + 1]}
  /\ stage' = "bundled" /\ review' = NoReview
  /\ UNCHANGED <<plan, base, ran, bundle, now, runs>>

\* The author gets a waiver wrong: an identifier used twice, the wrong rule, a window
\* that ends before it begins or lasts too long.
WriteBadWaivers ==
  /\ MayEdit
  /\ \E f \in Reviewable :
       \E ws \in {<<Waiver("w1", f, f.rule, now, now + 1), [Waiver("w1", f, f.rule, now, now + 1) EXCEPT !.finding[1] = "GR-ART-001"]>>,
                  <<Waiver("w1", f, f.rule, now, now + 1), Waiver("w2", f, f.rule, now, now + 1)>>,
                  <<Waiver("w1", f, CHOOSE rule \in Waivable : rule # f.rule, now, now + 1)>>,
                  <<Waiver("w1", f, f.rule, now, now)>>,
                  <<Waiver("w1", f, f.rule, now, now + MaxLifetime + 1)>>} :
         head' = NewHead(FileOf(ws))
  /\ stage' = "bundled" /\ review' = NoReview
  /\ UNCHANGED <<plan, base, ran, bundle, now, runs, granted>>

\* The author rewrites the file, spoils it or replaces it.
ReplaceFile ==
  /\ MayEdit
  /\ \E f \in {[head.waivers EXCEPT !.text.spelling = "b"], [head.waivers EXCEPT !.text.wellFormed = FALSE],
               [head.waivers EXCEPT !.entry = "file", !.text = EmptyText], NoFile}
              \cup {[head.waivers EXCEPT !.entry = e] : e \in {"too-large", "other-kind", "unreadable"}}
              \cup (IF Written = <<>> THEN {}
                    ELSE {[head.waivers EXCEPT !.text.waivers[1].reason = "s"]}) :
       f # head.waivers /\ head' = NewHead(f)
  /\ stage' = "bundled" /\ review' = NoReview
  /\ UNCHANGED <<plan, base, ran, bundle, now, runs, granted>>

EditConfig ==
  /\ MayEdit
  /\ \E c \in HeadConfigs \ {head.config} : head' = [NewHead(head.waivers) EXCEPT !.config = c]
  /\ stage' = "bundled" /\ review' = NoReview
  /\ UNCHANGED <<plan, base, ran, bundle, now, runs, granted>>

\* The owners merge the head; the next request starts from it.
MergeHead ==
  /\ stage # "running" /\ plan.edits /\ base.commit # head.commit
  /\ base' = [commit |-> head.commit, waivers |-> head.waivers,
              accepted |-> \/ head.config.state = "modified-valid"
                           \/ base.accepted /\ head.config.state \in {"unchanged", "equivalent"}]
  /\ head' = [head EXCEPT !.config = Unchanged]
  /\ stage' = "bundled" /\ review' = NoReview
  /\ UNCHANGED <<plan, ran, bundle, now, runs, granted>>

Tick ==
  /\ stage = "reviewed" /\ plan.edits /\ now < MaxNow
  /\ now' = now + 1 /\ stage' = "bundled" /\ review' = NoReview
  /\ UNCHANGED <<plan, base, head, ran, bundle, runs, granted>>

\* The plan is run again on the commits there are now; the head may behave differently.
RunAgain ==
  /\ stage # "running" /\ plan.edits /\ runs < MaxRuns /\ bundle.executionComplete /\ ConfigLoads(base, head)
  /\ \E s \in plan.scripts :
       /\ ran' = [ran EXCEPT ![Len(ran)] = s]
       /\ bundle' = Bundled(ran', Len(ran), RealRun)
  /\ runs' = runs + 1 /\ stage' = "bundled" /\ review' = NoReview
  /\ UNCHANGED <<plan, base, head, now, granted>>

Next ==
  \/ RunAttempt \/ Commit \/ CommitInterrupted \/ Inspect
  \/ WriteWaiver \/ WriteBadWaivers \/ ReplaceFile \/ EditConfig \/ MergeHead \/ Tick \/ RunAgain

Spec == Init /\ [][Next]_vars

-----------------------------------------------------------------------------
(* Properties *)

Reviewed == stage = "reviewed" /\ ~review.refused

\* How often attempt i of a revision observed a variant, if it can tell (the normalized trace).
Seen(s, revision) ==
  LET attempts == AttemptsOf(review.trace, s, revision)
  IN  [d \in Variants(attempts) |->
         [i \in DOMAIN attempts |-> IF attempts[i].coverage = "complete"
                                    THEN <<CountOf(DigestsOf(attempts[i]), d)>> ELSE <<>>]]

\* Nothing is lost or told twice: a behaviour that does not occur alike on both sides is
\* in exactly one record, and one that does is in none (CompareScenario).
EveryDifferenceIsRecorded ==
  Reviewed => \A s \in Range(plan.scenarios) :
    LET b == Seen(s, "base")
        h == Seen(s, "head")
        about(d) == {r \in review.delta.records :
                       r.scenario = s /\ r.kind # "order-changed" /\ (r.base = <<d>> \/ r.head = <<d>>)}
        alike(d) == d \in DOMAIN b /\ d \in DOMAIN h /\ b[d] = h[d]
    IN  \A d \in DOMAIN b \cup DOMAIN h : Cardinality(about(d)) = IF alike(d) THEN 0 ELSE 1

\* What was not observed is not taken for absent: a behaviour is called added or removed
\* only when every attempt of the other side was complete, and no finding about a record
\* is of high confidence unless all attempts of both sides were, repeatedly, and the
\* observer is not the code under observation (BasisForAbsence, classifyPolicyConfidence).
WholeSide(s, revision) ==
  \A i \in DOMAIN bundle.attempts :
    bundle.attempts[i].scenario = s /\ bundle.attempts[i].revision = revision => bundle.attempts[i].result
HighConfidenceIsEarned ==
  Reviewed => \A r \in review.delta.records :
    /\ r.kind = "added" => WholeSide(r.scenario, "base")
    /\ r.kind = "removed" => WholeSide(r.scenario, "head")
    /\ (\E f \in RecordFindings(r) : f.confidence = "high") =>
         /\ WholeSide(r.scenario, "base") /\ WholeSide(r.scenario, "head") /\ plan.repetitions > 1
         /\ SourceOf(r) \notin {"guest", "workload", "static", "model", "synthetic"}

\* The same behaviour, as often as then, and within the time the owners agreed to.
IsGranted(r, rule) ==
  \E g \in granted : /\ g.rule = rule /\ g.issued <= now /\ now < g.expires
                     /\ [g.record EXCEPT !.basis = "", !.ambiguous = FALSE] = [r EXCEPT !.basis = "", !.ambiguous = FALSE]
\* A request passes only if it was run completely and for real, proposes no change of
\* configuration or waivers, and every difference a rule is about has a waiver that was
\* written for it, in the file of the base (Evaluate, Apply).
PassedIsReviewed ==
  Reviewed /\ review.application.overall = "passed" =>
    /\ bundle.executionComplete /\ bundle.evidenceComplete /\ ~NotReal(bundle.runner)
    /\ head.config.state \in {"unchanged", "equivalent"}
    /\ HeadState(base.waivers, head.waivers) \in {"absent-on-both", "unchanged", "equivalent"}
    /\ \A r \in review.delta.records : \A rule \in RulesFor(r) :
         /\ IsGranted(r, rule)
         /\ \E i \in DOMAIN base.waivers.text.waivers : base.waivers.text.waivers[i].rule = rule

DispositionRank(d) == CASE d = "passed" -> 0 [] d = "requires-review" -> 1 [] d = "failed" -> 2
\* The waivers a request brings along decide nothing about it: its findings come out as if
\* it had left the file alone, and its verdict is no better (waiver.LoadTrusted, Apply).
HeadWaiversDecideNothing ==
  Reviewed =>
    LET without == Apply(review.evaluation, head.config, base.waivers, base.waivers, now)
    IN  /\ review.application.builtin = without.builtin
        /\ review.application.statuses = without.statuses
        /\ DispositionRank(review.application.overall) >= DispositionRank(without.overall)

\* The head's attempts with other process numbers and, if time is ignored, other times.
Renumbered(e) ==
  LET timed == IF TimestampField \in plan.ignore THEN [e EXCEPT !.at = 9 - @] ELSE e
  IN  IF e.body.of # "process" THEN timed
      ELSE [timed EXCEPT !.body.pid = @ + 10, !.body.ppid = IF @ = 0 THEN 0 ELSE @ + 10]
RenumberedAttempt(a) ==
  IF a.revision = "base" THEN a ELSE [a EXCEPT !.events = [j \in DOMAIN a.events |-> Renumbered(a.events[j])]]
Elsewhere(b) == [b EXCEPT !.attempts = [i \in DOMAIN b.attempts |-> RenumberedAttempt(b.attempts[i])]]
\* Process numbers, reused or not, and the times of events, if ignored, make no difference
\* to a review (processState, SemanticDigest); durations do.
PidsAndClocksDecideNothing ==
  Reviewed /\ runs = 1 => CompareTraces(Normalize(Elsewhere(bundle), plan.ignore)).records = review.delta.records

\* Two changes of the configuration read alike.
OneScopeTwice(config) ==
  config.state = "modified-valid" /\ \E i, j \in DOMAIN config.changes : i # j /\ config.changes[i] = config.changes[j]
\* Without a report is left only what the code has a reason to refuse: a bundle of other
\* commits or of another plan, a configuration or waiver file that does not load, changes of
\* the configuration that read alike, a filesystem operation no rule knows, and what is
\* beyond a limit.  Nothing that the passes make of a run and of the files people write
\* clashes otherwise (Inspect, report.validateCountsAndRefs).
EveryRunIsReviewed ==
  stage = "reviewed" /\ review.refused =>
    \/ ~BoundTo(bundle, base.commit, head.commit) \/ ~bundle.rebuilds \/ ~ConfigLoads(base, head)
    \/ ~Readable(base.waivers) \/ ~Readable(head.waivers) \/ OneScopeTwice(head.config)
    \/ \E r \in review.delta.records : UndecidableFor(r)
    \/ review.delta.refused \/ Cardinality(review.evaluation.findings) > MaxFindings
    \/ Cardinality(review.application.governance) > MaxGovernance \/ ~RefsOk(review.trace, review.delta)

\* What docs/WAIVERS.md says: the head's content is inspected and reported, so that a run
\* of these commits whose other files are in order has a report of it.  It does not hold for
\* a file beyond the size limit.
HeadWaiversAreReported ==
  /\ stage = "reviewed" /\ BoundTo(bundle, base.commit, head.commit) /\ bundle.rebuilds
  /\ head.config = Unchanged /\ base.accepted /\ base.waivers = NoFile /\ head.waivers.entry # "unreadable"
  /\ ~review.evaluation.refused /\ RefsOk(review.trace, review.delta)
  => ~review.refused

\* What docs/POLICY.md says: every change of a valid configuration emits a finding, which
\* the report of the run then has.  It does not hold for two changes that read alike.
ConfigChangesAreReported ==
  /\ stage = "reviewed" /\ BoundTo(bundle, base.commit, head.commit) /\ bundle.rebuilds
  /\ head.config.state = "modified-valid" /\ Len(head.config.changes) <= MaxGovernance
  /\ base.accepted /\ base.waivers = NoFile /\ head.waivers = NoFile
  /\ ~review.evaluation.refused /\ RefsOk(review.trace, review.delta)
  => ~review.refused

\* What docs/POLICY.md says of GR-PROC-001, GR-NET-001 and GR-ART-001: they trigger on
\* count increases.
CountIncreasesAreReviewed ==
  Reviewed => \A r \in review.delta.records :
    /\ r.kind \in {"count-changed", "stability-changed"} /\ r.of \in {"process-start", "network-connection", "artifact-activity"}
    /\ r.baseOccurrence.coverage = "complete" /\ r.headOccurrence.coverage = "complete"
    /\ r.headOccurrence.total > r.baseOccurrence.total
    => RulesFor(r) \cap {"GR-PROC-001", "GR-NET-001", "GR-ART-001"} # {}
===============================================================================
