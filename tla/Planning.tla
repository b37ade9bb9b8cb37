------------------------------ MODULE Planning ------------------------------
(***************************************************************************)
(* The run plan (internal/pipeline) and its attempts and runner            *)
(* (internal/runner): Build freezes the trusted pipeline, the two source   *)
(* snapshots and the platform's limits; expandAttempts lists what will be  *)
(* executed; MatchCapabilities decides whether a runner may execute it.    *)
(***************************************************************************)
EXTENDS PipelineConfig, Materialize

CONSTANTS
  Platform,      \* the ceilings of PlatformConstraints: a quantity or a count each
  MaxAttempts    \* runner.MaxAttempts

Ceilings == {"cpu", "memory", "disk", "processes", "timeout", "scenarioTimeout", "scenarios",
             "repetitions", "roots", "artifacts", "artifact", "log"}

\* validatePlatformConstraints: positive, and no higher than what a file may ask for.
FileMaximum ==
  [c \in Ceilings |-> CASE c = "scenarios" -> MaxScenarios [] c = "roots" -> MaxRoots
                        [] c = "artifacts" -> MaxArtifacts [] c = "scenarioTimeout" -> MaxOf["timeout"]
                        [] OTHER -> MaxOf[c]]
PlatformValid(p) == \A c \in Ceilings : p[c] \in 1..FileMaximum[c]

ASSUME PlatformAssumption == PlatformValid(Platform) /\ MaxAttempts \in Nat \ {0}

\* enforcePlatform
Requested(p) == [
  cpu |-> {p.resources.cpu}, memory |-> {p.resources.memory}, disk |-> {p.resources.disk},
  processes |-> {p.resources.processes}, timeout |-> {p.resources.timeout},
  scenarioTimeout |-> {p.scenarios[i].timeout : i \in 1..Len(p.scenarios)},
  scenarios |-> {Len(p.scenarios)}, repetitions |-> {p.repetitions}, roots |-> {Len(p.roots)},
  artifacts |-> {Len(p.artifacts)}, artifact |-> {p.artifacts[i].max : i \in 1..Len(p.artifacts)},
  log |-> {p.log} ]
WithinPlatform(p) == \A c \in Ceilings : \A v \in Requested(p)[c] : v <= Platform[c]

\* A source snapshot is what materialization reports of a revision: the commit, the digest
\* of its tree, and how many files, LFS pointers, gitlinks and skipped entries it has
\* (SourceSnapshot).
\* validateSourceSnapshot and validateSourceSummary
SnapshotValid(src, kind) ==
  /\ src.kind = kind
  /\ src.lfs <= src.files /\ src.gitlinks <= src.skipped
  /\ Cardinality(Range(src.limitations)) = Len(src.limitations)

\* validateTrustedConsistency: the configuration and the sources are of the same commits.
TrustedMatches(trusted, base, head) ==
  trusted.error = "none" /\ trusted.base = base.commit /\ trusted.head = head.commit

\* buildDocument with revisionPlan and scenarioPlans; normalizeRunPlan sorts the limitations.
RevisionPlan(src, p) ==
  [kind |-> src.kind, commit |-> src.commit, tree |-> src.tree, manifest |-> src.manifest,
   summary |-> [files |-> src.files, lfs |-> src.lfs, gitlinks |-> src.gitlinks, skipped |-> src.skipped],
   limitations |-> InOrder(Range(src.limitations)), scenarios |-> KeysOf(p.scenarios, "id")]
ScenarioPlan(p, s) ==
  [id |-> s.id, shell |-> s.shell, run |-> s.run, repetitions |-> p.repetitions,
   resources |-> [p.resources EXCEPT !.timeout = s.timeout]]
Plan(p, base, head) ==
  [environment |-> <<p.image, p.workdir>>,
   revisions |-> <<RevisionPlan(base, p), RevisionPlan(head, p)>>,
   scenarios |-> [i \in 1..Len(p.scenarios) |-> ScenarioPlan(p, p.scenarios[i])],
   collection |-> [roots |-> p.roots, artifacts |-> p.artifacts, log |-> p.log],
   ignore |-> p.ignore]

\* Build, or NoPlan.
NoPlan == [error |-> TRUE]
Build(trusted, base, head) ==
  IF /\ SnapshotValid(base, "base") /\ SnapshotValid(head, "head")
     /\ TrustedMatches(trusted, base, head)
     /\ WithinPlatform(trusted.pipeline)
  THEN Plan(trusted.pipeline, base, head) ELSE NoPlan

\* rebuildPlan of internal/inspect: from the plan of a bundle and the configuration of its
\* commits, the plan is built once more; another one is refused (requirePlanEquality).
SnapshotOf(rev) ==
  [kind |-> rev.kind, commit |-> rev.commit, tree |-> rev.tree, manifest |-> rev.manifest,
   files |-> rev.summary.files, lfs |-> rev.summary.lfs, gitlinks |-> rev.summary.gitlinks,
   skipped |-> rev.summary.skipped, limitations |-> rev.limitations]
Rebuilt(trusted, plan) == Build(trusted, SnapshotOf(plan.revisions[1]), SnapshotOf(plan.revisions[2]))

-----------------------------------------------------------------------------
(* Attempts.                                                               *)

\* validatePlanDocument
AttemptCount(plan) ==
  LET count[i \in 0..Len(plan.scenarios)] ==
        IF i = 0 THEN 0 ELSE count[i - 1] + plan.scenarios[i].repetitions * Len(plan.revisions)
  IN  count[Len(plan.scenarios)]
PlanDocumentValid(plan) ==
  /\ Len(plan.revisions) = 2 /\ plan.revisions[1].kind = "base" /\ plan.revisions[2].kind = "head"
  /\ Len(plan.scenarios) > 0
  /\ \A i \in 1..Len(plan.scenarios) : plan.scenarios[i].repetitions > 0
  /\ AttemptCount(plan) <= MaxAttempts

Attempt(rev, s, rep) ==
  [revision |-> rev.kind, commit |-> rev.commit, tree |-> rev.tree, scenario |-> s.id, run |-> s.run,
   timeout |-> s.resources.timeout, repetition |-> rep]

\* The repetitions of a scenario.
Repetitions_LastMissing(rev, s) == [rep \in 1..(s.repetitions - 1) |-> Attempt(rev, s, rep)]
Repetitions(rev, s) == [rep \in 1..s.repetitions |-> Attempt(rev, s, rep)]

\* expandAttempts: revision by revision, scenario by scenario, repetition by repetition.
ExpandAttempts(plan) ==
  IF ~PlanDocumentValid(plan) THEN <<>>
  ELSE FlattenSeq([r \in 1..Len(plan.revisions) |->
         FlattenSeq([i \in 1..Len(plan.scenarios) |->
           Repetitions(plan.revisions[r], plan.scenarios[i])])])

-----------------------------------------------------------------------------
(* Runner capabilities.                                                    *)

Tiers == {"fake", "development", "isolated"}
Features == {"networkDeny", "processEvents", "freshKernel"}
Capabilities == [tier : Tiers, executes : BOOLEAN, synthetic : BOOLEAN, features : SUBSET Features]
Requirements == [intent : {"workload", "synthetic-test", "unknown"}, tiers : SUBSET Tiers,
                 execution : BOOLEAN, syntheticAllowed : BOOLEAN, features : SUBSET Features]

\* ValidateRunnerCapabilities
CapabilitiesValid(c) == c.tier = "fake" => ~c.executes /\ c.synthetic

\* validateRequirements
RequirementsValid(q) ==
  /\ q.intent # "unknown" /\ q.tiers # {}
  /\ q.intent = "synthetic-test" => ~q.execution /\ q.syntheticAllowed
  /\ q.intent = "workload" => q.execution

\* MatchCapabilities: what a runner lacks.
Mismatches(q, c) ==
  If(q.intent = "workload" /\ (~c.executes \/ c.synthetic), "execution-intent")
  \cup If(q.intent = "synthetic-test" /\ (c.executes \/ ~c.synthetic \/ ~q.syntheticAllowed), "execution-intent")
  \cup If(c.tier \notin q.tiers, "isolation-tier")
  \cup If(q.execution /\ ~c.executes, "target-execution")
  \cup If(q.syntheticAllowed /\ ~c.synthetic /\ q.intent = "synthetic-test", "synthetic-evidence")
  \cup (q.features \ c.features)

MayExecute(q, c) == RequirementsValid(q) /\ CapabilitiesValid(c) /\ Mismatches(q, c) = {}
=============================================================================
