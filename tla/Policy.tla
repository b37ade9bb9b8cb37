-------------------------------- MODULE Policy --------------------------------
(***************************************************************************)
(* The strict policy (internal/policy), the waiver files it honours        *)
(* (internal/waiver) and the checks of the report built from both          *)
(* (internal/report).  Severity only orders and decorates; it is left out. *)
(***************************************************************************)
EXTENDS Compare

CONSTANTS
  MaxFindings,        \* limit: findings of an evaluation
  MaxGovernance,      \* limit: governance findings of an application
  MaxRefs,            \* limit: event references of a record of the report
  MaxRefsTotal,       \* limit: event references of a report
  MaxWaivers,         \* limit: waivers of a file
  MaxLifetime         \* limit: time between a waiver's issue and its expiry

-----------------------------------------------------------------------------
(* Rules about one record *)

Waivable == {"GR-PROC-001", "GR-FS-001", "GR-FS-002", "GR-NET-001", "GR-ART-001", "GR-DET-001", "GR-LIMIT-001"}
RecordRules == Waivable \cup {"GR-OBS-001"}

HeadCountIncrease(r) ==
  LET b == r.baseOccurrence
      h == r.headOccurrence
  IN  b.coverage # "none" /\ h.coverage # "none" /\ (h.total > b.total \/ h.most > b.most)

\* The head did something that the base is not known to do.
HeadPositive(r) ==
  /\ HeadSeen(r)
  /\ \/ r.kind \in {"added", "modified", "coverage-changed"}
     \/ r.kind = "count-changed" /\ HeadCountIncrease(r)

ProcessIsNew(r) == r.of = "process-start" /\ (r.kind = "modified" => ~(r.changed \subseteq {"exit", "duration"}))

ExecutableHead(r) ==
  /\ PayloadOf(r.of) \in {"filesystem", "artifact"} /\ r.head[1].body.executable
  /\ r.kind = "modified" => "executable" \in r.changed \/ HeadCountIncrease(r)

OutsideRoots(r) ==
  PayloadOf(r.of) = "filesystem" /\ r.head[1].body.path.namespace = "absolute-unmapped"
KnownOperations == {"create", "write", "delete", "rename", "chmod", "permission-change",
                    "read", "stat", "metadata", "metadata-read"}

RepeatabilityRank(a) ==
  CASE a = "stable" -> 0 [] a = "single-sample" -> 1 [] a = "variable" -> 2 [] a = "not-assessable" -> 3

Triggers(rule, r) ==
  CASE rule = "GR-OBS-001" ->
         PayloadOf(r.of) = "warning" /\ r.kind \in {"added", "modified", "coverage-changed"}
    [] rule = "GR-PROC-001" -> HeadPositive(r) /\ ProcessIsNew(r)
    [] rule = "GR-FS-001" -> HeadPositive(r) /\ ExecutableHead(r)
    [] rule = "GR-FS-002" -> HeadPositive(r) /\ OutsideRoots(r)
    [] rule = "GR-NET-001" -> HeadPositive(r) /\ PayloadOf(r.of) = "network"
    [] rule = "GR-ART-001" -> HeadPositive(r) /\ PayloadOf(r.of) = "artifact"
    [] rule = "GR-LIMIT-001" -> HeadPositive(r) /\ PayloadOf(r.of) = "resource"
    [] rule = "GR-DET-001" ->
         /\ r.kind = "stability-changed"
         /\ RepeatabilityRank(r.headOccurrence.repeatability) > RepeatabilityRank(r.baseOccurrence.repeatability)

RulesFor(r) ==
  IF r.kind = "coverage-changed" /\ ~HeadSeen(r) THEN {"GR-OBS-001"}
  ELSE {rule \in RecordRules : Triggers(rule, r)}

\* A rule cannot tell what an operation it does not know does outside the roots.
UndecidableFor(r) ==
  HeadPositive(r) /\ OutsideRoots(r) /\ r.head[1].body.op \notin KnownOperations

-----------------------------------------------------------------------------
(* Findings *)

Ranks == [low |-> 0, medium |-> 1, high |-> 2]
Weaker(a, b) == IF Ranks[a] <= Ranks[b] THEN a ELSE b

SourceOf(r) == IF r.of \in {"sequence", "scenario-coverage"} THEN "" ELSE (r.base \o r.head)[1].source

\* How sure a finding is: what it rests on, capped by who reported it.
Confidence(r) ==
  LET earned == CASE r.basis = "complete-observation" -> "high"
                  [] r.basis \in {"single-sample", "repetition-variable"} -> "medium"
                  [] OTHER -> "low"
      cap == CASE SourceOf(r) \in {"guest", "workload", "static"} -> "medium"
               [] SourceOf(r) \in {"model", "synthetic"} -> "low"
               [] OTHER -> "high"
  IN  Weaker(earned, cap)

RuleConfidence(rule, r) ==
  IF rule # "GR-DET-001" THEN Confidence(r)
  ELSE IF r.basis = "coverage-limited" \/ r.headOccurrence.coverage # "complete" THEN "low" ELSE "medium"

Finding(rule, records, scope, scenarios, confidence, disposition) ==
  [rule |-> rule, records |-> records, scope |-> scope, scenarios |-> scenarios,
   confidence |-> confidence, disposition |-> disposition]

\* What the identifier of a finding covers: neither the run nor the revisions, so that a
\* waiver outlives them.
FindingID(f) == <<f.rule, f.records, f.scope, f.scenarios>>

RecordFindings(r) ==
  {Finding(rule, {RecordID(r)}, <<"record">>, {r.scenario}, RuleConfidence(rule, r), "requires-review")
     : rule \in RulesFor(r)}

Incomplete(delta) == ~delta.executionComplete \/ ~delta.evidenceComplete
NotReal(context) == context.synthetic \/ ~context.executes

GlobalFindings(delta) ==
  IF Incomplete(delta) THEN {Finding("GR-OBS-001", {}, <<"global-incomplete">>, {}, "high", "failed")}
  ELSE IF NotReal(delta.context)
         THEN {Finding("GR-OBS-001", {}, <<"global-synthetic">>, {}, "high", "requires-review")}
  ELSE {}

Overall(dispositions) ==
  IF "failed" \in dispositions THEN "failed"
  ELSE IF "requires-review" \in dispositions THEN "requires-review" ELSE "passed"

DeltaIsValid(delta) == \A r, s \in delta.records : RecordID(r) = RecordID(s) => r = s

Evaluate(delta) ==
  LET findings == GlobalFindings(delta) \cup UNION {RecordFindings(r) : r \in delta.records}
  IN  [refused |-> \/ delta.refused \/ ~DeltaIsValid(delta)
                   \/ \E r \in delta.records : UndecidableFor(r)
                   \/ Cardinality(findings) > MaxFindings,
       findings |-> findings]

-----------------------------------------------------------------------------
(* Waiver files.  A file is [entry, text]; a text is how it is spelled, whether it is a   *)
(* well-formed document, and its waivers in order.                                        *)

EmptyText == [spelling |-> "", wellFormed |-> FALSE, waivers |-> <<>>]

WaiverIsValid(w) ==
  w.rule \in Waivable /\ w.issued < w.expires /\ w.expires - w.issued <= MaxLifetime

\* No two waivers of a file share an identifier or a finding.
DistinctWaivers_ByTarget(ws) ==
  \A i, j \in DOMAIN ws : i # j => ws[i].finding # ws[j].finding
DistinctWaivers(ws) ==
  \A i, j \in DOMAIN ws : i # j => ws[i].id # ws[j].id /\ ws[i].finding # ws[j].finding

ParseOk(text) ==
  /\ text.wellFormed /\ Len(text.waivers) <= MaxWaivers
  /\ \A i \in DOMAIN text.waivers : WaiverIsValid(text.waivers[i])
  /\ DistinctWaivers(text.waivers)

\* The order of waivers means nothing.
Meaning(text) == Range(text.waivers)

\* A file beyond the size limit is one that cannot be read: the error of gitstore is not
\* the one that LoadTrusted reports as invalid content.
Readable(f) == f.entry \notin {"unreadable", "too-large"}

\* The states are those of files that can be read.
BaseState(f) ==
  CASE f.entry = "absent" -> "absent"
    [] f.entry = "other-kind" -> "unsupported"
    [] f.entry = "file" /\ ParseOk(f.text) -> "valid"
    [] OTHER -> "invalid"

BaseWaivers_OrHead(base, head) ==
  IF BaseState(base) = "valid" THEN base.text.waivers
  ELSE IF BaseState(head) = "valid" THEN head.text.waivers ELSE <<>>
BaseWaivers(base, head) == IF BaseState(base) = "valid" THEN base.text.waivers ELSE <<>>

\* The bytes the head is compared with: none were kept of a base that is no readable file.
BaseRaw(f) == IF f.entry = "file" THEN f.text ELSE EmptyText

HeadState(base, head) ==
  IF head.entry = "absent" THEN IF base.entry = "absent" THEN "absent-on-both" ELSE "removed"
  ELSE IF head.entry = "other-kind" THEN "unsupported"
  ELSE IF base.entry # "absent" /\ head.text = BaseRaw(base) THEN "unchanged"
  ELSE IF ~ParseOk(head.text) THEN "modified-invalid"
  ELSE IF BaseState(base) # "valid" THEN "added"
  ELSE IF Meaning(base.text) = Meaning(head.text) THEN "equivalent"
  ELSE "modified-valid"

ChangedIn(w, v) ==
  {k \in {"target", "reason", "issued", "expires"} :
     IF k = "target" THEN <<w.finding, w.rule>> # <<v.finding, v.rule>> ELSE w[k] # v[k]}
CompareSets(base, head) ==
  {<<w.id, "removed">> : w \in {x \in base : \A y \in head : y.id # x.id}}
  \cup {<<w.id, "added">> : w \in {x \in head : \A y \in base : y.id # x.id}}
  \cup UNION {{<<p[1].id, k>> : k \in ChangedIn(p[1], p[2])} : p \in {q \in base \X head : q[1].id = q[2].id}}

-----------------------------------------------------------------------------
(* Applying the waivers of the base *)

InWindow(w, at) == w.issued <= at /\ at < w.expires

Targets(w, findings) == {f \in findings : FindingID(f) = w.finding}
Applies(w, f) == f.rule = w.rule /\ f.disposition = "requires-review" /\ f.rule \in Waivable

WaiverStatus(w, findings, at) ==
  IF ~InWindow(w, at) THEN IF at < w.issued THEN "not-yet-valid" ELSE "expired"
  ELSE IF Targets(w, findings) = {} THEN "unused"
  ELSE IF \E f \in Targets(w, findings) : f.rule # w.rule THEN "target-rule-mismatch"
  ELSE IF \A f \in Targets(w, findings) : ~Applies(w, f) THEN "target-ineligible"
  ELSE "applied"

\* The governance findings: one for every change of the configuration and of the waivers,
\* and one for every waiver of the base that did not apply, with its place in the file.
Governance(place, rule, scope, disposition) ==
  [place |-> place, finding |-> Finding(rule, {}, scope, {}, "high", disposition)]

\* What a finding says of a change of the configuration is its path, kind and effect, and
\* of a path no more than fits: changes in two places of the list may read alike.
ConfigGovernance(config) ==
  CASE config.state \in {"unchanged", "equivalent"} -> {}
    [] config.state = "modified-valid" ->
         {Governance(i, "GR-CONFIG-001", <<"config", config.changes[i]>>, "requires-review")
            : i \in DOMAIN config.changes}
    [] OTHER -> {Governance(0, "GR-CONFIG-001", <<"config-state", config.state>>, "requires-review")}

StatusGovernance(statuses) ==
  {Governance(i, "GR-WAIVER-001", <<"status", statuses[i].id, statuses[i].status>>, "requires-review")
     : i \in {j \in DOMAIN statuses : statuses[j].status # "applied"}}

WaiverGovernance(base, head, statuses) ==
  LET state == HeadState(base, head)
      changes == IF state = "modified-valid" THEN CompareSets(Meaning(base.text), Meaning(head.text)) ELSE {}
  IN  {Governance(0, "GR-WAIVER-001", <<"base-state", s>>, "failed")
         : s \in {BaseState(base)} \cap {"invalid", "unsupported"}}
      \cup StatusGovernance(statuses)
      \cup {Governance(0, "GR-WAIVER-001", <<"head-state", s>>, "requires-review")
              : s \in {state} \cap {"added", "removed", "modified-invalid", "unsupported"}}
      \cup {Governance(0, "GR-WAIVER-001", <<"head-change", c>>, "requires-review") : c \in changes}

Applied(origin, f, effective) == [origin |-> origin, finding |-> f, effective |-> effective]

Apply(evaluation, config, base, head, at) ==
  LET waivers == BaseWaivers(base, head)
      statuses == [i \in DOMAIN waivers |->
                     [id |-> waivers[i].id, status |-> WaiverStatus(waivers[i], evaluation.findings, at)]]
      waived(f) == \E i \in DOMAIN waivers :
                     statuses[i].status = "applied" /\ waivers[i].finding = FindingID(f)
      builtin == {Applied("builtin", f, IF waived(f) THEN "waived" ELSE f.disposition) : f \in evaluation.findings}
      governance == ConfigGovernance(config) \cup WaiverGovernance(base, head, statuses)
      governed == {Applied("governance", g.finding, g.finding.disposition) : g \in governance}
  IN  [refused |-> evaluation.refused \/ ~Readable(base) \/ ~Readable(head) \/ Cardinality(governance) > MaxGovernance,
       builtin |-> builtin, governance |-> governance, statuses |-> statuses,
       overall |-> Overall({a.effective : a \in builtin \cup governed})]

-----------------------------------------------------------------------------
(* The report refuses what does not hang together. *)

BindingOk(delta, application) ==
  /\ \A a, b \in application.builtin : FindingID(a.finding) = FindingID(b.finding) => a = b
  /\ \A g, h \in application.governance : FindingID(g.finding) = FindingID(h.finding) => g = h
  /\ \A a \in application.builtin, g \in application.governance : FindingID(a.finding) # FindingID(g.finding)
  /\ \A a \in application.builtin : a.finding.records \subseteq {RecordID(r) : r \in delta.records}

\* The events behind one side of a record: every fact of the variant has one.
EvidenceRefs(trace, r, revision) ==
  LET a == trace.attempts
      side == {i \in DOMAIN a : a[i].scenario = r.scenario /\ a[i].revision = revision}
  IN  UNION {{<<i, j>> : j \in {k \in DOMAIN a[i].facts : <<a[i].facts[k].digest>> = r[revision]}} : i \in side}

\* A record refers to the events of a side twice, under the side and under both; a finding
\* refers to those of the head, if there are any.
RefsOk(trace, delta) ==
  LET side(r, revision) == Cardinality(EvidenceRefs(trace, r, revision))
      own(r) == 2 * (side(r, "base") + side(r, "head"))
      cited(r) == IF side(r, "head") > 0 THEN side(r, "head") ELSE side(r, "base")
  IN  /\ \A r \in delta.records : own(r) <= MaxRefs
      /\ MapThenSumSet(LAMBDA r : own(r) + Cardinality(RulesFor(r)) * cited(r), delta.records) <= MaxRefsTotal
===============================================================================
