------------------------------- MODULE Compare -------------------------------
(***************************************************************************)
(* Comparison (internal/compare): the facts of the base attempts of a      *)
(* scenario against those of its head attempts.  A variant is a semantic   *)
(* digest; what is not complete is never taken for absent.                 *)
(***************************************************************************)
EXTENDS Observe

CONSTANT MaxRecords   \* limit: records of a delta

NoAnchor == <<"no anchor">>
Nothing == <<>>

\* The attempts of one revision of a scenario, by their repetition.
AttemptsOf(trace, scenario, revision) ==
  LET a == trace.attempts
      side == {i \in DOMAIN a : a[i].scenario = scenario /\ a[i].revision = revision}
  IN  [n \in {a[i].repetition : i \in side} |-> a[CHOOSE i \in side : a[i].repetition = n]]
ScenariosOf(trace) == {trace.attempts[i].scenario : i \in DOMAIN trace.attempts}

DigestsOf(attempt) == [i \in DOMAIN attempt.facts |-> attempt.facts[i].digest]
CountOf(digests, d) == Cardinality({i \in DOMAIN digests : digests[i] = d})
Variants(attempts) == UNION {Range(DigestsOf(attempts[i])) : i \in DOMAIN attempts}

AttemptsComplete(attempts) ==
  DOMAIN attempts # {} /\ \A i \in DOMAIN attempts : attempts[i].coverage = "complete"

-----------------------------------------------------------------------------
(* How often a variant occurs *)

Assessment(planned, complete, least, most) ==
  IF complete # planned \/ complete = 0 THEN "not-assessable"
  ELSE IF complete = 1 THEN "single-sample"
  ELSE IF least = most THEN "stable" ELSE "variable"

\* How often one attempt showed a variant; an attempt that is not complete does not say.
RepetitionOccurrence(attempt, d) ==
  [coverage |-> attempt.coverage,
   count |-> IF attempt.coverage = "complete" THEN CountOf(DigestsOf(attempt), d) ELSE 0]

BuildOccurrenceProfile(repetitions) ==
  LET whole == {i \in DOMAIN repetitions : repetitions[i].coverage = "complete"}
      counts == {repetitions[i].count : i \in whole}
      least == IF whole = {} THEN 0 ELSE Min(counts)
      most == IF whole = {} THEN 0 ELSE Max(counts)
      complete == Cardinality(whole)
      planned == Cardinality(DOMAIN repetitions)
  IN  [planned |-> planned, complete |-> complete, least |-> least, most |-> most,
       total |-> FoldFunctionOnSet(+, 0, [i \in whole |-> repetitions[i].count], whole),
       coverage |-> IF complete = planned THEN "complete" ELSE IF complete > 0 THEN "partial" ELSE "none",
       repeatability |-> Assessment(planned, complete, least, most),
       repetitions |-> repetitions]

OccurrenceProfile(attempts, d) ==
  BuildOccurrenceProfile([i \in DOMAIN attempts |-> RepetitionOccurrence(attempts[i], d)])

EmptyOccurrence == [planned |-> 0, complete |-> 0, least |-> 0, most |-> 0, total |-> 0,
                    coverage |-> "none", repeatability |-> "not-assessable", repetitions |-> <<>>]

-----------------------------------------------------------------------------
(* What two variants have in common *)

\* The typed anchor: what a fact is about.
Anchor(d) ==
  LET b == d.body
      about == CASE b.of = "process" -> b.process
                 [] b.of = "filesystem" -> <<b.op, b.path>>
                 [] b.of = "network" -> b.to
                 [] b.of = "artifact" -> b.path
                 [] b.of = "scenario" -> b.status
                 [] b.of = "warning" -> b.code
                 [] b.of = "resource" -> b.limit
  IN  IF b.of = "warning" /\ about = "" THEN NoAnchor ELSE <<d.kind, d.source, about>>

ComparedFields(of) ==
  CASE of = "process" -> {"exit", "duration"}
    [] of \in {"filesystem", "artifact"} -> {"content", "executable"}
    [] of = "network" -> {"result", "duration"}
    [] of = "scenario" -> {"status", "message", "duration"}
    [] of = "warning" -> {"message", "unsupported"}
    [] of = "resource" -> {"observed"}

ChangedFields(b, h) == {f \in ComparedFields(b.body.of) : b.body[f] # h.body[f]}

Mates(d, left) == {x \in left : Anchor(x) = Anchor(d)}

\* One variant is left on either side of an anchor, and a field that is compared differs.
Modified_FirstMatch(b, h, bleft, hleft) ==
  /\ Anchor(b) # NoAnchor /\ Anchor(b) = Anchor(h)
  /\ ChangedFields(b, h) # {}
Modified(b, h, bleft, hleft) ==
  /\ Anchor(b) # NoAnchor /\ Anchor(b) = Anchor(h)
  /\ Mates(b, bleft) = {b} /\ Mates(h, hleft) = {h}
  /\ ChangedFields(b, h) # {}

Ambiguous(d, mine, theirs) ==
  /\ Anchor(d) # NoAnchor /\ Mates(d, theirs) # {}
  /\ Cardinality(Mates(d, mine)) + Cardinality(Mates(d, theirs)) > 2

-----------------------------------------------------------------------------
(* Records *)

\* What a record rests on, weakest first.
Basis(occurrences) ==
  IF \E o \in occurrences : o.repeatability = "variable" THEN "repetition-variable"
  ELSE IF \E o \in occurrences : o.coverage # "complete" THEN "coverage-limited"
  ELSE IF \E o \in occurrences : o.repeatability = "single-sample" THEN "single-sample"
  ELSE "complete-observation"

BasisForAbsence_OwnSide(otherComplete, o) ==
  IF o.coverage # "complete" THEN "coverage-limited"
  ELSE IF o.repeatability = "single-sample" THEN "single-sample"
  ELSE IF o.repeatability = "variable" THEN "repetition-variable" ELSE "complete-observation"
BasisForAbsence(otherComplete, o) ==
  IF ~otherComplete \/ o.coverage # "complete" THEN "coverage-limited"
  ELSE IF o.repeatability = "single-sample" THEN "single-sample"
  ELSE IF o.repeatability = "variable" THEN "repetition-variable" ELSE "complete-observation"

Record(kind, scenario, basis, of, base, head, bocc, hocc, changed) ==
  [kind |-> kind, scenario |-> scenario, basis |-> basis, of |-> of, base |-> base, head |-> head,
   baseOccurrence |-> bocc, headOccurrence |-> hocc, changed |-> changed, ambiguous |-> FALSE]

\* Facts are attached to every record but the ones about order and about a scenario.
HeadSeen(r) == r.of \notin {"sequence", "scenario-coverage"} /\ r.head # Nothing

\* What the identifier of a record covers: it does not name the run, and it is taken
\* before the basis of an absence is set.
RecordID_NoCounts(r) == [r EXCEPT !.basis = "", !.ambiguous = FALSE,
                                  !.baseOccurrence = EmptyOccurrence, !.headOccurrence = EmptyOccurrence]
RecordID(r) == [r EXCEPT !.basis = "", !.ambiguous = FALSE]

CoverageRecord(scenario) ==
  Record("coverage-changed", scenario, "coverage-limited", "scenario-coverage", Nothing, Nothing,
         EmptyOccurrence, EmptyOccurrence, {})

\* The one order in which all repetitions of a side observed the same facts.
StableSequence(attempts) ==
  LET orders == {DigestsOf(attempts[i]) : i \in DOMAIN attempts}
  IN  IF Cardinality(DOMAIN attempts) >= 2 /\ AttemptsComplete(attempts) /\ (\A s, t \in orders : s = t)
      THEN CHOOSE s \in orders : TRUE ELSE Nothing

SameMultiset(s, t) == Len(s) = Len(t) /\ \A d \in Range(s) : CountOf(s, d) = CountOf(t, d)

OrderRecords(scenario, base, head) ==
  LET b == StableSequence(base)
      h == StableSequence(head)
  IN  IF b = Nothing \/ h = Nothing \/ b = h \/ ~SameMultiset(b, h) THEN {}
      ELSE {Record("order-changed", scenario, "complete-observation", "sequence", b, h,
                   EmptyOccurrence, EmptyOccurrence, {"order"})}

\* Both sides know the variant, and it does not occur alike.
OccurrenceRecord(scenario, base, head, d) ==
  LET bo == OccurrenceProfile(base, d)
      ho == OccurrenceProfile(head, d)
  IN  Record(IF bo.repeatability # ho.repeatability THEN "stability-changed" ELSE "count-changed",
             scenario, Basis({bo, ho}), d.kind, <<d>>, <<d>>, bo, ho, {})
OccurrenceRecords(scenario, base, head) ==
  {OccurrenceRecord(scenario, base, head, d)
     : d \in {x \in Variants(base) \cap Variants(head) : OccurrenceProfile(base, x) # OccurrenceProfile(head, x)}}

ModifiedPairs(bleft, hleft) == {p \in bleft \X hleft : Modified(p[1], p[2], bleft, hleft)}

ModifiedRecord(scenario, base, head, b, h) ==
  LET bo == OccurrenceProfile(base, b)
      ho == OccurrenceProfile(head, h)
  IN  Record("modified", scenario, Basis({bo, ho}), h.kind, <<b>>, <<h>>, bo, ho, ChangedFields(b, h))
ModifiedRecords(scenario, base, head, pairs) ==
  {ModifiedRecord(scenario, base, head, p[1], p[2]) : p \in pairs}

\* Only one side knows the variant; whether it is gone, new or merely unseen depends on
\* how much of the other side was observed.
RemovedRecord(scenario, base, head, d) ==
  LET o == OccurrenceProfile(base, d)
  IN  [Record(IF AttemptsComplete(head) THEN "removed" ELSE "coverage-changed", scenario,
              BasisForAbsence(AttemptsComplete(head), o), d.kind, <<d>>, Nothing, o, EmptyOccurrence, {})
         EXCEPT !.ambiguous = Ambiguous(d, Variants(base) \ Variants(head), Variants(head) \ Variants(base))]
AddedRecord(scenario, base, head, d) ==
  LET o == OccurrenceProfile(head, d)
  IN  [Record(IF AttemptsComplete(base) THEN "added" ELSE "coverage-changed", scenario,
              BasisForAbsence(AttemptsComplete(base), o), d.kind, Nothing, <<d>>, EmptyOccurrence, o, {})
         EXCEPT !.ambiguous = Ambiguous(d, Variants(head) \ Variants(base), Variants(base) \ Variants(head))]

CompareScenario(trace, scenario) ==
  LET base == AttemptsOf(trace, scenario, "base")
      head == AttemptsOf(trace, scenario, "head")
      bleft == Variants(base) \ Variants(head)
      hleft == Variants(head) \ Variants(base)
      pairs == ModifiedPairs(bleft, hleft)
  IN  OccurrenceRecords(scenario, base, head)
      \cup ModifiedRecords(scenario, base, head, pairs)
      \cup {RemovedRecord(scenario, base, head, d) : d \in bleft \ {p[1] : p \in pairs}}
      \cup {AddedRecord(scenario, base, head, d) : d \in hleft \ {p[2] : p \in pairs}}
      \cup OrderRecords(scenario, base, head)
      \cup (IF AttemptsComplete(base) /\ AttemptsComplete(head) THEN {} ELSE {CoverageRecord(scenario)})

\* The inventory is the plan's: distinct attempts, base before head.
TraceIsValid(trace) ==
  LET a == trace.attempts
  IN  /\ a # <<>>
      /\ \A i, j \in DOMAIN a : i < j =>
           /\ <<a[i].revision, a[i].scenario, a[i].repetition>> # <<a[j].revision, a[j].scenario, a[j].repetition>>
           /\ ~(a[i].revision = "head" /\ a[j].revision = "base")

CompareTraces(trace) ==
  LET records == UNION {CompareScenario(trace, s) : s \in ScenariosOf(trace)}
  IN  [refused |-> trace.refused \/ ~TraceIsValid(trace) \/ Cardinality(records) > MaxRecords,
       records |-> records, executionComplete |-> trace.executionComplete,
       evidenceComplete |-> trace.evidenceComplete, context |-> trace.context]
==============================================================================
