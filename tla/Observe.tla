------------------------------- MODULE Observe -------------------------------
(***************************************************************************)
(* Normalization (internal/observe): the events of one attempt become      *)
(* facts that do not depend on process numbers, on wall-clock time (when   *)
(* the plan ignores it) or on where the workspace is mounted.  A digest is *)
(* the value it is computed from.                                          *)
(***************************************************************************)
EXTENDS Integers, Sequences, SequencesExt, FiniteSets, FiniteSetsExt

CONSTANTS
  Workdir,            \* path of the plan's execution environment, a sequence of names
  CollectionRoots,    \* sequence of paths
  MaxGenerations,     \* limit: processes started in one attempt, per source
  MaxActive,          \* limit: processes running in one attempt, per source
  MaxFacts            \* limit: facts of a whole run

TimestampField == "event.timestamp"

\* The payload an event of a kind must carry, and nothing else; no event is of another kind.
PayloadOf(kind) ==
  CASE kind \in {"process-start", "process-exit"} -> "process"
    [] kind \in {"filesystem-create", "filesystem-read", "filesystem-write",
                  "filesystem-delete", "filesystem-rename", "filesystem-chmod"} -> "filesystem"
    [] kind \in {"dns-query", "network-connection"} -> "network"
    [] kind = "artifact-activity" -> "artifact"
    [] kind \in {"scenario-started", "scenario-completed"} -> "scenario"
    [] kind \in {"observer-warning", "unsupported-observation"} -> "warning"
    [] kind = "resource-limit" -> "resource"
    [] OTHER -> "unsupported"

Sources == {"host", "broker", "sandbox", "guest", "workload", "static", "model", "synthetic"}

EventIsValid(e) ==
  e.source \in Sources /\ PayloadOf(e.kind) # "unsupported" /\ e.body.of = PayloadOf(e.kind)

-----------------------------------------------------------------------------
(* Paths *)

\* The working directory is root 0; a collection root that repeats an earlier root gets
\* no number.
RootAliases ==
  LET fresh(i) == /\ CollectionRoots[i] # Workdir
                  /\ \A j \in 1..(i - 1) : CollectionRoots[j] # CollectionRoots[i]
      number(i) == Cardinality({j \in 1..i : fresh(j)})
  IN  {[namespace |-> "workdir", index |-> 0, root |-> Workdir]}
      \cup {[namespace |-> "collection", index |-> number(i), root |-> CollectionRoots[i]]
              : i \in {j \in DOMAIN CollectionRoots : fresh(j)}}

\* An absolute path is taken relative to the longest root above it.
NormalizedPath(p) ==
  LET above == {r \in RootAliases : IsPrefix(r.root, p.names)}
      best == CHOOSE r \in above : \A s \in above : Len(s.root) <= Len(r.root)
  IN  CASE p.form = "absolute" /\ above # {} ->
             [namespace |-> best.namespace, index |-> best.index,
              rest |-> SubSeq(p.names, Len(best.root) + 1, Len(p.names))]
        [] p.form = "absolute" /\ above = {} -> [namespace |-> "absolute-unmapped", index |-> 0, rest |-> p.names]
        [] p.form = "relative" -> [namespace |-> "relative", index |-> 0, rest |-> p.names]
        [] OTHER -> [namespace |-> "opaque-invalid", index |-> 0, rest |-> p.names]

-----------------------------------------------------------------------------
(* Time and processes, both kept apart for every source *)

NewAttemptState == [active |-> <<>>, occurrence |-> <<>>, generations |-> <<>>, clock |-> <<>>]

Known(f, x, default) == IF x \in DOMAIN f THEN f[x] ELSE default
Set(f, x, v) == [y \in DOMAIN f \cup {x} |-> IF y = x THEN v ELSE f[y]]
Unset(f, x) == [y \in DOMAIN f \ {x} |-> f[y]]

\* The time of an event is the time since the first event of its source.
Timing(st, e) ==
  LET clock == Known(st.clock, e.source, [origin |-> e.at, last |-> e.at])
  IN  [since |-> e.at - clock.origin, regressed |-> e.at < clock.last]
Clocked(st, e) ==
  [st EXCEPT !.clock = Set(@, e.source, [origin |-> Known(@, e.source, [origin |-> e.at]).origin, last |-> e.at])]

ActiveOf(st, source) == {k \in DOMAIN st.active : k[1] = source}

\* A process is known by what started it, what it runs and how often that happened
\* before; its number only finds it again while it is active.
Generation(st, source, b) ==
  LET parent == <<source, b.ppid>>
      relation == IF b.ppid = 0 THEN "root"
                  ELSE IF parent \in DOMAIN st.active THEN "known-parent" ELSE "unresolved-parent"
      parentID == IF relation = "known-parent" THEN st.active[parent].stable ELSE <<relation>>
      seed == <<source, parentID, NormalizedPath(b.exe)>>
      nth == Known(st.occurrence, seed, 0) + 1
  IN  [stable |-> <<seed, nth>>, parent |-> parentID, relation |-> relation, seed |-> seed, nth |-> nth]

ProcessLimitHit(st, source) ==
  \/ Known(st.generations, source, 0) + 1 > MaxGenerations
  \/ Cardinality(ActiveOf(st, source)) + 1 > MaxActive

StartLimits(st, source, b) ==
  {x \in {"active-pid-reuse", "unresolved-parent"} :
     CASE x = "active-pid-reuse" -> <<source, b.pid>> \in DOMAIN st.active
       [] x = "unresolved-parent" -> Generation(st, source, b).relation = "unresolved-parent"}

ProcessStart_ByNumber(st, source, b) ==
  LET g == [Generation(st, source, b) EXCEPT !.stable = <<@, b.pid>>]
  IN  [st EXCEPT !.active = Set(@, <<source, b.pid>>, g),
                 !.occurrence = Set(@, g.seed, g.nth),
                 !.generations = Set(@, source, Known(@, source, 0) + 1)]
ProcessStart(st, source, b) ==
  LET g == Generation(st, source, b)
  IN  [st EXCEPT !.active = Set(@, <<source, b.pid>>, g),
                 !.occurrence = Set(@, g.seed, g.nth),
                 !.generations = Set(@, source, Known(@, source, 0) + 1)]

UnknownActor == [stable |-> <<"unresolved-actor">>, parent |-> <<"none">>, relation |-> "unresolved-actor"]
ExitedProcess(st, source, b) == Known(st.active, <<source, b.pid>>, UnknownActor)
ProcessExit(st, source, b) == [st EXCEPT !.active = Unset(@, <<source, b.pid>>)]

-----------------------------------------------------------------------------
(* Facts *)

ProcessBody(g, b) ==
  [of |-> "process", process |-> g.stable, parent |-> g.parent, relation |-> g.relation,
   exe |-> NormalizedPath(b.exe), exit |-> b.exit, duration |-> b.duration]

BodyOf(st, e, after) ==
  LET b == e.body
  IN  CASE e.kind = "process-start" -> ProcessBody(after.active[<<e.source, b.pid>>], b)
        [] e.kind = "process-exit" -> ProcessBody(ExitedProcess(st, e.source, b), b)
        [] b.of \in {"filesystem", "artifact"} -> [b EXCEPT !.path = NormalizedPath(@)]
        [] OTHER -> b

FactLimits(st, e) ==
  (IF Timing(st, e).regressed THEN {"clock-regression"} ELSE {})
  \cup (CASE e.kind = "process-start" -> StartLimits(st, e.source, e.body)
          [] e.kind = "process-exit" /\ ExitedProcess(st, e.source, e.body) = UnknownActor -> {"unresolved-actor"}
          [] e.body.of = "warning" /\ e.body.unsupported -> {"unsupported-observation"}
          [] OTHER -> {})

AfterEvent(st, e) ==
  LET timed == Clocked(st, e)
  IN  CASE e.kind = "process-start" -> ProcessStart(timed, e.source, e.body)
        [] e.kind = "process-exit" -> ProcessExit(timed, e.source, e.body)
        [] OTHER -> timed

EventRefused(st, e) ==
  \/ ~EventIsValid(e)
  \/ e.kind = "process-start" /\ ProcessLimitHit(st, e.source)

\* What the semantic digest covers: everything, durations too, but the process number, the
\* limitations and, when the trusted plan ignores it, the time of the event.
SemanticDigest(ignore, st, e, after) ==
  [kind |-> e.kind, source |-> e.source, body |-> BodyOf(st, e, after),
   timing |-> IF TimestampField \in ignore THEN <<>> ELSE <<Timing(st, e)>>]

\* One call of the callback of WalkEvents.
NormalizeEvent(ignore, acc, e) ==
  IF acc.refused \/ EventRefused(acc.state, e) THEN [acc EXCEPT !.refused = TRUE]
  ELSE LET after == AfterEvent(acc.state, e)
       IN  [acc EXCEPT !.state = after,
                       !.facts = Append(@, [digest |-> SemanticDigest(ignore, acc.state, e, after),
                                            limits |-> FactLimits(acc.state, e)])]

NormalizeAttempt(ignore, events) ==
  LET after[i \in 0..Len(events)] ==
        IF i = 0 THEN [state |-> NewAttemptState, facts |-> <<>>, refused |-> FALSE]
        ELSE NormalizeEvent(ignore, after[i - 1], events[i])
  IN  after[Len(events)]

\* An attempt without a result, or without events in a run that did not complete, is not
\* known to have behaved in any way.
Coverage(attempt, executionComplete) ==
  IF ~attempt.result \/ (attempt.events = <<>> /\ ~executionComplete) THEN "incomplete" ELSE "complete"

\* bundle.attempts is the plan's expansion, base before head; walked is what the callback
\* has made of the events of each.
Trace(bundle, walked) ==
  [refused |-> \/ FoldLeft(LAMBDA n, w : n + Len(w.facts), 0, walked) > MaxFacts
               \/ \E i \in DOMAIN walked : walked[i].refused,
   attempts |-> [i \in DOMAIN walked |->
                   [revision |-> bundle.attempts[i].revision, scenario |-> bundle.attempts[i].scenario,
                    repetition |-> bundle.attempts[i].repetition,
                    coverage |-> Coverage(bundle.attempts[i], bundle.executionComplete),
                    facts |-> walked[i].facts]],
   executionComplete |-> bundle.executionComplete, evidenceComplete |-> bundle.evidenceComplete,
   context |-> bundle.runner]

Normalize(bundle, ignore) ==
  Trace(bundle, [i \in DOMAIN bundle.attempts |-> NormalizeAttempt(ignore, bundle.attempts[i].events)])
==============================================================================
