------------------------------ MODULE Evidence ------------------------------
(***************************************************************************)
(* Evidence bundles (internal/evidence): what a writing session does with  *)
(* each call, and when the strict reader accepts a bundle.                 *)
(*                                                                         *)
(* A session is a record; an operation takes the session and returns the   *)
(* session after it, in which state "failed" stands for the error it       *)
(* returns.  The parameter `fault' of an operation says that a file        *)
(* operation under it fails, `dead' that its context is done.              *)
(*                                                                         *)
(* A file's content is the value it encodes.  A digest is the content it   *)
(* was computed from: equal digests are equal contents.  A bundle is a     *)
(* function from the paths of its files to their contents.                 *)
(***************************************************************************)
EXTENDS Integers, Sequences, FiniteSets, Functions

CONSTANTS
  N,                      \* attempts of the plan; attempt a is the a-th in plan order
  Paths,                  \* logical artifact paths; their order is the order of the integers
  MaxEventsPerAttempt,    \* Limits.MaxEventsPerAttempt
  MaxEventsPerBundle,     \* Limits.MaxEventsPerBundle
  MaxLogBytesPerStream,   \* Limits.MaxLogBytesPerStream
  MaxTotalLogBytes,       \* Limits.MaxTotalLogBytes
  MaxArtifactsPerAttempt, \* Limits.MaxArtifactsPerAttempt
  MaxTotalArtifactBytes   \* Limits.MaxTotalArtifactBytes, an artifact being one byte

Attempts == 1..N
Streams == {"stdout", "stderr"}

ASSUME EvidenceAssumption ==
  /\ N \in Nat \ {0}
  /\ Paths \subseteq Nat
  /\ {MaxEventsPerAttempt, MaxEventsPerBundle, MaxLogBytesPerStream, MaxTotalLogBytes,
      MaxArtifactsPerAttempt, MaxTotalArtifactBytes} \subseteq Nat \ {0}

-----------------------------------------------------------------------------
(* Files of a bundle, CaptureState and Disposition.                        *)

Plan == <<"plan">>
Execution == <<"execution">>
ManifestFile == <<"manifest">>
EventsOf(a) == <<"events", a>>
LogOf(a, st) == <<st, a>>
IndexOf(a) == <<"index", a>>
ResultOf(a) == <<"result", a>>
ObjectOf(d) == <<"object", d>>

AttemptFiles(a) == {EventsOf(a), LogOf(a, "stdout"), LogOf(a, "stderr"), IndexOf(a), ResultOf(a)}

CaptureState == {"not_provided", "captured", "captured_empty", "truncated", "omitted_limit"}
Omitted == {"omitted_limit", "omitted_symlink", "omitted_special"}

NoLog == [file |-> "none", stored |-> 0, observed |-> 0, truncated |-> FALSE]

PlanContent == [plan |-> N]
EventsContent(es) == [events |-> es]
LogContent(k) == [bytes |-> k]

\* Writer.Begin: the staging directory with a directory for every attempt and plan.json.
Begin == [
  state      |-> "active",
  next       |-> 0,                      \* nextSequence
  current    |-> 1,                      \* currentAttempt
  incomplete |-> FALSE,                  \* evidenceIncomplete
  events     |-> [a \in Attempts |-> <<>>],
  eventsOpen |-> [a \in Attempts |-> FALSE],
  log        |-> [a \in Attempts |-> [st \in Streams |-> NoLog]],
  arts       |-> [a \in Attempts |-> <<>>],
  states     |-> [a \in Attempts |-> [events |-> "not_provided", stdout |-> "not_provided",
                                      stderr |-> "not_provided", artifacts |-> "not_provided",
                                      result |-> "not_provided"]],
  objects    |-> {},                     \* objectDigests
  entries    |-> [p \in {Plan} |-> PlanContent],
  files      |-> [p \in {Plan} |-> PlanContent] ]

\* Session.fail
Fail(s) == [s EXCEPT !.state = "failed"]

Put(f, p, c) == [q \in DOMAIN f \cup {p} |-> IF q = p THEN c ELSE f[q]]

\* Session.addEntry: a path is listed once.
AddEntry(s, p, d) ==
  IF p \in DOMAIN s.entries THEN Fail(s) ELSE [s EXCEPT !.entries = Put(@, p, d)]

\* Session.writePayload: an exclusive create, so a path that exists fails.
WritePayload(s, p, c, fault) ==
  IF fault \/ p \in DOMAIN s.files THEN Fail(s)
  ELSE AddEntry([s EXCEPT !.files = Put(@, p, c)], p, c)

-----------------------------------------------------------------------------
(* Events.                                                                 *)

\* Session.closeEvents: list the events file, if it is open.
CloseEvents(s, a, fault) ==
  IF ~s.eventsOpen[a] THEN s
  ELSE IF fault THEN Fail(s)
  ELSE AddEntry([s EXCEPT !.eventsOpen[a] = FALSE,
                          !.states[a].events = IF s.events[a] = <<>> THEN "captured_empty"
                                               ELSE "captured"],
                EventsOf(a), EventsContent(s.events[a]))

\* validateEventRoute: the next number, and never an earlier attempt again.
RightOrder(s, a, n) == n = s.next + 1 /\ a >= s.current

TotalEvents(s) == SumFunction([a \in Attempts |-> Len(s.events[a])])

AppendEvent(s, a, e) ==
  [s EXCEPT !.events[a] = Append(@, e), !.states[a].events = "captured",
            !.files = Put(@, EventsOf(a), EventsContent(Append(s.events[a], e)))]

\* Session.Emit of the event numbered n of attempt a.
Emit(s, a, n, kind, dead, fault) ==
  IF s.state # "active" THEN s
  ELSE IF dead \/ fault \/ ~RightOrder(s, a, n) THEN Fail(s)
  ELSE LET routed == [(IF a > s.current THEN CloseEvents(s, s.current, FALSE) ELSE s)
                        EXCEPT !.current = a, !.next = n, !.eventsOpen[a] = TRUE]
       IN  IF Len(s.events[a]) >= MaxEventsPerAttempt \/ TotalEvents(s) >= MaxEventsPerBundle
           THEN Fail(routed)
           ELSE AppendEvent(routed, a, [n |-> n, kind |-> kind])

-----------------------------------------------------------------------------
(* Logs.                                                                   *)

OpenLog(s, a, st, dead, fault) ==
  IF s.state # "active" THEN s
  ELSE IF dead \/ fault \/ s.log[a][st].file # "none" THEN Fail(s)
  ELSE [s EXCEPT !.log[a][st].file = "open", !.states[a][st] = "captured_empty",
                 !.files = Put(@, LogOf(a, st), LogContent(0))]

TotalLogBytes(s) ==
  SumFunction([a \in Attempts |-> s.log[a]["stdout"].stored + s.log[a]["stderr"].stored])

Least(x, y) == IF x < y THEN x ELSE y

\* What is left of both limits (LogCapture.Write).
LogRemaining(s, l) == Least(MaxLogBytesPerStream - l.stored, MaxTotalLogBytes - TotalLogBytes(s))

\* LogCapture.Write of k bytes: what does not fit is dropped and the log is truncated.
WriteLog(s, a, st, k, fault) ==
  LET l == s.log[a][st]
      rest == LogRemaining(s, l)
      stored == IF rest > 0 THEN Least(k, rest) ELSE 0
  IN  IF s.state # "active" \/ l.file # "open" THEN s
      ELSE IF fault /\ stored > 0 THEN Fail(s)
      ELSE [s EXCEPT !.log[a][st] = [l EXCEPT !.stored = @ + stored, !.observed = @ + k,
                                             !.truncated = @ \/ k > rest],
                     !.incomplete = @ \/ k > rest,
                     !.files = Put(@, LogOf(a, st), LogContent(l.stored + stored))]

\* LogCapture.MarkTruncated(0)
MarkTruncated(s, a, st) ==
  IF s.state # "active" \/ s.log[a][st].file # "open" THEN s
  ELSE [s EXCEPT !.log[a][st].truncated = TRUE, !.log[a][st].observed = @ + 1,
                 !.incomplete = TRUE]

LogState(l) ==
  IF l.truncated THEN "truncated" ELSE IF l.stored = 0 THEN "captured_empty" ELSE "captured"

\* LogCapture.Close: a second call does nothing.
CloseLog(s, a, st, fault) ==
  LET l == s.log[a][st]
      closed == [s EXCEPT !.log[a][st].file = "closed"]
  IN  IF l.file # "open" THEN s
      ELSE IF fault THEN Fail(closed)
      ELSE AddEntry([closed EXCEPT !.states[a][st] = LogState(l)], LogOf(a, st), LogContent(l.stored))

-----------------------------------------------------------------------------
(* Artifacts.                                                              *)

RecordedPaths(s, a) == {s.arts[a][i].path : i \in 1..Len(s.arts[a])}

\* Session.recordArtifact.  The state is that of the last record.
RecordArtifact(s, a, rec) ==
  [s EXCEPT !.arts[a] = Append(@, rec),
            !.states[a].artifacts = IF rec.disposition = "stored" THEN "captured"
                                    ELSE "omitted_limit",
            !.incomplete = @ \/ rec.disposition # "stored"]

NoDigest == [object |-> "none"]
OmissionRecord(path, disposition) ==
  [path |-> path, disposition |-> disposition, digest |-> NoDigest]

ArtifactBytes(s) ==
  SumFunction([a \in Attempts |-> Len(SelectSeq(s.arts[a], LAMBDA r : r.disposition = "stored"))])

\* Session.AddArtifact: the object is stored once for every digest.
AddArtifact(s, a, path, digest, dead, fault) ==
  IF s.state # "active" THEN s
  ELSE IF dead THEN Fail(s)
  ELSE IF path \in RecordedPaths(s, a) THEN s
  ELSE IF Len(s.arts[a]) >= MaxArtifactsPerAttempt \/ ArtifactBytes(s) >= MaxTotalArtifactBytes
  THEN RecordArtifact(s, a, OmissionRecord(path, "omitted_limit"))
  ELSE IF fault THEN Fail(s)
  ELSE LET stored == IF digest \in s.objects THEN s
                     ELSE WritePayload([s EXCEPT !.objects = @ \cup {digest}],
                                       ObjectOf(digest), digest, FALSE)
       IN  RecordArtifact(stored, a, [path |-> path, disposition |-> "stored", digest |-> digest])

\* Session.RecordArtifactOmission; it is refused without a change at the limit.
MayRecordOmission(s, a, path) ==
  /\ s.state = "active"
  /\ path \notin RecordedPaths(s, a)
  /\ Len(s.arts[a]) < MaxArtifactsPerAttempt

RecordArtifactOmission(s, a, path, disposition, dead) ==
  IF s.state = "active" /\ dead THEN Fail(s)
  ELSE IF ~MayRecordOmission(s, a, path) THEN s
  ELSE RecordArtifact(s, a, OmissionRecord(path, disposition))

\* Session.MarkArtifactCollectionComplete
MarkCollectionComplete(s, a, dead) ==
  IF s.state # "active" THEN s
  ELSE IF dead THEN Fail(s)
  ELSE [s EXCEPT !.states[a].artifacts = IF @ = "not_provided" THEN "captured_empty" ELSE @]

-----------------------------------------------------------------------------
(* Commit.                                                                 *)

\* An attempt whose artifacts were collected has an index, even if it is empty.
HasIndex_OnlyRecords(s, a) == s.arts[a] # <<>>
HasIndex(s, a) == s.arts[a] # <<>> \/ s.states[a].artifacts \in {"captured_empty", "omitted_limit"}

\* finalizeCaptures for one attempt.
FinalizeAttempt(s, a) ==
  LET closed == CloseLog(CloseLog(CloseEvents(s, a, FALSE), a, "stdout", FALSE),
                         a, "stderr", FALSE)
  IN  IF HasIndex(s, a) THEN WritePayload(closed, IndexOf(a), [index |-> s.arts[a]], FALSE) ELSE closed

\* The operations Op(_, 1), ..., Op(_, N) one after the other.  (Quantifying over the
\* singleton makes TLC compute each session once.)
OverAttempts(Op(_, _), s) ==
  LET f[a \in 0..N] == IF a = 0 THEN s ELSE CHOOSE t \in {Op(p, a) : p \in {f[a - 1]}} : TRUE
  IN  f[N]

FinalizeCaptures(s) == OverAttempts(FinalizeAttempt, s)

FirstSeq(es) == IF es = <<>> THEN 0 ELSE es[1].n
LastSeq(es) == IF es = <<>> THEN 0 ELSE es[Len(es)].n

\* The event range of a result is the one of the events that are written.
RangeMatches(s, a, r) ==
  r.first = FirstSeq(s.events[a]) /\ r.last = LastSeq(s.events[a]) /\ r.count = Len(s.events[a])

EvidenceComplete_SessionOnly(s, x) == ~s.incomplete /\ x.complete
EvidenceComplete(s, x) == ~s.incomplete /\ x.complete /\ ~x.incomplete

\* writeResults of the completion x: x.results[i] is the result of attempt i.
WriteResult(s, a, x) ==
  IF a > Len(x.results) THEN s
  ELSE IF ~RangeMatches(s, a, x.results[a]) THEN Fail(s)
  ELSE WritePayload([s EXCEPT !.states[a].result = "captured"], ResultOf(a), x.results[a], FALSE)

WriteResults(s, x) ==
  LET write(t, a) == WriteResult(t, a, x)
  IN  IF x.complete /\ Len(x.results) # N THEN Fail(s)
      ELSE WritePayload(OverAttempts(write, s), Execution,
                        [results |-> x.results, complete |-> x.complete,
                         evidenceComplete |-> EvidenceComplete(s, x), total |-> x.total], FALSE)

\* buildManifest and normalizeManifest.
Manifest(s, x) == [
  plan             |-> PlanContent,
  entries          |-> s.entries,
  artifacts        |-> UNION {{[attempt |-> a, rec |-> s.arts[a][i]] : i \in 1..Len(s.arts[a])}
                              : a \in Attempts},
  attempts         |-> [a \in Attempts |->
                         [states |-> s.states[a], first |-> FirstSeq(s.events[a]),
                          last |-> LastSeq(s.events[a]), count |-> Len(s.events[a])]],
  complete         |-> x.complete,
  evidenceComplete |-> EvidenceComplete(s, x),
  failure          |-> x.incomplete ]

\* Session.Commit up to the staged manifest: "complete" is only said of a session in
\* which nothing was truncated or omitted.
MayCommit(s, x) == /\ s.state = "active" \/ (s.state = "failed" /\ x.incomplete)
                   /\ x.incomplete \/ ~s.incomplete

WithManifest(s, x) == [s EXCEPT !.files = Put(@, ManifestFile, Manifest(s, x))]

ManifestBuilt(s, x) ==
  IF s.state = "failed" \/ (~x.incomplete /\ ~EvidenceComplete(s, x)) THEN Fail(s)
  ELSE WithManifest(s, x)

Staged(s, x) ==
  IF ~MayCommit(s, x) THEN Fail(s)
  ELSE CHOOSE t \in {ManifestBuilt(w, x) : w \in {WriteResults(c, x) : c \in {FinalizeCaptures(s)}}} : TRUE

-----------------------------------------------------------------------------
(* The strict reader (OpenAndVerify) on a bundle b.                        *)

EntriesOf(b) == b[ManifestFile].entries
HasEntry(b, p) == p \in DOMAIN EntriesOf(b)
AttemptsRead(b) == 1..(b[Plan].plan)      \* expandAttemptsFromPlan

\* verifyManifest and validateRolePath: no entry for the manifest itself, and an object
\* is where its digest says.
VerifyManifest(b) ==
  /\ ~HasEntry(b, ManifestFile)
  /\ \A p \in DOMAIN EntriesOf(b) : p[1] = "object" => p = ObjectOf(EntriesOf(b)[p])

\* reconcileLayout: the files are the entries and the manifest, and no directory of an
\* attempt is empty (Begin has made one for every attempt).
ReconcileLayout_NothingMissing(b) == DOMAIN EntriesOf(b) \subseteq DOMAIN b
ReconcileLayout(b) ==
  /\ DOMAIN b = DOMAIN EntriesOf(b) \cup {ManifestFile}
  /\ \A a \in Attempts : AttemptFiles(a) \cap DOMAIN EntriesOf(b) # {}

\* verifyPayloads: every file has the digest of its entry.
VerifyPayloads(b) == \A p \in DOMAIN EntriesOf(b) : b[p] = EntriesOf(b)[p]

\* verifyPlan
VerifyPlan(b) == HasEntry(b, Plan) /\ b[ManifestFile].plan = b[Plan]

\* validateAttemptOutcome
OutcomeCoherent(r) ==
  \/ r.status = "succeeded" /\ r.exit = 0
  \/ r.status \in {"failed", "timed_out", "resource_limited"} /\ r.exit # 0

VerifyExecutionAndResults(b) ==
  LET x == b[Execution]
      am(a) == b[ManifestFile].attempts[a]
  IN  /\ HasEntry(b, Execution)
      /\ Len(x.results) <= b[Plan].plan
      /\ x.complete => Len(x.results) = b[Plan].plan
      /\ \A i \in 1..Len(x.results) : OutcomeCoherent(x.results[i])
      /\ \A a \in AttemptsRead(b) :
           IF HasEntry(b, ResultOf(a))
           THEN /\ OutcomeCoherent(b[ResultOf(a)])
                /\ b[ResultOf(a)].first = am(a).first
                /\ b[ResultOf(a)].last = am(a).last
                /\ b[ResultOf(a)].count = am(a).count
           ELSE ~x.complete

\* verifyArtifacts: records sorted by path, every stored one with its object, no object
\* without a record.
SortedByPath(recs) == \A i \in 1..(Len(recs) - 1) : recs[i].path < recs[i + 1].path
IndexRecords(b, a) == IF HasEntry(b, IndexOf(a)) THEN b[IndexOf(a)].index ELSE <<>>

RecordRefersToObject(b, rec) ==
  IF rec.disposition = "stored" THEN HasEntry(b, ObjectOf(rec.digest)) ELSE rec.digest = NoDigest

VerifyArtifacts(b) ==
  /\ \A a \in AttemptsRead(b) :
       /\ SortedByPath(IndexRecords(b, a))
       /\ \A rec \in Range(IndexRecords(b, a)) : RecordRefersToObject(b, rec)
  /\ \A p \in DOMAIN EntriesOf(b) :
       p[1] = "object" => \E a \in AttemptsRead(b) :
                            \E rec \in Range(IndexRecords(b, a)) : rec.digest = EntriesOf(b)[p]

\* verifyEvents and parseEventFile: the numbers run on from file to file, and an attempt
\* of a complete execution starts and completes.
EventsRead(b, a) == IF HasEntry(b, EventsOf(a)) THEN b[EventsOf(a)].events ELSE <<>>

EventFileValid(b, a, prior) ==
  LET es == EventsRead(b, a)
      am == b[ManifestFile].attempts[a]
  IN  /\ ~HasEntry(b, EventsOf(a)) => am.count = 0 /\ ~b[ManifestFile].evidenceComplete
      /\ \A i \in 1..Len(es) : es[i].n = prior + i
      /\ b[ManifestFile].complete /\ es # <<>> =>
           es[1].kind = "scenario_started" /\ es[Len(es)].kind = "scenario_completed"
      /\ am.first = FirstSeq(es) /\ am.last = LastSeq(es) /\ am.count = Len(es)

VerifyEvents(b) ==
  LET total == SumFunction([a \in AttemptsRead(b) |-> Len(EventsRead(b, a))])
      last[a \in 0..(b[Plan].plan)] ==        \* the number before attempt a + 1
        IF a = 0 THEN 0
        ELSE IF HasEntry(b, EventsOf(a)) THEN LastSeq(EventsRead(b, a)) ELSE last[a - 1]
  IN  /\ \A a \in AttemptsRead(b) : EventFileValid(b, a, last[a - 1])
      /\ total = b[Execution].total

\* verifyAttemptCaptureStates: a state other than "not provided" needs its file.
CaptureStatesMatch(b, a) ==
  LET st == b[ManifestFile].attempts[a].states
      needsFile(state) == state # "not_provided"
  IN  /\ needsFile(st.events) = HasEntry(b, EventsOf(a))
      /\ needsFile(st.stdout) = HasEntry(b, LogOf(a, "stdout"))
      /\ needsFile(st.stderr) = HasEntry(b, LogOf(a, "stderr"))
      /\ needsFile(st.artifacts) = HasEntry(b, IndexOf(a))
      /\ needsFile(st.result) = HasEntry(b, ResultOf(a))

\* verifyTopLevelArtifacts: the manifest lists the records of the indexes.
TopLevelArtifactsMatch(b) ==
  b[ManifestFile].artifacts =
    UNION {{[attempt |-> a, rec |-> r] : r \in Range(IndexRecords(b, a))} : a \in AttemptsRead(b)}

VerifyCompletion(b) ==
  LET m == b[ManifestFile]
      whole(st) == "truncated" \notin {st.events, st.stdout, st.stderr}
                   /\ st.artifacts # "omitted_limit"
  IN  /\ m.complete = b[Execution].complete
      /\ m.evidenceComplete = b[Execution].evidenceComplete
      /\ \A a \in AttemptsRead(b) : CaptureStatesMatch(b, a)
      /\ TopLevelArtifactsMatch(b)
      /\ m.evidenceComplete => m.complete /\ \A a \in AttemptsRead(b) : whole(m.attempts[a].states)
      /\ ~m.evidenceComplete => m.failure

\* OpenAndVerify with the manifest digest the writer returned.
OpenAndVerify(b, expected) ==
  /\ ManifestFile \in DOMAIN b
  /\ b[ManifestFile] = expected
  /\ VerifyManifest(b)
  /\ ReconcileLayout(b)
  /\ VerifyPayloads(b)
  /\ VerifyPlan(b)
  /\ VerifyExecutionAndResults(b)
  /\ VerifyArtifacts(b)
  /\ VerifyEvents(b)
  /\ VerifyCompletion(b)

\* A later read of one file (WalkEvents, CopyLog, CopyArtifact) of a verified bundle
\* compares it with the digest of the manifest that was verified.
Copied(entries) == {p \in DOMAIN entries : p[1] \in Streams \cup {"events", "object"}}
ReadAgain(b, m, p) == p \in DOMAIN b /\ b[p] = m.entries[p]
=============================================================================
