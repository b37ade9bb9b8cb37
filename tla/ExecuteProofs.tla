---------------------------- MODULE ExecuteProofs ----------------------------
(***************************************************************************)
(* The safety properties of Execute and of the evidence bundles it         *)
(* publishes, for any number of attempts and paths, any limits and any     *)
(* workspace.                                                              *)
(*                                                                         *)
(* The session is in order while it is written (SessionInv: what it lists, *)
(* what is on disk, how events are numbered and what the capture states    *)
(* say belong together), and each call of the executor finds it as far as  *)
(* the call implies (Progress).  Every dropped byte or artifact has made   *)
(* something incomplete (NothingLostYet).  Commit turns such a session     *)
(* into one the strict reader accepts (Sound), and nothing later touches   *)
(* the files.                                                              *)
(***************************************************************************)
EXTENDS Execute, FiniteSetTheorems, WellFoundedInduction, TLAPS

-----------------------------------------------------------------------------
(* Types.                                                                  *)

EventKinds == {"scenario_started", "observer_warning", "process_start", "process_exit",
               "scenario_completed", "resource_limit", "artifact_activity"}
Event == [n : Nat, kind : EventKinds]
Log == [file : {"none", "open", "closed"}, stored : Nat, observed : Nat, truncated : BOOLEAN]
Digest == [object : FileKind \cup {"none"}]
Record == [path : Paths, disposition : Omitted \cup {"stored"}, digest : Digest]
States == [events : CaptureState, stdout : CaptureState, stderr : CaptureState,
           artifacts : CaptureState, result : CaptureState]

\* A session: entries and files are any functions.
IsSession(t) ==
  t \in [state : {"active", "failed", "committed", "aborted"}, next : Nat, current : Attempts,
         incomplete : BOOLEAN, events : [Attempts -> Seq(Event)],
         eventsOpen : [Attempts -> BOOLEAN], log : [Attempts -> [Streams -> Log]],
         arts : [Attempts -> Seq(Record)], states : [Attempts -> States],
         objects : SUBSET Digest, entries : {t.entries}, files : {t.files}]

Statuses == {"succeeded", "failed", "timed_out", "resource_limited"}
Result == [status : Statuses, exit : Nat, first : Nat, last : Nat, count : Nat]
ThisAttempt == [count : Nat, first : Nat, last : Nat, status : Statuses, exit : Nat,
                accepted : [Streams -> Nat], written : [Streams -> 0..MaxStreamBytes],
                truncated : SUBSET (Streams \cup {"output"})]
RunState == [seq : Nat, frames : Nat, results : Seq(Result), incomplete : BOOLEAN,
             this : ThisAttempt]
Container == [state : {"none", "created", "running", "exited", "removed"}, open : BOOLEAN,
              exit : Nat, oom : BOOLEAN]
World == [lost : BOOLEAN, leaked : BOOLEAN, damaged : BOOLEAN]

IsFcn(f) == f = [p \in DOMAIN f |-> f[p]]

-----------------------------------------------------------------------------
(* The session while it is written.                                        *)

\* The names a bundle may list.
FileName(p) ==
  \/ p = Plan
  \/ \E a \in Attempts : p \in AttemptFiles(a)
  \/ \E d \in Digest : p = ObjectOf(d)

\* The entries of a session of which k attempts have an index and the first j results of
\* R are written.
Listed(t, k, j, R) ==
  /\ IsFcn(t.entries)
  /\ \A p \in DOMAIN t.entries : FileName(p)
  /\ Plan \in DOMAIN t.entries /\ t.entries[Plan] = PlanContent
  /\ \A a \in Attempts :
       /\ EventsOf(a) \in DOMAIN t.entries <=> t.events[a] # <<>> /\ ~t.eventsOpen[a]
       /\ EventsOf(a) \in DOMAIN t.entries => t.entries[EventsOf(a)] = EventsContent(t.events[a])
       /\ \A st \in Streams : LogOf(a, st) \in DOMAIN t.entries <=> t.log[a][st].file = "closed"
       /\ IndexOf(a) \in DOMAIN t.entries <=> a <= k /\ HasIndex(t, a)
       /\ IndexOf(a) \in DOMAIN t.entries => t.entries[IndexOf(a)] = [index |-> t.arts[a]]
       /\ ResultOf(a) \in DOMAIN t.entries <=> a <= j
       /\ ResultOf(a) \in DOMAIN t.entries => t.entries[ResultOf(a)] = R[a]
  /\ \A d \in Digest :
       /\ ObjectOf(d) \in DOMAIN t.entries <=> d \in t.objects
       /\ ObjectOf(d) \in DOMAIN t.entries => t.entries[ObjectOf(d)] = d

\* The files are the entries and what is still open.
Written(t) ==
  /\ IsFcn(t.files)
  /\ \A p \in DOMAIN t.entries : p \in DOMAIN t.files /\ t.files[p] = t.entries[p]
  /\ \A p \in DOMAIN t.files :
       \/ p \in DOMAIN t.entries
       \/ \E a \in Attempts : p = EventsOf(a) /\ t.eventsOpen[a]
       \/ \E a \in Attempts, st \in Streams : p = LogOf(a, st) /\ t.log[a][st].file = "open"
  /\ \A a \in Attempts :
       /\ t.eventsOpen[a] => /\ EventsOf(a) \in DOMAIN t.files
                             /\ t.files[EventsOf(a)] = EventsContent(t.events[a])
       /\ \A st \in Streams :
            /\ t.log[a][st].file = "none" => t.log[a][st] = NoLog
            /\ t.log[a][st].file = "open" =>
                 /\ LogOf(a, st) \in DOMAIN t.files
                 /\ t.files[LogOf(a, st)] = LogContent(t.log[a][st].stored)

\* Events are numbered through, attempt after attempt, and only the file of the current
\* attempt is open.
Prior(t, a) == IF a = 1 THEN 0 ELSE LastSeq(t.events[a - 1])
Numbered(t) ==
  /\ \A a \in Attempts : \A i \in 1..Len(t.events[a]) : t.events[a][i].n = Prior(t, a) + i
  /\ \A a \in Attempts :
       /\ a < t.current => t.events[a] # <<>>
       /\ a > t.current => t.events[a] = <<>>
  /\ t.current > 1 => t.events[t.current] # <<>>
  /\ t.next = LastSeq(t.events[t.current])
  /\ TotalEvents(t) = t.next

\* The capture states say what there is.
StatesTell(t) ==
  \A a \in Attempts :
    /\ t.states[a].events = IF t.events[a] = <<>> THEN "not_provided" ELSE "captured"
    /\ \A st \in Streams :
         /\ t.log[a][st].file = "none" => t.states[a][st] = "not_provided"
         /\ t.log[a][st].file = "open" => t.states[a][st] = "captured_empty"
         /\ t.log[a][st].file = "closed" => t.states[a][st] = LogState(t.log[a][st])
         /\ t.log[a][st].truncated => t.incomplete
    /\ t.states[a].artifacts \in IF t.arts[a] = <<>> THEN {"not_provided", "captured_empty"}
                                 ELSE {"captured", "omitted_limit"}
    /\ t.states[a].artifacts = "omitted_limit" => t.incomplete

ArtifactsRefer(t) ==
  /\ \A a \in Attempts : \A i \in 1..Len(t.arts[a]) :
       IF t.arts[a][i].disposition = "stored" THEN t.arts[a][i].digest \in t.objects
       ELSE t.arts[a][i].digest = NoDigest
  /\ \A d \in t.objects : \E a \in Attempts : \E i \in 1..Len(t.arts[a]) : t.arts[a][i].digest = d

OnlyCurrentOpen(t) == \A a \in Attempts : t.eventsOpen[a] <=> a = t.current /\ t.events[a] # <<>>

SessionInv(t) ==
  /\ Listed(t, 0, 0, <<>>) /\ Written(t) /\ Numbered(t) /\ OnlyCurrentOpen(t)
  /\ StatesTell(t) /\ ArtifactsRefer(t)

-----------------------------------------------------------------------------
(* The executor and its session.                                           *)

AttemptPCs == {"before", "image", "create", "attach", "start", "output", "decode", "wait",
               "inspect", "remove", "after", "collect", "record", "ended"} \cup DOMAIN EmitCalls
Writing == AttemptPCs \cup {"plan", "commit"}
Fresh == {"plan", "before"}
Closed == {"collect", "record", "completed", "ended"}

Finished(t, a, r) ==
  /\ t.events[a] # <<>>
  /\ t.events[a][1].kind = "scenario_started"
  /\ t.events[a][Len(t.events[a])].kind = "scenario_completed"
  /\ RangeMatches(t, a, r)
  /\ OutcomeCoherent(r)
  /\ \A st \in Streams : t.log[a][st].file = "closed"

Untouched(t, a) == t.events[a] = <<>> /\ \A st \in Streams : t.log[a][st].file = "none"

CurrentAttempt(c, a, t, r) ==
  /\ RangeMatches(t, a, r)
  /\ t.events[a] = <<>> <=> c \in Fresh \cup {"started"}
  /\ t.events[a] # <<>> => t.events[a][1].kind = "scenario_started"
  /\ c = "ended" => t.events[a][Len(t.events[a])].kind = "scenario_completed"
  /\ \A st \in Streams : t.log[a][st].file =
       IF c \in Fresh THEN "none" ELSE IF c \in Closed THEN "closed" ELSE "open"
  /\ c \in Closed \cup {"after"} => OutcomeCoherent(r)

Progress(c, a, t, r) ==
  /\ Len(r.results) = IF c = "commit" THEN N ELSE a - 1
  /\ \A b \in 1..Len(r.results) : Finished(t, b, r.results[b])
  /\ \A b \in Attempts : b > a => Untouched(t, b)
  /\ c # "commit" => CurrentAttempt(c, a, t, r.this)
  /\ t.next = r.seq

NothingLostYet(c, t, r, lost) ==
  /\ lost => t.incomplete \/ r.incomplete \/ r.this.truncated # {}
  /\ c \in Closed /\ r.this.truncated # {} => r.incomplete
  /\ c = "commit" => r.this.truncated = {}

WritingInv ==
  pc \in Writing =>
    /\ bundle = NoBundle
    /\ s.state = "active" \/ (pc = "exit" /\ s.state = "failed")
    /\ s.state = "active" => /\ SessionInv(s) /\ Progress(pc, att, s, run)
                             /\ NothingLostYet(pc, s, run, world.lost)

\* What is to be published, or is.
Sound(t, lost) ==
  /\ IsFcn(t.files)
  /\ ManifestFile \in DOMAIN t.files /\ ManifestFile \notin DOMAIN t.entries
  /\ DOMAIN t.files = DOMAIN t.entries \cup {ManifestFile}
  /\ t.files[ManifestFile].entries = t.entries
  /\ \A p \in DOMAIN t.entries : t.files[p] = t.entries[p]
  /\ t.files[ManifestFile].evidenceComplete => ~lost
  /\ IndexesSorted(t.files) => OpenAndVerify(t.files, t.files[ManifestFile])

PublishedInv ==
  /\ pc \in {"publish", "sync", "verify", "verified", "read"} => Sound(s, world.lost)
  /\ pc \in {"publish", "sync"} => s.state = "active" /\ s.next = run.seq
  /\ pc \in {"publish", "cleanup"} => bundle = NoBundle
  /\ pc = "sync" => bundle = s.files
  /\ pc \in {"verify", "verified", "read"} => s.state = "committed"
  /\ IsFcn(bundle)
  /\ pc = "read" => \A p \in Copied(s.entries) : p \in DOMAIN bundle /\ bundle[p] = s.files[p]

NoContainerPCs == {"plan", "before", "started", "image", "create", "after", "commit", "publish",
                   "sync", "verify", "verified", "read"} \cup Closed
ContainerInv ==
  /\ pc \in NoContainerPCs => cont.state \in {"none", "removed"}
  /\ pc = "done" => cont.state \in {"none", "removed"} \/ answer = "cleanup-failed"

ExecTypes ==
  /\ pc \in PCs /\ att \in Attempts /\ IsSession(s) /\ run \in RunState /\ cont \in Container
  /\ work.tree \in Workspace /\ work.todo \subseteq Paths
  /\ work = [tree |-> work.tree, todo |-> work.todo]
  /\ ctx \in {"live", "attempt", "run"} /\ world \in World
  /\ answer \in {"none", "ok", "failed", "cleanup-failed", "rejected"}
  /\ TotalLogBytes(s) <= MaxTotalLogBytes
  /\ s.state = "active" => s.next = run.seq

ExecuteIInv ==
  /\ ExecTypes /\ WritingInv /\ PublishedInv /\ ContainerInv
  /\ PublishedVerifies /\ CompleteMeansNothingLost

-----------------------------------------------------------------------------
(* Sums and induction.                                                     *)

\* The order on the naturals, as the relation induction is stated for.
LEMMA LessThanRelation == \A m, n \in Nat : m < n => <<m, n>> \in OpToRel(<, Nat)
<1>1. OpToRel(<, Nat) = {ss \in Nat \X Nat : ss[1] < ss[2]}
  BY DEF OpToRel
<1> QED
  BY <1>1

\* A non-empty set of natural numbers has a least element.
LEMMA LeastElement ==
  ASSUME NEW T, T \subseteq Nat, T # {}
  PROVE  \E n \in T : \A m \in T : n <= m
<1> DEFINE lt == OpToRel(<, Nat)
<1>1. IsWellFoundedOn(lt, Nat)
  BY NatLessThanWellFounded
<1>2. \A m, n \in Nat : m < n => <<m, n>> \in lt
  BY LessThanRelation
<1> HIDE DEF lt
<1>3. PICK n \in T : \A m \in T : ~(<<m, n>> \in lt)
  BY <1>1, WFMin
<1>4. \A m \in T : n <= m
  <2> TAKE m \in T
  <2>1. ~(m < n)
    BY <1>2, <1>3
  <2>2. m \in Nat /\ n \in Nat
    OBVIOUS
  <2> QED
    BY <2>1, <2>2
<1> QED
  BY <1>4

\* Induction, with the numbers a claim holds for as a set.
LEMMA SetInduction ==
  ASSUME NEW T \in SUBSET Nat, 0 \in T, \A n \in T : n + 1 \in T
  PROVE  T = Nat
<1> DEFINE D == Nat \ T
<1>1. SUFFICES ASSUME D # {} PROVE FALSE
  OBVIOUS
<1>2. PICK n \in D : \A m \in D : n <= m
  <2> HIDE DEF D
  <2>1. D \subseteq Nat
    BY DEF D
  <2> QED
    BY <1>1, <2>1, LeastElement
<1>3. n # 0 /\ n - 1 \in Nat /\ ~(n <= n - 1)
  OBVIOUS
<1>4. n - 1 \in T
  BY <1>2, <1>3
<1> QED
  BY <1>3, <1>4

\* Induction over the subsets of a finite set, from s without an element to s.
LEMMA SubsetInduction ==
  ASSUME NEW S, IsFiniteSet(S), NEW T \in SUBSET SUBSET S, {} \in T,
         \A u \in SUBSET S : u # {} /\ (\A x \in u : u \ {x} \in T) => u \in T
  PROVE  T = SUBSET S
<1> DEFINE D == {n \in Nat : \A u \in SUBSET S : Cardinality(u) = n => u \in T}
<1>1. \A u \in SUBSET S : IsFiniteSet(u) /\ Cardinality(u) \in Nat
  BY FS_Subset, FS_CardinalityType
<1>2. 0 \in D
  BY <1>1, FS_EmptySet
<1>3. ASSUME NEW n \in D PROVE n + 1 \in D
  <2>1. ASSUME NEW u \in SUBSET S, Cardinality(u) = n + 1 PROVE u \in T
    <3>1. u # {}
      BY <2>1, FS_EmptySet
    <3>2. ASSUME NEW x \in u PROVE u \ {x} \in T
      <4>1. Cardinality(u \ {x}) = n
        BY <1>1, <2>1, FS_RemoveElement
      <4> QED
        BY <4>1
    <3> QED
      BY <3>1, <3>2
  <2> QED
    BY <2>1
<1>4. D = Nat
  <2> HIDE DEF D
  <2>1. D \in SUBSET Nat
    BY DEF D
  <2> QED
    BY <1>2, <1>3, <2>1, SetInduction
<1> QED
  BY <1>1, <1>4

\* The iteration behind SumFunction exists, by induction over the size of the subsets.
SumStep(f, u, it) == IF u = {} THEN 0 ELSE f[CHOOSE x \in u : TRUE] + it[u \ {CHOOSE x \in u : TRUE}]

IsSumIteration(S, f, it) == it = [u \in SUBSET S |-> SumStep(f, u, it)]

\* An iteration that sums f over the subsets of S exists.
LEMMA SumIterationExists ==
  ASSUME NEW S, IsFiniteSet(S), NEW f
  PROVE  \E it : IsSumIteration(S, f, it)
<1> DEFINE Small(n) == {u \in SUBSET S : Cardinality(u) <= n}
           IsIter(it, n) == it = [u \in Small(n) |-> SumStep(f, u, it)]
           D == {n \in Nat : \E it : IsIter(it, n)}
           pick(u) == CHOOSE x \in u : TRUE
<1>1. \A u \in SUBSET S : IsFiniteSet(u) /\ Cardinality(u) \in Nat
  BY FS_Subset, FS_CardinalityType
<1>2. \A u \in SUBSET S : u # {} => /\ pick(u) \in u /\ u \ {pick(u)} \in SUBSET S
                                    /\ Cardinality(u \ {pick(u)}) = Cardinality(u) - 1
  BY <1>1, FS_RemoveElement
<1>3. \A u \in SUBSET S : Cardinality(u) = 0 => u = {}
  BY <1>1, FS_EmptySet
<1>4. 0 \in D
  <2> DEFINE it == [u \in Small(0) |-> 0]
  <2>1. \A u \in Small(0) : u = {}
    BY <1>1, <1>3
  <2>2. \A u \in Small(0) : it[u] = SumStep(f, u, it)
    BY <2>1 DEF SumStep
  <2>3. IsIter(it, 0)
    BY <2>2
  <2> HIDE DEF IsIter
  <2> QED
    BY <2>3
<1>5. ASSUME NEW n \in D PROVE n + 1 \in D
  <2>1. PICK it : IsIter(it, n)
    OBVIOUS
  <2> DEFINE jt == [u \in Small(n + 1) |-> SumStep(f, u, it)]
  <2>2. ASSUME NEW u \in Small(n + 1) PROVE SumStep(f, u, it) = SumStep(f, u, jt)
    <3>1. CASE u = {}
      BY <3>1 DEF SumStep
    <3>2. CASE u # {}
      <4> DEFINE v == u \ {pick(u)}
      <4>1. v \in Small(n) /\ v \in Small(n + 1)
        BY <1>1, <1>2, <3>2
      <4>2. it[v] = SumStep(f, v, it)
        BY <2>1, <4>1
      <4>3. jt[v] = SumStep(f, v, it)
        BY <4>1
      <4>4. it[v] = jt[v]
        BY <4>2, <4>3
      <4> HIDE DEF jt
      <4> QED
        BY <3>2, <4>4 DEF SumStep
    <3> QED
      BY <3>1, <3>2
  <2>3. IsIter(jt, n + 1)
    BY <2>2
  <2> HIDE DEF IsIter, jt
  <2> QED
    BY <2>3
<1>6. D = Nat
  <2> HIDE DEF D
  <2>1. D \in SUBSET Nat
    BY DEF D
  <2> QED
    BY <1>4, <1>5, <2>1, SetInduction
<1>7. PICK it : IsIter(it, Cardinality(S))
  BY <1>1, <1>6
<1>8. Small(Cardinality(S)) = SUBSET S
  BY FS_Subset
<1> QED
  BY <1>7, <1>8 DEF IsSumIteration

\* SumFunction is the last value of such an iteration, and all of them are naturals.
LEMMA SumIteration ==
  ASSUME NEW S, IsFiniteSet(S), NEW f \in [S -> Nat]
  PROVE  \E it : /\ IsSumIteration(S, f, it)
                 /\ it \in [SUBSET S -> Nat]
                 /\ SumFunction(f) = it[S]
<1> DEFINE it == CHOOSE g : IsSumIteration(S, f, g)
<1>1. IsSumIteration(S, f, it)
  BY SumIterationExists, Zenon
<1>2. it = [u \in SUBSET S |-> SumStep(f, u, it)]
  BY <1>1 DEF IsSumIteration
<1>3. SumFunction(f) = it[S]
  <2>1. DOMAIN f = S
    OBVIOUS
  <2> QED
    BY <2>1 DEF SumFunction, SumFunctionOnSet, FoldFunctionOnSet, MapThenFoldSet, SumStep, IsSumIteration
<1> HIDE DEF it
<1>4. \A u \in SUBSET S : it[u] \in Nat
  <2> DEFINE T == {u \in SUBSET S : it[u] \in Nat}
  <2>1. {} \in T
    BY <1>2 DEF SumStep
  <2>2. ASSUME NEW u \in SUBSET S, u # {}, \A x \in u : u \ {x} \in T PROVE u \in T
    <3> DEFINE y == CHOOSE x \in u : TRUE
    <3>1. y \in u
      BY <2>2
    <3>2. it[u] = f[y] + it[u \ {y}]
      BY <1>2, <2>2 DEF SumStep
    <3>3. it[u \ {y}] \in Nat /\ f[y] \in Nat
      BY <2>2, <3>1
    <3> HIDE DEF y
    <3> QED
      BY <3>2, <3>3
  <2>3. T = SUBSET S
    <3>1. T \in SUBSET SUBSET S
      OBVIOUS
    <3> HIDE DEF T
    <3> QED
      BY <2>1, <2>2, <3>1, SubsetInduction
  <2> QED
    BY <2>3
<1>5. it \in [SUBSET S -> Nat]
  BY <1>2, <1>4
<1> QED
  BY <1>1, <1>3, <1>5

\* A sum of naturals (TotalEvents, TotalLogBytes) is a natural.
LEMMA SumIsNat ==
  ASSUME NEW S, IsFiniteSet(S), NEW f \in [S -> Nat]
  PROVE  SumFunction(f) \in Nat
<1>1. PICK it \in [SUBSET S -> Nat] : SumFunction(f) = it[S]
  BY SumIteration
<1> QED
  BY <1>1

\* A sum of zeros is zero: the totals of a session that has just begun.
LEMMA SumOfZeros ==
  ASSUME NEW S, IsFiniteSet(S)
  PROVE  SumFunction([x \in S |-> 0]) = 0
<1> DEFINE f == [x \in S |-> 0]
<1>1. f \in [S -> Nat] /\ \A x \in S : f[x] = 0
  OBVIOUS
<1> HIDE DEF f
<1>2. PICK it : /\ IsSumIteration(S, f, it) /\ it \in [SUBSET S -> Nat]
                /\ SumFunction(f) = it[S]
  BY <1>1, SumIteration
<1> DEFINE T == {u \in SUBSET S : it[u] = 0}
<1>3. {} \in T
  BY <1>2 DEF SumStep, IsSumIteration
<1>4. ASSUME NEW u \in SUBSET S, u # {}, \A x \in u : u \ {x} \in T PROVE u \in T
  <2> DEFINE y == CHOOSE x \in u : TRUE
  <2>1. y \in u
    BY <1>4
  <2>2. it[u] = f[y] + it[u \ {y}]
    BY <1>2, <1>4 DEF SumStep, IsSumIteration
  <2> HIDE DEF y
  <2> QED
    BY <1>1, <1>4, <2>1, <2>2
<1>5. T = SUBSET S
  <2>1. T \in SUBSET SUBSET S
    OBVIOUS
  <2> HIDE DEF T
  <2> QED
    BY <1>3, <1>4, <2>1, SubsetInduction
<1>6. it[S] = 0
  BY <1>5
<1> QED
  BY <1>2, <1>6 DEF f

\* Changing one summand changes the sum by the same amount.
LEMMA SumUpdate ==
  ASSUME NEW S, IsFiniteSet(S), NEW f \in [S -> Nat], NEW g \in [S -> Nat], NEW z \in S,
         \A x \in S : x # z => g[x] = f[x]
  PROVE  SumFunction(g) = SumFunction(f) + g[z] - f[z]
<1>1. PICK it : /\ IsSumIteration(S, f, it) /\ it \in [SUBSET S -> Nat]
                /\ SumFunction(f) = it[S]
  BY SumIteration
<1>2. PICK jt : /\ IsSumIteration(S, g, jt) /\ jt \in [SUBSET S -> Nat]
                /\ SumFunction(g) = jt[S]
  BY SumIteration
<1> DEFINE delta(u) == IF z \in u THEN g[z] - f[z] ELSE 0
           T == {u \in SUBSET S : jt[u] = it[u] + delta(u)}
<1>3. {} \in T
  BY <1>1, <1>2 DEF SumStep, IsSumIteration
<1>4. ASSUME NEW u \in SUBSET S, u # {}, \A x \in u : u \ {x} \in T PROVE u \in T
  <2> DEFINE y == CHOOSE x \in u : TRUE
             v == u \ {y}
  <2>1. y \in u
    BY <1>4
  <2>2. it[u] = f[y] + it[v] /\ jt[u] = g[y] + jt[v]
    BY <1>1, <1>2, <1>4 DEF SumStep, IsSumIteration
  <2>3. jt[v] = it[v] + delta(v) /\ v \in SUBSET S
    BY <1>4, <2>1
  <2>4. it[v] \in Nat /\ jt[v] \in Nat
    BY <1>1, <1>2, <2>3
  <2>5. CASE y = z
    <3>1. z \notin v /\ z \in u
      BY <2>1, <2>5
    <3> HIDE DEF v, y
    <3> QED
      BY <2>1, <2>2, <2>3, <2>4, <2>5, <3>1
  <2>6. CASE y # z
    <3>1. z \in v <=> z \in u
      BY <2>6
    <3>2. g[y] = f[y] /\ f[y] \in Nat
      BY <2>1, <2>6
    <3> HIDE DEF v, y
    <3> QED
      BY <2>2, <2>3, <2>4, <3>1, <3>2
  <2> QED
    BY <2>5, <2>6
<1>5. T = SUBSET S
  <2>1. T \in SUBSET SUBSET S
    OBVIOUS
  <2> HIDE DEF T
  <2> QED
    BY <1>3, <1>4, <2>1, SubsetInduction
<1>6. jt[S] = it[S] + (g[z] - f[z]) /\ it[S] \in Nat
  BY <1>1, <1>5
<1> QED
  BY <1>1, <1>2, <1>6

-----------------------------------------------------------------------------
(* The iterations over the attempts.                                       *)

\* The choice from a set of one element.
LEMMA ChoiceOfOne == ASSUME NEW y PROVE (CHOOSE t \in {y} : TRUE) = y
OBVIOUS

\* The iterations behind FinalizeCaptures and WriteResults: g[a] is the session after
\* attempts 1, ..., a.
FinalizeStep(u, g, a) ==
  IF a = 0 THEN u ELSE CHOOSE t \in {FinalizeAttempt(p, a) : p \in {g[a - 1]}} : TRUE
IsFinalizing(u, n, g) == g = [a \in 0..n |-> FinalizeStep(u, g, a)]
ResultStep(u, x, g, a) ==
  IF a = 0 THEN u ELSE CHOOSE t \in {WriteResult(p, a, x) : p \in {g[a - 1]}} : TRUE
IsWritingResults(u, x, n, g) == g = [a \in 0..n |-> ResultStep(u, x, g, a)]

\* The iteration of FinalizeAttempt exists.
LEMMA FinalizingExists ==
  ASSUME NEW u
  PROVE  \E g : IsFinalizing(u, N, g)
<1> DEFINE T == {n \in Nat : \E g : IsFinalizing(u, n, g)}
<1>1. 0 \in T
  <2> DEFINE g == [a \in 0..0 |-> u]
  <2>1. IsFinalizing(u, 0, g)
    BY DEF IsFinalizing, FinalizeStep
  <2> HIDE DEF g
  <2> QED
    BY <2>1
<1>2. ASSUME NEW n \in T PROVE n + 1 \in T
  <2>1. PICK g : IsFinalizing(u, n, g)
    OBVIOUS
  <2> DEFINE h == [a \in 0..(n + 1) |-> FinalizeStep(u, g, a)]
  <2>2. ASSUME NEW a \in 0..(n + 1) PROVE FinalizeStep(u, g, a) = FinalizeStep(u, h, a)
    <3>1. CASE a = 0
      BY <3>1 DEF FinalizeStep
    <3>2. CASE a # 0
      <4>1. a - 1 \in 0..n /\ a - 1 \in 0..(n + 1)
        BY <3>2
      <4>2. g[a - 1] = FinalizeStep(u, g, a - 1)
        BY <2>1, <4>1 DEF IsFinalizing
      <4>3. h[a - 1] = FinalizeStep(u, g, a - 1)
        BY <4>1
      <4> HIDE DEF h
      <4> QED
        BY <3>2, <4>2, <4>3 DEF FinalizeStep
    <3> QED
      BY <3>1, <3>2
  <2>3. IsFinalizing(u, n + 1, h)
    BY <2>2 DEF IsFinalizing
  <2> HIDE DEF h
  <2> QED
    BY <2>3
<1>3. T = Nat
  <2> HIDE DEF T
  <2>1. T \in SUBSET Nat
    BY DEF T
  <2> QED
    BY <1>1, <1>2, <2>1, SetInduction
<1> QED
  BY <1>3, EvidenceAssumption

\* FinalizeCaptures closes attempt after attempt, from the first to the last.
LEMMA FinalizeCapturesSteps ==
  ASSUME NEW u
  PROVE  \E g : /\ g[0] = u /\ FinalizeCaptures(u) = g[N]
                /\ \A a \in Attempts : g[a] = FinalizeAttempt(g[a - 1], a)
<1> DEFINE g == CHOOSE h : IsFinalizing(u, N, h)
<1>1. IsFinalizing(u, N, g)
  BY FinalizingExists, Zenon
<1>2. FinalizeCaptures(u) = g[N]
  BY DEF FinalizeCaptures, OverAttempts, IsFinalizing, FinalizeStep
<1> HIDE DEF g
<1>3. g[0] = u
  BY <1>1, EvidenceAssumption DEF IsFinalizing, FinalizeStep
<1>4. ASSUME NEW a \in Attempts PROVE g[a] = FinalizeAttempt(g[a - 1], a)
  <2>1. a \in 0..N /\ a # 0
    BY EvidenceAssumption DEF Attempts
  <2>2. g[a] = CHOOSE t \in {FinalizeAttempt(p, a) : p \in {g[a - 1]}} : TRUE
    BY <1>1, <2>1 DEF IsFinalizing, FinalizeStep
  <2>3. {FinalizeAttempt(p, a) : p \in {g[a - 1]}} = {FinalizeAttempt(g[a - 1], a)}
    OBVIOUS
  <2> QED
    BY <2>2, <2>3, ChoiceOfOne
<1> QED
  BY <1>2, <1>3, <1>4

\* The iteration of WriteResult exists.
LEMMA WritingResultsExists ==
  ASSUME NEW u, NEW x
  PROVE  \E g : IsWritingResults(u, x, N, g)
<1> DEFINE T == {n \in Nat : \E g : IsWritingResults(u, x, n, g)}
<1>1. 0 \in T
  <2> DEFINE g == [a \in 0..0 |-> u]
  <2>1. IsWritingResults(u, x, 0, g)
    BY DEF IsWritingResults, ResultStep
  <2> HIDE DEF g
  <2> QED
    BY <2>1
<1>2. ASSUME NEW n \in T PROVE n + 1 \in T
  <2>1. PICK g : IsWritingResults(u, x, n, g)
    OBVIOUS
  <2> DEFINE h == [a \in 0..(n + 1) |-> ResultStep(u, x, g, a)]
  <2>2. ASSUME NEW a \in 0..(n + 1) PROVE ResultStep(u, x, g, a) = ResultStep(u, x, h, a)
    <3>1. CASE a = 0
      BY <3>1 DEF ResultStep
    <3>2. CASE a # 0
      <4>1. a - 1 \in 0..n /\ a - 1 \in 0..(n + 1)
        BY <3>2
      <4>2. g[a - 1] = ResultStep(u, x, g, a - 1)
        BY <2>1, <4>1 DEF IsWritingResults
      <4>3. h[a - 1] = ResultStep(u, x, g, a - 1)
        BY <4>1
      <4> HIDE DEF h
      <4> QED
        BY <3>2, <4>2, <4>3 DEF ResultStep
    <3> QED
      BY <3>1, <3>2
  <2>3. IsWritingResults(u, x, n + 1, h)
    BY <2>2 DEF IsWritingResults
  <2> HIDE DEF h
  <2> QED
    BY <2>3
<1>3. T = Nat
  <2> HIDE DEF T
  <2>1. T \in SUBSET Nat
    BY DEF T
  <2> QED
    BY <1>1, <1>2, <2>1, SetInduction
<1> QED
  BY <1>3, EvidenceAssumption

\* What is written beside the results of the captures c.
ExecutionContent(c, x) ==
  [results |-> x.results, complete |-> x.complete,
   evidenceComplete |-> EvidenceComplete(c, x), total |-> x.total]

ResultsChain(u, x, g) ==
  /\ g[0] = u
  /\ \A a \in Attempts : g[a] = WriteResult(g[a - 1], a, x)
  /\ WriteResults(u, x) = WritePayload(g[N], Execution, ExecutionContent(u, x), FALSE)

\* WriteResults writes result after result, from the first to the last.
LEMMA WriteResultsSteps ==
  ASSUME NEW u, NEW x, Len(x.results) = N
  PROVE  \E g : ResultsChain(u, x, g)
<1> DEFINE g == CHOOSE h : IsWritingResults(u, x, N, h)
<1>1. IsWritingResults(u, x, N, g)
  BY WritingResultsExists, Zenon
<1>2. WriteResults(u, x) =
        WritePayload(g[N], Execution, ExecutionContent(u, x), FALSE)
  BY DEF WriteResults, ExecutionContent, OverAttempts, IsWritingResults, ResultStep
<1> HIDE DEF g
<1>3. g[0] = u
  BY <1>1, EvidenceAssumption DEF IsWritingResults, ResultStep
<1>4. ASSUME NEW a \in Attempts PROVE g[a] = WriteResult(g[a - 1], a, x)
  <2>1. a \in 0..N /\ a # 0
    BY EvidenceAssumption DEF Attempts
  <2>2. g[a] = CHOOSE t \in {WriteResult(p, a, x) : p \in {g[a - 1]}} : TRUE
    BY <1>1, <2>1 DEF IsWritingResults, ResultStep
  <2>3. {WriteResult(p, a, x) : p \in {g[a - 1]}} = {WriteResult(g[a - 1], a, x)}
    OBVIOUS
  <2> QED
    BY <2>2, <2>3, ChoiceOfOne
<1> QED
  BY <1>2, <1>3, <1>4 DEF ResultsChain

-----------------------------------------------------------------------------
(* Names, files and the fields of a session.                               *)

\* What the name of a bundle file begins with.
LEMMA NameHeads ==
  /\ Plan[1] = "plan" /\ Execution[1] = "execution" /\ ManifestFile[1] = "manifest"
  /\ \A a : EventsOf(a)[1] = "events" /\ IndexOf(a)[1] = "index" /\ ResultOf(a)[1] = "result"
  /\ \A a, st : LogOf(a, st)[1] = st
  /\ \A d : ObjectOf(d)[1] = "object"
BY DEF Plan, Execution, ManifestFile, EventsOf, IndexOf, ResultOf, LogOf, ObjectOf

\* Two files of one kind have one name only when they are the same file.
LEMMA NamesInjective ==
  /\ \A a, b : EventsOf(a) = EventsOf(b) => a = b
  /\ \A a, b : IndexOf(a) = IndexOf(b) => a = b
  /\ \A a, b : ResultOf(a) = ResultOf(b) => a = b
  /\ \A a, b, st, su : LogOf(a, st) = LogOf(b, su) => a = b /\ st = su
  /\ \A d, e : ObjectOf(d) = ObjectOf(e) => d = e
<1>1. /\ \A a : EventsOf(a)[2] = a /\ IndexOf(a)[2] = a /\ ResultOf(a)[2] = a
      /\ \A a, st : LogOf(a, st)[2] = a /\ LogOf(a, st)[1] = st
      /\ \A d : ObjectOf(d)[2] = d
  BY DEF EventsOf, IndexOf, ResultOf, LogOf, ObjectOf
<1> QED
  BY <1>1

\* g is f with value c at p.
Added(f, g, p, c) ==
  /\ IsFcn(g) /\ DOMAIN g = DOMAIN f \cup {p} /\ g[p] = c
  /\ \A q \in DOMAIN f : q # p => g[q] = f[q]

\* Put adds one file or replaces it.
LEMMA PutAdds == ASSUME NEW f, NEW p, NEW c PROVE Added(f, Put(f, p, c), p, c)
BY DEF Put, IsFcn, Added

\* Field changes of a session, point by point.
LogSet(L, M, a, st, l) ==
  /\ M \in [Attempts -> [Streams -> Log]] /\ M[a][st] = l
  /\ \A b \in Attempts, su \in Streams : b # a \/ su # st => M[b][su] = L[b][su]
StateSet(S, M, a, st, v) ==
  /\ M \in [Attempts -> States] /\ M[a][st] = v
  /\ \A b \in Attempts :
       /\ M[b].events = S[b].events /\ M[b].artifacts = S[b].artifacts
       /\ M[b].result = S[b].result
       /\ \A su \in Streams : b # a \/ su # st => M[b][su] = S[b][su]

\* A changed log, point by point.
LEMMA LogUpdate ==
  ASSUME NEW L \in [Attempts -> [Streams -> Log]], NEW a \in Attempts, NEW st \in Streams,
         NEW l \in Log
  PROVE  LogSet(L, [L EXCEPT ![a][st] = l], a, st, l)
<1> DEFINE x == [L[a] EXCEPT ![st] = l]
<1>1. /\ x \in [Streams -> Log] /\ x[st] = l /\ \A su \in Streams : su # st => x[su] = L[a][su]
  OBVIOUS
<1>2. [L EXCEPT ![a][st] = l] = [L EXCEPT ![a] = x]
  OBVIOUS
<1> HIDE DEF x
<1> QED
  BY <1>1, <1>2 DEF LogSet

\* A changed capture state of a stream, point by point.
LEMMA StatesUpdate ==
  ASSUME NEW S \in [Attempts -> States], NEW a \in Attempts, NEW st \in Streams,
         NEW v \in CaptureState
  PROVE  StateSet(S, [S EXCEPT ![a][st] = v], a, st, v)
<1> DEFINE x == [S[a] EXCEPT ![st] = v]
<1>1. /\ x \in States /\ x[st] = v
      /\ x.events = S[a].events /\ x.artifacts = S[a].artifacts /\ x.result = S[a].result
      /\ \A su \in Streams : su # st => x[su] = S[a][su]
  <2>1. S[a] \in States
    OBVIOUS
  <2>2. CASE st = "stdout"
    BY <2>1, <2>2 DEF States, Streams
  <2>3. CASE st = "stderr"
    BY <2>1, <2>3 DEF States, Streams
  <2> QED
    BY <2>2, <2>3 DEF Streams
<1>2. [S EXCEPT ![a][st] = v] = [S EXCEPT ![a] = x]
  OBVIOUS
<1> HIDE DEF x
<1> QED
  BY <1>1, <1>2 DEF StateSet

\* The types of the fields of a session.
LEMMA SessionFields ==
  ASSUME NEW t, IsSession(t)
  PROVE  /\ t.state \in {"active", "failed", "committed", "aborted"} /\ t.next \in Nat
         /\ t.current \in Attempts /\ t.incomplete \in BOOLEAN
         /\ t.events \in [Attempts -> Seq(Event)] /\ t.eventsOpen \in [Attempts -> BOOLEAN]
         /\ t.log \in [Attempts -> [Streams -> Log]] /\ t.arts \in [Attempts -> Seq(Record)]
         /\ t.states \in [Attempts -> States] /\ t.objects \in SUBSET Digest
BY DEF IsSession

SameEvents(t, r) ==
  /\ r.next = t.next /\ r.current = t.current
  /\ r.events = t.events /\ r.eventsOpen = t.eventsOpen
SameArtifacts(t, r) == r.arts = t.arts /\ r.objects = t.objects

\* A log operation: what it leaves of the session.
LogOnly(t, r, a, st, l, v) ==
  /\ IsSession(r) /\ SameEvents(t, r) /\ SameArtifacts(t, r)
  /\ LogSet(t.log, r.log, a, st, l) /\ StateSet(t.states, r.states, a, st, v)

\* A successful OpenLog creates the file of a stream that had none.
LEMMA OpenLogFields ==
  ASSUME NEW t, IsSession(t), NEW a \in Attempts, NEW st \in Streams, NEW dead \in BOOLEAN,
         NEW f \in BOOLEAN, NEW r, r = OpenLog(t, a, st, dead, f), r.state = "active"
  PROVE  /\ t.state = "active" /\ t.log[a][st].file = "none"
         /\ LogOnly(t, r, a, st, [t.log[a][st] EXCEPT !.file = "open"], "captured_empty")
         /\ r.incomplete = t.incomplete /\ r.entries = t.entries
         /\ r.files = Put(t.files, LogOf(a, st), LogContent(0))
<1>1. t.state = "active" /\ t.log[a][st].file = "none"
  BY DEF OpenLog, IsSession, Fail
<1> DEFINE l == [t.log[a][st] EXCEPT !.file = "open"]
           L == [t.log EXCEPT ![a][st] = l]
           S == [t.states EXCEPT ![a][st] = "captured_empty"]
           F == Put(t.files, LogOf(a, st), LogContent(0))
<1>2. r = [t EXCEPT !.log = L, !.states = S, !.files = F]
  BY <1>1 DEF OpenLog, IsSession, Fail
<1>3. l \in Log
  <2>1. t.log[a][st] \in Log
    BY SessionFields
  <2> QED
    BY <2>1 DEF Log
<1>4. LogSet(t.log, L, a, st, l)
  <2> HIDE DEF l
  <2> QED
    BY <1>3, SessionFields, LogUpdate
<1>5. StateSet(t.states, S, a, st, "captured_empty")
  BY SessionFields, StatesUpdate DEF CaptureState
<1> HIDE DEF l, L, S, F
<1>6. IsSession(r)
  BY <1>2, <1>4, <1>5 DEF IsSession, LogSet, StateSet
<1>7. /\ r.next = t.next /\ r.current = t.current /\ r.incomplete = t.incomplete
      /\ r.events = t.events /\ r.eventsOpen = t.eventsOpen /\ r.arts = t.arts
      /\ r.objects = t.objects /\ r.entries = t.entries
      /\ r.files = F /\ r.log = L /\ r.states = S
  BY <1>2 DEF IsSession
<1> QED
  BY <1>1, <1>4, <1>5, <1>6, <1>7 DEF F, l, LogOnly, SameEvents, SameArtifacts

-----------------------------------------------------------------------------
(* The operations of a session while it is written: logs.                  *)

\* The number of events depends on the events only.
LEMMA TotalEventsSame ==
  ASSUME NEW t, NEW r, r.events = t.events
  PROVE  TotalEvents(r) = TotalEvents(t)
BY DEF TotalEvents

\* The number of stored bytes depends on the logs only.
LEMMA TotalLogBytesSame ==
  ASSUME NEW t, NEW r, r.log = t.log
  PROVE  TotalLogBytes(r) = TotalLogBytes(t)
BY DEF TotalLogBytes

\* An operation that leaves the events alone keeps their numbering.
LEMMA EventsKept ==
  ASSUME NEW t, NEW r, SameEvents(t, r), Numbered(t), OnlyCurrentOpen(t)
  PROVE  Numbered(r) /\ OnlyCurrentOpen(r)
BY TotalEventsSame DEF SameEvents, Numbered, OnlyCurrentOpen, Prior

\* An operation that leaves the artifacts alone keeps their references.
LEMMA ArtifactsKept ==
  ASSUME NEW t, NEW r, SameArtifacts(t, r), ArtifactsRefer(t)
  PROVE  ArtifactsRefer(r)
BY DEF SameArtifacts, ArtifactsRefer

\* Opening, writing, marking and closing a log keep the session in order.
LEMMA LogStepInv ==
  ASSUME NEW t, IsSession(t), SessionInv(t), NEW a \in Attempts, NEW st \in Streams,
         NEW l, NEW v, NEW r, LogOnly(t, r, a, st, l, v),
         t.log[a][st].file \in {"none", "open"},
         t.incomplete => r.incomplete, l.truncated => r.incomplete,
         Added(t.files, r.files, LogOf(a, st), LogContent(l.stored)),
         \/ l.file = "open" /\ v = "captured_empty" /\ r.entries = t.entries
         \/ l.file = "closed" /\ v = LogState(l)
            /\ r.entries = Put(t.entries, LogOf(a, st), LogContent(l.stored))
  PROVE  SessionInv(r)
<1> DEFINE p == LogOf(a, st)
<1>0. /\ IsFcn(r.files) /\ DOMAIN r.files = DOMAIN t.files \cup {p}
      /\ r.files[p] = LogContent(l.stored)
      /\ \A q \in DOMAIN t.files : q # p => r.files[q] = t.files[q]
  BY DEF Added
<1>1. Numbered(r) /\ OnlyCurrentOpen(r) /\ ArtifactsRefer(r)
  BY EventsKept, ArtifactsKept DEF SessionInv, LogOnly
<1>2. p \notin DOMAIN t.entries
  BY DEF SessionInv, Listed
<1>3. /\ IsFcn(r.entries)
      /\ DOMAIN r.entries = IF l.file = "open" THEN DOMAIN t.entries ELSE DOMAIN t.entries \cup {p}
      /\ \A q \in DOMAIN t.entries : r.entries[q] = t.entries[q]
      /\ l.file = "closed" => r.entries[p] = LogContent(l.stored)
      /\ \A q : q # p => (q \in DOMAIN r.entries <=> q \in DOMAIN t.entries)
  <2> DEFINE c == LogContent(l.stored)
  <2>1. CASE l.file = "open"
    BY <2>1 DEF SessionInv, Listed
  <2>2. CASE l.file = "closed"
    <3>1. r.entries = Put(t.entries, p, c)
      BY <2>2
    <3> HIDE DEF c, p
    <3>2. Added(t.entries, r.entries, p, c)
      BY <3>1, PutAdds
    <3> QED
      BY <1>2, <2>2, <3>2 DEF c, Added
  <2> QED
    BY <2>1, <2>2
<1>4. \A b \in Attempts : HasIndex(r, b) <=> HasIndex(t, b)
  BY DEF LogOnly, SameArtifacts, StateSet, HasIndex
<1>5. FileName(p)
  BY DEF FileName, AttemptFiles, Streams
<1>6. \A b \in Attempts, su \in Streams :
        LogOf(b, su) \in DOMAIN r.entries <=> r.log[b][su].file = "closed"
  <2> TAKE b \in Attempts, su \in Streams
  <2>1. CASE b = a /\ su = st
    BY <1>2, <1>3, <2>1 DEF LogOnly, LogSet
  <2>2. CASE ~(b = a /\ su = st)
    <3>1. LogOf(b, su) # p /\ r.log[b][su] = t.log[b][su]
      BY <2>2, NamesInjective DEF LogOnly, LogSet
    <3>2. LogOf(b, su) \in DOMAIN t.entries <=> t.log[b][su].file = "closed"
      BY DEF SessionInv, Listed
    <3> QED
      BY <1>3, <3>1, <3>2
  <2> QED
    BY <2>1, <2>2
<1>7. \A b \in Attempts : EventsOf(b) # p /\ IndexOf(b) # p /\ ResultOf(b) # p
  BY NameHeads DEF Streams
<1>8. (\A d : ObjectOf(d) # p) /\ Plan # p
  BY NameHeads DEF Streams
<1> HIDE DEF p
<1>9. Listed(r, 0, 0, <<>>)
  <2>1. \A q \in DOMAIN r.entries : FileName(q)
    BY <1>3, <1>5 DEF SessionInv, Listed
  <2>2. Plan \in DOMAIN r.entries /\ r.entries[Plan] = PlanContent
    BY <1>3 DEF SessionInv, Listed
  <2>3. ASSUME NEW b \in Attempts
        PROVE  /\ EventsOf(b) \in DOMAIN r.entries <=> r.events[b] # <<>> /\ ~r.eventsOpen[b]
               /\ EventsOf(b) \in DOMAIN r.entries =>
                    r.entries[EventsOf(b)] = EventsContent(r.events[b])
               /\ IndexOf(b) \in DOMAIN r.entries <=> b <= 0 /\ HasIndex(r, b)
               /\ IndexOf(b) \in DOMAIN r.entries => r.entries[IndexOf(b)] = [index |-> r.arts[b]]
               /\ ResultOf(b) \in DOMAIN r.entries <=> b <= 0
               /\ ResultOf(b) \in DOMAIN r.entries => r.entries[ResultOf(b)] = <<>>[b]
    BY <1>3, <1>4, <1>7 DEF SessionInv, Listed, LogOnly, SameEvents, SameArtifacts
  <2>4. ASSUME NEW d \in Digest
        PROVE  /\ ObjectOf(d) \in DOMAIN r.entries <=> d \in r.objects
               /\ ObjectOf(d) \in DOMAIN r.entries => r.entries[ObjectOf(d)] = d
    BY <1>3, <1>8 DEF SessionInv, Listed, LogOnly, SameArtifacts
  <2> QED
    BY <1>3, <1>6, <2>1, <2>2, <2>3, <2>4 DEF Listed
<1>10. Written(r)
  <2>1. \A q \in DOMAIN r.entries : q \in DOMAIN r.files /\ r.files[q] = r.entries[q]
    BY <1>0, <1>2, <1>3 DEF SessionInv, Written
  <2>2. ASSUME NEW q \in DOMAIN r.files
        PROVE  \/ q \in DOMAIN r.entries
               \/ \E b \in Attempts : q = EventsOf(b) /\ r.eventsOpen[b]
               \/ \E b \in Attempts, su \in Streams : q = LogOf(b, su) /\ r.log[b][su].file = "open"
    <3>1. CASE q = p
      BY <1>3, <3>1 DEF p, LogOnly, LogSet
    <3>2. CASE q # p
      <4>1. q \in DOMAIN t.files
        BY <1>0, <3>2
      <4>2. ASSUME NEW b \in Attempts, NEW su \in Streams, q = LogOf(b, su),
                   t.log[b][su].file = "open"
            PROVE  r.log[b][su].file = "open"
        BY <3>2, <4>2 DEF p, LogOnly, LogSet
      <4> QED
        BY <1>3, <4>1, <4>2 DEF SessionInv, Written, LogOnly, SameEvents
    <3> QED
      BY <3>1, <3>2
  <2>3. ASSUME NEW b \in Attempts, r.eventsOpen[b]
        PROVE  /\ EventsOf(b) \in DOMAIN r.files
               /\ r.files[EventsOf(b)] = EventsContent(r.events[b])
    BY <1>0, <1>7, <2>3 DEF SessionInv, Written, LogOnly, SameEvents
  <2>4. ASSUME NEW b \in Attempts, NEW su \in Streams
        PROVE  /\ r.log[b][su].file = "none" => r.log[b][su] = NoLog
               /\ r.log[b][su].file = "open" =>
                    /\ LogOf(b, su) \in DOMAIN r.files
                    /\ r.files[LogOf(b, su)] = LogContent(r.log[b][su].stored)
    <3>1. CASE b = a /\ su = st
      BY <1>0, <3>1 DEF LogOnly, LogSet, p
    <3>2. CASE ~(b = a /\ su = st)
      <4>1. LogOf(b, su) # p /\ r.log[b][su] = t.log[b][su]
        BY <3>2, NamesInjective DEF LogOnly, LogSet, p
      <4> QED
        BY <1>0, <4>1 DEF SessionInv, Written
    <3> QED
      BY <3>1, <3>2
  <2> QED
    BY <1>0, <2>1, <2>2, <2>3, <2>4 DEF Written
<1>11. StatesTell(r)
  <2>1. ASSUME NEW b \in Attempts, NEW su \in Streams
        PROVE  /\ r.log[b][su].file = "none" => r.states[b][su] = "not_provided"
               /\ r.log[b][su].file = "open" => r.states[b][su] = "captured_empty"
               /\ r.log[b][su].file = "closed" => r.states[b][su] = LogState(r.log[b][su])
               /\ r.log[b][su].truncated => r.incomplete
    <3>1. CASE b = a /\ su = st
      BY <3>1 DEF LogOnly, LogSet, StateSet
    <3>2. CASE ~(b = a /\ su = st)
      <4>1. r.states[b][su] = t.states[b][su] /\ r.log[b][su] = t.log[b][su]
        BY <3>2 DEF LogOnly, LogSet, StateSet
      <4> QED
        BY <4>1 DEF SessionInv, StatesTell
    <3> QED
      BY <3>1, <3>2
  <2>2. ASSUME NEW b \in Attempts
        PROVE  /\ r.states[b].events = IF r.events[b] = <<>> THEN "not_provided" ELSE "captured"
               /\ r.states[b].artifacts \in IF r.arts[b] = <<>> THEN {"not_provided", "captured_empty"}
                                            ELSE {"captured", "omitted_limit"}
               /\ r.states[b].artifacts = "omitted_limit" => r.incomplete
    BY DEF SessionInv, StatesTell, LogOnly, StateSet, SameEvents, SameArtifacts
  <2> QED
    BY <2>1, <2>2 DEF StatesTell
<1> QED
  BY <1>1, <1>9, <1>10, <1>11 DEF SessionInv

\* There are finitely many attempts.
LEMMA AttemptsFinite == IsFiniteSet(Attempts)
BY FS_Interval, EvidenceAssumption DEF Attempts

\* The number of stored bytes is a natural.
LEMMA TotalLogBytesIsNat == ASSUME NEW t, IsSession(t) PROVE TotalLogBytes(t) \in Nat
<1> DEFINE F == [a \in Attempts |-> t.log[a]["stdout"].stored + t.log[a]["stderr"].stored]
<1>1. \A a \in Attempts, st \in Streams : t.log[a][st] \in Log
  BY SessionFields
<1>2. F \in [Attempts -> Nat]
  BY <1>1 DEF Log, Streams
<1>3. TotalLogBytes(t) = SumFunction(F)
  BY DEF TotalLogBytes
<1> HIDE DEF F
<1> QED
  BY <1>2, <1>3, AttemptsFinite, SumIsNat

\* A log that grows makes the total grow by as much.
LEMMA TotalLogBytesUpdate ==
  ASSUME NEW t, IsSession(t), NEW r, NEW a \in Attempts, NEW st \in Streams, NEW l \in Log,
         LogSet(t.log, r.log, a, st, l)
  PROVE  TotalLogBytes(r) = TotalLogBytes(t) + l.stored - t.log[a][st].stored
<1> DEFINE F(u) == [b \in Attempts |-> u.log[b]["stdout"].stored + u.log[b]["stderr"].stored]
           f == F(t)
           g == F(r)
<1>1. \A b \in Attempts, su \in Streams : t.log[b][su] \in Log /\ r.log[b][su] \in Log
  BY SessionFields DEF LogSet
<1>2. \A b \in Attempts, su \in Streams : t.log[b][su].stored \in Nat /\ r.log[b][su].stored \in Nat
  BY <1>1 DEF Log
<1>3. f \in [Attempts -> Nat] /\ g \in [Attempts -> Nat]
  BY <1>2 DEF Streams
<1>4. \A b \in Attempts : b # a => g[b] = f[b]
  BY DEF LogSet, Streams
<1>5. g[a] - f[a] = l.stored - t.log[a][st].stored
  <2>1. CASE st = "stdout"
    <3>1. r.log[a]["stderr"] = t.log[a]["stderr"] /\ r.log[a]["stdout"] = l
      BY <2>1 DEF LogSet, Streams
    <3>2. t.log[a]["stderr"].stored \in Nat /\ t.log[a]["stdout"].stored \in Nat /\ l.stored \in Nat
      BY <1>2, <3>1 DEF Streams
    <3> QED
      BY <2>1, <3>1, <3>2
  <2>2. CASE st = "stderr"
    <3>1. r.log[a]["stdout"] = t.log[a]["stdout"] /\ r.log[a]["stderr"] = l
      BY <2>2 DEF LogSet, Streams
    <3>2. t.log[a]["stderr"].stored \in Nat /\ t.log[a]["stdout"].stored \in Nat /\ l.stored \in Nat
      BY <1>2, <3>1 DEF Streams
    <3> QED
      BY <2>2, <3>1, <3>2
  <2> QED
    BY <2>1, <2>2 DEF Streams
<1>6. TotalLogBytes(t) = SumFunction(f) /\ TotalLogBytes(r) = SumFunction(g)
  BY DEF TotalLogBytes
<1>7. f[a] \in Nat /\ g[a] \in Nat /\ l.stored \in Nat /\ t.log[a][st].stored \in Nat
  BY <1>2, <1>3 DEF Log
<1> HIDE DEF f, g, F
<1>8. SumFunction(g) = SumFunction(f) + g[a] - f[a]
  BY <1>3, <1>4, AttemptsFinite, SumUpdate
<1>9. SumFunction(f) \in Nat
  BY <1>3, AttemptsFinite, SumIsNat
<1> QED
  BY <1>5, <1>6, <1>7, <1>8, <1>9

\* A failed session is a session.
LEMMA FailIsSession == ASSUME NEW t, IsSession(t) PROVE IsSession(Fail(t)) /\ Fail(t).state = "failed"
BY DEF IsSession, Fail

\* OpenLog on a session in order.
LEMMA OpenLogInv ==
  ASSUME NEW t, IsSession(t), SessionInv(t), NEW a \in Attempts, NEW st \in Streams,
         NEW dead \in BOOLEAN, NEW f \in BOOLEAN, NEW r, r = OpenLog(t, a, st, dead, f),
         r.state = "active"
  PROVE  /\ IsSession(r) /\ SessionInv(r) /\ SameEvents(t, r) /\ SameArtifacts(t, r)
         /\ r.incomplete = t.incomplete /\ TotalLogBytes(r) = TotalLogBytes(t)
         /\ r.log[a][st].file = "open" /\ t.log[a][st].file = "none"
         /\ \A b \in Attempts, su \in Streams : b # a \/ su # st => r.log[b][su] = t.log[b][su]
<1> DEFINE l == [t.log[a][st] EXCEPT !.file = "open"]
<1>1. /\ t.log[a][st].file = "none"
      /\ LogOnly(t, r, a, st, l, "captured_empty")
      /\ r.incomplete = t.incomplete /\ r.entries = t.entries
      /\ r.files = Put(t.files, LogOf(a, st), LogContent(0))
  BY OpenLogFields
<1>2. t.log[a][st] \in Log
  BY SessionFields
<1>3. l \in Log /\ l.file = "open" /\ l.stored = t.log[a][st].stored
      /\ l.truncated = t.log[a][st].truncated
  BY <1>2 DEF Log
<1>4. t.log[a][st].stored = 0 /\ t.log[a][st].truncated = FALSE
  BY <1>1 DEF SessionInv, Written, NoLog
<1> HIDE DEF l
<1>5. Added(t.files, r.files, LogOf(a, st), LogContent(l.stored))
  BY <1>1, <1>3, <1>4, PutAdds
<1>6. SessionInv(r)
  BY <1>1, <1>3, <1>4, <1>5, LogStepInv
<1>7. TotalLogBytes(r) = TotalLogBytes(t)
  <2>1. TotalLogBytes(r) = TotalLogBytes(t) + l.stored - t.log[a][st].stored
    BY <1>1, <1>3, TotalLogBytesUpdate DEF LogOnly
  <2> QED
    BY <1>3, <1>4, <2>1, TotalLogBytesIsNat
<1> QED
  BY <1>1, <1>3, <1>6, <1>7 DEF LogOnly, LogSet

\* The session's limits on log bytes are naturals.
LEMMA LogLimits == {MaxLogBytesPerStream, MaxTotalLogBytes} \subseteq Nat
BY EvidenceAssumption

\* LogCapture.Write on a session in order: what does not fit makes it incomplete.
LEMMA WriteLogInv ==
  ASSUME NEW t, IsSession(t), SessionInv(t), NEW a \in Attempts, NEW st \in Streams,
         NEW k \in Nat, k > 0, NEW f \in BOOLEAN, NEW r, r = WriteLog(t, a, st, k, f),
         t.state = "active", t.log[a][st].file = "open", r.state = "active",
         TotalLogBytes(t) <= MaxTotalLogBytes
  PROVE  /\ IsSession(r) /\ SessionInv(r) /\ SameEvents(t, r) /\ SameArtifacts(t, r)
         /\ t.incomplete => r.incomplete
         /\ TotalLogBytes(r) <= MaxTotalLogBytes
         /\ \A b \in Attempts, su \in Streams : r.log[b][su].file = t.log[b][su].file
         /\ r.log[a][st].stored = t.log[a][st].stored + k \/ r.incomplete
<1> DEFINE l == t.log[a][st]
           rest == LogRemaining(t, l)
           stored == IF rest > 0 THEN Least(k, rest) ELSE 0
           m == [l EXCEPT !.stored = @ + stored, !.observed = @ + k, !.truncated = @ \/ k > rest]
           L == [t.log EXCEPT ![a][st] = m]
           I == t.incomplete \/ k > rest
           F == Put(t.files, LogOf(a, st), LogContent(l.stored + stored))
<1>1. r = [t EXCEPT !.log = L, !.incomplete = I, !.files = F]
  BY DEF WriteLog, IsSession, Fail
<1>2. l \in Log
  BY SessionFields
<1>3. rest \in Int /\ rest <= MaxTotalLogBytes - TotalLogBytes(t)
  <2>1. l.stored \in Nat /\ TotalLogBytes(t) \in Nat
    BY <1>2, TotalLogBytesIsNat DEF Log
  <2> HIDE DEF l
  <2> QED
    BY <2>1, LogLimits DEF LogRemaining, Least
<1>4. stored \in Nat /\ (stored > 0 => stored <= rest) /\ (~(k > rest) => stored = k)
  <2> HIDE DEF rest
  <2> QED
    BY <1>3 DEF Least
<1> HIDE DEF rest, stored
<1>5. m \in Log /\ m.file = "open" /\ m.stored = l.stored + stored
      /\ (m.truncated => I \/ l.truncated)
  <2> DEFINE z == l.truncated \/ k > rest
  <2>1. l.stored \in Nat /\ l.observed \in Nat /\ l.file = "open" /\ z \in BOOLEAN
    BY <1>2 DEF Log
  <2> HIDE DEF l, z
  <2>2. m = [l EXCEPT !.stored = l.stored + stored, !.observed = l.observed + k, !.truncated = z]
    BY DEF z
  <2>3. l.stored + stored \in Nat /\ l.observed + k \in Nat
    BY <1>4, <2>1
  <2> HIDE DEF m, I
  <2>4. m \in Log /\ m.file = "open" /\ m.stored = l.stored + stored /\ m.truncated = z
    BY <1>2, <2>1, <2>2, <2>3 DEF Log
  <2> QED
    BY <2>4 DEF z, I
<1>6. LogSet(t.log, L, a, st, m)
  <2> HIDE DEF m
  <2> QED
    BY <1>5, SessionFields, LogUpdate
<1>7. StateSet(t.states, t.states, a, st, "captured_empty")
  BY SessionFields DEF StateSet, SessionInv, StatesTell
<1>8. I \in BOOLEAN
  BY SessionFields
<1> HIDE DEF L, I, F, m
<1>9. /\ IsSession(r)
      /\ r.log = L /\ r.incomplete = I /\ r.files = F /\ r.states = t.states /\ r.entries = t.entries
      /\ SameEvents(t, r) /\ SameArtifacts(t, r)
  BY <1>1, <1>6, <1>8 DEF IsSession, LogSet, SameEvents, SameArtifacts
<1>10. LogOnly(t, r, a, st, m, "captured_empty")
  BY <1>6, <1>7, <1>9 DEF LogOnly
<1>11. Added(t.files, r.files, LogOf(a, st), LogContent(m.stored))
  BY <1>5, <1>9, PutAdds DEF F
<1>12. (t.incomplete => r.incomplete) /\ (m.truncated => r.incomplete)
  BY <1>5, <1>9 DEF I, SessionInv, StatesTell, l
<1>13. SessionInv(r)
  BY <1>5, <1>9, <1>10, <1>11, <1>12, LogStepInv
<1>14. TotalLogBytes(r) <= MaxTotalLogBytes
  <2>1. TotalLogBytes(r) = TotalLogBytes(t) + m.stored - l.stored
    BY <1>5, <1>6, <1>9, TotalLogBytesUpdate
  <2>2. l.stored \in Nat
    BY <1>2 DEF Log
  <2> HIDE DEF l
  <2> QED
    BY <1>3, <1>4, <1>5, <2>1, <2>2, TotalLogBytesIsNat, LogLimits
<1>15. \A b \in Attempts, su \in Streams : r.log[b][su].file = t.log[b][su].file
  BY <1>5, <1>6, <1>9 DEF LogSet
<1>16. r.log[a][st].stored = t.log[a][st].stored + k \/ r.incomplete
  BY <1>4, <1>5, <1>6, <1>9 DEF LogSet, I, l
<1> QED
  BY <1>9, <1>12, <1>13, <1>14, <1>15, <1>16

\* MarkTruncated keeps the session in order and makes it incomplete.
LEMMA MarkTruncatedInv ==
  ASSUME NEW t, IsSession(t), SessionInv(t), NEW a \in Attempts, NEW st \in Streams,
         NEW r, r = MarkTruncated(t, a, st), t.state = "active", t.log[a][st].file = "open"
  PROVE  /\ IsSession(r) /\ SessionInv(r) /\ SameEvents(t, r) /\ SameArtifacts(t, r)
         /\ r.state = "active" /\ r.incomplete
         /\ TotalLogBytes(r) = TotalLogBytes(t)
         /\ \A b \in Attempts, su \in Streams : r.log[b][su].file = t.log[b][su].file
<1> DEFINE l == t.log[a][st]
           m == [l EXCEPT !.truncated = TRUE, !.observed = @ + 1]
           L == [t.log EXCEPT ![a][st] = m]
<1>2. l \in Log
  BY SessionFields
<1>3. m \in Log /\ m.file = "open" /\ m.stored = l.stored
  <2>1. l.observed \in Nat /\ l.file = "open"
    BY <1>2 DEF Log
  <2> HIDE DEF l
  <2>2. l.observed + 1 \in Nat
    BY <2>1
  <2> QED
    BY <1>2, <2>1, <2>2 DEF Log
<1>1. r = [t EXCEPT !.log = L, !.incomplete = TRUE]
  <2> DEFINE n == [l EXCEPT !.truncated = TRUE]
             K == [t.log EXCEPT ![a][st] = n]
  <2>1. r = [[[t EXCEPT !.log[a][st].truncated = TRUE] EXCEPT !.log[a][st].observed = @ + 1]
             EXCEPT !.incomplete = TRUE]
    BY ZenonT(60) DEF MarkTruncated
  <2>2. [t EXCEPT !.log[a][st].truncated = TRUE] = [t EXCEPT !.log = K]
    OBVIOUS
  <2>3. [K EXCEPT ![a][st].observed = @ + 1] = [t.log EXCEPT ![a][st] = [K[a][st] EXCEPT !.observed = @ + 1]]
    <3>1. t.log \in [Attempts -> [Streams -> Log]]
      BY SessionFields
    <3> HIDE DEF n
    <3> QED
      BY <3>1
  <2>4. K[a][st] = n /\ [n EXCEPT !.observed = @ + 1] = m
    <3>1. t.log \in [Attempts -> [Streams -> Log]]
      BY SessionFields
    <3>2. K[a][st] = n
      <4> HIDE DEF n
      <4> QED
        BY <3>1
    <3> HIDE DEF l
    <3>3. [n EXCEPT !.observed = @ + 1] = m
      BY <1>2 DEF Log
    <3> QED
      BY <3>2, <3>3
  <2>5. r = [t EXCEPT !.log = [K EXCEPT ![a][st].observed = @ + 1], !.incomplete = TRUE]
    <3> DEFINE u == [t EXCEPT !.log = K]
               X == [K EXCEPT ![a][st].observed = @ + 1]
    <3>1. r = [[u EXCEPT !.log[a][st].observed = @ + 1] EXCEPT !.incomplete = TRUE]
      BY <2>1, <2>2
    <3> HIDE DEF K
    <3>2. u.log = K
      BY DEF IsSession
    <3> HIDE DEF u
    <3>3. [u EXCEPT !.log[a][st].observed = @ + 1] = [u EXCEPT !.log = X]
      BY <3>2
    <3> HIDE DEF X
    <3>4. r = [[u EXCEPT !.log = X] EXCEPT !.incomplete = TRUE]
      BY <3>1, <3>3
    <3>5. r = [t EXCEPT !.log = X, !.incomplete = TRUE]
      BY <3>4 DEF IsSession, u
    <3> QED
      BY <3>5 DEF X
  <2> QED
    BY <2>3, <2>4, <2>5
<1>4. LogSet(t.log, L, a, st, m)
  <2> HIDE DEF m
  <2> QED
    BY <1>3, SessionFields, LogUpdate
<1>5. StateSet(t.states, t.states, a, st, "captured_empty")
  BY SessionFields DEF StateSet, SessionInv, StatesTell
<1> HIDE DEF L, m
<1>6. /\ IsSession(r) /\ r.state = t.state
      /\ r.log = L /\ r.incomplete = TRUE /\ r.files = t.files /\ r.states = t.states
      /\ r.entries = t.entries /\ SameEvents(t, r) /\ SameArtifacts(t, r)
  BY <1>1, <1>4 DEF IsSession, LogSet, SameEvents, SameArtifacts
<1>7. LogOnly(t, r, a, st, m, "captured_empty")
  BY <1>4, <1>5, <1>6 DEF LogOnly
<1>8. Added(t.files, r.files, LogOf(a, st), LogContent(m.stored))
  <2>1. IsFcn(t.files) /\ LogOf(a, st) \in DOMAIN t.files
        /\ t.files[LogOf(a, st)] = LogContent(l.stored)
    BY DEF SessionInv, Written
  <2> QED
    BY <1>3, <1>6, <2>1 DEF Added
<1>9. SessionInv(r)
  BY <1>3, <1>6, <1>7, <1>8, LogStepInv
<1>10. TotalLogBytes(r) = TotalLogBytes(t)
  <2>1. TotalLogBytes(r) = TotalLogBytes(t) + m.stored - l.stored
    BY <1>3, <1>4, <1>6, TotalLogBytesUpdate
  <2>2. l.stored \in Nat
    BY <1>2 DEF Log
  <2> HIDE DEF l
  <2> QED
    BY <1>3, <2>1, <2>2, TotalLogBytesIsNat
<1> QED
  BY <1>3, <1>4, <1>6, <1>9, <1>10 DEF LogSet

\* LogCapture.Close, whatever its outcome.
LEMMA CloseLogTyped ==
  ASSUME NEW t, IsSession(t), NEW a \in Attempts, NEW st \in Streams, NEW f \in BOOLEAN,
         NEW r, r = CloseLog(t, a, st, f)
  PROVE  /\ IsSession(r)
         /\ r.state = "active" => t.state = "active"
         /\ t.log[a][st].file = "open" /\ r.state = "active" =>
              /\ LogOnly(t, r, a, st, [t.log[a][st] EXCEPT !.file = "closed"],
                         LogState(t.log[a][st]))
              /\ r.incomplete = t.incomplete /\ r.files = t.files
              /\ r.entries = Put(t.entries, LogOf(a, st), LogContent(t.log[a][st].stored))
<1> DEFINE l == t.log[a][st]
           m == [l EXCEPT !.file = "closed"]
           L == [t.log EXCEPT ![a][st] = m]
           S == [t.states EXCEPT ![a][st] = LogState(l)]
           c == [t EXCEPT !.log = L]
           u == [c EXCEPT !.states = S]
           E == Put(t.entries, LogOf(a, st), LogContent(l.stored))
<1>1. l \in Log
  BY SessionFields
<1>2. m \in Log
  <2> HIDE DEF l
  <2> QED
    BY <1>1 DEF Log
<1>3. LogSet(t.log, L, a, st, m)
  <2> HIDE DEF m
  <2> QED
    BY <1>2, SessionFields, LogUpdate
<1>4. StateSet(t.states, S, a, st, LogState(l))
  <2>1. LogState(l) \in CaptureState
    BY DEF LogState, CaptureState
  <2> HIDE DEF l
  <2> QED
    BY <2>1, SessionFields, StatesUpdate
<1>5. IsSession(c) /\ c.state = t.state
  <2> HIDE DEF L
  <2> QED
    BY <1>3 DEF IsSession, LogSet
<1>6. /\ IsSession(u) /\ u.state = t.state /\ u.log = L /\ u.states = S /\ u.files = t.files
      /\ u.entries = t.entries /\ u.incomplete = t.incomplete
      /\ SameEvents(t, u) /\ SameArtifacts(t, u)
  <2> HIDE DEF L, S
  <2> QED
    BY <1>3, <1>4 DEF IsSession, LogSet, StateSet, SameEvents, SameArtifacts
<1>7. CASE l.file # "open"
  BY <1>7 DEF CloseLog
<1>8. CASE l.file = "open" /\ f
  <2>1. r = Fail(c)
    BY <1>8, SessionFields DEF CloseLog, IsSession
  <2> HIDE DEF c
  <2> QED
    BY <1>5, <2>1, FailIsSession
<1>9. CASE l.file = "open" /\ ~f
  <2>1. r = AddEntry(u, LogOf(a, st), LogContent(l.stored))
    BY <1>9, SessionFields DEF CloseLog, IsSession
  <2> HIDE DEF u, m, L, S
  <2>2. CASE LogOf(a, st) \in DOMAIN u.entries
    BY <1>6, <2>1, <2>2, FailIsSession DEF AddEntry
  <2>3. CASE LogOf(a, st) \notin DOMAIN u.entries
    <3> DEFINE p == LogOf(a, st)
    <3>1. r = [u EXCEPT !.entries = E]
      BY <1>6, <2>1, <2>3 DEF AddEntry
    <3> HIDE DEF E
    <3>2. /\ IsSession(r) /\ r.state = t.state /\ r.log = L /\ r.states = S /\ r.files = t.files
          /\ r.entries = E /\ r.incomplete = t.incomplete
          /\ SameEvents(t, r) /\ SameArtifacts(t, r)
      BY <1>6, <3>1 DEF IsSession, SameEvents, SameArtifacts
    <3> QED
      BY <1>3, <1>4, <3>2 DEF LogOnly, E, m
  <2> QED
    BY <2>2, <2>3
<1> QED
  BY <1>7, <1>8, <1>9

\* Closing an open log keeps the session in order.
LEMMA CloseLogInv ==
  ASSUME NEW t, IsSession(t), SessionInv(t), NEW a \in Attempts, NEW st \in Streams,
         NEW f \in BOOLEAN, NEW r, r = CloseLog(t, a, st, f), t.log[a][st].file = "open",
         r.state = "active"
  PROVE  /\ IsSession(r) /\ SessionInv(r) /\ SameEvents(t, r) /\ SameArtifacts(t, r)
         /\ r.incomplete = t.incomplete
         /\ TotalLogBytes(r) = TotalLogBytes(t)
         /\ r.log[a][st].file = "closed"
         /\ \A b \in Attempts, su \in Streams : b # a \/ su # st => r.log[b][su] = t.log[b][su]
<1> DEFINE l == t.log[a][st]
           m == [l EXCEPT !.file = "closed"]
<1>1. /\ LogOnly(t, r, a, st, m, LogState(l))
      /\ r.incomplete = t.incomplete /\ r.files = t.files
      /\ r.entries = Put(t.entries, LogOf(a, st), LogContent(l.stored))
  BY CloseLogTyped
<1>2. l \in Log
  BY SessionFields
<1>3. /\ m \in Log /\ m.file = "closed" /\ m.stored = l.stored /\ m.truncated = l.truncated
      /\ LogState(m) = LogState(l)
  <2> HIDE DEF l
  <2> QED
    BY <1>2 DEF Log, LogState
<1>4. /\ IsFcn(t.files) /\ LogOf(a, st) \in DOMAIN t.files
      /\ t.files[LogOf(a, st)] = LogContent(l.stored) /\ (l.truncated => t.incomplete)
  BY DEF SessionInv, Written, StatesTell
<1> HIDE DEF m
<1>5. Added(t.files, r.files, LogOf(a, st), LogContent(m.stored))
  BY <1>1, <1>3, <1>4 DEF Added
<1>6. SessionInv(r)
  BY <1>1, <1>3, <1>4, <1>5, LogStepInv
<1>7. TotalLogBytes(r) = TotalLogBytes(t)
  <2>1. TotalLogBytes(r) = TotalLogBytes(t) + m.stored - l.stored
    BY <1>1, <1>3, TotalLogBytesUpdate DEF LogOnly
  <2>2. l.stored \in Nat
    BY <1>2 DEF Log
  <2> HIDE DEF l
  <2> QED
    BY <1>3, <2>1, <2>2, TotalLogBytesIsNat
<1> QED
  BY <1>1, <1>3, <1>6, <1>7 DEF LogOnly, LogSet

-----------------------------------------------------------------------------
(* Events.                                                                 *)

Fields == {"events", "stdout", "stderr", "artifacts", "result"}

\* M is S with value v for field f of attempt a.
FieldSet(S, M, a, f, v) ==
  /\ M \in [Attempts -> States] /\ M[a][f] = v
  /\ \A b \in Attempts, g \in Fields : b # a \/ g # f => M[b][g] = S[b][g]

\* A changed capture state, point by point.
LEMMA FieldUpdate ==
  ASSUME NEW S \in [Attempts -> States], NEW a \in Attempts, NEW f \in Fields,
         NEW v \in CaptureState
  PROVE  FieldSet(S, [S EXCEPT ![a][f] = v], a, f, v)
<1> DEFINE x == [S[a] EXCEPT ![f] = v]
<1>1. x \in States /\ x[f] = v /\ \A g \in Fields : g # f => x[g] = S[a][g]
  <2>1. S[a] \in States
    OBVIOUS
  <2> HIDE DEF x
  <2>2. CASE f = "events"
    BY <2>1, <2>2 DEF States, Fields, x
  <2>3. CASE f = "stdout"
    BY <2>1, <2>3 DEF States, Fields, x
  <2>4. CASE f = "stderr"
    BY <2>1, <2>4 DEF States, Fields, x
  <2>5. CASE f = "artifacts"
    BY <2>1, <2>5 DEF States, Fields, x
  <2>6. CASE f = "result"
    BY <2>1, <2>6 DEF States, Fields, x
  <2> QED
    BY <2>2, <2>3, <2>4, <2>5, <2>6 DEF Fields
<1>2. [S EXCEPT ![a][f] = v] = [S EXCEPT ![a] = x]
  OBVIOUS
<1> HIDE DEF x
<1> QED
  BY <1>1, <1>2 DEF FieldSet

\* A session that differs only in its entries, its events' file and their state.
Same(t, r) ==
  /\ r.next = t.next /\ r.current = t.current /\ r.incomplete = t.incomplete
  /\ r.events = t.events /\ r.log = t.log /\ r.arts = t.arts /\ r.objects = t.objects

\* The events of attempt c are listed.
EventsListed(t, r, c) ==
  /\ ~r.eventsOpen[c] /\ \A b \in Attempts : b # c => r.eventsOpen[b] = t.eventsOpen[b]
  /\ FieldSet(t.states, r.states, c, "events",
              IF t.events[c] = <<>> THEN "captured_empty" ELSE "captured")
  /\ Added(t.entries, r.entries, EventsOf(c), EventsContent(t.events[c]))

\* Closing the events of attempt c.
LEMMA CloseEventsFields ==
  ASSUME NEW t, IsSession(t), NEW c \in Attempts, NEW r, r = CloseEvents(t, c, FALSE)
  PROVE  /\ IsSession(r) /\ Same(t, r) /\ r.files = t.files
         /\ r.state = t.state \/ r.state = "failed"
         /\ ~t.eventsOpen[c] => r = t
         /\ t.eventsOpen[c] /\ EventsOf(c) \notin DOMAIN t.entries =>
              r.state = t.state /\ EventsListed(t, r, c)
<1> DEFINE v == IF t.events[c] = <<>> THEN "captured_empty" ELSE "captured"
           O == [t.eventsOpen EXCEPT ![c] = FALSE]
           S == [t.states EXCEPT ![c].events = v]
           u == [t EXCEPT !.eventsOpen = O, !.states = S]
           E == Put(t.entries, EventsOf(c), EventsContent(t.events[c]))
<1>1. O \in [Attempts -> BOOLEAN] /\ ~O[c] /\ \A b \in Attempts : b # c => O[b] = t.eventsOpen[b]
  BY SessionFields
<1>2. FieldSet(t.states, S, c, "events", v)
  BY SessionFields, FieldUpdate DEF CaptureState, Fields
<1>3. CASE ~t.eventsOpen[c]
  BY <1>3 DEF CloseEvents, Same
<1>4. CASE t.eventsOpen[c]
  <2>1. r = AddEntry(u, EventsOf(c), EventsContent(t.events[c]))
    BY <1>4 DEF CloseEvents
  <2> HIDE DEF O, S, v
  <2>2. /\ IsSession(u) /\ Same(t, u) /\ u.files = t.files /\ u.state = t.state
        /\ u.entries = t.entries /\ u.eventsOpen = O /\ u.states = S
    BY <1>1, <1>2 DEF IsSession, FieldSet, Same
  <2> HIDE DEF u
  <2>3. CASE EventsOf(c) \in DOMAIN t.entries
    <3>1. r = Fail(u)
      BY <2>1, <2>2, <2>3 DEF AddEntry
    <3> QED
      BY <1>4, <2>2, <2>3, <3>1, FailIsSession, ZenonT(60) DEF Fail, IsSession, Same
  <2>4. CASE EventsOf(c) \notin DOMAIN t.entries
    <3>1. r = [u EXCEPT !.entries = E]
      BY <2>1, <2>2, <2>4 DEF AddEntry
    <3> HIDE DEF E
    <3>2. /\ IsSession(r) /\ Same(t, r) /\ r.files = t.files /\ r.state = t.state
          /\ r.entries = E /\ r.eventsOpen = O /\ r.states = S
      BY <2>2, <3>1 DEF IsSession, Same
    <3>3. Added(t.entries, E, EventsOf(c), EventsContent(t.events[c]))
      BY PutAdds DEF E
    <3> QED
      BY <1>1, <1>2, <1>4, <2>4, <3>2, <3>3 DEF v, EventsListed
  <2> QED
    BY <2>3, <2>4
<1> QED
  BY <1>3, <1>4

\* Files of different kinds have different names.
LEMMA NamesDiffer ==
  /\ \A a : EventsOf(a) # Plan /\ EventsOf(a) # Execution /\ EventsOf(a) # ManifestFile
  /\ \A a, b : EventsOf(a) # IndexOf(b) /\ EventsOf(a) # ResultOf(b) /\ IndexOf(a) # ResultOf(b)
  /\ \A a, b : \A st \in Streams : /\ EventsOf(a) # LogOf(b, st) /\ IndexOf(a) # LogOf(b, st)
                                   /\ ResultOf(a) # LogOf(b, st)
  /\ \A a, d : EventsOf(a) # ObjectOf(d) /\ IndexOf(a) # ObjectOf(d) /\ ResultOf(a) # ObjectOf(d)
  /\ \A b, d : \A st \in Streams : LogOf(b, st) # ObjectOf(d)
  /\ \A a : IndexOf(a) # Plan /\ ResultOf(a) # Plan /\ ObjectOf(a) # Plan
BY NameHeads DEF Streams

\* The capture states of the two sessions are the same but for the results'.
SameStates(t, r) ==
  \A b \in Attempts : /\ r.states[b].artifacts = t.states[b].artifacts
                      /\ r.states[b].events = t.states[b].events
                      /\ \A st \in Streams : r.states[b][st] = t.states[b][st]

\* Capture states that are the same tell the same.
LEMMA StatesSame ==
  ASSUME NEW t, StatesTell(t), NEW r, SameStates(t, r),
         r.log = t.log, r.events = t.events, r.incomplete = t.incomplete, r.arts = t.arts
  PROVE  StatesTell(r)
<1> USE DEF SameStates
<1>1. ASSUME NEW b \in Attempts, NEW su \in Streams
      PROVE  /\ r.log[b][su].file = "none" => r.states[b][su] = "not_provided"
             /\ r.log[b][su].file = "open" => r.states[b][su] = "captured_empty"
             /\ r.log[b][su].file = "closed" => r.states[b][su] = LogState(r.log[b][su])
             /\ r.log[b][su].truncated => r.incomplete
  BY DEF StatesTell
<1>2. ASSUME NEW b \in Attempts
      PROVE  /\ r.states[b].events = IF r.events[b] = <<>> THEN "not_provided" ELSE "captured"
             /\ r.states[b].artifacts \in IF r.arts[b] = <<>> THEN {"not_provided", "captured_empty"}
                                          ELSE {"captured", "omitted_limit"}
             /\ r.states[b].artifacts = "omitted_limit" => r.incomplete
  BY DEF StatesTell
<1> QED
  BY <1>1, <1>2 DEF StatesTell

\* Closing the events of an attempt keeps files and entries together.
LEMMA WrittenAfterClose ==
  ASSUME NEW t, Written(t), NEW c \in Attempts, NEW r,
         r.log = t.log, r.events = t.events, r.files = t.files,
         Added(t.entries, r.entries, EventsOf(c), EventsContent(t.events[c])),
         \A q \in DOMAIN r.entries : q \in DOMAIN r.files /\ r.files[q] = r.entries[q],
         ~r.eventsOpen[c], \A b \in Attempts : b # c => r.eventsOpen[b] = t.eventsOpen[b]
  PROVE  Written(r)
<1>0. DOMAIN r.entries = DOMAIN t.entries \cup {EventsOf(c)}
  BY DEF Added
<1>1. ASSUME NEW q \in DOMAIN r.files
      PROVE  \/ q \in DOMAIN r.entries
             \/ \E b \in Attempts : q = EventsOf(b) /\ r.eventsOpen[b]
             \/ \E b \in Attempts, su \in Streams : q = LogOf(b, su) /\ r.log[b][su].file = "open"
  <2>1. \/ q \in DOMAIN t.entries
        \/ \E b \in Attempts : q = EventsOf(b) /\ t.eventsOpen[b]
        \/ \E b \in Attempts, su \in Streams : q = LogOf(b, su) /\ t.log[b][su].file = "open"
    BY <1>1 DEF Written
  <2>2. ASSUME NEW b \in Attempts, q = EventsOf(b), t.eventsOpen[b]
        PROVE  q \in DOMAIN r.entries \/ r.eventsOpen[b]
    <3>1. CASE b = c
      BY <1>0, <2>2, <3>1
    <3>2. CASE b # c
      BY <2>2, <3>2
    <3> QED
      BY <3>1, <3>2
  <2> QED
    BY <1>0, <2>1, <2>2
<1>2. \A b \in Attempts : r.eventsOpen[b] => t.eventsOpen[b]
  OBVIOUS
<1>3. ASSUME NEW b \in Attempts, r.eventsOpen[b]
      PROVE  EventsOf(b) \in DOMAIN r.files /\ r.files[EventsOf(b)] = EventsContent(r.events[b])
  BY <1>2, <1>3 DEF Written
<1>4. \A b \in Attempts, st \in Streams :
        /\ r.log[b][st].file = "none" => r.log[b][st] = NoLog
        /\ r.log[b][st].file = "open" =>
             /\ LogOf(b, st) \in DOMAIN r.files
             /\ r.files[LogOf(b, st)] = LogContent(r.log[b][st].stored)
  BY DEF Written
<1>5. IsFcn(r.files)
  BY DEF Written
<1> QED
  BY <1>1, <1>3, <1>4, <1>5 DEF Written

\* The events of attempt c are closed, and nothing else has changed.
EventsClosed(t, r, c) ==
  /\ Same(t, r) /\ r.state = t.state /\ r.files = t.files /\ ~r.eventsOpen[c]
  /\ \A b \in Attempts : b # c => r.eventsOpen[b] = t.eventsOpen[b]
  /\ \A b \in Attempts : r.states[b].artifacts = t.states[b].artifacts
  /\ \A b \in Attempts : r.states[b].result = t.states[b].result
OpenHasEvents(t, c) == t.eventsOpen[c] => t.events[c] # <<>>

\* What closing the events of attempt c keeps, also in the middle of a commit.
LEMMA CloseEventsInv ==
  ASSUME NEW t, IsSession(t), NEW k, NEW j, NEW R, Listed(t, k, j, R), Written(t), StatesTell(t),
         NEW c \in Attempts, OpenHasEvents(t, c), NEW r, r = CloseEvents(t, c, FALSE)
  PROVE  /\ IsSession(r) /\ EventsClosed(t, r, c)
         /\ Listed(r, k, j, R) /\ Written(r) /\ StatesTell(r)
<1> USE DEF OpenHasEvents
<1>1. CASE ~t.eventsOpen[c]
  <2>1. r = t /\ Same(t, r)
    BY <1>1, CloseEventsFields
  <2> QED
    BY <1>1, <2>1 DEF EventsClosed
<1>2. CASE t.eventsOpen[c]
  <2> DEFINE p == EventsOf(c)
             x == EventsContent(t.events[c])
  <2>1. p \notin DOMAIN t.entries
    BY <1>2 DEF Listed
  <2>2. /\ IsSession(r) /\ Same(t, r) /\ r.files = t.files /\ r.state = t.state
        /\ EventsListed(t, r, c)
    BY <1>2, <2>1, CloseEventsFields, ZenonT(60)
  <2>0. FieldSet(t.states, r.states, c, "events", "captured")
    BY <1>2, <2>2 DEF EventsListed
  <2>3. ~r.eventsOpen[c] /\ \A b \in Attempts : b # c => r.eventsOpen[b] = t.eventsOpen[b]
    BY <2>2 DEF EventsListed
  <2>4. \A b \in Attempts : /\ r.states[b].artifacts = t.states[b].artifacts
                            /\ r.states[b].result = t.states[b].result
                            /\ r.states[b].events = t.states[b].events
                            /\ \A st \in Streams : r.states[b][st] = t.states[b][st]
    <3>1. t.states[c].events = "captured"
      BY <1>2 DEF StatesTell
    <3> QED
      BY <2>0, <3>1 DEF FieldSet, Fields, Streams
  <2>5. Added(t.entries, r.entries, p, x)
    BY <2>2 DEF EventsListed
  <2>6. /\ IsFcn(r.entries) /\ r.entries[p] = x
        /\ \A q : q \in DOMAIN r.entries <=> q \in DOMAIN t.entries \/ q = p
        /\ \A q \in DOMAIN t.entries : r.entries[q] = t.entries[q]
    BY <2>1, <2>5 DEF Added
  <2>7. \A b \in Attempts : HasIndex(r, b) <=> HasIndex(t, b)
    BY <2>2, <2>4 DEF Same, HasIndex
  <2>8. Listed(r, k, j, R)
    <3>1. \A q \in DOMAIN r.entries : FileName(q)
      BY <2>6 DEF Listed, FileName, AttemptFiles
    <3>2. Plan \in DOMAIN r.entries /\ r.entries[Plan] = PlanContent
      BY <2>6 DEF Listed
    <3>3. ASSUME NEW b \in Attempts
          PROVE  /\ EventsOf(b) \in DOMAIN r.entries <=> r.events[b] # <<>> /\ ~r.eventsOpen[b]
                 /\ EventsOf(b) \in DOMAIN r.entries =>
                      r.entries[EventsOf(b)] = EventsContent(r.events[b])
      <4>1. CASE b = c
        BY <1>2, <2>2, <2>3, <2>6, <4>1 DEF Same
      <4>2. CASE b # c
        <5>1. EventsOf(b) # p
          BY <4>2, NamesInjective
        <5> HIDE DEF p
        <5> QED
          BY <2>2, <2>3, <2>6, <4>2, <5>1 DEF Listed, Same
      <4> QED
        BY <4>1, <4>2
    <3> HIDE DEF x
    <3>4. ASSUME NEW b \in Attempts
          PROVE  /\ \A st \in Streams : LogOf(b, st) \in DOMAIN r.entries <=> r.log[b][st].file = "closed"
                 /\ IndexOf(b) \in DOMAIN r.entries <=> b <= k /\ HasIndex(r, b)
                 /\ IndexOf(b) \in DOMAIN r.entries => r.entries[IndexOf(b)] = [index |-> r.arts[b]]
                 /\ ResultOf(b) \in DOMAIN r.entries <=> b <= j
                 /\ ResultOf(b) \in DOMAIN r.entries => r.entries[ResultOf(b)] = R[b]
      <4>1. IndexOf(b) # p /\ ResultOf(b) # p /\ \A st \in Streams : LogOf(b, st) # p
        BY NamesDiffer
      <4> HIDE DEF p
      <4>2. r.log = t.log /\ r.arts = t.arts
        BY <2>2 DEF Same
      <4>3. \A st \in Streams : LogOf(b, st) \in DOMAIN t.entries <=> t.log[b][st].file = "closed"
        BY DEF Listed
      <4>4. /\ IndexOf(b) \in DOMAIN t.entries <=> b <= k /\ HasIndex(t, b)
            /\ IndexOf(b) \in DOMAIN t.entries => t.entries[IndexOf(b)] = [index |-> t.arts[b]]
            /\ ResultOf(b) \in DOMAIN t.entries <=> b <= j
            /\ ResultOf(b) \in DOMAIN t.entries => t.entries[ResultOf(b)] = R[b]
        BY DEF Listed
      <4>5. \A st \in Streams : LogOf(b, st) \in DOMAIN r.entries <=> r.log[b][st].file = "closed"
        BY <2>6, <4>1, <4>2, <4>3
      <4>6. /\ IndexOf(b) \in DOMAIN r.entries <=> b <= k /\ HasIndex(r, b)
            /\ ResultOf(b) \in DOMAIN r.entries <=> b <= j
        BY <2>6, <2>7, <4>1, <4>4
      <4>7. /\ IndexOf(b) \in DOMAIN r.entries => r.entries[IndexOf(b)] = [index |-> r.arts[b]]
            /\ ResultOf(b) \in DOMAIN r.entries => r.entries[ResultOf(b)] = R[b]
        BY <2>6, <4>1, <4>2, <4>4
      <4> QED
        BY <4>5, <4>6, <4>7
    <3>5. ASSUME NEW d \in Digest
          PROVE  /\ ObjectOf(d) \in DOMAIN r.entries <=> d \in r.objects
                 /\ ObjectOf(d) \in DOMAIN r.entries => r.entries[ObjectOf(d)] = d
      <4>1. ObjectOf(d) # p
        BY NamesDiffer
      <4> HIDE DEF p
      <4> QED
        BY <2>2, <2>6, <4>1 DEF Listed, Same
    <3> QED
      BY <2>6, <3>1, <3>2, <3>3, <3>4, <3>5 DEF Listed
  <2>9. Written(r)
    <3>1. t.files[p] = x /\ p \in DOMAIN t.files
      BY <1>2 DEF Written
    <3>2. \A q \in DOMAIN r.entries : q \in DOMAIN r.files /\ r.files[q] = r.entries[q]
      BY <2>2, <2>6, <3>1, ZenonT(60) DEF Written
    <3>3. /\ r.log = t.log /\ r.events = t.events /\ r.files = t.files
          /\ Added(t.entries, r.entries, EventsOf(c), EventsContent(t.events[c]))
      BY <2>2, <2>5 DEF Same
    <3> HIDE DEF p, x
    <3> QED
      <4>1. /\ Written(t) /\ c \in Attempts /\ r.log = t.log /\ r.events = t.events
            /\ r.files = t.files
            /\ Added(t.entries, r.entries, EventsOf(c), EventsContent(t.events[c]))
        BY <3>3
      <4>2. ~r.eventsOpen[c] /\ \A b \in Attempts : b # c => r.eventsOpen[b] = t.eventsOpen[b]
        BY <2>3
      <4> QED
        BY <3>2, <4>1, <4>2, WrittenAfterClose, Zenon
  <2>10. StatesTell(r)
    <3>1. r.log = t.log /\ r.events = t.events /\ r.incomplete = t.incomplete /\ r.arts = t.arts
      BY <2>2 DEF Same
    <3> HIDE DEF p, x
    <3>2. SameStates(t, r)
      BY <2>4 DEF SameStates
    <3> QED
      BY <3>1, <3>2, StatesSame
  <2> QED
    BY <2>2, <2>3, <2>4, <2>8, <2>9, <2>10 DEF EventsClosed
<1> QED
  BY <1>1, <1>2

\* A log is listed when it is closed.
LEMMA ListedLogs ==
  ASSUME NEW t, NEW k, NEW j, NEW R, Listed(t, k, j, R), NEW b \in Attempts, NEW st \in Streams
  PROVE  LogOf(b, st) \in DOMAIN t.entries <=> t.log[b][st].file = "closed"
BY DEF Listed

\* What a session lists of one attempt.
LEMMA ListedAttempt ==
  ASSUME NEW t, NEW k, NEW j, NEW R, Listed(t, k, j, R), NEW b \in Attempts
  PROVE  /\ \A st \in Streams : LogOf(b, st) \in DOMAIN t.entries <=> t.log[b][st].file = "closed"
         /\ IndexOf(b) \in DOMAIN t.entries <=> b <= k /\ HasIndex(t, b)
         /\ IndexOf(b) \in DOMAIN t.entries => t.entries[IndexOf(b)] = [index |-> t.arts[b]]
         /\ ResultOf(b) \in DOMAIN t.entries <=> b <= j
         /\ ResultOf(b) \in DOMAIN t.entries => t.entries[ResultOf(b)] = R[b]
BY DEF Listed
\* Event e of number n was appended for attempt a.
Appended(u, r, a, n, e) ==
  /\ r.next = n /\ r.current = a /\ r.state = u.state /\ r.incomplete = u.incomplete
  /\ r.log = u.log /\ r.arts = u.arts /\ r.objects = u.objects /\ r.entries = u.entries
  /\ r.events[a] = Append(u.events[a], e)
  /\ \A b \in Attempts : b # a => r.events[b] = u.events[b]
  /\ r.eventsOpen[a] = TRUE
  /\ \A b \in Attempts : b # a => r.eventsOpen[b] = u.eventsOpen[b]
  /\ FieldSet(u.states, r.states, a, "events", "captured")
  /\ Added(u.files, r.files, EventsOf(a), EventsContent(r.events[a]))

Routed(u, a, n) == [u EXCEPT !.current = a, !.next = n, !.eventsOpen[a] = TRUE]

RoutedTo(u, v, a, n) ==
  /\ v.next = n /\ v.current = a /\ v.state = u.state
  /\ v.incomplete = u.incomplete /\ v.log = u.log /\ v.arts = u.arts
  /\ v.objects = u.objects /\ v.entries = u.entries /\ v.files = u.files
  /\ v.events = u.events /\ v.states = u.states /\ v.eventsOpen[a] = TRUE
  /\ \A b \in Attempts : b # a => v.eventsOpen[b] = u.eventsOpen[b]

\* Routing an event to its attempt, field by field.
LEMMA RoutedFields ==
  ASSUME NEW u, IsSession(u), NEW a \in Attempts, NEW n \in Nat, NEW v, v = Routed(u, a, n)
  PROVE  IsSession(v) /\ RoutedTo(u, v, a, n)
<1> DEFINE O == [u.eventsOpen EXCEPT ![a] = TRUE]
<1>1. /\ O \in [Attempts -> BOOLEAN] /\ O[a] = TRUE
      /\ \A b \in Attempts : b # a => O[b] = u.eventsOpen[b]
  BY SessionFields
<1>2. v = [u EXCEPT !.current = a, !.next = n, !.eventsOpen = O]
  BY DEF Routed
<1> HIDE DEF O
<1>3. /\ IsSession(v) /\ v.next = n /\ v.current = a /\ v.state = u.state
      /\ v.incomplete = u.incomplete /\ v.log = u.log /\ v.arts = u.arts
      /\ v.objects = u.objects /\ v.entries = u.entries /\ v.files = u.files
      /\ v.events = u.events /\ v.states = u.states /\ v.eventsOpen = O
  BY <1>1, <1>2 DEF IsSession
<1> QED
  BY <1>1, <1>3 DEF RoutedTo

\* Writing the routed event, field by field.
LEMMA AppendFields ==
  ASSUME NEW u, IsSession(u), NEW a \in Attempts, NEW n \in Nat, NEW e \in Event,
         NEW r, r = AppendEvent(Routed(u, a, n), a, e)
  PROVE  IsSession(r) /\ Appended(u, r, a, n, e)
<1>0. PICK v : v = Routed(u, a, n)
  OBVIOUS
<1> DEFINE V == [v.events EXCEPT ![a] = Append(v.events[a], e)]
           S == [v.states EXCEPT ![a].events = "captured"]
           F == Put(v.files, EventsOf(a), EventsContent(Append(v.events[a], e)))
<1>1. r = [v EXCEPT !.events = V, !.states = S, !.files = F]
  BY <1>0 DEF AppendEvent
<1>2. /\ IsSession(v) /\ v.next = n /\ v.current = a /\ v.state = u.state
      /\ v.incomplete = u.incomplete /\ v.log = u.log /\ v.arts = u.arts
      /\ v.objects = u.objects /\ v.entries = u.entries /\ v.files = u.files
      /\ v.events = u.events /\ v.states = u.states /\ v.eventsOpen[a] = TRUE
      /\ \A b \in Attempts : b # a => v.eventsOpen[b] = u.eventsOpen[b]
  <2>1. IsSession(v) /\ RoutedTo(u, v, a, n)
    BY <1>0, RoutedFields
  <2> QED
    BY <2>1 DEF RoutedTo
<1>3. /\ V \in [Attempts -> Seq(Event)] /\ V[a] = Append(u.events[a], e)
      /\ \A b \in Attempts : b # a => V[b] = u.events[b]
  <2>1. v.events \in [Attempts -> Seq(Event)]
    BY <1>2, SessionFields
  <2> QED
    BY <1>2, <2>1
<1>4. FieldSet(u.states, S, a, "events", "captured")
  BY <1>2, SessionFields, FieldUpdate DEF CaptureState, Fields
<1>5. Added(u.files, F, EventsOf(a), EventsContent(V[a]))
  BY <1>2, <1>3, PutAdds
<1> HIDE DEF V, S, F
<1>6. /\ IsSession(r) /\ r.next = v.next /\ r.current = v.current /\ r.state = v.state
      /\ r.incomplete = v.incomplete /\ r.log = v.log /\ r.arts = v.arts
      /\ r.objects = v.objects /\ r.entries = v.entries /\ r.files = F
      /\ r.events = V /\ r.states = S /\ r.eventsOpen = v.eventsOpen
  BY <1>1, <1>2, <1>3, <1>4, ZenonT(60) DEF IsSession, FieldSet
<1>7. /\ r.next = n /\ r.current = a /\ r.state = u.state /\ r.incomplete = u.incomplete
      /\ r.log = u.log /\ r.arts = u.arts /\ r.objects = u.objects /\ r.entries = u.entries
  BY <1>2, <1>6
<1>8. /\ r.events[a] = Append(u.events[a], e)
      /\ \A b \in Attempts : b # a => r.events[b] = u.events[b]
      /\ r.eventsOpen[a] = TRUE
      /\ \A b \in Attempts : b # a => r.eventsOpen[b] = u.eventsOpen[b]
  BY <1>2, <1>3, <1>6
<1>9. FieldSet(u.states, r.states, a, "events", "captured")
  BY <1>4, <1>6
<1>10. Added(u.files, r.files, EventsOf(a), EventsContent(r.events[a]))
  BY <1>5, <1>6
<1> QED
  BY <1>6, <1>7, <1>8, <1>9, <1>10 DEF Appended

\* The bookkeeping of the files after an event.
LEMMA AppendedInv ==
  ASSUME NEW u, IsSession(u), Listed(u, 0, 0, <<>>), Written(u), StatesTell(u), ArtifactsRefer(u),
         NEW a \in Attempts, NEW n \in Nat, NEW e \in Event, NEW r, IsSession(r),
         Appended(u, r, a, n, e), u.eventsOpen[a] <=> u.events[a] # <<>>
  PROVE  /\ Listed(r, 0, 0, <<>>) /\ Written(r) /\ StatesTell(r) /\ ArtifactsRefer(r)
         /\ r.events[a] # <<>>
<1>1. /\ r.entries = u.entries /\ r.log = u.log /\ r.arts = u.arts /\ r.objects = u.objects
      /\ r.incomplete = u.incomplete
      /\ r.eventsOpen[a] = TRUE /\ (\A b \in Attempts : b # a => r.eventsOpen[b] = u.eventsOpen[b])
      /\ \A b \in Attempts : b # a => r.events[b] = u.events[b]
      /\ r.events[a] = Append(u.events[a], e)
  BY DEF Appended
<1>0. r.entries = u.entries /\ r.log = u.log /\ r.arts = u.arts /\ r.objects = u.objects
  BY <1>1
<1>2. r.events[a] # <<>>
  <2>1. u.events[a] \in Seq(Event)
    BY SessionFields
  <2> QED
    BY <1>1, <2>1
<1>3. EventsOf(a) \notin DOMAIN u.entries
  BY DEF Listed
<1>4. \A b \in Attempts :
        /\ r.states[b].artifacts = u.states[b].artifacts
        /\ r.states[b].events = IF b = a THEN "captured" ELSE u.states[b].events
        /\ \A st \in Streams : r.states[b][st] = u.states[b][st]
  BY DEF Appended, FieldSet, Fields, Streams
<1>5. \A b \in Attempts : HasIndex(r, b) <=> HasIndex(u, b)
  BY <1>1, <1>4 DEF HasIndex
<1>6. Listed(r, 0, 0, <<>>)
  <2>1. ASSUME NEW b \in Attempts
        PROVE  /\ EventsOf(b) \in DOMAIN r.entries <=> r.events[b] # <<>> /\ ~r.eventsOpen[b]
               /\ EventsOf(b) \in DOMAIN r.entries =>
                    r.entries[EventsOf(b)] = EventsContent(r.events[b])
    <3>1. CASE b = a
      BY <1>1, <1>3, <3>1
    <3>2. CASE b # a
      BY <1>1, <3>2, ZenonT(60) DEF Listed
    <3> QED
      BY <3>1, <3>2
  <2>2. ASSUME NEW b \in Attempts
        PROVE  /\ \A st \in Streams : LogOf(b, st) \in DOMAIN r.entries <=> r.log[b][st].file = "closed"
               /\ IndexOf(b) \in DOMAIN r.entries <=> b <= 0 /\ HasIndex(r, b)
               /\ IndexOf(b) \in DOMAIN r.entries => r.entries[IndexOf(b)] = [index |-> r.arts[b]]
               /\ ResultOf(b) \in DOMAIN r.entries <=> b <= 0
               /\ ResultOf(b) \in DOMAIN r.entries => r.entries[ResultOf(b)] = <<>>[b]
    <3>1. \A st \in Streams : LogOf(b, st) \in DOMAIN r.entries <=> r.log[b][st].file = "closed"
      <4>1. \A st \in Streams : LogOf(b, st) \in DOMAIN u.entries <=> u.log[b][st].file = "closed"
        BY ListedLogs
      <4> QED
        BY <1>0, <4>1
    <3>2. /\ IndexOf(b) \in DOMAIN r.entries <=> b <= 0 /\ HasIndex(r, b)
          /\ IndexOf(b) \in DOMAIN r.entries => r.entries[IndexOf(b)] = [index |-> r.arts[b]]
      BY <1>0, <1>5, ListedAttempt
    <3>3. /\ ResultOf(b) \in DOMAIN r.entries <=> b <= 0
          /\ ResultOf(b) \in DOMAIN r.entries => r.entries[ResultOf(b)] = <<>>[b]
      BY <1>1, ZenonT(60) DEF Listed
    <3> QED
      BY <3>1, <3>2, <3>3
  <2>3. ASSUME NEW d \in Digest
        PROVE  /\ ObjectOf(d) \in DOMAIN r.entries <=> d \in r.objects
               /\ ObjectOf(d) \in DOMAIN r.entries => r.entries[ObjectOf(d)] = d
    BY <1>1 DEF Listed
  <2>4. /\ IsFcn(r.entries) /\ (\A q \in DOMAIN r.entries : FileName(q))
        /\ Plan \in DOMAIN r.entries /\ r.entries[Plan] = PlanContent
    BY <1>1 DEF Listed
  <2> QED
    BY <2>1, <2>2, <2>3, <2>4 DEF Listed
<1>7. Written(r)
  <2>1. /\ IsFcn(r.files) /\ DOMAIN r.files = DOMAIN u.files \cup {EventsOf(a)}
        /\ r.files[EventsOf(a)] = EventsContent(r.events[a])
        /\ \A q \in DOMAIN u.files : q # EventsOf(a) => r.files[q] = u.files[q]
    BY DEF Appended, Added
  <2>2. \A q \in DOMAIN r.entries : q \in DOMAIN r.files /\ r.files[q] = r.entries[q]
    BY <1>1, <1>3, <2>1 DEF Written
  <2>3. ASSUME NEW q \in DOMAIN r.files
        PROVE  \/ q \in DOMAIN r.entries
               \/ \E b \in Attempts : q = EventsOf(b) /\ r.eventsOpen[b]
               \/ \E b \in Attempts, su \in Streams : q = LogOf(b, su) /\ r.log[b][su].file = "open"
    <3>1. CASE q = EventsOf(a)
      BY <1>1, <3>1
    <3>2. CASE q # EventsOf(a)
      <4>1. q \in DOMAIN u.files
        BY <2>1, <3>2
      <4> QED
        BY <1>1, <3>2, <4>1 DEF Written
    <3> QED
      BY <3>1, <3>2
  <2>4. ASSUME NEW b \in Attempts, r.eventsOpen[b]
        PROVE  EventsOf(b) \in DOMAIN r.files /\ r.files[EventsOf(b)] = EventsContent(r.events[b])
    <3>1. CASE b = a
      BY <2>1, <3>1
    <3>2. CASE b # a
      <4>1. EventsOf(b) # EventsOf(a)
        BY <3>2, NamesInjective
      <4>2. u.eventsOpen[b] /\ r.events[b] = u.events[b]
        BY <1>1, <2>4, <3>2
      <4> QED
        BY <2>1, <4>1, <4>2 DEF Written
    <3> QED
      BY <3>1, <3>2
  <2>5. ASSUME NEW b \in Attempts, NEW st \in Streams
        PROVE  /\ r.log[b][st].file = "none" => r.log[b][st] = NoLog
               /\ r.log[b][st].file = "open" =>
                    /\ LogOf(b, st) \in DOMAIN r.files
                    /\ r.files[LogOf(b, st)] = LogContent(r.log[b][st].stored)
    <3>1. LogOf(b, st) # EventsOf(a)
      BY NamesDiffer
    <3> QED
      BY <1>1, <2>1, <3>1 DEF Written
  <2> QED
    BY <2>1, <2>2, <2>3, <2>4, <2>5 DEF Written
<1>8. StatesTell(r)
  <2>1. ASSUME NEW b \in Attempts, NEW su \in Streams
        PROVE  /\ r.log[b][su].file = "none" => r.states[b][su] = "not_provided"
               /\ r.log[b][su].file = "open" => r.states[b][su] = "captured_empty"
               /\ r.log[b][su].file = "closed" => r.states[b][su] = LogState(r.log[b][su])
               /\ r.log[b][su].truncated => r.incomplete
    BY <1>1, <1>4 DEF StatesTell
  <2>2. ASSUME NEW b \in Attempts
        PROVE  /\ r.states[b].events = IF r.events[b] = <<>> THEN "not_provided" ELSE "captured"
               /\ r.states[b].artifacts \in IF r.arts[b] = <<>> THEN {"not_provided", "captured_empty"}
                                            ELSE {"captured", "omitted_limit"}
               /\ r.states[b].artifacts = "omitted_limit" => r.incomplete
    BY <1>1, <1>2, <1>4 DEF StatesTell
  <2> QED
    BY <2>1, <2>2 DEF StatesTell
<1>9. ArtifactsRefer(r)
  BY <1>1, ArtifactsKept DEF SameArtifacts
<1> QED
  BY <1>2, <1>6, <1>7, <1>8, <1>9

\* One event more, of attempt a.
EventAdded(t, r, a, e) ==
  /\ r.events[a] = Append(t.events[a], e)
  /\ \A b \in Attempts : b # a => r.events[b] = t.events[b]

\* An event more makes the total one more.
LEMMA TotalEventsAppend ==
  ASSUME NEW t, IsSession(t), NEW r, IsSession(r), NEW a \in Attempts, NEW e \in Event,
         EventAdded(t, r, a, e)
  PROVE  TotalEvents(r) = TotalEvents(t) + 1 /\ TotalEvents(t) \in Nat
<1> DEFINE F(u) == [b \in Attempts |-> Len(u.events[b])]
           f == F(t)
           g == F(r)
<1>1. \A b \in Attempts : t.events[b] \in Seq(Event) /\ r.events[b] \in Seq(Event)
  BY SessionFields
<1>2. f \in [Attempts -> Nat] /\ g \in [Attempts -> Nat]
  BY <1>1
<1>3. \A b \in Attempts : b # a => g[b] = f[b]
  BY DEF EventAdded
<1>4. g[a] = f[a] + 1 /\ f[a] \in Nat
  BY <1>1 DEF EventAdded
<1>5. TotalEvents(t) = SumFunction(f) /\ TotalEvents(r) = SumFunction(g)
  BY DEF TotalEvents
<1> HIDE DEF f, g
<1>6. SumFunction(g) = SumFunction(f) + g[a] - f[a] /\ SumFunction(f) \in Nat
  BY <1>2, <1>3, AttemptsFinite, SumUpdate, SumIsNat
<1> QED
  BY <1>4, <1>5, <1>6

\* An event with the next number, of this attempt or the next, keeps the numbering.
LEMMA NumberedAppend ==
  ASSUME NEW t, IsSession(t), Numbered(t), NEW r, IsSession(r), NEW a \in Attempts,
         NEW e \in Event, EventAdded(t, r, a, e), e.n = t.next + 1, r.next = t.next + 1,
         r.current = a, a = t.current \/ (a = t.current + 1 /\ t.events[t.current] # <<>>)
  PROVE  Numbered(r)
<1>1. \A b \in Attempts : t.events[b] \in Seq(Event) /\ r.events[b] \in Seq(Event)
  BY SessionFields
<1>2. /\ r.events[a] = Append(t.events[a], e) /\ r.events[a] # <<>>
      /\ Len(r.events[a]) = Len(t.events[a]) + 1 /\ Len(t.events[a]) \in Nat
      /\ r.events[a][Len(t.events[a]) + 1] = e
      /\ \A i \in 1..Len(t.events[a]) : r.events[a][i] = t.events[a][i]
      /\ \A b \in Attempts : b # a => r.events[b] = t.events[b]
  <2>1. t.events[a] \in Seq(Event)
    BY <1>1
  <2>2. r.events[a] = Append(t.events[a], e) /\ \A b \in Attempts : b # a => r.events[b] = t.events[b]
    BY DEF EventAdded
  <2> QED
    BY <2>1, <2>2
<1>3. LastSeq(r.events[a]) = t.next + 1
  BY <1>2 DEF LastSeq
<1>4. t.current \in Nat /\ t.current >= 1 /\ t.next \in Nat /\ a \in Nat /\ \A b \in Attempts : b \in Nat /\ b >= 1
  BY SessionFields, EvidenceAssumption, SMTT(40) DEF Attempts
<1>5. /\ \A b \in Attempts : b < t.current => t.events[b] # <<>>
      /\ \A b \in Attempts : b > t.current => t.events[b] = <<>>
      /\ t.current > 1 => t.events[t.current] # <<>>
      /\ t.next = LastSeq(t.events[t.current])
  BY DEF Numbered
<1>6. \A b \in Attempts : b > a => r.events[b] = <<>>
  BY <1>2, <1>4, <1>5
<1>7. \A b \in Attempts : b < a => r.events[b] # <<>>
  BY <1>2, <1>4, <1>5
<1>8. t.current \in Attempts
  BY SessionFields
<1>9. \A b \in Attempts : b <= a => Prior(r, b) = Prior(t, b)
  <2> TAKE b \in Attempts
  <2>1. CASE b = 1
    BY <2>1 DEF Prior
  <2>2. CASE b # 1
    <3>1. b \in 1..N /\ N \in Nat
      BY EvidenceAssumption DEF Attempts
    <3>2. b - 1 \in Attempts
      BY <2>2, <3>1 DEF Attempts
    <3>3. b <= a => b - 1 # a
      BY <1>4, <3>1
    <3> QED
      BY <1>2, <2>2, <3>2, <3>3 DEF Prior
  <2> QED
    BY <2>1, <2>2
<1>10. Prior(t, a) + Len(t.events[a]) + 1 = t.next + 1 /\ Prior(t, a) \in Nat
  <2>1. CASE a = t.current + 1 /\ t.events[t.current] # <<>>
    <3>1. t.events[a] = <<>>
      BY <1>4, <1>5, <2>1
    <3>2. Prior(t, a) = t.next
      BY <1>4, <1>5, <2>1 DEF Prior
    <3> QED
      BY <1>4, <3>1, <3>2
  <2>2. CASE a = t.current /\ t.events[a] = <<>>
    <3>1. a = 1
      BY <1>4, <1>5, <2>2
    <3>2. t.next = 0 /\ Prior(t, a) = 0 /\ Len(t.events[a]) = 0
      BY <1>5, <2>2, <3>1 DEF Prior, LastSeq
    <3> QED
      BY <3>2
  <2>3. CASE a = t.current /\ t.events[a] # <<>>
    <3> DEFINE m == Len(t.events[a])
    <3>1. m \in 1..m
      BY <1>1, <1>2, <2>3
    <3>2. t.events[a][m].n = Prior(t, a) + m
      BY <3>1 DEF Numbered
    <3>3. t.next = t.events[a][m].n
      BY <1>5, <2>3 DEF LastSeq
    <3>4. Prior(t, a) \in Nat
      <4>1. CASE a = 1
        BY <4>1 DEF Prior
      <4>2. CASE a # 1
        <5>1. a \in 1..N /\ N \in Nat
          BY EvidenceAssumption DEF Attempts
        <5>2. a - 1 \in Attempts
          BY <4>2, <5>1 DEF Attempts
        <5>3. t.events[a - 1] \in Seq(Event)
          BY <1>1, <5>2
        <5>4. LastSeq(t.events[a - 1]) \in Nat
          <6> DEFINE z == t.events[a - 1]
          <6>1. z = <<>> \/ (Len(z) \in 1..Len(z))
            BY <5>3
          <6>2. z # <<>> => z[Len(z)] \in Event
            BY <5>3, <6>1
          <6> HIDE DEF z
          <6>3. LastSeq(z) \in Nat
            BY <6>2 DEF LastSeq, Event
          <6> QED
            BY <6>3 DEF z
        <5> QED
          BY <4>2, <5>4 DEF Prior
      <4> QED
        BY <4>1, <4>2
    <3> QED
      BY <1>2, <3>2, <3>3, <3>4
  <2> QED
    BY <2>1, <2>2, <2>3
<1>11. ASSUME NEW b \in Attempts, NEW i \in 1..Len(r.events[b])
       PROVE  r.events[b][i].n = Prior(r, b) + i
  <2>1. CASE b > a
    BY <1>6, <1>11, <2>1
  <2>2. CASE b = a
    <3>1. CASE i \in 1..Len(t.events[a])
      <4>1. t.events[a][i].n = Prior(t, a) + i
        BY <3>1 DEF Numbered
      <4>2. Prior(r, a) = Prior(t, a)
        BY <1>4, <1>9
      <4>3. r.events[a][i] = t.events[a][i]
        BY <1>2, <3>1
      <4> QED
        BY <2>2, <4>1, <4>2, <4>3
    <3>2. CASE i = Len(t.events[a]) + 1
      BY <1>2, <1>4, <1>9, <1>10, <2>2, <3>2
    <3> QED
      BY <1>2, <2>2, <1>11, <3>1, <3>2
  <2>3. CASE b < a
    <3>1. r.events[b] = t.events[b] /\ Prior(r, b) = Prior(t, b)
      BY <1>2, <1>4, <1>9, <2>3
    <3>2. t.events[b][i].n = Prior(t, b) + i
      BY <1>11, <3>1 DEF Numbered
    <3> QED
      BY <3>1, <3>2
  <2> QED
    BY <1>4, <2>1, <2>2, <2>3
<1>12. TotalEvents(r) = r.next
  BY TotalEventsAppend DEF Numbered
<1> QED
  BY <1>2, <1>3, <1>6, <1>7, <1>11, <1>12 DEF Numbered

\* The number of the last event is a natural.
LEMMA LastIsNat == ASSUME NEW z \in Seq(Event) PROVE LastSeq(z) \in Nat
<1>1. z = <<>> \/ (Len(z) \in 1..Len(z))
  OBVIOUS
<1>2. z # <<>> => z[Len(z)] \in Event
  BY <1>1
<1> QED
  BY <1>2 DEF LastSeq, Event

\* The session in which the event of attempt a is written.
Route(t, a) == IF a > t.current THEN CloseEvents(t, t.current, FALSE) ELSE t

\* Emit, whatever its outcome.
EmitOutcome(t, r, a, n, kind) ==
  r.state = "active" =>
    /\ t.state = "active" /\ n = t.next + 1 /\ a >= t.current
    /\ r = AppendEvent(Routed(Route(t, a), a, n), a, [n |-> n, kind |-> kind])
StateAfter(t, r) == t.state \in {"active", "failed"} => r.state \in {"active", "failed"}

\* EventSink.Emit, whatever its outcome.
LEMMA EmitTyped ==
  ASSUME NEW t, IsSession(t), NEW a \in Attempts, NEW n \in Nat, NEW kind \in EventKinds,
         NEW dead \in BOOLEAN, NEW fault \in BOOLEAN, NEW r, r = Emit(t, a, n, kind, dead, fault)
  PROVE  IsSession(r) /\ r.log = t.log /\ EmitOutcome(t, r, a, n, kind) /\ StateAfter(t, r)
<1>1. CASE t.state # "active"
  BY <1>1 DEF Emit, EmitOutcome, StateAfter
<1>2. CASE t.state = "active" /\ (dead \/ fault \/ ~RightOrder(t, a, n))
  <2>1. r = Fail(t)
    BY <1>2 DEF Emit
  <2>2. Fail(t).log = t.log
    BY DEF Fail, IsSession
  <2> QED
    BY <2>1, <2>2, FailIsSession DEF EmitOutcome, StateAfter
<1>3. CASE t.state = "active" /\ ~(dead \/ fault \/ ~RightOrder(t, a, n))
  <2>1. PICK u : u = IF a > t.current THEN CloseEvents(t, t.current, FALSE) ELSE t
    OBVIOUS
  <2>2. IsSession(u) /\ u.log = t.log /\ StateAfter(t, u)
    <3>1. CASE a > t.current
      <4>1. t.current \in Attempts
        BY SessionFields
      <4>2. u = CloseEvents(t, t.current, FALSE)
        BY <2>1, <3>1
      <4>3. IsSession(u) /\ Same(t, u) /\ (u.state = t.state \/ u.state = "failed")
        BY <4>1, <4>2, CloseEventsFields
      <4> QED
        BY <4>3 DEF Same, StateAfter
    <3>2. CASE ~(a > t.current)
      BY <2>1, <3>2 DEF StateAfter
    <3> QED
      BY <3>1, <3>2
  <2>3. n = t.next + 1 /\ a >= t.current
    BY <1>3 DEF RightOrder
  <2> DEFINE e == [n |-> n, kind |-> kind]
  <2>4. e \in Event
    BY DEF Event
  <2>5. r = IF Len(t.events[a]) >= MaxEventsPerAttempt \/ TotalEvents(t) >= MaxEventsPerBundle
            THEN Fail(Routed(u, a, n)) ELSE AppendEvent(Routed(u, a, n), a, e)
    BY <1>3, <2>1 DEF Emit, Routed
  <2> HIDE DEF e
  <2>6. CASE r = Fail(Routed(u, a, n))
    <3>1. PICK v : v = Routed(u, a, n)
      OBVIOUS
    <3>2. IsSession(v) /\ v.log = u.log
      <4>1. IsSession(v) /\ RoutedTo(u, v, a, n)
        BY <2>2, <3>1, RoutedFields
      <4> QED
        BY <4>1 DEF RoutedTo
    <3>3. IsSession(r) /\ r.state = "failed"
      BY <2>6, <3>1, <3>2, FailIsSession
    <3>4. r.log = v.log
      BY <2>6, <3>1, <3>2 DEF Fail, IsSession
    <3> QED
      BY <2>2, <3>2, <3>3, <3>4 DEF EmitOutcome, StateAfter
  <2>7. CASE r = AppendEvent(Routed(u, a, n), a, e)
    <3>1. IsSession(r) /\ Appended(u, r, a, n, e)
      BY <2>2, <2>4, <2>7, AppendFields
    <3>2. r.log = u.log /\ r.state = u.state
      BY <3>1 DEF Appended
    <3>3. r = AppendEvent(Routed(Route(t, a), a, n), a, [n |-> n, kind |-> kind])
      BY <2>1, <2>7 DEF e, Route
    <3> QED
      BY <1>3, <2>2, <2>3, <3>1, <3>2, <3>3 DEF EmitOutcome, StateAfter
  <2> QED
    BY <2>5, <2>6, <2>7
<1> QED
  BY <1>1, <1>2, <1>3

\* The attempt whose event may come next, and what a successful Emit does.
MayEmit(t, a) == a = t.current \/ (a = t.current + 1 /\ t.events[t.current] # <<>>)
EmitDone(t, r, a, n, kind) ==
  /\ t.state = "active" /\ n = t.next + 1
  /\ r.next = n /\ r.log = t.log /\ r.incomplete = t.incomplete
  /\ EventAdded(t, r, a, [n |-> n, kind |-> kind])

\* A successful Emit keeps the session in order.
LEMMA EmitInv ==
  ASSUME NEW t, IsSession(t), SessionInv(t), NEW a \in Attempts, NEW n \in Nat,
         NEW kind \in EventKinds, NEW dead \in BOOLEAN, NEW fault \in BOOLEAN,
         NEW r, r = Emit(t, a, n, kind, dead, fault), r.state = "active",
         MayEmit(t, a)
  PROVE  IsSession(r) /\ SessionInv(r) /\ EmitDone(t, r, a, n, kind)
<1>0. a = t.current \/ (a = t.current + 1 /\ t.events[t.current] # <<>>)
  BY DEF MayEmit
<1> DEFINE e == [n |-> n, kind |-> kind]
<1>1. PICK u : u = Route(t, a)
  OBVIOUS
<1>2. /\ t.state = "active" /\ n = t.next + 1 /\ a >= t.current
      /\ r = AppendEvent(Routed(u, a, n), a, e)
  <2>1. EmitOutcome(t, r, a, n, kind)
    BY EmitTyped
  <2> QED
    BY <1>1, <2>1 DEF EmitOutcome
<1>3. e \in Event
  BY DEF Event
<1>4. t.current \in Attempts /\ t.current \in Nat /\ a \in Nat
  BY SessionFields, EvidenceAssumption DEF Attempts
<1>5. /\ IsSession(u) /\ Same(t, u) /\ Listed(u, 0, 0, <<>>) /\ Written(u) /\ StatesTell(u)
      /\ u.eventsOpen[a] <=> u.events[a] # <<>>
      /\ \A b \in Attempts : b # a => ~u.eventsOpen[b]
  <2>1. /\ Listed(t, 0, 0, <<>>) /\ Written(t) /\ StatesTell(t)
        /\ \A b \in Attempts : t.eventsOpen[b] <=> b = t.current /\ t.events[b] # <<>>
    BY DEF SessionInv, OnlyCurrentOpen
  <2>2. CASE a > t.current
    <3>1. PICK c \in Attempts : c = t.current
      BY <1>4
    <3>2. u = CloseEvents(t, c, FALSE)
      BY <1>1, <2>2, <3>1 DEF Route
    <3>3. OpenHasEvents(t, c)
      BY <2>1 DEF OpenHasEvents
    <3>8. IsSession(u) /\ EventsClosed(t, u, c) /\ Listed(u, 0, 0, <<>>) /\ Written(u) /\ StatesTell(u)
      BY <2>1, <3>2, <3>3, CloseEventsInv
    <3>4. /\ IsSession(u) /\ Same(t, u) /\ Listed(u, 0, 0, <<>>) /\ Written(u) /\ StatesTell(u)
          /\ ~u.eventsOpen[c] /\ \A b \in Attempts : b # c => u.eventsOpen[b] = t.eventsOpen[b]
      BY <3>8 DEF EventsClosed
    <3>5. \A b \in Attempts : ~u.eventsOpen[b]
      BY <2>1, <3>1, <3>4
    <3>6. t.events[a] = <<>>
      BY <1>4, <2>2 DEF SessionInv, Numbered
    <3>7. u.events[a] = <<>>
      BY <3>4, <3>6 DEF Same
    <3> QED
      BY <3>4, <3>5, <3>7
  <2>3. CASE a = t.current
    <3>0. ~(a > t.current)
      BY <1>4, <2>3
    <3>1. u = t
      BY <1>1, <3>0 DEF Route
    <3>2. Same(t, t)
      BY DEF Same
    <3>3. \A b \in Attempts : b # a => ~t.eventsOpen[b]
      BY <2>1, <2>3
    <3>4. t.eventsOpen[a] <=> t.events[a] # <<>>
      BY <2>1, <2>3
    <3> QED
      BY <2>1, <3>1, <3>2, <3>3, <3>4
  <2> QED
    BY <1>0, <1>2, <1>4, <2>2, <2>3
<1> HIDE DEF e
<1>6. IsSession(r) /\ Appended(u, r, a, n, e)
  BY <1>2, <1>3, <1>5, AppendFields
<1>7. /\ u.log = t.log /\ u.incomplete = t.incomplete /\ u.events = t.events
      /\ SameArtifacts(t, u)
  BY <1>5 DEF Same, SameArtifacts
<1>8. ArtifactsRefer(u)
  BY <1>7, ArtifactsKept DEF SessionInv
<1>9. /\ Listed(r, 0, 0, <<>>) /\ Written(r) /\ StatesTell(r) /\ ArtifactsRefer(r)
      /\ r.events[a] # <<>>
  BY <1>3, <1>5, <1>6, <1>8, AppendedInv
<1>10. /\ EventAdded(u, r, a, e) /\ r.next = n /\ r.current = a /\ r.log = u.log
       /\ r.incomplete = u.incomplete /\ r.eventsOpen[a] = TRUE
       /\ \A b \in Attempts : b # a => r.eventsOpen[b] = u.eventsOpen[b]
  BY <1>6 DEF Appended, EventAdded
<1>11. EventAdded(t, r, a, e)
  BY <1>7, <1>10 DEF EventAdded
<1>12. Numbered(r)
  <2>1. e.n = n
    BY DEF e
  <2> QED
    BY <1>0, <1>2, <1>3, <1>6, <1>10, <1>11, <2>1, NumberedAppend DEF SessionInv
<1>13. OnlyCurrentOpen(r)
  BY <1>5, <1>9, <1>10 DEF OnlyCurrentOpen
<1>14. SessionInv(r)
  BY <1>9, <1>12, <1>13 DEF SessionInv
<1> QED
  BY <1>2, <1>6, <1>7, <1>10, <1>11, <1>14 DEF e, EmitDone

-----------------------------------------------------------------------------
(* Artifacts of a session.                                                 *)

\* Payload c was written and listed under p.
PayloadWritten(t, r, p, c) ==
  /\ Same(t, r) /\ r.state = t.state /\ r.eventsOpen = t.eventsOpen /\ r.states = t.states
  /\ Added(t.entries, r.entries, p, c) /\ Added(t.files, r.files, p, c)

\* A payload is written under a name that is free, or the session fails.
LEMMA WritePayloadFields ==
  ASSUME NEW t, IsSession(t), NEW p, NEW c, NEW r, r = WritePayload(t, p, c, FALSE)
  PROVE  /\ IsSession(r) /\ r.log = t.log
         /\ r.state # "failed" => p \notin DOMAIN t.files /\ p \notin DOMAIN t.entries
         /\ p \notin DOMAIN t.files /\ p \notin DOMAIN t.entries => PayloadWritten(t, r, p, c)
<1>1. CASE p \in DOMAIN t.files
  <2>1. r = Fail(t)
    BY <1>1 DEF WritePayload
  <2> QED
    BY <1>1, <2>1, FailIsSession DEF Fail, IsSession
<1>2. CASE p \notin DOMAIN t.files
  <2> DEFINE F == Put(t.files, p, c)
             E == Put(t.entries, p, c)
             u == [t EXCEPT !.files = F]
  <2>1. r = AddEntry(u, p, c)
    BY <1>2 DEF WritePayload
  <2>2. Added(t.files, F, p, c) /\ Added(t.entries, E, p, c)
    BY PutAdds
  <2> HIDE DEF F, E
  <2>3. /\ IsSession(u) /\ Same(t, u) /\ u.state = t.state /\ u.eventsOpen = t.eventsOpen
        /\ u.states = t.states /\ u.entries = t.entries /\ u.files = F
    BY DEF IsSession, Same
  <2> HIDE DEF u
  <2>4. CASE p \in DOMAIN t.entries
    <3>1. r = Fail(u)
      BY <2>1, <2>3, <2>4 DEF AddEntry
    <3>2. u.log = t.log
      BY <2>3 DEF Same
    <3> QED
      BY <2>3, <2>4, <3>1, <3>2, FailIsSession DEF Fail, IsSession
  <2>5. CASE p \notin DOMAIN t.entries
    <3>1. r = [u EXCEPT !.entries = E]
      BY <2>1, <2>3, <2>5 DEF AddEntry, E
    <3>2. /\ IsSession(r) /\ Same(t, r) /\ r.state = t.state /\ r.eventsOpen = t.eventsOpen
          /\ r.states = t.states /\ r.entries = E /\ r.files = F
      BY <2>3, <3>1 DEF IsSession, Same
    <3> QED
      BY <1>2, <2>2, <2>5, <3>2 DEF PayloadWritten, Same
  <2> QED
    BY <2>4, <2>5
<1> QED
  BY <1>1, <1>2

\* A new payload does not disturb the files.
LEMMA WrittenPayload ==
  ASSUME NEW t, Written(t), NEW r, NEW p, NEW c, PayloadWritten(t, r, p, c), p \notin DOMAIN t.files
  PROVE  Written(r)
<1>1. /\ r.log = t.log /\ r.events = t.events /\ r.eventsOpen = t.eventsOpen
      /\ IsFcn(r.files) /\ DOMAIN r.files = DOMAIN t.files \cup {p} /\ r.files[p] = c
      /\ \A q \in DOMAIN t.files : r.files[q] = t.files[q]
      /\ DOMAIN r.entries = DOMAIN t.entries \cup {p} /\ r.entries[p] = c
      /\ \A q \in DOMAIN t.entries : q # p => r.entries[q] = t.entries[q]
  BY DEF PayloadWritten, Added, Same
<1>2. \A q \in DOMAIN r.entries : q \in DOMAIN r.files /\ r.files[q] = r.entries[q]
  BY <1>1 DEF Written
<1>3. ASSUME NEW q \in DOMAIN r.files
      PROVE  \/ q \in DOMAIN r.entries
             \/ \E b \in Attempts : q = EventsOf(b) /\ r.eventsOpen[b]
             \/ \E b \in Attempts, su \in Streams : q = LogOf(b, su) /\ r.log[b][su].file = "open"
  <2>1. CASE q = p
    BY <1>1, <2>1
  <2>2. CASE q # p
    <3>1. q \in DOMAIN t.files
      BY <1>1, <2>2
    <3> QED
      BY <1>1, <3>1 DEF Written
  <2> QED
    BY <2>1, <2>2
<1>4. ASSUME NEW b \in Attempts, r.eventsOpen[b]
      PROVE  EventsOf(b) \in DOMAIN r.files /\ r.files[EventsOf(b)] = EventsContent(r.events[b])
  BY <1>1, <1>4 DEF Written
<1>5. ASSUME NEW b \in Attempts, NEW st \in Streams
      PROVE  /\ r.log[b][st].file = "none" => r.log[b][st] = NoLog
             /\ r.log[b][st].file = "open" =>
                  /\ LogOf(b, st) \in DOMAIN r.files
                  /\ r.files[LogOf(b, st)] = LogContent(r.log[b][st].stored)
  BY <1>1 DEF Written
<1> QED
  BY <1>1, <1>2, <1>3, <1>4, <1>5 DEF Written

\* The session with an object more in its set.
WithObject(t, d) == [t EXCEPT !.objects = @ \cup {d}]

\* The session with an object more, field by field.
LEMMA WithObjectFields ==
  ASSUME NEW t, IsSession(t), NEW d \in Digest, NEW v, v = WithObject(t, d)
  PROVE  /\ IsSession(v) /\ v.state = t.state /\ v.objects = t.objects \cup {d}
         /\ v.entries = t.entries /\ v.files = t.files /\ v.eventsOpen = t.eventsOpen
         /\ v.states = t.states /\ v.next = t.next /\ v.current = t.current
         /\ v.incomplete = t.incomplete /\ v.events = t.events /\ v.log = t.log /\ v.arts = t.arts
BY DEF IsSession, WithObject

\* An artifact record was added.
ArtRecorded(u, r, a, rec) ==
  /\ r.next = u.next /\ r.current = u.current /\ r.state = u.state
  /\ r.events = u.events /\ r.eventsOpen = u.eventsOpen /\ r.log = u.log
  /\ r.objects = u.objects /\ r.entries = u.entries /\ r.files = u.files
  /\ r.incomplete <=> u.incomplete \/ rec.disposition # "stored"
  /\ r.arts[a] = Append(u.arts[a], rec)
  /\ \A b \in Attempts : b # a => r.arts[b] = u.arts[b]
  /\ FieldSet(u.states, r.states, a, "artifacts",
              IF rec.disposition = "stored" THEN "captured" ELSE "omitted_limit")

\* The session with an artifact record more, field by field.
LEMMA RecordFields ==
  ASSUME NEW u, IsSession(u), NEW a \in Attempts, NEW rec \in Record,
         NEW r, r = RecordArtifact(u, a, rec)
  PROVE  IsSession(r) /\ ArtRecorded(u, r, a, rec)
<1> DEFINE v == IF rec.disposition = "stored" THEN "captured" ELSE "omitted_limit"
           A == [u.arts EXCEPT ![a] = Append(u.arts[a], rec)]
           S == [u.states EXCEPT ![a].artifacts = v]
           I == u.incomplete \/ rec.disposition # "stored"
<1>1. r = [u EXCEPT !.arts = A, !.states = S, !.incomplete = I]
  BY DEF RecordArtifact
<1>2. /\ A \in [Attempts -> Seq(Record)] /\ A[a] = Append(u.arts[a], rec)
      /\ \A b \in Attempts : b # a => A[b] = u.arts[b]
  <2>1. u.arts \in [Attempts -> Seq(Record)]
    BY SessionFields
  <2> QED
    BY <2>1
<1>3. FieldSet(u.states, S, a, "artifacts", v)
  BY SessionFields, FieldUpdate DEF CaptureState, Fields
<1>4. I \in BOOLEAN
  BY SessionFields
<1> HIDE DEF A, S, I, v
<1>5. /\ IsSession(r) /\ r.next = u.next /\ r.current = u.current /\ r.state = u.state
      /\ r.events = u.events /\ r.eventsOpen = u.eventsOpen /\ r.log = u.log
      /\ r.objects = u.objects /\ r.entries = u.entries /\ r.files = u.files
      /\ r.arts = A /\ r.states = S /\ r.incomplete = I
  BY <1>1, <1>2, <1>3, <1>4 DEF IsSession, FieldSet
<1>6. r.incomplete <=> u.incomplete \/ rec.disposition # "stored"
  BY <1>5 DEF I
<1>7. FieldSet(u.states, r.states, a, "artifacts",
               IF rec.disposition = "stored" THEN "captured" ELSE "omitted_limit")
  BY <1>3, <1>5 DEF v
<1>8. r.arts[a] = Append(u.arts[a], rec) /\ \A b \in Attempts : b # a => r.arts[b] = u.arts[b]
  BY <1>2, <1>5
<1> QED
  BY <1>5, <1>6, <1>7, <1>8 DEF ArtRecorded

\* An operation that leaves the files alone keeps files and entries together.
LEMMA WrittenSame ==
  ASSUME NEW t, Written(t), NEW r, r.files = t.files, r.entries = t.entries, r.events = t.events,
         r.eventsOpen = t.eventsOpen, r.log = t.log
  PROVE  Written(r)
BY DEF Written

ObjectPut(t, u, d) ==
  /\ u.next = t.next /\ u.current = t.current /\ u.incomplete = t.incomplete
  /\ u.events = t.events /\ u.eventsOpen = t.eventsOpen /\ u.log = t.log /\ u.arts = t.arts
  /\ u.states = t.states /\ u.objects = t.objects \cup {d}

\* A new object is written and listed.
LEMMA PutObjectInv ==
  ASSUME NEW t, IsSession(t), SessionInv(t), NEW d \in Digest, d \notin t.objects,
         NEW u, u = WritePayload(WithObject(t, d), ObjectOf(d), d, FALSE)
  PROVE  /\ IsSession(u) /\ u.state = t.state /\ ObjectPut(t, u, d)
         /\ Listed(u, 0, 0, <<>>) /\ Written(u)
<1>1. PICK v : v = WithObject(t, d)
  OBVIOUS
<1>2. /\ IsSession(v) /\ v.state = t.state /\ v.objects = t.objects \cup {d}
      /\ v.entries = t.entries /\ v.files = t.files /\ v.eventsOpen = t.eventsOpen
      /\ v.states = t.states /\ v.next = t.next /\ v.current = t.current
      /\ v.incomplete = t.incomplete /\ v.events = t.events /\ v.log = t.log /\ v.arts = t.arts
  BY <1>1, WithObjectFields
<1>3. ObjectOf(d) \notin DOMAIN t.entries
  BY DEF SessionInv, Listed
<1>4. ObjectOf(d) \notin DOMAIN t.files
  <2>1. \A b : EventsOf(b) # ObjectOf(d) /\ \A su \in Streams : LogOf(b, su) # ObjectOf(d)
    BY NamesDiffer
  <2>2. Written(t)
    BY DEF SessionInv
  <2> QED
    BY <1>3, <2>1, <2>2 DEF Written
<1>5. IsSession(u) /\ PayloadWritten(v, u, ObjectOf(d), d)
  BY <1>1, <1>2, <1>3, <1>4, WritePayloadFields
<1>6. /\ u.state = t.state /\ ObjectPut(t, u, d)
      /\ Added(t.entries, u.entries, ObjectOf(d), d)
  BY <1>2, <1>5 DEF PayloadWritten, Same, ObjectPut
<1>7. Written(u)
  <2>1. Written(v)
    BY <1>2, WrittenSame DEF SessionInv
  <2> QED
    BY <1>2, <1>4, <1>5, <2>1, WrittenPayload
<1>8. Listed(u, 0, 0, <<>>)
  <2> DEFINE p == ObjectOf(d)
  <2>1. /\ IsFcn(u.entries) /\ u.entries[p] = d
        /\ \A q : q \in DOMAIN u.entries <=> q \in DOMAIN t.entries \/ q = p
        /\ \A q \in DOMAIN t.entries : u.entries[q] = t.entries[q]
    BY <1>3, <1>6 DEF Added
  <2>0. Listed(t, 0, 0, <<>>)
    BY DEF SessionInv
  <2>2. /\ u.events = t.events /\ u.eventsOpen = t.eventsOpen /\ u.log = t.log /\ u.arts = t.arts
        /\ u.states = t.states /\ u.objects = t.objects \cup {d}
    BY <1>6 DEF ObjectPut
  <2>3. /\ \A q \in DOMAIN u.entries : FileName(q)
        /\ Plan \in DOMAIN u.entries /\ u.entries[Plan] = PlanContent
    BY <2>0, <2>1 DEF Listed, FileName
  <2>4. ASSUME NEW b \in Attempts
        PROVE  /\ EventsOf(b) \in DOMAIN u.entries <=> u.events[b] # <<>> /\ ~u.eventsOpen[b]
               /\ EventsOf(b) \in DOMAIN u.entries =>
                    u.entries[EventsOf(b)] = EventsContent(u.events[b])
    <3>1. EventsOf(b) # p
      BY NamesDiffer
    <3> HIDE DEF p
    <3> QED
      BY <2>0, <2>1, <2>2, <3>1 DEF Listed
  <2>5. ASSUME NEW b \in Attempts, NEW st \in Streams
        PROVE  LogOf(b, st) \in DOMAIN u.entries <=> u.log[b][st].file = "closed"
    <3>1. LogOf(b, st) # p
      BY NamesDiffer
    <3> HIDE DEF p
    <3>2. LogOf(b, st) \in DOMAIN t.entries <=> t.log[b][st].file = "closed"
      BY <2>0, ListedLogs
    <3> QED
      BY <2>1, <2>2, <3>1, <3>2
  <2>6. ASSUME NEW b \in Attempts
        PROVE  IndexOf(b) \notin DOMAIN u.entries /\ ResultOf(b) \notin DOMAIN u.entries /\ ~(b <= 0)
    <3>1. IndexOf(b) # p /\ ResultOf(b) # p
      BY NamesDiffer
    <3>2. ~(b <= 0)
      BY EvidenceAssumption DEF Attempts
    <3>3. IndexOf(b) \notin DOMAIN t.entries /\ ResultOf(b) \notin DOMAIN t.entries
      BY <2>0, <3>2 DEF Listed
    <3> HIDE DEF p
    <3> QED
      BY <2>1, <3>1, <3>2, <3>3
  <2>7. ASSUME NEW e \in Digest
        PROVE  /\ ObjectOf(e) \in DOMAIN u.entries <=> e \in u.objects
               /\ ObjectOf(e) \in DOMAIN u.entries => u.entries[ObjectOf(e)] = e
    <3>1. CASE e = d
      BY <2>1, <2>2, <3>1
    <3>2. CASE e # d
      <4>1. ObjectOf(e) # p
        BY <3>2, NamesInjective
      <4> HIDE DEF p
      <4> QED
        BY <2>0, <2>1, <2>2, <3>2, <4>1 DEF Listed
    <3> QED
      BY <3>1, <3>2
  <2> QED
    BY <2>1, <2>3, <2>4, <2>5, <2>6, <2>7 DEF Listed
<1> QED
  BY <1>5, <1>6, <1>7, <1>8

\* What a record must find.
RecordOk(rec, objects) ==
  IF rec.disposition = "stored" THEN rec.digest \in objects ELSE rec.digest = NoDigest
RefersUpTo(u, rec) ==
  /\ \A a \in Attempts : \A i \in 1..Len(u.arts[a]) : RecordOk(u.arts[a][i], u.objects)
  /\ RecordOk(rec, u.objects)
  /\ \A d \in u.objects : \/ d = rec.digest
                          \/ \E a \in Attempts : \E i \in 1..Len(u.arts[a]) : u.arts[a][i].digest = d

\* A record of an object that is stored, or of an omission, keeps the session in order.
LEMMA RecordedInv ==
  ASSUME NEW u, IsSession(u), Listed(u, 0, 0, <<>>), Written(u), Numbered(u), OnlyCurrentOpen(u),
         StatesTell(u), NEW rec \in Record, RefersUpTo(u, rec), NEW a \in Attempts,
         NEW r, IsSession(r), ArtRecorded(u, r, a, rec)
  PROVE  SessionInv(r)
<1>1. /\ r.next = u.next /\ r.current = u.current
      /\ r.events = u.events /\ r.eventsOpen = u.eventsOpen /\ r.log = u.log
      /\ r.objects = u.objects /\ r.entries = u.entries /\ r.files = u.files
      /\ r.arts[a] = Append(u.arts[a], rec)
      /\ \A b \in Attempts : b # a => r.arts[b] = u.arts[b]
  BY DEF ArtRecorded
<1>2. Written(r)
  BY <1>1, WrittenSame
<1>3. Numbered(r) /\ OnlyCurrentOpen(r)
  BY <1>1, EventsKept DEF SameEvents
<1>4. Listed(r, 0, 0, <<>>)
  <2>1. /\ IsFcn(r.entries) /\ (\A q \in DOMAIN r.entries : FileName(q))
        /\ Plan \in DOMAIN r.entries /\ r.entries[Plan] = PlanContent
    BY <1>1 DEF Listed
  <2>2. ASSUME NEW b \in Attempts
        PROVE  /\ EventsOf(b) \in DOMAIN r.entries <=> r.events[b] # <<>> /\ ~r.eventsOpen[b]
               /\ EventsOf(b) \in DOMAIN r.entries =>
                    r.entries[EventsOf(b)] = EventsContent(r.events[b])
    BY <1>1 DEF Listed
  <2>3. ASSUME NEW b \in Attempts, NEW st \in Streams
        PROVE  LogOf(b, st) \in DOMAIN r.entries <=> r.log[b][st].file = "closed"
    BY <1>1, ListedLogs
  <2>4. ASSUME NEW b \in Attempts
        PROVE  IndexOf(b) \notin DOMAIN r.entries /\ ResultOf(b) \notin DOMAIN r.entries /\ ~(b <= 0)
    <3>1. ~(b <= 0)
      BY EvidenceAssumption DEF Attempts
    <3> QED
      BY <1>1, <3>1 DEF Listed
  <2>5. ASSUME NEW d \in Digest
        PROVE  /\ ObjectOf(d) \in DOMAIN r.entries <=> d \in r.objects
               /\ ObjectOf(d) \in DOMAIN r.entries => r.entries[ObjectOf(d)] = d
    BY <1>1 DEF Listed
  <2> QED
    BY <2>1, <2>2, <2>3, <2>4, <2>5 DEF Listed
<1>5. u.arts[a] \in Seq(Record) /\ \A b \in Attempts : r.arts[b] \in Seq(Record)
  BY SessionFields
<1>6. /\ r.arts[a] # <<>> /\ Len(r.arts[a]) = Len(u.arts[a]) + 1 /\ Len(u.arts[a]) \in Nat
      /\ r.arts[a][Len(u.arts[a]) + 1] = rec
      /\ \A i \in 1..Len(u.arts[a]) : r.arts[a][i] = u.arts[a][i]
  BY <1>1, <1>5
<1>7. StatesTell(r)
  <2>1. u.incomplete => r.incomplete
    BY DEF ArtRecorded
  <2>2. /\ r.states[a].artifacts = IF rec.disposition = "stored" THEN "captured" ELSE "omitted_limit"
        /\ rec.disposition # "stored" => r.incomplete
    BY DEF ArtRecorded, FieldSet
  <2>3. \A b \in Attempts :
          /\ r.states[b].events = u.states[b].events
          /\ b # a => r.states[b].artifacts = u.states[b].artifacts
          /\ \A st \in Streams : r.states[b][st] = u.states[b][st]
    BY DEF ArtRecorded, FieldSet, Fields, Streams
  <2>4. ASSUME NEW b \in Attempts, NEW su \in Streams
        PROVE  /\ r.log[b][su].file = "none" => r.states[b][su] = "not_provided"
               /\ r.log[b][su].file = "open" => r.states[b][su] = "captured_empty"
               /\ r.log[b][su].file = "closed" => r.states[b][su] = LogState(r.log[b][su])
               /\ r.log[b][su].truncated => r.incomplete
    BY <1>1, <2>1, <2>3 DEF StatesTell
  <2>5. ASSUME NEW b \in Attempts
        PROVE  /\ r.states[b].events = IF r.events[b] = <<>> THEN "not_provided" ELSE "captured"
               /\ r.states[b].artifacts \in IF r.arts[b] = <<>> THEN {"not_provided", "captured_empty"}
                                            ELSE {"captured", "omitted_limit"}
               /\ r.states[b].artifacts = "omitted_limit" => r.incomplete
    <3>1. CASE b = a
      BY <1>1, <1>6, <2>2, <2>3, <3>1 DEF StatesTell
    <3>2. CASE b # a
      BY <1>1, <2>1, <2>3, <3>2 DEF StatesTell
    <3> QED
      BY <3>1, <3>2
  <2> QED
    BY <2>4, <2>5 DEF StatesTell
<1>8. ArtifactsRefer(r)
  <2>1. ASSUME NEW b \in Attempts, NEW i \in 1..Len(r.arts[b])
        PROVE  RecordOk(r.arts[b][i], r.objects)
    <3>1. CASE b # a
      BY <1>1, <2>1, <3>1 DEF RefersUpTo
    <3>2. CASE b = a /\ i \in 1..Len(u.arts[a])
      BY <1>1, <1>6, <3>2 DEF RefersUpTo
    <3>3. CASE b = a /\ i = Len(u.arts[a]) + 1
      BY <1>1, <1>6, <3>3 DEF RefersUpTo
    <3> QED
      BY <1>6, <2>1, <3>1, <3>2, <3>3
  <2>2. ASSUME NEW d \in r.objects
        PROVE  \E b \in Attempts : \E i \in 1..Len(r.arts[b]) : r.arts[b][i].digest = d
    <3>1. CASE d = rec.digest
      BY <1>6, <3>1
    <3>2. CASE \E b \in Attempts : \E i \in 1..Len(u.arts[b]) : u.arts[b][i].digest = d
      <4>0. PICK b \in Attempts : \E i \in 1..Len(u.arts[b]) : u.arts[b][i].digest = d
        BY <3>2
      <4>1. PICK i \in 1..Len(u.arts[b]) : u.arts[b][i].digest = d
        BY <4>0
      <4>2. i \in 1..Len(r.arts[b]) /\ r.arts[b][i] = u.arts[b][i]
        <5>1. CASE b = a
          BY <1>6, <4>1, <5>1
        <5>2. CASE b # a
          BY <1>1, <4>1, <5>2
        <5> QED
          BY <5>1, <5>2
      <4> QED
        BY <4>1, <4>2
    <3> QED
      BY <1>1, <2>2, <3>1, <3>2 DEF RefersUpTo
  <2> QED
    BY <2>1, <2>2 DEF ArtifactsRefer, RecordOk
<1> QED
  BY <1>2, <1>3, <1>4, <1>7, <1>8 DEF SessionInv

OmitOrStore(t, r) ==
  /\ r.next = t.next /\ r.current = t.current /\ r.events = t.events /\ r.log = t.log
  /\ t.incomplete => r.incomplete

\* A record that finds its object refers to it.
LEMMA RefersMeans ==
  ASSUME NEW t, ArtifactsRefer(t), NEW rec, RecordOk(rec, t.objects)
  PROVE  RefersUpTo(t, rec)
BY DEF ArtifactsRefer, RefersUpTo, RecordOk

\* A record that needs no new object keeps the session in order.
LEMMA RecordedHere ==
  ASSUME NEW t, IsSession(t), SessionInv(t), NEW a \in Attempts, NEW rec \in Record,
         RecordOk(rec, t.objects), NEW r, r = RecordArtifact(t, a, rec)
  PROVE  IsSession(r) /\ SessionInv(r) /\ OmitOrStore(t, r) /\ r.state = t.state
<1>1. IsSession(r) /\ ArtRecorded(t, r, a, rec)
  BY RecordFields
<1>2. /\ Listed(t, 0, 0, <<>>) /\ Written(t) /\ Numbered(t) /\ OnlyCurrentOpen(t)
      /\ StatesTell(t) /\ ArtifactsRefer(t)
  BY DEF SessionInv
<1>3. RefersUpTo(t, rec)
  BY <1>2, RefersMeans
<1>4. SessionInv(r)
  BY <1>1, <1>2, <1>3, RecordedInv
<1> QED
  BY <1>1, <1>4 DEF OmitOrStore, ArtRecorded

\* The record of an omission has no digest.
LEMMA OmissionIsRecord ==
  ASSUME NEW p \in Paths, NEW o \in Omitted, NEW objects
  PROVE  OmissionRecord(p, o) \in Record /\ RecordOk(OmissionRecord(p, o), objects)
BY DEF OmissionRecord, Record, Digest, NoDigest, RecordOk, Omitted

\* ArtifactWriter.Add keeps the session in order, with an object of this content or
\* without.
LEMMA AddArtifactInv ==
  ASSUME NEW t, IsSession(t), SessionInv(t), t.state = "active", NEW a \in Attempts,
         NEW p \in Paths, NEW d \in Digest, NEW dead \in BOOLEAN, NEW f \in BOOLEAN,
         NEW r, r = AddArtifact(t, a, p, d, dead, f), r.state = "active"
  PROVE  IsSession(r) /\ SessionInv(r) /\ OmitOrStore(t, r)
<1>1. CASE r = t
  BY <1>1 DEF OmitOrStore
<1>2. CASE r = RecordArtifact(t, a, OmissionRecord(p, "omitted_limit"))
  <2>1. PICK rec : rec = OmissionRecord(p, "omitted_limit")
    OBVIOUS
  <2>2. rec \in Record /\ RecordOk(rec, t.objects)
    BY <2>1, OmissionIsRecord DEF Omitted
  <2> QED
    BY <1>2, <2>1, <2>2, RecordedHere
<1> DEFINE rec == [path |-> p, disposition |-> "stored", digest |-> d]
<1>3. rec \in Record /\ rec.disposition = "stored" /\ rec.digest = d
  BY DEF Record
<1> HIDE DEF rec
<1>4. CASE d \in t.objects /\ r = RecordArtifact(t, a, rec)
  <2>1. RecordOk(rec, t.objects)
    BY <1>3, <1>4 DEF RecordOk
  <2> QED
    BY <1>3, <1>4, <2>1, RecordedHere
<1>5. ASSUME d \notin t.objects,
             r = RecordArtifact(WritePayload(WithObject(t, d), ObjectOf(d), d, FALSE), a, rec)
      PROVE  IsSession(r) /\ SessionInv(r) /\ OmitOrStore(t, r)
  <2>1. PICK u : u = WritePayload(WithObject(t, d), ObjectOf(d), d, FALSE)
    OBVIOUS
  <2>2. /\ IsSession(u) /\ u.state = t.state /\ ObjectPut(t, u, d)
        /\ Listed(u, 0, 0, <<>>) /\ Written(u)
    BY <1>5, <2>1, PutObjectInv
  <2>3. /\ u.next = t.next /\ u.current = t.current /\ u.incomplete = t.incomplete
        /\ u.events = t.events /\ u.eventsOpen = t.eventsOpen /\ u.log = t.log /\ u.arts = t.arts
        /\ u.states = t.states /\ u.objects = t.objects \cup {d}
    BY <2>2 DEF ObjectPut
  <2>4. Numbered(u) /\ OnlyCurrentOpen(u)
    BY <2>3, EventsKept DEF SameEvents, SessionInv
  <2>5. StatesTell(u)
    BY <2>3, StatesSame DEF SessionInv, SameStates
  <2>6. RefersUpTo(u, rec)
    <3>1. ArtifactsRefer(t)
      BY DEF SessionInv
    <3> QED
      BY <1>3, <2>3, <3>1 DEF ArtifactsRefer, RefersUpTo, RecordOk
  <2>7. r = RecordArtifact(u, a, rec)
    BY <1>5, <2>1
  <2>8. IsSession(r) /\ ArtRecorded(u, r, a, rec)
    BY <1>3, <2>2, <2>7, RecordFields
  <2>9. SessionInv(r)
    BY <1>3, <2>2, <2>4, <2>5, <2>6, <2>8, RecordedInv
  <2> QED
    BY <2>3, <2>8, <2>9 DEF OmitOrStore, ArtRecorded
<1>6. \/ r = Fail(t) \/ r = t
      \/ r = RecordArtifact(t, a, OmissionRecord(p, "omitted_limit"))
      \/ d \in t.objects /\ r = RecordArtifact(t, a, rec)
      \/ d \notin t.objects
         /\ r = RecordArtifact(WritePayload(WithObject(t, d), ObjectOf(d), d, FALSE), a, rec)
  BY DEF AddArtifact, WithObject, rec
<1>7. CASE r = Fail(t)
  BY <1>7, FailIsSession
<1> QED
  BY <1>1, <1>2, <1>4, <1>5, <1>6, <1>7

\* RecordArtifactOmission keeps the session in order.
LEMMA OmissionInv ==
  ASSUME NEW t, IsSession(t), SessionInv(t), t.state = "active", NEW a \in Attempts,
         NEW p \in Paths, NEW o \in Omitted, NEW dead \in BOOLEAN,
         NEW r, r = RecordArtifactOmission(t, a, p, o, dead)
  PROVE  /\ IsSession(r) /\ r.log = t.log
         /\ r.state = "active" => SessionInv(r) /\ OmitOrStore(t, r)
<1>1. CASE dead
  <2>1. r = Fail(t)
    BY <1>1 DEF RecordArtifactOmission
  <2> QED
    BY <2>1, FailIsSession DEF Fail, IsSession
<1>2. CASE ~dead /\ ~MayRecordOmission(t, a, p)
  <2>1. r = t
    BY <1>2 DEF RecordArtifactOmission
  <2> QED
    BY <2>1 DEF OmitOrStore
<1>3. CASE ~dead /\ MayRecordOmission(t, a, p)
  <2>1. PICK rec : rec = OmissionRecord(p, o)
    OBVIOUS
  <2>2. rec \in Record /\ RecordOk(rec, t.objects)
    BY <2>1, OmissionIsRecord
  <2>3. r = RecordArtifact(t, a, rec)
    BY <1>3, <2>1 DEF RecordArtifactOmission
  <2>4. IsSession(r) /\ SessionInv(r) /\ OmitOrStore(t, r)
    BY <2>2, <2>3, RecordedHere
  <2> QED
    BY <2>4 DEF OmitOrStore
<1> QED
  BY <1>1, <1>2, <1>3

SameButArtifacts(t, r, a) ==
  \A b \in Attempts :
    /\ r.states[b].events = t.states[b].events
    /\ b # a => r.states[b].artifacts = t.states[b].artifacts
    /\ \A st \in Streams : r.states[b][st] = t.states[b][st]
ArtifactStateOk(r, a) ==
  /\ r.states[a].artifacts \in IF r.arts[a] = <<>> THEN {"not_provided", "captured_empty"}
                                ELSE {"captured", "omitted_limit"}
  /\ r.states[a].artifacts = "omitted_limit" => r.incomplete

\* A changed artifact state that fits the records still tells.
LEMMA StatesButArtifacts ==
  ASSUME NEW t, StatesTell(t), NEW a \in Attempts, NEW r, SameButArtifacts(t, r, a),
         ArtifactStateOk(r, a), r.log = t.log, r.events = t.events,
         r.incomplete = t.incomplete, r.arts = t.arts
  PROVE  StatesTell(r)
<1> USE DEF SameButArtifacts, ArtifactStateOk
<1>1. ASSUME NEW b \in Attempts, NEW su \in Streams
      PROVE  /\ r.log[b][su].file = "none" => r.states[b][su] = "not_provided"
             /\ r.log[b][su].file = "open" => r.states[b][su] = "captured_empty"
             /\ r.log[b][su].file = "closed" => r.states[b][su] = LogState(r.log[b][su])
             /\ r.log[b][su].truncated => r.incomplete
  BY DEF StatesTell
<1>2. ASSUME NEW b \in Attempts
      PROVE  /\ r.states[b].events = IF r.events[b] = <<>> THEN "not_provided" ELSE "captured"
             /\ r.states[b].artifacts \in IF r.arts[b] = <<>> THEN {"not_provided", "captured_empty"}
                                          ELSE {"captured", "omitted_limit"}
             /\ r.states[b].artifacts = "omitted_limit" => r.incomplete
  BY DEF StatesTell
<1> QED
  BY <1>1, <1>2 DEF StatesTell

\* MarkCollectionComplete keeps the session in order.
LEMMA MarkCompleteInv ==
  ASSUME NEW t, IsSession(t), SessionInv(t), t.state = "active", NEW a \in Attempts,
         NEW r, r = MarkCollectionComplete(t, a, FALSE)
  PROVE  IsSession(r) /\ SessionInv(r) /\ OmitOrStore(t, r) /\ r.state = "active"
<1> DEFINE old == t.states[a].artifacts
           v == IF old = "not_provided" THEN "captured_empty" ELSE old
           S == [t.states EXCEPT ![a].artifacts = v]
<1>1. r = [t EXCEPT !.states = S]
  BY DEF MarkCollectionComplete
<1>2. v \in CaptureState
  <2>1. t.states[a] \in States
    BY SessionFields
  <2> QED
    BY <2>1 DEF States, CaptureState
<1>3. FieldSet(t.states, S, a, "artifacts", v)
  <2> HIDE DEF v
  <2> QED
    BY <1>2, SessionFields, FieldUpdate DEF Fields
<1> HIDE DEF S
<1>4. /\ IsSession(r) /\ r.state = t.state /\ r.next = t.next /\ r.current = t.current
      /\ r.incomplete = t.incomplete /\ r.events = t.events /\ r.eventsOpen = t.eventsOpen
      /\ r.log = t.log /\ r.arts = t.arts /\ r.objects = t.objects /\ r.entries = t.entries
      /\ r.files = t.files /\ r.states = S
  BY <1>1, <1>3 DEF IsSession, FieldSet
<1>0. /\ Listed(t, 0, 0, <<>>) /\ Written(t) /\ Numbered(t) /\ OnlyCurrentOpen(t)
      /\ StatesTell(t) /\ ArtifactsRefer(t)
  BY DEF SessionInv
<1>5. Written(r)
  BY <1>0, <1>4, WrittenSame
<1>6. Numbered(r) /\ OnlyCurrentOpen(r)
  BY <1>0, <1>4, EventsKept DEF SameEvents
<1>7. ArtifactsRefer(r)
  BY <1>0, <1>4, ArtifactsKept DEF SameArtifacts
<1>8. Listed(r, 0, 0, <<>>)
  <2>1. /\ IsFcn(r.entries) /\ (\A q \in DOMAIN r.entries : FileName(q))
        /\ Plan \in DOMAIN r.entries /\ r.entries[Plan] = PlanContent
    BY <1>0, <1>4 DEF Listed
  <2>2. ASSUME NEW b \in Attempts
        PROVE  /\ EventsOf(b) \in DOMAIN r.entries <=> r.events[b] # <<>> /\ ~r.eventsOpen[b]
               /\ EventsOf(b) \in DOMAIN r.entries =>
                    r.entries[EventsOf(b)] = EventsContent(r.events[b])
    BY <1>0, <1>4 DEF Listed
  <2>3. ASSUME NEW b \in Attempts, NEW st \in Streams
        PROVE  LogOf(b, st) \in DOMAIN r.entries <=> r.log[b][st].file = "closed"
    <3>1. LogOf(b, st) \in DOMAIN t.entries <=> t.log[b][st].file = "closed"
      BY <1>0, ListedLogs
    <3> QED
      BY <1>4, <3>1
  <2>4. ASSUME NEW b \in Attempts
        PROVE  IndexOf(b) \notin DOMAIN r.entries /\ ResultOf(b) \notin DOMAIN r.entries /\ ~(b <= 0)
    <3>1. ~(b <= 0)
      BY EvidenceAssumption DEF Attempts
    <3> QED
      BY <1>0, <1>4, <3>1 DEF Listed
  <2>5. ASSUME NEW d \in Digest
        PROVE  /\ ObjectOf(d) \in DOMAIN r.entries <=> d \in r.objects
               /\ ObjectOf(d) \in DOMAIN r.entries => r.entries[ObjectOf(d)] = d
    BY <1>0, <1>4 DEF Listed
  <2> QED
    BY <2>1, <2>2, <2>3, <2>4, <2>5 DEF Listed
<1>9. StatesTell(r)
  <2>0. /\ StatesTell(t) /\ r.events = t.events /\ r.log = t.log /\ r.arts = t.arts
        /\ r.incomplete = t.incomplete
    BY <1>0, <1>4
  <2>1. \A b \in Attempts :
          /\ r.states[b].events = t.states[b].events
          /\ b # a => r.states[b].artifacts = t.states[b].artifacts
          /\ \A st \in Streams : r.states[b][st] = t.states[b][st]
    BY <1>3, <1>4, ZenonT(60) DEF FieldSet, Fields, Streams
  <2>2. r.states[a].artifacts = v
    BY <1>3, <1>4 DEF FieldSet
  <2>3. SameButArtifacts(t, r, a)
    BY <2>1 DEF SameButArtifacts
  <2>4. ArtifactStateOk(r, a)
    <3>1. ArtifactStateOk(t, a)
      BY <2>0 DEF StatesTell, ArtifactStateOk
    <3> QED
      BY <2>0, <2>2, <3>1 DEF ArtifactStateOk
  <2> QED
    BY <2>0, <2>3, <2>4, StatesButArtifacts
<1>10. SessionInv(r)
  BY <1>5, <1>6, <1>7, <1>8, <1>9 DEF SessionInv
<1> QED
  BY <1>4, <1>10 DEF OmitOrStore

-----------------------------------------------------------------------------
(* The commit: captures, results and the manifest.                         *)

\* Of what a session lists, the part that is not about indexes and results.
ListedBase(r) ==
  /\ IsFcn(r.entries) /\ \A q \in DOMAIN r.entries : FileName(q)
  /\ Plan \in DOMAIN r.entries /\ r.entries[Plan] = PlanContent
  /\ \A b \in Attempts :
       /\ EventsOf(b) \in DOMAIN r.entries <=> r.events[b] # <<>> /\ ~r.eventsOpen[b]
       /\ EventsOf(b) \in DOMAIN r.entries => r.entries[EventsOf(b)] = EventsContent(r.events[b])
       /\ \A st \in Streams : LogOf(b, st) \in DOMAIN r.entries <=> r.log[b][st].file = "closed"
  /\ \A d \in Digest :
       /\ ObjectOf(d) \in DOMAIN r.entries <=> d \in r.objects
       /\ ObjectOf(d) \in DOMAIN r.entries => r.entries[ObjectOf(d)] = d
\* A name that is none of an events, log or object file.
OtherName(p) ==
  /\ FileName(p) /\ p # Plan /\ (\A d \in Digest : p # ObjectOf(d))
  /\ \A b \in Attempts : p # EventsOf(b) /\ \A st \in Streams : p # LogOf(b, st)

\* An entry more, of a name that is no events, log or object file.
LEMMA ListedMore ==
  ASSUME NEW t, NEW k, NEW j, NEW R, Listed(t, k, j, R), NEW r, NEW p, NEW c,
         Added(t.entries, r.entries, p, c), p \notin DOMAIN t.entries, OtherName(p),
         r.events = t.events, r.eventsOpen = t.eventsOpen, r.log = t.log, r.objects = t.objects
  PROVE  ListedBase(r)
<1> USE DEF OtherName
<1>1. /\ IsFcn(r.entries) /\ \A q : q \in DOMAIN r.entries <=> q \in DOMAIN t.entries \/ q = p
      /\ \A q \in DOMAIN t.entries : r.entries[q] = t.entries[q]
  BY DEF Added
<1>2. \A q \in DOMAIN r.entries : FileName(q)
  BY <1>1 DEF Listed
<1>3. Plan \in DOMAIN r.entries /\ r.entries[Plan] = PlanContent
  BY <1>1 DEF Listed
<1>4. ASSUME NEW b \in Attempts
      PROVE  /\ EventsOf(b) \in DOMAIN r.entries <=> r.events[b] # <<>> /\ ~r.eventsOpen[b]
             /\ EventsOf(b) \in DOMAIN r.entries => r.entries[EventsOf(b)] = EventsContent(r.events[b])
  BY <1>1 DEF Listed
<1>5. ASSUME NEW b \in Attempts, NEW st \in Streams
      PROVE  LogOf(b, st) \in DOMAIN r.entries <=> r.log[b][st].file = "closed"
  <2>1. LogOf(b, st) \in DOMAIN t.entries <=> t.log[b][st].file = "closed"
    BY ListedLogs
  <2>2. LogOf(b, st) # p
    OBVIOUS
  <2> QED
    BY <1>1, <2>1, <2>2
<1>6. ASSUME NEW d \in Digest
      PROVE  /\ ObjectOf(d) \in DOMAIN r.entries <=> d \in r.objects
             /\ ObjectOf(d) \in DOMAIN r.entries => r.entries[ObjectOf(d)] = d
  BY <1>1 DEF Listed
<1> QED
  BY <1>1, <1>2, <1>3, <1>4, <1>5, <1>6 DEF ListedBase

SameIndexes(t, r) == \A b \in Attempts : HasIndex(r, b) <=> HasIndex(t, b)

\* The index of attempt k + 1 is listed.
LEMMA ListedIndex ==
  ASSUME NEW t, NEW k \in Nat, NEW j \in Nat, NEW R, Listed(t, k, j, R), NEW r, k + 1 \in Attempts,
         Same(t, r), r.eventsOpen = t.eventsOpen, SameIndexes(t, r), HasIndex(t, k + 1),
         Added(t.entries, r.entries, IndexOf(k + 1), [index |-> t.arts[k + 1]])
  PROVE  Listed(r, k + 1, j, R)
<1> DEFINE p == IndexOf(k + 1)
           c == [index |-> t.arts[k + 1]]
<1>1. p \notin DOMAIN t.entries
  BY ListedAttempt
<1>2. OtherName(p)
  BY NamesDiffer DEF FileName, AttemptFiles, OtherName
<1>3. /\ r.events = t.events /\ r.eventsOpen = t.eventsOpen /\ r.log = t.log
      /\ r.objects = t.objects /\ r.arts = t.arts
  BY DEF Same
<1>4. \A b \in Attempts : ResultOf(b) # p /\ (IndexOf(b) = p <=> b = k + 1)
  BY NamesDiffer, NamesInjective
<1>6. Added(t.entries, r.entries, p, c)
  OBVIOUS
<1>5. /\ r.entries[p] = c /\ \A q : q \in DOMAIN r.entries <=> q \in DOMAIN t.entries \/ q = p
      /\ \A q \in DOMAIN t.entries : r.entries[q] = t.entries[q]
  <2> HIDE DEF c, p
  <2> QED
    BY <1>1, <1>6 DEF Added
<1>7. ASSUME NEW b \in Attempts
      PROVE  /\ IndexOf(b) \in DOMAIN r.entries <=> b <= k + 1 /\ HasIndex(r, b)
             /\ IndexOf(b) \in DOMAIN r.entries => r.entries[IndexOf(b)] = [index |-> r.arts[b]]
             /\ ResultOf(b) \in DOMAIN r.entries <=> b <= j
             /\ ResultOf(b) \in DOMAIN r.entries => r.entries[ResultOf(b)] = R[b]
  <2>1. /\ IndexOf(b) \in DOMAIN t.entries <=> b <= k /\ HasIndex(t, b)
        /\ IndexOf(b) \in DOMAIN t.entries => t.entries[IndexOf(b)] = [index |-> t.arts[b]]
        /\ ResultOf(b) \in DOMAIN t.entries <=> b <= j
        /\ ResultOf(b) \in DOMAIN t.entries => t.entries[ResultOf(b)] = R[b]
    BY ListedAttempt
  <2>2. HasIndex(r, b) <=> HasIndex(t, b)
    BY DEF SameIndexes
  <2>3. b \in Int
    BY DEF Attempts
  <2>4. CASE b = k + 1
    BY <1>3, <1>4, <1>5, <2>1, <2>2, <2>4
  <2>5. CASE b # k + 1
    <3>1. IndexOf(b) # p /\ ResultOf(b) # p /\ (b <= k + 1 <=> b <= k)
      BY <1>4, <2>3, <2>5
    <3> HIDE DEF p, c
    <3> QED
      BY <1>3, <1>5, <2>1, <2>2, <3>1
  <2> QED
    BY <2>4, <2>5
<1> HIDE DEF c, p
<1>8. ListedBase(r)
  BY <1>1, <1>2, <1>3, <1>6, ListedMore
<1> QED
  BY <1>7, <1>8 DEF Listed, ListedBase

\* The result of attempt j + 1 is listed.
LEMMA ListedResult ==
  ASSUME NEW t, NEW k \in Nat, NEW j \in Nat, NEW R, Listed(t, k, j, R), NEW r, j + 1 \in Attempts,
         Same(t, r), r.eventsOpen = t.eventsOpen, SameIndexes(t, r),
         Added(t.entries, r.entries, ResultOf(j + 1), R[j + 1])
  PROVE  Listed(r, k, j + 1, R)
<1> DEFINE p == ResultOf(j + 1)
           c == R[j + 1]
<1>1. p \notin DOMAIN t.entries
  <2>1. ~(j + 1 <= j)
    OBVIOUS
  <2> QED
    BY <2>1 DEF Listed
<1>2. OtherName(p)
  BY NamesDiffer DEF FileName, AttemptFiles, OtherName
<1>3. /\ r.events = t.events /\ r.eventsOpen = t.eventsOpen /\ r.log = t.log
      /\ r.objects = t.objects /\ r.arts = t.arts
  BY DEF Same
<1>4. \A b \in Attempts : IndexOf(b) # p /\ (ResultOf(b) = p <=> b = j + 1)
  BY NamesDiffer, NamesInjective
<1>6. Added(t.entries, r.entries, p, c)
  OBVIOUS
<1>5. /\ r.entries[p] = c /\ \A q : q \in DOMAIN r.entries <=> q \in DOMAIN t.entries \/ q = p
      /\ \A q \in DOMAIN t.entries : r.entries[q] = t.entries[q]
  <2> HIDE DEF c, p
  <2> QED
    BY <1>1, <1>6 DEF Added
<1>7. ASSUME NEW b \in Attempts
      PROVE  /\ IndexOf(b) \in DOMAIN r.entries <=> b <= k /\ HasIndex(r, b)
             /\ IndexOf(b) \in DOMAIN r.entries => r.entries[IndexOf(b)] = [index |-> r.arts[b]]
             /\ ResultOf(b) \in DOMAIN r.entries <=> b <= j + 1
             /\ ResultOf(b) \in DOMAIN r.entries => r.entries[ResultOf(b)] = R[b]
  <2>1. /\ IndexOf(b) \in DOMAIN t.entries <=> b <= k /\ HasIndex(t, b)
        /\ IndexOf(b) \in DOMAIN t.entries => t.entries[IndexOf(b)] = [index |-> t.arts[b]]
        /\ ResultOf(b) \in DOMAIN t.entries <=> b <= j
        /\ ResultOf(b) \in DOMAIN t.entries => t.entries[ResultOf(b)] = R[b]
    BY ListedAttempt
  <2>2. HasIndex(r, b) <=> HasIndex(t, b)
    BY DEF SameIndexes
  <2>3. b \in Int
    BY DEF Attempts
  <2>4. CASE b = j + 1
    BY <1>3, <1>4, <1>5, <2>1, <2>2, <2>4
  <2>5. CASE b # j + 1
    <3>1. IndexOf(b) # p /\ ResultOf(b) # p /\ (b <= j + 1 <=> b <= j)
      BY <1>4, <2>3, <2>5
    <3> HIDE DEF p, c
    <3> QED
      BY <1>3, <1>5, <2>1, <2>2, <3>1
  <2> QED
    BY <2>4, <2>5
<1> HIDE DEF c, p
<1>8. ListedBase(r)
  BY <1>1, <1>2, <1>3, <1>6, ListedMore
<1> QED
  BY <1>7, <1>8 DEF Listed, ListedBase

LogsClosed(t) == \A b \in Attempts, st \in Streams : t.log[b][st].file = "closed"
OpenHaveEvents(t) == \A b \in Attempts : OpenHasEvents(t, b)
OpenAfter(u, t, k) ==
  /\ \A b \in Attempts : b <= k => ~t.eventsOpen[b]
  /\ \A b \in Attempts : b > k => t.eventsOpen[b] = u.eventsOpen[b]
ArtifactStatesSame(u, t) ==
  \A b \in Attempts : t.states[b].artifacts = u.states[b].artifacts

\* Session u of which the attempts up to k are finalized.
Finalized(u, t, k) ==
  /\ IsSession(t) /\ t.state = "active" /\ Listed(t, k, 0, <<>>) /\ Written(t) /\ StatesTell(t)
  /\ Same(u, t) /\ OpenAfter(u, t, k) /\ ArtifactStatesSame(u, t)

\* The indexes depend on the artifacts and their states only.
LEMMA IndexesOfSame ==
  ASSUME NEW t, NEW r, r.arts = t.arts, ArtifactStatesSame(t, r)
  PROVE  SameIndexes(t, r)
BY DEF ArtifactStatesSame, SameIndexes, HasIndex

\* Closing a closed log does nothing.
LEMMA CloseLogIdle ==
  ASSUME NEW t, NEW a, NEW st, t.log[a][st].file = "closed"
  PROVE  CloseLog(t, a, st, FALSE) = t
BY DEF CloseLog

\* An attempt without an index has nothing to list.
LEMMA ListedNoIndex ==
  ASSUME NEW t, NEW k \in Nat, NEW j, NEW R, Listed(t, k, j, R), k + 1 \in Attempts,
         ~HasIndex(t, k + 1)
  PROVE  Listed(t, k + 1, j, R)
<1>1. ASSUME NEW b \in Attempts
      PROVE  IndexOf(b) \in DOMAIN t.entries <=> b <= k + 1 /\ HasIndex(t, b)
  <2>1. b \in Int
    BY DEF Attempts
  <2>2. IndexOf(b) \in DOMAIN t.entries <=> b <= k /\ HasIndex(t, b)
    BY ListedAttempt
  <2>3. b # k + 1 => (b <= k + 1 <=> b <= k)
    BY <2>1
  <2> QED
    BY <2>2, <2>3
<1> QED
  BY <1>1 DEF Listed

\* States, logs, events and artifacts that are the same tell the same.
LEMMA StatesOfSame ==
  ASSUME NEW t, StatesTell(t), NEW r, Same(t, r), r.states = t.states
  PROVE  StatesTell(r)
<1>1. SameStates(t, r)
  BY DEF SameStates
<1> QED
  BY <1>1, StatesSame DEF Same

\* A name that is not listed is no file's, unless it is the name of something open.
LEMMA NotAFile ==
  ASSUME NEW t, Written(t), LogsClosed(t), NEW p, p \notin DOMAIN t.entries,
         \A b \in Attempts : p # EventsOf(b)
  PROVE  p \notin DOMAIN t.files
<1>1. ~\E b \in Attempts, st \in Streams : p = LogOf(b, st) /\ t.log[b][st].file = "open"
  BY DEF LogsClosed
<1> QED
  BY <1>1 DEF Written

\* One step of FinalizeCaptures: the events of the attempt are closed, its index listed.
LEMMA FinalizeStepInv ==
  ASSUME NEW u, LogsClosed(u), OpenHaveEvents(u), NEW k \in Nat, k + 1 \in Attempts,
         NEW t, Finalized(u, t, k), NEW r, r = FinalizeAttempt(t, k + 1)
  PROVE  Finalized(u, r, k + 1)
<1> DEFINE a == k + 1
<1>0. /\ IsSession(t) /\ t.state = "active" /\ Listed(t, k, 0, <<>>) /\ Written(t)
      /\ StatesTell(t) /\ Same(u, t) /\ OpenAfter(u, t, k) /\ ArtifactStatesSame(u, t)
  BY DEF Finalized
<1>1. PICK c : c = CloseEvents(t, a, FALSE)
  OBVIOUS
<1>2. OpenHasEvents(t, a)
  <2>1. a > k
    OBVIOUS
  <2>2. t.eventsOpen[a] = u.eventsOpen[a] /\ t.events = u.events
    BY <1>0, <2>1 DEF OpenAfter, Same
  <2> QED
    BY <2>2 DEF OpenHaveEvents, OpenHasEvents
<1>3. /\ IsSession(c) /\ EventsClosed(t, c, a)
      /\ Listed(c, k, 0, <<>>) /\ Written(c) /\ StatesTell(c)
  BY <1>0, <1>1, <1>2, CloseEventsInv
<1>4. /\ Same(t, c) /\ c.state = "active" /\ ~c.eventsOpen[a] /\ ArtifactStatesSame(t, c)
      /\ \A b \in Attempts : b # a => c.eventsOpen[b] = t.eventsOpen[b]
  BY <1>0, <1>3 DEF EventsClosed, ArtifactStatesSame
<1>5. Same(u, c) /\ ArtifactStatesSame(u, c)
  BY <1>0, <1>4 DEF Same, ArtifactStatesSame
<1>6. OpenAfter(u, c, a)
  <2>1. ASSUME NEW b \in Attempts, b <= a PROVE ~c.eventsOpen[b]
    <3>1. b \in Int
      BY DEF Attempts
    <3>2. b = a \/ b <= k
      BY <2>1, <3>1
    <3>3. CASE b = a
      BY <1>4, <3>3
    <3>4. CASE b # a
      <4>1. ~t.eventsOpen[b]
        BY <1>0, <3>2, <3>4 DEF OpenAfter
      <4> QED
        BY <1>4, <3>4, <4>1
    <3> QED
      BY <3>3, <3>4
  <2>2. ASSUME NEW b \in Attempts, b > a PROVE c.eventsOpen[b] = u.eventsOpen[b]
    <3>1. b \in Int
      BY DEF Attempts
    <3>2. b # a /\ b > k
      BY <2>2, <3>1
    <3>3. t.eventsOpen[b] = u.eventsOpen[b]
      BY <1>0, <3>2 DEF OpenAfter
    <3> QED
      BY <1>4, <3>2, <3>3
  <2> HIDE DEF a
  <2> QED
    BY <2>1, <2>2 DEF OpenAfter
<1>7. LogsClosed(c)
  BY <1>5 DEF Same, LogsClosed
<1>8. CloseLog(CloseLog(c, a, "stdout", FALSE), a, "stderr", FALSE) = c
  <2>1. c.log[a]["stdout"].file = "closed" /\ c.log[a]["stderr"].file = "closed"
    BY <1>7 DEF LogsClosed, Streams
  <2> QED
    BY <2>1, CloseLogIdle
<1>9. r = IF HasIndex(t, a) THEN WritePayload(c, IndexOf(a), [index |-> t.arts[a]], FALSE) ELSE c
  BY <1>1, <1>8 DEF FinalizeAttempt
<1>10. c.arts = t.arts /\ SameIndexes(t, c)
  BY <1>4, IndexesOfSame DEF Same
<1>11. CASE ~HasIndex(t, a)
  <2>1. r = c /\ ~HasIndex(c, a)
    BY <1>9, <1>10, <1>11 DEF SameIndexes
  <2>2. Listed(c, k + 1, 0, <<>>)
    BY <1>3, <2>1, ListedNoIndex
  <2> QED
    BY <1>3, <1>4, <1>5, <1>6, <2>1, <2>2 DEF Finalized
<1>12. CASE HasIndex(t, a)
  <2> DEFINE p == IndexOf(a)
             x == [index |-> c.arts[a]]
  <2>1. r = WritePayload(c, p, x, FALSE) /\ HasIndex(c, a)
    BY <1>9, <1>10, <1>12 DEF SameIndexes
  <2>2. p \notin DOMAIN c.entries
    <3>1. ~(a <= k)
      OBVIOUS
    <3> QED
      BY <1>3, <3>1 DEF Listed
  <2>3. p \notin DOMAIN c.files
    <3>1. \A b \in Attempts : p # EventsOf(b)
      BY NamesDiffer
    <3> HIDE DEF p
    <3> QED
      BY <1>3, <1>7, <2>2, <3>1, NotAFile
  <2> HIDE DEF x, p
  <2>4. IsSession(r) /\ PayloadWritten(c, r, p, x)
    BY <1>3, <2>1, <2>2, <2>3, WritePayloadFields
  <2>5. Written(r)
    BY <1>3, <2>3, <2>4, WrittenPayload
  <2>6. /\ Same(c, r) /\ r.state = "active" /\ r.eventsOpen = c.eventsOpen /\ r.states = c.states
        /\ Added(c.entries, r.entries, p, x)
    BY <1>4, <2>4 DEF PayloadWritten
  <2>7. StatesTell(r)
    BY <1>3, <2>6, StatesOfSame
  <2>8. ArtifactStatesSame(c, r) /\ r.arts = c.arts
    BY <2>6 DEF ArtifactStatesSame, Same
  <2>9. SameIndexes(c, r)
    BY <2>8, IndexesOfSame
  <2>10. Listed(r, k + 1, 0, <<>>)
    <3>1. /\ Listed(c, k, 0, <<>>) /\ k + 1 \in Attempts /\ Same(c, r)
          /\ r.eventsOpen = c.eventsOpen /\ SameIndexes(c, r) /\ HasIndex(c, k + 1)
          /\ Added(c.entries, r.entries, IndexOf(k + 1), [index |-> c.arts[k + 1]])
      BY <1>3, <2>1, <2>6, <2>9 DEF p, x
    <3> QED
      BY <3>1, ListedIndex
  <2>11. Same(u, r) /\ ArtifactStatesSame(u, r) /\ OpenAfter(u, r, a)
    BY <1>5, <1>6, <2>6, <2>8 DEF Same, ArtifactStatesSame, OpenAfter
  <2> QED
    BY <2>4, <2>5, <2>6, <2>7, <2>10, <2>11 DEF Finalized
<1> QED
  BY <1>11, <1>12

\* FinalizeCaptures on a session in order.
LEMMA FinalizeCapturesInv ==
  ASSUME NEW u, IsSession(u), u.state = "active", SessionInv(u), LogsClosed(u)
  PROVE  Finalized(u, FinalizeCaptures(u), N)
<1>1. PICK g : /\ g[0] = u /\ FinalizeCaptures(u) = g[N]
               /\ \A a \in Attempts : g[a] = FinalizeAttempt(g[a - 1], a)
  BY FinalizeCapturesSteps
<1>2. Finalized(u, u, 0)
  <2>1. \A b \in Attempts : ~(b <= 0)
    BY DEF Attempts
  <2>2. OpenAfter(u, u, 0) /\ Same(u, u) /\ ArtifactStatesSame(u, u)
    BY <2>1 DEF OpenAfter, Same, ArtifactStatesSame
  <2> QED
    BY <2>2 DEF Finalized, SessionInv
<1>3. OpenHaveEvents(u)
  BY DEF SessionInv, OnlyCurrentOpen, OpenHaveEvents, OpenHasEvents
<1> DEFINE T == {n \in Nat : n <= N => Finalized(u, g[n], n)}
<1>4. 0 \in T
  BY <1>1, <1>2
<1>5. ASSUME NEW n \in T PROVE n + 1 \in T
  <2>1. SUFFICES ASSUME n + 1 <= N PROVE Finalized(u, g[n + 1], n + 1)
    OBVIOUS
  <2>2. n \in Nat /\ n + 1 \in Attempts /\ (n + 1) - 1 = n
    BY <2>1, EvidenceAssumption DEF Attempts
  <2>3. Finalized(u, g[n], n)
    BY <2>1, <2>2, EvidenceAssumption
  <2>4. g[n + 1] = FinalizeAttempt(g[n], n + 1)
    BY <1>1, <2>2
  <2> HIDE DEF T
  <2> QED
    BY <1>3, <2>2, <2>3, <2>4, FinalizeStepInv
<1>6. T = Nat
  <2> HIDE DEF T
  <2>1. T \in SUBSET Nat
    BY DEF T
  <2> QED
    BY <1>4, <1>5, <2>1, SetInduction
<1> QED
  BY <1>1, <1>6, EvidenceAssumption

\* Result states: those up to j are captured.
CapturedUpTo(t, j) == \A b \in Attempts : b <= j => t.states[b].result = "captured"

\* Session u of which the results R are written up to j.
ResultsUpTo(u, t, j, R) ==
  /\ IsSession(t) /\ t.state = "active" /\ Listed(t, N, j, R) /\ Written(t) /\ StatesTell(t)
  /\ Same(u, t) /\ t.eventsOpen = u.eventsOpen /\ ArtifactStatesSame(u, t) /\ CapturedUpTo(t, j)

\* The session with the result of attempt a captured.
WithResult(t, a) == [t EXCEPT !.states[a].result = "captured"]

\* The session with a captured result, field by field.
LEMMA WithResultFields ==
  ASSUME NEW t, IsSession(t), NEW a \in Attempts, NEW v, v = WithResult(t, a)
  PROVE  /\ IsSession(v) /\ v.state = t.state /\ Same(t, v) /\ v.eventsOpen = t.eventsOpen
         /\ v.entries = t.entries /\ v.files = t.files
         /\ FieldSet(t.states, v.states, a, "result", "captured")
<1> DEFINE S == [t.states EXCEPT ![a].result = "captured"]
<1>1. v = [t EXCEPT !.states = S]
  BY DEF WithResult
<1>2. FieldSet(t.states, S, a, "result", "captured")
  BY SessionFields, FieldUpdate DEF CaptureState, Fields
<1> HIDE DEF S
<1>3. /\ IsSession(v) /\ v.state = t.state /\ Same(t, v) /\ v.eventsOpen = t.eventsOpen
      /\ v.entries = t.entries /\ v.files = t.files /\ v.states = S
  BY <1>1, <1>2 DEF IsSession, Same, FieldSet
<1> QED
  BY <1>2, <1>3

\* What is listed depends on what the session holds only.
LEMMA ListedSame ==
  ASSUME NEW t, NEW k, NEW j, NEW R, Listed(t, k, j, R), NEW r, Same(t, r), SameIndexes(t, r),
         r.eventsOpen = t.eventsOpen, r.entries = t.entries
  PROVE  Listed(r, k, j, R)
<1>1. /\ r.events = t.events /\ r.log = t.log /\ r.arts = t.arts /\ r.objects = t.objects
  BY DEF Same
<1>2. ASSUME NEW b \in Attempts
      PROVE  /\ IndexOf(b) \in DOMAIN r.entries <=> b <= k /\ HasIndex(r, b)
             /\ IndexOf(b) \in DOMAIN r.entries => r.entries[IndexOf(b)] = [index |-> r.arts[b]]
             /\ ResultOf(b) \in DOMAIN r.entries <=> b <= j
             /\ ResultOf(b) \in DOMAIN r.entries => r.entries[ResultOf(b)] = R[b]
  <2>1. HasIndex(r, b) <=> HasIndex(t, b)
    BY DEF SameIndexes
  <2> QED
    BY <1>1, <2>1, ListedAttempt
<1>3. ListedBase(t)
  BY DEF Listed, ListedBase
<1>4. ListedBase(r)
  BY <1>1, <1>3 DEF ListedBase
<1> QED
  BY <1>2, <1>4 DEF Listed, ListedBase

\* One step of WriteResults: the result of the attempt is listed.
LEMMA WriteResultInv ==
  ASSUME NEW u, LogsClosed(u), NEW x, NEW j \in Nat, j + 1 \in Attempts, j + 1 <= Len(x.results),
         Len(x.results) = N,
         NEW t, ResultsUpTo(u, t, j, x.results), RangeMatches(u, j + 1, x.results[j + 1]),
         NEW r, r = WriteResult(t, j + 1, x)
  PROVE  ResultsUpTo(u, r, j + 1, x.results)
<1>0. /\ IsSession(t) /\ t.state = "active" /\ Listed(t, N, j, x.results) /\ Written(t)
      /\ StatesTell(t) /\ Same(u, t) /\ t.eventsOpen = u.eventsOpen /\ ArtifactStatesSame(u, t)
      /\ CapturedUpTo(t, j)
  BY DEF ResultsUpTo
<1>1. PICK a : a = j + 1
  OBVIOUS
<1>2. a \in Attempts /\ a \in Int /\ ~(a <= j) /\ ~(a > Len(x.results))
  BY <1>1, EvidenceAssumption
<1> DEFINE R == x.results
           p == ResultOf(a)
           c == R[a]
<1>3. PICK v : v = WithResult(t, a)
  OBVIOUS
<1>4. RangeMatches(t, a, x.results[a])
  BY <1>0, <1>1 DEF RangeMatches, Same
<1>5. r = WritePayload(v, p, c, FALSE)
  BY <1>1, <1>2, <1>3, <1>4 DEF WriteResult, WithResult
<1>6. /\ IsSession(v) /\ v.state = t.state /\ Same(t, v) /\ v.eventsOpen = t.eventsOpen
      /\ v.entries = t.entries /\ v.files = t.files
      /\ FieldSet(t.states, v.states, a, "result", "captured")
  BY <1>0, <1>2, <1>3, WithResultFields
<1>7. SameStates(t, v) /\ ArtifactStatesSame(t, v) /\ v.states[a].result = "captured"
      /\ \A b \in Attempts : b # a => v.states[b].result = t.states[b].result
  BY <1>6 DEF FieldSet, Fields, Streams, SameStates, ArtifactStatesSame
<1>8. StatesTell(v)
  BY <1>0, <1>6, <1>7, StatesSame DEF Same
<1>9. Listed(v, N, j, R)
  <2>1. SameIndexes(t, v)
    BY <1>6, <1>7, IndexesOfSame DEF Same
  <2> QED
    BY <1>0, <1>6, <2>1, ListedSame
<1>10. Written(v)
  <2>1. v.events = t.events /\ v.log = t.log
    BY <1>6 DEF Same
  <2> QED
    BY <1>0, <1>6, <2>1, WrittenSame
<1>11. p \notin DOMAIN v.entries
  BY <1>2, <1>9 DEF Listed
<1>12. p \notin DOMAIN v.files
  <2>1. \A b \in Attempts : p # EventsOf(b)
    BY NamesDiffer
  <2>2. LogsClosed(v)
    BY <1>0, <1>6 DEF Same, LogsClosed
  <2> HIDE DEF p
  <2> QED
    BY <1>10, <1>11, <2>1, <2>2, NotAFile
<1> HIDE DEF p, c
<1>13. IsSession(r) /\ PayloadWritten(v, r, p, c)
  BY <1>5, <1>6, <1>11, <1>12, WritePayloadFields
<1>14. Written(r)
  BY <1>10, <1>12, <1>13, WrittenPayload
<1>15. /\ Same(v, r) /\ r.state = v.state /\ r.eventsOpen = v.eventsOpen /\ r.states = v.states
       /\ Added(v.entries, r.entries, p, c)
  BY <1>13 DEF PayloadWritten
<1>16. StatesTell(r)
  BY <1>8, <1>15, StatesOfSame
<1>17. ArtifactStatesSame(v, r) /\ r.arts = v.arts
  BY <1>15 DEF ArtifactStatesSame, Same
<1>18. SameIndexes(v, r)
  BY <1>17, IndexesOfSame
<1>19. Listed(r, N, j + 1, R)
  <2>1. /\ Listed(v, N, j, R) /\ j + 1 \in Attempts /\ Same(v, r)
        /\ r.eventsOpen = v.eventsOpen /\ SameIndexes(v, r) /\ N \in Nat
        /\ Added(v.entries, r.entries, ResultOf(j + 1), R[j + 1])
    BY <1>1, <1>9, <1>15, <1>18, EvidenceAssumption DEF p, c
  <2> HIDE DEF R
  <2> QED
    BY <2>1, ListedResult
<1>20. CapturedUpTo(r, j + 1)
  <2>1. ASSUME NEW b \in Attempts, b <= j + 1 PROVE r.states[b].result = "captured"
    <3>1. b \in Int /\ (b = a \/ b <= j)
      BY <1>1, <2>1 DEF Attempts
    <3>2. CASE b = a
      BY <1>7, <1>15, <3>2
    <3>3. CASE b # a
      <4>1. t.states[b].result = "captured"
        BY <1>0, <3>1, <3>3 DEF CapturedUpTo
      <4> QED
        BY <1>7, <1>15, <3>3, <4>1
    <3> QED
      BY <3>2, <3>3
  <2> QED
    BY <2>1 DEF CapturedUpTo
<1>21. Same(u, r) /\ ArtifactStatesSame(u, r) /\ r.eventsOpen = u.eventsOpen /\ r.state = "active"
  BY <1>0, <1>6, <1>7, <1>15, <1>17 DEF Same, ArtifactStatesSame
<1> QED
  BY <1>13, <1>14, <1>16, <1>19, <1>20, <1>21 DEF ResultsUpTo

\* Every result is in the range of its attempt's events.
AllRangesMatch(u, R) == \A b \in Attempts : RangeMatches(u, b, R[b])

\* WriteResults writes every result and the execution record.
LEMMA WriteResultsInv ==
  ASSUME NEW u, LogsClosed(u), NEW x, Len(x.results) = N, AllRangesMatch(u, x.results),
         ResultsUpTo(u, u, 0, x.results)
  PROVE  \E t : /\ ResultsUpTo(u, t, N, x.results)
                /\ WriteResults(u, x) = WritePayload(t, Execution, ExecutionContent(u, x), FALSE)
<1>1. PICK g : /\ g[0] = u
               /\ \A a \in Attempts : g[a] = WriteResult(g[a - 1], a, x)
               /\ WriteResults(u, x) = WritePayload(g[N], Execution, ExecutionContent(u, x), FALSE)
  <2>1. PICK g : ResultsChain(u, x, g)
    BY WriteResultsSteps
  <2> QED
    BY <2>1 DEF ResultsChain
<1> DEFINE T == {n \in Nat : n <= N => ResultsUpTo(u, g[n], n, x.results)}
<1>4. 0 \in T
  BY <1>1
<1>5. ASSUME NEW n \in T PROVE n + 1 \in T
  <2>1. SUFFICES ASSUME n + 1 <= N PROVE ResultsUpTo(u, g[n + 1], n + 1, x.results)
    OBVIOUS
  <2>2. n \in Nat /\ n + 1 \in Attempts /\ (n + 1) - 1 = n /\ n + 1 <= Len(x.results)
    BY <2>1, EvidenceAssumption DEF Attempts
  <2>3. ResultsUpTo(u, g[n], n, x.results)
    BY <2>1, <2>2, EvidenceAssumption
  <2>4. g[n + 1] = WriteResult(g[n], n + 1, x)
    BY <1>1, <2>2
  <2>5. RangeMatches(u, n + 1, x.results[n + 1])
    BY <2>2 DEF AllRangesMatch
  <2> HIDE DEF T
  <2> QED
    BY <2>2, <2>3, <2>4, <2>5, WriteResultInv
<1>6. T = Nat
  <2> HIDE DEF T
  <2>1. T \in SUBSET Nat
    BY DEF T
  <2> QED
    BY <1>4, <1>5, <2>1, SetInduction
<1>7. ResultsUpTo(u, g[N], N, x.results)
  BY <1>6, EvidenceAssumption
<1> HIDE DEF T
<1> QED
  BY <1>1, <1>7

\* A finalized session has no result yet.
LEMMA FinalizedIsStart ==
  ASSUME NEW u, NEW c, Finalized(u, c, N), NEW R
  PROVE  ResultsUpTo(c, c, 0, R)
<1>1. \A b \in Attempts : ~(b <= 0)
  BY DEF Attempts
<1>2. Listed(c, N, 0, R)
  BY <1>1 DEF Finalized, Listed
<1>3. Same(c, c) /\ ArtifactStatesSame(c, c) /\ CapturedUpTo(c, 0)
  BY <1>1 DEF Same, ArtifactStatesSame, CapturedUpTo
<1> QED
  BY <1>2, <1>3 DEF Finalized, ResultsUpTo

-----------------------------------------------------------------------------
(* A committed bundle is accepted by the strict reader.                    *)

\* Attempt a of session w, of result r, is whole.
AttemptWhole(w, a, r) ==
  /\ w.events[a] # <<>>
  /\ w.events[a][1].kind = "scenario_started"
  /\ w.events[a][Len(w.events[a])].kind = "scenario_completed"
  /\ RangeMatches(w, a, r)
  /\ OutcomeCoherent(r)

\* The session w to be published with completion x.
Ready(w, x) ==
  /\ IsSession(w) /\ Numbered(w) /\ StatesTell(w) /\ ArtifactsRefer(w) /\ LogsClosed(w)
  /\ CapturedUpTo(w, N)
  /\ x.complete = TRUE /\ x.incomplete \in BOOLEAN /\ x.total = w.next
  /\ x.results \in Seq(Result) /\ Len(x.results) = N
  /\ x.incomplete \/ EvidenceComplete(w, x)
  /\ \A a \in Attempts : AttemptWhole(w, a, x.results[a])

\* What a whole session lists.
ListedAll(w, x) ==
  /\ IsFcn(w.entries)
  /\ \A p \in DOMAIN w.entries : FileName(p) \/ p = Execution
  /\ Plan \in DOMAIN w.entries /\ w.entries[Plan] = PlanContent
  /\ Execution \in DOMAIN w.entries /\ w.entries[Execution] = ExecutionContent(w, x)
  /\ \A a \in Attempts :
       /\ EventsOf(a) \in DOMAIN w.entries /\ w.entries[EventsOf(a)] = EventsContent(w.events[a])
       /\ \A st \in Streams : LogOf(a, st) \in DOMAIN w.entries
       /\ IndexOf(a) \in DOMAIN w.entries <=> HasIndex(w, a)
       /\ IndexOf(a) \in DOMAIN w.entries => w.entries[IndexOf(a)] = [index |-> w.arts[a]]
       /\ ResultOf(a) \in DOMAIN w.entries /\ w.entries[ResultOf(a)] = x.results[a]
  /\ \A d \in Digest :
       /\ ObjectOf(d) \in DOMAIN w.entries <=> d \in w.objects
       /\ ObjectOf(d) \in DOMAIN w.entries => w.entries[ObjectOf(d)] = d

\* b holds what w lists, and the manifest.
BundleOf(w, x, b) ==
  /\ IsFcn(b) /\ ManifestFile \notin DOMAIN w.entries
  /\ DOMAIN b = DOMAIN w.entries \cup {ManifestFile}
  /\ b[ManifestFile] = Manifest(w, x)
  /\ \A p \in DOMAIN w.entries : b[p] = w.entries[p]

\* A listed name that begins like an object is the name of one.
LEMMA ObjectNames ==
  ASSUME NEW p, FileName(p) \/ p = Execution, p[1] = "object"
  PROVE  \E d \in Digest : p = ObjectOf(d)
<1>1. p # Plan /\ p # Execution
  BY NameHeads
<1>2. ASSUME NEW a \in Attempts, p \in AttemptFiles(a) PROVE FALSE
  <2>1. p = EventsOf(a) \/ p = LogOf(a, "stdout") \/ p = LogOf(a, "stderr") \/ p = IndexOf(a)
        \/ p = ResultOf(a)
    BY <1>2 DEF AttemptFiles
  <2>2. p[1] # "object"
    BY <2>1, NameHeads
  <2> QED
    BY <2>2
<1> QED
  BY <1>1, <1>2 DEF FileName

\* The manifest a reader finds.
LEMMA ManifestFields ==
  ASSUME NEW w, NEW x, NEW b, BundleOf(w, x, b), ListedAll(w, x)
  PROVE  /\ EntriesOf(b) = w.entries /\ b[Plan].plan = N /\ AttemptsRead(b) = Attempts
         /\ b[Plan] = PlanContent /\ b[Execution] = ExecutionContent(w, x)
         /\ b[ManifestFile].plan = PlanContent
         /\ b[ManifestFile].complete = x.complete
         /\ b[ManifestFile].evidenceComplete = EvidenceComplete(w, x)
         /\ b[ManifestFile].failure = x.incomplete
         /\ \A p : HasEntry(b, p) <=> p \in DOMAIN w.entries
<1>1. b[Plan] = PlanContent /\ b[Execution] = ExecutionContent(w, x)
  BY DEF BundleOf, ListedAll
<1>2. b[ManifestFile] = Manifest(w, x)
  BY DEF BundleOf
<1>3. EntriesOf(b) = w.entries
  BY <1>2 DEF EntriesOf, Manifest
<1>4. b[Plan].plan = N /\ AttemptsRead(b) = Attempts
  BY <1>1 DEF PlanContent, AttemptsRead, Attempts
<1>5. /\ b[ManifestFile].plan = PlanContent
      /\ b[ManifestFile].complete = x.complete
      /\ b[ManifestFile].evidenceComplete = EvidenceComplete(w, x)
      /\ b[ManifestFile].failure = x.incomplete
  BY <1>2 DEF Manifest
<1> QED
  BY <1>1, <1>3, <1>4, <1>5 DEF HasEntry

ManifestOfAttempts(w, b) ==
  \A a \in Attempts : /\ b[ManifestFile].attempts[a].states = w.states[a]
                      /\ b[ManifestFile].attempts[a].first = FirstSeq(w.events[a])
                      /\ b[ManifestFile].attempts[a].last = LastSeq(w.events[a])
                      /\ b[ManifestFile].attempts[a].count = Len(w.events[a])

\* What the manifest says of each attempt.
LEMMA ManifestAttempts ==
  ASSUME NEW w, NEW x, NEW b, BundleOf(w, x, b)
  PROVE  ManifestOfAttempts(w, b)
<1>2. b[ManifestFile] = Manifest(w, x)
  BY DEF BundleOf
<1>3. ASSUME NEW a \in Attempts
      PROVE  b[ManifestFile].attempts[a] =
               [states |-> w.states[a], first |-> FirstSeq(w.events[a]),
                last |-> LastSeq(w.events[a]), count |-> Len(w.events[a])]
  BY <1>2 DEF Manifest
<1>4. ASSUME NEW a \in Attempts
      PROVE  /\ b[ManifestFile].attempts[a].states = w.states[a]
             /\ b[ManifestFile].attempts[a].first = FirstSeq(w.events[a])
             /\ b[ManifestFile].attempts[a].last = LastSeq(w.events[a])
             /\ b[ManifestFile].attempts[a].count = Len(w.events[a])
  <2>1. b[ManifestFile].attempts[a] =
           [states |-> w.states[a], first |-> FirstSeq(w.events[a]),
            last |-> LastSeq(w.events[a]), count |-> Len(w.events[a])]
    BY <1>3
  <2> QED
    BY <2>1
<1> QED
  BY <1>4 DEF ManifestOfAttempts

\* The reader finds every file the manifest lists, no other, and the plan.
LEMMA ReaderFindsLayout ==
  ASSUME NEW w, NEW x, NEW b, BundleOf(w, x, b), ListedAll(w, x)
  PROVE  VerifyManifest(b) /\ ReconcileLayout(b) /\ VerifyPayloads(b) /\ VerifyPlan(b)
<1>1. /\ EntriesOf(b) = w.entries /\ b[Plan] = PlanContent
      /\ b[ManifestFile].plan = PlanContent
      /\ \A p : HasEntry(b, p) <=> p \in DOMAIN w.entries
  BY ManifestFields
<1>2. VerifyManifest(b)
  <2>1. ~HasEntry(b, ManifestFile)
    BY <1>1 DEF BundleOf
  <2>2. ASSUME NEW p \in DOMAIN w.entries, p[1] = "object" PROVE p = ObjectOf(w.entries[p])
    <3>1. PICK d \in Digest : p = ObjectOf(d)
      BY <2>2, ObjectNames DEF ListedAll
    <3> QED
      BY <3>1 DEF ListedAll
  <2> QED
    BY <1>1, <2>1, <2>2 DEF VerifyManifest
<1>3. ReconcileLayout(b)
  <2>1. \A a \in Attempts : EventsOf(a) \in AttemptFiles(a) \cap DOMAIN w.entries
    BY DEF ListedAll, AttemptFiles
  <2>2. DOMAIN b = DOMAIN w.entries \cup {ManifestFile}
    BY DEF BundleOf
  <2> QED
    BY <1>1, <2>1, <2>2 DEF ReconcileLayout
<1>4. VerifyPayloads(b)
  BY <1>1 DEF VerifyPayloads, BundleOf
<1>5. VerifyPlan(b)
  BY <1>1 DEF VerifyPlan, ListedAll
<1> QED
  BY <1>2, <1>3, <1>4, <1>5

\* The reader finds the execution record and every result.
LEMMA ReaderFindsResults ==
  ASSUME NEW w, NEW x, NEW b, BundleOf(w, x, b), ListedAll(w, x), Ready(w, x)
  PROVE  VerifyExecutionAndResults(b)
<1>1. /\ b[Plan].plan = N /\ AttemptsRead(b) = Attempts /\ b[Execution] = ExecutionContent(w, x)
      /\ \A p : HasEntry(b, p) <=> p \in DOMAIN w.entries
  BY ManifestFields
<1>2. b[Execution].results = x.results
  BY <1>1 DEF ExecutionContent
<1>3. HasEntry(b, Execution)
  BY <1>1 DEF ListedAll
<1>4. Len(x.results) = N /\ N <= N
  BY EvidenceAssumption DEF Ready
<1>5. \A i \in 1..Len(x.results) : OutcomeCoherent(x.results[i])
  BY <1>4 DEF Ready, AttemptWhole, Attempts
<1>6. ASSUME NEW a \in Attempts
      PROVE  /\ HasEntry(b, ResultOf(a)) /\ OutcomeCoherent(b[ResultOf(a)])
             /\ b[ResultOf(a)].first = b[ManifestFile].attempts[a].first
             /\ b[ResultOf(a)].last = b[ManifestFile].attempts[a].last
             /\ b[ResultOf(a)].count = b[ManifestFile].attempts[a].count
  <2>1. HasEntry(b, ResultOf(a)) /\ b[ResultOf(a)] = x.results[a]
    BY <1>1 DEF ListedAll, BundleOf
  <2>2. OutcomeCoherent(x.results[a]) /\ RangeMatches(w, a, x.results[a])
    BY DEF Ready, AttemptWhole
  <2>3. ManifestOfAttempts(w, b)
    BY ManifestAttempts
  <2> QED
    BY <2>1, <2>2, <2>3 DEF RangeMatches, ManifestOfAttempts
<1> QED
  BY <1>1, <1>2, <1>3, <1>4, <1>5, <1>6 DEF VerifyExecutionAndResults

\* The elements of a sequence of records.
LEMMA RangeOfSeq ==
  ASSUME NEW q \in Seq(Record)
  PROVE  /\ \A rec \in Range(q) : \E i \in 1..Len(q) : rec = q[i]
         /\ \A i \in 1..Len(q) : q[i] \in Range(q)
BY DEF Range

\* The reader finds the records of an attempt, with an index or without.
LEMMA IndexesRead ==
  ASSUME NEW w, NEW x, NEW b, BundleOf(w, x, b), ListedAll(w, x), IsSession(w),
         NEW a \in Attempts
  PROVE  IndexRecords(b, a) = w.arts[a]
<1>1. HasEntry(b, IndexOf(a)) <=> HasIndex(w, a)
  BY ManifestFields, ZenonT(60) DEF ListedAll
<1>2. CASE HasIndex(w, a)
  <2>1. b[IndexOf(a)] = [index |-> w.arts[a]]
    BY <1>2 DEF BundleOf, ListedAll
  <2> QED
    BY <1>1, <1>2, <2>1 DEF IndexRecords
<1>3. CASE ~HasIndex(w, a)
  BY <1>1, <1>3 DEF IndexRecords, HasIndex
<1> QED
  BY <1>2, <1>3

\* The reader finds every object a record names, and no other.
LEMMA ReaderFindsArtifacts ==
  ASSUME NEW w, NEW x, NEW b, BundleOf(w, x, b), ListedAll(w, x), Ready(w, x), IndexesSorted(b)
  PROVE  VerifyArtifacts(b)
<1>1. /\ EntriesOf(b) = w.entries /\ AttemptsRead(b) = Attempts
      /\ \A p : HasEntry(b, p) <=> p \in DOMAIN w.entries
  BY ManifestFields
<1>2. IsSession(w) /\ ArtifactsRefer(w)
  BY DEF Ready
<1>3. \A a \in Attempts : IndexRecords(b, a) = w.arts[a]
  BY <1>2, IndexesRead
<1>4. \A a \in Attempts : w.arts[a] \in Seq(Record)
  BY <1>2, SessionFields
<1>5. ASSUME NEW a \in Attempts, NEW rec \in Range(w.arts[a])
      PROVE  RecordRefersToObject(b, rec)
  <2>1. PICK i \in 1..Len(w.arts[a]) : rec = w.arts[a][i]
    BY <1>4, RangeOfSeq
  <2>2. rec \in Record
    BY <1>4, <2>1
  <2>3. CASE rec.disposition = "stored"
    <3>1. rec.digest \in w.objects /\ rec.digest \in Digest
      BY <1>2, <2>1, <2>2, <2>3 DEF ArtifactsRefer, Record
    <3>2. ObjectOf(rec.digest) \in DOMAIN w.entries
      BY <3>1 DEF ListedAll
    <3> QED
      BY <1>1, <2>3, <3>2 DEF RecordRefersToObject
  <2>4. CASE rec.disposition # "stored"
    BY <1>2, <2>1, <2>4 DEF RecordRefersToObject, ArtifactsRefer
  <2> QED
    BY <2>3, <2>4
<1>6. ASSUME NEW p \in DOMAIN w.entries, p[1] = "object"
      PROVE  \E a \in Attempts : \E rec \in Range(w.arts[a]) : rec.digest = w.entries[p]
  <2>1. PICK d \in Digest : p = ObjectOf(d)
    BY <1>6, ObjectNames DEF ListedAll
  <2>2. w.entries[p] = d /\ d \in w.objects
    BY <2>1 DEF ListedAll
  <2>3. PICK a \in Attempts : \E i \in 1..Len(w.arts[a]) : w.arts[a][i].digest = d
    BY <1>2, <2>2 DEF ArtifactsRefer
  <2>4. PICK i \in 1..Len(w.arts[a]) : w.arts[a][i].digest = d
    BY <2>3
  <2>5. w.arts[a][i] \in Range(w.arts[a])
    BY <1>4, RangeOfSeq
  <2> QED
    BY <2>2, <2>4, <2>5
<1>7. \A a \in Attempts : SortedByPath(IndexRecords(b, a))
  BY DEF IndexesSorted
<1> QED
  BY <1>1, <1>3, <1>5, <1>6, <1>7 DEF VerifyArtifacts

\* The reader's table of the last number before each attempt.
LastStep(b, h, a) ==
  IF a = 0 THEN 0
  ELSE IF HasEntry(b, EventsOf(a)) THEN LastSeq(EventsRead(b, a)) ELSE h[a - 1]
IsLastTable(b, h) == h = [a \in 0..(b[Plan].plan) |-> LastStep(b, h, a)]

\* The reader's events follow from any table of the last numbers.
LEMMA ReadersLastTable ==
  ASSUME NEW b, NEW g, IsLastTable(b, g),
         \A h : IsLastTable(b, h) => \A a \in AttemptsRead(b) : EventFileValid(b, a, h[a - 1]),
         SumFunction([a \in AttemptsRead(b) |-> Len(EventsRead(b, a))]) = b[Execution].total
  PROVE  VerifyEvents(b)
<1> DEFINE h == CHOOSE last : IsLastTable(b, last)
<1>1. IsLastTable(b, h)
  BY Zenon
<1>2. \A a \in AttemptsRead(b) : EventFileValid(b, a, h[a - 1])
  <2> HIDE DEF h
  <2> QED
    BY <1>1
<1> QED
  BY <1>2 DEF VerifyEvents, IsLastTable, LastStep

\* The reader finds the events of every attempt.
LEMMA EventsReadBack ==
  ASSUME NEW w, NEW x, NEW b, BundleOf(w, x, b), ListedAll(w, x), NEW a \in Attempts
  PROVE  HasEntry(b, EventsOf(a)) /\ EventsRead(b, a) = w.events[a]
<1>1. HasEntry(b, EventsOf(a))
  BY ManifestFields, ZenonT(60) DEF ListedAll
<1>2. b[EventsOf(a)] = EventsContent(w.events[a])
  BY DEF ListedAll, BundleOf
<1> QED
  BY <1>1, <1>2 DEF EventsRead, EventsContent

\* The table of the last numbers exists and holds what the session counted.
LEMMA LastTableIs ==
  ASSUME NEW w, NEW x, NEW b, BundleOf(w, x, b), ListedAll(w, x)
  PROVE  /\ \E g : IsLastTable(b, g)
         /\ \A h : IsLastTable(b, h) => \A a \in Attempts : h[a - 1] = Prior(w, a)
<1>1. b[Plan].plan = N
  BY ManifestFields
<1>2. \A a \in Attempts : HasEntry(b, EventsOf(a)) /\ EventsRead(b, a) = w.events[a]
  BY EventsReadBack
<1>3. ASSUME NEW h, NEW a \in 0..N
      PROVE  LastStep(b, h, a) = IF a = 0 THEN 0 ELSE LastSeq(w.events[a])
  <2>1. CASE a = 0
    BY <2>1 DEF LastStep
  <2>2. CASE a # 0
    <3>1. a \in Attempts
      BY <2>2, EvidenceAssumption DEF Attempts
    <3> QED
      BY <1>2, <2>2, <3>1 DEF LastStep
  <2> QED
    BY <2>1, <2>2
<1> DEFINE g == [a \in 0..N |-> IF a = 0 THEN 0 ELSE LastSeq(w.events[a])]
<1>4. IsLastTable(b, g)
  <2>1. g = [a \in 0..N |-> LastStep(b, g, a)]
    BY <1>3
  <2> HIDE DEF g
  <2> QED
    BY <1>1, <2>1 DEF IsLastTable
<1>5. ASSUME NEW h, IsLastTable(b, h), NEW a \in Attempts
      PROVE  h[a - 1] = Prior(w, a)
  <2>1. a \in Int /\ a - 1 \in 0..N
    BY EvidenceAssumption DEF Attempts
  <2>2. h[a - 1] = LastStep(b, h, a - 1)
    BY <1>1, <1>5, <2>1 DEF IsLastTable
  <2>3. LastStep(b, h, a - 1) = IF a - 1 = 0 THEN 0 ELSE LastSeq(w.events[a - 1])
    BY <1>3, <2>1
  <2>4. a = 1 <=> a - 1 = 0
    BY <2>1
  <2> QED
    BY <2>2, <2>3, <2>4 DEF Prior
<1> HIDE DEF g
<1> QED
  BY <1>4, <1>5

\* The reader finds the events numbered through and their total.
LEMMA ReaderFindsEvents ==
  ASSUME NEW w, NEW x, NEW b, BundleOf(w, x, b), ListedAll(w, x), Ready(w, x)
  PROVE  VerifyEvents(b)
<1>1. /\ AttemptsRead(b) = Attempts /\ b[Execution] = ExecutionContent(w, x)
  BY ManifestFields
<1>2. ManifestOfAttempts(w, b)
  BY ManifestAttempts
<1>3. ASSUME NEW a \in Attempts PROVE EventFileValid(b, a, Prior(w, a))
  <2>1. HasEntry(b, EventsOf(a)) /\ EventsRead(b, a) = w.events[a]
    BY EventsReadBack
  <2>2. \A i \in 1..Len(w.events[a]) : w.events[a][i].n = Prior(w, a) + i
    BY DEF Ready, Numbered
  <2>3. /\ w.events[a][1].kind = "scenario_started"
        /\ w.events[a][Len(w.events[a])].kind = "scenario_completed"
    BY DEF Ready, AttemptWhole
  <2> QED
    BY <1>2, <2>1, <2>2, <2>3 DEF EventFileValid, ManifestOfAttempts
<1>4. SumFunction([a \in AttemptsRead(b) |-> Len(EventsRead(b, a))]) = b[Execution].total
  <2>1. [a \in AttemptsRead(b) |-> Len(EventsRead(b, a))] = [a \in Attempts |-> Len(w.events[a])]
    BY <1>1, EventsReadBack
  <2>2. TotalEvents(w) = w.next /\ x.total = w.next
    BY DEF Ready, Numbered
  <2>3. b[Execution].total = x.total
    BY <1>1 DEF ExecutionContent
  <2>4. SumFunction([a \in AttemptsRead(b) |-> Len(EventsRead(b, a))]) = TotalEvents(w)
    BY <2>1 DEF TotalEvents
  <2> QED
    BY <2>2, <2>3, <2>4
<1>5. PICK g : IsLastTable(b, g)
  BY LastTableIs
<1>6. \A h : IsLastTable(b, h) => \A a \in AttemptsRead(b) : EventFileValid(b, a, h[a - 1])
  BY <1>1, <1>3, LastTableIs
<1> QED
  BY <1>4, <1>5, <1>6, ReadersLastTable

\* The reader finds the capture states it computes itself.
LEMMA ReaderFindsStates ==
  ASSUME NEW w, NEW x, NEW b, BundleOf(w, x, b), ListedAll(w, x), Ready(w, x), NEW a \in Attempts
  PROVE  CaptureStatesMatch(b, a)
<1>1. \A p : HasEntry(b, p) <=> p \in DOMAIN w.entries
  BY ManifestFields
<1>2. b[ManifestFile].attempts[a].states = w.states[a]
  BY ManifestAttempts DEF ManifestOfAttempts
<1>3. /\ HasEntry(b, EventsOf(a)) /\ HasEntry(b, LogOf(a, "stdout"))
      /\ HasEntry(b, LogOf(a, "stderr")) /\ HasEntry(b, ResultOf(a))
      /\ HasEntry(b, IndexOf(a)) <=> HasIndex(w, a)
  BY <1>1 DEF ListedAll, Streams
<1>4. w.states[a].events # "not_provided"
  BY DEF Ready, AttemptWhole, StatesTell
<1>5. ASSUME NEW st \in Streams PROVE w.states[a][st] # "not_provided"
  <2>1. w.log[a][st].file = "closed" /\ StatesTell(w)
    BY DEF Ready, LogsClosed
  <2>2. w.states[a][st] = LogState(w.log[a][st])
    BY <2>1 DEF StatesTell
  <2> QED
    BY <2>2 DEF LogState
<1>6. w.states[a].result # "not_provided"
  <2>1. a <= N
    BY EvidenceAssumption DEF Attempts
  <2> QED
    BY <2>1 DEF Ready, CapturedUpTo
<1>7. w.states[a].artifacts # "not_provided" <=> HasIndex(w, a)
  <2>1. w.states[a].artifacts \in IF w.arts[a] = <<>> THEN {"not_provided", "captured_empty"}
                                  ELSE {"captured", "omitted_limit"}
    BY DEF Ready, StatesTell
  <2> QED
    BY <2>1 DEF HasIndex
<1>8. w.states[a].stdout # "not_provided" /\ w.states[a].stderr # "not_provided"
  BY <1>5 DEF Streams
<1> QED
  BY <1>2, <1>3, <1>4, <1>6, <1>7, <1>8 DEF CaptureStatesMatch, HasEntry

\* The reader finds the manifest's records in the indexes.
LEMMA ReaderFindsRecords ==
  ASSUME NEW w, NEW x, NEW b, BundleOf(w, x, b), ListedAll(w, x), Ready(w, x)
  PROVE  TopLevelArtifactsMatch(b)
<1>1. AttemptsRead(b) = Attempts
  BY ManifestFields
<1>2. IsSession(w)
  BY DEF Ready
<1>3. \A a \in Attempts : IndexRecords(b, a) = w.arts[a] /\ w.arts[a] \in Seq(Record)
  BY <1>2, IndexesRead, SessionFields
<1>4. b[ManifestFile].artifacts =
        UNION {{[attempt |-> a, rec |-> w.arts[a][i]] : i \in 1..Len(w.arts[a])} : a \in Attempts}
  BY DEF BundleOf, Manifest
<1>5. ASSUME NEW a \in Attempts
      PROVE  {[attempt |-> a, rec |-> w.arts[a][i]] : i \in 1..Len(w.arts[a])}
               = {[attempt |-> a, rec |-> r] : r \in Range(IndexRecords(b, a))}
  <2>1. Range(IndexRecords(b, a)) = {w.arts[a][i] : i \in 1..Len(w.arts[a])}
    BY <1>3 DEF Range
  <2> QED
    BY <2>1
<1> QED
  BY <1>1, <1>4, <1>5 DEF TopLevelArtifactsMatch

\* The reader finds the completion it computes itself.
LEMMA ReaderFindsCompletion ==
  ASSUME NEW w, NEW x, NEW b, BundleOf(w, x, b), ListedAll(w, x), Ready(w, x)
  PROVE  VerifyCompletion(b)
<1>1. /\ AttemptsRead(b) = Attempts /\ b[Execution] = ExecutionContent(w, x)
      /\ b[ManifestFile].complete = x.complete
      /\ b[ManifestFile].evidenceComplete = EvidenceComplete(w, x)
      /\ b[ManifestFile].failure = x.incomplete
  BY ManifestFields
<1>2. b[Execution].complete = x.complete /\ b[Execution].evidenceComplete = EvidenceComplete(w, x)
  BY <1>1 DEF ExecutionContent
<1>3. \A a \in Attempts : CaptureStatesMatch(b, a)
  BY ReaderFindsStates
<1>4. TopLevelArtifactsMatch(b)
  BY ReaderFindsRecords
<1>5. x.complete = TRUE /\ x.incomplete \in BOOLEAN /\ (x.incomplete \/ EvidenceComplete(w, x))
  BY DEF Ready
<1>6. EvidenceComplete(w, x) \in BOOLEAN
  BY DEF EvidenceComplete
<1>7. ASSUME EvidenceComplete(w, x), NEW a \in Attempts
      PROVE  /\ "truncated" \notin {w.states[a].events, w.states[a].stdout, w.states[a].stderr}
             /\ w.states[a].artifacts # "omitted_limit"
  <2>1. ~w.incomplete
    BY <1>7 DEF EvidenceComplete
  <2>2. w.states[a].events = "captured" /\ w.states[a].artifacts # "omitted_limit"
    BY <2>1 DEF Ready, StatesTell, AttemptWhole
  <2>3. ASSUME NEW st \in Streams PROVE w.states[a][st] # "truncated"
    <3>1. w.log[a][st].file = "closed" /\ StatesTell(w)
      BY DEF Ready, LogsClosed
    <3>2. w.states[a][st] = LogState(w.log[a][st]) /\ ~w.log[a][st].truncated
      BY <2>1, <3>1 DEF StatesTell
    <3> QED
      BY <3>2 DEF LogState
  <2>4. w.states[a].stdout # "truncated" /\ w.states[a].stderr # "truncated"
    BY <2>3 DEF Streams
  <2> QED
    BY <2>2, <2>4
<1>8. \A a \in Attempts : b[ManifestFile].attempts[a].states = w.states[a]
  BY ManifestAttempts DEF ManifestOfAttempts
<1> QED
  BY <1>1, <1>2, <1>3, <1>4, <1>5, <1>6, <1>7, <1>8 DEF VerifyCompletion

\* What a commit stages is what the strict reader asks for.
LEMMA ReaderAccepts ==
  ASSUME NEW w, NEW x, NEW b, BundleOf(w, x, b), ListedAll(w, x), Ready(w, x), IndexesSorted(b)
  PROVE  OpenAndVerify(b, b[ManifestFile])
<1>1. ManifestFile \in DOMAIN b
  BY DEF BundleOf
<1> QED
  BY <1>1, ReaderFindsLayout, ReaderFindsResults, ReaderFindsArtifacts, ReaderFindsEvents,
     ReaderFindsCompletion DEF OpenAndVerify

CompletionOf(u, x) ==
  /\ x.complete = TRUE /\ x.incomplete \in BOOLEAN /\ x.total = u.next
  /\ x.results \in Seq(Result) /\ Len(x.results) = N
  /\ \A a \in Attempts : AttemptWhole(u, a, x.results[a])

\* Session.Commit fails, or finalizes, writes the results and builds the manifest.
LEMMA StagedIs ==
  ASSUME NEW u, NEW x, NEW r, r = Staged(u, x)
  PROVE  r = Fail(u) \/ r = ManifestBuilt(WriteResults(FinalizeCaptures(u), x), x)
<1>1. PICK y : y = ManifestBuilt(WriteResults(FinalizeCaptures(u), x), x)
  OBVIOUS
<1>2. {ManifestBuilt(w, x) : w \in {WriteResults(c, x) : c \in {FinalizeCaptures(u)}}} = {y}
  BY <1>1
<1>3. (CHOOSE t \in {y} : TRUE) = y
  BY ChoiceOfOne
<1> QED
  BY <1>1, <1>2, <1>3 DEF Staged

\* The numbering depends on the events only.
LEMMA NumberedSame ==
  ASSUME NEW t, Numbered(t), NEW r, Same(t, r)
  PROVE  Numbered(r)
BY TotalEventsSame DEF Same, Numbered, Prior

\* The session with its manifest written, field by field.
LEMMA WithManifestFields ==
  ASSUME NEW w, IsSession(w), NEW x, NEW r, r = WithManifest(w, x)
  PROVE  /\ IsSession(r) /\ Same(w, r) /\ r.state = w.state /\ r.entries = w.entries
         /\ Added(w.files, r.files, ManifestFile, Manifest(w, x))
<1> DEFINE m == Manifest(w, x)
           F == Put(w.files, ManifestFile, m)
<1>1. r = [w EXCEPT !.files = F]
  BY DEF WithManifest
<1>2. Added(w.files, F, ManifestFile, m)
  BY PutAdds
<1> HIDE DEF F, m
<1>3. IsSession(r) /\ Same(w, r) /\ r.state = w.state /\ r.entries = w.entries /\ r.files = F
  BY <1>1 DEF IsSession, Same
<1> QED
  BY <1>2, <1>3 DEF m

EventsAllClosed(c) == \A a \in Attempts : c.events[a] # <<>> /\ ~c.eventsOpen[a]

\* The session before the manifest: results and the execution record are written.
LEMMA ExecutionListed ==
  ASSUME NEW c, LogsClosed(c), NEW x, NEW t, ResultsUpTo(c, t, N, x.results),
         EventsAllClosed(c),
         NEW w, w = WritePayload(t, Execution, ExecutionContent(c, x), FALSE)
  PROVE  /\ IsSession(w) /\ w.state = "active" /\ Same(c, w) /\ StatesTell(w)
         /\ CapturedUpTo(w, N) /\ Written(w) /\ ListedAll(w, x) /\ w.eventsOpen = c.eventsOpen
<1>0. /\ IsSession(t) /\ t.state = "active" /\ Listed(t, N, N, x.results) /\ Written(t)
      /\ StatesTell(t) /\ Same(c, t) /\ t.eventsOpen = c.eventsOpen /\ ArtifactStatesSame(c, t)
      /\ CapturedUpTo(t, N)
  BY DEF ResultsUpTo
<1> DEFINE x0 == ExecutionContent(c, x)
<1>1. ~FileName(Execution) /\ (\A b \in Attempts : Execution # EventsOf(b)) /\ Execution # Plan
  <2>1. ASSUME NEW a \in Attempts, Execution \in AttemptFiles(a) PROVE FALSE
    BY <2>1, NameHeads DEF AttemptFiles
  <2> QED
    BY <2>1, NameHeads DEF FileName
<1>2. Execution \notin DOMAIN t.entries
  BY <1>0, <1>1 DEF Listed
<1>3. LogsClosed(t)
  BY <1>0 DEF LogsClosed, Same
<1>4. Execution \notin DOMAIN t.files
  BY <1>0, <1>1, <1>2, <1>3, NotAFile
<1> HIDE DEF x0
<1>5. IsSession(w) /\ PayloadWritten(t, w, Execution, x0)
  BY <1>0, <1>2, <1>4, WritePayloadFields DEF x0
<1>6. Written(w)
  BY <1>0, <1>4, <1>5, WrittenPayload
<1>7. /\ Same(t, w) /\ w.state = t.state /\ w.eventsOpen = t.eventsOpen /\ w.states = t.states
      /\ Added(t.entries, w.entries, Execution, x0)
  BY <1>5 DEF PayloadWritten
<1>8. StatesTell(w)
  BY <1>0, <1>7, StatesOfSame
<1>9. CapturedUpTo(w, N) /\ Same(c, w) /\ w.state = "active" /\ w.eventsOpen = c.eventsOpen
  BY <1>0, <1>7 DEF CapturedUpTo, Same
<1>10. x0 = ExecutionContent(w, x)
  <2>1. w.incomplete = c.incomplete
    BY <1>9 DEF Same
  <2> QED
    BY <2>1 DEF x0, ExecutionContent, EvidenceComplete
<1>11. /\ w.entries[Execution] = x0 /\ IsFcn(w.entries)
       /\ \A q : q \in DOMAIN w.entries <=> q \in DOMAIN t.entries \/ q = Execution
       /\ \A q \in DOMAIN t.entries : w.entries[q] = t.entries[q]
  BY <1>2, <1>7 DEF Added
<1>12. ListedAll(w, x)
  <2>1. \A p \in DOMAIN w.entries : FileName(p) \/ p = Execution
    BY <1>0, <1>11 DEF Listed
  <2>2. Plan \in DOMAIN w.entries /\ w.entries[Plan] = PlanContent
    BY <1>0, <1>11 DEF Listed
  <2>3. ASSUME NEW a \in Attempts
        PROVE  EventsOf(a) \in DOMAIN w.entries /\ w.entries[EventsOf(a)] = EventsContent(w.events[a])
    <3>1. t.events = c.events /\ w.events = c.events
      BY <1>0, <1>9 DEF Same
    <3>2. EventsOf(a) \in DOMAIN t.entries
      BY <1>0, <3>1, ZenonT(60) DEF Listed, EventsAllClosed
    <3>3. t.entries[EventsOf(a)] = EventsContent(t.events[a])
      BY <1>0, <3>2 DEF Listed
    <3> QED
      BY <1>11, <3>1, <3>2, <3>3
  <2>4. ASSUME NEW a \in Attempts, NEW st \in Streams PROVE LogOf(a, st) \in DOMAIN w.entries
    <3>1. LogOf(a, st) \in DOMAIN t.entries
      BY <1>0, <1>3, ListedLogs DEF LogsClosed
    <3> QED
      BY <1>11, <3>1
  <2>5. ASSUME NEW a \in Attempts
        PROVE  /\ IndexOf(a) \in DOMAIN w.entries <=> HasIndex(w, a)
               /\ IndexOf(a) \in DOMAIN w.entries => w.entries[IndexOf(a)] = [index |-> w.arts[a]]
               /\ ResultOf(a) \in DOMAIN w.entries /\ w.entries[ResultOf(a)] = x.results[a]
    <3>1. a <= N /\ IndexOf(a) # Execution
      BY NameHeads, EvidenceAssumption DEF Attempts
    <3>2. w.arts = t.arts /\ (HasIndex(w, a) <=> HasIndex(t, a))
      BY <1>7 DEF Same, HasIndex
    <3>3. /\ IndexOf(a) \in DOMAIN t.entries <=> HasIndex(t, a)
          /\ IndexOf(a) \in DOMAIN t.entries => t.entries[IndexOf(a)] = [index |-> t.arts[a]]
          /\ ResultOf(a) \in DOMAIN t.entries /\ t.entries[ResultOf(a)] = x.results[a]
      BY <1>0, <3>1, ListedAttempt
    <3> QED
      BY <1>11, <3>1, <3>2, <3>3
  <2>6. ASSUME NEW d \in Digest
        PROVE  /\ ObjectOf(d) \in DOMAIN w.entries <=> d \in w.objects
               /\ ObjectOf(d) \in DOMAIN w.entries => w.entries[ObjectOf(d)] = d
    <3>1. ObjectOf(d) # Execution
      BY NameHeads
    <3>2. w.objects = t.objects
      BY <1>7 DEF Same
    <3> QED
      BY <1>0, <1>11, <3>1, <3>2 DEF Listed
  <2> QED
    BY <1>10, <1>11, <2>1, <2>2, <2>3, <2>4, <2>5, <2>6 DEF ListedAll
<1> QED
  BY <1>5, <1>6, <1>8, <1>9, <1>12

\* What a successful staging leaves: a whole session and the bundle of it.
LEMMA StagedInv ==
  ASSUME NEW u, IsSession(u), u.state = "active", SessionInv(u), LogsClosed(u), NEW x,
         CompletionOf(u, x), NEW r, r = Staged(u, x), r.state = "active"
  PROVE  /\ IsSession(r) /\ r.next = u.next /\ r.log = u.log
         /\ \E w : /\ Ready(w, x) /\ ListedAll(w, x) /\ BundleOf(w, x, r.files)
                   /\ r.entries = w.entries /\ w.incomplete = u.incomplete
<1>1. PICK c : c = FinalizeCaptures(u)
  OBVIOUS
<1>2. Finalized(u, c, N)
  BY <1>1, FinalizeCapturesInv
<1>3. Same(u, c) /\ OpenAfter(u, c, N)
  BY <1>2 DEF Finalized
<1>4. LogsClosed(c)
  BY <1>3 DEF Same, LogsClosed
<1>5. AllRangesMatch(c, x.results)
  BY <1>3 DEF CompletionOf, AttemptWhole, RangeMatches, AllRangesMatch, Same
<1>6. ResultsUpTo(c, c, 0, x.results)
  BY <1>2, FinalizedIsStart
<1>7. Len(x.results) = N
  BY DEF CompletionOf
<1>8. PICK t : /\ ResultsUpTo(c, t, N, x.results)
               /\ WriteResults(c, x) = WritePayload(t, Execution, ExecutionContent(c, x), FALSE)
  BY <1>4, <1>5, <1>6, <1>7, WriteResultsInv
<1>9. PICK w : w = WriteResults(c, x)
  OBVIOUS
<1>10. EventsAllClosed(c)
  <2>1. \A a \in Attempts : a <= N
    BY EvidenceAssumption DEF Attempts
  <2> QED
    BY <1>3, <2>1 DEF Same, OpenAfter, CompletionOf, AttemptWhole, EventsAllClosed
<1>11. /\ IsSession(w) /\ w.state = "active" /\ Same(c, w) /\ StatesTell(w)
       /\ CapturedUpTo(w, N) /\ Written(w) /\ ListedAll(w, x) /\ w.eventsOpen = c.eventsOpen
  <2>1. w = WritePayload(t, Execution, ExecutionContent(c, x), FALSE)
    BY <1>8, <1>9
  <2> QED
    BY <1>4, <1>8, <1>10, <2>1, ExecutionListed, ZenonT(60)
<1>12. Same(u, w)
  BY <1>3, <1>11 DEF Same
<1>13. r = ManifestBuilt(w, x)
  <2>1. r # Fail(u)
    BY FailIsSession
  <2> QED
    BY <1>1, <1>9, <2>1, StagedIs
<1>14. r = WithManifest(w, x) /\ (x.incomplete \/ EvidenceComplete(w, x))
  <2>1. r # Fail(w)
    BY <1>11, FailIsSession
  <2> QED
    BY <1>13, <2>1 DEF ManifestBuilt
<1>15. /\ IsSession(r) /\ Same(w, r) /\ r.entries = w.entries
       /\ Added(w.files, r.files, ManifestFile, Manifest(w, x))
  BY <1>11, <1>14, WithManifestFields
<1>16. Ready(w, x)
  <2>1. Numbered(w) /\ ArtifactsRefer(w) /\ LogsClosed(w)
    <3>1. Numbered(w)
      BY <1>12, NumberedSame DEF SessionInv
    <3>2. ArtifactsRefer(w)
      <4>1. SameArtifacts(u, w)
        BY <1>12 DEF Same, SameArtifacts
      <4> QED
        BY <4>1, ArtifactsKept DEF SessionInv
    <3>3. LogsClosed(w)
      BY <1>12 DEF Same, LogsClosed
    <3> QED
      BY <3>1, <3>2, <3>3
  <2>2. \A a \in Attempts : AttemptWhole(w, a, x.results[a])
    BY <1>12 DEF CompletionOf, AttemptWhole, RangeMatches, Same
  <2>3. x.total = w.next
    BY <1>12 DEF CompletionOf, Same
  <2> QED
    BY <1>11, <1>14, <2>1, <2>2, <2>3 DEF Ready, CompletionOf
<1>17. BundleOf(w, x, r.files)
  <2>1. ManifestFile \notin DOMAIN w.entries
    <3>1. ASSUME NEW a \in Attempts, ManifestFile \in AttemptFiles(a) PROVE FALSE
      BY <3>1, NameHeads DEF AttemptFiles
    <3>2. ~FileName(ManifestFile) /\ ManifestFile # Execution
      BY <3>1, NameHeads DEF FileName
    <3> QED
      BY <1>11, <3>2 DEF ListedAll
  <2>2. DOMAIN w.files = DOMAIN w.entries /\ \A p \in DOMAIN w.entries : w.files[p] = w.entries[p]
    <3>1. \A p \in DOMAIN w.entries : p \in DOMAIN w.files /\ w.files[p] = w.entries[p]
      BY <1>11 DEF Written
    <3>2. ASSUME NEW p \in DOMAIN w.files PROVE p \in DOMAIN w.entries
      <4>1. \/ p \in DOMAIN w.entries
            \/ \E a \in Attempts : p = EventsOf(a) /\ w.eventsOpen[a]
            \/ \E a \in Attempts, st \in Streams : p = LogOf(a, st) /\ w.log[a][st].file = "open"
        BY <1>11 DEF Written
      <4>2. \A a \in Attempts, st \in Streams : w.log[a][st].file = "closed"
        BY <1>16 DEF Ready, LogsClosed
      <4>3. \A a \in Attempts : ~w.eventsOpen[a]
        BY <1>10, <1>11 DEF EventsAllClosed
      <4> QED
        BY <4>1, <4>2, <4>3
    <3> QED
      BY <3>1, <3>2
  <2> QED
    BY <1>15, <2>1, <2>2 DEF Added, BundleOf
<1>18. r.next = u.next /\ r.log = u.log /\ w.incomplete = u.incomplete
  BY <1>12, <1>15 DEF Same
<1> QED
  BY <1>11, <1>15, <1>16, <1>17, <1>18

\* What a successful staging leaves may be published.
LEMMA StagedSound ==
  ASSUME NEW u, IsSession(u), u.state = "active", SessionInv(u), LogsClosed(u), NEW x,
         CompletionOf(u, x), NEW r, r = Staged(u, x), r.state = "active", NEW lost \in BOOLEAN,
         lost => u.incomplete \/ x.incomplete
  PROVE  IsSession(r) /\ r.next = u.next /\ r.log = u.log /\ Sound(r, lost)
<1>1. IsSession(r) /\ r.next = u.next /\ r.log = u.log
  BY StagedInv
<1>2. PICK w : /\ Ready(w, x) /\ ListedAll(w, x) /\ BundleOf(w, x, r.files)
               /\ r.entries = w.entries /\ w.incomplete = u.incomplete
  BY StagedInv
<1>3. PICK b : b = r.files
  OBVIOUS
<1>4. BundleOf(w, x, b)
  BY <1>2, <1>3
<1>5. /\ IsFcn(b) /\ ManifestFile \in DOMAIN b /\ ManifestFile \notin DOMAIN r.entries
      /\ DOMAIN b = DOMAIN r.entries \cup {ManifestFile}
      /\ \A p \in DOMAIN r.entries : b[p] = r.entries[p]
  BY <1>2, <1>4 DEF BundleOf
<1>6. EntriesOf(b) = w.entries /\ b[ManifestFile].evidenceComplete = EvidenceComplete(w, x)
  BY <1>2, <1>4, ManifestFields
<1>7. b[ManifestFile].evidenceComplete => ~lost
  BY <1>2, <1>6 DEF EvidenceComplete
<1>8. IndexesSorted(b) => OpenAndVerify(b, b[ManifestFile])
  BY <1>2, <1>4, ReaderAccepts
<1>9. b[ManifestFile].entries = r.entries
  BY <1>2, <1>6 DEF EntriesOf
<1> QED
  BY <1>1, <1>3, <1>5, <1>7, <1>8, <1>9 DEF Sound

-----------------------------------------------------------------------------
(* How a step may end.                                                     *)

\* The types of all but the call, the session, the bundle and the answer.
RestTypes ==
  /\ att \in Attempts /\ run \in RunState /\ cont \in Container
  /\ work.tree \in Workspace /\ work.todo \subseteq Paths
  /\ work = [tree |-> work.tree, todo |-> work.todo]
  /\ ctx \in {"live", "attempt", "run"} /\ world \in World

\* The absent bundle has no files.
LEMMA NoBundleIsFcn == IsFcn(NoBundle)
BY DEF IsFcn, NoBundle

\* A log that was not opened.
LEMMA NoLogIsLog == NoLog \in Log /\ NoLog.stored = 0 /\ NoLog.file = "none"
BY DEF NoLog, Log

\* The session of Writer.Begin.
LEMMA BeginIsSession == IsSession(Begin) /\ TotalLogBytes(Begin) = 0
<1>1. 1 \in Attempts
  BY EvidenceAssumption DEF Attempts
<1>2. [a \in Attempts |-> [st \in Streams |-> NoLog]] \in [Attempts -> [Streams -> Log]]
  BY NoLogIsLog
<1>3. IsSession(Begin)
  BY <1>1, <1>2 DEF Begin, IsSession, States, CaptureState
<1>4. [a \in Attempts |-> Begin.log[a]["stdout"].stored + Begin.log[a]["stderr"].stored]
        = [a \in Attempts |-> 0]
  BY NoLogIsLog DEF Begin, Streams
<1>5. TotalLogBytes(Begin) = 0
  BY <1>4, AttemptsFinite, SumOfZeros DEF TotalLogBytes
<1> QED
  BY <1>3, <1>5

\* The session of an aborted writer.
LEMMA AbortedIsSession ==
  IsSession(Aborted) /\ TotalLogBytes(Aborted) = 0 /\ Aborted.state = "aborted"
<1>1. Aborted.log = Begin.log /\ Aborted.state = "aborted"
  BY DEF Aborted, Begin
<1>2. IsSession(Aborted)
  BY BeginIsSession DEF Aborted, IsSession
<1> QED
  BY <1>1, <1>2, BeginIsSession, TotalLogBytesSame

\* A step that stops the run.
LEMMA StopInv ==
  ASSUME NEW code \in {"failed", "cleanup-failed"}, Stop(code), bundle' = NoBundle, RestTypes',
         cont'.state \in {"none", "removed"} \/ code = "cleanup-failed"
  PROVE  ExecuteIInv'
<1>0. pc' = "done" /\ s' = Aborted /\ answer' = code
  BY DEF Stop
<1>1. IsSession(s') /\ TotalLogBytes(s') <= MaxTotalLogBytes /\ s'.state = "aborted"
  BY <1>0, AbortedIsSession, LogLimits
<1>2. ExecTypes'
  BY <1>0, <1>1 DEF ExecTypes, RestTypes, PCs
<1>3. WritingInv'
  BY <1>0 DEF WritingInv, Writing, AttemptPCs, EmitCalls
<1>4. PublishedInv'
  BY <1>0, NoBundleIsFcn DEF PublishedInv
<1>5. ContainerInv'
  BY <1>0 DEF ContainerInv, NoContainerPCs, Closed
<1> QED
  BY <1>2, <1>3, <1>4, <1>5 DEF ExecuteIInv, PublishedVerifies, CompleteMeansNothingLost

\* A step after which the container is cleaned up.
LEMMA ToCleanupInv ==
  ASSUME ExecuteIInv, pc' = "cleanup", s' = s, answer' = answer, run' = run, bundle' = NoBundle,
         RestTypes'
  PROVE  ExecuteIInv'
<1>2. ExecTypes'
  BY DEF ExecuteIInv, ExecTypes, RestTypes, PCs, TotalLogBytes
<1>3. WritingInv'
  BY DEF WritingInv, Writing, AttemptPCs, EmitCalls
<1>4. PublishedInv'
  BY NoBundleIsFcn DEF PublishedInv
<1>5. ContainerInv'
  BY DEF ContainerInv, NoContainerPCs, Closed
<1> QED
  BY <1>2, <1>3, <1>4, <1>5 DEF ExecuteIInv, PublishedVerifies, CompleteMeansNothingLost

\* A step that goes on writing.
InOrder(c, a, t, r, lost) ==
  /\ IsSession(t) /\ t.state = "active" /\ SessionInv(t) /\ Progress(c, a, t, r)
  /\ NothingLostYet(c, t, r, lost) /\ TotalLogBytes(t) <= MaxTotalLogBytes

\* The calls made while the session is written.
LEMMA WritingPCs ==
  /\ Writing \subseteq PCs
  /\ \A c \in Writing : c \notin {"publish", "sync", "verify", "verified", "read", "cleanup",
                                  "done", "crashed"}
BY DEF Writing, PCs, AttemptPCs, EmitCalls

\* A step that goes on writing keeps the invariant when it keeps the order.
LEMMA WritingOnInv ==
  ASSUME ExecuteIInv, pc' \in Writing, answer' = answer, bundle' = NoBundle, RestTypes',
         InOrder(pc', att', s', run', world'.lost),
         pc' \in NoContainerPCs => cont'.state \in {"none", "removed"}
  PROVE  ExecuteIInv'
<1>0. /\ IsSession(s') /\ s'.state = "active" /\ SessionInv(s') /\ Progress(pc', att', s', run')
      /\ NothingLostYet(pc', s', run', world'.lost) /\ TotalLogBytes(s') <= MaxTotalLogBytes
  BY DEF InOrder
<1>1. s'.next = run'.seq
  BY <1>0 DEF Progress
<1>2. ExecTypes'
  BY <1>0, <1>1, WritingPCs DEF ExecTypes, RestTypes, ExecuteIInv
<1>3. WritingInv'
  BY <1>0 DEF WritingInv
<1>4. PublishedInv'
  BY WritingPCs, NoBundleIsFcn DEF PublishedInv
<1>5. ContainerInv'
  BY WritingPCs DEF ContainerInv
<1> QED
  BY <1>2, <1>3, <1>4, <1>5 DEF ExecuteIInv, PublishedVerifies, CompleteMeansNothingLost

\* What holds while the executor writes.
LEMMA WhileWriting ==
  ASSUME ExecuteIInv, pc \in Writing
  PROVE  /\ bundle = NoBundle /\ IsSession(s) /\ RestTypes /\ TotalLogBytes(s) <= MaxTotalLogBytes
         /\ s.state = "active" \/ (pc = "exit" /\ s.state = "failed")
         /\ s.state = "active" => InOrder(pc, att, s, run, world.lost)
BY DEF ExecuteIInv, WritingInv, ExecTypes, RestTypes, InOrder

-----------------------------------------------------------------------------
(* The steps around the executor, and those after the commit.              *)

\* A step that changes nothing keeps the invariant.
LEMMA StutterInv ==
  ASSUME ExecuteIInv, UNCHANGED vars
  PROVE  ExecuteIInv'
<1>1. ExecTypes'
  BY DEF ExecuteIInv, ExecTypes, vars, TotalLogBytes
<1>2. WritingInv'
  BY DEF ExecuteIInv, WritingInv, vars
<1>3. PublishedInv'
  BY DEF ExecuteIInv, PublishedInv, vars
<1>4. ContainerInv' /\ PublishedVerifies' /\ CompleteMeansNothingLost'
  BY DEF ExecuteIInv, ContainerInv, vars, PublishedVerifies, CompleteMeansNothingLost
<1> QED
  BY <1>1, <1>2, <1>3, <1>4 DEF ExecuteIInv

\* A step of the container or of the clock.
LEMMA AroundInv ==
  ASSUME ExecuteIInv, UNCHANGED <<pc, att, s, run, work, bundle, answer, world>>,
         cont' \in Container, ctx' \in {"live", "attempt", "run"},
         cont.state \in {"none", "removed"} => cont'.state = cont.state
  PROVE  ExecuteIInv'
<1>1. ExecTypes'
  BY DEF ExecuteIInv, ExecTypes, TotalLogBytes
<1>2. WritingInv'
  BY DEF ExecuteIInv, WritingInv
<1>3. PublishedInv'
  BY DEF ExecuteIInv, PublishedInv
<1>4. ContainerInv'
  BY DEF ExecuteIInv, ContainerInv
<1>5. PublishedVerifies' /\ CompleteMeansNothingLost'
  BY DEF ExecuteIInv, PublishedVerifies, CompleteMeansNothingLost
<1> QED
  BY <1>1, <1>2, <1>3, <1>4, <1>5 DEF ExecuteIInv

\* The container may close its streams at any time.
LEMMA CloseStreamsInv == ASSUME ExecuteIInv, CloseStreams PROVE ExecuteIInv'
<1>1. cont \in Container /\ ctx \in {"live", "attempt", "run"}
  BY DEF ExecuteIInv, ExecTypes
<1>2. cont' \in Container /\ cont.state = "running"
  BY <1>1 DEF CloseStreams, Container
<1> QED
  BY <1>1, <1>2, AroundInv DEF CloseStreams

\* The container may end at any time.
LEMMA ContainerEndsInv == ASSUME ExecuteIInv, ContainerEnds PROVE ExecuteIInv'
<1>1. cont \in Container /\ ctx \in {"live", "attempt", "run"}
  BY DEF ExecuteIInv, ExecTypes
<1>2. PICK x \in Exits : Exit(x[1], x[2])
  BY DEF ContainerEnds
<1>3. x[1] \in Nat /\ x[2] \in BOOLEAN
  BY ExecuteAssumption
<1>4. cont' \in Container /\ cont.state = "running"
  BY <1>1, <1>2, <1>3 DEF Exit, Container
<1> QED
  BY <1>1, <1>2, <1>4, AroundInv DEF Exit

\* A deadline may pass at any time.
LEMMA ExpireInv == ASSUME ExecuteIInv, Expire PROVE ExecuteIInv'
<1>1. cont \in Container
  BY DEF ExecuteIInv, ExecTypes
<1> QED
  BY <1>1, AroundInv DEF Expire

\* The process may be killed at any time: nothing is published that was not.
LEMMA CrashInv == ASSUME ExecuteIInv, Crash PROVE ExecuteIInv'
<1>1. ExecTypes'
  BY DEF ExecuteIInv, ExecTypes, TotalLogBytes, PCs, Crash
<1>2. WritingInv'
  BY WritingPCs DEF WritingInv, Crash
<1>3. PublishedInv'
  BY DEF ExecuteIInv, PublishedInv, Crash
<1>4. ContainerInv'
  BY DEF ContainerInv, Crash, NoContainerPCs, Closed
<1>5. PublishedVerifies' /\ CompleteMeansNothingLost'
  BY DEF ExecuteIInv, PublishedVerifies, CompleteMeansNothingLost, Crash
<1> QED
  BY <1>1, <1>2, <1>3, <1>4, <1>5 DEF ExecuteIInv

\* A file that is changed, lost or added never makes a bundle claim more.
ClaimsAtMost(b, c) ==
  ManifestFile \in DOMAIN c /\ "evidenceComplete" \in DOMAIN c[ManifestFile] =>
    ManifestFile \in DOMAIN b /\ c[ManifestFile] = b[ManifestFile]

\* Damage never makes a bundle claim more.
LEMMA DamageClaims ==
  ASSUME Damage, IsFcn(bundle)
  PROVE  IsFcn(bundle') /\ ClaimsAtMost(bundle, bundle')
<1> DEFINE bad == [damaged |-> TRUE]
<1>0. "evidenceComplete" \notin DOMAIN bad
  OBVIOUS
<1>1. ASSUME NEW p, bundle' = Put(bundle, p, bad)
      PROVE  IsFcn(bundle') /\ ClaimsAtMost(bundle, bundle')
  <2> HIDE DEF bad
  <2>1. Added(bundle, bundle', p, bad)
    BY <1>1, PutAdds
  <2> QED
    BY <1>0, <2>1 DEF Added, ClaimsAtMost
<1>2. ASSUME NEW p \in DOMAIN bundle, bundle' = Restrict(bundle, DOMAIN bundle \ {p})
      PROVE  IsFcn(bundle') /\ ClaimsAtMost(bundle, bundle')
  BY <1>2 DEF Restrict, ClaimsAtMost, IsFcn
<1> HIDE DEF bad
<1> QED
  BY <1>1, <1>2 DEF Damage, bad

\* Damage keeps the invariant.
LEMMA DamageInv == ASSUME ExecuteIInv, Damage PROVE ExecuteIInv'
<1>0. /\ pc \in {"verify", "verified"} /\ pc' = pc /\ s' = s /\ run' = run /\ answer' = answer
      /\ att' = att /\ cont' = cont /\ work' = work /\ ctx' = ctx /\ bundle # NoBundle
  BY DEF Damage
<1>1. world' \in World /\ world'.damaged /\ world'.lost = world.lost
  BY DEF Damage, ExecuteIInv, ExecTypes, World
<1>2. ExecTypes'
  BY <1>0, <1>1 DEF ExecuteIInv, ExecTypes, TotalLogBytes
<1>3. WritingInv'
  BY <1>0, WritingPCs DEF WritingInv
<1>4. IsFcn(bundle') /\ ClaimsAtMost(bundle, bundle')
  BY DamageClaims DEF ExecuteIInv, PublishedInv
<1>5. PublishedInv'
  BY <1>0, <1>1, <1>4 DEF ExecuteIInv, PublishedInv
<1>6. ContainerInv'
  BY <1>0 DEF ExecuteIInv, ContainerInv
<1>7. PublishedVerifies' /\ CompleteMeansNothingLost'
  BY <1>0, <1>1, <1>4 DEF ExecuteIInv, PublishedVerifies, CompleteMeansNothingLost, ClaimsAtMost
<1> QED
  BY <1>2, <1>3, <1>5, <1>6, <1>7 DEF ExecuteIInv

\* A call fails or not.
LEMMA MayFailIsBoolean == MayFail \subseteq BOOLEAN
BY DEF MayFail

\* The rename publishes what was staged.
LEMMA PublishInv == ASSUME ExecuteIInv, Publish PROVE ExecuteIInv'
<1>0. /\ pc = "publish" /\ UNCHANGED <<att, run, cont, work, ctx, world>>
  BY DEF Publish
<1>1. PICK f \in MayFail :
        IF f THEN Stop("failed") /\ UNCHANGED bundle
        ELSE bundle' = s.files /\ pc' = "sync" /\ UNCHANGED <<s, answer>>
  BY DEF Publish
<1>2. Sound(s, world.lost) /\ bundle = NoBundle
  BY <1>0 DEF ExecuteIInv, PublishedInv
<1>3. cont.state \in {"none", "removed"}
  BY <1>0 DEF ExecuteIInv, ContainerInv, NoContainerPCs
<1>4. RestTypes'
  BY <1>0 DEF ExecuteIInv, ExecTypes, RestTypes
<1>5. CASE f
  <2>1. Stop("failed") /\ bundle' = NoBundle /\ cont' = cont
    BY <1>0, <1>1, <1>2, <1>5
  <2> QED
    BY <1>3, <1>4, <2>1, StopInv
<1>6. CASE ~f
  <2>0. bundle' = s.files /\ pc' = "sync" /\ s' = s /\ answer' = answer
    BY <1>1, <1>6
  <2>1. ExecTypes'
    BY <1>0, <2>0 DEF ExecuteIInv, ExecTypes, TotalLogBytes, PCs
  <2>2. WritingInv'
    BY <2>0, WritingPCs DEF WritingInv
  <2>3. PublishedInv'
    BY <1>0, <1>2, <2>0 DEF ExecuteIInv, PublishedInv, Sound
  <2>4. ContainerInv'
    BY <1>0, <1>3, <2>0 DEF ContainerInv
  <2>5. PublishedVerifies' /\ CompleteMeansNothingLost'
    BY <1>0, <1>2, <2>0 DEF PublishedVerifies, CompleteMeansNothingLost, Sound
  <2> QED
    BY <2>1, <2>2, <2>3, <2>4, <2>5 DEF ExecuteIInv
<1> QED
  BY <1>5, <1>6, MayFailIsBoolean

\* Whether a session may be published depends on its files and entries.
LEMMA SoundDepends ==
  ASSUME NEW t, NEW lost, Sound(t, lost), NEW r, r.files = t.files, r.entries = t.entries
  PROVE  Sound(r, lost)
BY DEF Sound

\* The parent's sync, after which a failure leaves the bundle published.
LEMMA SyncParentInv == ASSUME ExecuteIInv, SyncParent PROVE ExecuteIInv'
<1>0. /\ pc = "sync" /\ UNCHANGED <<att, run, cont, work, ctx, world>>
  BY DEF SyncParent
<1>1. PICK f \in MayFail :
        IF f THEN Stop("failed") /\ bundle' = NoBundle
        ELSE /\ s' = [s EXCEPT !.state = "committed"]
             /\ pc' = "verify" /\ UNCHANGED <<bundle, answer>>
  BY DEF SyncParent
<1>2. Sound(s, world.lost) /\ IsSession(s)
  BY <1>0 DEF ExecuteIInv, PublishedInv, ExecTypes
<1>3. cont.state \in {"none", "removed"}
  BY <1>0 DEF ExecuteIInv, ContainerInv, NoContainerPCs
<1>4. RestTypes'
  BY <1>0 DEF ExecuteIInv, ExecTypes, RestTypes
<1>5. CASE f
  <2>1. Stop("failed") /\ bundle' = NoBundle /\ cont' = cont
    BY <1>0, <1>1, <1>5
  <2> QED
    BY <1>3, <1>4, <2>1, StopInv
<1>6. CASE ~f
  <2>0. s' = [s EXCEPT !.state = "committed"] /\ bundle' = bundle /\ pc' = "verify" /\ answer' = answer
    BY <1>1, <1>6
  <2>1. /\ IsSession(s') /\ s'.state = "committed" /\ s'.files = s.files /\ s'.entries = s.entries
        /\ s'.log = s.log
    BY <1>2, <2>0 DEF IsSession
  <2>2. ExecTypes'
    BY <1>0, <2>0, <2>1 DEF ExecuteIInv, ExecTypes, TotalLogBytes, PCs
  <2>3. WritingInv'
    BY <2>0, WritingPCs DEF WritingInv
  <2>4. Sound(s', world'.lost)
    BY <1>0, <1>2, <2>1, SoundDepends
  <2>5. PublishedInv'
    BY <2>0, <2>1, <2>4 DEF ExecuteIInv, PublishedInv
  <2>6. ContainerInv'
    BY <1>0, <1>3, <2>0 DEF ContainerInv
  <2>7. PublishedVerifies' /\ CompleteMeansNothingLost'
    BY <1>0, <2>0 DEF ExecuteIInv, PublishedVerifies, CompleteMeansNothingLost
  <2> QED
    BY <2>2, <2>3, <2>5, <2>6, <2>7 DEF ExecuteIInv
<1> QED
  BY <1>5, <1>6, MayFailIsBoolean

\* Verification accepts only the committed bundle.
LEMMA VerifyInv == ASSUME ExecuteIInv, Verify PROVE ExecuteIInv'
<1>0. /\ pc = "verify" /\ UNCHANGED <<att, s, run, cont, work, ctx, bundle, faults, world>>
      /\ \/ pc' = "verified" /\ answer' = "ok"
         \/ pc' = "done" /\ answer' = "rejected"
  BY DEF Verify
<1>2. ExecTypes'
  BY <1>0 DEF ExecuteIInv, ExecTypes, TotalLogBytes, PCs
<1>3. WritingInv'
  BY <1>0, WritingPCs DEF WritingInv
<1>5. PublishedInv'
  BY <1>0 DEF ExecuteIInv, PublishedInv
<1>6. ContainerInv'
  BY <1>0 DEF ExecuteIInv, ContainerInv, NoContainerPCs
<1>7. PublishedVerifies' /\ CompleteMeansNothingLost'
  BY <1>0 DEF ExecuteIInv, PublishedVerifies, CompleteMeansNothingLost
<1> QED
  BY <1>2, <1>3, <1>5, <1>6, <1>7 DEF ExecuteIInv

\* A reader that was let in reads committed files.
LEMMA ReadBundleInv == ASSUME ExecuteIInv, ReadBundle PROVE ExecuteIInv'
<1>0. /\ pc = "verified" /\ UNCHANGED <<att, s, run, cont, work, ctx, bundle, faults, world>>
      /\ \/ /\ pc' = "read" /\ answer' = answer
            /\ \A p \in Copied(s.entries) : ReadAgain(bundle, s.files[ManifestFile], p)
         \/ pc' = "done" /\ answer' = "rejected"
  BY DEF ReadBundle
<1>1. Sound(s, world.lost) /\ s.state = "committed"
  BY <1>0 DEF ExecuteIInv, PublishedInv
<1>2. ExecTypes'
  BY <1>0 DEF ExecuteIInv, ExecTypes, TotalLogBytes, PCs
<1>3. WritingInv'
  BY <1>0, WritingPCs DEF WritingInv
<1>4. ASSUME pc' = "read", NEW p \in Copied(s.entries) PROVE p \in DOMAIN bundle /\ bundle[p] = s.files[p]
  <2>1. ReadAgain(bundle, s.files[ManifestFile], p)
    BY <1>0, <1>4
  <2>2. p \in DOMAIN s.entries
    BY DEF Copied
  <2> QED
    BY <1>1, <2>1, <2>2 DEF ReadAgain, Sound
<1>5. PublishedInv'
  BY <1>0, <1>1, <1>4 DEF ExecuteIInv, PublishedInv
<1>6. ContainerInv'
  BY <1>0 DEF ExecuteIInv, ContainerInv, NoContainerPCs
<1>7. PublishedVerifies' /\ CompleteMeansNothingLost'
  BY <1>0 DEF ExecuteIInv, PublishedVerifies, CompleteMeansNothingLost
<1> QED
  BY <1>2, <1>3, <1>5, <1>6, <1>7 DEF ExecuteIInv

-----------------------------------------------------------------------------
(* The steps that leave the session alone.                                 *)

\* Two calls between which the session does not change.
Between(c, d) ==
  /\ c # "commit" /\ d # "commit" /\ d # "ended"
  /\ c \in Fresh <=> d \in Fresh
  /\ c \in Fresh \cup {"started"} <=> d \in Fresh \cup {"started"}
  /\ c \in Closed <=> d \in Closed

\* A call that leaves session and run alone keeps the order.
LEMMA MoveInOrder ==
  ASSUME NEW c, NEW d, Between(c, d), NEW a \in Attempts, NEW t, NEW r, NEW lost,
         InOrder(c, a, t, r, lost),
         d \in Closed \cup {"after"} => c \in Closed \cup {"after"} \/ OutcomeCoherent(r.this)
  PROVE  InOrder(d, a, t, r, lost)
<1>1. /\ IsSession(t) /\ t.state = "active" /\ SessionInv(t) /\ Progress(c, a, t, r)
      /\ NothingLostYet(c, t, r, lost) /\ TotalLogBytes(t) <= MaxTotalLogBytes
  BY DEF InOrder
<1>2. CurrentAttempt(c, a, t, r.this)
  BY <1>1 DEF Progress, Between
<1>3. CurrentAttempt(d, a, t, r.this)
  <2>1. \A st \in Streams : t.log[a][st].file =
          IF d \in Fresh THEN "none" ELSE IF d \in Closed THEN "closed" ELSE "open"
    BY <1>2 DEF CurrentAttempt, Between
  <2>2. /\ RangeMatches(t, a, r.this)
        /\ t.events[a] = <<>> <=> d \in Fresh \cup {"started"}
        /\ t.events[a] # <<>> => t.events[a][1].kind = "scenario_started"
    BY <1>2 DEF CurrentAttempt, Between
  <2>3. d \in Closed \cup {"after"} => OutcomeCoherent(r.this)
    BY <1>2 DEF CurrentAttempt
  <2> QED
    BY <2>1, <2>2, <2>3 DEF CurrentAttempt, Between
<1>4. Progress(d, a, t, r)
  BY <1>1, <1>3 DEF Progress, Between
<1>5. NothingLostYet(d, t, r, lost)
  BY <1>1 DEF NothingLostYet, Between
<1> QED
  BY <1>1, <1>4, <1>5 DEF InOrder

\* A call that leaves the session and the run as they are.
LEMMA MoveInv ==
  ASSUME ExecuteIInv, pc \in Writing, pc # "exit", pc' \in Writing, Between(pc, pc'),
         s' = s, run' = run, att' = att, answer' = answer, bundle' = bundle, world' = world,
         pc' \in Closed \cup {"after"} => pc \in Closed \cup {"after"} \/ OutcomeCoherent(run.this),
         RestTypes', pc' \in NoContainerPCs => cont'.state \in {"none", "removed"}
  PROVE  ExecuteIInv'
<1>1. /\ bundle = NoBundle /\ RestTypes /\ s.state = "active"
      /\ InOrder(pc, att, s, run, world.lost)
  BY WhileWriting
<1>2. att \in Attempts
  BY <1>1 DEF RestTypes
<1>3. InOrder(pc', att, s, run, world.lost)
  BY <1>1, <1>2, MoveInOrder
<1> QED
  BY <1>1, <1>3, WritingOnInv

\* The types around such a call.
LEMMA RestKept ==
  ASSUME RestTypes, UNCHANGED <<att, run, work, ctx, world>>, cont' \in Container
  PROVE  RestTypes'
BY DEF RestTypes

\* Checking the plan keeps the invariant.
LEMMA CheckPlanInv == ASSUME ExecuteIInv, CheckPlan PROVE ExecuteIInv'
<1>0. pc = "plan" /\ UNCHANGED <<att, run, cont, work, ctx, bundle, world>>
  BY DEF CheckPlan
<1>1. Stop("failed") \/ (pc' = "before" /\ s' = s /\ answer' = answer)
  BY DEF CheckPlan
<1>2. pc \in Writing /\ "before" \in Writing /\ Between(pc, "before")
  BY <1>0 DEF Writing, AttemptPCs, Between, Fresh, Closed
<1>3. bundle = NoBundle /\ RestTypes /\ cont \in Container
  BY <1>2, WhileWriting DEF RestTypes
<1>4. RestTypes'
  BY <1>0, <1>3, RestKept
<1>5. cont'.state \in {"none", "removed"}
  BY <1>0 DEF ExecuteIInv, ContainerInv, NoContainerPCs
<1>6. CASE Stop("failed")
  BY <1>0, <1>3, <1>4, <1>5, <1>6, StopInv
<1>7. CASE pc' = "before" /\ s' = s /\ answer' = answer
  BY <1>0, <1>2, <1>4, <1>5, <1>7, MoveInv DEF Closed
<1> QED
  BY <1>1, <1>6, <1>7

\* Inspecting the image keeps the invariant.
LEMMA InspectImageInv == ASSUME ExecuteIInv, InspectImage PROVE ExecuteIInv'
<1>0. pc = "image" /\ UNCHANGED <<att, run, cont, work, ctx, bundle, world>>
  BY DEF InspectImage
<1>1. Stop("failed") \/ (pc' = "create" /\ s' = s /\ answer' = answer)
  BY DEF InspectImage
<1>2. pc \in Writing /\ "create" \in Writing /\ Between(pc, "create")
  BY <1>0 DEF Writing, AttemptPCs, Between, Fresh, Closed
<1>3. bundle = NoBundle /\ RestTypes /\ cont \in Container
  BY <1>2, WhileWriting DEF RestTypes
<1>4. RestTypes'
  BY <1>0, <1>3, RestKept
<1>5. cont'.state \in {"none", "removed"}
  BY <1>0 DEF ExecuteIInv, ContainerInv, NoContainerPCs
<1>6. CASE Stop("failed")
  BY <1>0, <1>3, <1>4, <1>5, <1>6, StopInv
<1>7. CASE pc' = "create" /\ s' = s /\ answer' = answer
  BY <1>0, <1>2, <1>4, <1>5, <1>7, MoveInv DEF Closed
<1> QED
  BY <1>1, <1>6, <1>7

\* Creating the container keeps the invariant.
LEMMA CreateContainerInv == ASSUME ExecuteIInv, CreateContainer PROVE ExecuteIInv'
<1>0. pc = "create" /\ UNCHANGED <<att, run, work, ctx, bundle>>
  BY DEF CreateContainer
<1>1. PICK made \in BOOLEAN :
        \/ Stop("failed") /\ world' = [world EXCEPT !.leaked = @ \/ made] /\ cont' = cont
        \/ /\ pc' = "attach" /\ cont' = [NoContainer EXCEPT !.state = "created"]
           /\ s' = s /\ answer' = answer /\ world' = world
  BY DEF CreateContainer
<1>2. pc \in Writing /\ "attach" \in Writing /\ Between(pc, "attach")
  BY <1>0 DEF Writing, AttemptPCs, Between, Fresh, Closed
<1>3. bundle = NoBundle /\ RestTypes /\ cont \in Container /\ world \in World
  BY <1>2, WhileWriting DEF RestTypes
<1>5. cont.state \in {"none", "removed"}
  BY <1>0 DEF ExecuteIInv, ContainerInv, NoContainerPCs
<1>6. CASE Stop("failed") /\ world' = [world EXCEPT !.leaked = @ \/ made] /\ cont' = cont
  <2>1. world' \in World
    BY <1>3, <1>6 DEF World
  <2>2. RestTypes'
    BY <1>0, <1>3, <1>6, <2>1 DEF RestTypes
  <2> QED
    BY <1>0, <1>3, <1>5, <1>6, <2>2, StopInv
<1>7. CASE /\ pc' = "attach" /\ cont' = [NoContainer EXCEPT !.state = "created"]
           /\ s' = s /\ answer' = answer /\ world' = world
  <2>1. cont' \in Container
    BY <1>7 DEF NoContainer, Container
  <2>2. RestTypes'
    BY <1>0, <1>3, <1>7, <2>1, RestKept
  <2> QED
    BY <1>0, <1>2, <1>7, <2>2, MoveInv DEF Closed, NoContainerPCs
<1> QED
  BY <1>1, <1>6, <1>7

\* Attaching to the container keeps the invariant.
LEMMA AttachContainerInv == ASSUME ExecuteIInv, AttachContainer PROVE ExecuteIInv'
<1>0. pc = "attach" /\ UNCHANGED <<att, run, cont, work, ctx, bundle, world>>
  BY DEF AttachContainer
<1>1. s' = s /\ answer' = answer /\ (pc' = "cleanup" \/ pc' = "start")
  BY DEF AttachContainer, StopAfterCleanup
<1>2. pc \in Writing /\ "start" \in Writing /\ Between(pc, "start")
  BY <1>0 DEF Writing, AttemptPCs, Between, Fresh, Closed
<1>3. bundle = NoBundle /\ RestTypes /\ cont \in Container
  BY <1>2, WhileWriting DEF RestTypes
<1>4. RestTypes'
  BY <1>0, <1>3, RestKept
<1>6. CASE pc' = "cleanup"
  BY <1>0, <1>1, <1>3, <1>4, <1>6, ToCleanupInv
<1>7. CASE pc' = "start"
  BY <1>0, <1>1, <1>2, <1>4, <1>7, MoveInv DEF Closed, NoContainerPCs
<1> QED
  BY <1>1, <1>6, <1>7

\* Starting the container keeps the invariant.
LEMMA StartContainerInv == ASSUME ExecuteIInv, StartContainer PROVE ExecuteIInv'
<1>0. pc = "start" /\ UNCHANGED <<att, run, work, ctx, bundle, world>>
  BY DEF StartContainer
<1>1. /\ s' = s /\ answer' = answer
      /\ \/ pc' = "cleanup" /\ cont' = cont
         \/ pc' = "warn" /\ cont' = [cont EXCEPT !.state = "running", !.open = TRUE]
  BY DEF StartContainer, StopAfterCleanup
<1>2. pc \in Writing /\ "warn" \in Writing /\ Between(pc, "warn")
  BY <1>0 DEF Writing, AttemptPCs, Between, Fresh, Closed, EmitCalls
<1>3. bundle = NoBundle /\ RestTypes /\ cont \in Container
  BY <1>2, WhileWriting DEF RestTypes
<1>5. cont' \in Container
  BY <1>1, <1>3 DEF Container
<1>4. RestTypes'
  BY <1>0, <1>3, <1>5, RestKept
<1>6. CASE pc' = "cleanup"
  BY <1>0, <1>1, <1>3, <1>4, <1>6, ToCleanupInv
<1>7. CASE pc' = "warn"
  BY <1>0, <1>1, <1>2, <1>4, <1>7, MoveInv DEF Closed, NoContainerPCs
<1> QED
  BY <1>1, <1>6, <1>7

\* Beginning to decode keeps the invariant.
LEMMA EnterDecodeInv == ASSUME ExecuteIInv, EnterDecode PROVE ExecuteIInv'
<1>0. pc = "output" /\ UNCHANGED <<att, run, cont, work, ctx, bundle, world>>
  BY DEF EnterDecode
<1>1. s' = s /\ answer' = answer /\ (pc' = "cleanup" \/ pc' = "decode")
  BY DEF EnterDecode, StopAfterCleanup
<1>2. pc \in Writing /\ "decode" \in Writing /\ Between(pc, "decode")
  BY <1>0 DEF Writing, AttemptPCs, Between, Fresh, Closed
<1>3. bundle = NoBundle /\ RestTypes /\ cont \in Container
  BY <1>2, WhileWriting DEF RestTypes
<1>4. RestTypes'
  BY <1>0, <1>3, RestKept
<1>6. CASE pc' = "cleanup"
  BY <1>0, <1>1, <1>3, <1>4, <1>6, ToCleanupInv
<1>7. CASE pc' = "decode"
  BY <1>0, <1>1, <1>2, <1>4, <1>7, MoveInv DEF Closed, NoContainerPCs
<1> QED
  BY <1>1, <1>6, <1>7

\* The end of the stream keeps the invariant.
LEMMA EndOfStreamInv == ASSUME ExecuteIInv, EndOfStream PROVE ExecuteIInv'
<1>0. pc = "decode" /\ UNCHANGED <<att, run, cont, work, ctx, bundle, world>>
  BY DEF EndOfStream
<1>1. s' = s /\ answer' = answer /\ (pc' = "cleanup" \/ pc' = "wait")
  BY DEF EndOfStream, StopAfterCleanup
<1>2. pc \in Writing /\ "wait" \in Writing /\ Between(pc, "wait")
  BY <1>0 DEF Writing, AttemptPCs, Between, Fresh, Closed
<1>3. bundle = NoBundle /\ RestTypes /\ cont \in Container
  BY <1>2, WhileWriting DEF RestTypes
<1>4. RestTypes'
  BY <1>0, <1>3, RestKept
<1>6. CASE pc' = "cleanup"
  BY <1>0, <1>1, <1>3, <1>4, <1>6, ToCleanupInv
<1>7. CASE pc' = "wait"
  BY <1>0, <1>1, <1>2, <1>4, <1>7, MoveInv DEF Closed, NoContainerPCs
<1> QED
  BY <1>1, <1>6, <1>7

\* Waiting for the container keeps the invariant, also when the deadline passes.
LEMMA WaitContainerInv == ASSUME ExecuteIInv, WaitContainer PROVE ExecuteIInv'
<1>0. pc = "wait" /\ UNCHANGED <<att, run, cont, work, ctx, bundle, world>>
  BY DEF WaitContainer
<1>1. s' = s /\ answer' = answer /\ (pc' = "cleanup" \/ pc' = "inspect")
  BY DEF WaitContainer, StopAfterCleanup
<1>2. pc \in Writing /\ "inspect" \in Writing /\ Between(pc, "inspect")
  BY <1>0 DEF Writing, AttemptPCs, Between, Fresh, Closed
<1>3. bundle = NoBundle /\ RestTypes /\ cont \in Container
  BY <1>2, WhileWriting DEF RestTypes
<1>4. RestTypes'
  BY <1>0, <1>3, RestKept
<1>6. CASE pc' = "cleanup"
  BY <1>0, <1>1, <1>3, <1>4, <1>6, ToCleanupInv
<1>7. CASE pc' = "inspect"
  BY <1>0, <1>1, <1>2, <1>4, <1>7, MoveInv DEF Closed, NoContainerPCs
<1> QED
  BY <1>1, <1>6, <1>7

\* The kill fails after a stop that worked, and the run ends with a failed cleanup; after a
\* stop that failed it ends with the error of the stop when everything else works.
LEMMA WaitExpiresInv == ASSUME ExecuteIInv, WaitExpires PROVE ExecuteIInv'
<1>0. pc = "wait" /\ UNCHANGED <<att, work, ctx, bundle, world>>
  BY DEF WaitExpires
<1>2. pc \in Writing
  BY <1>0 DEF Writing, AttemptPCs
<1>3. bundle = NoBundle /\ RestTypes /\ cont \in Container
  BY <1>2, WhileWriting DEF RestTypes
<1>4. PICK stopFails \in MayFail, f \in MayFail, ended \in BOOLEAN :
        LET left == IF ended THEN [cont EXCEPT !.state = "exited"] ELSE cont
        IN  /\ Counts(stopFails \/ f)
            /\ stopFails \/ ended
            /\ cont' = [left EXCEPT !.state = IF f THEN @ ELSE "removed", !.open = FALSE]
            /\ IF f \/ stopFails \/ ~KillWorks(left)
               THEN /\ Stop(IF f \/ ~KillWorks(left) THEN "cleanup-failed" ELSE "failed")
                    /\ UNCHANGED run
               ELSE /\ run' = [run EXCEPT !.this.status = "timed_out", !.this.exit = 137]
                    /\ pc' = "after" /\ UNCHANGED <<s, answer>>
  BY Zenon DEF WaitExpires
<1>5. cont' \in Container
  BY <1>3, <1>4 DEF Container
<1>6. run' = run /\ \/ Stop("cleanup-failed")
                    \/ Stop("failed") /\ cont'.state = "removed"
  BY <1>3, <1>4 DEF KillWorks, Container
<1>7. RestTypes'
  BY <1>0, <1>3, <1>5, <1>6, RestKept
<1>8. CASE Stop("cleanup-failed")
  BY <1>0, <1>3, <1>7, <1>8, StopInv
<1>9. CASE Stop("failed") /\ cont'.state = "removed"
  BY <1>0, <1>3, <1>7, <1>9, StopInv
<1> QED
  BY <1>6, <1>8, <1>9

\* Cleaning up after a failure keeps the invariant.
LEMMA CleanUpInv == ASSUME ExecuteIInv, CleanUp PROVE ExecuteIInv'
<1>0. pc = "cleanup" /\ UNCHANGED <<att, run, work, ctx, bundle, world>>
  BY DEF CleanUp
<1>1. PICK f \in MayFail :
        RemovedUnless(f) /\ Stop(IF CleanupOk(TRUE, f) THEN "failed" ELSE "cleanup-failed")
  BY DEF CleanUp
<1>2. RestTypes /\ cont \in Container /\ bundle = NoBundle
  BY <1>0 DEF ExecuteIInv, ExecTypes, RestTypes, PublishedInv
<1>3. cont' \in Container
  BY <1>1, <1>2 DEF RemovedUnless, Container
<1>4. RestTypes'
  BY <1>0, <1>2, <1>3, RestKept
<1>5. CASE CleanupOk(TRUE, f)
  <2>1. Stop("failed") /\ cont'.state = "removed"
    BY <1>1, <1>2, <1>5 DEF CleanupOk, RemovedUnless, Container
  <2> QED
    BY <1>0, <1>2, <1>4, <2>1, StopInv
<1>6. CASE ~CleanupOk(TRUE, f)
  BY <1>0, <1>1, <1>2, <1>4, <1>6, StopInv
<1> QED
  BY <1>5, <1>6

\* Removing the container keeps the invariant, also when it fails.
LEMMA RemoveContainerInv == ASSUME ExecuteIInv, RemoveContainer PROVE ExecuteIInv'
<1>0. pc = "remove" /\ UNCHANGED <<att, run, work, ctx, bundle, world>>
  BY DEF RemoveContainer
<1>1. PICK f \in MayFail :
        /\ RemovedUnless(f)
        /\ IF ~CleanupOk(FALSE, f) THEN Stop("cleanup-failed")
           ELSE IF ~OutcomeCoherent(run.this) THEN Stop("failed")
           ELSE pc' = "after" /\ UNCHANGED <<s, answer>>
  BY DEF RemoveContainer
<1>2. pc \in Writing /\ "after" \in Writing /\ Between(pc, "after")
  BY <1>0 DEF Writing, AttemptPCs, Between, Fresh, Closed
<1>3. bundle = NoBundle /\ RestTypes /\ cont \in Container
  BY <1>2, WhileWriting DEF RestTypes
<1>4. cont' \in Container /\ (CleanupOk(FALSE, f) => cont'.state = "removed")
  BY <1>1, <1>3 DEF RemovedUnless, Container, CleanupOk
<1>5. RestTypes'
  BY <1>0, <1>3, <1>4, RestKept
<1>6. CASE ~CleanupOk(FALSE, f)
  BY <1>0, <1>1, <1>3, <1>5, <1>6, StopInv
<1>7. CASE CleanupOk(FALSE, f) /\ ~OutcomeCoherent(run.this)
  BY <1>0, <1>1, <1>3, <1>4, <1>5, <1>7, StopInv
<1>8. CASE CleanupOk(FALSE, f) /\ OutcomeCoherent(run.this)
  BY <1>0, <1>1, <1>2, <1>4, <1>5, <1>8, MoveInv
<1> QED
  BY <1>6, <1>7, <1>8

-----------------------------------------------------------------------------
(* Progress under the session's operations.                                *)

\* The events and logs of the other attempts are the same.
OthersSame(t, u, a) ==
  \A b \in Attempts : b # a =>
    /\ u.events[b] = t.events[b]
    /\ \A st \in Streams : u.log[b][st].file = t.log[b][st].file

\* What a step to the call d does to the attempt, the session and the run.
Follows(d, a, t, u, r, q) ==
  /\ OthersSame(t, u, a) /\ q.results = r.results
  /\ CurrentAttempt(d, a, u, q.this) /\ u.next = q.seq

\* A step that follows the attempt keeps the progress.
LEMMA ProgressFrom ==
  ASSUME NEW c, c # "commit", NEW d, d # "commit", NEW a \in Attempts, NEW t, NEW u,
         NEW r, NEW q, Progress(c, a, t, r), Follows(d, a, t, u, r, q)
  PROVE  Progress(d, a, u, q)
<1>0. /\ OthersSame(t, u, a) /\ q.results = r.results
      /\ CurrentAttempt(d, a, u, q.this) /\ u.next = q.seq
  BY DEF Follows
<1>1. Len(r.results) = a - 1 /\ a \in Int
  BY DEF Progress, Attempts
<1>2. ASSUME NEW b \in 1..Len(r.results) PROVE Finished(u, b, r.results[b])
  <2>1. b \in Attempts /\ b # a
    BY <1>1, EvidenceAssumption DEF Attempts
  <2>2. Finished(t, b, r.results[b])
    BY DEF Progress
  <2>3. /\ u.events[b] = t.events[b]
        /\ \A st \in Streams : u.log[b][st].file = t.log[b][st].file
    BY <1>0, <2>1 DEF OthersSame
  <2>4. \A st \in Streams : u.log[b][st].file = "closed"
    BY <2>2, <2>3 DEF Finished
  <2>5. RangeMatches(u, b, r.results[b])
    BY <2>2, <2>3 DEF Finished, RangeMatches
  <2> QED
    BY <2>2, <2>3, <2>4, <2>5 DEF Finished
<1>3. ASSUME NEW b \in Attempts, b > a PROVE Untouched(u, b)
  <2>1. b # a
    BY <1>1, <1>3
  <2>2. Untouched(t, b)
    BY <1>3 DEF Progress
  <2>3. /\ u.events[b] = t.events[b]
        /\ \A st \in Streams : u.log[b][st].file = t.log[b][st].file
    BY <1>0, <2>1 DEF OthersSame
  <2> QED
    BY <2>2, <2>3 DEF Untouched
<1> QED
  BY <1>0, <1>1, <1>2, <1>3 DEF Progress

\* The types of the fields of a run.
LEMMA RunFields ==
  ASSUME NEW r \in RunState
  PROVE  /\ r.seq \in Nat /\ r.frames \in Nat /\ r.results \in Seq(Result)
         /\ r.incomplete \in BOOLEAN /\ r.this \in ThisAttempt
         /\ r.this.count \in Nat /\ r.this.first \in Nat /\ r.this.last \in Nat
         /\ r.this.truncated \in SUBSET (Streams \cup {"output"})
BY DEF RunState, ThisAttempt

\* The session's current attempt is the executor's or, before its first event, the one
\* before.
LEMMA CurrentIs ==
  ASSUME NEW c, c # "commit", NEW a \in Attempts, NEW t, IsSession(t), NEW r \in RunState,
         Numbered(t), Progress(c, a, t, r)
  PROVE  MayEmit(t, a)
<1>1. Len(r.results) = a - 1 /\ a \in Nat /\ a >= 1 /\ a <= N /\ N \in Nat
  BY EvidenceAssumption DEF Progress, Attempts
<1>2. t.current \in Attempts /\ t.current \in Nat /\ t.current >= 1
  BY SessionFields DEF Attempts
<1>3. ~(t.current > a)
  <2>1. SUFFICES ASSUME t.current > a PROVE FALSE
    OBVIOUS
  <2>2. t.events[t.current] # <<>>
    BY <1>1, <1>2, <2>1 DEF Numbered
  <2> QED
    BY <1>2, <2>1, <2>2 DEF Progress, Untouched
<1>4. CASE t.current < a
  <2>1. a - 1 \in Attempts /\ a - 1 \in 1..Len(r.results)
    BY <1>1, <1>2, <1>4 DEF Attempts
  <2>2. t.events[a - 1] # <<>>
    BY <2>1 DEF Progress, Finished
  <2>3. ~(a - 1 > t.current)
    BY <2>1, <2>2 DEF Numbered
  <2>4. a = t.current + 1 /\ a - 1 = t.current
    BY <1>1, <1>2, <1>4, <2>3
  <2> QED
    BY <2>2, <2>4 DEF MayEmit
<1> QED
  BY <1>1, <1>2, <1>3, <1>4 DEF MayEmit

\* The counters of an attempt, and the attempt of a run, replaced.
WithCounters(h, i, j, k) == [h EXCEPT !.count = i, !.last = j, !.first = k]
WithThis(r, i, g) == [r EXCEPT !.seq = i, !.this = g]

CountersAre(h, g, i, j, k) ==
  /\ g \in ThisAttempt /\ g.count = i /\ g.last = j /\ g.first = k
  /\ g.truncated = h.truncated /\ g.status = h.status /\ g.exit = h.exit
ThisIs(r, q, i, g) ==
  /\ q \in RunState /\ q.seq = i /\ q.this = g /\ q.results = r.results
  /\ q.frames = r.frames /\ q.incomplete = r.incomplete

\* An attempt's counters, field by field.
LEMMA ThisUpdate ==
  ASSUME NEW h \in ThisAttempt, NEW i \in Nat, NEW j \in Nat, NEW k \in Nat
  PROVE  CountersAre(h, WithCounters(h, i, j, k), i, j, k)
BY DEF ThisAttempt, WithCounters, CountersAre

\* A run's attempt, field by field.
LEMMA RunUpdate ==
  ASSUME NEW r \in RunState, NEW i \in Nat, NEW g \in ThisAttempt
  PROVE  ThisIs(r, WithThis(r, i, g), i, g)
BY DEF RunState, WithThis, ThisIs

\* The run with an event more, field by field.
LEMMA CountedFields ==
  ASSUME NEW r \in RunState, NEW q, q = Counted(r)
  PROVE  /\ q \in RunState /\ q.seq = r.seq + 1 /\ q.results = r.results /\ q.frames = r.frames
         /\ q.incomplete = r.incomplete
         /\ q.this.count = r.this.count + 1 /\ q.this.last = r.seq + 1
         /\ q.this.first = IF r.this.first = 0 THEN r.seq + 1 ELSE r.this.first
         /\ q.this.truncated = r.this.truncated
         /\ q.this.status = r.this.status /\ q.this.exit = r.this.exit
<1>1. /\ r.seq \in Nat /\ r.this \in ThisAttempt
      /\ r.this.count \in Nat /\ r.this.first \in Nat /\ r.this.last \in Nat
  BY RunFields
<1>2. PICK k \in Nat : k = IF r.this.first = 0 THEN r.seq + 1 ELSE r.this.first
  BY <1>1
<1>3. PICK i \in Nat : i = r.this.count + 1
  BY <1>1
<1>4. PICK j \in Nat : j = r.seq + 1
  BY <1>1
<1>9. PICK h \in ThisAttempt : h = r.this
  BY <1>1
<1>5. PICK g : g = WithCounters(h, i, j, k)
  OBVIOUS
<1>6. CountersAre(h, g, i, j, k)
  BY <1>5, ThisUpdate
<1>10. g \in ThisAttempt
  BY <1>6 DEF CountersAre
<1>7. q = WithThis(r, j, g)
  <2>1. q = [r EXCEPT !.seq = @ + 1, !.this.count = @ + 1, !.this.last = r.seq + 1,
                      !.this.first = IF @ = 0 THEN r.seq + 1 ELSE @]
    BY DEF Counted
  <2>2. q = [r EXCEPT !.seq = j, !.this.count = i, !.this.last = j, !.this.first = k]
    BY <1>2, <1>3, <1>4, <2>1 DEF RunState, ThisAttempt
  <2> QED
    BY <1>5, <1>9, <2>2 DEF RunState, ThisAttempt, WithThis, WithCounters
<1>8. ThisIs(r, q, j, g)
  BY <1>7, <1>10, RunUpdate
<1> QED
  BY <1>2, <1>3, <1>4, <1>6, <1>8, <1>9 DEF ThisIs, CountersAre

\* One event more, and the counters say so.
LEMMA CountedRange ==
  ASSUME NEW t, IsSession(t), Numbered(t), NEW a \in Attempts, NEW r \in RunState,
         RangeMatches(t, a, r.this), NEW kind \in EventKinds, NEW u, IsSession(u),
         EventAdded(t, u, a, [n |-> r.seq + 1, kind |-> kind]), NEW q, q = Counted(r)
  PROVE  RangeMatches(u, a, q.this)
<1>1. t.events[a] \in Seq(Event)
  BY SessionFields
<1>2. /\ r.this.first = FirstSeq(t.events[a]) /\ r.this.count = Len(t.events[a])
  BY DEF RangeMatches
<1>3. PICK e : e = [n |-> r.seq + 1, kind |-> kind]
  OBVIOUS
<1>4. e \in Event /\ e.n = r.seq + 1
  BY <1>3, RunFields DEF Event
<1>5. /\ u.events[a] = Append(t.events[a], e)
  BY <1>3 DEF EventAdded
<1>6. /\ q.this.count = r.this.count + 1 /\ q.this.last = r.seq + 1
      /\ q.this.first = IF r.this.first = 0 THEN r.seq + 1 ELSE r.this.first
  BY CountedFields
<1>7. /\ u.events[a] # <<>> /\ Len(u.events[a]) = Len(t.events[a]) + 1
      /\ u.events[a][Len(u.events[a])] = e
  BY <1>1, <1>4, <1>5
<1>8. LastSeq(u.events[a]) = r.seq + 1
  BY <1>4, <1>7 DEF LastSeq
<1>9. FirstSeq(u.events[a]) = IF r.this.first = 0 THEN r.seq + 1 ELSE r.this.first
  <2>1. CASE t.events[a] = <<>>
    <3>1. r.this.first = 0 /\ u.events[a][1] = e
      BY <1>1, <1>2, <1>4, <1>5, <2>1 DEF FirstSeq
    <3> QED
      BY <1>4, <1>7, <3>1 DEF FirstSeq
  <2>2. CASE t.events[a] # <<>>
    <3>1. 1 \in 1..Len(t.events[a]) /\ u.events[a][1] = t.events[a][1]
      BY <1>1, <1>4, <1>5, <2>2
    <3>2. t.events[a][1].n = Prior(t, a) + 1
      BY <3>1 DEF Numbered
    <3>3. Prior(t, a) \in Nat
      <4>1. CASE a = 1
        BY <4>1 DEF Prior
      <4>2. CASE a # 1
        <5>1. a - 1 \in Attempts
          BY <4>2, EvidenceAssumption DEF Attempts
        <5>2. t.events[a - 1] \in Seq(Event)
          BY <5>1, SessionFields
        <5> QED
          BY <4>2, <5>2, LastIsNat DEF Prior
      <4> QED
        BY <4>1, <4>2
    <3>4. r.this.first = t.events[a][1].n /\ r.this.first # 0
      BY <1>2, <2>2, <3>2, <3>3 DEF FirstSeq
    <3> QED
      BY <1>7, <3>1, <3>4 DEF FirstSeq
  <2> QED
    BY <2>1, <2>2
<1> QED
  BY <1>2, <1>6, <1>7, <1>8, <1>9 DEF RangeMatches

\* The calls between which an event of this kind is emitted.
Emits(c, d, kind) ==
  /\ c \notin Fresh \cup {"commit"} /\ d \notin Fresh \cup {"commit", "started"}
  /\ c \in Closed <=> d \in Closed
  /\ c = "started" => kind = "scenario_started"
  /\ d = "ended" => kind = "scenario_completed"
  /\ d \in Closed \cup {"after"} => c \in Closed \cup {"after"}

\* The run's next event is written.
EmitsNext(t, u, a, r, kind) ==
  u.state = "active" /\ \E f \in BOOLEAN : u = Emit(t, a, r.seq + 1, kind, FALSE, f)

\* An event of the run keeps the order: number, range and kind are the ones expected.
LEMMA EmitInOrder ==
  ASSUME NEW c, NEW d, NEW kind \in EventKinds, Emits(c, d, kind), NEW a \in Attempts, NEW t,
         NEW r \in RunState, NEW lost, InOrder(c, a, t, r, lost),
         NEW u, EmitsNext(t, u, a, r, kind), NEW q, q = Counted(r)
  PROVE  InOrder(d, a, u, q, lost)
<1>emit. PICK f \in BOOLEAN : u = Emit(t, a, r.seq + 1, kind, FALSE, f)
  BY DEF EmitsNext
<1>active. u.state = "active"
  BY DEF EmitsNext
<1>1. /\ IsSession(t) /\ t.state = "active" /\ SessionInv(t) /\ Progress(c, a, t, r)
      /\ NothingLostYet(c, t, r, lost) /\ TotalLogBytes(t) <= MaxTotalLogBytes /\ Numbered(t)
  BY DEF InOrder, SessionInv
<1>2. c # "commit" /\ d # "commit"
  BY DEF Emits
<1>3. MayEmit(t, a)
  BY <1>1, <1>2, CurrentIs
<1>4. PICK n \in Nat : n = r.seq + 1
  BY RunFields
<1>0. PICK dead \in BOOLEAN : dead = FALSE
  OBVIOUS
<1>5. u = Emit(t, a, n, kind, dead, f)
  BY <1>emit, <1>0, <1>4
<1>6. /\ IsSession(u) /\ SessionInv(u) /\ u.next = n /\ u.log = t.log
      /\ u.incomplete = t.incomplete
      /\ EventAdded(t, u, a, [n |-> n, kind |-> kind])
  <2>1. IsSession(u) /\ SessionInv(u) /\ EmitDone(t, u, a, n, kind)
    BY <1>active, <1>1, <1>3, <1>5, EmitInv
  <2> QED
    BY <2>1 DEF EmitDone
<1>7. CurrentAttempt(c, a, t, r.this)
  BY <1>1, <1>2 DEF Progress
<1>8. RangeMatches(u, a, q.this)
  <2>1. RangeMatches(t, a, r.this)
    BY <1>7 DEF CurrentAttempt
  <2>2. EventAdded(t, u, a, [n |-> r.seq + 1, kind |-> kind])
    BY <1>4, <1>6
  <2> QED
    BY <1>1, <1>6, <2>1, <2>2, CountedRange
<1>9. PICK e : e = [n |-> n, kind |-> kind]
  OBVIOUS
<1>10. e.kind = kind /\ e \in Event
  BY <1>9 DEF Event
<1>11. u.events[a] = Append(t.events[a], e) /\ \A b \in Attempts : b # a => u.events[b] = t.events[b]
  BY <1>6, <1>9 DEF EventAdded
<1>12. t.events[a] \in Seq(Event)
  BY <1>1, SessionFields
<1>13. /\ u.events[a] # <<>> /\ u.events[a][Len(u.events[a])] = e
       /\ t.events[a] = <<>> => u.events[a][1] = e
       /\ t.events[a] # <<>> => u.events[a][1] = t.events[a][1]
  <2>1. PICK z \in Seq(Event) : z = t.events[a]
    BY <1>12
  <2>2. PICK y : y = Append(z, e)
    OBVIOUS
  <2>3. /\ y # <<>> /\ y[Len(y)] = e /\ (z = <<>> => y[1] = e) /\ (z # <<>> => y[1] = z[1])
    BY <1>10, <2>2
  <2> QED
    BY <1>11, <2>1, <2>2, <2>3
<1>14. u.events[a][1].kind = "scenario_started"
  <2>1. CASE t.events[a] = <<>>
    <3>1. c = "started"
      BY <1>7, <2>1 DEF CurrentAttempt, Emits
    <3> QED
      BY <1>10, <1>13, <2>1, <3>1 DEF Emits
  <2>2. CASE t.events[a] # <<>>
    BY <1>7, <1>13, <2>2 DEF CurrentAttempt
  <2> QED
    BY <2>1, <2>2
<1>15. d = "ended" => u.events[a][Len(u.events[a])].kind = "scenario_completed"
  BY <1>10, <1>13 DEF Emits
<1>16. \A st \in Streams : u.log[a][st].file =
         IF d \in Fresh THEN "none" ELSE IF d \in Closed THEN "closed" ELSE "open"
  <2>1. \A st \in Streams : t.log[a][st].file =
          IF c \in Fresh THEN "none" ELSE IF c \in Closed THEN "closed" ELSE "open"
    BY <1>7 DEF CurrentAttempt
  <2> QED
    BY <1>6, <2>1 DEF Emits
<1>17. /\ q \in RunState /\ q.seq = r.seq + 1 /\ q.results = r.results
       /\ q.incomplete = r.incomplete /\ q.this.truncated = r.this.truncated
       /\ q.this.status = r.this.status /\ q.this.exit = r.this.exit
  BY CountedFields
<1>18. d \in Closed \cup {"after"} => OutcomeCoherent(q.this)
  BY <1>7, <1>17 DEF CurrentAttempt, Emits, OutcomeCoherent
<1>19. CurrentAttempt(d, a, u, q.this)
  <2>1. u.events[a] = <<>> <=> d \in Fresh \cup {"started"}
    BY <1>13 DEF Emits
  <2> QED
    BY <1>8, <1>14, <1>15, <1>16, <1>18, <2>1 DEF CurrentAttempt
<1>20. OthersSame(t, u, a)
  BY <1>6, <1>11 DEF OthersSame
<1>21. u.next = q.seq
  BY <1>4, <1>6, <1>17
<1>22. Progress(d, a, u, q)
  <2>1. Follows(d, a, t, u, r, q)
    BY <1>17, <1>19, <1>20, <1>21 DEF Follows
  <2>2. a \in Attempts
    OBVIOUS
  <2> QED
    BY ONLY <1>1, <1>2, <2>1, <2>2, ProgressFrom
<1>23. NothingLostYet(d, u, q, lost)
  BY <1>1, <1>2, <1>6, <1>17 DEF NothingLostYet, Emits
<1>24. TotalLogBytes(u) <= MaxTotalLogBytes
  BY <1>1, <1>6, TotalLogBytesSame
<1> QED
  BY <1>active, <1>6, <1>22, <1>23, <1>24 DEF InOrder

\* The sink passes an event on, or fails.
LEMMA SinkEmits ==
  ASSUME NEW t, NEW kind, NEW f, NEW u, u = SinkEmit(t, kind, f), u.state = "active", IsSession(t)
  PROVE  u = Emit(t, att, run.seq + 1, kind, FALSE, f) /\ ~Dead
<1>1. [t EXCEPT !.state = "failed"].state = "failed"
  BY DEF IsSession
<1> QED
  BY <1>1 DEF SinkEmit

\* The sink, whatever its outcome.
LEMMA SinkTyped ==
  ASSUME NEW t, NEW kind \in EventKinds, NEW f \in BOOLEAN, NEW u, u = SinkEmit(t, kind, f),
         IsSession(t), RestTypes
  PROVE  IsSession(u) /\ u.log = t.log /\ StateAfter(t, u)
<1>1. CASE Dead \/ run.this.count >= MaxRunnerEvents
  <2>1. u = Fail(t)
    BY <1>1 DEF SinkEmit, Fail
  <2>2. IsSession(u)
    BY <2>1, FailIsSession
  <2>3. u.log = t.log /\ StateAfter(t, u)
    BY <2>1 DEF Fail, IsSession, StateAfter
  <2> QED
    BY <2>2, <2>3
<1>2. CASE ~(Dead \/ run.this.count >= MaxRunnerEvents)
  <2>1. att \in Attempts /\ run \in RunState
    BY DEF RestTypes
  <2>6. PICK a0 : a0 = att
    OBVIOUS
  <2>2. PICK n \in Nat : n = run.seq + 1
    BY <2>1, RunFields
  <2>0. PICK dead \in BOOLEAN : dead = FALSE
    OBVIOUS
  <2>3. u = Emit(t, a0, n, kind, dead, f)
    BY <1>2, <2>0, <2>2, <2>6 DEF SinkEmit
  <2>4. a0 \in Attempts
    BY <2>1, <2>6
  <2>5. IsSession(u) /\ u.log = t.log /\ StateAfter(t, u)
    BY <2>3, <2>4, EmitTyped
  <2> QED
    BY <2>5
<1> QED
  BY <1>1, <1>2

-----------------------------------------------------------------------------
(* The steps that open, write and close the logs.                          *)

\* The logs of attempt a at the call d.
FilesAt(d, a, u) ==
  \A st \in Streams : u.log[a][st].file =
    IF d \in Fresh THEN "none" ELSE IF d \in Closed THEN "closed" ELSE "open"

OtherLogs(t, u, a) ==
  \A b \in Attempts : b # a => \A st \in Streams : u.log[b][st].file = t.log[b][st].file

\* The counters of the attempt are the same; its outcome is.
SameCounts(r, q) ==
  /\ q.results = r.results /\ q.seq = r.seq
  /\ q.this.first = r.this.first /\ q.this.last = r.this.last /\ q.this.count = r.this.count
SameOutcome(r, q) == q.this.status = r.this.status /\ q.this.exit = r.this.exit

\* Calls between which no event is emitted.
Silent(c, d) ==
  /\ c # "commit" /\ d \notin {"commit", "ended"}
  /\ c \in Fresh \cup {"started"} <=> d \in Fresh \cup {"started"}
  /\ d \in Closed \cup {"after"} => c \in Closed \cup {"after"}

\* A step without an event keeps the order when logs and outcome are the ones expected.
LEMMA SilentInOrder ==
  ASSUME NEW c, NEW d, Silent(c, d), NEW a \in Attempts, NEW t, NEW u, NEW r, NEW q,
         Progress(c, a, t, r), IsSession(u), u.state = "active", SessionInv(u),
         u.next = t.next, u.events = t.events, OtherLogs(t, u, a), FilesAt(d, a, u),
         SameCounts(r, q), d \in Closed \cup {"after"} => SameOutcome(r, q), NEW lost, NothingLostYet(d, u, q, lost),
         TotalLogBytes(u) <= MaxTotalLogBytes
  PROVE  InOrder(d, a, u, q, lost)
<1>1. CurrentAttempt(c, a, t, r.this)
  BY DEF Progress, Silent
<1>2. OthersSame(t, u, a)
  BY DEF OtherLogs, OthersSame
<1>3. CurrentAttempt(d, a, u, q.this)
  <2>1. RangeMatches(u, a, q.this)
    BY <1>1 DEF CurrentAttempt, RangeMatches, SameCounts
  <2>2. /\ u.events[a] = <<>> <=> d \in Fresh \cup {"started"}
        /\ u.events[a] # <<>> => u.events[a][1].kind = "scenario_started"
    BY <1>1 DEF CurrentAttempt, Silent
  <2>3. d \in Closed \cup {"after"} => OutcomeCoherent(q.this)
    BY <1>1 DEF CurrentAttempt, OutcomeCoherent, SameOutcome, Silent
  <2> QED
    BY <2>1, <2>2, <2>3 DEF CurrentAttempt, FilesAt, Silent
<1>4. Follows(d, a, t, u, r, q)
  BY <1>2, <1>3 DEF Follows, SameCounts, Progress
<1>5. c # "commit" /\ d # "commit" /\ Progress(c, a, t, r) /\ a \in Attempts
  BY DEF Silent
<1>6. Progress(d, a, u, q)
  BY ONLY <1>4, <1>5, ProgressFrom
<1> QED
  BY <1>6 DEF InOrder

\* What one log operation does to the other logs.
OneLog(t, r, a, st, file) ==
  /\ r.log[a][st].file = file
  /\ \A b \in Attempts, su \in Streams : b # a \/ su # st => r.log[b][su] = t.log[b][su]
LogStep(t, r) ==
  /\ IsSession(r) /\ SessionInv(r) /\ r.next = t.next /\ r.events = t.events
  /\ TotalLogBytes(r) = TotalLogBytes(t) /\ (t.incomplete => r.incomplete)

\* OpenLog as a step of the attempt.
LEMMA OpenLogStep ==
  ASSUME NEW t, IsSession(t), SessionInv(t), NEW a \in Attempts, NEW st \in Streams,
         NEW dead \in BOOLEAN, NEW f \in BOOLEAN, NEW r, r = OpenLog(t, a, st, dead, f),
         r.state = "active"
  PROVE  LogStep(t, r) /\ OneLog(t, r, a, st, "open")
BY OpenLogInv DEF LogStep, OneLog, SameEvents

\* LogCapture.Close as a step of the attempt.
LEMMA CloseLogStep ==
  ASSUME NEW t, IsSession(t), SessionInv(t), NEW a \in Attempts, NEW st \in Streams,
         NEW f \in BOOLEAN, NEW r, r = CloseLog(t, a, st, f), t.log[a][st].file = "open",
         r.state = "active"
  PROVE  LogStep(t, r) /\ OneLog(t, r, a, st, "closed")
BY CloseLogInv DEF LogStep, OneLog, SameEvents

\* Both logs of attempt a, one after the other.
LEMMA BothLogs ==
  ASSUME NEW t, NEW v, NEW r, NEW a, NEW file, LogStep(t, v), LogStep(v, r),
         OneLog(t, v, a, "stdout", file), OneLog(v, r, a, "stderr", file), a \in Attempts
  PROVE  /\ LogStep(t, r) /\ OtherLogs(t, r, a)
         /\ \A st \in Streams : r.log[a][st].file = file
<1>1. LogStep(t, r)
  BY DEF LogStep
<1>2. OtherLogs(t, r, a)
  BY DEF OneLog, OtherLogs
<1>3. \A st \in Streams : r.log[a][st].file = file
  BY DEF OneLog, Streams
<1> QED
  BY <1>1, <1>2, <1>3

\* Opening the logs of an attempt keeps the invariant.
LEMMA BeforeAttemptInv == ASSUME ExecuteIInv, BeforeAttempt PROVE ExecuteIInv'
<1>0. pc = "before" /\ UNCHANGED <<att, run, cont, work, ctx, bundle, world>>
  BY DEF BeforeAttempt
<1>1. PICK f \in MayFail :
        LET opened == OpenLog(OpenLog(s, att, "stdout", Dead, f), att, "stderr", Dead, FALSE)
        IN  IF opened.state # "active" THEN Stop("failed")
            ELSE pc' = "started" /\ s' = opened /\ UNCHANGED answer
  BY DEF BeforeAttempt
<1>2. pc \in Writing /\ "started" \in Writing /\ Silent(pc, "started")
  BY <1>0 DEF Writing, AttemptPCs, EmitCalls, Silent, Fresh, Closed
<1>3. bundle = NoBundle /\ RestTypes /\ cont \in Container /\ att \in Attempts
  BY <1>2, WhileWriting DEF RestTypes
<1>4. IsSession(s) /\ s.state = "active" /\ InOrder(pc, att, s, run, world.lost)
  BY <1>0, <1>2, WhileWriting
<1>5. RestTypes'
  BY <1>0, <1>3, RestKept
<1>6. cont'.state \in {"none", "removed"}
  BY <1>0 DEF ExecuteIInv, ContainerInv, NoContainerPCs
<1>7. PICK dead \in BOOLEAN : dead = Dead
  BY DEF Dead
<1>8. PICK v : v = OpenLog(s, att, "stdout", dead, f)
  OBVIOUS
<1>9. PICK r : r = OpenLog(v, att, "stderr", dead, FALSE)
  OBVIOUS
<1>10. IF r.state # "active" THEN Stop("failed")
       ELSE pc' = "started" /\ s' = r /\ UNCHANGED answer
  BY <1>1, <1>7, <1>8, <1>9
<1>11. CASE r.state # "active"
  BY <1>0, <1>3, <1>5, <1>6, <1>10, <1>11, StopInv
<1>12. CASE r.state = "active"
  <2>1. v.state = "active"
    BY <1>9, <1>12 DEF OpenLog
  <2>2. SessionInv(s) /\ Progress(pc, att, s, run) /\ NothingLostYet(pc, s, run, world.lost)
        /\ TotalLogBytes(s) <= MaxTotalLogBytes
    BY <1>4 DEF InOrder
  <2>3. LogStep(s, v) /\ OneLog(s, v, att, "stdout", "open")
    <3>1. f \in BOOLEAN /\ "stdout" \in Streams
      BY MayFailIsBoolean DEF Streams
    <3>2. SessionInv(s)
      BY <2>2
    <3> QED
      BY ONLY <1>3, <1>4, <1>7, <1>8, <2>1, <3>1, <3>2, OpenLogStep
  <2>4. LogStep(v, r) /\ OneLog(v, r, att, "stderr", "open")
    <3>1. IsSession(v) /\ SessionInv(v) /\ "stderr" \in Streams /\ FALSE \in BOOLEAN
      BY <2>3 DEF LogStep, Streams
    <3> QED
      BY ONLY <1>3, <1>7, <1>9, <1>12, <3>1, OpenLogStep
  <2>5. /\ LogStep(s, r) /\ OtherLogs(s, r, att)
        /\ \A st \in Streams : r.log[att][st].file = "open"
    BY <1>3, <2>3, <2>4, BothLogs
  <2>6. FilesAt("started", att, r)
    BY <2>5 DEF FilesAt, Fresh, Closed
  <2>7. /\ IsSession(r) /\ SessionInv(r) /\ r.next = s.next /\ r.events = s.events
        /\ TotalLogBytes(r) <= MaxTotalLogBytes /\ (s.incomplete => r.incomplete)
    BY <2>2, <2>5 DEF LogStep
  <2>8. SameCounts(run, run) /\ SameOutcome(run, run)
    BY DEF SameCounts, SameOutcome
  <2>9. NothingLostYet("started", r, run, world.lost)
    BY <1>0, <2>2, <2>7 DEF NothingLostYet, Closed
  <2>10. InOrder("started", att, r, run, world.lost)
    <3>1. Progress(pc, att, s, run) /\ Silent(pc, "started") /\ OtherLogs(s, r, att)
      BY <1>2, <2>2, <2>5
    <3> QED
      BY ONLY <1>3, <1>12, <2>6, <2>7, <2>8, <2>9, <3>1, SilentInOrder
  <2>11. pc' = "started" /\ s' = r /\ answer' = answer
    BY <1>10, <1>12
  <2>12. InOrder(pc', att', s', run', world'.lost)
    BY <1>0, <2>10, <2>11
  <2> QED
    BY <1>0, <1>2, <1>3, <1>5, <1>6, <2>11, <2>12, WritingOnInv
<1> QED
  BY <1>11, <1>12

-----------------------------------------------------------------------------
(* The steps that emit an event.                                           *)

\* The calls that emit an event, and what comes next.
LEMMA EmitTable ==
  ASSUME NEW c \in DOMAIN EmitCalls, NEW d, d = EmitCalls[c].next, NEW kind, kind = EmitCalls[c].kind
  PROVE  /\ c \in Writing /\ d \in Writing /\ kind \in EventKinds /\ Emits(c, d, kind)
         /\ EmitCalls[c].container = FALSE => c \in NoContainerPCs
         /\ EmitCalls[c].container \in BOOLEAN
         /\ d \in NoContainerPCs => c \in NoContainerPCs
<1>1. c \in {"started", "warn", "pstart", "exit", "completed"}
  BY DEF EmitCalls
<1>2. CASE c = "started"
  BY <1>2 DEF EmitCalls, Emits, Writing, AttemptPCs, EventKinds, NoContainerPCs, Closed, Fresh
<1>3. CASE c = "warn"
  BY <1>3 DEF EmitCalls, Emits, Writing, AttemptPCs, EventKinds, NoContainerPCs, Closed, Fresh
<1>4. CASE c = "pstart"
  BY <1>4 DEF EmitCalls, Emits, Writing, AttemptPCs, EventKinds, NoContainerPCs, Closed, Fresh
<1>5. CASE c = "exit"
  BY <1>5 DEF EmitCalls, Emits, Writing, AttemptPCs, EventKinds, NoContainerPCs, Closed, Fresh
<1>6. CASE c = "completed"
  BY <1>6 DEF EmitCalls, Emits, Writing, AttemptPCs, EventKinds, NoContainerPCs, Closed, Fresh
<1> QED
  BY <1>1, <1>2, <1>3, <1>4, <1>5, <1>6

\* A failed session stays failed.
LEMMA SinkNeedsActive ==
  ASSUME NEW t, IsSession(t), NEW kind, NEW f, NEW u, u = SinkEmit(t, kind, f), u.state = "active"
  PROVE  t.state = "active"
<1>1. u = Emit(t, att, run.seq + 1, kind, FALSE, f)
  BY SinkEmits
<1> QED
  BY <1>1 DEF Emit

\* Emitting an event of the attempt keeps the invariant.
LEMMA EmitEventInv == ASSUME ExecuteIInv, EmitEvent PROVE ExecuteIInv'
<1>0. pc \in DOMAIN EmitCalls /\ UNCHANGED <<att, cont, work, ctx, bundle, world>>
  BY DEF EmitEvent
<1>1. PICK f \in MayFail :
        \/ /\ SinkEmit(s, EmitCalls[pc].kind, f).state = "active"
           /\ s' = SinkEmit(s, EmitCalls[pc].kind, f) /\ run' = Counted(run)
           /\ pc' = EmitCalls[pc].next /\ answer' = answer
        \/ /\ run' = run
           /\ IF EmitCalls[pc].container THEN StopAfterCleanup ELSE Stop("failed")
  BY DEF EmitEvent
<1>2. PICK c : c = pc
  OBVIOUS
<1>3. PICK d : d = EmitCalls[c].next
  OBVIOUS
<1>4. PICK kind : kind = EmitCalls[c].kind
  OBVIOUS
<1>5. c \in DOMAIN EmitCalls
  BY <1>0, <1>2
<1>6. /\ c \in Writing /\ d \in Writing /\ kind \in EventKinds /\ Emits(c, d, kind)
      /\ EmitCalls[c].container = FALSE => c \in NoContainerPCs
      /\ EmitCalls[c].container \in BOOLEAN
      /\ d \in NoContainerPCs => c \in NoContainerPCs
  BY ONLY <1>3, <1>4, <1>5, EmitTable
<1>7. bundle = NoBundle /\ RestTypes /\ cont \in Container /\ IsSession(s)
      /\ att \in Attempts /\ run \in RunState
  BY <1>2, <1>6, WhileWriting DEF RestTypes
<1>8. c \in NoContainerPCs => cont'.state \in {"none", "removed"}
  BY <1>0, <1>2 DEF ExecuteIInv, ContainerInv
<1>9. CASE /\ run' = run
           /\ IF EmitCalls[pc].container THEN StopAfterCleanup ELSE Stop("failed")
  <2>1. RestTypes'
    BY <1>0, <1>7, <1>9, RestKept
  <2>2. CASE EmitCalls[c].container = TRUE
    <3>1. StopAfterCleanup
      BY <1>2, <1>9, <2>2
    <3> QED
      BY <1>0, <1>7, <1>9, <2>1, <3>1, ToCleanupInv DEF StopAfterCleanup
  <2>3. CASE EmitCalls[c].container = FALSE
    <3>1. Stop("failed")
      BY <1>2, <1>9, <2>3
    <3> QED
      BY <1>0, <1>6, <1>7, <1>8, <2>1, <2>3, <3>1, StopInv
  <2> QED
    BY <1>6, <2>2, <2>3
<1>10. CASE /\ SinkEmit(s, EmitCalls[pc].kind, f).state = "active"
            /\ s' = SinkEmit(s, EmitCalls[pc].kind, f) /\ run' = Counted(run)
            /\ pc' = EmitCalls[pc].next /\ answer' = answer
  <2>1. PICK u : u = SinkEmit(s, kind, f)
    OBVIOUS
  <2>2. u.state = "active" /\ s' = u /\ pc' = d
    BY <1>2, <1>3, <1>4, <1>10, <2>1
  <2>3. s.state = "active"
    BY <1>7, <2>1, <2>2, SinkNeedsActive
  <2>4. InOrder(c, att, s, run, world.lost)
    BY <1>2, <1>6, <2>3, WhileWriting
  <2>5. u = Emit(s, att, run.seq + 1, kind, FALSE, f)
    BY <1>7, <2>1, <2>2, SinkEmits
  <2>6. PICK q : q = Counted(run)
    OBVIOUS
  <2>7. f \in BOOLEAN
    BY MayFailIsBoolean
  <2>8. InOrder(d, att, u, q, world.lost)
    <3>1. PICK lost : lost = world.lost
      OBVIOUS
    <3>2. PICK a \in Attempts : a = att
      BY <1>7
    <3>3. PICK r \in RunState : r = run
      BY <1>7
    <3>4. PICK t : t = s
      OBVIOUS
    <3>5. InOrder(c, a, t, r, lost) /\ EmitsNext(t, u, a, r, kind) /\ q = Counted(r)
      BY <2>2, <2>4, <2>5, <2>6, <2>7, <3>1, <3>2, <3>3, <3>4 DEF EmitsNext
    <3>6. InOrder(d, a, u, q, lost)
      BY ONLY <1>6, <2>2, <2>7, <3>2, <3>3, <3>5, EmitInOrder
    <3> QED
      BY <3>1, <3>2, <3>6
  <2>9. run' = q /\ q \in RunState
    BY <1>7, <1>10, <2>6, CountedFields
  <2>10. RestTypes'
    BY <1>0, <1>7, <2>9 DEF RestTypes
  <2>11. InOrder(pc', att', s', run', world'.lost)
    BY <1>0, <2>2, <2>8, <2>9
  <2> QED
    BY <1>0, <1>6, <1>7, <1>8, <1>10, <2>2, <2>10, <2>11, WritingOnInv
<1> QED
  BY <1>1, <1>9, <1>10

\* The outcome of the attempt is noted in the run.
WithOutcome(r, x, e) == [r EXCEPT !.this.status = x, !.this.exit = e]
OutcomeNoted(r, q) ==
  /\ q \in RunState /\ SameCounts(r, q) /\ q.incomplete = r.incomplete
  /\ q.this.truncated = r.this.truncated

\* The run with an outcome, field by field.
LEMMA OutcomeFields ==
  ASSUME NEW r \in RunState, NEW x \in Statuses, NEW e \in Nat, NEW q, q = WithOutcome(r, x, e)
  PROVE  OutcomeNoted(r, q)
<1>1. PICK h \in ThisAttempt : h = r.this
  BY RunFields
<1>2. PICK g : g = [h EXCEPT !.status = x, !.exit = e]
  OBVIOUS
<1>3. /\ g \in ThisAttempt /\ g.first = h.first /\ g.last = h.last /\ g.count = h.count
      /\ g.truncated = h.truncated
  BY <1>2 DEF ThisAttempt
<1>4. q = [r EXCEPT !.this = g]
  BY <1>1, <1>2 DEF WithOutcome, RunState, ThisAttempt
<1>5. /\ q \in RunState /\ q.results = r.results /\ q.seq = r.seq
      /\ q.incomplete = r.incomplete /\ q.this = g
  BY <1>3, <1>4 DEF RunState
<1> QED
  BY <1>1, <1>3, <1>5 DEF OutcomeNoted, SameCounts

\* Noting the outcome keeps the order.
LEMMA InspectedInOrder ==
  ASSUME NEW d \in {"inspect", "exit"}, NEW a \in Attempts, NEW t, NEW r, NEW q, NEW lost,
         InOrder("inspect", a, t, r, lost), OutcomeNoted(r, q)
  PROVE  InOrder(d, a, t, q, lost)
<1>1. /\ IsSession(t) /\ t.state = "active" /\ SessionInv(t) /\ Progress("inspect", a, t, r)
      /\ NothingLostYet("inspect", t, r, lost) /\ TotalLogBytes(t) <= MaxTotalLogBytes
  BY DEF InOrder
<1>2. Silent("inspect", d) /\ d \notin Closed \cup {"after"}
  BY DEF Silent, Fresh, Closed
<1>3. FilesAt(d, a, t)
  BY <1>1 DEF Progress, CurrentAttempt, FilesAt, Fresh, Closed
<1>4. OtherLogs(t, t, a)
  BY DEF OtherLogs
<1>5. SameCounts(r, q)
  BY DEF OutcomeNoted
<1>6. NothingLostYet(d, t, q, lost)
  BY <1>1 DEF NothingLostYet, Closed, OutcomeNoted
<1> QED
  BY <1>1, <1>2, <1>3, <1>4, <1>5, <1>6, SilentInOrder

\* The failed event of an out-of-memory kill is noticed at the next one.
LEMMA FailedAtExit ==
  ASSUME ExecuteIInv, pc' = "exit", IsSession(s'), s'.state = "failed", answer' = answer,
         TotalLogBytes(s') <= MaxTotalLogBytes, bundle' = NoBundle, RestTypes'
  PROVE  ExecuteIInv'
<1>1. "exit" \in Writing
  BY DEF Writing, AttemptPCs, EmitCalls
<1>2. ExecTypes'
  BY <1>1, WritingPCs DEF ExecTypes, RestTypes, ExecuteIInv
<1>3. WritingInv'
  BY DEF WritingInv
<1>4. PublishedInv'
  BY NoBundleIsFcn DEF PublishedInv
<1>5. ContainerInv'
  BY DEF ContainerInv, NoContainerPCs, Closed
<1> QED
  BY <1>2, <1>3, <1>4, <1>5 DEF ExecuteIInv, PublishedVerifies, CompleteMeansNothingLost

\* Inspecting the container keeps the invariant, also when memory ran out.
LEMMA InspectContainerInv == ASSUME ExecuteIInv, InspectContainer PROVE ExecuteIInv'
<1>0. pc = "inspect" /\ UNCHANGED <<att, cont, work, ctx, bundle, world>>
  BY DEF InspectContainer
<1>1. pc \in Writing /\ "exit" \in Writing
  BY <1>0 DEF Writing, AttemptPCs, EmitCalls
<1>2. /\ bundle = NoBundle /\ RestTypes /\ cont \in Container /\ IsSession(s) /\ world \in World
      /\ att \in Attempts /\ run \in RunState /\ TotalLogBytes(s) <= MaxTotalLogBytes
  BY <1>1, WhileWriting DEF RestTypes
<1>3. s.state = "active" /\ InOrder(pc, att, s, run, world.lost)
  BY <1>0, <1>1, WhileWriting
<1>4. PICK q0 : q0 = WithOutcome(run, Status(cont), cont.exit)
  OBVIOUS
<1>5. OutcomeNoted(run, q0)
  <2>1. Status(cont) \in Statuses /\ cont.exit \in Nat
    BY <1>2 DEF Status, Statuses, Container
  <2> QED
    BY <1>2, <1>4, <2>1, OutcomeFields
<1>6. q0 \in RunState /\ q0.seq = run.seq
  BY <1>5 DEF OutcomeNoted, SameCounts
<1>7. PICK u : u = SinkEmit(s, "resource_limit", FALSE)
  OBVIOUS
<1>8. \/ StopAfterCleanup /\ run' = run
      \/ /\ pc' = "exit" /\ answer' = answer
         /\ s' = IF cont.oom THEN u ELSE s
         /\ run' = IF cont.oom /\ (IF cont.oom THEN u ELSE s).state = "active"
                   THEN Counted(q0) ELSE q0
  BY <1>4, <1>7 DEF InspectContainer, WithOutcome
<1>9. CASE StopAfterCleanup /\ run' = run
  <2>1. RestTypes'
    BY <1>0, <1>2, <1>9, RestKept
  <2> QED
    BY <1>0, <1>2, <1>9, <2>1, ToCleanupInv DEF StopAfterCleanup
<1>10. PICK lost : lost = world.lost
  OBVIOUS
<1>11. InOrder("inspect", att, s, run, lost)
  BY <1>0, <1>3, <1>10
<1>12. CASE pc' = "exit" /\ answer' = answer /\ ~cont.oom /\ s' = s /\ run' = q0
  <2>1. "exit" \in {"inspect", "exit"}
    OBVIOUS
  <2>2. InOrder("exit", att, s, q0, lost)
    BY ONLY <1>2, <1>5, <1>11, <2>1, InspectedInOrder
  <2>3. RestTypes'
    BY <1>0, <1>2, <1>6, <1>12 DEF RestTypes
  <2>4. InOrder(pc', att', s', run', world'.lost)
    BY <1>0, <1>10, <1>12, <2>2
  <2> QED
    BY <1>0, <1>1, <1>2, <1>12, <2>3, <2>4, WritingOnInv DEF NoContainerPCs, Closed
<1>13. CASE pc' = "exit" /\ answer' = answer /\ u.state = "active" /\ s' = u /\ run' = Counted(q0)
  <2>1. "inspect" \in {"inspect", "exit"}
    OBVIOUS
  <2>2. InOrder("inspect", att, s, q0, lost)
    BY ONLY <1>2, <1>5, <1>11, <2>1, InspectedInOrder
  <2>3. u = Emit(s, att, run.seq + 1, "resource_limit", FALSE, FALSE)
    BY <1>2, <1>7, <1>13, SinkEmits
  <2>4. PICK a \in Attempts : a = att
    BY <1>2
  <2>5. PICK t : t = s
    OBVIOUS
  <2>6. EmitsNext(t, u, a, q0, "resource_limit")
    BY <1>6, <1>13, <2>3, <2>4, <2>5 DEF EmitsNext
  <2>7. PICK q : q = Counted(q0)
    OBVIOUS
  <2>8. "resource_limit" \in EventKinds /\ Emits("inspect", "exit", "resource_limit")
    BY DEF EventKinds, Emits, Fresh, Closed
  <2>9. InOrder("inspect", a, t, q0, lost)
    BY <2>2, <2>4, <2>5
  <2>10. InOrder("exit", a, u, q, lost)
    BY ONLY <1>6, <2>4, <2>6, <2>7, <2>8, <2>9, EmitInOrder
  <2>11. q \in RunState
    BY <1>6, <2>7, CountedFields
  <2>12. RestTypes'
    BY <1>0, <1>2, <1>13, <2>7, <2>11 DEF RestTypes
  <2>13. InOrder(pc', att', s', run', world'.lost)
    BY <1>0, <1>10, <1>13, <2>4, <2>7, <2>10
  <2> QED
    BY <1>0, <1>1, <1>2, <1>13, <2>12, <2>13, WritingOnInv DEF NoContainerPCs, Closed
<1>14. CASE pc' = "exit" /\ answer' = answer /\ u.state # "active" /\ s' = u /\ run' = q0
  <2>1. "resource_limit" \in EventKinds /\ FALSE \in BOOLEAN
    BY DEF EventKinds
  <2>2. IsSession(u) /\ u.log = s.log /\ StateAfter(s, u)
    BY <1>2, <1>7, <2>1, SinkTyped
  <2>3. u.state = "failed"
    BY <1>3, <1>14, <2>2 DEF StateAfter
  <2>4. TotalLogBytes(u) <= MaxTotalLogBytes
    BY <1>2, <2>2, TotalLogBytesSame
  <2>5. RestTypes'
    BY <1>0, <1>2, <1>6, <1>14 DEF RestTypes
  <2> QED
    BY <1>0, <1>2, <1>14, <2>2, <2>3, <2>4, <2>5, FailedAtExit
<1>15. cont.oom \in BOOLEAN
  BY <1>2 DEF Container
<1> QED
  BY <1>8, <1>9, <1>12, <1>13, <1>14, <1>15

-----------------------------------------------------------------------------
(* A frame of output.                                                      *)

\* There are finitely many streams.
LEMMA StreamsFinite == IsFiniteSet(Streams)
<1>1. IsFiniteSet({"stdout"})
  BY FS_Singleton
<1>2. IsFiniteSet({"stdout"} \cup {"stderr"})
  BY <1>1, FS_AddElement
<1> QED
  BY <1>2 DEF Streams

\* What is accepted and passed on of a frame, within the limits.
FrameCounts(r, st, k, acc, w) ==
  /\ acc \in Nat /\ acc <= k /\ w \in Nat /\ w <= acc
  /\ r.this.written[st] + w \in 0..MaxStreamBytes

\* What the runner passes on of a frame stays within the stream's limit.
LEMMA PassedOnIs ==
  ASSUME run \in RunState, NEW st \in Streams, NEW k \in Nat
  PROVE  FrameCounts(run, st, k, Accepted(st, k), PassedOn(st, k))
<1>1. PICK h \in ThisAttempt : h = run.this
  BY RunFields
<1>2. h.accepted \in [Streams -> Nat] /\ h.written \in [Streams -> 0..MaxStreamBytes]
  BY DEF ThisAttempt
<1>3. PICK i \in Nat : i = h.accepted[st]
  BY <1>2
<1>4. PICK j \in 0..MaxStreamBytes : j = h.written[st]
  BY <1>2
<1>5. PICK total \in Nat : total = SumFunction(h.written)
  <2>1. h.written \in [Streams -> Nat]
    BY <1>2, ExecuteAssumption
  <2> QED
    BY <2>1, StreamsFinite, SumIsNat
<1>6. MaxStreamBytes \in Nat /\ MaxTotalOutputBytes \in Nat
  BY ExecuteAssumption
<1>7. PICK acc : acc = Accepted(st, k)
  OBVIOUS
<1>8. acc = LET rest == MaxStreamBytes - i IN IF rest > 0 THEN Least(k, rest) ELSE 0
  BY <1>1, <1>3, <1>7 DEF Accepted
<1>9. acc \in Nat /\ acc <= k
  BY <1>6, <1>8 DEF Least
<1>10. PICK al : al = Allowed(st)
  OBVIOUS
<1>11. al = Least(MaxStreamBytes - j, MaxTotalOutputBytes - total)
  BY <1>1, <1>4, <1>5, <1>10 DEF Allowed
<1>12. al \in Int /\ al <= MaxStreamBytes - j
  BY <1>6, <1>11 DEF Least
<1>13. PICK w : w = PassedOn(st, k)
  OBVIOUS
<1>14. w = IF al > 0 THEN Least(acc, al) ELSE 0
  BY <1>7, <1>10, <1>13 DEF PassedOn
<1>15. w \in Nat /\ w <= acc /\ j + w \in 0..MaxStreamBytes
  BY <1>6, <1>9, <1>12, <1>14 DEF Least
<1> QED
  BY <1>1, <1>4, <1>7, <1>9, <1>13, <1>15 DEF FrameCounts

\* The run after the frame.
WithOutput(r, st, acc, w, dropped) ==
  [r EXCEPT !.frames = @ + 1, !.this.accepted[st] = @ + acc, !.this.written[st] = @ + w,
            !.this.truncated = @ \cup dropped]
OutputNoted(r, q, dropped) ==
  /\ q \in RunState /\ SameCounts(r, q) /\ q.incomplete = r.incomplete
  /\ q.this.truncated = r.this.truncated \cup dropped

\* The run after a frame, field by field.
LEMMA OutputFields ==
  ASSUME NEW r \in RunState, NEW st \in Streams, NEW k, NEW acc, NEW w,
         FrameCounts(r, st, k, acc, w), NEW dropped \in SUBSET (Streams \cup {"output"}),
         NEW q, q = WithOutput(r, st, acc, w, dropped)
  PROVE  OutputNoted(r, q, dropped)
<1>1. PICK h \in ThisAttempt : h = r.this
  BY RunFields
<1>2. h.accepted \in [Streams -> Nat] /\ h.written \in [Streams -> 0..MaxStreamBytes]
      /\ h.truncated \in SUBSET (Streams \cup {"output"})
  BY DEF ThisAttempt
<1>3. acc \in Nat /\ h.written[st] + w \in 0..MaxStreamBytes
  BY <1>1 DEF FrameCounts
<1>4. PICK A : A = [h.accepted EXCEPT ![st] = @ + acc]
  OBVIOUS
<1>5. PICK B : B = [h.written EXCEPT ![st] = @ + w]
  OBVIOUS
<1>6. PICK D : D = h.truncated \cup dropped
  OBVIOUS
<1>7. A \in [Streams -> Nat] /\ B \in [Streams -> 0..MaxStreamBytes]
      /\ D \in SUBSET (Streams \cup {"output"})
  BY <1>2, <1>3, <1>4, <1>5, <1>6
<1>8. PICK g : g = [h EXCEPT !.accepted = A, !.written = B, !.truncated = D]
  OBVIOUS
<1>9. /\ g \in ThisAttempt /\ g.first = h.first /\ g.last = h.last /\ g.count = h.count
      /\ g.truncated = D
  BY <1>7, <1>8 DEF ThisAttempt
<1>10. PICK m \in Nat : m = r.frames + 1
  BY RunFields
<1>11. q = [r EXCEPT !.frames = m, !.this = g]
  <2>1. q = [r EXCEPT !.frames = m, !.this.accepted = A, !.this.written = B, !.this.truncated = D]
    BY <1>1, <1>4, <1>5, <1>6, <1>10 DEF WithOutput, RunState, ThisAttempt
  <2> QED
    BY <1>1, <1>8, <2>1 DEF RunState, ThisAttempt
<1>12. /\ q \in RunState /\ q.results = r.results /\ q.seq = r.seq
       /\ q.incomplete = r.incomplete /\ q.this = g
  BY <1>9, <1>10, <1>11 DEF RunState
<1> QED
  BY <1>1, <1>6, <1>9, <1>12 DEF OutputNoted, SameCounts

\* The session after w bytes of a stream were passed on.
FrameLogged(t, u, a, st, w) ==
  /\ IsSession(u) /\ SessionInv(u) /\ u.next = t.next /\ u.events = t.events
  /\ t.incomplete => u.incomplete
  /\ TotalLogBytes(u) <= MaxTotalLogBytes
  /\ \A b \in Attempts, su \in Streams : u.log[b][su].file = t.log[b][su].file
  /\ u.log[a][st].stored = t.log[a][st].stored + w \/ u.incomplete

\* LogCapture.Write as a step of the attempt.
LEMMA WriteLogStep ==
  ASSUME NEW t, IsSession(t), SessionInv(t), NEW a \in Attempts, NEW st \in Streams,
         NEW k \in Nat, k > 0, NEW f \in BOOLEAN, NEW r, r = WriteLog(t, a, st, k, f),
         t.state = "active", t.log[a][st].file = "open", r.state = "active",
         TotalLogBytes(t) <= MaxTotalLogBytes
  PROVE  FrameLogged(t, r, a, st, k)
BY WriteLogInv DEF FrameLogged, SameEvents

\* A frame of which nothing is passed on leaves the session alone.
LEMMA NothingLogged ==
  ASSUME NEW t, IsSession(t), SessionInv(t), NEW a \in Attempts, NEW st \in Streams,
         TotalLogBytes(t) <= MaxTotalLogBytes
  PROVE  FrameLogged(t, t, a, st, 0)
<1>1. t.log[a][st] \in Log
  BY SessionFields
<1>2. t.log[a][st].stored + 0 = t.log[a][st].stored
  BY <1>1 DEF Log
<1> QED
  BY <1>2 DEF FrameLogged

\* What of a frame of k bytes is dropped.
DroppedOf(st, k, acc, w) == {d \in {st} : acc < k} \cup {d \in {"output"} : w < acc}

\* A frame keeps the order: every byte dropped on the way makes something incomplete.
LEMMA FrameInOrder ==
  ASSUME NEW a \in Attempts, NEW t, NEW r \in RunState, NEW lost, InOrder("decode", a, t, r, lost),
         NEW st \in Streams, NEW k \in Nat, NEW acc, NEW w, FrameCounts(r, st, k, acc, w),
         NEW u, FrameLogged(t, u, a, st, w), u.state = "active",
         NEW q, OutputNoted(r, q, DroppedOf(st, k, acc, w)),
         NEW lost2, lost2 => lost \/ u.log[a][st].stored # t.log[a][st].stored + k
  PROVE  InOrder("decode", a, u, q, lost2)
<1>1. /\ Progress("decode", a, t, r) /\ NothingLostYet("decode", t, r, lost)
  BY DEF InOrder
<1>2. /\ IsSession(u) /\ SessionInv(u) /\ u.next = t.next /\ u.events = t.events
      /\ t.incomplete => u.incomplete
      /\ TotalLogBytes(u) <= MaxTotalLogBytes
      /\ u.log[a][st].stored = t.log[a][st].stored + w \/ u.incomplete
  BY DEF FrameLogged
<1>3. OtherLogs(t, u, a)
  BY DEF FrameLogged, OtherLogs
<1>4. FilesAt("decode", a, u)
  BY <1>1 DEF FrameLogged, Progress, CurrentAttempt, FilesAt, Fresh, Closed
<1>5. Silent("decode", "decode") /\ "decode" \notin Closed \cup {"after"}
  BY DEF Silent, Fresh, Closed
<1>6. SameCounts(r, q)
  BY DEF OutputNoted
<1>7. NothingLostYet("decode", u, q, lost2)
  <2>1. lost2 => u.incomplete \/ q.incomplete \/ q.this.truncated # {}
    <3>1. CASE lost
      BY <1>1, <1>2, <3>1 DEF NothingLostYet, OutputNoted
    <3>2. CASE w = k
      BY <1>2, <3>1, <3>2
    <3>3. CASE w # k
      <4>1. acc < k \/ w < acc
        BY <3>3 DEF FrameCounts
      <4>2. st \in DroppedOf(st, k, acc, w) \/ "output" \in DroppedOf(st, k, acc, w)
        BY <4>1 DEF DroppedOf
      <4> QED
        BY <4>2 DEF OutputNoted
    <3> QED
      BY <3>2, <3>3
  <2> QED
    BY <2>1 DEF NothingLostYet, Closed
<1> QED
  BY <1>1, <1>2, <1>3, <1>4, <1>5, <1>6, <1>7, SilentInOrder

\* Reading a frame keeps the invariant.
LEMMA ReadFrameInv ==
  ASSUME ExecuteIInv, NEW st \in Streams, NEW k \in FrameSizes, ReadFrame(st, k)
  PROVE  ExecuteIInv'
<1>0. pc = "decode" /\ UNCHANGED <<att, cont, work, ctx, bundle>> /\ k \in Nat /\ k > 0
  BY ExecuteAssumption DEF ReadFrame
<1>1. pc \in Writing
  BY <1>0 DEF Writing, AttemptPCs
<1>2. /\ bundle = NoBundle /\ RestTypes /\ cont \in Container /\ IsSession(s) /\ world \in World
      /\ att \in Attempts /\ run \in RunState /\ TotalLogBytes(s) <= MaxTotalLogBytes
  BY <1>1, WhileWriting DEF RestTypes
<1>3. s.state = "active" /\ InOrder(pc, att, s, run, world.lost)
  BY <1>0, <1>1, WhileWriting
<1>4. PICK w : w = PassedOn(st, k)
  OBVIOUS
<1>5. PICK acc : acc = Accepted(st, k)
  OBVIOUS
<1>6. FrameCounts(run, st, k, acc, w)
  BY <1>0, <1>2, <1>4, <1>5, PassedOnIs
<1>7. PICK f \in MayFail :
        LET logged == IF w > 0 THEN WriteLog(s, att, st, w, f) ELSE s
        IN  \/ StopAfterCleanup /\ run' = run /\ world' = world
            \/ /\ logged.state = "active" /\ s' = logged
               /\ run' = WithOutput(run, st, acc, w, DroppedOf(st, k, acc, w))
               /\ world' = [world EXCEPT
                             !.lost = @ \/ logged.log[att][st].stored # s.log[att][st].stored + k]
               /\ pc' = pc /\ answer' = answer
  BY <1>4, <1>5 DEF ReadFrame, WithOutput, DroppedOf
<1>8. PICK u : u = IF w > 0 THEN WriteLog(s, att, st, w, f) ELSE s
  OBVIOUS
<1>9. CASE StopAfterCleanup /\ run' = run /\ world' = world
  <2>1. RestTypes'
    BY <1>0, <1>2, <1>9, RestKept
  <2> QED
    BY <1>0, <1>2, <1>9, <2>1, ToCleanupInv DEF StopAfterCleanup
<1>10. CASE /\ u.state = "active" /\ s' = u
            /\ run' = WithOutput(run, st, acc, w, DroppedOf(st, k, acc, w))
            /\ world' = [world EXCEPT
                          !.lost = @ \/ u.log[att][st].stored # s.log[att][st].stored + k]
            /\ pc' = pc /\ answer' = answer
  <2>1. PICK t : t = s
    OBVIOUS
  <2>2. PICK a \in Attempts : a = att
    BY <1>2
  <2>3. PICK r \in RunState : r = run
    BY <1>2
  <2>4. PICK lost : lost = world.lost
    OBVIOUS
  <2>5. /\ IsSession(t) /\ t.state = "active" /\ InOrder("decode", a, t, r, lost)
        /\ FrameCounts(r, st, k, acc, w) /\ TotalLogBytes(t) <= MaxTotalLogBytes
        /\ u = IF w > 0 THEN WriteLog(t, a, st, w, f) ELSE t
    BY <1>0, <1>2, <1>3, <1>6, <1>8, <2>1, <2>2, <2>3, <2>4
  <2>6. SessionInv(t) /\ t.log[a][st].file = "open" /\ w \in Nat
    BY <2>5 DEF InOrder, Progress, CurrentAttempt, Fresh, Closed, FrameCounts
  <2>7. FrameLogged(t, u, a, st, w)
    <3>1. CASE w > 0
      <4>1. u = WriteLog(t, a, st, w, f) /\ f \in BOOLEAN /\ u.state = "active"
        BY <1>10, <2>5, <3>1, MayFailIsBoolean
      <4>2. st \in Streams
        OBVIOUS
      <4> QED
        BY ONLY <2>2, <2>5, <2>6, <3>1, <4>1, <4>2, WriteLogStep
    <3>2. CASE ~(w > 0)
      <4>1. w = 0 /\ u = t
        BY <2>5, <2>6, <3>2
      <4> QED
        BY <2>5, <2>6, <4>1, NothingLogged
    <3> QED
      BY <3>1, <3>2
  <2>8. PICK D : D = DroppedOf(st, k, acc, w)
    OBVIOUS
  <2>9. D \in SUBSET (Streams \cup {"output"})
    BY <2>8 DEF DroppedOf
  <2>10. PICK q : q = WithOutput(r, st, acc, w, D)
    OBVIOUS
  <2>11. OutputNoted(r, q, D)
    <3>1. st \in Streams
      OBVIOUS
    <3> QED
      BY ONLY <2>3, <2>5, <2>9, <2>10, <3>1, OutputFields
  <2>12. PICK lost2 : lost2 = (lost \/ u.log[a][st].stored # t.log[a][st].stored + k)
    OBVIOUS
  <2>13. InOrder("decode", a, u, q, lost2)
    <3>1. /\ OutputNoted(r, q, DroppedOf(st, k, acc, w)) /\ u.state = "active" /\ st \in Streams
          /\ lost2 => lost \/ u.log[a][st].stored # t.log[a][st].stored + k
      BY <1>10, <2>8, <2>11, <2>12
    <3> QED
      BY ONLY <1>0, <2>2, <2>3, <2>5, <2>7, <3>1, FrameInOrder
  <2>14. world' = [world EXCEPT !.lost = lost2] /\ lost2 \in BOOLEAN
    <3>1. lost \in BOOLEAN
      BY <1>2, <2>4 DEF World
    <3> QED
      BY <1>10, <2>1, <2>2, <2>4, <2>12, <3>1
  <2>15. world' \in World /\ world'.lost = lost2
    BY <1>2, <2>14 DEF World
  <2>16. run' = q /\ q \in RunState
    BY <1>10, <2>3, <2>8, <2>10, <2>11 DEF OutputNoted
  <2>17. RestTypes'
    BY <1>0, <1>2, <2>15, <2>16 DEF RestTypes
  <2>18. InOrder(pc', att', s', run', world'.lost)
    BY <1>0, <1>10, <2>2, <2>13, <2>15, <2>16
  <2> QED
    BY <1>0, <1>1, <1>2, <1>10, <2>17, <2>18, WritingOnInv DEF NoContainerPCs, Closed
<1> QED
  BY <1>7, <1>8, <1>9, <1>10

-----------------------------------------------------------------------------
(* The end of an attempt.                                                  *)

\* The session with or without a mark.
MarkStep(t, r) ==
  /\ LogStep(t, r) /\ r.state = "active"
  /\ \A b \in Attempts, su \in Streams : r.log[b][su].file = t.log[b][su].file

\* MarkTruncated as a step of the attempt.
LEMMA MarkTruncatedStep ==
  ASSUME NEW t, IsSession(t), SessionInv(t), NEW a \in Attempts, NEW st \in Streams,
         NEW r, r = MarkTruncated(t, a, st), t.state = "active", t.log[a][st].file = "open"
  PROVE  MarkStep(t, r)
BY MarkTruncatedInv DEF MarkStep, LogStep, SameEvents

\* The mark of a stream that was truncated.
LEMMA MarkIfTruncatedStep ==
  ASSUME NEW t, IsSession(t), SessionInv(t), att \in Attempts, NEW st \in Streams,
         NEW r, r = MarkIfTruncated(t, st), t.state = "active", t.log[att][st].file = "open"
  PROVE  MarkStep(t, r)
<1>1. CASE Truncated(st)
  <2>1. PICK a \in Attempts : a = att
    OBVIOUS
  <2>2. r = MarkTruncated(t, a, st) /\ t.log[a][st].file = "open"
    BY <1>1, <2>1 DEF MarkIfTruncated
  <2> QED
    BY <2>1, <2>2, MarkTruncatedStep
<1>2. CASE ~Truncated(st)
  BY <1>2 DEF MarkIfTruncated, MarkStep, LogStep
<1> QED
  BY <1>1, <1>2

\* A failed session stays failed when a log is closed.
LEMMA CloseLogNeedsActive ==
  ASSUME NEW t, IsSession(t), NEW a \in Attempts, NEW st \in Streams, NEW f \in BOOLEAN,
         NEW r, r = CloseLog(t, a, st, f), r.state = "active"
  PROVE  t.state = "active"
BY CloseLogTyped

\* Marks and closes.
LogsEnded(t, r, a) ==
  /\ IsSession(r) /\ SessionInv(r) /\ r.next = t.next /\ r.events = t.events
  /\ TotalLogBytes(r) = TotalLogBytes(t) /\ (t.incomplete => r.incomplete)
  /\ OtherLogs(t, r, a) /\ \A st \in Streams : r.log[a][st].file = "closed"

\* Marking and closing both logs.
LEMMA LogsEndedInv ==
  ASSUME NEW t, IsSession(t), SessionInv(t), t.state = "active", att \in Attempts,
         \A st \in Streams : t.log[att][st].file = "open", NEW f \in BOOLEAN,
         NEW m, m = MarkIfTruncated(MarkIfTruncated(t, "stdout"), "stderr"),
         NEW r, r = CloseLog(CloseLog(m, att, "stdout", f), att, "stderr", FALSE),
         r.state = "active"
  PROVE  LogsEnded(t, r, att)
<1>0. "stdout" \in Streams /\ "stderr" \in Streams /\ FALSE \in BOOLEAN
  BY DEF Streams
<1>1. PICK v : v = MarkIfTruncated(t, "stdout")
  OBVIOUS
<1>2. MarkStep(t, v)
  BY <1>0, <1>1, MarkIfTruncatedStep
<1>3. /\ IsSession(v) /\ SessionInv(v) /\ v.state = "active"
      /\ \A st \in Streams : v.log[att][st].file = "open"
  BY <1>2 DEF MarkStep, LogStep
<1>4. m = MarkIfTruncated(v, "stderr")
  BY <1>1
<1>5. MarkStep(v, m)
  BY <1>0, <1>3, <1>4, MarkIfTruncatedStep
<1>6. /\ IsSession(m) /\ SessionInv(m) /\ m.state = "active"
      /\ \A st \in Streams : m.log[att][st].file = "open"
  BY <1>3, <1>5 DEF MarkStep, LogStep
<1>7. PICK a \in Attempts : a = att
  OBVIOUS
<1>8. PICK x : x = CloseLog(m, a, "stdout", f)
  OBVIOUS
<1>9. r = CloseLog(x, a, "stderr", FALSE)
  BY <1>7, <1>8
<1>10. IsSession(x)
  BY <1>0, <1>6, <1>8, CloseLogTyped
<1>11. x.state = "active"
  <2>1. r.state = "active"
    OBVIOUS
  <2> QED
    BY ONLY <1>0, <1>7, <1>9, <1>10, <2>1, CloseLogNeedsActive
<1>12. LogStep(m, x) /\ OneLog(m, x, a, "stdout", "closed")
  <2>1. m.log[a]["stdout"].file = "open" /\ f \in BOOLEAN /\ IsSession(m) /\ SessionInv(m)
    BY <1>0, <1>6, <1>7
  <2> QED
    BY ONLY <1>0, <1>7, <1>8, <1>11, <2>1, CloseLogStep
<1>13. LogStep(x, r) /\ OneLog(x, r, a, "stderr", "closed")
  <2>1. x.log[a]["stderr"] = m.log[a]["stderr"]
    BY <1>0, <1>12 DEF OneLog
  <2>2. x.log[a]["stderr"].file = "open" /\ IsSession(x) /\ SessionInv(x) /\ r.state = "active"
    BY <1>0, <1>6, <1>7, <1>12, <2>1 DEF LogStep
  <2> QED
    BY ONLY <1>0, <1>7, <1>9, <2>2, CloseLogStep
<1>14. /\ LogStep(m, r) /\ OtherLogs(m, r, a)
       /\ \A st \in Streams : r.log[a][st].file = "closed"
  BY ONLY <1>7, <1>12, <1>13, BothLogs
<1>15. OtherLogs(t, r, a)
  <2>1. /\ \A b \in Attempts, su \in Streams : v.log[b][su].file = t.log[b][su].file
        /\ \A b \in Attempts, su \in Streams : m.log[b][su].file = v.log[b][su].file
        /\ \A b \in Attempts : b # a => \A st \in Streams : r.log[b][st].file = m.log[b][st].file
    BY <1>2, <1>5, <1>14 DEF OtherLogs, MarkStep
  <2> QED
    BY ONLY <2>1 DEF OtherLogs
<1>16. LogStep(t, r)
  BY <1>2, <1>5, <1>14 DEF LogStep, MarkStep
<1> QED
  BY <1>7, <1>14, <1>15, <1>16 DEF LogsEnded, LogStep

\* The run after the attempt.
WithTruncation(r) == [r EXCEPT !.incomplete = @ \/ r.this.truncated # {}]

\* The run after truncation was noted, field by field.
LEMMA TruncationFields ==
  ASSUME NEW r \in RunState, NEW q, q = WithTruncation(r)
  PROVE  /\ q \in RunState /\ SameCounts(r, q) /\ SameOutcome(r, q)
         /\ q.incomplete = (r.incomplete \/ r.this.truncated # {})
         /\ q.this.truncated = r.this.truncated
<1>1. PICK i \in BOOLEAN : i = (r.incomplete \/ r.this.truncated # {})
  BY RunFields
<1>2. q = [r EXCEPT !.incomplete = i]
  BY <1>1 DEF WithTruncation, RunState
<1>3. q \in RunState /\ q.results = r.results /\ q.seq = r.seq /\ q.this = r.this /\ q.incomplete = i
  BY <1>2 DEF RunState
<1> QED
  BY <1>1, <1>3 DEF SameCounts, SameOutcome

\* The end of the output keeps the order: a truncated stream makes the run incomplete.
LEMMA AfterInOrder ==
  ASSUME NEW a \in Attempts, NEW t, NEW r \in RunState, NEW lost, InOrder("after", a, t, r, lost),
         NEW u, LogsEnded(t, u, a), u.state = "active", NEW d \in {"collect", "completed"},
         NEW q, q = WithTruncation(r)
  PROVE  InOrder(d, a, u, q, lost)
<1>1. /\ Progress("after", a, t, r) /\ NothingLostYet("after", t, r, lost)
      /\ TotalLogBytes(t) <= MaxTotalLogBytes
  BY DEF InOrder
<1>2. /\ IsSession(u) /\ SessionInv(u) /\ u.next = t.next /\ u.events = t.events
      /\ TotalLogBytes(u) <= MaxTotalLogBytes /\ (t.incomplete => u.incomplete)
      /\ OtherLogs(t, u, a)
  BY <1>1 DEF LogsEnded
<1>3. Silent("after", d) /\ d \in Closed /\ d \notin Fresh /\ d # "commit"
  BY DEF Silent, Fresh, Closed
<1>4. FilesAt(d, a, u)
  BY <1>3 DEF LogsEnded, FilesAt
<1>5. /\ q \in RunState /\ SameCounts(r, q) /\ SameOutcome(r, q)
      /\ q.incomplete = (r.incomplete \/ r.this.truncated # {})
      /\ q.this.truncated = r.this.truncated
  BY TruncationFields
<1>6. NothingLostYet(d, u, q, lost)
  BY <1>1, <1>2, <1>3, <1>5 DEF NothingLostYet
<1>7. u.state = "active" /\ a \in Attempts
  OBVIOUS
<1> QED
  BY ONLY <1>1, <1>2, <1>3, <1>4, <1>5, <1>6, <1>7, SilentInOrder

\* The end of the output keeps the invariant.
LEMMA AfterAttemptInv == ASSUME ExecuteIInv, AfterAttempt PROVE ExecuteIInv'
<1>0. pc = "after" /\ UNCHANGED <<att, cont, ctx, bundle, world>>
  BY DEF AfterAttempt
<1>1. pc \in Writing /\ "collect" \in Writing /\ "completed" \in Writing
  BY <1>0 DEF Writing, AttemptPCs, EmitCalls
<1>2. /\ bundle = NoBundle /\ RestTypes /\ cont \in Container /\ IsSession(s) /\ world \in World
      /\ att \in Attempts /\ run \in RunState
  BY <1>1, WhileWriting DEF RestTypes
<1>3. s.state = "active" /\ InOrder(pc, att, s, run, world.lost)
  BY <1>0, <1>1, WhileWriting
<1>4. cont'.state \in {"none", "removed"}
  BY <1>0 DEF ExecuteIInv, ContainerInv, NoContainerPCs
<1>5. PICK m : m = MarkIfTruncated(MarkIfTruncated(s, "stdout"), "stderr")
  OBVIOUS
<1>6. PICK f \in MayFail : \E w \in Workspaces :
        LET closed == CloseLog(CloseLog(m, att, "stdout", f), att, "stderr", FALSE)
        IN  IF closed.state # "active"
            THEN Stop("failed") /\ UNCHANGED <<run, work>>
            ELSE /\ s' = closed
                 /\ run' = WithTruncation(run)
                 /\ work' = [tree |-> w, todo |-> {p \in Paths : w.files[p] \in Collected}]
                 /\ pc' = IF w.rules THEN "collect" ELSE "completed"
                 /\ UNCHANGED answer
  BY <1>5 DEF AfterAttempt, WithTruncation
<1>7. PICK u : u = CloseLog(CloseLog(m, att, "stdout", f), att, "stderr", FALSE)
  OBVIOUS
<1>8. PICK w \in Workspaces :
        IF u.state # "active"
        THEN Stop("failed") /\ UNCHANGED <<run, work>>
        ELSE /\ s' = u
             /\ run' = WithTruncation(run)
             /\ work' = [tree |-> w, todo |-> {p \in Paths : w.files[p] \in Collected}]
             /\ pc' = IF w.rules THEN "collect" ELSE "completed"
             /\ UNCHANGED answer
  BY <1>6, <1>7
<1>9. CASE u.state # "active"
  <2>1. RestTypes'
    BY <1>0, <1>2, <1>8, <1>9, RestKept
  <2> QED
    BY <1>0, <1>2, <1>4, <1>8, <1>9, <2>1, StopInv
<1>10. CASE u.state = "active"
  <2>1. /\ s' = u /\ run' = WithTruncation(run) /\ answer' = answer
        /\ work' = [tree |-> w, todo |-> {p \in Paths : w.files[p] \in Collected}]
        /\ pc' \in {"collect", "completed"}
    BY <1>8, <1>10
  <2>2. PICK d \in {"collect", "completed"} : d = pc'
    BY <2>1
  <2>3. PICK lost : lost = world.lost
    OBVIOUS
  <2>4. PICK q : q = WithTruncation(run)
    OBVIOUS
  <2>5. LogsEnded(s, u, att)
    <3>1. SessionInv(s) /\ \A st \in Streams : s.log[att][st].file = "open"
      BY <1>0, <1>3 DEF InOrder, Progress, CurrentAttempt, Fresh, Closed
    <3>2. f \in BOOLEAN
      BY MayFailIsBoolean
    <3> QED
      BY ONLY <1>2, <1>3, <1>5, <1>7, <1>10, <3>1, <3>2, LogsEndedInv
  <2>6. InOrder("after", att, s, run, lost)
    BY <1>0, <1>3, <2>3
  <2>7. InOrder(d, att, u, q, lost)
    BY ONLY <1>2, <1>10, <2>2, <2>4, <2>5, <2>6, AfterInOrder
  <2>8. q \in RunState
    BY <1>2, <2>4, TruncationFields
  <2>9. work'.tree \in Workspace /\ work'.todo \subseteq Paths
        /\ work' = [tree |-> work'.tree, todo |-> work'.todo]
    BY <2>1, ExecuteAssumption
  <2>10. RestTypes'
    BY <1>0, <1>2, <2>1, <2>4, <2>8, <2>9 DEF RestTypes
  <2>11. InOrder(pc', att', s', run', world'.lost)
    BY <1>0, <2>1, <2>2, <2>3, <2>4, <2>7
  <2> QED
    BY <1>0, <1>1, <1>2, <1>4, <2>1, <2>10, <2>11, WritingOnInv
<1> QED
  BY <1>9, <1>10

-----------------------------------------------------------------------------
(* Artifacts.                                                              *)

\* The next path to collect is one of those left.
LEMMA MinIsIn == ASSUME NEW S, S \subseteq Paths, S # {} PROVE Min(S) \in S
<1>1. S \subseteq Nat
  BY EvidenceAssumption
<1>2. \E n \in S : \A m \in S : n <= m
  BY <1>1, LeastElement
<1> QED
  BY <1>2, Zenon DEF Min

\* The session after an artifact or an omission.
Stored(t, u) == IsSession(u) /\ SessionInv(u) /\ u.state = "active" /\ OmitOrStore(t, u)

\* An artifact or an omission keeps the order.
LEMMA StoredInOrder ==
  ASSUME NEW c \in {"collect", "record"}, NEW d \in {"collect", "record"}, NEW a \in Attempts,
         NEW t, NEW r, NEW lost, InOrder(c, a, t, r, lost), NEW u, Stored(t, u)
  PROVE  InOrder(d, a, u, r, lost)
<1>1. /\ Progress(c, a, t, r) /\ NothingLostYet(c, t, r, lost)
      /\ TotalLogBytes(t) <= MaxTotalLogBytes
  BY DEF InOrder
<1>2. /\ IsSession(u) /\ SessionInv(u) /\ u.state = "active" /\ u.next = t.next
      /\ u.events = t.events /\ u.log = t.log /\ (t.incomplete => u.incomplete)
  BY DEF Stored, OmitOrStore
<1>3. /\ Silent(c, d) /\ c \in Closed /\ d \in Closed /\ c \notin Fresh /\ d \notin Fresh
      /\ c # "commit" /\ d # "commit"
  BY DEF Silent, Fresh, Closed
<1>4. FilesAt(d, a, u)
  BY <1>1, <1>2, <1>3 DEF Progress, CurrentAttempt, FilesAt
<1>5. OtherLogs(t, u, a)
  BY <1>2 DEF OtherLogs
<1>6. SameCounts(r, r) /\ SameOutcome(r, r)
  BY DEF SameCounts, SameOutcome
<1>7. NothingLostYet(d, u, r, lost)
  BY <1>1, <1>2, <1>3 DEF NothingLostYet
<1>8. TotalLogBytes(u) <= MaxTotalLogBytes
  BY <1>1, <1>2, TotalLogBytesSame
<1>9. a \in Attempts
  OBVIOUS
<1> QED
  BY ONLY <1>1, <1>2, <1>3, <1>4, <1>5, <1>6, <1>7, <1>8, <1>9, SilentInOrder

\* What is left out makes the run incomplete.
WithIncomplete(r, x) == [r EXCEPT !.incomplete = @ \/ x]

\* The run made incomplete, field by field.
LEMMA IncompleteFields ==
  ASSUME NEW r \in RunState, NEW x \in BOOLEAN, NEW q, q = WithIncomplete(r, x)
  PROVE  /\ q \in RunState /\ SameCounts(r, q) /\ SameOutcome(r, q)
         /\ q.incomplete = (r.incomplete \/ x) /\ q.this.truncated = r.this.truncated
<1>1. PICK i \in BOOLEAN : i = (r.incomplete \/ x)
  BY RunFields
<1>2. q = [r EXCEPT !.incomplete = i]
  BY <1>1 DEF WithIncomplete, RunState
<1>3. q \in RunState /\ q.results = r.results /\ q.seq = r.seq /\ q.this = r.this /\ q.incomplete = i
  BY <1>2 DEF RunState
<1> QED
  BY <1>1, <1>3 DEF SameCounts, SameOutcome

Accounts(lost2, lost, x) == lost2 => lost \/ x

\* What collection left out makes the run incomplete.
LEMMA IncompleteInOrder ==
  ASSUME NEW a \in Attempts, NEW t, NEW r \in RunState, NEW lost,
         InOrder("record", a, t, r, lost), NEW x \in BOOLEAN, NEW q, q = WithIncomplete(r, x),
         NEW lost2, Accounts(lost2, lost, x), NEW d \in {"record", "completed"}
  PROVE  InOrder(d, a, t, q, lost2)
<1>1. /\ IsSession(t) /\ t.state = "active" /\ SessionInv(t) /\ Progress("record", a, t, r)
      /\ NothingLostYet("record", t, r, lost) /\ TotalLogBytes(t) <= MaxTotalLogBytes
  BY DEF InOrder
<1>2. Silent("record", d) /\ d \in Closed /\ "record" \in Closed /\ d \notin Fresh /\ d # "commit"
      /\ "record" \notin Fresh
  BY DEF Silent, Fresh, Closed
<1>3. FilesAt(d, a, t)
  BY <1>1, <1>2 DEF Progress, CurrentAttempt, FilesAt
<1>4. OtherLogs(t, t, a)
  BY DEF OtherLogs
<1>5. /\ q \in RunState /\ SameCounts(r, q) /\ SameOutcome(r, q)
      /\ q.incomplete = (r.incomplete \/ x) /\ q.this.truncated = r.this.truncated
  BY IncompleteFields
<1>6. NothingLostYet(d, t, q, lost2)
  BY <1>1, <1>2, <1>5 DEF NothingLostYet, Accounts
<1>7. a \in Attempts
  OBVIOUS
<1> QED
  BY ONLY <1>1, <1>2, <1>3, <1>4, <1>5, <1>6, <1>7, SilentInOrder

\* The types after a path was collected.
LEMMA WorkKept ==
  ASSUME RestTypes, UNCHANGED <<att, run, cont, ctx, world>>, NEW T \in SUBSET Paths,
         work' = [work EXCEPT !.todo = T]
  PROVE  RestTypes'
BY DEF RestTypes

\* Every path has a content or is refused.
LEMMA KindOf ==
  ASSUME RestTypes, NEW p \in Paths
  PROVE  work.tree.files[p] \in FileKind /\ Content(p) \in Digest
BY DEF RestTypes, Workspace, Content, Digest

\* Collecting a file keeps the invariant.
LEMMA CollectFileInv == ASSUME ExecuteIInv, CollectFile PROVE ExecuteIInv'
<1>0. pc = "collect" /\ work.todo # {} /\ UNCHANGED <<att, run, cont, ctx, bundle, world>>
  BY DEF CollectFile
<1>1. pc \in Writing /\ pc \in {"collect", "record"} /\ pc \in NoContainerPCs
  BY <1>0 DEF Writing, AttemptPCs, NoContainerPCs, Closed
<1>2. /\ bundle = NoBundle /\ RestTypes /\ IsSession(s) /\ att \in Attempts /\ work.todo \subseteq Paths
      /\ cont \in Container
  BY <1>1, WhileWriting DEF RestTypes
<1>3. s.state = "active" /\ InOrder(pc, att, s, run, world.lost)
  BY <1>0, <1>1, WhileWriting
<1>4. cont'.state \in {"none", "removed"}
  BY <1>0, <1>1 DEF ExecuteIInv, ContainerInv
<1>5. PICK p \in Paths : p = Min(work.todo)
  BY <1>0, <1>2, MinIsIn
<1>6. PICK f \in MayFail :
        LET kind == work.tree.files[p]
            added == IF kind = "large" THEN s ELSE AddArtifact(s, att, p, Content(p), Dead, f)
        IN  IF Dead \/ kind = "hardlink" \/ (kind # "large" /\ ~StoredNow(added, p))
            THEN Stop("failed") /\ UNCHANGED work
            ELSE /\ s' = added
                 /\ work' = [work EXCEPT !.todo = @ \ {p}]
                 /\ UNCHANGED <<pc, answer>>
  BY <1>5 DEF CollectFile
<1>7. CASE Stop("failed") /\ UNCHANGED work
  <2>1. RestTypes'
    BY <1>0, <1>2, <1>7, RestKept
  <2> QED
    BY <1>0, <1>2, <1>4, <1>7, <2>1, StopInv
<1>8. CASE ~(Stop("failed") /\ UNCHANGED work)
  <2>1. PICK u : u = IF work.tree.files[p] = "large" THEN s
                     ELSE AddArtifact(s, att, p, Content(p), Dead, f)
    OBVIOUS
  <2>2. /\ s' = u /\ work' = [work EXCEPT !.todo = @ \ {p}] /\ pc' = pc /\ answer' = answer
        /\ work.tree.files[p] # "large" => StoredNow(u, p)
    BY <1>6, <1>8, <2>1
  <2>3. Stored(s, u)
    <3>1. SessionInv(s)
      BY <1>3 DEF InOrder
    <3>2. CASE work.tree.files[p] = "large"
      BY <1>2, <1>3, <2>1, <3>1, <3>2 DEF Stored, OmitOrStore
    <3>3. CASE work.tree.files[p] # "large"
      <4>1. PICK d \in Digest : d = Content(p)
        BY <1>2, KindOf
      <4>2. PICK dead \in BOOLEAN : dead = Dead
        BY DEF Dead
      <4>3. u = AddArtifact(s, att, p, d, dead, f)
        BY <2>1, <3>3, <4>1, <4>2
      <4>4. u.state = "active" /\ f \in BOOLEAN
        BY <2>2, <3>3, MayFailIsBoolean DEF StoredNow
      <4>5. p \in Paths
        OBVIOUS
      <4>6. IsSession(u) /\ SessionInv(u) /\ OmitOrStore(s, u)
        BY ONLY <1>2, <1>3, <3>1, <4>1, <4>2, <4>3, <4>4, <4>5, AddArtifactInv
      <4> QED
        BY <4>4, <4>6 DEF Stored
    <3> QED
      BY <3>2, <3>3
  <2>4. PICK T \in SUBSET Paths : T = work.todo \ {p}
    BY <1>2
  <2>5. work' = [work EXCEPT !.todo = T]
    BY <2>2, <2>4
  <2>6. RestTypes'
    BY <1>0, <1>2, <2>5, WorkKept
  <2>7. PICK lost : lost = world.lost
    OBVIOUS
  <2>8. InOrder(pc, att, s, run, lost)
    BY <1>3, <2>7
  <2>9. InOrder(pc, att, u, run, lost)
    BY ONLY <1>1, <1>2, <2>3, <2>8, StoredInOrder
  <2>10. InOrder(pc', att', s', run', world'.lost)
    BY <1>0, <2>2, <2>7, <2>9
  <2> QED
    BY <1>0, <1>1, <1>2, <1>4, <2>2, <2>6, <2>10, WritingOnInv
<1> QED
  BY <1>7, <1>8

\* The end of the collection keeps the invariant.
LEMMA CollectInv == ASSUME ExecuteIInv, Collect PROVE ExecuteIInv'
<1>0. pc = "collect" /\ UNCHANGED <<att, run, cont, ctx, bundle, world>>
  BY DEF Collect
<1>1. pc \in Writing /\ "record" \in Writing /\ pc \in NoContainerPCs /\ "record" \in NoContainerPCs
  BY <1>0 DEF Writing, AttemptPCs, NoContainerPCs, Closed
<1>2. /\ bundle = NoBundle /\ RestTypes /\ IsSession(s) /\ att \in Attempts /\ cont \in Container
  BY <1>1, WhileWriting DEF RestTypes
<1>3. s.state = "active" /\ InOrder(pc, att, s, run, world.lost)
  BY <1>0, <1>1, WhileWriting
<1>4. cont'.state \in {"none", "removed"}
  BY <1>0, <1>1 DEF ExecuteIInv, ContainerInv
<1>5. PICK u : u = IF CollectionComplete /\ ArtifactPaths = {}
                   THEN MarkCollectionComplete(s, att, FALSE) ELSE s
  OBVIOUS
<1>6. \/ Stop("failed") /\ work' = work
      \/ /\ s' = u /\ work' = [work EXCEPT !.todo = ArtifactPaths] /\ pc' = "record"
         /\ answer' = answer
  <2>1. PICK f \in MayFail :
          IF f \/ Dead
          THEN Stop("failed") /\ UNCHANGED work
          ELSE /\ s' = IF CollectionComplete /\ ArtifactPaths = {}
                       THEN MarkCollectionComplete(s, att, Dead) ELSE s
               /\ work' = [work EXCEPT !.todo = ArtifactPaths]
               /\ pc' = "record" /\ UNCHANGED answer
    BY DEF Collect
  <2>2. CASE Dead
    BY <2>1, <2>2
  <2>3. CASE ~Dead
    <3>1. Dead = FALSE
      BY <2>3 DEF Dead
    <3> QED
      BY <1>5, <2>1, <3>1
  <2> QED
    BY <2>2, <2>3
<1>7. CASE Stop("failed") /\ work' = work
  <2>1. RestTypes'
    BY <1>0, <1>2, <1>7, RestKept
  <2> QED
    BY <1>0, <1>2, <1>4, <1>7, <2>1, StopInv
<1>8. CASE /\ s' = u /\ work' = [work EXCEPT !.todo = ArtifactPaths] /\ pc' = "record"
           /\ answer' = answer
  <2>1. Stored(s, u)
    <3>1. SessionInv(s)
      BY <1>3 DEF InOrder
    <3>2. CASE u = s
      BY <1>2, <1>3, <3>1, <3>2 DEF Stored, OmitOrStore
    <3>3. CASE u = MarkCollectionComplete(s, att, FALSE)
      <4>1. IsSession(u) /\ SessionInv(u) /\ OmitOrStore(s, u) /\ u.state = "active"
        BY ONLY <1>2, <1>3, <3>1, <3>3, MarkCompleteInv
      <4> QED
        BY <4>1 DEF Stored
    <3> QED
      BY <1>5, <3>2, <3>3
  <2>2. PICK T \in SUBSET Paths : T = ArtifactPaths
    BY DEF ArtifactPaths, PathsOf
  <2>3. work' = [work EXCEPT !.todo = T]
    BY <1>8, <2>2
  <2>4. RestTypes'
    BY <1>0, <1>2, <2>3, WorkKept
  <2>5. PICK lost : lost = world.lost
    OBVIOUS
  <2>6. InOrder("collect", att, s, run, lost) /\ "collect" \in {"collect", "record"}
        /\ "record" \in {"collect", "record"}
    BY <1>0, <1>3, <2>5
  <2>7. InOrder("record", att, u, run, lost)
    BY ONLY <1>2, <2>1, <2>6, StoredInOrder
  <2>8. InOrder(pc', att', s', run', world'.lost)
    BY <1>0, <1>8, <2>5, <2>7
  <2> QED
    BY <1>0, <1>1, <1>2, <1>4, <1>8, <2>4, <2>8, WritingOnInv
<1> QED
  BY <1>6, <1>7, <1>8

\* What is not stored is omitted for a reason.
LEMMA DispositionIs == ASSUME NEW kind PROVE DispositionOf(kind) \in Omitted
<1>1. CASE kind = "large"
  BY <1>1 DEF DispositionOf, Omitted
<1>2. CASE kind \in {"symlink", "blocked"}
  BY <1>2 DEF DispositionOf, Omitted
<1>3. CASE kind # "large" /\ kind \notin {"symlink", "blocked"}
  BY <1>3 DEF DispositionOf, Omitted
<1> QED
  BY <1>1, <1>2, <1>3

\* A session in order that emits the event of an artifact.
LEMMA EmitOfArtifact ==
  ASSUME RestTypes, NEW lost, NEW t, NEW u, NEW kind \in {"artifact_activity", "observer_warning"},
         NEW f \in BOOLEAN, InOrder("record", att, t, run, lost), u = SinkEmit(t, kind, f),
         u.state = "active"
  PROVE  InOrder("record", att, u, Counted(run), lost)
<1>1. IsSession(t)
  BY DEF InOrder
<1>2. u = Emit(t, att, run.seq + 1, kind, FALSE, f)
  BY <1>1, SinkEmits
<1>3. PICK a \in Attempts : a = att
  BY DEF RestTypes
<1>4. PICK r \in RunState : r = run
  BY DEF RestTypes
<1>5. EmitsNext(t, u, a, r, kind) /\ InOrder("record", a, t, r, lost)
  BY <1>2, <1>3, <1>4 DEF EmitsNext
<1>6. PICK q : q = Counted(r)
  OBVIOUS
<1>7. kind \in EventKinds /\ Emits("record", "record", kind)
  BY DEF EventKinds, Emits, Fresh, Closed
<1>8. InOrder("record", a, u, q, lost)
  BY ONLY <1>3, <1>4, <1>5, <1>6, <1>7, EmitInOrder
<1> QED
  BY <1>3, <1>4, <1>6, <1>8

\* An omission is recorded and a warning emitted.
LEMMA OmitAndEmit ==
  ASSUME RestTypes, NEW lost, NEW t, NEW p \in Paths, NEW o \in Omitted, NEW f \in BOOLEAN,
         InOrder("record", att, t, run, lost), NEW v, v = RecordArtifactOmission(t, att, p, o, Dead),
         NEW u, u = SinkEmit(v, "observer_warning", f), u.state = "active"
  PROVE  InOrder("record", att, u, Counted(run), lost)
<1>1. IsSession(t) /\ SessionInv(t) /\ t.state = "active" /\ att \in Attempts
  BY DEF InOrder, RestTypes
<1>2. PICK dead \in BOOLEAN : dead = Dead
  BY DEF Dead
<1>3. v = RecordArtifactOmission(t, att, p, o, dead)
  BY <1>2
<1>4. p \in Paths /\ o \in Omitted
  OBVIOUS
<1>5. /\ IsSession(v) /\ v.log = t.log
      /\ v.state = "active" => SessionInv(v) /\ OmitOrStore(t, v)
  BY ONLY <1>1, <1>2, <1>3, <1>4, OmissionInv
<1>6. v.state = "active"
  BY <1>5, SinkNeedsActive
<1>7. Stored(t, v)
  BY <1>5, <1>6 DEF Stored
<1>8. "record" \in {"collect", "record"} /\ InOrder("record", att, t, run, lost)
  OBVIOUS
<1>9. InOrder("record", att, v, run, lost)
  BY ONLY <1>1, <1>7, <1>8, StoredInOrder
<1> QED
  BY <1>9, EmitOfArtifact

\* The run and the world after the artifacts, or one of them, were recorded.
LEMMA RecordedOn ==
  ASSUME ExecuteIInv, pc = "record", NEW x \in BOOLEAN, NEW r \in RunState, NEW u,
         InOrder("record", att, u, r, world.lost), s' = u, run' = WithIncomplete(r, x),
         world' = [world EXCEPT !.lost = @ \/ x], pc' \in {"record", "completed"},
         work'.tree \in Workspace, work'.todo \subseteq Paths,
         work' = [tree |-> work'.tree, todo |-> work'.todo],
         UNCHANGED <<answer, att, cont, ctx, bundle>>
  PROVE  ExecuteIInv'
<1>1. pc \in Writing /\ pc' \in Writing /\ pc \in NoContainerPCs
  BY DEF Writing, AttemptPCs, NoContainerPCs, Closed, EmitCalls
<1>2. bundle = NoBundle /\ RestTypes /\ world \in World /\ att \in Attempts
  BY <1>1, WhileWriting DEF RestTypes
<1>3. PICK lost \in BOOLEAN : lost = world.lost
  BY <1>2 DEF World
<1>4. PICK lost2 \in BOOLEAN : lost2 = (lost \/ x)
  OBVIOUS
<1>5. world' \in World /\ world'.lost = lost2
  BY <1>2, <1>3, <1>4 DEF World
<1>6. PICK q : q = WithIncomplete(r, x)
  OBVIOUS
<1>7. q \in RunState
  BY <1>6, IncompleteFields
<1>8. PICK d \in {"record", "completed"} : d = pc'
  OBVIOUS
<1>9. InOrder(d, att, u, q, lost2)
  <2>1. InOrder("record", att, u, r, lost) /\ Accounts(lost2, lost, x) /\ r \in RunState /\ x \in BOOLEAN
    BY <1>3, <1>4 DEF Accounts
  <2> QED
    BY ONLY <1>2, <1>6, <1>8, <2>1, IncompleteInOrder
<1>10. RestTypes'
  BY <1>2, <1>5, <1>6, <1>7 DEF RestTypes
<1>11. InOrder(pc', att', s', run', world'.lost)
  BY <1>5, <1>6, <1>8, <1>9
<1>12. cont'.state \in {"none", "removed"}
  BY <1>1 DEF ExecuteIInv, ContainerInv
<1> QED
  BY <1>1, <1>2, <1>10, <1>11, <1>12, WritingOnInv

\* Recording what the collector found keeps the invariant.
LEMMA RecordResultInv == ASSUME ExecuteIInv, RecordResult PROVE ExecuteIInv'
<1>0. pc = "record" /\ work.todo # {} /\ UNCHANGED <<att, cont, ctx, bundle>>
  BY DEF RecordResult
<1>1. pc \in Writing /\ pc \in NoContainerPCs
  BY <1>0 DEF Writing, AttemptPCs, NoContainerPCs, Closed
<1>2. /\ bundle = NoBundle /\ RestTypes /\ IsSession(s) /\ att \in Attempts /\ work.todo \subseteq Paths
      /\ cont \in Container /\ run \in RunState
  BY <1>1, WhileWriting DEF RestTypes
<1>3. s.state = "active" /\ InOrder("record", att, s, run, world.lost)
  BY <1>0, <1>1, WhileWriting
<1>4. cont'.state \in {"none", "removed"}
  BY <1>0, <1>1 DEF ExecuteIInv, ContainerInv
<1>5. PICK p \in Paths : p = Min(work.todo)
  BY <1>0, <1>2, MinIsIn
<1>6. PICK stored \in BOOLEAN : stored = (work.tree.files[p] \in {"text", "data"})
  <2>1. PICK K : K = {"text", "data"}
    OBVIOUS
  <2>2. PICK y : y = work.tree.files[p]
    OBVIOUS
  <2>3. (y \in K) \in BOOLEAN
    OBVIOUS
  <2>4. \E z \in BOOLEAN : z = (y \in K)
    BY <2>3, Zenon
  <2> QED
    BY <2>1, <2>2, <2>4, Zenon
<1>7. PICK v : v = IF stored THEN s
                   ELSE RecordArtifactOmission(s, att, p, DispositionOf(work.tree.files[p]), Dead)
  OBVIOUS
<1>8. PICK f \in MayFail :
        LET emitted == SinkEmit(v, IF stored THEN "artifact_activity" ELSE "observer_warning", f)
        IN  \/ Stop("failed") /\ UNCHANGED <<run, work, world>>
            \/ /\ emitted.state = "active" /\ s' = emitted
               /\ run' = WithIncomplete(Counted(run), ~stored)
               /\ work' = [work EXCEPT !.todo = @ \ {p}]
               /\ world' = [world EXCEPT !.lost = @ \/ ~stored]
               /\ UNCHANGED <<pc, answer>>
  BY <1>5, <1>6, <1>7 DEF RecordResult, WithIncomplete
<1>9. CASE Stop("failed") /\ UNCHANGED <<run, work, world>>
  <2>1. RestTypes'
    BY <1>0, <1>2, <1>9, RestKept
  <2> QED
    BY <1>0, <1>2, <1>4, <1>9, <2>1, StopInv
<1>10. PICK u : u = SinkEmit(v, IF stored THEN "artifact_activity" ELSE "observer_warning", f)
  OBVIOUS
<1>11. CASE /\ u.state = "active" /\ s' = u
            /\ run' = WithIncomplete(Counted(run), ~stored)
            /\ work' = [work EXCEPT !.todo = @ \ {p}]
            /\ world' = [world EXCEPT !.lost = @ \/ ~stored]
            /\ UNCHANGED <<pc, answer>>
  <2>1. f \in BOOLEAN
    BY MayFailIsBoolean
  <2>2. PICK lost : lost = world.lost
    OBVIOUS
  <2>3. InOrder("record", att, s, run, lost) /\ u.state = "active"
    BY <1>3, <1>11, <2>2
  <2>4. InOrder("record", att, u, Counted(run), lost)
    <3>1. CASE stored
      <4>1. u = SinkEmit(s, "artifact_activity", f)
            /\ "artifact_activity" \in {"artifact_activity", "observer_warning"}
        BY <1>7, <1>10, <3>1
      <4> QED
        BY ONLY <1>2, <2>1, <2>3, <4>1, EmitOfArtifact
    <3>2. CASE ~stored
      <4>1. PICK o \in Omitted : o = DispositionOf(work.tree.files[p])
        BY DispositionIs
      <4>2. v = RecordArtifactOmission(s, att, p, o, Dead) /\ p \in Paths
        BY <1>7, <3>2, <4>1
      <4>3. u = SinkEmit(v, "observer_warning", f)
        BY <1>10, <3>2
      <4> QED
        BY ONLY <1>2, <2>1, <2>3, <4>1, <4>2, <4>3, OmitAndEmit
    <3> QED
      BY <3>1, <3>2
  <2>5. PICK r \in RunState : r = Counted(run)
    BY <1>2, CountedFields
  <2>6. PICK x \in BOOLEAN : x = ~stored
    OBVIOUS
  <2>7. /\ InOrder("record", att, u, r, world.lost) /\ run' = WithIncomplete(r, x)
        /\ world' = [world EXCEPT !.lost = @ \/ x] /\ s' = u
        /\ pc' \in {"record", "completed"} /\ answer' = answer
    BY <1>0, <1>11, <2>2, <2>4, <2>5, <2>6
  <2>8. /\ work'.tree \in Workspace /\ work'.todo \subseteq Paths
        /\ work' = [tree |-> work'.tree, todo |-> work'.todo]
    BY <1>2, <1>11 DEF RestTypes
  <2> QED
    BY <1>0, <2>5, <2>6, <2>7, <2>8, RecordedOn
<1> QED
  BY <1>8, <1>9, <1>10, <1>11

\* The end of the recording keeps the invariant.
LEMMA RecordedActionInv == ASSUME ExecuteIInv, Recorded PROVE ExecuteIInv'
<1>0. pc = "record" /\ UNCHANGED <<att, cont, work, ctx, bundle>>
  BY DEF Recorded
<1>1. pc \in Writing /\ pc \in NoContainerPCs
  BY <1>0 DEF Writing, AttemptPCs, NoContainerPCs, Closed
<1>2. /\ bundle = NoBundle /\ RestTypes /\ IsSession(s) /\ att \in Attempts
      /\ cont \in Container /\ run \in RunState
  BY <1>1, WhileWriting DEF RestTypes
<1>3. s.state = "active" /\ InOrder("record", att, s, run, world.lost)
  BY <1>0, <1>1, WhileWriting
<1>4. cont'.state \in {"none", "removed"}
  BY <1>0, <1>1 DEF ExecuteIInv, ContainerInv
<1>5. PICK blocked \in BOOLEAN : blocked = (ArtifactPaths = {} /\ ~CollectionComplete)
  OBVIOUS
<1>6. PICK f \in MayFail :
        LET t == IF blocked THEN RecordBlocked(f) ELSE s
        IN  \/ Stop("failed") /\ UNCHANGED <<run, world>>
            \/ /\ t.state = "active" /\ s' = t
               /\ run' = WithIncomplete(IF blocked THEN Counted(run) ELSE run, ~CollectionComplete)
               /\ world' = [world EXCEPT !.lost = @ \/ ~CollectionComplete]
               /\ pc' = "completed" /\ UNCHANGED answer
  BY <1>5 DEF Recorded, WithIncomplete
<1>7. PICK u : u = IF blocked THEN RecordBlocked(f) ELSE s
  OBVIOUS
<1>8. CASE Stop("failed") /\ UNCHANGED <<run, world>>
  <2>1. RestTypes'
    BY <1>0, <1>2, <1>8, RestKept
  <2> QED
    BY <1>0, <1>2, <1>4, <1>8, <2>1, StopInv
<1>9. CASE /\ u.state = "active" /\ s' = u
           /\ run' = WithIncomplete(IF blocked THEN Counted(run) ELSE run, ~CollectionComplete)
           /\ world' = [world EXCEPT !.lost = @ \/ ~CollectionComplete]
           /\ pc' = "completed" /\ UNCHANGED answer
  <2>1. PICK r : r = IF blocked THEN Counted(run) ELSE run
    OBVIOUS
  <2>2. PICK lost : lost = world.lost
    OBVIOUS
  <2>3. InOrder("record", att, s, run, lost) /\ f \in BOOLEAN
    BY <1>3, <2>2, MayFailIsBoolean
  <2>4. r \in RunState /\ InOrder("record", att, u, r, lost)
    <3>1. CASE ~blocked
      BY <1>2, <1>7, <2>1, <2>3, <3>1
    <3>2. CASE blocked
      <4>1. BlockedPaths # {} /\ BlockedPaths \subseteq Paths
        BY <1>5, <3>2 DEF CollectionComplete, ArtifactPaths, BlockedPaths, PathsOf, NotComplete, FileKind
      <4>2. PICK p \in Paths : p = Min(BlockedPaths)
        BY <4>1, MinIsIn
      <4>3. PICK o \in Omitted : o = DispositionOf("blocked")
        BY DispositionIs
      <4>4. PICK v : v = RecordArtifactOmission(s, att, p, o, Dead)
        OBVIOUS
      <4>5. PICK w : w = SinkEmit(v, "observer_warning", f)
        OBVIOUS
      <4>6. u = IF MayRecordOmission(s, att, p) THEN w ELSE Fail(w)
        BY <1>7, <3>2, <4>2, <4>3, <4>4, <4>5 DEF RecordBlocked
      <4>7. IsSession(w)
        <5>1. IsSession(v)
          <6>1. SessionInv(s) /\ s.state = "active" /\ p \in Paths
            BY <1>3 DEF InOrder
          <6>2. PICK dead \in BOOLEAN : dead = Dead
            BY DEF Dead
          <6>3. v = RecordArtifactOmission(s, att, p, o, dead)
            BY <4>4, <6>2
          <6> QED
            BY ONLY <1>2, <4>3, <6>1, <6>2, <6>3, OmissionInv
        <5>2. "observer_warning" \in EventKinds
          BY DEF EventKinds
        <5> QED
          BY ONLY <1>2, <2>3, <4>5, <5>1, <5>2, SinkTyped
      <4>8. u = w
        <5>1. Fail(w).state = "failed"
          BY <4>7, FailIsSession
        <5> QED
          BY <1>9, <4>6, <5>1
      <4>9. w.state = "active" /\ p \in Paths
        BY <1>9, <4>8
      <4>10. InOrder("record", att, w, Counted(run), lost)
        BY ONLY <1>2, <2>3, <4>3, <4>4, <4>5, <4>9, OmitAndEmit
      <4>11. Counted(run) \in RunState
        BY <1>2, CountedFields
      <4> QED
        BY <2>1, <3>2, <4>8, <4>10, <4>11
    <3> QED
      BY <3>1, <3>2
  <2>5. PICK x \in BOOLEAN : x = ~CollectionComplete
    OBVIOUS
  <2>6. /\ InOrder("record", att, u, r, world.lost) /\ run' = WithIncomplete(r, x)
        /\ world' = [world EXCEPT !.lost = @ \/ x] /\ s' = u
        /\ pc' \in {"record", "completed"} /\ answer' = answer /\ r \in RunState
    BY <1>9, <2>1, <2>2, <2>4, <2>5
  <2>7. /\ work'.tree \in Workspace /\ work'.todo \subseteq Paths
        /\ work' = [tree |-> work'.tree, todo |-> work'.todo]
    BY <1>0, <1>2 DEF RestTypes
  <2> QED
    BY <1>0, <2>5, <2>6, <2>7, RecordedOn
<1> QED
  BY <1>6, <1>7, <1>8, <1>9

-----------------------------------------------------------------------------
(* From one attempt to the next, and to the commit.                        *)

\* The counters an attempt begins with.
LEMMA FreshIsAttempt ==
  /\ FreshAttempt \in ThisAttempt /\ FreshAttempt.truncated = {}
  /\ FreshAttempt.first = 0 /\ FreshAttempt.last = 0 /\ FreshAttempt.count = 0
BY ExecuteAssumption DEF FreshAttempt, ThisAttempt, NoOutput, Statuses

\* The run after an attempt whose result is x.
WithResultOf(r, x) == [r EXCEPT !.results = Append(@, x), !.this = FreshAttempt]
ResultAppended(r, q, x) ==
  /\ q \in RunState /\ q.seq = r.seq /\ q.incomplete = r.incomplete /\ q.this = FreshAttempt
  /\ Len(q.results) = Len(r.results) + 1
  /\ \A b \in 1..Len(r.results) : q.results[b] = r.results[b]
  /\ q.results[Len(r.results) + 1] = x

\* The run with a result more, field by field.
LEMMA ResultFields ==
  ASSUME NEW r \in RunState, NEW x \in Result, NEW q, q = WithResultOf(r, x)
  PROVE  ResultAppended(r, q, x)
<1>1. PICK z \in Seq(Result) : z = r.results
  BY RunFields
<1>2. PICK y : y = Append(z, x)
  OBVIOUS
<1>3. /\ y \in Seq(Result) /\ Len(y) = Len(z) + 1 /\ y[Len(z) + 1] = x
      /\ \A b \in 1..Len(z) : y[b] = z[b]
  BY <1>2
<1>4. q = [r EXCEPT !.results = y, !.this = FreshAttempt]
  BY <1>1, <1>2 DEF WithResultOf, RunState
<1>5. /\ q \in RunState /\ q.seq = r.seq /\ q.incomplete = r.incomplete /\ q.this = FreshAttempt
      /\ q.results = y
  BY <1>3, <1>4, FreshIsAttempt DEF RunState
<1> QED
  BY <1>1, <1>3, <1>5 DEF ResultAppended

\* The result of an attempt, field by field.
LEMMA ResultIs ==
  ASSUME NEW h \in ThisAttempt, NEW x, x = AttemptResult(h)
  PROVE  /\ x \in Result /\ x.status = h.status /\ x.exit = h.exit /\ x.first = h.first
         /\ x.last = h.last /\ x.count = h.count
BY DEF ThisAttempt, AttemptResult, Result

\* What the ended attempt leaves.
LEMMA EndedFinished ==
  ASSUME NEW a \in Attempts, NEW t, NEW r \in RunState, NEW lost, InOrder("ended", a, t, r, lost),
         NEW x, x = AttemptResult(r.this)
  PROVE  Finished(t, a, x)
<1>1. CurrentAttempt("ended", a, t, r.this)
  BY DEF InOrder, Progress
<1>2. PICK h \in ThisAttempt : h = r.this
  BY RunFields
<1>3. /\ x.status = h.status /\ x.exit = h.exit /\ x.first = h.first
      /\ x.last = h.last /\ x.count = h.count
  BY <1>2, ResultIs
<1>4. RangeMatches(t, a, x)
  BY <1>1, <1>2, <1>3 DEF CurrentAttempt, RangeMatches
<1>5. OutcomeCoherent(x)
  BY <1>1, <1>2, <1>3 DEF CurrentAttempt, OutcomeCoherent, Closed
<1>6. /\ t.events[a] # <<>>
      /\ t.events[a][1].kind = "scenario_started"
      /\ t.events[a][Len(t.events[a])].kind = "scenario_completed"
      /\ \A st \in Streams : t.log[a][st].file = "closed"
  BY <1>1 DEF CurrentAttempt, Closed, Fresh
<1> QED
  BY <1>4, <1>5, <1>6 DEF Finished

\* The results of the attempts that have ended.
LEMMA NextResults ==
  ASSUME NEW a \in Attempts, NEW t, NEW r \in RunState, NEW lost, InOrder("ended", a, t, r, lost),
         NEW x, x = AttemptResult(r.this), NEW q, ResultAppended(r, q, x)
  PROVE  Len(q.results) = a /\ \A b \in 1..Len(q.results) : Finished(t, b, q.results[b])
<1>1. Len(r.results) = a - 1 /\ \A b \in 1..Len(r.results) : Finished(t, b, r.results[b])
  BY DEF InOrder, Progress
<1>2. a \in Nat /\ a >= 1
  BY DEF Attempts
<1>3. /\ Len(q.results) = Len(r.results) + 1
      /\ \A b \in 1..Len(r.results) : q.results[b] = r.results[b]
      /\ q.results[Len(r.results) + 1] = x
  BY DEF ResultAppended
<1>4. Finished(t, a, x)
  BY EndedFinished
<1>5. Len(q.results) = a /\ q.results[a] = x
  BY <1>1, <1>2, <1>3
<1>6. ASSUME NEW b \in 1..Len(q.results) PROVE Finished(t, b, q.results[b])
  <2>1. CASE b = a
    BY <1>4, <1>5, <2>1
  <2>2. CASE b # a
    <3>1. b \in 1..Len(r.results)
      BY <1>1, <1>2, <1>5, <2>2
    <3> QED
      BY <1>1, <1>3, <3>1
  <2> QED
    BY <2>1, <2>2
<1> QED
  BY <1>5, <1>6

\* The next attempt begins in order.
LEMMA NextInOrder ==
  ASSUME NEW a \in Attempts, NEW t, NEW r \in RunState, NEW lost, InOrder("ended", a, t, r, lost),
         NEW x, x = AttemptResult(r.this), NEW q, ResultAppended(r, q, x), a + 1 \in Attempts
  PROVE  InOrder("before", a + 1, t, q, lost)
<1>1. /\ IsSession(t) /\ t.state = "active" /\ SessionInv(t) /\ Progress("ended", a, t, r)
      /\ NothingLostYet("ended", t, r, lost) /\ TotalLogBytes(t) <= MaxTotalLogBytes
  BY DEF InOrder
<1>2. Len(q.results) = a /\ \A b \in 1..Len(q.results) : Finished(t, b, q.results[b])
  BY NextResults
<1>3. q.seq = r.seq /\ q.incomplete = r.incomplete /\ q.this = FreshAttempt
  BY DEF ResultAppended
<1>4. a \in Nat
  BY DEF Attempts
<1>5. \A b \in Attempts : b > a => Untouched(t, b)
  BY <1>1 DEF Progress
<1>6. Untouched(t, a + 1) /\ \A b \in Attempts : b > a + 1 => Untouched(t, b)
  BY <1>4, <1>5 DEF Attempts
<1>7. CurrentAttempt("before", a + 1, t, q.this)
  <2>1. PICK m \in Attempts : m = a + 1
    OBVIOUS
  <2>2. t.events[m] = <<>> /\ \A st \in Streams : t.log[m][st].file = "none"
    BY <1>6, <2>1 DEF Untouched
  <2>3. RangeMatches(t, m, FreshAttempt)
    BY <2>2, FreshIsAttempt DEF RangeMatches, FirstSeq, LastSeq
  <2>4. CurrentAttempt("before", m, t, FreshAttempt)
    BY <2>2, <2>3 DEF CurrentAttempt, Fresh, Closed
  <2> QED
    BY <1>3, <2>1, <2>4
<1>8. Progress("before", a + 1, t, q)
  <2>1. Len(q.results) = (a + 1) - 1
    BY <1>2, <1>4
  <2>2. t.next = q.seq
    BY <1>1, <1>3 DEF Progress
  <2> QED
    BY <1>2, <1>6, <1>7, <2>1, <2>2 DEF Progress
<1>9. NothingLostYet("before", t, q, lost)
  BY <1>1, <1>3, FreshIsAttempt DEF NothingLostYet, Closed
<1> QED
  BY <1>1, <1>8, <1>9 DEF InOrder

\* After the last attempt everything is ready to commit.
LEMMA LastInOrder ==
  ASSUME NEW a \in Attempts, NEW t, NEW r \in RunState, NEW lost, InOrder("ended", a, t, r, lost),
         NEW x, x = AttemptResult(r.this), NEW q, ResultAppended(r, q, x), a = N
  PROVE  InOrder("commit", a, t, q, lost)
<1>1. /\ IsSession(t) /\ t.state = "active" /\ SessionInv(t) /\ Progress("ended", a, t, r)
      /\ NothingLostYet("ended", t, r, lost) /\ TotalLogBytes(t) <= MaxTotalLogBytes
  BY DEF InOrder
<1>2. Len(q.results) = a /\ \A b \in 1..Len(q.results) : Finished(t, b, q.results[b])
  BY NextResults
<1>3. q.seq = r.seq /\ q.incomplete = r.incomplete /\ q.this = FreshAttempt
  BY DEF ResultAppended
<1>4. Progress("commit", a, t, q)
  BY <1>1, <1>2, <1>3 DEF Progress
<1>5. NothingLostYet("commit", t, q, lost)
  BY <1>1, <1>3, FreshIsAttempt DEF NothingLostYet, Closed
<1> QED
  BY <1>1, <1>4, <1>5 DEF InOrder

\* An attempt begins without a container.
LEMMA NoContainerIs == NoContainer \in Container /\ NoContainer.state = "none"
BY DEF NoContainer, Container

\* Going to the next attempt keeps the invariant.
LEMMA NextAttemptInv == ASSUME ExecuteIInv, NextAttempt PROVE ExecuteIInv'
<1>0. pc = "ended" /\ cont' = NoContainer /\ UNCHANGED <<bundle, faults, world>>
      /\ work' = [tree |-> EmptyWorkspace, todo |-> {}]
      /\ ctx' = IF ctx = "attempt" THEN "live" ELSE ctx
  BY DEF NextAttempt
<1>1. pc \in Writing /\ "before" \in Writing /\ "commit" \in Writing
  BY <1>0 DEF Writing, AttemptPCs
<1>2. /\ bundle = NoBundle /\ RestTypes /\ att \in Attempts /\ run \in RunState
      /\ world \in World /\ ctx \in {"live", "attempt", "run"}
  BY <1>1, WhileWriting DEF RestTypes
<1>3. PICK lost : lost = world.lost
  OBVIOUS
<1>4. InOrder("ended", att, s, run, lost)
  BY <1>0, <1>1, <1>3, WhileWriting
<1>5. PICK x : x = AttemptResult(run.this)
  OBVIOUS
<1>6. x \in Result
  BY <1>2, <1>5, RunFields, ResultIs
<1>7. PICK q : q = WithResultOf(run, x)
  OBVIOUS
<1>8. ResultAppended(run, q, x)
  BY <1>2, <1>6, <1>7, ResultFields
<1>9. q \in RunState
  BY <1>8 DEF ResultAppended
<1>10. run' = q
  BY <1>5, <1>7 DEF NextAttempt, WithResultOf
<1>11. /\ cont' \in Container /\ cont'.state \in {"none", "removed"} /\ ctx' \in {"live", "attempt", "run"}
       /\ work'.tree \in Workspace /\ work'.todo \subseteq Paths
       /\ work' = [tree |-> work'.tree, todo |-> work'.todo]
  BY <1>0, <1>2, NoContainerIs DEF EmptyWorkspace, Workspace, FileKind
<1>12. \/ att < N /\ att' = att + 1 /\ (Stop("failed") \/ (pc' = "before" /\ UNCHANGED <<s, answer>>))
       \/ att = N /\ pc' = "commit" /\ UNCHANGED <<att, s, answer>>
  BY DEF NextAttempt
<1>13. att' \in Attempts
  BY <1>2, <1>12, EvidenceAssumption DEF Attempts
<1>14. RestTypes'
  BY <1>0, <1>2, <1>9, <1>10, <1>11, <1>13 DEF RestTypes
<1>15. CASE Stop("failed")
  BY <1>0, <1>2, <1>11, <1>14, <1>15, StopInv
<1>16. CASE att' = att + 1 /\ pc' = "before" /\ UNCHANGED <<s, answer>>
  <2>1. att + 1 \in Attempts
    BY <1>13, <1>16
  <2>2. InOrder("before", att + 1, s, q, lost)
    BY ONLY <1>2, <1>4, <1>5, <1>8, <2>1, NextInOrder
  <2>3. InOrder(pc', att', s', run', world'.lost)
    BY <1>0, <1>3, <1>10, <1>16, <2>2
  <2> QED
    BY <1>0, <1>1, <1>2, <1>11, <1>14, <1>16, <2>3, WritingOnInv
<1>17. CASE att = N /\ pc' = "commit" /\ UNCHANGED <<att, s, answer>>
  <2>1. att = N
    BY <1>17
  <2>2. InOrder("commit", att, s, q, lost)
    BY ONLY <1>2, <1>4, <1>5, <1>8, <2>1, LastInOrder
  <2>3. InOrder(pc', att', s', run', world'.lost)
    BY <1>0, <1>3, <1>10, <1>17, <2>2
  <2> QED
    BY <1>0, <1>1, <1>2, <1>11, <1>14, <1>17, <2>3, WritingOnInv
<1> QED
  BY <1>12, <1>15, <1>16, <1>17

\* What Commit finds.
LEMMA CommitFinds ==
  ASSUME NEW a, NEW t, NEW r \in RunState, NEW lost, InOrder("commit", a, t, r, lost), NEW x,
         x = [results |-> r.results, complete |-> TRUE, incomplete |-> r.incomplete,
              total |-> r.seq]
  PROVE  /\ LogsClosed(t) /\ CompletionOf(t, x) /\ x.incomplete = r.incomplete
         /\ Accounts(lost, t.incomplete, x.incomplete)
<1>1. Progress("commit", a, t, r) /\ NothingLostYet("commit", t, r, lost)
  BY DEF InOrder
<1>2. /\ Len(r.results) = N /\ t.next = r.seq
      /\ \A b \in 1..Len(r.results) : Finished(t, b, r.results[b])
  BY <1>1 DEF Progress
<1>3. \A b \in Attempts : Finished(t, b, r.results[b])
  BY <1>2 DEF Attempts
<1>4. LogsClosed(t)
  BY <1>3 DEF LogsClosed, Finished
<1>5. /\ x.results = r.results /\ x.complete = TRUE /\ x.incomplete = r.incomplete
      /\ x.total = r.seq
  OBVIOUS
<1>6. \A b \in Attempts : AttemptWhole(t, b, r.results[b])
  BY <1>3 DEF AttemptWhole, Finished
<1>7. CompletionOf(t, x)
  BY <1>2, <1>5, <1>6, RunFields DEF CompletionOf
<1>8. Accounts(lost, t.incomplete, x.incomplete)
  BY <1>1, <1>5 DEF NothingLostYet, Accounts
<1> QED
  BY <1>4, <1>5, <1>7, <1>8

\* Session.Commit keeps the invariant: it fails, or what it stages may be published.
LEMMA CommitInv == ASSUME ExecuteIInv, Commit PROVE ExecuteIInv'
<1>0. pc = "commit" /\ UNCHANGED <<att, run, cont, work, ctx, bundle, world>>
  BY DEF Commit
<1>1. pc \in Writing /\ pc \in NoContainerPCs
  BY <1>0 DEF Writing, NoContainerPCs
<1>2. /\ bundle = NoBundle /\ RestTypes /\ cont \in Container /\ run \in RunState
      /\ IsSession(s) /\ world \in World /\ TotalLogBytes(s) <= MaxTotalLogBytes
  BY <1>1, WhileWriting DEF RestTypes
<1>3. s.state = "active" /\ InOrder(pc, att, s, run, world.lost)
  BY <1>0, <1>1, WhileWriting
<1>4. RestTypes'
  BY <1>0, <1>2, RestKept
<1>5. cont'.state \in {"none", "removed"}
  BY <1>0, <1>1 DEF ExecuteIInv, ContainerInv
<1>6. PICK r : /\ r = Fail(s) \/ r = Staged(s, Completion)
               /\ IF r.state # "active" THEN Stop("failed")
                  ELSE pc' = "publish" /\ s' = r /\ UNCHANGED answer
  BY DEF Commit
<1>7. CASE r.state # "active"
  BY <1>0, <1>2, <1>4, <1>5, <1>6, <1>7, StopInv
<1>8. CASE r.state = "active"
  <2>1. pc' = "publish" /\ s' = r /\ answer' = answer
    BY <1>6, <1>8
  <2>2. r = Staged(s, Completion)
    BY <1>2, <1>6, <1>8, FailIsSession
  <2>3. PICK lost \in BOOLEAN : lost = world.lost
    BY <1>2 DEF World
  <2>4. PICK x : x = Completion
    OBVIOUS
  <2>5. PICK t : t = s
    OBVIOUS
  <2>6. PICK q \in RunState : q = run
    BY <1>2
  <2>7. /\ InOrder("commit", att, t, q, lost)
        /\ x = [results |-> q.results, complete |-> TRUE, incomplete |-> q.incomplete,
                total |-> q.seq]
    BY <1>0, <1>3, <2>3, <2>4, <2>5, <2>6 DEF Completion
  <2>8. /\ LogsClosed(t) /\ CompletionOf(t, x) /\ Accounts(lost, t.incomplete, x.incomplete)
    BY ONLY <2>6, <2>7, CommitFinds
  <2>9. IsSession(t) /\ t.state = "active" /\ SessionInv(t) /\ r = Staged(t, x)
    BY <1>2, <1>3, <2>2, <2>4, <2>5 DEF InOrder
  <2>10. lost => t.incomplete \/ x.incomplete
    BY <2>8 DEF Accounts
  <2>11. IsSession(r) /\ r.next = t.next /\ r.log = t.log /\ Sound(r, lost)
    BY ONLY <1>8, <2>3, <2>8, <2>9, <2>10, StagedSound
  <2>12. r.next = run.seq
    BY <2>5, <2>6, <2>7, <2>11 DEF InOrder, Progress
  <2>13. TotalLogBytes(r) <= MaxTotalLogBytes
    BY <1>2, <2>5, <2>11, TotalLogBytesSame
  <2>14. ExecTypes'
    BY <1>0, <1>4, <1>8, <2>1, <2>11, <2>12, <2>13 DEF ExecTypes, RestTypes, ExecuteIInv, PCs
  <2>15. WritingInv'
    BY <2>1 DEF WritingInv, Writing, AttemptPCs, EmitCalls
  <2>16. PublishedInv'
    BY <1>0, <1>2, <1>8, <2>1, <2>3, <2>11, <2>12, NoBundleIsFcn DEF PublishedInv
  <2>17. ContainerInv'
    BY <1>5, <2>1 DEF ContainerInv
  <2> QED
    BY <1>0, <1>2, <2>14, <2>15, <2>16, <2>17
      DEF ExecuteIInv, PublishedVerifies, CompleteMeansNothingLost
<1> QED
  BY <1>7, <1>8

-----------------------------------------------------------------------------
(* The session of Begin, and the induction.                                *)

\* The session of Writer.Begin, field by field.
LEMMA BeginFields ==
  /\ Begin.state = "active" /\ Begin.next = 0 /\ Begin.current = 1 /\ Begin.incomplete = FALSE
  /\ \A a \in Attempts :
       /\ Begin.events[a] = <<>> /\ Begin.eventsOpen[a] = FALSE /\ Begin.arts[a] = <<>>
       /\ \A st \in Streams : Begin.log[a][st] = NoLog
       /\ Begin.states[a] = [events |-> "not_provided", stdout |-> "not_provided",
                             stderr |-> "not_provided", artifacts |-> "not_provided",
                             result |-> "not_provided"]
  /\ Begin.objects = {} /\ Begin.entries = [p \in {Plan} |-> PlanContent]
  /\ Begin.files = Begin.entries
BY DEF Begin

\* The session of Writer.Begin is in order.
LEMMA BeginInv == SessionInv(Begin)
<1> DEFINE b == Begin
<1>1. DOMAIN b.entries = {Plan} /\ b.entries[Plan] = PlanContent /\ IsFcn(b.entries)
  BY BeginFields DEF IsFcn
<1>2. \A a \in Attempts : EventsOf(a) # Plan /\ IndexOf(a) # Plan /\ ResultOf(a) # Plan
                          /\ \A st \in Streams : LogOf(a, st) # Plan
  BY NameHeads, NamesDiffer DEF Streams
<1>3. \A d \in Digest : ObjectOf(d) # Plan
  BY NameHeads
<1>4. NoLog.file = "none" /\ NoLog.truncated = FALSE
  BY DEF NoLog
<1>5. Listed(b, 0, 0, <<>>)
  <2>1. ASSUME NEW a \in Attempts
        PROVE  /\ EventsOf(a) \notin DOMAIN b.entries /\ b.events[a] = <<>>
               /\ \A st \in Streams : LogOf(a, st) \notin DOMAIN b.entries /\ b.log[a][st].file # "closed"
               /\ IndexOf(a) \notin DOMAIN b.entries /\ ~(a <= 0)
               /\ ResultOf(a) \notin DOMAIN b.entries
    BY <1>1, <1>2, <1>4, BeginFields DEF Attempts
  <2>2. \A d \in Digest : ObjectOf(d) \notin DOMAIN b.entries /\ d \notin b.objects
    BY <1>1, <1>3, BeginFields
  <2>3. \A p \in DOMAIN b.entries : FileName(p)
    BY <1>1 DEF FileName
  <2> HIDE DEF b
  <2> QED
    BY <1>1, <2>1, <2>2, <2>3 DEF Listed
<1>6. Written(b)
  <2>1. \A a \in Attempts : ~b.eventsOpen[a] /\ \A st \in Streams : b.log[a][st] = NoLog
    BY BeginFields
  <2>2. b.files = b.entries
    BY BeginFields
  <2> HIDE DEF b
  <2> QED
    BY <1>1, <1>4, <2>1, <2>2 DEF Written
<1>7. Numbered(b)
  <2>1. \A a \in Attempts : b.events[a] = <<>>
    BY BeginFields
  <2>2. 1 \in Attempts
    BY EvidenceAssumption DEF Attempts
  <2>3. b.current = 1 /\ b.next = 0
    BY BeginFields
  <2> HIDE DEF b
  <2>4. [a \in Attempts |-> Len(b.events[a])] = [a \in Attempts |-> 0]
    BY <2>1
  <2>5. TotalEvents(b) = 0
    BY <2>4, AttemptsFinite, SumOfZeros DEF TotalEvents
  <2>6. LastSeq(b.events[1]) = 0
    BY <2>1, <2>2 DEF LastSeq
  <2>7. \A a \in Attempts : ~(a < 1)
    BY DEF Attempts
  <2> QED
    BY <2>1, <2>3, <2>5, <2>6, <2>7 DEF Numbered
<1>8. OnlyCurrentOpen(b)
  BY BeginFields DEF OnlyCurrentOpen
<1>9. StatesTell(b)
  BY <1>4, BeginFields DEF StatesTell, Streams
<1>10. ArtifactsRefer(b)
  BY BeginFields DEF ArtifactsRefer
<1> QED
  BY <1>5, <1>6, <1>7, <1>8, <1>9, <1>10 DEF SessionInv

\* The invariant holds when the run begins.
LEMMA InitInv == ASSUME Init PROVE ExecuteIInv
<1>0. /\ pc = "plan" /\ att = 1 /\ s = Begin /\ cont = NoContainer /\ bundle = NoBundle
      /\ run = [seq |-> 0, frames |-> 0, results |-> <<>>, incomplete |-> FALSE,
                this |-> FreshAttempt]
      /\ work = [tree |-> EmptyWorkspace, todo |-> {}] /\ ctx = "live" /\ answer = "none"
      /\ world = [lost |-> FALSE, leaked |-> FALSE, damaged |-> FALSE]
  BY DEF Init
<1>1. run \in RunState /\ run.seq = 0 /\ run.results = <<>> /\ run.this = FreshAttempt
      /\ run.incomplete = FALSE
  BY <1>0, FreshIsAttempt DEF RunState
<1>2. 1 \in Attempts
  BY EvidenceAssumption DEF Attempts
<1>3. work.tree \in Workspace /\ work.todo \subseteq Paths
      /\ work = [tree |-> work.tree, todo |-> work.todo]
  BY <1>0 DEF EmptyWorkspace, Workspace, FileKind
<1>4. IsSession(s) /\ s.state = "active" /\ TotalLogBytes(s) = 0 /\ s.next = 0 /\ SessionInv(s)
  BY <1>0, BeginIsSession, BeginFields, BeginInv
<1>5. ExecTypes
  BY <1>0, <1>1, <1>2, <1>3, <1>4, NoContainerIs, LogLimits DEF ExecTypes, PCs, World
<1>6. \A a \in Attempts : Untouched(s, a)
  BY <1>0, BeginFields, NoLogIsLog DEF Untouched
<1>7. CurrentAttempt("plan", 1, s, FreshAttempt)
  <2>1. s.events[1] = <<>> /\ \A st \in Streams : s.log[1][st].file = "none"
    BY <1>2, <1>6 DEF Untouched
  <2>2. RangeMatches(s, 1, FreshAttempt)
    BY <2>1, FreshIsAttempt DEF RangeMatches, FirstSeq, LastSeq
  <2> QED
    BY <2>1, <2>2 DEF CurrentAttempt, Fresh, Closed
<1>8. Progress(pc, att, s, run)
  BY <1>0, <1>1, <1>4, <1>6, <1>7 DEF Progress
<1>9. NothingLostYet(pc, s, run, world.lost)
  BY <1>0, <1>1 DEF NothingLostYet, Closed
<1>10. WritingInv
  BY <1>0, <1>4, <1>8, <1>9 DEF WritingInv
<1>11. PublishedInv
  BY <1>0, NoBundleIsFcn DEF PublishedInv
<1>12. ContainerInv
  BY <1>0, NoContainerIs DEF ContainerInv
<1> QED
  BY <1>0, <1>5, <1>10, <1>11, <1>12 DEF ExecuteIInv, PublishedVerifies, CompleteMeansNothingLost

\* Every step of the run keeps the invariant.
LEMMA NextInv == ASSUME ExecuteIInv, Next PROVE ExecuteIInv'
<1>1. ASSUME CheckPlan PROVE ExecuteIInv'
  BY <1>1, CheckPlanInv
<1>2. ASSUME BeforeAttempt PROVE ExecuteIInv'
  BY <1>2, BeforeAttemptInv
<1>3. ASSUME EmitEvent PROVE ExecuteIInv'
  BY <1>3, EmitEventInv
<1>4. ASSUME InspectImage PROVE ExecuteIInv'
  BY <1>4, InspectImageInv
<1>5. ASSUME CreateContainer PROVE ExecuteIInv'
  BY <1>5, CreateContainerInv
<1>6. ASSUME AttachContainer PROVE ExecuteIInv'
  BY <1>6, AttachContainerInv
<1>7. ASSUME StartContainer PROVE ExecuteIInv'
  BY <1>7, StartContainerInv
<1>8. ASSUME EnterDecode PROVE ExecuteIInv'
  BY <1>8, EnterDecodeInv
<1>9. ASSUME EndOfStream PROVE ExecuteIInv'
  BY <1>9, EndOfStreamInv
<1>10. ASSUME WaitContainer PROVE ExecuteIInv'
  BY <1>10, WaitContainerInv
<1>11. ASSUME WaitExpires PROVE ExecuteIInv'
  BY <1>11, WaitExpiresInv
<1>12. ASSUME InspectContainer PROVE ExecuteIInv'
  BY <1>12, InspectContainerInv
<1>13. ASSUME CleanUp PROVE ExecuteIInv'
  BY <1>13, CleanUpInv
<1>14. ASSUME RemoveContainer PROVE ExecuteIInv'
  BY <1>14, RemoveContainerInv
<1>15. ASSUME AfterAttempt PROVE ExecuteIInv'
  BY <1>15, AfterAttemptInv
<1>16. ASSUME CollectFile PROVE ExecuteIInv'
  BY <1>16, CollectFileInv
<1>17. ASSUME Collect PROVE ExecuteIInv'
  BY <1>17, CollectInv
<1>18. ASSUME RecordResult PROVE ExecuteIInv'
  BY <1>18, RecordResultInv
<1>19. ASSUME Recorded PROVE ExecuteIInv'
  BY <1>19, RecordedActionInv
<1>20. ASSUME NextAttempt PROVE ExecuteIInv'
  BY <1>20, NextAttemptInv
<1>21. ASSUME Commit PROVE ExecuteIInv'
  BY <1>21, CommitInv
<1>22. ASSUME Publish PROVE ExecuteIInv'
  BY <1>22, PublishInv
<1>23. ASSUME SyncParent PROVE ExecuteIInv'
  BY <1>23, SyncParentInv
<1>24. ASSUME Verify PROVE ExecuteIInv'
  BY <1>24, VerifyInv
<1>25. ASSUME ReadBundle PROVE ExecuteIInv'
  BY <1>25, ReadBundleInv
<1>26. ASSUME Executor PROVE ExecuteIInv'
  BY <1>1, <1>2, <1>3, <1>4, <1>5, <1>6, <1>7, <1>8, <1>9, <1>10, <1>11, <1>12, <1>13, <1>14, <1>15,
     <1>16, <1>17, <1>18, <1>19, <1>20, <1>21, <1>22, <1>23, <1>24, <1>25, <1>26 DEF Executor
<1>27. ASSUME Frames PROVE ExecuteIInv'
  BY <1>27, ReadFrameInv DEF Frames
<1>28. ASSUME ContainerEnds PROVE ExecuteIInv'
  BY <1>28, ContainerEndsInv
<1>29. ASSUME CloseStreams PROVE ExecuteIInv'
  BY <1>29, CloseStreamsInv
<1>30. ASSUME Expire PROVE ExecuteIInv'
  BY <1>30, ExpireInv
<1>31. ASSUME Crash PROVE ExecuteIInv'
  BY <1>31, CrashInv
<1>32. ASSUME Damage PROVE ExecuteIInv'
  BY <1>32, DamageInv
<1> QED
  BY <1>26, <1>27, <1>28, <1>29, <1>30, <1>31, <1>32 DEF Next

\* The inductive invariant holds throughout every run of the executor, for any number of
\* attempts, any limits and any workspaces.
THEOREM ExecuteIsInductive == Spec => []ExecuteIInv
<1>1. Init => ExecuteIInv
  BY InitInv
<1>2. ExecuteIInv /\ [Next]_vars => ExecuteIInv'
  BY NextInv, StutterInv
<1> QED
  BY <1>1, <1>2, PTL DEF Spec

\* Publish renames a directory that was synced whole: whatever is visible under the final
\* name, after any failure or crash, is accepted by the strict reader while it is not
\* damaged and its indexes are in order.
THEOREM PublishedIsReadable == Spec => []PublishedVerifies
<1>1. ExecuteIInv => PublishedVerifies
  BY DEF ExecuteIInv
<1> QED
  BY <1>1, ExecuteIsInductive, PTL

\* A manifest that says evidence_complete is of a run in which neither the runner nor the
\* session dropped a byte or an artifact.
THEOREM CompleteIsComplete == Spec => []CompleteMeansNothingLost
<1>1. ExecuteIInv => CompleteMeansNothingLost
  BY DEF ExecuteIInv
<1> QED
  BY <1>1, ExecuteIsInductive, PTL

\* Every capture state of a session is one of the capture states.
LEMMA StatesAreTyped ==
  ASSUME NEW t, IsSession(t), NEW a \in Attempts, NEW f \in DOMAIN t.states[a]
  PROVE  t.states[a][f] \in CaptureState
<1>1. PICK z \in States : z = t.states[a]
  BY SessionFields
<1>2. f \in {"events", "stdout", "stderr", "artifacts", "result"}
  BY <1>1 DEF States
<1>3. z["events"] \in CaptureState /\ z["stdout"] \in CaptureState /\ z["stderr"] \in CaptureState
      /\ z["artifacts"] \in CaptureState /\ z["result"] \in CaptureState
  BY DEF States
<1> QED
  BY <1>1, <1>2, <1>3

\* A container of a create call without an answer is left only by a run that failed: the
\* runner stops there and then, and nothing of the run happens afterwards.
LeakEndsRun == world.leaked => pc = "done" /\ answer = "failed"

LEMMA LeakStep == ASSUME ExecuteIInv, LeakEndsRun, [Next]_vars PROVE LeakEndsRun'
<1>1. world \in World
  BY DEF ExecuteIInv, ExecTypes
<1>2. CASE world.leaked
  <2>1. pc = "done" /\ answer = "failed"
    BY <1>2 DEF LeakEndsRun
  <2>2. UNCHANGED vars \/ ContainerEnds \/ CloseStreams
    BY <2>1 DEF Next, Executor, Frames, Expire, Crash, Damage, Running, CheckPlan, BeforeAttempt,
         EmitEvent, EmitCalls, InspectImage, CreateContainer, AttachContainer, StartContainer,
         EnterDecode, EndOfStream, WaitContainer, WaitExpires, InspectContainer, CleanUp,
         RemoveContainer, AfterAttempt, CollectFile, Collect, RecordResult, Recorded, NextAttempt,
         Commit, Publish, SyncParent, Verify, ReadBundle, ReadFrame
  <2>3. pc' = pc /\ answer' = answer
    BY <2>2 DEF vars, ContainerEnds, Exit, CloseStreams
  <2> QED
    BY <2>1, <2>3 DEF LeakEndsRun
<1>3. CASE ~world.leaked /\ CreateContainer
  BY <1>3 DEF CreateContainer, Stop, LeakEndsRun
<1>4. CASE ~world.leaked /\ ~CreateContainer
  <2>1. world'.leaked = world.leaked
    <3>1. CASE world' = world
      BY <3>1
    <3>2. CASE Damage
      BY <1>1, <3>2 DEF Damage, World
    <3>3. CASE Frames \/ RecordResult \/ Recorded
      <4>1. CASE Frames
        BY <1>1, <4>1 DEF Frames, ReadFrame, World
      <4>2. CASE RecordResult
        BY <1>1, <4>2 DEF RecordResult, World
      <4>3. CASE Recorded
        BY <1>1, <4>3 DEF Recorded, World
      <4> QED
        BY <3>3, <4>1, <4>2, <4>3
    <3> QED
      BY <1>4, <3>1, <3>2, <3>3 DEF Next, Executor, Expire, Crash, vars, ContainerEnds, Exit,
         CloseStreams, CheckPlan, BeforeAttempt, EmitEvent, InspectImage, AttachContainer,
         StartContainer, EnterDecode, EndOfStream, WaitContainer, WaitExpires, InspectContainer,
         CleanUp, RemoveContainer, AfterAttempt, CollectFile, Collect, NextAttempt, Commit,
         Publish, SyncParent, Verify, ReadBundle
  <2> QED
    BY <1>4, <2>1 DEF LeakEndsRun
<1> QED
  BY <1>2, <1>3, <1>4

\* Types, agreement of the executor and its session on the next event number, and no
\* container left behind: one the runner was told of only by a run that says so, one of a
\* lost answer only by a run that failed.
THEOREM ExecuteIsSafe == Spec => []ExecuteInvariant
<1>1. ASSUME ExecuteIInv, LeakEndsRun PROVE ExecuteInvariant
  <2>1. ExecTypes /\ ContainerInv
    BY <1>1 DEF ExecuteIInv
  <2>2. IsSession(s) /\ run \in RunState /\ cont \in Container
    BY <2>1 DEF ExecTypes
  <2>3. \A a \in Attempts : \A f \in DOMAIN s.states[a] : s.states[a][f] \in CaptureState
    BY <2>2, StatesAreTyped
  <2>4. \A st \in Streams : run.this.written[st] \in 0..MaxStreamBytes
    BY <2>2, RunFields DEF ThisAttempt
  <2>5. s.state \in {"active", "failed", "committed", "aborted"}
    BY <2>2, SessionFields
  <2>6. cont.state \in {"none", "created", "running", "exited", "removed"}
    BY <2>2 DEF Container
  <2>7. TypeOK
    BY <2>1, <2>3, <2>4, <2>5, <2>6 DEF TypeOK, ExecTypes
  <2>8. NoContainerLeft
    BY <1>1, <2>1 DEF NoContainerLeft, ContainerInv, NoContainerPCs, LeakEndsRun
  <2> QED
    BY <2>7, <2>8 DEF ExecuteInvariant
<1>2. ExecuteIInv /\ LeakEndsRun => ExecuteInvariant
  BY <1>1
<1>3. Init => LeakEndsRun
  BY DEF Init, LeakEndsRun
<1>4. ExecuteIInv /\ LeakEndsRun /\ [Next]_vars => LeakEndsRun'
  BY LeakStep
<1> QED
  BY <1>2, <1>3, <1>4, ExecuteIsInductive, PTL DEF Spec

\* A bundle the reader accepts has the files of the manifest's entries, and so those of the commit.
LEMMA AcceptedIsCommitted ==
  ASSUME NEW b, IsFcn(b), NEW t, NEW lost, Sound(t, lost), OpenAndVerify(b, t.files[ManifestFile])
  PROVE  b = t.files
<1>1. /\ IsFcn(t.files) /\ DOMAIN t.files = DOMAIN t.entries \cup {ManifestFile}
      /\ t.files[ManifestFile].entries = t.entries
      /\ \A p \in DOMAIN t.entries : t.files[p] = t.entries[p]
  BY DEF Sound
<1>2. b[ManifestFile] = t.files[ManifestFile] /\ ReconcileLayout(b) /\ VerifyPayloads(b)
  BY DEF OpenAndVerify
<1>3. EntriesOf(b) = t.entries
  BY <1>1, <1>2 DEF EntriesOf
<1>4. DOMAIN b = DOMAIN t.files
  BY <1>1, <1>2, <1>3 DEF ReconcileLayout
<1>5. \A p \in DOMAIN t.files : b[p] = t.files[p]
  BY <1>1, <1>2, <1>3 DEF VerifyPayloads
<1>6. [p \in DOMAIN b |-> b[p]] = [p \in DOMAIN t.files |-> t.files[p]]
  BY <1>4, <1>5
<1> QED
  BY <1>1, <1>6 DEF IsFcn

\* OpenAndVerify accepts a bundle only when it is byte for byte the committed one, and
\* what is read from it later was committed.
THEOREM DamageNeverPasses == Spec => DamageIsNoticed
<1>1. ASSUME ExecuteIInv, [Next]_vars, pc = "verify", pc' = "verified" PROVE bundle = s.files
  <2>1. Sound(s, world.lost) /\ IsFcn(bundle)
    BY <1>1 DEF ExecuteIInv, PublishedInv
  <2>2. Verify
    BY <1>1 DEF Next, vars, Executor, CheckPlan, BeforeAttempt, EmitEvent, InspectImage,
       CreateContainer, AttachContainer, StartContainer, EnterDecode, EndOfStream, WaitContainer,
       WaitExpires, InspectContainer, CleanUp, RemoveContainer, AfterAttempt, CollectFile, Collect,
       RecordResult, Recorded, NextAttempt, Commit, Publish, SyncParent, ReadBundle, EmitCalls,
       ContainerEnds, Exit, Frames, ReadFrame, CloseStreams, Expire, Crash, Damage
  <2>3. OpenAndVerify(bundle, s.files[ManifestFile])
    BY <1>1, <2>2 DEF Verify
  <2> QED
    BY <2>1, <2>3, AcceptedIsCommitted
<1>2. ExecuteIInv /\ [Next]_vars => [pc = "verify" /\ pc' = "verified" => bundle = s.files]_vars
  BY <1>1
<1>3. ExecuteIInv => (pc = "read" => \A p \in Copied(s.entries) : p \in DOMAIN bundle /\ bundle[p] = s.files[p])
  BY DEF ExecuteIInv, PublishedInv
<1> QED
  BY <1>2, <1>3, ExecuteIsInductive, PTL DEF Spec, DamageIsNoticed
==============================================================================
