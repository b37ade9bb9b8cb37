----------------------------- MODULE ConfigTrust -----------------------------
(***************************************************************************)
(* A pull request under review: its author edits the pipeline file and the *)
(* other files of the head revision, and now and then the head becomes the *)
(* new base.  In every state the configuration is loaded, the revisions    *)
(* are materialized and the plan is built as internal/localrun does it     *)
(* (and internal/inspect, for the configuration).                          *)
(***************************************************************************)
EXTENDS Planning

CONSTANTS
  FirstDocument,      \* a valid document
  EditsOf(_),         \* the documents one edit makes of a document
  OddFiles,           \* what may be at the path instead of a readable file
  FirstTree, Trees,   \* the trees of a revision, the pipeline file apart
  MaxEdits,           \* bound: edits of the author
  WalkSteps           \* bound: steps of a walk that looks for a way out of a workspace

VARIABLES base, head, edits

vars == <<base, head, edits>>

FileWith(doc) == [entry |-> "file", size |-> 1, text |-> "utf8", docs |-> <<doc>>]

\* What yaml.Load returns is a tree of nodes.
IsDocument(doc) ==
  \A v \in Visited(doc) : Len(NodeOf(v).items) \in Nat
IsFile(f) == \A i \in 1..Len(f.docs) : IsDocument(f.docs[i])

ASSUME DocumentsAssumption ==
  /\ IsDocument(FirstDocument) /\ FileErrors(FileWith(FirstDocument)) = {}
  /\ \A f \in OddFiles : IsFile(f)

\* What git ls-tree and git cat-file return: every entry has a path, a link names its target.
IsListing(t) ==
  /\ t \in Seq(Range(t))
  /\ \A e \in Range(t) : e.path \in Seq(Int) /\ (KindOf(e) = "symlink" => e.stored.names \in Seq(Int))

ASSUME TreesAssumption == WalkSteps \in Nat /\ \A t \in Trees \cup {FirstTree} : IsListing(t)

Init ==
  /\ base = [commit |-> "b", file |-> FileWith(FirstDocument), tree |-> FirstTree]
  /\ head = [commit |-> "h", file |-> FileWith(FirstDocument), tree |-> FirstTree]
  /\ edits = 0

\* The author changes the file of the head.
EditHead ==
  /\ edits < MaxEdits /\ head.file.entry = "file" /\ Len(head.file.docs) = 1
  /\ \E d \in {x \in EditsOf(head.file.docs[1]) : IsDocument(x)} : head' = [head EXCEPT !.file = FileWith(d)]
  /\ edits' = edits + 1 /\ UNCHANGED base

\* The head has no readable file any more.
BreakHead ==
  /\ edits < MaxEdits
  /\ \E f \in OddFiles : head' = [head EXCEPT !.file = f]
  /\ edits' = edits + 1 /\ UNCHANGED base

\* The author changes other files of the head.
EditTree ==
  /\ edits < MaxEdits
  /\ \E t \in Trees : head' = [head EXCEPT !.tree = t]
  /\ edits' = edits + 1 /\ UNCHANGED base

\* The head is merged: the next request starts from it.
Merge ==
  /\ edits < MaxEdits /\ base # [head EXCEPT !.commit = "b"]
  /\ base' = [head EXCEPT !.commit = "b"]
  /\ UNCHANGED <<head, edits>>

Next == EditHead \/ BreakHead \/ EditTree \/ Merge

Spec == Init /\ [][Next]_vars

-----------------------------------------------------------------------------

Trusted(b, h) == LoadTrusted(b, h)

\* What becomes of each tree.
Materialized == [t \in Trees \cup {FirstTree} |-> Materialize(t)]

\* materializeSourceSnapshot of both, then BuildPlan: no plan without two sources.
ThePlan(trusted, b, h) ==
  LET ofBase == Materialized[b.tree]
      ofHead == Materialized[h.tree]
  IN  IF {ofBase.error, ofHead.error} # {"none"} THEN NoPlan
      ELSE Build(trusted, SourceSnapshot(ofBase, "base", b.commit),
                 SourceSnapshot(ofHead, "head", h.commit))

\* What the planner and the runner take for granted of a pipeline: every quantity between
\* its least and its largest value, names that tell scenarios and artifacts apart, no scenario longer than the run.
Usable(p) ==
  /\ \A r \in DOMAIN p.resources : p.resources[r] \in MinOf[r]..MaxOf[r]
  /\ p.log \in MinOf["log"]..MaxOf["log"]
  /\ p.repetitions \in MinOf["repetitions"]..MaxOf["repetitions"]
  /\ Len(p.scenarios) \in 1..MaxScenarios /\ Len(p.roots) <= MaxRoots
  /\ Len(p.artifacts) <= MaxArtifacts /\ Len(p.ignore) <= MaxIgnores
  /\ \A i \in 1..Len(p.scenarios) : p.scenarios[i].timeout \in MinOf["timeout"]..p.resources.timeout
  /\ \A i \in 1..Len(p.artifacts) : p.artifacts[i].max \in MinOf["artifact"]..MaxOf["artifact"]
  /\ \A list \in {KeysOf(p.scenarios, "id"), KeysOf(p.artifacts, "path"), p.roots, p.ignore} :
       IsInjective(list) /\ \A v \in Range(list) : v[1] = "good"

\* Every file that is accepted yields a usable pipeline: no combination of edits slips
\* through the checks of Parse and Validate, whose results are collected field by field.
AcceptedIsUsable ==
  head.file.entry = "file" /\ FileErrors(head.file) = {} => Usable(Pipeline(head.file.docs[1]))

\* A plan without what it says of the files of the head.
Frozen(plan) ==
  IF plan = NoPlan THEN plan
  ELSE [plan EXCEPT !.revisions = <<plan.revisions[1], [kind |-> plan.revisions[2].kind,
                                                        scenarios |-> plan.revisions[2].scenarios]>>]

\* All the head can decide about the run is that there is none.  Its pipeline file stops
\* the load when it cannot be read, and a file over the size limit is one that cannot; then
\* there is no plan.  No other edit of it makes the load fail, changes the effective pipeline
\* or changes the plan (LoadTrusted), and an edit of its other files only changes what the
\* plan says of these files.
HeadDecidesNothing ==
  [][base' = base =>
       \A before \in {Trusted(base, head)}, after \in {Trusted(base, head')} :
       \A plan \in {ThePlan(before, base, head)}, newPlan \in {ThePlan(after, base, head')} :
         IF CannotBeRead(head'.file) THEN after.error # "none" /\ newPlan = NoPlan
         ELSE ~CannotBeRead(head.file) =>
                /\ after.error = before.error /\ after.pipeline = before.pipeline
                /\ head'.tree = head.tree => newPlan = plan
                /\ NoPlan \in {plan, newPlan} \/ Frozen(newPlan) = Frozen(plan)]_vars

Observed(p) == {<<"root", r>> : r \in Range(p.roots)}
               \cup {<<"artifact", a>> : a \in Range(KeysOf(p.artifacts, "path"))}
LessObserved(b, h) ==
  \/ ~(Observed(b) \subseteq Observed(h))
  \/ h.log < b.log \/ h.repetitions < b.repetitions
  \/ ~(Range(h.ignore) \subseteq Range(b.ignore))
  \/ \E i \in DOMAIN b.artifacts, j \in DOMAIN h.artifacts :
       b.artifacts[i].path = h.artifacts[j].path /\ h.artifacts[j].max < b.artifacts[i].max
MoreAllowed(b, h) == \E r \in DOMAIN b.resources : h.resources[r] > b.resources[r]

\* What the review is told about a changed file is the truth: no change is reported
\* exactly when the pipelines are the same, and a head that would be observed less or
\* allowed more has a change that says so, or one whose effect is unknown.
ChangesAreReported ==
  base.file.entry = "file" /\ head.file.entry = "file" /\ FileErrors(base.file) = {}
    /\ FileErrors(head.file) = {} =>
      \A b \in {Pipeline(base.file.docs[1])}, h \in {Pipeline(head.file.docs[1])},
         changes \in {Trusted(base, head).assessment.changes} :
        LET effects == {c.effect : c \in changes}
        IN  /\ (changes = {}) = (b = h)
            /\ LessObserved(b, h) => {"weakened", "unknown"} \cap effects # {}
            /\ MoreAllowed(b, h) => {"increase", "unknown"} \cap effects # {}

\* The attempts of a plan are its scenarios, repeated, on both revisions: each once, those
\* of the base first, and each with the source of its revision (expandAttempts); a plan with
\* too many is refused, and no other.  An inspection builds the same plan again.
AttemptsCoverPlan ==
  \A trusted \in {Trusted(base, head)} : \A plan \in {ThePlan(trusted, base, head)} \ {NoPlan} :
    LET attempts == ExpandAttempts(plan)
        p == trusted.pipeline
        planned == 2 * Len(p.scenarios) * p.repetitions
    IN  IF planned > MaxAttempts THEN attempts = <<>> ELSE
        /\ Rebuilt(trusted, plan) = plan
        /\ {<<a.revision, a.scenario, a.repetition>> : a \in Range(attempts)}
             = {"base", "head"} \X Range(KeysOf(p.scenarios, "id")) \X (1..p.repetitions)
        /\ Len(attempts) = planned
        /\ \A i, j \in DOMAIN attempts :
             attempts[i].revision = "head" /\ attempts[j].revision = "base" => j < i
        /\ \A i \in DOMAIN attempts :
             attempts[i].commit = IF attempts[i].revision = "base" THEN base.commit ELSE head.commit

\* A walk through a workspace, as the kernel does it: at a directory, with names to go, one
\* name a step; a link is replaced by its target.  It ends where there is nothing or a file.
WalkOn(ws, w) ==
  LET next == Append(w.at, Head(w.names))
      rest == Tail(w.names)
  IN  IF w.names = <<>> \/ w.outside THEN w
      ELSE IF Head(w.names) = Up
           THEN IF w.at = <<>> THEN [w EXCEPT !.outside = TRUE] ELSE [w EXCEPT !.at = Parent(w.at), !.names = rest]
      ELSE IF next \notin DOMAIN ws THEN [w EXCEPT !.names = <<>>]
      ELSE CASE ws[next].kind = "symlink" ->
                  IF ws[next].target.absolute THEN [w EXCEPT !.outside = TRUE]
                  ELSE [w EXCEPT !.names = ws[next].target.names \o rest]
             [] ws[next].kind = "directory" -> [w EXCEPT !.at = next, !.names = rest]
             [] OTHER -> [w EXCEPT !.names = <<>>]

\* A walk from the root stays inside for that many steps.
StaysInside(ws, names, steps) ==
  LET walk[i \in 0..steps] ==
        IF i = 0 THEN [at |-> <<>>, names |-> names, outside |-> FALSE] ELSE WalkOn(ws, walk[i - 1])
  IN  ~walk[steps].outside

\* A workspace is the tree it was made of, and nothing else: every entry but the gitlinks
\* is there, nothing in it leads outside, not even by way of other links, and the planner
\* accepts what is reported of it.  A tree that is accepted never collides with itself.
WorkspaceIsTheTree ==
  \A tree \in {base.tree, head.tree} :
    LET m == Materialized[tree]
    IN  /\ m.error # "destination"
        /\ m.error = "none" =>
             /\ DOMAIN m.ws = {e.path : e \in {x \in Range(tree) : x.type # "commit"}}
             /\ \A p \in DOMAIN m.ws : StaysInside(m.ws, p, WalkSteps)
             /\ SnapshotValid(SourceSnapshot(m, "base", "b"), "base")

\* The documentation's rule for a head file over the size limit: it is reported, and the
\* load goes on (docs/CONFIGURATION.md:29: "oversized ... head configuration is still
\* reported").  It does not hold: gitstore's error is not the one assessHead looks for.
OversizedIsReported ==
  head.file.entry = "too-large" /\ BaseError(base.file) = "none"
    => Trusted(base, head).error = "none" /\ Trusted(base, head).assessment.state = "modified-invalid"

\* The documentation's rule for lists: a document in which a list is something else is
\* refused (docs/CONFIGURATION.md:114: "explicitly empty array only").
ListsAreLists ==
  \A f \in {head.file} :
    f.entry = "file" /\ FileErrors(f) = {} =>
      Field(Field(Field(f.docs[1], "spec"), "network"), "allow").kind = "seq"
=============================================================================
