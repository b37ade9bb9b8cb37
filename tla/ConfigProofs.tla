---------------------------- MODULE ConfigProofs ----------------------------
(***************************************************************************)
(* Theorems about ConfigTrust, for documents and trees of any size.        *)
(*                                                                         *)
(* RevisionsInv is inductive: the two revisions are files with documents   *)
(* and trees of the given set.  The five properties follow from it, in     *)
(* every state or step, and what they need is about data: a document       *)
(* without errors is a pipeline with every field in its range              *)
(* (IsPipeline); a comparison reports every difference of two pipelines; a *)
(* plan that is read back is the plan; the attempts are numbered without a *)
(* gap; a copy holds what the batches before it created; a target of a     *)
(* link goes up no more often than the link is deep.  The functions that   *)
(* the model defines by recursion exist by induction on a set of natural   *)
(* numbers (SetInduction), and what they compute is the same induction     *)
(* again.                                                                  *)
(***************************************************************************)
EXTENDS ConfigTrust, FiniteSetTheorems, WellFoundedInduction, TLAPS

-----------------------------------------------------------------------------
(* The revisions.                                                          *)

\* A revision has a commit, a file and a tree; its documents are what yaml.Load returns.
IsRevision(r, commit) == r = [commit |-> commit, file |-> r.file, tree |-> r.tree]
KnownTree(t) == t \in Trees \cup {FirstTree}
RevisionsInv ==
  /\ IsRevision(base, "b") /\ IsRevision(head, "h")
  /\ IsFile(base.file) /\ IsFile(head.file)
  /\ KnownTree(base.tree) /\ KnownTree(head.tree)

LEMMA FileWithIsFile == ASSUME NEW d, IsDocument(d) PROVE IsFile(FileWith(d))
<1>1. FileWith(d).docs = <<d>>
  BY DEF FileWith
<1>2. Len(FileWith(d).docs) = 1 /\ FileWith(d).docs[1] = d
  BY <1>1
<1>3. \A i \in 1..1 : i = 1
  OBVIOUS
<1> QED
  BY <1>2, <1>3, Zenon DEF IsFile

LEMMA RevisionsInit == Init => RevisionsInv
<1> SUFFICES ASSUME Init PROVE RevisionsInv
  OBVIOUS
<1>1. IsFile(FileWith(FirstDocument))
  BY FileWithIsFile, DocumentsAssumption
<1>2. PICK f : f = FileWith(FirstDocument)
  OBVIOUS
<1>3. /\ base = [commit |-> "b", file |-> f, tree |-> FirstTree]
      /\ head = [commit |-> "h", file |-> f, tree |-> FirstTree]
  BY <1>2 DEF Init
<1>4. base.file = f /\ head.file = f /\ base.tree = FirstTree /\ head.tree = FirstTree
  BY <1>3
<1> QED
  BY <1>1, <1>2, <1>3, <1>4 DEF RevisionsInv, IsRevision, KnownTree

LEMMA RevisionsNext == RevisionsInv /\ [Next]_vars => RevisionsInv'
<1> SUFFICES ASSUME RevisionsInv, [Next]_vars PROVE RevisionsInv'
  OBVIOUS
<1> USE DEF RevisionsInv, IsRevision
<1>1. CASE EditHead
  <2>1. PICK d : IsDocument(d) /\ head' = [head EXCEPT !.file = FileWith(d)]
    BY <1>1 DEF EditHead
  <2>2. PICK f : f = FileWith(d) /\ IsFile(f)
    BY <2>1, FileWithIsFile
  <2>3. head' = [head EXCEPT !.file = f] /\ base' = base
    BY <1>1, <2>1, <2>2 DEF EditHead
  <2> QED
    BY <2>2, <2>3
<1>2. CASE BreakHead
  <2>1. PICK f \in OddFiles : head' = [head EXCEPT !.file = f]
    BY <1>2 DEF BreakHead
  <2>2. IsFile(f) /\ base' = base
    BY <1>2, DocumentsAssumption DEF BreakHead
  <2> QED
    BY <2>1, <2>2
<1>3. CASE EditTree
  <2>1. PICK t \in Trees : head' = [head EXCEPT !.tree = t]
    BY <1>3 DEF EditTree
  <2>2. base' = base
    BY <1>3 DEF EditTree
  <2> QED
    BY <2>1, <2>2 DEF KnownTree
<1>4. CASE Merge
  <2>1. base' = [head EXCEPT !.commit = "b"] /\ head' = head
    BY <1>4 DEF Merge
  <2> QED
    BY <2>1
<1>5. CASE UNCHANGED vars
  BY <1>5 DEF vars
<1> QED
  BY <1>1, <1>2, <1>3, <1>4, <1>5 DEF Next

LEMMA Revisions == Spec => []RevisionsInv
BY RevisionsInit, RevisionsNext, PTL DEF Spec

-----------------------------------------------------------------------------
(* The head decides nothing.                                               *)

\* What LoadTrusted returns when the head can be read.
LEMMA LoadTrustedFields ==
  ASSUME NEW b, NEW h, ~CannotBeRead(h.file)
  PROVE  /\ LoadTrusted(b, h).error = BaseError(b.file)
         /\ LoadTrusted(b, h).base = b.commit /\ LoadTrusted(b, h).head = h.commit
         /\ BaseError(b.file) = "none" =>
              /\ LoadTrusted(b, h).pipeline = Pipeline(b.file.docs[1])
              /\ LoadTrusted(b, h).assessment = AssessHead(b.file, h.file)
         /\ BaseError(b.file) # "none" => LoadTrusted(b, h).pipeline = EmptyPipeline
<1>1. PICK p, a : p = Pipeline(b.file.docs[1]) /\ a = AssessHead(b.file, h.file)
  OBVIOUS
<1>2. PICK e : e = BaseError(b.file)
  OBVIOUS
<1>3. LoadTrusted(b, h) = IF e # "none" THEN LoadError(e, b, h) ELSE Loaded(b, h, p, a)
  BY <1>1, <1>2 DEF LoadTrusted
<1>4. LoadError(e, b, h) = [error |-> e, base |-> b.commit, head |-> h.commit, pipeline |-> EmptyPipeline,
                            assessment |-> [state |-> "none", changes |-> {}]]
  BY DEF LoadError, Loaded
<1>5. Loaded(b, h, p, a) = [error |-> "none", base |-> b.commit, head |-> h.commit, pipeline |-> p,
                            assessment |-> a]
  BY DEF Loaded
<1>6. CASE e = "none"
  BY <1>1, <1>2, <1>3, <1>5, <1>6
<1>7. CASE e # "none"
  BY <1>1, <1>2, <1>3, <1>4, <1>7
<1> QED
  BY <1>6, <1>7

\* Two loads that a plan cannot tell apart.
SameTrust(s, t) == s.error = t.error /\ s.base = t.base /\ s.head = t.head /\ s.pipeline = t.pipeline

LEMMA BuildSame ==
  ASSUME NEW s, NEW t, SameTrust(s, t), NEW x, NEW y
  PROVE  Build(s, x, y) = Build(t, x, y)
BY Zenon DEF SameTrust, Build, TrustedMatches

LEMMA FrozenPlan ==
  ASSUME NEW p, NEW b, NEW h1, NEW h2, h1.kind = h2.kind
  PROVE  Frozen(Plan(p, b, h1)) = Frozen(Plan(p, b, h2))
<1>1. PICK env, scen, col, rev, r1, r2, ign, ids, k :
        /\ env = <<p.image, p.workdir>>
        /\ scen = [i \in 1..Len(p.scenarios) |-> ScenarioPlan(p, p.scenarios[i])]
        /\ col = [roots |-> p.roots, artifacts |-> p.artifacts, log |-> p.log]
        /\ rev = RevisionPlan(b, p) /\ r1 = RevisionPlan(h1, p) /\ r2 = RevisionPlan(h2, p)
        /\ ign = p.ignore /\ ids = KeysOf(p.scenarios, "id") /\ k = h1.kind
  OBVIOUS
<1>2. r1.kind = k /\ r2.kind = k /\ r1.scenarios = ids /\ r2.scenarios = ids
  BY <1>1 DEF RevisionPlan
<1>3. /\ Plan(p, b, h1) = [environment |-> env, revisions |-> <<rev, r1>>, scenarios |-> scen,
                           collection |-> col, ignore |-> ign]
      /\ Plan(p, b, h2) = [environment |-> env, revisions |-> <<rev, r2>>, scenarios |-> scen,
                           collection |-> col, ignore |-> ign]
  BY <1>1 DEF Plan
<1>4. ASSUME NEW r, NEW x, x = [environment |-> env, revisions |-> <<rev, r>>, scenarios |-> scen,
                                collection |-> col, ignore |-> ign],
             r.kind = k, r.scenarios = ids
      PROVE  Frozen(x) = [environment |-> env, revisions |-> <<rev, [kind |-> k, scenarios |-> ids]>>,
                          scenarios |-> scen, collection |-> col, ignore |-> ign]
  <2>1. x # NoPlan
    BY <1>4 DEF NoPlan
  <2>2. x.revisions = <<rev, r>> /\ x.revisions[1] = rev /\ x.revisions[2] = r
    BY <1>4
  <2>3. Frozen(x) = [x EXCEPT !.revisions = <<rev, [kind |-> k, scenarios |-> ids]>>]
    BY <1>4, <2>1, <2>2 DEF Frozen
  <2> QED
    BY <1>4, <2>3
<1> QED
  BY <1>2, <1>3, <1>4

\* Edits of the head's file leave the plan alone, other edits its frozen part.
LEMMA HeadEdit ==
  ASSUME NEW b, NEW h, NEW h2, ~CannotBeRead(h.file), ~CannotBeRead(h2.file), h2.commit = h.commit
  PROVE  LET before == Trusted(b, h)
             after == Trusted(b, h2)
             plan == ThePlan(before, b, h)
             newPlan == ThePlan(after, b, h2)
         IN  /\ after.error = before.error /\ after.pipeline = before.pipeline
             /\ h2.tree = h.tree => newPlan = plan
             /\ NoPlan \in {plan, newPlan} \/ Frozen(newPlan) = Frozen(plan)
<1>1. PICK before, after : before = Trusted(b, h) /\ after = Trusted(b, h2)
  OBVIOUS
<1>2. SameTrust(after, before)
  BY <1>1, LoadTrustedFields DEF Trusted, SameTrust
<1>3. PICK plan, newPlan : plan = ThePlan(before, b, h) /\ newPlan = ThePlan(after, b, h2)
  OBVIOUS
<1>4. PICK mb, mh, mh2 : mb = Materialized[b.tree] /\ mh = Materialized[h.tree] /\ mh2 = Materialized[h2.tree]
  OBVIOUS
<1>5. PICK sb, sh, sh2 : sb = SourceSnapshot(mb, "base", b.commit) /\ sh = SourceSnapshot(mh, "head", h.commit)
                         /\ sh2 = SourceSnapshot(mh2, "head", h2.commit)
  OBVIOUS
<1>6. plan = IF {mb.error, mh.error} # {"none"} THEN NoPlan ELSE Build(before, sb, sh)
  BY <1>3, <1>4, <1>5, Zenon DEF ThePlan
<1>7. newPlan = IF {mb.error, mh2.error} # {"none"} THEN NoPlan ELSE Build(after, sb, sh2)
  BY <1>3, <1>4, <1>5, Zenon DEF ThePlan
<1>8. ASSUME h2.tree = h.tree PROVE newPlan = plan
  <2>1. mh2 = mh /\ sh2 = sh
    BY <1>4, <1>5, <1>8
  <2>2. Build(after, sb, sh) = Build(before, sb, sh)
    BY <1>2, BuildSame
  <2> QED
    BY <1>6, <1>7, <2>1, <2>2
<1>9. ASSUME plan # NoPlan, newPlan # NoPlan PROVE Frozen(newPlan) = Frozen(plan)
  <2>1. sh.kind = "head" /\ sh2.kind = "head"
    BY <1>5 DEF SourceSnapshot
  <2>2. plan = Build(before, sb, sh) /\ newPlan = Build(after, sb, sh2)
    BY <1>6, <1>7, <1>9, Zenon
  <2>3. plan = Plan(before.pipeline, sb, sh) /\ newPlan = Plan(after.pipeline, sb, sh2)
    BY <1>9, <2>2, Zenon DEF Build
  <2>4. after.pipeline = before.pipeline
    BY <1>2 DEF SameTrust
  <2>5. Frozen(Plan(before.pipeline, sb, sh)) = Frozen(Plan(before.pipeline, sb, sh2))
    BY <2>1, FrozenPlan
  <2> QED
    BY <2>3, <2>4, <2>5, Zenon
<1>10. after.error = before.error /\ after.pipeline = before.pipeline
  BY <1>2 DEF SameTrust
<1> QED
  BY <1>1, <1>3, <1>8, <1>9, <1>10, Zenon

\* A head whose file cannot be read has no plan.
LEMMA UnreadableHead ==
  ASSUME NEW b, NEW h, CannotBeRead(h.file)
  PROVE  Trusted(b, h).error # "none" /\ ThePlan(Trusted(b, h), b, h) = NoPlan
<1>1. PICK t : t = Trusted(b, h)
  OBVIOUS
<1>2. \A c, x, y : LoadError(c, x, y).error = c
  BY DEF LoadError, Loaded
<1>3. t.error # "none"
  <2>1. CASE BaseError(b.file) # "none"
    <3>1. t = LoadError(BaseError(b.file), b, h)
      BY <1>1, <2>1, Zenon DEF Trusted, LoadTrusted
    <3> QED
      BY <1>2, <2>1, <3>1
  <2>2. CASE BaseError(b.file) = "none"
    <3>1. t = LoadError("head-inspection-failed", b, h)
      BY <1>1, <2>2, Zenon DEF Trusted, LoadTrusted
    <3> QED
      BY <1>2, <3>1
  <2> QED
    BY <2>1, <2>2
<1>4. PICK x, y : x = SourceSnapshot(Materialized[b.tree], "base", b.commit)
                  /\ y = SourceSnapshot(Materialized[h.tree], "head", h.commit)
  OBVIOUS
<1>5. ThePlan(t, b, h) \in {NoPlan, Build(t, x, y)}
  BY <1>4, Zenon DEF ThePlan
<1>6. Build(t, x, y) = NoPlan
  BY <1>3, Zenon DEF Build, TrustedMatches
<1> QED
  BY <1>1, <1>3, <1>5, <1>6

\* Whatever a request does to its files, LoadTrusted and Build take nothing but the
\* description of these files from it: the pipeline, the errors and the rest of the plan
\* are the base's.  Only a pipeline file that cannot be read, for its size or otherwise,
\* stops the run.
THEOREM HeadDecidesNothingTheorem == Spec => HeadDecidesNothing
<1> DEFINE Keeps ==
      base' = base =>
       \A before \in {Trusted(base, head)}, after \in {Trusted(base, head')} :
       \A plan \in {ThePlan(before, base, head)}, newPlan \in {ThePlan(after, base, head')} :
         IF CannotBeRead(head'.file) THEN after.error # "none" /\ newPlan = NoPlan
         ELSE ~CannotBeRead(head.file) =>
                /\ after.error = before.error /\ after.pipeline = before.pipeline
                /\ head'.tree = head.tree => newPlan = plan
                /\ NoPlan \in {plan, newPlan} \/ Frozen(newPlan) = Frozen(plan)
<1>1. RevisionsInv /\ RevisionsInv' /\ [Next]_vars => [Keeps]_vars
  <2> SUFFICES ASSUME RevisionsInv, RevisionsInv', base' = base
               PROVE  Keeps
    OBVIOUS
  <2>1. PICK h, h2 : h = head /\ h2 = head'
    OBVIOUS
  <2>2. h2.commit = h.commit
    BY <2>1 DEF RevisionsInv, IsRevision
  <2>3. CASE CannotBeRead(h2.file)
    BY <2>1, <2>3, UnreadableHead, Zenon
  <2>4. CASE ~CannotBeRead(h2.file) /\ CannotBeRead(h.file)
    BY <2>1, <2>4, Zenon
  <2>5. CASE ~CannotBeRead(h2.file) /\ ~CannotBeRead(h.file)
    <3>1. LET before == Trusted(base, h)
              after == Trusted(base, h2)
              plan == ThePlan(before, base, h)
              newPlan == ThePlan(after, base, h2)
          IN  /\ after.error = before.error /\ after.pipeline = before.pipeline
              /\ h2.tree = h.tree => newPlan = plan
              /\ NoPlan \in {plan, newPlan} \/ Frozen(newPlan) = Frozen(plan)
      BY <2>2, <2>5, HeadEdit, Zenon
    <3> QED
      BY <2>1, <2>5, <3>1, Zenon
  <2> QED
    BY <2>3, <2>4, <2>5
<1> QED
  BY <1>1, Revisions, PTL DEF Spec, HeadDecidesNothing

-----------------------------------------------------------------------------
(* Numbers.                                                                *)

\* The order on the naturals, as the relation induction is stated for.
LEMMA LessThanRelation == \A m, n \in Nat : m < n => <<m, n>> \in OpToRel(<, Nat)
<1>1. OpToRel(<, Nat) = {ss \in Nat \X Nat : ss[1] < ss[2]}
  BY DEF OpToRel
<1> QED
  BY <1>1

\* A non-empty set of natural numbers has a least element.
LEMMA LeastElement ==
  ASSUME NEW T, T \subseteq Nat, T # {}
  PROVE  \E n \in T : \A m \in T : n <= m
<1> DEFINE lt == OpToRel(<, Nat)
<1>1. IsWellFoundedOn(lt, Nat)
  BY NatLessThanWellFounded
<1>2. \A m, n \in Nat : m < n => <<m, n>> \in lt
  BY LessThanRelation
<1> HIDE DEF lt
<1>3. PICK n \in T : \A m \in T : ~(<<m, n>> \in lt)
  BY <1>1, WFMin
<1>4. \A m \in T : n <= m
  <2> TAKE m \in T
  <2>1. ~(m < n)
    BY <1>2, <1>3
  <2>2. m \in Nat /\ n \in Nat
    OBVIOUS
  <2> QED
    BY <2>1, <2>2
<1> QED
  BY <1>4

\* Induction, with the numbers a claim holds for as a set.
LEMMA SetInduction ==
  ASSUME NEW T \in SUBSET Nat, 0 \in T, \A n \in T : n + 1 \in T
  PROVE  T = Nat
<1> DEFINE D == Nat \ T
<1>1. SUFFICES ASSUME D # {} PROVE FALSE
  OBVIOUS
<1>2. PICK n \in D : \A m \in D : n <= m
  <2> HIDE DEF D
  <2>1. D \subseteq Nat
    BY DEF D
  <2> QED
    BY <1>1, <2>1, LeastElement
<1>3. n # 0 /\ n - 1 \in Nat /\ ~(n <= n - 1)
  OBVIOUS
<1>4. n - 1 \in T
  BY <1>2, <1>3
<1> QED
  BY <1>3, <1>4

-----------------------------------------------------------------------------
(* What Parse has visited when it finds nothing wrong.                     *)

\* The recursion of Visited.
LevelStep(doc, g, d) ==
  IF d = 0 THEN {<< <<>>, "document", doc >>} ELSE UNION {Below(v) : v \in g[d - 1]}
IsLevels(doc, m, g) == g = [d \in 0..m |-> LevelStep(doc, g, d)]

LEMMA LevelsExist ==
  ASSUME NEW doc, NEW m \in Nat
  PROVE  \E g : IsLevels(doc, m, g)
<1> DEFINE T == {n \in Nat : \E g : IsLevels(doc, n, g)}
<1>1. 0 \in T
  <2> DEFINE g == [d \in 0..0 |-> {<< <<>>, "document", doc >>}]
  <2>1. IsLevels(doc, 0, g)
    BY DEF IsLevels, LevelStep
  <2> HIDE DEF g
  <2> QED
    BY <2>1
<1>2. ASSUME NEW n \in T PROVE n + 1 \in T
  <2>1. PICK g : IsLevels(doc, n, g)
    OBVIOUS
  <2> DEFINE h == [d \in 0..(n + 1) |-> LevelStep(doc, g, d)]
  <2>2. ASSUME NEW d \in 0..(n + 1) PROVE LevelStep(doc, g, d) = LevelStep(doc, h, d)
    <3>1. CASE d = 0
      BY <3>1 DEF LevelStep
    <3>2. CASE d # 0
      <4>1. d - 1 \in 0..n /\ d - 1 \in 0..(n + 1)
        BY <3>2
      <4>2. g[d - 1] = LevelStep(doc, g, d - 1)
        BY <2>1, <4>1 DEF IsLevels
      <4>3. h[d - 1] = LevelStep(doc, g, d - 1)
        BY <4>1
      <4> HIDE DEF h
      <4> QED
        BY <3>2, <4>2, <4>3 DEF LevelStep
    <3> QED
      BY <3>1, <3>2
  <2>3. IsLevels(doc, n + 1, h)
    BY <2>2 DEF IsLevels
  <2> HIDE DEF h
  <2> QED
    BY <2>3
<1>3. T = Nat
  <2> HIDE DEF T
  <2>1. T \in SUBSET Nat
    BY DEF T
  <2> QED
    BY <1>1, <1>2, <2>1, SetInduction
<1> QED
  BY <1>3

\* level[d] holds what is d levels below the document.
LevelsOf(doc, level) ==
  /\ Visited(doc) = UNION {level[d] : d \in 0..MaxDepth}
  /\ level[0] = {<< <<>>, "document", doc >>}
  /\ \A d \in 1..MaxDepth : level[d] = UNION {Below(v) : v \in level[d - 1]}

LEMMA VisitedLevels == ASSUME NEW doc PROVE \E level : LevelsOf(doc, level)
<1> DEFINE level == CHOOSE g : IsLevels(doc, MaxDepth, g)
<1>1. MaxDepth \in Nat
  BY ConfigAssumption
<1>2. IsLevels(doc, MaxDepth, level)
  BY <1>1, LevelsExist, Zenon
<1>3. Visited(doc) = UNION {level[d] : d \in 0..MaxDepth}
  BY DEF Visited, IsLevels, LevelStep
<1> HIDE DEF level
<1>4. 0 \in 0..MaxDepth
  BY <1>1
<1>5. level[0] = {<< <<>>, "document", doc >>}
  BY <1>2, <1>4 DEF IsLevels, LevelStep
<1>6. ASSUME NEW d \in 1..MaxDepth PROVE level[d] = UNION {Below(v) : v \in level[d - 1]}
  <2>1. d \in 0..MaxDepth /\ d # 0
    BY <1>1
  <2> QED
    BY <1>2, <2>1 DEF IsLevels, LevelStep
<1> QED
  BY <1>3, <1>5, <1>6, Zenon DEF LevelsOf

\* The way to a node is as long as its level is deep.
LEMMA WaysAreAsLong ==
  ASSUME NEW doc, NEW level, LevelsOf(doc, level), NEW d \in 0..MaxDepth, NEW v \in level[d]
  PROVE  Way(v) \in Seq(Nat) /\ Len(Way(v)) = d
<1>1. MaxDepth \in Nat
  BY ConfigAssumption
<1> DEFINE T == {n \in Nat : n <= MaxDepth => \A x \in level[n] : Way(x) \in Seq(Nat) /\ Len(Way(x)) = n}
<1>2. 0 \in T
  <2>1. \A x \in level[0] : x = << <<>>, "document", doc >>
    BY DEF LevelsOf
  <2>2. \A x \in level[0] : Way(x) = <<>>
    BY <2>1 DEF Way
  <2>3. <<>> \in Seq(Nat) /\ Len(<<>>) = 0
    OBVIOUS
  <2> QED
    BY <2>2, <2>3, Zenon
<1>3. ASSUME NEW n \in T PROVE n + 1 \in T
  <2>1. SUFFICES ASSUME n + 1 <= MaxDepth, NEW x \in level[n + 1]
                 PROVE  Way(x) \in Seq(Nat) /\ Len(Way(x)) = n + 1
    BY n + 1 \in Nat
  <2>2. n + 1 \in 1..MaxDepth /\ (n + 1) - 1 = n /\ n <= MaxDepth
    BY <1>1, <2>1
  <2>3. PICK y \in level[n] : x \in Below(y)
    BY <2>1, <2>2 DEF LevelsOf
  <2>4. PICK i \in 1..Len(NodeOf(y).items) :
               x = <<Append(Way(y), i), SectionBelow(Section(y), NodeOf(y), i), Child(NodeOf(y), i)>>
    BY <2>3 DEF Below
  <2>5. Way(x) = Append(Way(y), i)
    BY <2>4 DEF Way
  <2>6. Way(y) \in Seq(Nat) /\ Len(Way(y)) = n
    BY <2>2, <2>3
  <2> QED
    BY <2>5, <2>6
<1>4. T = Nat
  <2> HIDE DEF T
  <2>1. T \in SUBSET Nat
    BY DEF T
  <2> QED
    BY <1>2, <1>3, <2>1, SetInduction
<1> QED
  BY <1>1, <1>4

\* The nodes of a document.
NodesOf(doc) == {NodeOf(v) : v \in Visited(doc)}

\* A document that is not too deep was visited as a whole.
LEMMA NodesAreClosed ==
  ASSUME NEW doc, InspectErrors(Visited(doc)) = {}
  PROVE  /\ doc \in NodesOf(doc)
         /\ \A n \in NodesOf(doc) : \A i \in 1..Len(n.items) : Child(n, i) \in NodesOf(doc)
<1>1. PICK level : LevelsOf(doc, level)
  BY VisitedLevels
<1>2. MaxDepth \in Nat
  BY ConfigAssumption
<1>3. 0 \in 0..MaxDepth
  BY <1>2
<1>4. doc \in NodesOf(doc)
  <2>1. << <<>>, "document", doc >> \in Visited(doc)
    BY <1>1, <1>3 DEF LevelsOf
  <2>2. NodeOf(<< <<>>, "document", doc >>) = doc
    BY DEF NodeOf
  <2> QED
    BY <2>1, <2>2 DEF NodesOf
<1>5. ASSUME NEW n \in NodesOf(doc), NEW i \in 1..Len(n.items) PROVE Child(n, i) \in NodesOf(doc)
  <2>1. PICK v \in Visited(doc) : NodeOf(v) = n
    BY DEF NodesOf
  <2>2. PICK d \in 0..MaxDepth : v \in level[d]
    BY <1>1 DEF LevelsOf
  <2>3. Len(Way(v)) = d
    BY <1>1, <2>2, WaysAreAsLong
  <2>4. NodeErrors(NodeOf(v), Len(Way(v)) + 1) = {}
    BY <2>1 DEF InspectErrors
  <2>5. ~(d + 1 > MaxDepth)
    BY <2>3, <2>4 DEF NodeErrors
  <2>6. d + 1 \in 1..MaxDepth /\ d + 1 \in 0..MaxDepth /\ (d + 1) - 1 = d
    BY <1>2, <2>5
  <2> DEFINE x == <<Append(Way(v), i), SectionBelow(Section(v), NodeOf(v), i), Child(NodeOf(v), i)>>
  <2>7. x \in Below(v)
    BY <2>1 DEF Below
  <2>8. NodeOf(x) = Child(n, i)
    BY <2>1 DEF NodeOf
  <2> HIDE DEF x
  <2>9. x \in level[d + 1]
    BY <1>1, <2>2, <2>6, <2>7 DEF LevelsOf
  <2>10. x \in Visited(doc)
    BY <1>1, <2>6, <2>9 DEF LevelsOf
  <2> QED
    BY <2>8, <2>10 DEF NodesOf
<1> QED
  BY <1>4, <1>5

-----------------------------------------------------------------------------
(* Nodes and their fields.                                                 *)

\* A set of nodes that holds whatever is below one of them, and the node of a missing field.
IsTree(U) ==
  /\ Absent \in U
  /\ \A n \in U : Len(Items(n)) \in Nat
  /\ \A n \in U : \A k : Field(n, k) \in U
  /\ \A n \in U : \A i \in 1..Len(Items(n)) : Items(n)[i] \in U

LEMMA AbsentFacts ==
  /\ \A k : Field(Absent, k) = Absent
  /\ Items(Absent) = <<>> /\ Len(Items(Absent)) = 0
<1>1. Absent.kind = "absent"
  BY DEF Absent, Node
<1>2. \A k : Field(Absent, k) = Absent
  BY <1>1 DEF Field
<1>3. Items(Absent) = <<>>
  BY <1>1 DEF Items
<1> QED
  BY <1>2, <1>3

LEMMA DocumentIsTree ==
  ASSUME NEW doc, IsDocument(doc), InspectErrors(Visited(doc)) = {}
  PROVE  doc \in NodesOf(doc) \cup {Absent} /\ IsTree(NodesOf(doc) \cup {Absent})
<1> DEFINE U == NodesOf(doc) \cup {Absent}
<1>1. /\ doc \in NodesOf(doc)
      /\ \A n \in NodesOf(doc) : \A i \in 1..Len(n.items) : Child(n, i) \in NodesOf(doc)
  BY NodesAreClosed
<1>2. \A n \in NodesOf(doc) : Len(n.items) \in Nat
  BY DEF NodesOf, IsDocument
<1>3. \A n \in U : Len(Items(n)) \in Nat
  <2>1. \A n \in NodesOf(doc) : Len(Items(n)) = Len(n.items) \/ Len(Items(n)) = 0
    BY DEF Items
  <2> QED
    BY <1>2, <2>1, AbsentFacts
<1>4. ASSUME NEW n \in U, NEW k PROVE Field(n, k) \in U
  <2>1. CASE n.kind = "map" /\ k \in Range(Keys(n)) /\ n \in NodesOf(doc)
    <3>1. \E i \in 1..Len(n.items) : n.items[i][1] = k
      BY <2>1 DEF Range, Keys
    <3>2. PICK i \in 1..Len(n.items) : Field(n, k) = n.items[i][2]
      BY <2>1, <3>1 DEF Field
    <3>3. Field(n, k) = Child(n, i)
      BY <2>1, <3>2 DEF Child
    <3> QED
      BY <1>1, <2>1, <3>3
  <2>2. CASE ~(n.kind = "map" /\ k \in Range(Keys(n)))
    BY <2>2, Zenon DEF Field
  <2>3. CASE n = Absent
    BY <2>3, AbsentFacts
  <2> QED
    BY <2>1, <2>2, <2>3
<1>5. ASSUME NEW n \in U, NEW i \in 1..Len(Items(n)) PROVE Items(n)[i] \in U
  <2>1. n # Absent
    BY AbsentFacts
  <2>2. n.kind = "seq" /\ Items(n) = n.items
    <3>1. CASE n.kind = "seq"
      BY <3>1, Zenon DEF Items
    <3>2. CASE n.kind # "seq"
      BY <3>2 DEF Items
    <3> QED
      BY <3>1, <3>2
  <2>3. Items(n)[i] = Child(n, i)
    BY <2>2 DEF Child
  <2> QED
    BY <1>1, <2>1, <2>2, <2>3
<1> QED
  BY <1>1, <1>3, <1>4, <1>5, Zenon DEF IsTree

LEMMA DecodedField ==
  \A n, section, k : k \in Fields[section] => Decode(n, section)[k] = Field(n, k)
BY DEF Decode

\* The fields of every section that is validated.
LEMMA FieldsOfSections ==
  /\ Fields["document"] = {"apiVersion", "kind", "metadata", "spec"}
  /\ Fields["spec"] = {"environment", "resources", "network", "scenarios", "collect", "compare", "policy"}
  /\ Fields["environment"] = {"image", "workdir"}
  /\ Fields["resources"] = {"cpu", "memory", "disk", "processes", "timeout"}
  /\ Fields["scenarios"] = {"id", "name", "shell", "run", "timeout"}
  /\ Fields["collect"] = {"filesystem", "artifacts", "logs"}
  /\ Fields["filesystem"] = {"roots", "contents"}
  /\ Fields["compare"] = {"ignore", "repetitions"}
BY DEF Fields

-----------------------------------------------------------------------------
(* What a field holds when nothing is wrong with it.                       *)

LEMMA QuantityIsNat == ASSUME NEW n PROVE Quantity(n) \in Nat
<1>1. CASE n.kind = "scalar" /\ n.value \in {"size"} \X Nat \X DOMAIN Units
  <2>1. PICK k, m : k = n.value[2] /\ m = Units[n.value[3]]
    OBVIOUS
  <2>2. n.value[2] \in Nat /\ n.value[3] \in DOMAIN Units
    BY <1>1
  <2>3. k \in Nat /\ m \in Nat
    BY <2>1, <2>2, ConfigAssumption
  <2>4. k * m \in Nat
    BY <2>3
  <2>5. UnitNumber(k, m) \in Nat
    BY <2>4, Zenon DEF UnitNumber
  <2>6. Quantity(n) = UnitNumber(k, m)
    BY <1>1, <2>1, Zenon DEF Quantity
  <2> QED
    BY <2>5, <2>6
<1>2. CASE ~(n.kind = "scalar" /\ n.value \in {"size"} \X Nat \X DOMAIN Units)
  BY <1>2 DEF Quantity
<1> QED
  BY <1>1, <1>2

LEMMA QuantityInRange ==
  ASSUME NEW n, NEW q \in Quantities, QuantityErrors(n, q) = {}
  PROVE  Quantity(n) \in MinOf[q]..MaxOf[q]
<1>1. PICK v : v = Quantity(n) /\ v \in Nat
  BY QuantityIsNat
<1>3. v \in RangeOf(q)
  BY <1>1 DEF QuantityErrors, If
<1> QED
  BY <1>1, <1>3 DEF RangeOf

LEMMA IntInRange ==
  ASSUME NEW n, NEW q, IntErrors(n, q) = {}
  PROVE  IntOf(n) \in MinOf[q]..MaxOf[q]
BY DEF IntErrors, If, RangeOf

LEMMA TextIsGood == ASSUME NEW n, TextErrors(n) = {} PROVE n.value[1] = "good"
BY DEF TextErrors, If

LEMMA NoRepetition ==
  ASSUME NEW list, NEW m \in Nat, Len(list) = m, DOMAIN list = 1..m, RepeatErrors(list) = {},
         \A i \in 1..m : list[i][1] = "good"
  PROVE  IsInjective(list)
<1>1. \A i \in 1..m : ~Repeats(list, i)
  BY DEF RepeatErrors, If
<1>2. \A i, j \in 1..m : j < i => list[j] # list[i]
  <2> TAKE i, j \in 1..m
  <2> HAVE j < i
  <2>1. j \in 1..(i - 1)
    OBVIOUS
  <2> QED
    BY <1>1, <2>1 DEF Repeats
<1>3. \A i, j \in 1..m : list[i] = list[j] => i = j
  <2> TAKE i, j \in 1..m
  <2>1. i < j \/ j < i \/ i = j
    OBVIOUS
  <2> QED
    BY <1>2, <2>1
<1> QED
  BY <1>3, Zenon DEF IsInjective

-----------------------------------------------------------------------------
(* What Validate found nothing wrong with.                                 *)

\* A section of the specification, and a field of it.
Of(doc, section) == Field(Field(doc, "spec"), section)

LEMMA ValidatedSections ==
  ASSUME NEW doc, ValidateErrors(doc) = {}
  PROVE  /\ EnvironmentErrors(Of(doc, "environment")) = {} /\ ResourceErrors(Of(doc, "resources")) = {}
         /\ ScenariosErrors(Of(doc, "scenarios"), GlobalTimeout(Field(doc, "spec"))) = {}
         /\ CollectErrors(Of(doc, "collect")) = {} /\ CompareErrors(Of(doc, "compare")) = {}
<1> DEFINE d == Decode(doc, "document")
           s == Decode(d.spec, "spec")
<1>1. d.spec = Field(doc, "spec")
  BY DecodedField, FieldsOfSections
<1>2. /\ s.environment = Of(doc, "environment") /\ s.resources = Of(doc, "resources")
      /\ s.scenarios = Of(doc, "scenarios") /\ s.collect = Of(doc, "collect") /\ s.compare = Of(doc, "compare")
  BY <1>1, DecodedField, FieldsOfSections DEF Of
<1>3. ~MissingSection(d.spec)
  BY DEF ValidateErrors
<1>4. /\ EnvironmentErrors(s.environment) = {} /\ ResourceErrors(s.resources) = {}
      /\ ScenariosErrors(s.scenarios, GlobalTimeout(d.spec)) = {}
      /\ CollectErrors(s.collect) = {} /\ CompareErrors(s.compare) = {}
  <2> HIDE DEF d
  <2>1. EnvironmentErrors(s.environment) \cup ResourceErrors(s.resources)
                 \cup NetworkErrors(s.network) \cup ScenariosErrors(s.scenarios, GlobalTimeout(d.spec))
                 \cup CollectErrors(s.collect) \cup CompareErrors(s.compare)
                 \cup PolicyErrors(s.policy) = {}
    BY <1>3 DEF ValidateErrors, d
  <2> HIDE DEF s
  <2> QED
    BY <2>1
<1> HIDE DEF d, s
<1> QED
  BY <1>1, <1>2, <1>4, Zenon

LEMMA ValidResources ==
  ASSUME NEW n, ResourceErrors(n) = {}
  PROVE  /\ ~MissingSection(n)
         /\ IntOf(Field(n, "cpu")) \in MinOf["cpu"]..MaxOf["cpu"] /\ IntOf(Field(n, "processes")) \in MinOf["processes"]..MaxOf["processes"]
         /\ Quantity(Field(n, "memory")) \in MinOf["memory"]..MaxOf["memory"] /\ Quantity(Field(n, "disk")) \in MinOf["disk"]..MaxOf["disk"]
         /\ Quantity(Field(n, "timeout")) \in MinOf["timeout"]..MaxOf["timeout"]
<1>1. ~MissingSection(n)
  BY DEF ResourceErrors
<1> DEFINE r == Decode(n, "resources")
<1>2. /\ r.cpu = Field(n, "cpu") /\ r.processes = Field(n, "processes") /\ r.memory = Field(n, "memory")
      /\ r.disk = Field(n, "disk") /\ r.timeout = Field(n, "timeout")
  BY DecodedField, FieldsOfSections
<1>3. /\ IntErrors(r.cpu, "cpu") = {} /\ IntErrors(r.processes, "processes") = {}
      /\ QuantityErrors(r.memory, "memory") = {} /\ QuantityErrors(r.disk, "disk") = {}
      /\ QuantityErrors(r.timeout, "timeout") = {}
  <2>1. IntErrors(r.cpu, "cpu") \cup QuantityErrors(r.memory, "memory")
           \cup QuantityErrors(r.disk, "disk") \cup IntErrors(r.processes, "processes")
           \cup QuantityErrors(r.timeout, "timeout") = {}
    BY <1>1, Zenon DEF ResourceErrors
  <2> HIDE DEF r
  <2> QED
    BY <2>1
<1> HIDE DEF r
<1>4. {"memory", "disk", "timeout"} \subseteq Quantities
  BY DEF Quantities
<1> QED
  BY <1>1, <1>2, <1>3, <1>4, IntInRange, QuantityInRange

\* What is known of the texts of a validated list: m of them, all good, none twice.
GoodTexts(list, m) ==
  /\ m \in Nat /\ Len(list) = m /\ DOMAIN list = 1..m /\ IsInjective(list)
  /\ \A i \in 1..m : list[i][1] = "good"

LEMMA ValidScenarios ==
  ASSUME NEW U, IsTree(U), NEW n \in U, NEW global \in Nat \ {0}, ScenariosErrors(n, global) = {}
  PROVE  /\ GoodTexts([i \in 1..Len(Items(n)) |-> Field(Items(n)[i], "id").value], Len(Items(n)))
         /\ Len(Items(n)) \in 1..MaxScenarios
         /\ \A i \in 1..Len(Items(n)) : Quantity(Field(Items(n)[i], "timeout")) \in MinOf["timeout"]..global
<1>1. PICK m : m = Len(Items(n)) /\ m \in Nat
  BY DEF IsTree
<1> DEFINE ids == [i \in 1..m |-> Field(Items(n)[i], "id").value]
<1>2. /\ ~MissingSection(n)
      /\ If(m \notin 1..MaxScenarios, "out-of-range") = {}
      /\ \A i \in 1..m : ScenarioErrors(Items(n)[i], global) = {}
      /\ RepeatErrors(ids) = {}
  <2>1. ~MissingSection(n)
    BY DEF ScenariosErrors
  <2>2. PICK A, B, C : /\ A = If(m \notin 1..MaxScenarios, "out-of-range")
                       /\ B = UNION {ScenarioErrors(Items(n)[i], global) : i \in 1..m}
                       /\ C = RepeatErrors(ids)
    OBVIOUS
  <2>3. A \cup B \cup C = {}
    BY <1>1, <2>1, <2>2, Zenon DEF ScenariosErrors
  <2>4. A = {} /\ B = {} /\ C = {}
    BY ONLY <2>3
  <2>5. \A i \in 1..m : ScenarioErrors(Items(n)[i], global) = {}
    BY <2>2, <2>4
  <2> QED
    BY <2>1, <2>2, <2>4, <2>5, Zenon
<1>3. m \in 1..MaxScenarios
  BY <1>2 DEF If
<1>4. ASSUME NEW i \in 1..m
      PROVE  ids[i][1] = "good" /\ Quantity(Field(Items(n)[i], "timeout")) \in MinOf["timeout"]..global
  <2>1. PICK x : x = Items(n)[i] /\ ScenarioErrors(x, global) = {}
    BY <1>2
  <2>2. x.kind # "null"
    BY <2>1 DEF ScenarioErrors
  <2> DEFINE s == Decode(x, "scenarios")
  <2>3. s.id = Field(x, "id") /\ s.timeout = Field(x, "timeout")
    BY DecodedField, FieldsOfSections
  <2>4. /\ TextErrors(s.id) = {} /\ QuantityErrors(s.timeout, "timeout") = {}
        /\ If(QuantityErrors(s.timeout, "timeout") = {} /\ global > 0
                   /\ ~WithinGlobal(Quantity(s.timeout), global), "cross-field") = {}
    <3>1. TextErrors(s.id) \cup TextErrors(s.name) \cup TextErrors(s.shell) \cup TextErrors(s.run)
           \cup QuantityErrors(s.timeout, "timeout")
           \cup If(QuantityErrors(s.timeout, "timeout") = {} /\ global > 0
                   /\ ~WithinGlobal(Quantity(s.timeout), global), "cross-field") = {}
      BY <2>1, <2>2, Zenon DEF ScenarioErrors
    <3> HIDE DEF s
    <3> QED
      BY <3>1
  <2> HIDE DEF s
  <2>5. WithinGlobal(Quantity(s.timeout), global)
    BY <2>4 DEF If
  <2>6. PICK t : t = Quantity(s.timeout)
    OBVIOUS
  <2>7. t \in MinOf["timeout"]..MaxOf["timeout"] /\ MaxOf["timeout"] \in Nat /\ MinOf["timeout"] \in Nat \ {0}
    BY <2>4, <2>6, QuantityInRange, ConfigAssumption DEF Quantities
  <2>8. t \in MinOf["timeout"]..global
    BY <2>5, <2>6, <2>7 DEF WithinGlobal
  <2>9. Field(x, "id").value[1] = "good"
    BY <2>3, <2>4, TextIsGood
  <2> QED
    <3>1. ids[i] = Field(x, "id").value
      BY <2>1
    <3> HIDE DEF ids
    <3>2. Quantity(Field(x, "timeout")) = t
      BY <2>3, <2>6
    <3> QED
      BY <2>1, <2>8, <2>9, <3>1, <3>2
<1>5. Len(ids) = m /\ DOMAIN ids = 1..m
  BY <1>1
<1>6. GoodTexts(ids, m)
  <2>1. \A i \in 1..m : ids[i][1] = "good"
    BY <1>4
  <2> HIDE DEF ids
  <2>2. IsInjective(ids)
    BY <1>1, <1>2, <1>5, <2>1, NoRepetition
  <2> QED
    BY <1>1, <1>5, <2>1, <2>2, Zenon DEF GoodTexts
<1> QED
  BY <1>1, <1>3, <1>4, <1>6

\* A list of which every text is good and none is repeated.
LEMMA ListIsGood ==
  ASSUME NEW list, NEW m \in Nat, Len(list) = m, DOMAIN list = 1..m, RepeatErrors(list) = {},
         \A i \in 1..m : list[i][1] = "good"
  PROVE  GoodTexts(list, m)
<1>1. IsInjective(list)
  BY NoRepetition
<1> QED
  BY <1>1, Zenon DEF GoodTexts

\* What is wrong with the list of a section.
RootsErrors(l) ==
  IF MissingSection(l) THEN {"missing"}
  ELSE If(Len(Items(l)) > MaxRoots, "out-of-range")
       \cup (UNION {TextErrors(Items(l)[i]) : i \in 1..Len(Items(l))})
       \cup RepeatErrors([i \in 1..Len(Items(l)) |-> Items(l)[i].value])
ArtifactsErrors(l) ==
  IF MissingSection(l) THEN {"missing"}
  ELSE If(Len(Items(l)) > MaxArtifacts, "out-of-range")
       \cup (UNION {ArtifactErrors(Items(l)[i]) : i \in 1..Len(Items(l))})
       \cup RepeatErrors([i \in 1..Len(Items(l)) |-> Field(Items(l)[i], "path").value])
IgnoresErrors(l) ==
  IF MissingSection(l) THEN {"missing"}
  ELSE If(Len(Items(l)) > MaxIgnores, "out-of-range")
       \cup (UNION {IgnoreErrors(Items(l)[i]) : i \in 1..Len(Items(l))})
       \cup RepeatErrors([i \in 1..Len(Items(l)) |-> Field(Items(l)[i], "field").value])

LEMMA ListsOfSections ==
  /\ \A n : FilesystemErrors(n) = {} => RootsErrors(Field(n, "roots")) = {}
  /\ \A n : CompareErrors(n) = {} => /\ IgnoresErrors(Field(n, "ignore")) = {}
                                     /\ IntErrors(Field(n, "repetitions"), "repetitions") = {}
  /\ \A n : CollectErrors(n) = {} => /\ FilesystemErrors(Field(n, "filesystem")) = {}
                                     /\ ArtifactsErrors(Field(n, "artifacts")) = {}
                                     /\ QuantityErrors(Field(Field(n, "logs"), "maxBytesPerStream"), "log") = {}
<1>1. ASSUME NEW n, FilesystemErrors(n) = {} PROVE RootsErrors(Field(n, "roots")) = {}
  <2>1. ~MissingSection(n)
    BY <1>1 DEF FilesystemErrors
  <2>2. FilesystemErrors(n) = RootsErrors(Decode(n, "filesystem").roots) \cup OnlyErrors(Decode(n, "filesystem").contents)
    BY <2>1, Zenon DEF FilesystemErrors, RootsErrors
  <2>3. Decode(n, "filesystem").roots = Field(n, "roots")
    BY DecodedField, FieldsOfSections
  <2> QED
    BY <1>1, <2>2, <2>3
<1>2. ASSUME NEW n, CompareErrors(n) = {}
      PROVE  IgnoresErrors(Field(n, "ignore")) = {} /\ IntErrors(Field(n, "repetitions"), "repetitions") = {}
  <2>1. ~MissingSection(n)
    BY <1>2 DEF CompareErrors
  <2>2. CompareErrors(n) = IgnoresErrors(Decode(n, "compare").ignore)
                           \cup IntErrors(Decode(n, "compare").repetitions, "repetitions")
    BY <2>1, Zenon DEF CompareErrors, IgnoresErrors
  <2>3. /\ Decode(n, "compare").ignore = Field(n, "ignore")
        /\ Decode(n, "compare").repetitions = Field(n, "repetitions")
    BY DecodedField, FieldsOfSections
  <2> QED
    BY <1>2, <2>2, <2>3
<1>3. ASSUME NEW n, CollectErrors(n) = {}
      PROVE  /\ FilesystemErrors(Field(n, "filesystem")) = {} /\ ArtifactsErrors(Field(n, "artifacts")) = {}
             /\ QuantityErrors(Field(Field(n, "logs"), "maxBytesPerStream"), "log") = {}
  <2>1. ~MissingSection(n)
    BY <1>3 DEF CollectErrors
  <2>2. PICK c : c = Decode(n, "collect")
    OBVIOUS
  <2>3. PICK L : L = IF MissingSection(c.logs) THEN {"missing"}
                     ELSE QuantityErrors(Field(c.logs, "maxBytesPerStream"), "log")
    OBVIOUS
  <2>4. CollectErrors(n) = FilesystemErrors(Decode(n, "collect").filesystem)
                           \cup ArtifactsErrors(Decode(n, "collect").artifacts)
                           \cup (IF MissingSection(Decode(n, "collect").logs) THEN {"missing"}
                                 ELSE QuantityErrors(Field(Decode(n, "collect").logs, "maxBytesPerStream"), "log"))
    BY <2>1, Zenon DEF CollectErrors, ArtifactsErrors
  <2>5. FilesystemErrors(c.filesystem) = {} /\ ArtifactsErrors(c.artifacts) = {} /\ L = {}
    <3>1. PICK A, B : A = FilesystemErrors(c.filesystem) /\ B = ArtifactsErrors(c.artifacts)
      OBVIOUS
    <3>2. A \cup B \cup L = {}
      BY <1>3, <2>2, <2>3, <2>4, <3>1, Zenon
    <3>3. A = {} /\ B = {} /\ L = {}
      BY ONLY <3>2
    <3> QED
      BY <3>1, <3>3
  <2>6. c.filesystem = Field(n, "filesystem") /\ c.artifacts = Field(n, "artifacts") /\ c.logs = Field(n, "logs")
    BY <2>2, DecodedField, FieldsOfSections
  <2>7. QuantityErrors(Field(c.logs, "maxBytesPerStream"), "log") = {}
    BY <2>3, <2>5
  <2> QED
    BY <2>5, <2>6, <2>7
<1> QED
  BY <1>1, <1>2, <1>3

LEMMA ValidRoots ==
  ASSUME NEW U, IsTree(U), NEW l \in U, RootsErrors(l) = {}
  PROVE  /\ GoodTexts([i \in 1..Len(Items(l)) |-> Items(l)[i].value], Len(Items(l)))
         /\ Len(Items(l)) <= MaxRoots
<1>1. PICK m : m = Len(Items(l)) /\ m \in Nat
  BY DEF IsTree
<1> DEFINE list == [i \in 1..m |-> Items(l)[i].value]
<1>2. PICK A, B, C : /\ A = If(m > MaxRoots, "out-of-range")
                     /\ B = UNION {TextErrors(Items(l)[i]) : i \in 1..m} /\ C = RepeatErrors(list)
  OBVIOUS
<1>3. ~MissingSection(l)
  BY DEF RootsErrors
<1>4. A \cup B \cup C = {}
  BY <1>1, <1>2, <1>3, Zenon DEF RootsErrors
<1>5. A = {} /\ B = {} /\ C = {}
  BY ONLY <1>4
<1>6. MaxRoots \in Nat
  BY ConfigAssumption
<1>7. m <= MaxRoots
  BY <1>1, <1>2, <1>5, <1>6 DEF If
<1>8. ASSUME NEW i \in 1..m PROVE list[i][1] = "good"
  <2>1. TextErrors(Items(l)[i]) = {}
    BY <1>2, <1>5
  <2>3. list[i] = Items(l)[i].value
    OBVIOUS
  <2> HIDE DEF list
  <2> QED
    BY <2>1, <2>3, TextIsGood
<1>9. Len(list) = m /\ DOMAIN list = 1..m
  BY <1>1
<1>10. GoodTexts(list, m)
  <2>1. \A i \in 1..m : list[i][1] = "good"
    BY <1>8
  <2> HIDE DEF list
  <2> QED
    BY <1>1, <1>2, <1>5, <1>9, <2>1, ListIsGood
<1> QED
  BY <1>1, <1>7, <1>8, <1>10

LEMMA ValidArtifacts ==
  ASSUME NEW U, IsTree(U), NEW l \in U, ArtifactsErrors(l) = {}
  PROVE  /\ GoodTexts([i \in 1..Len(Items(l)) |-> Field(Items(l)[i], "path").value], Len(Items(l)))
         /\ Len(Items(l)) <= MaxArtifacts
         /\ \A i \in 1..Len(Items(l)) : Quantity(Field(Items(l)[i], "maxBytes")) \in MinOf["artifact"]..MaxOf["artifact"]
<1>1. PICK m : m = Len(Items(l)) /\ m \in Nat
  BY DEF IsTree
<1> DEFINE list == [i \in 1..m |-> Field(Items(l)[i], "path").value]
<1>2. PICK A, B, C : /\ A = If(m > MaxArtifacts, "out-of-range")
                     /\ B = UNION {ArtifactErrors(Items(l)[i]) : i \in 1..m} /\ C = RepeatErrors(list)
  OBVIOUS
<1>3. ~MissingSection(l)
  BY DEF ArtifactsErrors
<1>4. A \cup B \cup C = {}
  BY <1>1, <1>2, <1>3, Zenon DEF ArtifactsErrors
<1>5. A = {} /\ B = {} /\ C = {}
  BY ONLY <1>4
<1>6. MaxArtifacts \in Nat
  BY ConfigAssumption
<1>7. m <= MaxArtifacts
  BY <1>1, <1>2, <1>5, <1>6 DEF If
<1>8. ASSUME NEW i \in 1..m PROVE list[i][1] = "good" /\ Quantity(Field(Items(l)[i], "maxBytes")) \in MinOf["artifact"]..MaxOf["artifact"]
  <2>1. ArtifactErrors(Items(l)[i]) = {}
    BY <1>2, <1>5
  <2>2. /\ TextErrors(Field(Items(l)[i], "path")) = {}
        /\ QuantityErrors(Field(Items(l)[i], "maxBytes"), "artifact") = {}
    BY <2>1 DEF ArtifactErrors
  <2>3. list[i] = Field(Items(l)[i], "path").value
    OBVIOUS
  <2> HIDE DEF list
  <2> QED
    BY <2>2, <2>3, TextIsGood, QuantityInRange DEF Quantities
<1>9. Len(list) = m /\ DOMAIN list = 1..m
  BY <1>1
<1>10. GoodTexts(list, m)
  <2>1. \A i \in 1..m : list[i][1] = "good"
    BY <1>8
  <2> HIDE DEF list
  <2> QED
    BY <1>1, <1>2, <1>5, <1>9, <2>1, ListIsGood
<1> QED
  BY <1>1, <1>7, <1>8, <1>10

LEMMA ValidIgnores ==
  ASSUME NEW U, IsTree(U), NEW l \in U, IgnoresErrors(l) = {}
  PROVE  /\ GoodTexts([i \in 1..Len(Items(l)) |-> Field(Items(l)[i], "field").value], Len(Items(l)))
         /\ Len(Items(l)) <= MaxIgnores
<1>1. PICK m : m = Len(Items(l)) /\ m \in Nat
  BY DEF IsTree
<1> DEFINE list == [i \in 1..m |-> Field(Items(l)[i], "field").value]
<1>2. PICK A, B, C : /\ A = If(m > MaxIgnores, "out-of-range")
                     /\ B = UNION {IgnoreErrors(Items(l)[i]) : i \in 1..m} /\ C = RepeatErrors(list)
  OBVIOUS
<1>3. ~MissingSection(l)
  BY DEF IgnoresErrors
<1>4. A \cup B \cup C = {}
  BY <1>1, <1>2, <1>3, Zenon DEF IgnoresErrors
<1>5. A = {} /\ B = {} /\ C = {}
  BY ONLY <1>4
<1>6. MaxIgnores \in Nat
  BY ConfigAssumption
<1>7. m <= MaxIgnores
  BY <1>1, <1>2, <1>5, <1>6 DEF If
<1>8. ASSUME NEW i \in 1..m PROVE list[i][1] = "good"
  <2>1. IgnoreErrors(Items(l)[i]) = {}
    BY <1>2, <1>5
  <2>2. TextErrors(Field(Items(l)[i], "field")) = {}
    BY <2>1 DEF IgnoreErrors
  <2>3. list[i] = Field(Items(l)[i], "field").value
    OBVIOUS
  <2> HIDE DEF list
  <2> QED
    BY <2>2, <2>3, TextIsGood
<1>9. Len(list) = m /\ DOMAIN list = 1..m
  BY <1>1
<1>10. GoodTexts(list, m)
  <2>1. \A i \in 1..m : list[i][1] = "good"
    BY <1>8
  <2> HIDE DEF list
  <2> QED
    BY <1>1, <1>2, <1>5, <1>9, <2>1, ListIsGood
<1> QED
  BY <1>1, <1>7, <1>8, <1>10

-----------------------------------------------------------------------------
(* The pipeline of a document.                                             *)

ResourcesOf(n) ==
  [cpu |-> IntOf(Field(n, "cpu")), memory |-> Quantity(Field(n, "memory")),
   disk |-> Quantity(Field(n, "disk")), processes |-> IntOf(Field(n, "processes")),
   timeout |-> Quantity(Field(n, "timeout"))]
ScenarioOf(x) ==
  [id |-> Field(x, "id").value, name |-> Field(x, "name").value,
   shell |-> Field(x, "shell").value, run |-> Field(x, "run").value,
   timeout |-> Quantity(Field(x, "timeout"))]
ArtifactOf(x) == [path |-> Field(x, "path").value, max |-> Quantity(Field(x, "maxBytes"))]
ScenariosOf(l) == [i \in 1..Len(Items(l)) |-> ScenarioOf(Items(l)[i])]
ArtifactsOf(l) == [i \in 1..Len(Items(l)) |-> ArtifactOf(Items(l)[i])]
IgnoresOf(l) == [i \in 1..Len(Items(l)) |-> Field(Items(l)[i], "field").value]
RootsOf(l) == Values(Items(l))

\* The fields of a pipeline, with the sections they are decoded from.
LEMMA PipelineIs ==
  ASSUME NEW doc
  PROVE  Pipeline(doc) =
    [ name |-> Field(Field(doc, "metadata"), "name").value,
      image |-> Field(Of(doc, "environment"), "image").value,
      workdir |-> Field(Of(doc, "environment"), "workdir").value,
      resources |-> ResourcesOf(Of(doc, "resources")),
      scenarios |-> ScenariosOf(Of(doc, "scenarios")),
      roots |-> RootsOf(Field(Field(Of(doc, "collect"), "filesystem"), "roots")),
      artifacts |-> ArtifactsOf(Field(Of(doc, "collect"), "artifacts")),
      log |-> Quantity(Field(Field(Of(doc, "collect"), "logs"), "maxBytesPerStream")),
      ignore |-> IgnoresOf(Field(Of(doc, "compare"), "ignore")),
      repetitions |-> IntOf(Field(Of(doc, "compare"), "repetitions")) ]
<1> DEFINE env == Decode(Of(doc, "environment"), "environment")
           res == Decode(Of(doc, "resources"), "resources")
           col == Decode(Of(doc, "collect"), "collect")
           cmp == Decode(Of(doc, "compare"), "compare")
<1>1. env.image = Field(Of(doc, "environment"), "image") /\ env.workdir = Field(Of(doc, "environment"), "workdir")
  BY DecodedField, FieldsOfSections
<1>2. [cpu |-> IntOf(res.cpu), memory |-> Quantity(res.memory), disk |-> Quantity(res.disk),
       processes |-> IntOf(res.processes), timeout |-> Quantity(res.timeout)] = ResourcesOf(Of(doc, "resources"))
  <2>1. /\ res.cpu = Field(Of(doc, "resources"), "cpu") /\ res.memory = Field(Of(doc, "resources"), "memory")
        /\ res.disk = Field(Of(doc, "resources"), "disk") /\ res.timeout = Field(Of(doc, "resources"), "timeout")
        /\ res.processes = Field(Of(doc, "resources"), "processes")
    BY DecodedField, FieldsOfSections
  <2> HIDE DEF res
  <2> QED
    BY <2>1 DEF ResourcesOf
<1>3. /\ col.filesystem = Field(Of(doc, "collect"), "filesystem") /\ col.logs = Field(Of(doc, "collect"), "logs")
      /\ col.artifacts = Field(Of(doc, "collect"), "artifacts")
  BY DecodedField, FieldsOfSections
<1>4. /\ cmp.ignore = Field(Of(doc, "compare"), "ignore")
      /\ cmp.repetitions = Field(Of(doc, "compare"), "repetitions")
  BY DecodedField, FieldsOfSections
<1>5. Pipeline(doc) =
    [ name |-> Field(Field(doc, "metadata"), "name").value,
      image |-> env.image.value, workdir |-> env.workdir.value,
      resources |-> [cpu |-> IntOf(res.cpu), memory |-> Quantity(res.memory), disk |-> Quantity(res.disk),
                     processes |-> IntOf(res.processes), timeout |-> Quantity(res.timeout)],
      scenarios |-> ScenariosOf(Of(doc, "scenarios")),
      roots |-> RootsOf(Field(col.filesystem, "roots")),
      artifacts |-> ArtifactsOf(col.artifacts),
      log |-> Quantity(Field(col.logs, "maxBytesPerStream")),
      ignore |-> IgnoresOf(cmp.ignore),
      repetitions |-> IntOf(cmp.repetitions) ]
  BY Zenon DEF Pipeline, Of, ScenariosOf, ScenarioOf, ArtifactsOf, ArtifactOf, IgnoresOf, RootsOf
<1> HIDE DEF env, res, col, cmp
<1> QED
  BY <1>1, <1>2, <1>3, <1>4, <1>5

\* A list of records with the texts of its keys.
LEMMA KeysOfScenarios ==
  ASSUME NEW l, Len(Items(l)) \in Nat
  PROVE  /\ KeysOf(ScenariosOf(l), "id") = [i \in 1..Len(Items(l)) |-> Field(Items(l)[i], "id").value]
         /\ Len(ScenariosOf(l)) = Len(Items(l)) /\ DOMAIN ScenariosOf(l) = 1..Len(Items(l))
         /\ \A i \in 1..Len(Items(l)) : ScenariosOf(l)[i] = ScenarioOf(Items(l)[i])
<1>1. PICK m : m = Len(Items(l)) /\ m \in Nat
  OBVIOUS
<1>2. PICK L : L = ScenariosOf(l)
  OBVIOUS
<1>3. L = [i \in 1..m |-> ScenarioOf(Items(l)[i])]
  BY <1>1, <1>2 DEF ScenariosOf
<1>4. DOMAIN L = 1..m /\ Len(L) = m /\ \A i \in 1..m : L[i] = ScenarioOf(Items(l)[i])
  BY <1>1, <1>3
<1>5. \A i \in 1..m : L[i].id = Field(Items(l)[i], "id").value
  BY <1>4 DEF ScenarioOf
<1>6. KeysOf(L, "id") = [i \in 1..m |-> Field(Items(l)[i], "id").value]
  BY <1>4, <1>5 DEF KeysOf
<1> QED
  BY <1>1, <1>2, <1>4, <1>6

LEMMA KeysOfArtifacts ==
  ASSUME NEW l, Len(Items(l)) \in Nat
  PROVE  /\ KeysOf(ArtifactsOf(l), "path") = [i \in 1..Len(Items(l)) |-> Field(Items(l)[i], "path").value]
         /\ Len(ArtifactsOf(l)) = Len(Items(l)) /\ DOMAIN ArtifactsOf(l) = 1..Len(Items(l))
         /\ \A i \in 1..Len(Items(l)) : ArtifactsOf(l)[i] = ArtifactOf(Items(l)[i])
<1>1. PICK m : m = Len(Items(l)) /\ m \in Nat
  OBVIOUS
<1>2. PICK L : L = ArtifactsOf(l)
  OBVIOUS
<1>3. L = [i \in 1..m |-> ArtifactOf(Items(l)[i])]
  BY <1>1, <1>2 DEF ArtifactsOf
<1>4. DOMAIN L = 1..m /\ Len(L) = m /\ \A i \in 1..m : L[i] = ArtifactOf(Items(l)[i])
  BY <1>1, <1>3
<1>5. \A i \in 1..m : L[i].path = Field(Items(l)[i], "path").value
  BY <1>4 DEF ArtifactOf
<1>6. KeysOf(L, "path") = [i \in 1..m |-> Field(Items(l)[i], "path").value]
  BY <1>4, <1>5 DEF KeysOf
<1> QED
  BY <1>1, <1>2, <1>4, <1>6

\* A list is a function of its positions.
IsList(l) == l = [i \in 1..Len(l) |-> l[i]]

\* What is known of a pipeline that was validated: Usable, and what its fields are.
IsPipeline(p) ==
  /\ p = [name |-> p.name, image |-> p.image, workdir |-> p.workdir, resources |-> p.resources,
          scenarios |-> p.scenarios, roots |-> p.roots, artifacts |-> p.artifacts, log |-> p.log,
          ignore |-> p.ignore, repetitions |-> p.repetitions]
  /\ p.resources = [cpu |-> p.resources.cpu, memory |-> p.resources.memory, disk |-> p.resources.disk,
                    processes |-> p.resources.processes, timeout |-> p.resources.timeout]
  /\ \A r \in {"cpu", "memory", "disk", "processes", "timeout"} : p.resources[r] \in MinOf[r]..MaxOf[r]
  /\ p.log \in MinOf["log"]..MaxOf["log"] /\ p.repetitions \in MinOf["repetitions"]..MaxOf["repetitions"]
  /\ GoodTexts(KeysOf(p.scenarios, "id"), Len(p.scenarios)) /\ GoodTexts(p.roots, Len(p.roots))
  /\ GoodTexts(KeysOf(p.artifacts, "path"), Len(p.artifacts)) /\ GoodTexts(p.ignore, Len(p.ignore))
  /\ DOMAIN p.scenarios = 1..Len(p.scenarios) /\ DOMAIN p.artifacts = 1..Len(p.artifacts)
  /\ IsList(p.scenarios) /\ IsList(p.roots) /\ IsList(p.artifacts) /\ IsList(p.ignore)
  /\ Len(p.scenarios) \in 1..MaxScenarios /\ Len(p.roots) <= MaxRoots
  /\ Len(p.artifacts) <= MaxArtifacts /\ Len(p.ignore) <= MaxIgnores
  /\ \A i \in 1..Len(p.scenarios) :
       /\ p.scenarios[i] = [id |-> p.scenarios[i].id, name |-> p.scenarios[i].name, shell |-> p.scenarios[i].shell,
                            run |-> p.scenarios[i].run, timeout |-> p.scenarios[i].timeout]
       /\ p.scenarios[i].timeout \in MinOf["timeout"]..p.resources.timeout
  /\ \A i \in 1..Len(p.artifacts) :
       /\ p.artifacts[i] = [path |-> p.artifacts[i].path, max |-> p.artifacts[i].max]
       /\ p.artifacts[i].max \in MinOf["artifact"]..MaxOf["artifact"]

\* A document without errors has a validated pipeline.
LEMMA ValidPipeline ==
  ASSUME NEW doc, NEW U, IsTree(U), doc \in U, ValidateErrors(doc) = {}
  PROVE  IsPipeline(Pipeline(doc))
<1>1. PICK res, scen, roots, arts, ign, col, cmp :
        /\ res = Of(doc, "resources") /\ scen = Of(doc, "scenarios") /\ col = Of(doc, "collect")
        /\ cmp = Of(doc, "compare") /\ roots = Field(Field(col, "filesystem"), "roots")
        /\ arts = Field(col, "artifacts") /\ ign = Field(cmp, "ignore")
  OBVIOUS
<1>2. {res, scen, col, cmp, roots, arts, ign} \subseteq U
  <2>1. Field(doc, "spec") \in U
    BY DEF IsTree
  <2>2. res \in U /\ scen \in U /\ col \in U /\ cmp \in U
    BY <1>1, <2>1 DEF IsTree, Of
  <2>3. Field(col, "filesystem") \in U /\ arts \in U /\ ign \in U
    BY <1>1, <2>2 DEF IsTree
  <2>4. roots \in U
    BY <1>1, <2>3 DEF IsTree
  <2> QED
    BY <2>2, <2>3, <2>4
<1>3. PICK g : g = GlobalTimeout(Field(doc, "spec"))
  OBVIOUS
<1>4. ResourceErrors(res) = {} /\ ScenariosErrors(scen, g) = {} /\ CollectErrors(col) = {} /\ CompareErrors(cmp) = {}
  BY <1>1, <1>3, ValidatedSections
<1>5. /\ ~MissingSection(res)
      /\ IntOf(Field(res, "cpu")) \in MinOf["cpu"]..MaxOf["cpu"] /\ IntOf(Field(res, "processes")) \in MinOf["processes"]..MaxOf["processes"]
      /\ Quantity(Field(res, "memory")) \in MinOf["memory"]..MaxOf["memory"] /\ Quantity(Field(res, "disk")) \in MinOf["disk"]..MaxOf["disk"]
      /\ Quantity(Field(res, "timeout")) \in MinOf["timeout"]..MaxOf["timeout"]
  BY <1>4, ValidResources
<1>6. g = Quantity(Field(res, "timeout"))
  BY <1>1, <1>3, <1>5, Zenon DEF GlobalTimeout, Of
<1>7. g \in Nat \ {0}
  <2>1. g \in MinOf["timeout"]..MaxOf["timeout"]
    BY <1>5, <1>6
  <2>2. MaxOf["timeout"] \in Nat /\ MinOf["timeout"] \in Nat \ {0}
    BY ConfigAssumption DEF Quantities
  <2> QED
    BY <2>1, <2>2
<1>8. /\ FilesystemErrors(Field(col, "filesystem")) = {} /\ ArtifactsErrors(arts) = {}
      /\ QuantityErrors(Field(Field(col, "logs"), "maxBytesPerStream"), "log") = {}
      /\ IgnoresErrors(ign) = {} /\ IntErrors(Field(cmp, "repetitions"), "repetitions") = {}
  BY <1>1, <1>4, ListsOfSections
<1>9. RootsErrors(roots) = {}
  BY <1>1, <1>8, ListsOfSections
<1>10. PICK p : p = Pipeline(doc)
  OBVIOUS
<1>11. PICK R, S, A, Z, Y, nm, im, wd, lg, rp :
         /\ R = ResourcesOf(res) /\ S = ScenariosOf(scen) /\ A = ArtifactsOf(arts)
         /\ Z = RootsOf(roots) /\ Y = IgnoresOf(ign)
         /\ nm = Field(Field(doc, "metadata"), "name").value
         /\ im = Field(Of(doc, "environment"), "image").value
         /\ wd = Field(Of(doc, "environment"), "workdir").value
         /\ lg = Quantity(Field(Field(col, "logs"), "maxBytesPerStream"))
         /\ rp = IntOf(Field(cmp, "repetitions"))
  OBVIOUS
<1>12. p = [name |-> nm, image |-> im, workdir |-> wd, resources |-> R, scenarios |-> S, roots |-> Z,
            artifacts |-> A, log |-> lg, ignore |-> Y, repetitions |-> rp]
  BY <1>1, <1>10, <1>11, PipelineIs
<1>13. /\ p.resources = R /\ p.scenarios = S /\ p.roots = Z /\ p.artifacts = A /\ p.log = lg /\ p.ignore = Y
       /\ p.repetitions = rp
  BY <1>12
<1>14. p = [name |-> p.name, image |-> p.image, workdir |-> p.workdir, resources |-> p.resources,
            scenarios |-> p.scenarios, roots |-> p.roots, artifacts |-> p.artifacts, log |-> p.log,
            ignore |-> p.ignore, repetitions |-> p.repetitions]
  BY <1>12
<1>15. /\ R = [cpu |-> R.cpu, memory |-> R.memory, disk |-> R.disk, processes |-> R.processes, timeout |-> R.timeout]
       /\ \A r \in {"cpu", "memory", "disk", "processes", "timeout"} : R[r] \in MinOf[r]..MaxOf[r]
       /\ R.timeout = g
  <2>1. PICK a, b, c, d : a = IntOf(Field(res, "cpu")) /\ b = Quantity(Field(res, "memory"))
                          /\ c = Quantity(Field(res, "disk")) /\ d = IntOf(Field(res, "processes"))
    OBVIOUS
  <2>2. R = [cpu |-> a, memory |-> b, disk |-> c, processes |-> d, timeout |-> g]
    BY <1>6, <1>11, <2>1 DEF ResourcesOf
  <2>3. R.cpu = a /\ R.memory = b /\ R.disk = c /\ R.processes = d /\ R.timeout = g
    BY <2>2
  <2>4. /\ a \in MinOf["cpu"]..MaxOf["cpu"] /\ b \in MinOf["memory"]..MaxOf["memory"] /\ c \in MinOf["disk"]..MaxOf["disk"]
        /\ d \in MinOf["processes"]..MaxOf["processes"] /\ g \in MinOf["timeout"]..MaxOf["timeout"]
    BY <1>5, <1>6, <2>1
  <2> QED
    BY <2>2, <2>3, <2>4
<1>16. /\ lg \in MinOf["log"]..MaxOf["log"] /\ rp \in MinOf["repetitions"]..MaxOf["repetitions"]
  BY <1>8, <1>11, QuantityInRange, IntInRange DEF Quantities
<1>17. /\ GoodTexts(KeysOf(S, "id"), Len(S)) /\ DOMAIN S = 1..Len(S) /\ Len(S) \in 1..MaxScenarios /\ IsList(S)
       /\ \A i \in 1..Len(S) :
            /\ S[i] = [id |-> S[i].id, name |-> S[i].name, shell |-> S[i].shell,
                       run |-> S[i].run, timeout |-> S[i].timeout]
            /\ S[i].timeout \in MinOf["timeout"]..g
  <2>1. /\ GoodTexts([i \in 1..Len(Items(scen)) |-> Field(Items(scen)[i], "id").value], Len(Items(scen)))
        /\ Len(Items(scen)) \in 1..MaxScenarios
        /\ \A i \in 1..Len(Items(scen)) : Quantity(Field(Items(scen)[i], "timeout")) \in MinOf["timeout"]..g
    BY <1>2, <1>4, <1>7, ValidScenarios
  <2>2. Len(Items(scen)) \in Nat
    BY <1>2 DEF IsTree
  <2>3. /\ KeysOf(S, "id") = [i \in 1..Len(Items(scen)) |-> Field(Items(scen)[i], "id").value]
        /\ Len(S) = Len(Items(scen)) /\ DOMAIN S = 1..Len(Items(scen))
        /\ \A i \in 1..Len(Items(scen)) : S[i] = ScenarioOf(Items(scen)[i])
    BY <1>11, <2>2, KeysOfScenarios
  <2>4. ASSUME NEW i \in 1..Len(Items(scen))
        PROVE  /\ S[i] = [id |-> S[i].id, name |-> S[i].name, shell |-> S[i].shell,
                          run |-> S[i].run, timeout |-> S[i].timeout]
               /\ S[i].timeout \in MinOf["timeout"]..g
    <3>1. PICK x, t : x = Items(scen)[i] /\ t = Quantity(Field(x, "timeout")) /\ t \in MinOf["timeout"]..g
      BY <2>1
    <3>2. S[i] = ScenarioOf(x)
      BY <2>3, <3>1
    <3> QED
      BY <3>1, <3>2 DEF ScenarioOf
  <2>5. PICK m : m = Len(Items(scen))
    OBVIOUS
  <2>6. S = [i \in 1..m |-> ScenarioOf(Items(scen)[i])] /\ Len(S) = m
    BY <1>11, <2>3, <2>5, Zenon DEF ScenariosOf
  <2>7. IsList(S)
    BY <2>6 DEF IsList
  <2> QED
    BY <2>1, <2>3, <2>4, <2>7, Zenon
<1>18. /\ GoodTexts(KeysOf(A, "path"), Len(A)) /\ DOMAIN A = 1..Len(A) /\ Len(A) <= MaxArtifacts /\ IsList(A)
       /\ \A i \in 1..Len(A) : A[i] = [path |-> A[i].path, max |-> A[i].max] /\ A[i].max \in MinOf["artifact"]..MaxOf["artifact"]
  <2>1. /\ GoodTexts([i \in 1..Len(Items(arts)) |-> Field(Items(arts)[i], "path").value], Len(Items(arts)))
        /\ Len(Items(arts)) <= MaxArtifacts
        /\ \A i \in 1..Len(Items(arts)) : Quantity(Field(Items(arts)[i], "maxBytes")) \in MinOf["artifact"]..MaxOf["artifact"]
    BY <1>2, <1>8, ValidArtifacts
  <2>2. Len(Items(arts)) \in Nat
    BY <1>2 DEF IsTree
  <2>3. /\ KeysOf(A, "path") = [i \in 1..Len(Items(arts)) |-> Field(Items(arts)[i], "path").value]
        /\ Len(A) = Len(Items(arts)) /\ DOMAIN A = 1..Len(Items(arts))
        /\ \A i \in 1..Len(Items(arts)) : A[i] = ArtifactOf(Items(arts)[i])
    BY <1>11, <2>2, KeysOfArtifacts
  <2>4. ASSUME NEW i \in 1..Len(Items(arts))
        PROVE  A[i] = [path |-> A[i].path, max |-> A[i].max] /\ A[i].max \in MinOf["artifact"]..MaxOf["artifact"]
    <3>1. PICK x, t : x = Items(arts)[i] /\ t = Quantity(Field(x, "maxBytes")) /\ t \in MinOf["artifact"]..MaxOf["artifact"]
      BY <2>1
    <3>2. A[i] = ArtifactOf(x)
      BY <2>3, <3>1
    <3> QED
      BY <3>1, <3>2 DEF ArtifactOf
  <2>5. PICK m : m = Len(Items(arts))
    OBVIOUS
  <2>6. A = [i \in 1..m |-> ArtifactOf(Items(arts)[i])] /\ Len(A) = m
    BY <1>11, <2>3, <2>5, Zenon DEF ArtifactsOf
  <2>7. IsList(A)
    BY <2>6 DEF IsList
  <2> QED
    BY <2>1, <2>3, <2>4, <2>7, Zenon
<1>19. GoodTexts(Z, Len(Z)) /\ Len(Z) <= MaxRoots /\ IsList(Z)
  <2>1. /\ GoodTexts([i \in 1..Len(Items(roots)) |-> Items(roots)[i].value], Len(Items(roots)))
        /\ Len(Items(roots)) <= MaxRoots
    BY <1>2, <1>9, ValidRoots
  <2>2. Z = [i \in 1..Len(Items(roots)) |-> Items(roots)[i].value]
    BY <1>11 DEF RootsOf, Values
  <2>3. Len(Z) = Len(Items(roots))
    BY <2>1, <2>2 DEF GoodTexts
  <2>4. IsList(Z)
    BY <2>2, <2>3 DEF IsList
  <2> QED
    BY <2>1, <2>2, <2>3, <2>4
<1>20. GoodTexts(Y, Len(Y)) /\ Len(Y) <= MaxIgnores /\ IsList(Y)
  <2>1. /\ GoodTexts([i \in 1..Len(Items(ign)) |-> Field(Items(ign)[i], "field").value], Len(Items(ign)))
        /\ Len(Items(ign)) <= MaxIgnores
    BY <1>2, <1>8, ValidIgnores
  <2>2. Y = [i \in 1..Len(Items(ign)) |-> Field(Items(ign)[i], "field").value]
    BY <1>11 DEF IgnoresOf
  <2>3. Len(Y) = Len(Items(ign))
    BY <2>1, <2>2 DEF GoodTexts
  <2>4. IsList(Y)
    BY <2>2, <2>3 DEF IsList
  <2> QED
    BY <2>1, <2>2, <2>3, <2>4
<1>21. p.resources.timeout = g
  BY <1>13, <1>15
<1>22. IsPipeline(p)
  BY <1>13, <1>14, <1>15, <1>16, <1>17, <1>18, <1>19, <1>20, <1>21, Zenon DEF IsPipeline
<1> QED
  BY <1>10, <1>22

LEMMA AcceptedPipeline ==
  ASSUME NEW f, IsFile(f), FileErrors(f) = {}
  PROVE  IsPipeline(Pipeline(f.docs[1]))
<1>1. PICK doc : doc = f.docs[1]
  OBVIOUS
<1>2. ParseErrors(f) = {} /\ ValidateErrors(doc) = {}
  BY <1>1, Zenon DEF FileErrors
<1>3. PICK I, K, P, L : /\ I = InspectErrors(Visited(doc)) /\ K = UnknownFields(Visited(doc))
                        /\ P = PreflightErrors(f) /\ L = LoadErrors(f)
  OBVIOUS
<1>4. ParseErrors(f) = IF P # {} THEN P ELSE IF L # {} THEN L ELSE IF I # {} THEN I ELSE K
  BY <1>1, <1>3, Zenon DEF ParseErrors
<1>5. L = {} /\ I = {}
  BY ONLY <1>2, <1>4
<1>6. Len(f.docs) = 1
  BY <1>3, <1>5 DEF LoadErrors
<1>7. IsDocument(doc)
  <2>1. 1 \in 1..1
    OBVIOUS
  <2> QED
    BY <1>1, <1>6, <2>1, Zenon DEF IsFile
<1>8. doc \in NodesOf(doc) \cup {Absent} /\ IsTree(NodesOf(doc) \cup {Absent})
  BY <1>3, <1>5, <1>7, DocumentIsTree
<1> QED
  BY <1>1, <1>2, <1>8, ValidPipeline

LEMMA PipelineIsUsable == ASSUME NEW p, IsPipeline(p) PROVE Usable(p)
<1>1. DOMAIN p.resources = {"cpu", "memory", "disk", "processes", "timeout"}
  BY DEF IsPipeline
<1>2. ASSUME NEW list, NEW m, GoodTexts(list, m) PROVE IsInjective(list) /\ \A v \in Range(list) : v[1] = "good"
  BY <1>2 DEF GoodTexts, Range
<1>3. \A list \in {KeysOf(p.scenarios, "id"), KeysOf(p.artifacts, "path"), p.roots, p.ignore} :
        IsInjective(list) /\ \A v \in Range(list) : v[1] = "good"
  BY <1>2, Zenon DEF IsPipeline
<1> QED
  BY <1>1, <1>3, Zenon DEF IsPipeline, Usable

\* Every file that Parse and Validate accept yields a usable pipeline, whatever its nodes
\* and however it was edited.
THEOREM AcceptedIsUsableTheorem == Spec => []AcceptedIsUsable
<1>1. RevisionsInv => AcceptedIsUsable
  BY AcceptedPipeline, PipelineIsUsable, Zenon DEF RevisionsInv, AcceptedIsUsable
<1> QED
  BY <1>1, Revisions, PTL

-----------------------------------------------------------------------------
(* The changes of a pipeline.                                              *)

LEMMA IfFacts == \A cond, code : /\ (cond = TRUE) => code \in If(cond, code)
                                 /\ (cond = FALSE) => If(cond, code) = {}
BY DEF If

LEMMA TextChangeFacts ==
  ASSUME NEW path, NEW x, NEW y, NEW e
  PROVE  TextChange(path, x, y, e) = {} <=> x = y
BY DEF TextChange, If

LEMMA IntChangeFacts ==
  ASSUME NEW path, NEW x, NEW y, NEW more, NEW less
  PROVE  /\ IntChange(path, x, y, more, less) = {} <=> x = y
         /\ x \in Nat /\ y \in Nat /\ y > x => \E c \in IntChange(path, x, y, more, less) : c.effect = more
         /\ x \in Nat /\ y \in Nat /\ y < x => \E c \in IntChange(path, x, y, more, less) : c.effect = less
<1>1. IntChange(path, x, y, more, less) = {} <=> x = y
  BY DEF IntChange, If
<1>2. ASSUME x # y PROVE Change(path, "modified", IF y > x THEN more ELSE less) \in IntChange(path, x, y, more, less)
  BY <1>2 DEF IntChange, If
<1>3. \A e : Change(path, "modified", e).effect = e
  BY DEF Change
<1>4. ASSUME x \in Nat, y \in Nat, y > x PROVE \E c \in IntChange(path, x, y, more, less) : c.effect = more
  <2>1. x # y
    BY <1>4
  <2> QED
    BY <1>2, <1>3, <1>4, <2>1, Zenon
<1>5. ASSUME x \in Nat, y \in Nat, y < x PROVE \E c \in IntChange(path, x, y, more, less) : c.effect = less
  <2>1. x # y /\ ~(y > x)
    BY <1>5
  <2> QED
    BY <1>2, <1>3, <1>5, <2>1, Zenon
<1> QED
  BY <1>1, <1>4, <1>5, Zenon

\* A good list and how often it has a value.
LEMMA CountOfGood ==
  ASSUME NEW l, NEW m, GoodTexts(l, m)
  PROVE  /\ \A v \in Range(l) : Count(l, v) = 1
         /\ \A v : v \notin Range(l) => Count(l, v) = 0
         /\ Cardinality(Range(l)) = m
<1>1. /\ m \in Nat /\ DOMAIN l = 1..m
      /\ \A i, j \in 1..m : l[i] = l[j] => i = j
  BY DEF GoodTexts, IsInjective
<1>2. ASSUME NEW v \in Range(l) PROVE Count(l, v) = 1
  <2>1. PICK i \in 1..m : l[i] = v
    BY <1>1 DEF Range
  <2>2. {j \in DOMAIN l : l[j] = v} = {i}
    BY <1>1, <2>1
  <2> QED
    BY <2>2, FS_Singleton DEF Count
<1>3. ASSUME NEW v, v \notin Range(l) PROVE Count(l, v) = 0
  <2>1. {j \in DOMAIN l : l[j] = v} = {}
    BY <1>3 DEF Range
  <2> QED
    BY <2>1, FS_EmptySet DEF Count
<1>4. Cardinality(Range(l)) = m
  <2> DEFINE f == [i \in 1..m |-> l[i]]
  <2>1. f \in Bijection(1..m, Range(l))
    <3>1. f \in [1..m -> Range(l)]
      BY <1>1 DEF Range
    <3>2. \A i, j \in 1..m : f[i] = f[j] => i = j
      BY <1>1
    <3>3. \A v \in Range(l) : \E i \in 1..m : f[i] = v
      BY <1>1 DEF Range
    <3> HIDE DEF f
    <3> QED
      BY <3>1, <3>2, <3>3, Zenon DEF Bijection, Injection, Surjection, IsInjective
  <2>2. ExistsBijection(1..m, Range(l))
    BY <2>1 DEF ExistsBijection
  <2> QED
    BY <1>1, <2>2, FS_CountingElements
<1> QED
  BY <1>2, <1>3, <1>4

\* Two good lists with the same values are permutations of each other.
LEMMA SameValues ==
  ASSUME NEW a, NEW b, NEW m, NEW n, GoodTexts(a, m), GoodTexts(b, n), Range(a) = Range(b)
  PROVE  IsPermutation(a, b)
<1>1. m = n
  BY CountOfGood
<1>2. Len(a) = m /\ Len(b) = n
  BY DEF GoodTexts
<1>3. \A v \in Range(a) \cup Range(b) : Count(a, v) = Count(b, v)
  BY CountOfGood
<1> QED
  BY <1>1, <1>2, <1>3 DEF IsPermutation

\* A list of keys without changes is the same list.
LEMMA NoKeyChanges ==
  ASSUME NEW path, NEW a, NEW b, NEW m, NEW n, GoodTexts(a, m), GoodTexts(b, n), NEW e, NEW f,
         KeyChanges(path, a, b, e, f) = {}
  PROVE  a = b
<1>1. PICK A, B, C :
        /\ A = UNION {If(a[i] \notin Range(b), Change(<<path, a[i]>>, "removed", f)) : i \in DOMAIN a}
        /\ B = UNION {If(b[i] \notin Range(a), Change(<<path, b[i]>>, "added", e)) : i \in DOMAIN b}
        /\ C = If(IsPermutation(a, b) /\ a # b, Change(<<path>>, "reordered", "informational"))
  OBVIOUS
<1>2. A \cup B \cup C = {}
  BY <1>1, Zenon DEF KeyChanges
<1>3. A = {} /\ B = {} /\ C = {}
  BY ONLY <1>2
<1>4. \A i \in DOMAIN a : a[i] \in Range(b)
  <2> TAKE i \in DOMAIN a
  <2>1. If(a[i] \notin Range(b), Change(<<path, a[i]>>, "removed", f)) = {}
    BY <1>1, <1>3
  <2> QED
    BY <2>1 DEF If
<1>5. \A i \in DOMAIN b : b[i] \in Range(a)
  <2> TAKE i \in DOMAIN b
  <2>1. If(b[i] \notin Range(a), Change(<<path, b[i]>>, "added", e)) = {}
    BY <1>1, <1>3
  <2> QED
    BY <2>1 DEF If
<1>6. Range(a) = Range(b)
  <2>1. \A v \in Range(a) : v \in Range(b)
    BY <1>4 DEF Range
  <2>2. \A v \in Range(b) : v \in Range(a)
    BY <1>5 DEF Range
  <2> QED
    BY <2>1, <2>2
<1>7. IsPermutation(a, b)
  BY <1>6, SameValues
<1> QED
  BY <1>1, <1>3, <1>7 DEF If

LEMMA SameKeys ==
  ASSUME NEW path, NEW a, NEW e, NEW f
  PROVE  KeyChanges(path, a, a, e, f) = {}
<1>1. \A i \in DOMAIN a : a[i] \in Range(a)
  BY DEF Range
<1>2. \A i \in DOMAIN a : /\ If(a[i] \notin Range(a), Change(<<path, a[i]>>, "removed", f)) = {}
                          /\ If(a[i] \notin Range(a), Change(<<path, a[i]>>, "added", e)) = {}
  BY <1>1 DEF If
<1>3. If(IsPermutation(a, a) /\ a # a, Change(<<path>>, "reordered", "informational")) = {}
  BY DEF If
<1> QED
  BY <1>2, <1>3 DEF KeyChanges

\* A key that is there on one side only is a change.
LEMMA KeyReported ==
  ASSUME NEW path, NEW a, NEW b, NEW e, NEW f, NEW v
  PROVE  /\ v \in Range(a) /\ v \notin Range(b) => \E c \in KeyChanges(path, a, b, e, f) : c.effect = f
         /\ v \in Range(b) /\ v \notin Range(a) => \E c \in KeyChanges(path, a, b, e, f) : c.effect = e
<1>1. \A p, k, x : Change(p, k, x).effect = x
  BY DEF Change
<1>2. ASSUME v \in Range(a), v \notin Range(b) PROVE \E c \in KeyChanges(path, a, b, e, f) : c.effect = f
  <2>1. PICK i \in DOMAIN a : a[i] = v
    BY <1>2 DEF Range
  <2>2. PICK c : c = Change(<<path, a[i]>>, "removed", f)
    OBVIOUS
  <2>3. c \in If(a[i] \notin Range(b), Change(<<path, a[i]>>, "removed", f))
    BY <1>2, <2>1, <2>2 DEF If
  <2>4. c \in KeyChanges(path, a, b, e, f)
    BY <2>3 DEF KeyChanges
  <2> QED
    BY <1>1, <2>2, <2>4
<1>3. ASSUME v \in Range(b), v \notin Range(a) PROVE \E c \in KeyChanges(path, a, b, e, f) : c.effect = e
  <2>1. PICK i \in DOMAIN b : b[i] = v
    BY <1>3 DEF Range
  <2>2. PICK c : c = Change(<<path, b[i]>>, "added", e)
    OBVIOUS
  <2>3. c \in If(b[i] \notin Range(a), Change(<<path, b[i]>>, "added", e))
    BY <1>3, <2>1, <2>2 DEF If
  <2>4. c \in KeyChanges(path, a, b, e, f)
    BY <2>3 DEF KeyChanges
  <2> QED
    BY <1>1, <2>2, <2>4
<1> QED
  BY <1>2, <1>3, Zenon

\* The change at one position of a list that is no permutation.
PositionChanges(path, a, b, e, f, i) ==
  If(i \in DOMAIN a /\ i \in DOMAIN b /\ a[i] # b[i], Change(<<path, i>>, "modified", "unknown"))
  \cup If(i \in DOMAIN a /\ i \notin DOMAIN b, Change(<<path, i>>, "removed", f))
  \cup If(i \in DOMAIN b /\ i \notin DOMAIN a, Change(<<path, i>>, "added", e))

LEMMA NoListChanges ==
  ASSUME NEW path, NEW a, NEW b, IsList(a), IsList(b), NEW e, NEW f, ListChanges(path, a, b, e, f) = {}
  PROVE  a = b
<1>1. CASE IsPermutation(a, b)
  <2>1. If(a # b, Change(<<path>>, "reordered", "informational")) = {}
    BY <1>1, Zenon DEF ListChanges, PositionChanges
  <2> QED
    BY <2>1 DEF If
<1>2. CASE ~IsPermutation(a, b)
  <2>1. ASSUME NEW i \in DOMAIN a \cup DOMAIN b PROVE i \in DOMAIN a /\ i \in DOMAIN b /\ a[i] = b[i]
    <3>1. UNION {PositionChanges(path, a, b, e, f, j) : j \in DOMAIN a \cup DOMAIN b} = {}
      BY <1>2, Zenon DEF ListChanges, PositionChanges
    <3>2. PositionChanges(path, a, b, e, f, i) = {}
      BY <3>1
    <3> QED
      BY <3>2 DEF PositionChanges, If
  <2>2. DOMAIN a = 1..Len(a) /\ DOMAIN b = 1..Len(b)
    BY DEF IsList
  <2>3. DOMAIN a = DOMAIN b /\ \A i \in DOMAIN a : a[i] = b[i]
    BY <2>1
  <2> QED
    BY <2>2, <2>3 DEF IsList
<1> QED
  BY <1>1, <1>2

LEMMA SameList ==
  ASSUME NEW path, NEW a, NEW e, NEW f
  PROVE  ListChanges(path, a, a, e, f) = {}
<1>1. IsPermutation(a, a)
  BY DEF IsPermutation
<1>2. ListChanges(path, a, a, e, f) = If(a # a, Change(<<path>>, "reordered", "informational"))
  BY <1>1, Zenon DEF ListChanges, PositionChanges
<1> QED
  BY <1>2 DEF If

\* A value that is gone from a list is a change that says so, or one of unknown effect.
LEMMA ValueReported ==
  ASSUME NEW path, NEW a, NEW b, NEW m, NEW n, GoodTexts(a, m), GoodTexts(b, n), NEW e, NEW f,
         NEW v \in Range(a), v \notin Range(b)
  PROVE  \E c \in ListChanges(path, a, b, e, f) : c.effect \in {f, "unknown"}
<1>1. ~IsPermutation(a, b)
  <2>1. Count(a, v) = 1 /\ Count(b, v) = 0
    BY CountOfGood
  <2> QED
    BY <2>1 DEF IsPermutation
<1>2. PICK i \in DOMAIN a : a[i] = v
  BY DEF Range
<1>3. \A p, k, x : Change(p, k, x).effect = x
  BY DEF Change
<1>4. \E c \in PositionChanges(path, a, b, e, f, i) : c.effect \in {f, "unknown"}
  <2>1. CASE i \in DOMAIN b
    <3>1. a[i] # b[i]
      BY <1>2, <2>1 DEF Range
    <3>2. Change(<<path, i>>, "modified", "unknown") \in PositionChanges(path, a, b, e, f, i)
      BY <2>1, <3>1 DEF PositionChanges, If
    <3> QED
      BY <1>3, <3>2
  <2>2. CASE i \notin DOMAIN b
    <3>1. Change(<<path, i>>, "removed", f) \in PositionChanges(path, a, b, e, f, i)
      BY <2>2 DEF PositionChanges, If
    <3> QED
      BY <1>3, <3>1
  <2> QED
    BY <2>1, <2>2
<1>5. ListChanges(path, a, b, e, f) = UNION {PositionChanges(path, a, b, e, f, j) : j \in DOMAIN a \cup DOMAIN b}
  BY <1>1, Zenon DEF ListChanges, PositionChanges
<1>6. PositionChanges(path, a, b, e, f, i) \subseteq ListChanges(path, a, b, e, f)
  BY <1>5
<1> QED
  BY <1>4, <1>6, Zenon

\* The element with a key, in a list without repeated keys.
LEMMA ByKeyIs ==
  ASSUME NEW l, NEW k, NEW m, GoodTexts(KeysOf(l, k), m), NEW i, i \in DOMAIN l, NEW v, l[i][k] = v
  PROVE  ByKey(l, k, v) = l[i] /\ v \in Range(KeysOf(l, k))
<1>1. DOMAIN KeysOf(l, k) = DOMAIN l /\ \A j \in DOMAIN l : KeysOf(l, k)[j] = l[j][k]
  BY DEF KeysOf
<1>2. \A j \in DOMAIN l : l[j][k] = v => j = i
  BY <1>1 DEF GoodTexts, IsInjective
<1>3. ByKey(l, k, v) = l[i]
  <2>1. PICK c : c = CHOOSE j \in DOMAIN l : l[j][k] = v
    OBVIOUS
  <2>2. c \in DOMAIN l /\ l[c][k] = v
    BY <2>1
  <2>3. c = i
    BY <1>2, <2>2
  <2> QED
    BY <2>1, <2>3 DEF ByKey
<1>4. v \in Range(KeysOf(l, k))
  BY <1>1 DEF Range
<1> QED
  BY <1>3, <1>4

\* The changes of one scenario and of one artifact.
OneScenario(base_, head_, id) ==
  TextChange(<<"scenarios", id, "name">>, ByKey(base_, "id", id).name, ByKey(head_, "id", id).name, "informational")
  \cup TextChange(<<"scenarios", id, "shell">>, ByKey(base_, "id", id).shell, ByKey(head_, "id", id).shell, "execution")
  \cup TextChange(<<"scenarios", id, "run">>, ByKey(base_, "id", id).run, ByKey(head_, "id", id).run, "execution")
  \cup IntChange(<<"scenarios", id, "timeout">>, ByKey(base_, "id", id).timeout, ByKey(head_, "id", id).timeout,
                 "increase", "decrease")
OneArtifact(base_, head_, p) ==
  IntChange(<<"artifacts", p, "max">>, ByKey(base_, "path", p).max, ByKey(head_, "path", p).max,
            "strengthened", "weakened")

LEMMA NoScenarioChanges ==
  ASSUME NEW b, NEW h, IsPipeline(b), IsPipeline(h), ScenarioChanges(b.scenarios, h.scenarios) = {}
  PROVE  b.scenarios = h.scenarios
<1>1. PICK S, T, m, n : S = b.scenarios /\ T = h.scenarios /\ m = Len(S) /\ n = Len(T)
  OBVIOUS
<1>2. /\ GoodTexts(KeysOf(S, "id"), m) /\ DOMAIN S = 1..m /\ IsList(S)
      /\ \A i \in 1..m : S[i] = [id |-> S[i].id, name |-> S[i].name, shell |-> S[i].shell,
                                 run |-> S[i].run, timeout |-> S[i].timeout]
  BY <1>1, Zenon DEF IsPipeline
<1>3. /\ GoodTexts(KeysOf(T, "id"), n) /\ DOMAIN T = 1..n /\ IsList(T)
      /\ \A i \in 1..n : T[i] = [id |-> T[i].id, name |-> T[i].name, shell |-> T[i].shell,
                                 run |-> T[i].run, timeout |-> T[i].timeout]
  BY <1>1, Zenon DEF IsPipeline
<1>4. PICK A, B : /\ A = KeyChanges("scenarios", KeysOf(S, "id"), KeysOf(T, "id"), "execution", "execution")
                  /\ B = UNION {OneScenario(S, T, id) : id \in CommonKeys(S, T, "id")}
  OBVIOUS
<1>5. A \cup B = {}
  <2>1. ScenarioChanges(S, T) = KeyChanges("scenarios", KeysOf(S, "id"), KeysOf(T, "id"), "execution", "execution")
                                \cup UNION {OneScenario(S, T, id) : id \in CommonKeys(S, T, "id")}
    BY Zenon DEF ScenarioChanges, OneScenario
  <2> QED
    BY <1>1, <1>4, <2>1, Zenon
<1>6. A = {} /\ B = {}
  BY ONLY <1>5
<1>7. KeysOf(S, "id") = KeysOf(T, "id")
  BY <1>2, <1>3, <1>4, <1>6, NoKeyChanges
<1>8. m = n /\ \A i \in 1..m : S[i].id = T[i].id
  <2>1. m = n
    BY <1>2, <1>3, <1>7 DEF GoodTexts
  <2>2. \A i \in 1..m : KeysOf(S, "id")[i] = S[i].id /\ KeysOf(T, "id")[i] = T[i].id
    BY <1>2, <1>3, <2>1 DEF KeysOf
  <2> QED
    BY <1>7, <2>1, <2>2
<1>9. ASSUME NEW i \in 1..m PROVE S[i] = T[i]
  <2>1. PICK id : id = S[i].id /\ id = T[i].id
    BY <1>8
  <2>2. ByKey(S, "id", id) = S[i] /\ id \in Range(KeysOf(S, "id"))
    <3>1. i \in DOMAIN S /\ S[i]["id"] = id
      BY <1>2, <2>1
    <3>2. GoodTexts(KeysOf(S, "id"), m)
      BY <1>2
    <3> QED
      BY <3>1, <3>2, ByKeyIs
  <2>3. ByKey(T, "id", id) = T[i] /\ id \in Range(KeysOf(T, "id"))
    <3>1. i \in DOMAIN T /\ T[i]["id"] = id
      BY <1>3, <1>8, <2>1
    <3>2. GoodTexts(KeysOf(T, "id"), n)
      BY <1>3
    <3> QED
      BY <3>1, <3>2, ByKeyIs
  <2>4. id \in CommonKeys(S, T, "id")
    BY <2>2, <2>3 DEF CommonKeys
  <2>5. OneScenario(S, T, id) = {}
    BY <1>4, <1>6, <2>4
  <2>6. /\ TextChange(<<"scenarios", id, "name">>, S[i].name, T[i].name, "informational") = {}
        /\ TextChange(<<"scenarios", id, "shell">>, S[i].shell, T[i].shell, "execution") = {}
        /\ TextChange(<<"scenarios", id, "run">>, S[i].run, T[i].run, "execution") = {}
        /\ IntChange(<<"scenarios", id, "timeout">>, S[i].timeout, T[i].timeout, "increase", "decrease") = {}
    BY <2>2, <2>3, <2>5 DEF OneScenario
  <2>7. S[i].name = T[i].name /\ S[i].shell = T[i].shell /\ S[i].run = T[i].run /\ S[i].timeout = T[i].timeout
    BY <2>6, TextChangeFacts, IntChangeFacts
  <2>8. i \in 1..n
    BY <1>8
  <2> QED
    BY <1>2, <1>3, <2>1, <2>7, <2>8
<1>10. S = T
  BY <1>1, <1>2, <1>3, <1>8, <1>9 DEF IsList
<1> QED
  BY <1>1, <1>10

LEMMA NoArtifactChanges ==
  ASSUME NEW b, NEW h, IsPipeline(b), IsPipeline(h), ArtifactChanges(b.artifacts, h.artifacts) = {}
  PROVE  b.artifacts = h.artifacts
<1>1. PICK S, T, m, n : S = b.artifacts /\ T = h.artifacts /\ m = Len(S) /\ n = Len(T)
  OBVIOUS
<1>2. /\ GoodTexts(KeysOf(S, "path"), m) /\ DOMAIN S = 1..m /\ IsList(S)
      /\ \A i \in 1..m : S[i] = [path |-> S[i].path, max |-> S[i].max]
  BY <1>1, Zenon DEF IsPipeline
<1>3. /\ GoodTexts(KeysOf(T, "path"), n) /\ DOMAIN T = 1..n /\ IsList(T)
      /\ \A i \in 1..n : T[i] = [path |-> T[i].path, max |-> T[i].max]
  BY <1>1, Zenon DEF IsPipeline
<1>4. PICK A, B : /\ A = KeyChanges("artifacts", KeysOf(S, "path"), KeysOf(T, "path"), "strengthened", "weakened")
                  /\ B = UNION {OneArtifact(S, T, p) : p \in CommonKeys(S, T, "path")}
  OBVIOUS
<1>5. A \cup B = {}
  BY <1>1, <1>4, Zenon DEF ArtifactChanges, OneArtifact
<1>6. A = {} /\ B = {}
  BY ONLY <1>5
<1>7. KeysOf(S, "path") = KeysOf(T, "path")
  BY <1>2, <1>3, <1>4, <1>6, NoKeyChanges
<1>8. m = n /\ \A i \in 1..m : S[i].path = T[i].path
  <2>1. m = n
    BY <1>2, <1>3, <1>7 DEF GoodTexts
  <2>2. \A i \in 1..m : KeysOf(S, "path")[i] = S[i].path /\ KeysOf(T, "path")[i] = T[i].path
    BY <1>2, <1>3, <2>1 DEF KeysOf
  <2> QED
    BY <1>7, <2>1, <2>2
<1>9. ASSUME NEW i \in 1..m PROVE S[i] = T[i]
  <2>1. PICK p : p = S[i].path /\ p = T[i].path
    BY <1>8
  <2>2. ByKey(S, "path", p) = S[i] /\ p \in Range(KeysOf(S, "path"))
    <3>1. i \in DOMAIN S /\ S[i]["path"] = p
      BY <1>2, <2>1
    <3>2. GoodTexts(KeysOf(S, "path"), m)
      BY <1>2
    <3> QED
      BY <3>1, <3>2, ByKeyIs
  <2>3. ByKey(T, "path", p) = T[i] /\ p \in Range(KeysOf(T, "path"))
    <3>1. i \in DOMAIN T /\ T[i]["path"] = p
      BY <1>3, <1>8, <2>1
    <3>2. GoodTexts(KeysOf(T, "path"), n)
      BY <1>3
    <3> QED
      BY <3>1, <3>2, ByKeyIs
  <2>4. p \in CommonKeys(S, T, "path")
    BY <2>2, <2>3 DEF CommonKeys
  <2>5. OneArtifact(S, T, p) = {}
    BY <1>4, <1>6, <2>4
  <2>6. IntChange(<<"artifacts", p, "max">>, S[i].max, T[i].max, "strengthened", "weakened") = {}
    BY <2>2, <2>3, <2>5 DEF OneArtifact
  <2>7. S[i].max = T[i].max
    BY <2>6, IntChangeFacts
  <2>8. i \in 1..n
    BY <1>8
  <2> QED
    BY <1>2, <1>3, <2>1, <2>7, <2>8
<1>10. S = T
  BY <1>1, <1>2, <1>3, <1>8, <1>9 DEF IsList
<1> QED
  BY <1>1, <1>10

LEMMA SameScenarios == ASSUME NEW S PROVE ScenarioChanges(S, S) = {}
<1>1. KeyChanges("scenarios", KeysOf(S, "id"), KeysOf(S, "id"), "execution", "execution") = {}
  BY SameKeys
<1>2. \A id : OneScenario(S, S, id) = {}
  BY TextChangeFacts, IntChangeFacts DEF OneScenario
<1>3. UNION {OneScenario(S, S, id) : id \in CommonKeys(S, S, "id")} = {}
  BY <1>2
<1>4. ScenarioChanges(S, S) = KeyChanges("scenarios", KeysOf(S, "id"), KeysOf(S, "id"), "execution", "execution")
                              \cup UNION {OneScenario(S, S, id) : id \in CommonKeys(S, S, "id")}
  BY Zenon DEF ScenarioChanges, OneScenario
<1> QED
  BY <1>1, <1>3, <1>4

LEMMA SameArtifacts == ASSUME NEW S PROVE ArtifactChanges(S, S) = {}
<1>1. KeyChanges("artifacts", KeysOf(S, "path"), KeysOf(S, "path"), "strengthened", "weakened") = {}
  BY SameKeys
<1>2. \A p : OneArtifact(S, S, p) = {}
  BY IntChangeFacts DEF OneArtifact
<1>3. UNION {OneArtifact(S, S, p) : p \in CommonKeys(S, S, "path")} = {}
  BY <1>2
<1>4. ArtifactChanges(S, S) = KeyChanges("artifacts", KeysOf(S, "path"), KeysOf(S, "path"), "strengthened", "weakened")
                              \cup UNION {OneArtifact(S, S, p) : p \in CommonKeys(S, S, "path")}
  BY Zenon DEF ArtifactChanges, OneArtifact
<1> QED
  BY <1>1, <1>3, <1>4

\* The parts of ComparePipelines.
ResourceChanges(b, h) ==
  UNION {IntChange(<<"resources", r>>, b.resources[r], h.resources[r], "increase", "decrease")
         : r \in DOMAIN b.resources}
PartsOf(b, h) ==
  << TextChange(<<"name">>, b.name, h.name, "informational"),
     TextChange(<<"image">>, b.image, h.image, "execution"),
     TextChange(<<"workdir">>, b.workdir, h.workdir, "execution"),
     ResourceChanges(b, h),
     ScenarioChanges(b.scenarios, h.scenarios),
     ListChanges("roots", b.roots, h.roots, "strengthened", "weakened"),
     ArtifactChanges(b.artifacts, h.artifacts),
     IntChange(<<"log">>, b.log, h.log, "strengthened", "weakened"),
     IgnoreChanges(b.ignore, h.ignore),
     IntChange(<<"repetitions">>, b.repetitions, h.repetitions, "strengthened", "weakened") >>

LEMMA Parts ==
  ASSUME NEW b, NEW h
  PROVE  /\ \A i \in 1..10 : PartsOf(b, h)[i] \subseteq ComparePipelines(b, h)
         /\ (\A i \in 1..10 : PartsOf(b, h)[i] = {}) => ComparePipelines(b, h) = {}
<1>1. PICK A, B, C, D, E, F, G, H, I, J :
        /\ A = TextChange(<<"name">>, b.name, h.name, "informational")
        /\ B = TextChange(<<"image">>, b.image, h.image, "execution")
        /\ C = TextChange(<<"workdir">>, b.workdir, h.workdir, "execution")
        /\ D = ResourceChanges(b, h)
        /\ E = ScenarioChanges(b.scenarios, h.scenarios)
        /\ F = ListChanges("roots", b.roots, h.roots, "strengthened", "weakened")
        /\ G = ArtifactChanges(b.artifacts, h.artifacts)
        /\ H = IntChange(<<"log">>, b.log, h.log, "strengthened", "weakened")
        /\ I = IgnoreChanges(b.ignore, h.ignore)
        /\ J = IntChange(<<"repetitions">>, b.repetitions, h.repetitions, "strengthened", "weakened")
  OBVIOUS
<1>2. PICK X, P : X = ComparePipelines(b, h) /\ P = PartsOf(b, h)
  OBVIOUS
<1>3. X = A \cup B \cup C \cup D \cup E \cup F \cup G \cup H \cup I \cup J
  BY <1>1, <1>2, Zenon DEF ComparePipelines, ResourceChanges
<1>4. P = <<A, B, C, D, E, F, G, H, I, J>>
  BY <1>1, <1>2, Zenon DEF PartsOf
<1>5. /\ P[1] = A /\ P[2] = B /\ P[3] = C /\ P[4] = D /\ P[5] = E /\ P[6] = F /\ P[7] = G /\ P[8] = H
      /\ P[9] = I /\ P[10] = J
  BY ONLY <1>4
<1>6. \A i \in 1..10 : i \in {1, 2, 3, 4, 5, 6, 7, 8, 9, 10}
  OBVIOUS
<1>7. \A i \in 1..10 : P[i] \subseteq X
  BY ONLY <1>3, <1>5, <1>6
<1>8. (\A i \in 1..10 : P[i] = {}) => X = {}
  <2> SUFFICES ASSUME \A i \in 1..10 : P[i] = {} PROVE X = {}
    OBVIOUS
  <2>1. A = {} /\ B = {} /\ C = {} /\ D = {} /\ E = {} /\ F = {} /\ G = {} /\ H = {} /\ I = {} /\ J = {}
    BY <1>5
  <2> QED
    BY ONLY <1>3, <2>1
<1> QED
  BY <1>2, <1>7, <1>8, Zenon

LEMMA PartsAre ==
  ASSUME NEW b, NEW h
  PROVE  /\ PartsOf(b, h)[1] = TextChange(<<"name">>, b.name, h.name, "informational")
         /\ PartsOf(b, h)[2] = TextChange(<<"image">>, b.image, h.image, "execution")
         /\ PartsOf(b, h)[3] = TextChange(<<"workdir">>, b.workdir, h.workdir, "execution")
         /\ PartsOf(b, h)[4] = ResourceChanges(b, h)
         /\ PartsOf(b, h)[5] = ScenarioChanges(b.scenarios, h.scenarios)
         /\ PartsOf(b, h)[6] = ListChanges("roots", b.roots, h.roots, "strengthened", "weakened")
         /\ PartsOf(b, h)[7] = ArtifactChanges(b.artifacts, h.artifacts)
         /\ PartsOf(b, h)[8] = IntChange(<<"log">>, b.log, h.log, "strengthened", "weakened")
         /\ PartsOf(b, h)[9] = IgnoreChanges(b.ignore, h.ignore)
         /\ PartsOf(b, h)[10] = IntChange(<<"repetitions">>, b.repetitions, h.repetitions, "strengthened", "weakened")
BY DEF PartsOf

\* Without a change the pipelines are the same.
LEMMA NoChanges ==
  ASSUME NEW b, NEW h, IsPipeline(b), IsPipeline(h), ComparePipelines(b, h) = {}
  PROVE  b = h
<1>1. \A i \in 1..10 : PartsOf(b, h)[i] = {}
  BY Parts
<1>2. /\ PartsOf(b, h)[1] = {} /\ PartsOf(b, h)[2] = {} /\ PartsOf(b, h)[3] = {} /\ PartsOf(b, h)[4] = {}
      /\ PartsOf(b, h)[5] = {} /\ PartsOf(b, h)[6] = {} /\ PartsOf(b, h)[7] = {} /\ PartsOf(b, h)[8] = {}
      /\ PartsOf(b, h)[9] = {} /\ PartsOf(b, h)[10] = {}
  BY <1>1
<1>3. b.name = h.name /\ b.image = h.image /\ b.workdir = h.workdir
  BY <1>2, PartsAre, TextChangeFacts
<1>4. b.log = h.log /\ b.repetitions = h.repetitions
  BY <1>2, PartsAre, IntChangeFacts
<1>5. b.resources = h.resources
  <2>1. PICK R, S : R = b.resources /\ S = h.resources
    OBVIOUS
  <2>2. /\ R = [cpu |-> R.cpu, memory |-> R.memory, disk |-> R.disk, processes |-> R.processes, timeout |-> R.timeout]
        /\ S = [cpu |-> S.cpu, memory |-> S.memory, disk |-> S.disk, processes |-> S.processes, timeout |-> S.timeout]
    BY <2>1, Zenon DEF IsPipeline
  <2>3. DOMAIN R = {"cpu", "memory", "disk", "processes", "timeout"}
    BY <2>2
  <2>4. ResourceChanges(b, h) = {}
    BY <1>2, PartsAre
  <2>5. UNION {IntChange(<<"resources", r>>, R[r], S[r], "increase", "decrease") : r \in DOMAIN R} = {}
    BY <2>1, <2>4, Zenon DEF ResourceChanges
  <2>6. \A r \in DOMAIN R : IntChange(<<"resources", r>>, R[r], S[r], "increase", "decrease") = {}
    BY <2>5
  <2>7. \A r \in DOMAIN R : R[r] = S[r]
    <3>1. \A path, x, y : IntChange(path, x, y, "increase", "decrease") = {} => x = y
      BY IntChangeFacts
    <3> QED
      BY <2>6, <3>1, Zenon
  <2>8. R = S
    BY <2>2, <2>3, <2>7
  <2> QED
    BY <2>1, <2>8
<1>6. b.scenarios = h.scenarios /\ b.artifacts = h.artifacts
  BY <1>2, PartsAre, NoScenarioChanges, NoArtifactChanges
<1>7. b.roots = h.roots
  <2>1. IsList(b.roots) /\ IsList(h.roots)
    BY Zenon DEF IsPipeline
  <2> QED
    BY <1>2, <2>1, PartsAre, NoListChanges
<1>8. b.ignore = h.ignore
  <2>1. GoodTexts(b.ignore, Len(b.ignore)) /\ GoodTexts(h.ignore, Len(h.ignore))
    BY Zenon DEF IsPipeline
  <2>2. IgnoreChanges(b.ignore, h.ignore) = {}
    BY <1>2, PartsAre
  <2> QED
    BY <2>1, <2>2, NoKeyChanges DEF IgnoreChanges
<1>9. ASSUME NEW p, IsPipeline(p)
      PROVE  p = [name |-> p.name, image |-> p.image, workdir |-> p.workdir, resources |-> p.resources,
                  scenarios |-> p.scenarios, roots |-> p.roots, artifacts |-> p.artifacts, log |-> p.log,
                  ignore |-> p.ignore, repetitions |-> p.repetitions]
  BY <1>9, Zenon DEF IsPipeline
<1>10. PICK nm, im, wd, R, S, Z, A, lg, Y, rp :
         /\ nm = b.name /\ im = b.image /\ wd = b.workdir /\ R = b.resources /\ S = b.scenarios /\ Z = b.roots
         /\ A = b.artifacts /\ lg = b.log /\ Y = b.ignore /\ rp = b.repetitions
  OBVIOUS
<1>11. ASSUME NEW p, IsPipeline(p), p.name = nm, p.image = im, p.workdir = wd, p.resources = R, p.scenarios = S,
              p.roots = Z, p.artifacts = A, p.log = lg, p.ignore = Y, p.repetitions = rp
       PROVE  p = [name |-> nm, image |-> im, workdir |-> wd, resources |-> R, scenarios |-> S, roots |-> Z,
                   artifacts |-> A, log |-> lg, ignore |-> Y, repetitions |-> rp]
  BY <1>9, <1>11
<1> QED
  BY <1>3, <1>4, <1>5, <1>6, <1>7, <1>8, <1>10, <1>11

LEMMA SamePipeline == ASSUME NEW b PROVE ComparePipelines(b, b) = {}
<1>1. \A path, x, e : TextChange(path, x, x, e) = {}
  BY TextChangeFacts
<1>2. \A path, x, more, less : IntChange(path, x, x, more, less) = {}
  BY IntChangeFacts
<1>3. ResourceChanges(b, b) = {}
  BY <1>2 DEF ResourceChanges
<1>4. IgnoreChanges(b.ignore, b.ignore) = {}
  BY SameKeys DEF IgnoreChanges
<1>5. \A i \in 1..10 : i \in {1, 2, 3, 4, 5, 6, 7, 8, 9, 10}
  OBVIOUS
<1>6. \A i \in 1..10 : PartsOf(b, b)[i] = {}
  <2>1. PICK P : P = PartsOf(b, b)
    OBVIOUS
  <2>2. P[1] = {} /\ P[2] = {} /\ P[3] = {} /\ P[4] = {} /\ P[8] = {} /\ P[9] = {} /\ P[10] = {}
    BY <1>1, <1>2, <1>3, <1>4, <2>1, PartsAre
  <2>3. P[5] = {} /\ P[6] = {} /\ P[7] = {}
    BY <2>1, PartsAre, SameScenarios, SameArtifacts, SameList
  <2> QED
    BY <1>5, <2>1, <2>2, <2>3
<1> QED
  BY <1>6, Parts

\* A change of one part is a change of the pipelines.
LEMMA PartReported ==
  ASSUME NEW b, NEW h, NEW i \in 1..10, NEW E, \E c \in PartsOf(b, h)[i] : c.effect \in E
  PROVE  E \cap {c.effect : c \in ComparePipelines(b, h)} # {}
<1>1. PICK c \in PartsOf(b, h)[i] : c.effect \in E
  OBVIOUS
<1>2. c \in ComparePipelines(b, h)
  BY <1>1, Parts
<1> QED
  BY <1>1, <1>2

LEMMA MoreReported ==
  ASSUME NEW b, NEW h, IsPipeline(b), IsPipeline(h), MoreAllowed(b, h)
  PROVE  {"increase", "unknown"} \cap {c.effect : c \in ComparePipelines(b, h)} # {}
<1>1. PICK r \in DOMAIN b.resources : h.resources[r] > b.resources[r]
  BY DEF MoreAllowed
<1>2. PICK R, S : R = b.resources /\ S = h.resources
  OBVIOUS
<1>3. R[r] \in Nat /\ S[r] \in Nat
  <2>1. R = [cpu |-> R.cpu, memory |-> R.memory, disk |-> R.disk, processes |-> R.processes, timeout |-> R.timeout]
    BY <1>2, Zenon DEF IsPipeline
  <2>2. r \in {"cpu", "memory", "disk", "processes", "timeout"}
    BY <1>1, <1>2, <2>1
  <2>3. R[r] \in MinOf[r]..MaxOf[r] /\ S[r] \in MinOf[r]..MaxOf[r]
    BY <1>2, <2>2, Zenon DEF IsPipeline
  <2>4. MaxOf[r] \in Nat /\ MinOf[r] \in Nat \ {0}
    BY <2>2, ConfigAssumption DEF Quantities
  <2> QED
    BY <2>3, <2>4
<1>4. \E c \in IntChange(<<"resources", r>>, R[r], S[r], "increase", "decrease") : c.effect = "increase"
  BY <1>1, <1>2, <1>3, IntChangeFacts
<1>5. IntChange(<<"resources", r>>, R[r], S[r], "increase", "decrease") \subseteq ResourceChanges(b, h)
  BY <1>1, <1>2 DEF ResourceChanges
<1>6. \E c \in PartsOf(b, h)[4] : c.effect \in {"increase", "unknown"}
  BY <1>4, <1>5, PartsAre
<1>7. 4 \in 1..10
  OBVIOUS
<1> QED
  BY <1>6, <1>7, PartReported

LEMMA LessReported ==
  ASSUME NEW b, NEW h, IsPipeline(b), IsPipeline(h), LessObserved(b, h)
  PROVE  {"weakened", "unknown"} \cap {c.effect : c \in ComparePipelines(b, h)} # {}
<1> DEFINE W == {"weakened", "unknown"}
<1>1. {6, 7, 8, 9, 10} \subseteq 1..10
  OBVIOUS
<1> SUFFICES \E i \in {6, 7, 8, 9, 10} : \E c \in PartsOf(b, h)[i] : c.effect \in W
  BY <1>1, PartReported
<1>2. /\ GoodTexts(b.roots, Len(b.roots)) /\ GoodTexts(h.roots, Len(h.roots))
      /\ GoodTexts(KeysOf(b.artifacts, "path"), Len(b.artifacts))
      /\ GoodTexts(KeysOf(h.artifacts, "path"), Len(h.artifacts))
      /\ DOMAIN b.artifacts = 1..Len(b.artifacts) /\ DOMAIN h.artifacts = 1..Len(h.artifacts)
      /\ b.log \in MinOf["log"]..MaxOf["log"] /\ h.log \in MinOf["log"]..MaxOf["log"]
      /\ b.repetitions \in MinOf["repetitions"]..MaxOf["repetitions"] /\ h.repetitions \in MinOf["repetitions"]..MaxOf["repetitions"]
      /\ \A i \in 1..Len(b.artifacts) : b.artifacts[i].max \in MinOf["artifact"]..MaxOf["artifact"]
      /\ \A i \in 1..Len(h.artifacts) : h.artifacts[i].max \in MinOf["artifact"]..MaxOf["artifact"]
  BY Zenon DEF IsPipeline
<1>3. MaxOf["log"] \in Nat /\ MinOf["log"] \in Nat \ {0} /\ MaxOf["repetitions"] \in Nat /\ MinOf["repetitions"] \in Nat \ {0} /\ MaxOf["artifact"] \in Nat /\ MinOf["artifact"] \in Nat \ {0}
  BY ConfigAssumption DEF Quantities
<1>4. CASE ~(Observed(b) \subseteq Observed(h))
  <2>1. (\E r \in Range(b.roots) : r \notin Range(h.roots))
        \/ (\E a \in Range(KeysOf(b.artifacts, "path")) : a \notin Range(KeysOf(h.artifacts, "path")))
    BY <1>4 DEF Observed
  <2>2. CASE \E r \in Range(b.roots) : r \notin Range(h.roots)
    <3>1. \E c \in ListChanges("roots", b.roots, h.roots, "strengthened", "weakened") : c.effect \in W
      BY <1>2, <2>2, ValueReported
    <3> QED
      BY <3>1, PartsAre
  <2>3. CASE \E a \in Range(KeysOf(b.artifacts, "path")) : a \notin Range(KeysOf(h.artifacts, "path"))
    <3>1. PICK S, T : S = KeysOf(b.artifacts, "path") /\ T = KeysOf(h.artifacts, "path")
      OBVIOUS
    <3>2. \E c \in KeyChanges("artifacts", S, T, "strengthened", "weakened") : c.effect = "weakened"
      BY <2>3, <3>1, KeyReported
    <3>3. KeyChanges("artifacts", S, T, "strengthened", "weakened") \subseteq ArtifactChanges(b.artifacts, h.artifacts)
      BY <3>1 DEF ArtifactChanges
    <3> QED
      BY <3>2, <3>3, PartsAre
  <2> QED
    BY <2>1, <2>2, <2>3
<1>5. CASE h.log < b.log
  <2>1. b.log \in Nat /\ h.log \in Nat
    BY <1>2, <1>3
  <2>2. \E c \in IntChange(<<"log">>, b.log, h.log, "strengthened", "weakened") : c.effect = "weakened"
    BY <1>5, <2>1, IntChangeFacts
  <2> QED
    BY <2>2, PartsAre
<1>6. CASE h.repetitions < b.repetitions
  <2>1. b.repetitions \in Nat /\ h.repetitions \in Nat
    BY <1>2, <1>3
  <2>2. \E c \in IntChange(<<"repetitions">>, b.repetitions, h.repetitions, "strengthened", "weakened") :
          c.effect = "weakened"
    BY <1>6, <2>1, IntChangeFacts
  <2> QED
    BY <2>2, PartsAre
<1>7. CASE ~(Range(h.ignore) \subseteq Range(b.ignore))
  <2>1. PICK v \in Range(h.ignore) : v \notin Range(b.ignore)
    BY <1>7
  <2>2. \E c \in KeyChanges("ignore", b.ignore, h.ignore, "weakened", "strengthened") : c.effect = "weakened"
    BY <2>1, KeyReported
  <2> QED
    BY <2>2, PartsAre DEF IgnoreChanges
<1>8. CASE \E i \in DOMAIN b.artifacts, j \in DOMAIN h.artifacts :
             b.artifacts[i].path = h.artifacts[j].path /\ h.artifacts[j].max < b.artifacts[i].max
  <2>1. PICK i \in DOMAIN b.artifacts, j \in DOMAIN h.artifacts :
             b.artifacts[i].path = h.artifacts[j].path /\ h.artifacts[j].max < b.artifacts[i].max
    BY <1>8
  <2>2. PICK S, T, p : S = b.artifacts /\ T = h.artifacts /\ p = S[i].path /\ p = T[j].path
    BY <2>1
  <2>3. S[i]["path"] = p /\ T[j]["path"] = p /\ i \in DOMAIN S /\ j \in DOMAIN T
    BY <2>1, <2>2
  <2>4. GoodTexts(KeysOf(S, "path"), Len(S)) /\ GoodTexts(KeysOf(T, "path"), Len(T))
    BY <1>2, <2>2
  <2>5. ByKey(S, "path", p) = S[i] /\ p \in Range(KeysOf(S, "path"))
    BY <2>3, <2>4, ByKeyIs
  <2>6. ByKey(T, "path", p) = T[j] /\ p \in Range(KeysOf(T, "path"))
    BY <2>3, <2>4, ByKeyIs
  <2>7. S[i].max \in Nat /\ T[j].max \in Nat /\ T[j].max < S[i].max
    <3>1. PICK lo, hi : lo = MinOf["artifact"] /\ hi = MaxOf["artifact"] /\ lo \in Nat /\ hi \in Nat
      BY <1>3
    <3>2. S[i].max \in lo..hi /\ T[j].max \in lo..hi
      BY <1>2, <2>1, <2>2, <3>1
    <3>3. T[j].max < S[i].max
      BY <2>1, <2>2
    <3> QED
      BY <3>1, <3>2, <3>3
  <2>8. \E c \in IntChange(<<"artifacts", p, "max">>, S[i].max, T[j].max, "strengthened", "weakened") :
          c.effect = "weakened"
    BY <2>7, IntChangeFacts
  <2>9. p \in CommonKeys(S, T, "path")
    BY <2>5, <2>6 DEF CommonKeys
  <2>10. OneArtifact(S, T, p) \subseteq ArtifactChanges(S, T)
    <3>1. ArtifactChanges(S, T) = KeyChanges("artifacts", KeysOf(S, "path"), KeysOf(T, "path"), "strengthened", "weakened")
                                  \cup UNION {OneArtifact(S, T, q) : q \in CommonKeys(S, T, "path")}
      BY Zenon DEF ArtifactChanges, OneArtifact
    <3> QED
      BY <2>9, <3>1
  <2>11. \E c \in ArtifactChanges(S, T) : c.effect = "weakened"
    BY <2>5, <2>6, <2>8, <2>10 DEF OneArtifact
  <2> QED
    BY <2>2, <2>11, PartsAre
<1> QED
  BY <1>4, <1>5, <1>6, <1>7, <1>8 DEF LessObserved

\* What the review is told of two accepted files.
LEMMA ReportOfAccepted ==
  ASSUME NEW b, NEW h, IsFile(b.file), IsFile(h.file), b.file.entry = "file", h.file.entry = "file",
         FileErrors(b.file) = {}, FileErrors(h.file) = {}
  PROVE  /\ IsPipeline(Pipeline(b.file.docs[1])) /\ IsPipeline(Pipeline(h.file.docs[1]))
         /\ Trusted(b, h).assessment.changes =
              ComparePipelines(Pipeline(b.file.docs[1]), Pipeline(h.file.docs[1]))
<1>1. PICK f, g : f = b.file /\ g = h.file
  OBVIOUS
<1>2. BaseError(f) = "none"
  BY <1>1 DEF BaseError, CannotBeRead
<1>3. ~CannotBeRead(g)
  BY <1>1 DEF CannotBeRead
<1>4. Trusted(b, h).assessment = AssessHead(f, g)
  BY <1>1, <1>2, <1>3, LoadTrustedFields DEF Trusted
<1>5. PICK p, q, X : p = Pipeline(f.docs[1]) /\ q = Pipeline(g.docs[1]) /\ X = ComparePipelines(p, q)
  OBVIOUS
<1>6. AssessHead(f, g).changes = X
  <2>1. CASE f = g
    <3>1. AssessHead(f, g) = [state |-> "unchanged", changes |-> {}]
      BY <1>1, <2>1 DEF AssessHead
    <3>2. X = {}
      BY <1>5, <2>1, SamePipeline
    <3> QED
      BY <3>1, <3>2
  <2>2. CASE f # g
    <3>1. AssessHead(f, g) = [state |-> IF X = {} THEN "equivalent" ELSE "modified-valid", changes |-> X]
      BY <1>1, <1>5, <2>2 DEF AssessHead
    <3> QED
      BY <3>1
  <2> QED
    BY <2>1, <2>2
<1> QED
  BY <1>1, <1>4, <1>5, <1>6, AcceptedPipeline

\* Of two accepted files the review is told the truth: no change means the same pipeline,
\* and whatever is observed less or allowed more is a change that says so.
THEOREM ChangesAreReportedTheorem == Spec => []ChangesAreReported
<1> DEFINE True(b, h, changes) ==
      /\ (changes = {}) = (b = h)
      /\ LessObserved(b, h) => {"weakened", "unknown"} \cap {c.effect : c \in changes} # {}
      /\ MoreAllowed(b, h) => {"increase", "unknown"} \cap {c.effect : c \in changes} # {}
<1>1. RevisionsInv => ChangesAreReported
  <2> SUFFICES ASSUME RevisionsInv, base.file.entry = "file", head.file.entry = "file",
                      FileErrors(base.file) = {}, FileErrors(head.file) = {}
               PROVE  True(Pipeline(base.file.docs[1]), Pipeline(head.file.docs[1]),
                           Trusted(base, head).assessment.changes)
    BY DEF ChangesAreReported
  <2>1. PICK b, h, changes : /\ b = Pipeline(base.file.docs[1]) /\ h = Pipeline(head.file.docs[1])
                             /\ changes = Trusted(base, head).assessment.changes
    OBVIOUS
  <2>2. IsPipeline(b) /\ IsPipeline(h) /\ changes = ComparePipelines(b, h)
    BY <2>1, ReportOfAccepted DEF RevisionsInv
  <2>3. (changes = {}) = (b = h)
    BY <2>2, NoChanges, SamePipeline
  <2>4. True(b, h, changes)
    BY <2>2, <2>3, LessReported, MoreReported
  <2> HIDE DEF True
  <2> QED
    BY <2>1, <2>4
<1> QED
  BY <1>1, Revisions, PTL

-----------------------------------------------------------------------------
(* The order of paths.                                                     *)

Paths == Seq(Int)

\* PathLess without SubSeq: p is a prefix of q, or smaller where they differ first.
Before(p, q) ==
  \/ Len(p) < Len(q) /\ \A j \in 1..Len(p) : p[j] = q[j]
  \/ \E i \in 1..Len(p) : i <= Len(q) /\ p[i] < q[i] /\ \A j \in 1..(i - 1) : p[j] = q[j]

LEMMA PathLessIs == ASSUME NEW p \in Paths, NEW q \in Paths PROVE PathLess(p, q) <=> Before(p, q)
<1> USE DEF Paths
<1>1. Len(p) \in Nat /\ Len(q) \in Nat /\ DOMAIN p = 1..Len(p) /\ DOMAIN q = 1..Len(q)
  OBVIOUS
<1>2. ASSUME Len(p) < Len(q) PROVE p = SubSeq(q, 1, Len(p)) <=> \A j \in 1..Len(p) : p[j] = q[j]
  <2>1. PICK r : r = SubSeq(q, 1, Len(p))
    OBVIOUS
  <2>2. r \in Seq(Int) /\ Len(r) = Len(p) /\ \A j \in 1..Len(p) : r[j] = q[j]
    BY <1>1, <1>2, <2>1
  <2>3. p = r <=> \A j \in 1..Len(p) : p[j] = r[j]
    BY <1>1, <2>2
  <2> QED
    BY <2>1, <2>2, <2>3
<1>3. ASSUME NEW i PROVE i \in DOMAIN p \cap DOMAIN q <=> i \in 1..Len(p) /\ i <= Len(q)
  BY <1>1
<1> QED
  BY <1>1, <1>2, <1>3 DEF PathLess, Before

LEMMA NotBeforeItself == ASSUME NEW p \in Paths PROVE ~Before(p, p)
<1>1. Len(p) \in Nat /\ \A i \in 1..Len(p) : p[i] \in Int
  BY DEF Paths
<1> QED
  BY <1>1 DEF Before

LEMMA BeforeIsTransitive ==
  ASSUME NEW p \in Paths, NEW q \in Paths, NEW r \in Paths, Before(p, q), Before(q, r)
  PROVE  Before(p, r)
<1>1. /\ Len(p) \in Nat /\ Len(q) \in Nat /\ Len(r) \in Nat
      /\ \A i \in 1..Len(p) : p[i] \in Int
      /\ \A i \in 1..Len(q) : q[i] \in Int
      /\ \A i \in 1..Len(r) : r[i] \in Int
  BY DEF Paths
<1> DEFINE Prefix(a, b) == Len(a) < Len(b) /\ \A j \in 1..Len(a) : a[j] = b[j]
           Differ(a, b, i) == i \in 1..Len(a) /\ i <= Len(b) /\ a[i] < b[i] /\ \A j \in 1..(i - 1) : a[j] = b[j]
<1>2. CASE Prefix(p, q) /\ Prefix(q, r)
  BY <1>1, <1>2 DEF Before
<1>3. ASSUME NEW k, Prefix(p, q), Differ(q, r, k) PROVE Before(p, r)
  <2>1. CASE k <= Len(p)
    <3>1. k \in 1..Len(p) /\ p[k] = q[k] /\ \A j \in 1..(k - 1) : j \in 1..Len(p)
      BY <1>1, <1>3, <2>1
    <3>2. \A j \in 1..(k - 1) : p[j] = r[j]
      BY <1>1, <1>3, <3>1
    <3> QED
      BY <1>1, <1>3, <3>1, <3>2 DEF Before
  <2>2. CASE k > Len(p)
    <3>1. \A j \in 1..Len(p) : j \in 1..(k - 1)
      BY <1>1, <1>3, <2>2
    <3> QED
      BY <1>1, <1>3, <2>2, <3>1 DEF Before
  <2> QED
    BY <1>1, <1>3, <2>1, <2>2
<1>4. ASSUME NEW i, Differ(p, q, i), Prefix(q, r) PROVE Before(p, r)
  <2>1. i \in 1..Len(q) /\ i <= Len(r) /\ \A j \in 1..(i - 1) : j \in 1..Len(q)
    BY <1>1, <1>4
  <2>2. q[i] = r[i] /\ \A j \in 1..(i - 1) : p[j] = r[j]
    BY <1>4, <2>1
  <2> QED
    BY <1>1, <1>4, <2>1, <2>2 DEF Before
<1>5. ASSUME NEW i, NEW k, Differ(p, q, i), Differ(q, r, k) PROVE Before(p, r)
  <2>1. CASE i <= k
    <3>1. i <= Len(r) /\ \A j \in 1..(i - 1) : j \in 1..(k - 1)
      BY <1>1, <1>5, <2>1
    <3>2. \A j \in 1..(i - 1) : p[j] = r[j]
      BY <1>5, <3>1
    <3>3. p[i] < r[i]
      <4>1. CASE i = k
        BY <1>1, <1>5, <4>1
      <4>2. CASE i < k
        BY <1>1, <1>5, <4>2
      <4> QED
        BY <1>1, <1>5, <2>1, <4>1, <4>2
    <3> QED
      BY <1>5, <3>1, <3>2, <3>3 DEF Before
  <2>2. CASE k < i
    <3>1. k \in 1..Len(p) /\ k \in 1..(i - 1) /\ \A j \in 1..(k - 1) : j \in 1..(i - 1)
      BY <1>1, <1>5, <2>2
    <3>2. p[k] = q[k] /\ \A j \in 1..(k - 1) : p[j] = r[j]
      BY <1>5, <3>1
    <3> QED
      BY <1>5, <3>1, <3>2 DEF Before
  <2> QED
    BY <1>1, <1>5, <2>1, <2>2
<1>6. Prefix(p, q) \/ \E i : Differ(p, q, i)
  BY DEF Before
<1>7. Prefix(q, r) \/ \E i : Differ(q, r, i)
  BY DEF Before
<1> HIDE DEF Prefix, Differ
<1> QED
  BY <1>2, <1>3, <1>4, <1>5, <1>6, <1>7

LEMMA BeforeIsTotal ==
  ASSUME NEW p \in Paths, NEW q \in Paths, p # q
  PROVE  Before(p, q) \/ Before(q, p)
<1> USE DEF Paths
<1>1. /\ Len(p) \in Nat /\ Len(q) \in Nat
      /\ \A i \in 1..Len(p) : p[i] \in Int
      /\ \A i \in 1..Len(q) : q[i] \in Int
  OBVIOUS
<1> DEFINE D == {i \in Nat : i \in 1..Len(p) /\ i \in 1..Len(q) /\ p[i] # q[i]}
<1>2. CASE D = {}
  <2>1. \A i \in 1..Len(p) : i \in 1..Len(q) => p[i] = q[i]
    BY <1>2
  <2>2. Len(p) # Len(q)
    BY <2>1
  <2>3. CASE Len(p) < Len(q)
    BY <1>1, <2>1, <2>3 DEF Before
  <2>4. CASE Len(q) < Len(p)
    BY <1>1, <2>1, <2>4 DEF Before
  <2> QED
    BY <1>1, <2>2, <2>3, <2>4
<1>3. CASE D # {}
  <2>1. PICK i \in D : \A m \in D : i <= m
    <3> HIDE DEF D
    <3>1. D \subseteq Nat
      BY DEF D
    <3> QED
      BY <1>3, <3>1, LeastElement
  <2>2. i \in 1..Len(p) /\ i \in 1..Len(q) /\ p[i] # q[i] /\ i <= Len(p) /\ i <= Len(q)
    BY <1>1, <2>1
  <2>3. \A j \in 1..(i - 1) : p[j] = q[j]
    <3> TAKE j \in 1..(i - 1)
    <3>1. j \in Nat /\ j \in 1..Len(p) /\ j \in 1..Len(q) /\ ~(i <= j)
      BY <1>1, <2>2
    <3> QED
      BY <2>1, <3>1
  <2>4. p[i] < q[i] \/ q[i] < p[i]
    BY <1>1, <2>2
  <2> QED
    BY <2>2, <2>3, <2>4 DEF Before
<1> QED
  BY <1>2, <1>3

-----------------------------------------------------------------------------
(* Sets of paths in order.                                                 *)

Rank(S, p) == Cardinality({q \in S : PathLess(q, p)})

LEMMA RanksGrow ==
  ASSUME NEW S, IsFiniteSet(S), S \subseteq Paths, NEW p \in S, NEW r \in S, PathLess(p, r)
  PROVE  Rank(S, p) < Rank(S, r)
<1> DEFINE A == {q \in S : PathLess(q, p)}
           B == {q \in S : PathLess(q, r)}
<1>1. A \subseteq B
  BY PathLessIs, BeforeIsTransitive
<1>2. p \in B /\ p \notin A
  BY PathLessIs, NotBeforeItself
<1>3. IsFiniteSet(B) /\ IsFiniteSet(A)
  BY FS_Subset
<1>4. Cardinality(A) = Rank(S, p) /\ Cardinality(B) = Rank(S, r)
  BY DEF Rank
<1> HIDE DEF A, B
<1>5. Cardinality(A) <= Cardinality(B) /\ (Cardinality(B) = Cardinality(A) => B = A)
  BY <1>1, <1>3, FS_Subset
<1>6. Cardinality(A) \in Nat /\ Cardinality(B) \in Nat
  BY <1>3, FS_CardinalityType
<1> QED
  BY <1>2, <1>4, <1>5, <1>6

LEMMA RanksAreAPermutation ==
  ASSUME NEW S, IsFiniteSet(S), S \subseteq Paths
  PROVE  /\ Cardinality(S) \in Nat
         /\ \A p, r \in S : Rank(S, p) = Rank(S, r) => p = r
         /\ \A i \in 1..Cardinality(S) : \E p \in S : Rank(S, p) = i - 1
<1>1. Cardinality(S) \in Nat
  BY FS_CardinalityType
<1>2. ASSUME NEW p \in S PROVE Rank(S, p) \in 0..(Cardinality(S) - 1)
  <2> DEFINE A == {q \in S : PathLess(q, p)}
  <2>1. A \subseteq S /\ p \notin A
    BY PathLessIs, NotBeforeItself
  <2>2. Rank(S, p) = Cardinality(A)
    BY DEF Rank
  <2> HIDE DEF A
  <2>3. IsFiniteSet(A) /\ Cardinality(A) <= Cardinality(S) /\ (Cardinality(S) = Cardinality(A) => S = A)
    BY <2>1, FS_Subset
  <2>4. Cardinality(A) \in Nat
    BY <2>3, FS_CardinalityType
  <2> QED
    BY <1>1, <2>1, <2>2, <2>3, <2>4
<1>3. ASSUME NEW p \in S, NEW r \in S, Rank(S, p) = Rank(S, r) PROVE p = r
  <2> SUFFICES ASSUME p # r PROVE FALSE
    OBVIOUS
  <2>1. PathLess(p, r) \/ PathLess(r, p)
    BY PathLessIs, BeforeIsTotal
  <2>2. Rank(S, p) < Rank(S, r) \/ Rank(S, r) < Rank(S, p)
    BY <2>1, RanksGrow
  <2>3. Rank(S, p) \in Int /\ Rank(S, r) \in Int
    BY <1>2
  <2> QED
    BY <1>3, <2>2, <2>3
<1>4. \A i \in 1..Cardinality(S) : \E p \in S : Rank(S, p) = i - 1
  <2> DEFINE n == Cardinality(S)
             f == [p \in S |-> Rank(S, p)]
             T == 0..(n - 1)
  <2>1. f \in [S -> T]
    BY <1>2
  <2>2. \A p, r \in S : f[p] = f[r] => p = r
    BY <1>3
  <2>3. IsFiniteSet(T) /\ Cardinality(T) = n
    <3>1. n - 1 \in Int /\ (0 > n - 1 => n = 0)
      BY <1>1
    <3>2. IsFiniteSet(T) /\ Cardinality(T) = IF 0 > n - 1 THEN 0 ELSE (n - 1) - 0 + 1
      BY <3>1, FS_Interval
    <3> HIDE DEF T
    <3>3. n \in Nat
      BY <1>1
    <3> HIDE DEF n
    <3> QED
      BY <3>1, <3>2, <3>3
  <2>4. \A p \in S : f[p] = Rank(S, p)
    OBVIOUS
  <2> HIDE DEF f
  <2>5. f \in Injection(S, T)
    BY <2>1, <2>2, Zenon DEF Injection, IsInjective
  <2>6. f \in Surjection(S, T)
    <3> HIDE DEF T
    <3> QED
      BY <2>3, <2>5, FS_Injection
  <2>7. \A t \in T : \E p \in S : f[p] = t
    BY <2>6, Zenon DEF Surjection
  <2>8. \A i \in 1..n : i - 1 \in T
    BY <1>1
  <2> QED
    BY <2>4, <2>7, <2>8
<1> QED
  BY <1>1, <1>3, <1>4

\* InOrder lists every path of a set once.
LEMMA InOrderLists ==
  ASSUME NEW S, IsFiniteSet(S), S \subseteq Paths
  PROVE  /\ InOrder(S) \in [1..Cardinality(S) -> S]
         /\ InOrder(S) \in Seq(S) /\ Len(InOrder(S)) = Cardinality(S)
         /\ Range(InOrder(S)) = S /\ IsInjective(InOrder(S))
<1>1. PICK n : n = Cardinality(S) /\ n \in Nat
  BY RanksAreAPermutation
<1> DEFINE L == InOrder(S)
<1>2. L = [i \in 1..n |-> CHOOSE p \in S : Rank(S, p) = i - 1]
  BY <1>1, Zenon DEF InOrder, Rank
<1>3. \A i \in 1..n : L[i] \in S /\ Rank(S, L[i]) = i - 1
  <2> TAKE i \in 1..n
  <2>1. \E p \in S : Rank(S, p) = i - 1
    BY <1>1, RanksAreAPermutation
  <2>2. L[i] = CHOOSE p \in S : Rank(S, p) = i - 1
    BY <1>2
  <2> HIDE DEF L
  <2> QED
    BY <2>1, <2>2
<1>4. DOMAIN L = 1..n /\ L \in [1..n -> S]
  BY <1>2, <1>3
<1> HIDE DEF L
<1>5. L \in Seq(S) /\ Len(L) = n
  BY <1>1, <1>4
<1>6. IsInjective(L)
  <2> SUFFICES ASSUME NEW i \in 1..n, NEW j \in 1..n, L[i] = L[j] PROVE i = j
    BY <1>4 DEF IsInjective
  <2>1. i - 1 = j - 1
    BY <1>3
  <2> QED
    BY <2>1
<1>7. Range(L) = S
  <2>1. IsFiniteSet(1..n) /\ Cardinality(1..n) = n
    BY <1>1, FS_Interval
  <2>2. L \in Injection(1..n, S)
    BY <1>4, <1>6 DEF Injection
  <2>3. L \in Surjection(1..n, S)
    BY <1>1, <2>1, <2>2, FS_Injection
  <2> QED
    BY <1>4, <2>3 DEF Surjection, Range
<1> QED
  BY <1>1, <1>4, <1>5, <1>6, <1>7 DEF L

-----------------------------------------------------------------------------
(* The plan.                                                               *)

LEMMA InjectiveRange ==
  ASSUME NEW l, NEW m \in Nat, DOMAIN l = 1..m, IsInjective(l)
  PROVE  IsFiniteSet(Range(l)) /\ Cardinality(Range(l)) = m
<1> DEFINE f == [i \in 1..m |-> l[i]]
<1>1. f \in [1..m -> Range(l)] /\ \A v \in Range(l) : \E i \in 1..m : f[i] = v
  BY DEF Range
<1>2. \A i, j \in 1..m : f[i] = f[j] => i = j
  BY DEF IsInjective
<1> HIDE DEF f
<1>3. f \in Bijection(1..m, Range(l))
  BY <1>1, <1>2, Zenon DEF Bijection, Injection, Surjection, IsInjective
<1>4. ExistsBijection(1..m, Range(l))
  BY <1>3 DEF ExistsBijection
<1> QED
  BY <1>4, FS_CountingElements, FS_NatBijection

\* The entries of a listing, and a part of them.
EntriesOfListing(E) ==
  /\ IsFiniteSet(E)
  /\ \A e \in E : e.path \in Paths /\ (KindOf(e) = "symlink" => e.stored.names \in Paths)

LEMMA ListingEntries == ASSUME NEW t, IsListing(t) PROVE EntriesOfListing(Range(t))
<1>1. t \in Seq(Range(t))
  BY DEF IsListing
<1>2. Len(t) \in Nat /\ DOMAIN t = 1..Len(t) /\ t \in [1..Len(t) -> Range(t)]
  BY <1>1
<1>3. t \in Surjection(1..Len(t), Range(t))
  BY <1>2 DEF Surjection, Range
<1>4. IsFiniteSet(Range(t))
  BY <1>2, <1>3, FS_NatSurjection DEF ExistsSurjection
<1> QED
  BY <1>4 DEF EntriesOfListing, IsListing, Paths

\* What is reported of the gitlinks: paths, none twice.
IsReport(l) == l \in Seq(Paths) /\ IsInjective(l)

LEMMA LimitationsAreReport ==
  ASSUME NEW E, EntriesOfListing(E)
  PROVE  IsReport(Limitations(E))
<1> DEFINE G == OfKind(E, {"gitlink"})
           S == {e.path : e \in G}
           P == InOrder(S)
           k == IF Len(P) < MaxReportedLimitations THEN Len(P) ELSE MaxReportedLimitations
<1>1. IsFiniteSet(G)
  BY FS_Subset DEF OfKind, EntriesOfListing
<1>2. IsFiniteSet(S)
  <2> DEFINE f == [e \in G |-> e.path]
  <2>1. f \in Surjection(G, S)
    BY DEF Surjection
  <2> HIDE DEF f, S, G
  <2> QED
    BY <1>1, <2>1, FS_Surjection
<1>3. S \subseteq Paths
  BY DEF OfKind, EntriesOfListing
<1> HIDE DEF S
<1>4. P \in Seq(S) /\ IsInjective(P)
  BY <1>2, <1>3, InOrderLists
<1>5. MaxReportedLimitations \in Nat
  BY MaterializeAssumption
<1> HIDE DEF P
<1>6. P \in Seq(Paths)
  BY <1>3, <1>4
<1>7. k \in 0..Len(P)
  BY <1>5, <1>6
<1>8. Limitations(E) = SubSeq(P, 1, k)
  BY Zenon DEF Limitations, S, P, G
<1> HIDE DEF k
<1>9. /\ SubSeq(P, 1, k) \in Seq(Paths) /\ DOMAIN SubSeq(P, 1, k) = 1..k
      /\ \A i \in 1..k : SubSeq(P, 1, k)[i] = P[i] /\ i \in DOMAIN P
  BY <1>6, <1>7
<1>10. IsInjective(SubSeq(P, 1, k))
  BY <1>4, <1>9 DEF IsInjective
<1> QED
  BY <1>8, <1>9, <1>10 DEF IsReport

LEMMA ReportIsCounted ==
  ASSUME NEW l, IsReport(l)
  PROVE  IsFiniteSet(Range(l)) /\ Cardinality(Range(l)) = Len(l) /\ Range(l) \subseteq Paths
<1>1. Len(l) \in Nat /\ DOMAIN l = 1..Len(l) /\ IsInjective(l)
  BY DEF IsReport
<1>2. Range(l) \subseteq Paths
  BY DEF IsReport, Range
<1> QED
  BY <1>1, <1>2, InjectiveRange

\* A snapshot as it is planned, and as it is read back from the plan.
IsSnapshot(s, kind, commit) ==
  /\ s = [kind |-> s.kind, commit |-> s.commit, tree |-> s.tree, manifest |-> s.manifest, files |-> s.files,
          lfs |-> s.lfs, gitlinks |-> s.gitlinks, skipped |-> s.skipped, limitations |-> s.limitations]
  /\ s.kind = kind /\ s.commit = commit /\ IsReport(s.limitations)

LEMMA SourceIsSnapshot ==
  ASSUME NEW m, EntriesOfListing(m.entries), NEW kind, NEW commit
  PROVE  IsSnapshot(SourceSnapshot(m, kind, commit), kind, commit)
<1>1. PICK a, b, c, d, e, l :
        /\ a = TreeDigest(m.entries) /\ b = ManifestDigest(m.entries)
        /\ c = Cardinality(OfKind(m.entries, FileKinds)) /\ d = Cardinality({x \in m.entries : IsPointer(x)})
        /\ e = Cardinality(OfKind(m.entries, {"gitlink"})) /\ l = Limitations(m.entries)
  OBVIOUS
<1>2. SourceSnapshot(m, kind, commit) =
        [kind |-> kind, commit |-> commit, tree |-> a, manifest |-> b, files |-> c, lfs |-> d, gitlinks |-> e,
         skipped |-> e, limitations |-> l]
  BY <1>1, Zenon DEF SourceSnapshot
<1>3. IsReport(l)
  BY <1>1, LimitationsAreReport
<1>4. PICK s : s = SourceSnapshot(m, kind, commit)
  OBVIOUS
<1>5. IsSnapshot(s, kind, commit)
  BY <1>2, <1>3, <1>4 DEF IsSnapshot
<1> QED
  BY <1>4, <1>5

\* Reading a snapshot back from its plan changes nothing the planner looks at.
LEMMA SnapshotReadBack ==
  ASSUME NEW s, NEW kind, NEW commit, IsSnapshot(s, kind, commit), SnapshotValid(s, kind), NEW p
  PROVE  LET again == SnapshotOf(RevisionPlan(s, p))
         IN  /\ SnapshotValid(again, kind) /\ again.commit = commit
             /\ RevisionPlan(again, p) = RevisionPlan(s, p)
<1>1. PICK a, b, c, d, e, f, l, ids :
        /\ a = s.tree /\ b = s.manifest /\ c = s.files /\ d = s.lfs /\ e = s.gitlinks /\ f = s.skipped
        /\ l = s.limitations /\ ids = KeysOf(p.scenarios, "id")
  OBVIOUS
<1>2. PICK k : k = InOrder(Range(l))
  OBVIOUS
<1>3. PICK again, rev : rev = RevisionPlan(s, p) /\ again = SnapshotOf(rev)
  OBVIOUS
<1>4. rev = [kind |-> kind, commit |-> commit, tree |-> a, manifest |-> b,
             summary |-> [files |-> c, lfs |-> d, gitlinks |-> e, skipped |-> f],
             limitations |-> k, scenarios |-> ids]
  BY <1>1, <1>2, <1>3 DEF RevisionPlan, IsSnapshot
<1>5. again = [kind |-> kind, commit |-> commit, tree |-> a, manifest |-> b, files |-> c, lfs |-> d,
               gitlinks |-> e, skipped |-> f, limitations |-> k]
  BY <1>3, <1>4 DEF SnapshotOf
<1>6. IsReport(l)
  BY <1>1 DEF IsSnapshot
<1>7. Range(k) = Range(l) /\ Len(k) = Cardinality(Range(l))
  BY <1>2, <1>6, ReportIsCounted, InOrderLists
<1>8. /\ again.kind = kind /\ again.lfs = d /\ again.files = c /\ again.gitlinks = e /\ again.skipped = f
      /\ again.limitations = k /\ again.commit = commit /\ again.tree = a /\ again.manifest = b
  BY <1>5
<1>9. d <= c /\ e <= f
  BY <1>1 DEF SnapshotValid
<1>10. SnapshotValid(again, kind)
  BY <1>7, <1>8, <1>9 DEF SnapshotValid
<1>11. RevisionPlan(again, p) =
         [kind |-> kind, commit |-> commit, tree |-> a, manifest |-> b,
          summary |-> [files |-> c, lfs |-> d, gitlinks |-> e, skipped |-> f],
          limitations |-> InOrder(Range(k)), scenarios |-> ids]
  BY <1>1, <1>8 DEF RevisionPlan
<1>12. RevisionPlan(again, p) = rev
  BY <1>2, <1>4, <1>7, <1>11
<1> QED
  BY <1>3, <1>8, <1>10, <1>12

\* What is known when there is a plan.
Planned(b, h, plan, p, s, t) ==
  /\ Trusted(b, h).error = "none" /\ p = Trusted(b, h).pipeline /\ IsPipeline(p)
  /\ Trusted(b, h).base = b.commit /\ Trusted(b, h).head = h.commit
  /\ WithinPlatform(p)
  /\ IsSnapshot(s, "base", b.commit) /\ SnapshotValid(s, "base")
  /\ IsSnapshot(t, "head", h.commit) /\ SnapshotValid(t, "head")
  /\ plan = Plan(p, s, t)

LEMMA MaterializedEntries ==
  ASSUME NEW t, KnownTree(t), Materialized[t].error = "none"
  PROVE  EntriesOfListing(Materialized[t].entries)
<1>1. Materialized[t] = Materialize(t)
  BY DEF Materialized, KnownTree
<1>2. IsListing(t)
  BY TreesAssumption DEF KnownTree
<1>3. PICK c : c = Copied(Range(t))
  OBVIOUS
<1>4. Materialize(t) = IF ~ListingValid(t) THEN Failed("listing")
                       ELSE IF ~PreflightValid(Range(t)) THEN Failed("preflight")
                       ELSE IF c.error # "none" THEN Failed(c.error)
                       ELSE [error |-> "none", ws |-> c.ws, entries |-> Range(t)]
  BY <1>3, Zenon DEF Materialize
<1>5. \A x : Failed(x).error = x
  BY DEF Failed
<1>6. Materialize(t) = [error |-> "none", ws |-> c.ws, entries |-> Range(t)]
  BY <1>1, <1>4, <1>5
<1>7. Materialize(t).entries = Range(t)
  BY <1>6
<1> QED
  BY <1>1, <1>2, <1>7, ListingEntries

LEMMA PlanIsPlanned ==
  ASSUME NEW b, NEW h, IsFile(b.file), IsFile(h.file), KnownTree(b.tree), KnownTree(h.tree),
         NEW plan, plan = ThePlan(Trusted(b, h), b, h), plan # NoPlan
  PROVE  \E p, s, t : Planned(b, h, plan, p, s, t)
<1>1. PICK trusted, mb, mh : /\ trusted = Trusted(b, h)
                             /\ mb = Materialized[b.tree] /\ mh = Materialized[h.tree]
  OBVIOUS
<1>2. PICK s, t, p : /\ s = SourceSnapshot(mb, "base", b.commit) /\ t = SourceSnapshot(mh, "head", h.commit)
                     /\ p = trusted.pipeline
  OBVIOUS
<1>3. plan = IF {mb.error, mh.error} # {"none"} THEN NoPlan ELSE Build(trusted, s, t)
  BY <1>1, <1>2, Zenon DEF ThePlan
<1>4. {mb.error, mh.error} = {"none"} /\ plan = Build(trusted, s, t)
  BY <1>3
<1>5. mb.error = "none" /\ mh.error = "none"
  BY <1>4
<1>6. IsSnapshot(s, "base", b.commit) /\ IsSnapshot(t, "head", h.commit)
  BY <1>1, <1>2, <1>5, MaterializedEntries, SourceIsSnapshot
<1>7. /\ SnapshotValid(s, "base") /\ SnapshotValid(t, "head") /\ TrustedMatches(trusted, s, t)
      /\ WithinPlatform(p) /\ plan = Plan(p, s, t)
  BY <1>2, <1>4, Zenon DEF Build
<1>8. trusted.error = "none" /\ trusted.base = b.commit /\ trusted.head = h.commit
  BY <1>6, <1>7, Zenon DEF TrustedMatches, IsSnapshot
<1>9. ~CannotBeRead(h.file) /\ BaseError(b.file) = "none"
  <2>1. \A c, x, y : LoadError(c, x, y).error = c
    BY DEF LoadError, Loaded
  <2>2. CASE BaseError(b.file) # "none"
    <3>1. trusted = LoadError(BaseError(b.file), b, h)
      BY <1>1, <2>2, Zenon DEF Trusted, LoadTrusted
    <3> QED
      BY <1>8, <2>1, <2>2, <3>1
  <2>3. CASE BaseError(b.file) = "none" /\ CannotBeRead(h.file)
    <3>1. trusted = LoadError("head-inspection-failed", b, h)
      BY <1>1, <2>3, Zenon DEF Trusted, LoadTrusted
    <3> QED
      BY <1>8, <2>1, <3>1
  <2> QED
    BY <2>2, <2>3
<1>10. p = Pipeline(b.file.docs[1])
  BY <1>1, <1>2, <1>9, LoadTrustedFields DEF Trusted
<1>11. FileErrors(b.file) = {}
  BY <1>9 DEF BaseError, CannotBeRead
<1>12. IsPipeline(p)
  BY <1>10, <1>11, AcceptedPipeline
<1>13. Planned(b, h, plan, p, s, t)
  BY <1>1, <1>2, <1>6, <1>7, <1>8, <1>12, Zenon DEF Planned
<1> QED
  BY <1>13

\* An inspection builds the same plan again.
LEMMA PlanReadBack ==
  ASSUME NEW b, NEW h, NEW plan, NEW p, NEW s, NEW t, Planned(b, h, plan, p, s, t)
  PROVE  Rebuilt(Trusted(b, h), plan) = plan
<1>1. PICK trusted, R, S : trusted = Trusted(b, h) /\ R = RevisionPlan(s, p) /\ S = RevisionPlan(t, p)
  OBVIOUS
<1>2. plan = Plan(p, s, t)
  BY DEF Planned
<1>3. plan.revisions = <<R, S>>
  BY <1>1, <1>2 DEF Plan
<1>4. plan.revisions[1] = R /\ plan.revisions[2] = S
  BY <1>3
<1>5. PICK x, y : x = SnapshotOf(R) /\ y = SnapshotOf(S)
  OBVIOUS
<1>6. Rebuilt(trusted, plan) = Build(trusted, x, y)
  BY <1>4, <1>5, Zenon DEF Rebuilt
<1>7. SnapshotValid(x, "base") /\ x.commit = b.commit /\ RevisionPlan(x, p) = R
  BY <1>1, <1>5, SnapshotReadBack DEF Planned
<1>8. SnapshotValid(y, "head") /\ y.commit = h.commit /\ RevisionPlan(y, p) = S
  BY <1>1, <1>5, SnapshotReadBack DEF Planned
<1>9. TrustedMatches(trusted, x, y) /\ WithinPlatform(trusted.pipeline) /\ trusted.pipeline = p
  BY <1>1, <1>7, <1>8, Zenon DEF Planned, TrustedMatches
<1>10. Build(trusted, x, y) = Plan(p, x, y)
  BY <1>7, <1>8, <1>9, Zenon DEF Build
<1>11. Plan(p, x, y) = Plan(p, s, t)
  BY <1>1, <1>7, <1>8, Zenon DEF Plan
<1> QED
  BY <1>1, <1>2, <1>6, <1>10, <1>11

-----------------------------------------------------------------------------
(* Sequences put together.                                                 *)

\* The recursion of FlattenSeq.
FlattenStep(seqs, g, i) == IF i = 1 THEN seqs[i] ELSE g[i-1] \o seqs[i]
IsFlatten(seqs, m, g) == g = [i \in 1..m |-> FlattenStep(seqs, g, i)]

LEMMA FlattenExists == ASSUME NEW seqs, NEW m \in Nat PROVE \E g : IsFlatten(seqs, m, g)
<1> DEFINE T == {n \in Nat : \E g : IsFlatten(seqs, n, g)}
<1>1. 0 \in T
  <2> DEFINE g == [i \in 1..0 |-> seqs[i]]
  <2>1. IsFlatten(seqs, 0, g)
    BY DEF IsFlatten
  <2> HIDE DEF g
  <2> QED
    BY <2>1
<1>2. ASSUME NEW n \in T PROVE n + 1 \in T
  <2>1. PICK g : IsFlatten(seqs, n, g)
    OBVIOUS
  <2> DEFINE h == [i \in 1..(n + 1) |-> FlattenStep(seqs, g, i)]
  <2>2. ASSUME NEW i \in 1..(n + 1) PROVE FlattenStep(seqs, g, i) = FlattenStep(seqs, h, i)
    <3>1. CASE i = 1
      BY <3>1 DEF FlattenStep
    <3>2. CASE i # 1
      <4>1. i - 1 \in 1..n /\ i - 1 \in 1..(n + 1)
        BY <3>2
      <4>2. g[i - 1] = FlattenStep(seqs, g, i - 1)
        BY <2>1, <4>1 DEF IsFlatten
      <4>3. h[i - 1] = FlattenStep(seqs, g, i - 1)
        BY <4>1
      <4> HIDE DEF h
      <4> QED
        BY <3>2, <4>2, <4>3 DEF FlattenStep
    <3> QED
      BY <3>1, <3>2
  <2>3. IsFlatten(seqs, n + 1, h)
    BY <2>2 DEF IsFlatten
  <2> HIDE DEF h
  <2> QED
    BY <2>3
<1>3. T = Nat
  <2> HIDE DEF T
  <2>1. T \in SUBSET Nat
    BY DEF T
  <2> QED
    BY <1>1, <1>2, <2>1, SetInduction
<1> QED
  BY <1>3

LEMMA FlattenIs ==
  ASSUME NEW seqs, NEW m \in Nat \ {0}, Len(seqs) = m
  PROVE  \E g : /\ FlattenSeq(seqs) = g[m] /\ g[1] = seqs[1]
                /\ \A i \in 2..m : g[i] = g[i-1] \o seqs[i]
<1> DEFINE g == CHOOSE x : IsFlatten(seqs, m, x)
<1>1. IsFlatten(seqs, m, g)
  BY FlattenExists, Zenon
<1>2. FlattenSeq(seqs) = g[m]
  <2>1. Len(seqs) # 0
    OBVIOUS
  <2> QED
    BY <2>1, Zenon DEF FlattenSeq, IsFlatten, FlattenStep
<1> HIDE DEF g
<1>3. 1 \in 1..m
  OBVIOUS
<1>4. g[1] = seqs[1]
  BY <1>1, <1>3 DEF IsFlatten, FlattenStep
<1>5. ASSUME NEW i \in 2..m PROVE g[i] = g[i-1] \o seqs[i]
  <2>1. i \in 1..m /\ i # 1
    OBVIOUS
  <2> QED
    BY <1>1, <2>1 DEF IsFlatten, FlattenStep
<1> QED
  BY <1>2, <1>4, <1>5

LEMMA ConcatRange ==
  ASSUME NEW A, NEW s \in Seq(A), NEW t \in Seq(A)
  PROVE  s \o t \in Seq(A) /\ Len(s \o t) = Len(s) + Len(t) /\ Range(s \o t) = Range(s) \cup Range(t)
<1>1. PICK m, n : m = Len(s) /\ n = Len(t) /\ m \in Nat /\ n \in Nat
  <2>1. Len(s) \in Nat /\ Len(t) \in Nat
    OBVIOUS
  <2> QED
    BY <2>1
<1>2. PICK u : u = s \o t
  OBVIOUS
<1>3. u \in Seq(A) /\ Len(u) = m + n /\ DOMAIN u = 1..(m + n) /\ DOMAIN s = 1..m /\ DOMAIN t = 1..n
  BY <1>1, <1>2
<1>4. /\ \A i \in 1..m : u[i] = s[i] /\ i \in 1..(m + n)
      /\ \A i \in 1..n : u[m + i] = t[i] /\ m + i \in 1..(m + n)
  BY <1>1, <1>2
<1>5. \A i \in 1..(m + n) : i \in 1..m \/ (i - m \in 1..n /\ i = m + (i - m))
  BY <1>1
<1>6. Range(s) \cup Range(t) \subseteq Range(u)
  BY <1>3, <1>4 DEF Range
<1>7. ASSUME NEW i \in 1..(m + n) PROVE u[i] \in Range(s) \cup Range(t)
  <2>1. CASE i \in 1..m
    BY <1>3, <1>4, <2>1 DEF Range
  <2>2. CASE i - m \in 1..n /\ i = m + (i - m)
    <3>1. PICK j : j = i - m
      OBVIOUS
    <3>2. u[i] = t[j] /\ j \in 1..n
      BY <1>4, <2>2, <3>1
    <3> QED
      BY <1>3, <3>2 DEF Range
  <2> QED
    BY <1>5, <2>1, <2>2
<1>8. Range(u) \subseteq Range(s) \cup Range(t)
  BY <1>3, <1>7 DEF Range
<1> QED
  BY <1>1, <1>2, <1>3, <1>6, <1>8

\* m sequences of length k, one after another.
LEMMA Flattened ==
  ASSUME NEW A, NEW m \in Nat \ {0}, NEW k \in Nat, NEW seqs, Len(seqs) = m,
         \A i \in 1..m : seqs[i] \in Seq(A) /\ Len(seqs[i]) = k
  PROVE  /\ FlattenSeq(seqs) \in Seq(A) /\ Len(FlattenSeq(seqs)) = m * k
         /\ Range(FlattenSeq(seqs)) = UNION {Range(seqs[i]) : i \in 1..m}
<1>1. PICK g : /\ FlattenSeq(seqs) = g[m] /\ g[1] = seqs[1]
               /\ \A i \in 2..m : g[i] = g[i-1] \o seqs[i]
  BY FlattenIs
<1> DEFINE Claim(n) == g[n] \in Seq(A) /\ Len(g[n]) = n * k /\ Range(g[n]) = UNION {Range(seqs[i]) : i \in 1..n}
           T == {n \in Nat : n + 1 <= m => Claim(n + 1)}
<1>2. 0 \in T
  <2>1. 1 \in 1..m /\ 1 * k = k /\ 0 + 1 = 1
    OBVIOUS
  <2>2. UNION {Range(seqs[i]) : i \in 1..1} = Range(seqs[1])
    OBVIOUS
  <2>3. g[1] \in Seq(A) /\ Len(g[1]) = k /\ Range(g[1]) = Range(seqs[1])
    BY <1>1, <2>1
  <2>4. Claim(1)
    BY <2>1, <2>2, <2>3
  <2> HIDE DEF Claim
  <2> QED
    BY <2>1, <2>4
<1>3. ASSUME NEW n \in T PROVE n + 1 \in T
  <2>1. SUFFICES ASSUME n + 2 <= m PROVE Claim(n + 2)
    <3>1. n \in Nat /\ (n + 1) + 1 = n + 2 /\ n + 1 \in Nat
      OBVIOUS
    <3> HIDE DEF Claim
    <3> QED
      BY <3>1
  <2>2. n \in Nat /\ n + 1 <= m /\ n + 2 \in 2..m /\ n + 2 \in 1..m /\ (n + 2) - 1 = n + 1
    BY <2>1
  <2>3. g[n + 1] \in Seq(A) /\ Len(g[n + 1]) = (n + 1) * k /\ Range(g[n + 1]) = UNION {Range(seqs[i]) : i \in 1..(n + 1)}
    BY <2>2
  <2>4. g[n + 2] = g[n + 1] \o seqs[n + 2]
    BY <1>1, <2>2
  <2>5. seqs[n + 2] \in Seq(A) /\ Len(seqs[n + 2]) = k
    BY <2>2
  <2>6. PICK s, t, u : s = g[n + 1] /\ t = seqs[n + 2] /\ u = g[n + 2]
    OBVIOUS
  <2>7. u \in Seq(A) /\ Len(u) = Len(s) + Len(t) /\ Range(u) = Range(s) \cup Range(t)
    BY <2>3, <2>4, <2>5, <2>6, ConcatRange
  <2>8. (n + 1) * k + k = (n + 2) * k
    BY <2>2
  <2>9. 1..(n + 2) = 1..(n + 1) \cup {n + 2}
    BY <2>2
  <2>10. UNION {Range(seqs[i]) : i \in 1..(n + 2)} = (UNION {Range(seqs[i]) : i \in 1..(n + 1)}) \cup Range(seqs[n + 2])
    BY <2>9
  <2> QED
    BY <2>3, <2>5, <2>6, <2>7, <2>8, <2>10
<1>4. T = Nat
  <2> HIDE DEF T
  <2>1. T \in SUBSET Nat
    BY DEF T
  <2> QED
    BY <1>2, <1>3, <2>1, SetInduction
<1>5. m - 1 \in T /\ (m - 1) + 1 = m
  <2> HIDE DEF T
  <2> QED
    BY <1>4
<1>6. Claim(m)
  <2> HIDE DEF Claim
  <2> QED
    BY <1>5
<1> QED
  BY <1>1, <1>6

LEMMA FlattenTwo ==
  ASSUME NEW seqs, Len(seqs) = 2
  PROVE  FlattenSeq(seqs) = seqs[1] \o seqs[2]
<1>1. PICK g : FlattenSeq(seqs) = g[2] /\ g[1] = seqs[1] /\ \A i \in 2..2 : g[i] = g[i-1] \o seqs[i]
  BY FlattenIs, 2 \in Nat \ {0}
<1>2. g[2] = g[2-1] \o seqs[2] /\ 2 - 1 = 1
  BY <1>1
<1> QED
  BY <1>1, <1>2

-----------------------------------------------------------------------------
(* The attempts of a plan.                                                 *)

\* The recursion of AttemptCount.
CountStep(plan, g, i) == IF i = 0 THEN 0 ELSE g[i - 1] + plan.scenarios[i].repetitions * Len(plan.revisions)
IsCount(plan, g) == g = [i \in 0..Len(plan.scenarios) |-> CountStep(plan, g, i)]

LEMMA AttemptsCounted ==
  ASSUME NEW plan, NEW n \in Nat, Len(plan.scenarios) = n, NEW r \in Nat, Len(plan.revisions) = 2,
         \A i \in 1..n : plan.scenarios[i].repetitions = r
  PROVE  AttemptCount(plan) = n * (r * 2)
<1>1. PICK c : c = r * 2 /\ c \in Nat
  OBVIOUS
<1>2. ASSUME NEW i \in 0..n, NEW h, i # 0 => h[i - 1] = (i - 1) * c PROVE CountStep(plan, h, i) = i * c
  <2>1. CASE i = 0
    BY <1>1, <2>1 DEF CountStep
  <2>2. CASE i # 0
    <3>1. i \in 1..n
      BY <2>2
    <3>2. (i - 1) * c + c = i * c
      BY <1>1, <3>1
    <3>3. plan.scenarios[i].repetitions * Len(plan.revisions) = c
      BY <1>1, <3>1
    <3> QED
      BY <1>2, <2>2, <3>2, <3>3 DEF CountStep
  <2> QED
    BY <2>1, <2>2
<1>3. \E g : IsCount(plan, g)
  <2> DEFINE w == [i \in 0..n |-> i * c]
  <2>1. ASSUME NEW i \in 0..n PROVE CountStep(plan, w, i) = i * c
    <3>1. ASSUME i # 0 PROVE w[i - 1] = (i - 1) * c
      <4>1. i - 1 \in 0..n
        BY <3>1
      <4> QED
        BY <4>1
    <3> HIDE DEF w
    <3> QED
      BY <1>2, <3>1
  <2>2. w = [i \in 0..n |-> CountStep(plan, w, i)]
    BY <2>1
  <2> HIDE DEF w
  <2> QED
    BY <2>2 DEF IsCount
<1> DEFINE g == CHOOSE x : IsCount(plan, x)
<1>4. IsCount(plan, g)
  BY <1>3, Zenon
<1>5. AttemptCount(plan) = g[n]
  BY Zenon DEF AttemptCount, IsCount, CountStep
<1> HIDE DEF g
<1>6. \A i \in 0..n : g[i] = CountStep(plan, g, i)
  BY <1>4 DEF IsCount
<1> DEFINE T == {i \in Nat : i <= n => g[i] = i * c}
<1>7. 0 \in T
  <2>1. 0 \in 0..n
    OBVIOUS
  <2>2. g[0] = 0 * c
    BY <1>2, <1>6, <2>1
  <2> QED
    BY <2>2
<1>8. ASSUME NEW i \in T PROVE i + 1 \in T
  <2>1. SUFFICES ASSUME i + 1 <= n PROVE g[i + 1] = (i + 1) * c
    OBVIOUS
  <2>2. i \in Nat /\ i + 1 \in 0..n /\ i + 1 # 0 /\ (i + 1) - 1 = i /\ g[i] = i * c
    BY <2>1
  <2>3. CountStep(plan, g, i + 1) = (i + 1) * c
    BY <1>2, <2>2
  <2> QED
    BY <1>6, <2>2, <2>3
<1>9. T = Nat
  <2> HIDE DEF T
  <2>1. T \in SUBSET Nat
    BY DEF T
  <2> QED
    BY <1>7, <1>8, <2>1, SetInduction
<1>10. g[n] = n * c
  BY <1>9
<1> QED
  BY <1>1, <1>5, <1>10

\* The attempts on one revision: every scenario, r times.
OnRevision(plan, rev) ==
  FlattenSeq([i \in 1..Len(plan.scenarios) |-> Repetitions(rev, plan.scenarios[i])])
AttemptsOn(plan, rev, n, r) == {Attempt(rev, plan.scenarios[i], rep) : i \in 1..n, rep \in 1..r}

LEMMA RevisionAttempts ==
  ASSUME NEW plan, NEW rev, NEW n \in Nat \ {0}, Len(plan.scenarios) = n, NEW r \in Nat,
         \A i \in 1..n : plan.scenarios[i].repetitions = r
  PROVE  /\ OnRevision(plan, rev) \in Seq(AttemptsOn(plan, rev, n, r))
         /\ Len(OnRevision(plan, rev)) = n * r
         /\ Range(OnRevision(plan, rev)) = AttemptsOn(plan, rev, n, r)
<1> DEFINE A == AttemptsOn(plan, rev, n, r)
           seqs == [i \in 1..n |-> Repetitions(rev, plan.scenarios[i])]
<1>1. ASSUME NEW i \in 1..n
      PROVE  /\ seqs[i] \in Seq(A) /\ Len(seqs[i]) = r
             /\ Range(seqs[i]) = {Attempt(rev, plan.scenarios[i], rep) : rep \in 1..r}
  <2>1. PICK s : s = plan.scenarios[i] /\ s.repetitions = r
    OBVIOUS
  <2>2. seqs[i] = [rep \in 1..r |-> Attempt(rev, s, rep)]
    BY <2>1 DEF Repetitions
  <2>3. \A rep \in 1..r : Attempt(rev, s, rep) \in A
    BY <2>1 DEF AttemptsOn
  <2> HIDE DEF seqs, A
  <2>4. seqs[i] \in [1..r -> A]
    BY <2>2, <2>3
  <2>5. seqs[i] \in Seq(A) /\ Len(seqs[i]) = r
    BY <2>4
  <2>6. Range(seqs[i]) = {Attempt(rev, s, rep) : rep \in 1..r}
    BY <2>2 DEF Range
  <2> QED
    BY <2>1, <2>5, <2>6
<1>2. Len(seqs) = n
  OBVIOUS
<1>3. OnRevision(plan, rev) = FlattenSeq(seqs)
  BY DEF OnRevision
<1> HIDE DEF seqs
<1>4. UNION {Range(seqs[i]) : i \in 1..n} = A
  <2>1. A = {Attempt(rev, plan.scenarios[i], rep) : i \in 1..n, rep \in 1..r}
    BY DEF AttemptsOn
  <2>2. ASSUME NEW i \in 1..n PROVE Range(seqs[i]) \subseteq A
    <3>1. seqs[i] \in Seq(A)
      BY <1>1
    <3> HIDE DEF A
    <3> QED
      BY <3>1 DEF Range
  <2>3. ASSUME NEW a \in A PROVE \E i \in 1..n : a \in Range(seqs[i])
    <3>1. PICK i \in 1..n, rep \in 1..r : a = Attempt(rev, plan.scenarios[i], rep)
      BY <2>1
    <3> QED
      BY <1>1, <3>1
  <2> HIDE DEF A
  <2> QED
    BY <2>2, <2>3
<1> HIDE DEF A
<1>5. \A i \in 1..n : seqs[i] \in Seq(A) /\ Len(seqs[i]) = r
  BY <1>1
<1>6. /\ FlattenSeq(seqs) \in Seq(A) /\ Len(FlattenSeq(seqs)) = n * r
      /\ Range(FlattenSeq(seqs)) = UNION {Range(seqs[i]) : i \in 1..n}
  BY <1>2, <1>5, Flattened
<1> QED
  BY <1>3, <1>4, <1>6 DEF A

\* What the attempts of a plan are, in the terms of its pipeline.
Cover(b, h, p, attempts, planned) ==
  IF planned > MaxAttempts THEN attempts = <<>> ELSE
  /\ {<<a.revision, a.scenario, a.repetition>> : a \in Range(attempts)}
       = {"base", "head"} \X Range(KeysOf(p.scenarios, "id")) \X (1..p.repetitions)
  /\ Len(attempts) = planned
  /\ \A i, j \in DOMAIN attempts :
       attempts[i].revision = "head" /\ attempts[j].revision = "base" => j < i
  /\ \A i \in DOMAIN attempts :
       attempts[i].commit = IF attempts[i].revision = "base" THEN b.commit ELSE h.commit

LEMMA AttemptsOfPlan ==
  ASSUME NEW b, NEW h, NEW plan, NEW p, NEW s, NEW t, Planned(b, h, plan, p, s, t)
  PROVE  Cover(b, h, p, ExpandAttempts(plan), 2 * Len(p.scenarios) * p.repetitions)
<1>1. PICK R, S, n, r, L : /\ R = RevisionPlan(s, p) /\ S = RevisionPlan(t, p)
                           /\ n = Len(p.scenarios) /\ r = p.repetitions /\ L = p.scenarios
  OBVIOUS
<1>2. n \in Nat \ {0} /\ r \in Nat \ {0} /\ DOMAIN L = 1..n
  <2>1. n \in 1..MaxScenarios /\ r \in MinOf["repetitions"]..MaxOf["repetitions"] /\ DOMAIN L = 1..n
    BY <1>1, Zenon DEF Planned, IsPipeline
  <2>2. MaxScenarios \in Nat /\ MaxOf["repetitions"] \in Nat /\ MinOf["repetitions"] \in Nat \ {0}
    BY ConfigAssumption DEF Quantities
  <2> QED
    BY <2>1, <2>2
<1>3. R.kind = "base" /\ R.commit = b.commit /\ S.kind = "head" /\ S.commit = h.commit
  BY <1>1 DEF Planned, RevisionPlan, IsSnapshot
<1>4. plan = Plan(p, s, t)
  BY DEF Planned
<1>5. plan.revisions = <<R, S>> /\ Len(plan.revisions) = 2 /\ plan.revisions[1] = R /\ plan.revisions[2] = S
  <2>1. plan.revisions = <<R, S>>
    BY <1>1, <1>4 DEF Plan
  <2> QED
    BY <2>1
<1>6. /\ Len(plan.scenarios) = n
      /\ \A i \in 1..n : plan.scenarios[i].repetitions = r /\ plan.scenarios[i].id = L[i].id
  <2>1. plan.scenarios = [i \in 1..n |-> ScenarioPlan(p, L[i])]
    BY <1>1, <1>4 DEF Plan
  <2>2. Len(plan.scenarios) = n /\ \A i \in 1..n : plan.scenarios[i] = ScenarioPlan(p, L[i])
    BY <1>2, <2>1
  <2>3. \A x : ScenarioPlan(p, x).repetitions = r /\ ScenarioPlan(p, x).id = x.id
    BY <1>1 DEF ScenarioPlan
  <2> QED
    BY <2>2, <2>3
<1>7. PICK planned : planned = 2 * n * r /\ planned \in Nat
  BY <1>2
<1>8. AttemptCount(plan) = planned
  <2>1. AttemptCount(plan) = n * (r * 2)
    <3>1. n \in Nat /\ r \in Nat /\ \A i \in 1..n : plan.scenarios[i].repetitions = r
      BY <1>2, <1>6
    <3> QED
      BY <1>5, <1>6, <3>1, AttemptsCounted
  <2>2. n * (r * 2) = 2 * n * r
    BY <1>2
  <2> QED
    BY <1>7, <2>1, <2>2
<1>9. MaxAttempts \in Nat
  BY PlatformAssumption
<1>10. PlanDocumentValid(plan) <=> ~(planned > MaxAttempts)
  BY <1>2, <1>3, <1>5, <1>6, <1>7, <1>8, <1>9 DEF PlanDocumentValid
<1>11. PICK attempts : attempts = ExpandAttempts(plan)
  OBVIOUS
<1>12. CASE planned > MaxAttempts
  <2>1. attempts = <<>>
    BY <1>10, <1>11, <1>12, Zenon DEF ExpandAttempts
  <2> QED
    BY <1>1, <1>7, <1>11, <1>12, <2>1 DEF Cover
<1>13. CASE ~(planned > MaxAttempts)
  <2>1. PICK P, Q, A, B : /\ P = OnRevision(plan, R) /\ Q = OnRevision(plan, S)
                          /\ A = AttemptsOn(plan, R, n, r) /\ B = AttemptsOn(plan, S, n, r)
    OBVIOUS
  <2>2. attempts = P \o Q
    <3> DEFINE seqs == [v \in 1..Len(plan.revisions) |-> OnRevision(plan, plan.revisions[v])]
    <3>1. attempts = FlattenSeq(seqs)
      BY <1>10, <1>11, <1>13, Zenon DEF ExpandAttempts, OnRevision
    <3>2. Len(seqs) = 2 /\ seqs[1] = P /\ seqs[2] = Q
      BY <1>5, <2>1
    <3> HIDE DEF seqs
    <3> QED
      BY <3>1, <3>2, FlattenTwo
  <2>3. P \in Seq(A) /\ Len(P) = n * r /\ Range(P) = A
    BY <1>2, <1>6, <2>1, RevisionAttempts
  <2>4. Q \in Seq(B) /\ Len(Q) = n * r /\ Range(Q) = B
    BY <1>2, <1>6, <2>1, RevisionAttempts
  <2>5. PICK C : C = A \cup B
    OBVIOUS
  <2>6. P \in Seq(C) /\ Q \in Seq(C)
    BY <2>3, <2>4, <2>5
  <2>7. attempts \in Seq(C) /\ Len(attempts) = n * r + n * r /\ Range(attempts) = A \cup B
    <3>1. P \o Q \in Seq(C) /\ Len(P \o Q) = Len(P) + Len(Q) /\ Range(P \o Q) = Range(P) \cup Range(Q)
      BY <2>6, ConcatRange
    <3> QED
      BY <2>2, <2>3, <2>4, <3>1
  <2>8. n * r + n * r = planned
    BY <1>2, <1>7
  <2>9. ASSUME NEW rev, NEW a \in AttemptsOn(plan, rev, n, r)
        PROVE  /\ a.revision = rev.kind /\ a.commit = rev.commit
               /\ \E i \in 1..n : a.scenario = L[i].id
               /\ a.repetition \in 1..r
    <3>1. PICK i \in 1..n, rep \in 1..r : a = Attempt(rev, plan.scenarios[i], rep)
      BY DEF AttemptsOn
    <3>2. a.revision = rev.kind /\ a.commit = rev.commit /\ a.scenario = plan.scenarios[i].id /\ a.repetition = rep
      BY <3>1 DEF Attempt
    <3> QED
      BY <1>6, <3>2
  <2>10. \A a \in A : a.revision = "base" /\ a.commit = b.commit
    BY <1>3, <2>1, <2>9
  <2>11. \A a \in B : a.revision = "head" /\ a.commit = h.commit
    BY <1>3, <2>1, <2>9
  <2>12. PICK ids : ids = Range(KeysOf(L, "id"))
    OBVIOUS
  <2>13. ids = {L[i].id : i \in 1..n}
    BY <1>2, <2>12 DEF KeysOf, Range
  <2>14. {<<a.revision, a.scenario, a.repetition>> : a \in A \cup B} = {"base", "head"} \X ids \X (1..r)
    <3>1. ASSUME NEW a \in A \cup B
          PROVE  <<a.revision, a.scenario, a.repetition>> \in {"base", "head"} \X ids \X (1..r)
      <4>1. a.revision \in {"base", "head"}
        BY <2>10, <2>11
      <4>2. (\E i \in 1..n : a.scenario = L[i].id) /\ a.repetition \in 1..r
        BY <2>1, <2>9
      <4> QED
        BY <2>13, <4>1, <4>2
    <3>2. ASSUME NEW x \in {"base", "head"} \X ids \X (1..r)
          PROVE  \E a \in A \cup B : x = <<a.revision, a.scenario, a.repetition>>
      <4>1. PICK k, id, rep : x = <<k, id, rep>> /\ k \in {"base", "head"} /\ id \in ids /\ rep \in 1..r
        BY <3>2
      <4>2. PICK i \in 1..n : id = L[i].id
        BY <2>13, <4>1
      <4>3. PICK rev : rev = IF k = "base" THEN R ELSE S
        OBVIOUS
      <4>4. PICK a : a = Attempt(rev, plan.scenarios[i], rep)
        OBVIOUS
      <4>5. rev.kind = k
        BY <1>3, <4>1, <4>3
      <4>6. a.revision = k /\ a.scenario = id /\ a.repetition = rep
        BY <1>6, <4>2, <4>4, <4>5 DEF Attempt
      <4>7. a \in AttemptsOn(plan, rev, n, r)
        BY <4>1, <4>4 DEF AttemptsOn
      <4>8. a \in A \cup B
        BY <2>1, <4>3, <4>7
      <4> QED
        BY <4>1, <4>6, <4>8
    <3> QED
      BY <3>1, <3>2
  <2>15. PICK m : m = n * r /\ m \in Nat
    BY <1>2
  <2>16. DOMAIN attempts = 1..(m + m)
    BY <2>7, <2>15
  <2>17. ASSUME NEW i \in 1..(m + m)
         PROVE  IF i <= m THEN attempts[i] \in A ELSE attempts[i] \in B
    <3>1. CASE i <= m
      <4>1. i \in 1..Len(P) /\ attempts[i] = P[i]
        BY <2>2, <2>3, <2>4, <2>6, <2>15, <3>1
      <4>2. P[i] \in A
        BY <2>3, <4>1
      <4> QED
        BY <3>1, <4>1, <4>2
    <3>2. CASE ~(i <= m)
      <4>1. Len(P) = m /\ Len(Q) = m /\ i - m \in 1..m
        BY <2>3, <2>4, <2>15, <3>2
      <4>2. attempts[i] = Q[i - m]
        BY <2>2, <2>6, <2>15, <3>2, <4>1
      <4>3. Q[i - m] \in B
        BY <2>4, <4>1
      <4> QED
        BY <3>2, <4>2, <4>3
    <3> QED
      BY <3>1, <3>2
  <2>18. \A i, j \in DOMAIN attempts :
           attempts[i].revision = "head" /\ attempts[j].revision = "base" => j < i
    <3> SUFFICES ASSUME NEW i \in 1..(m + m), NEW j \in 1..(m + m),
                        attempts[i].revision = "head", attempts[j].revision = "base"
                 PROVE  j < i
      BY <2>16
    <3>1. ~(i <= m) /\ j <= m
      BY <2>10, <2>11, <2>17
    <3> QED
      BY <2>15, <3>1
  <2>19. \A i \in DOMAIN attempts :
           attempts[i].commit = IF attempts[i].revision = "base" THEN b.commit ELSE h.commit
    <3> SUFFICES ASSUME NEW i \in 1..(m + m)
                 PROVE  attempts[i].commit = IF attempts[i].revision = "base" THEN b.commit ELSE h.commit
      BY <2>16
    <3>1. attempts[i] \in A \/ attempts[i] \in B
      BY <2>17
    <3> QED
      BY <2>10, <2>11, <3>1
  <2>20. {<<a.revision, a.scenario, a.repetition>> : a \in Range(attempts)} = {"base", "head"} \X ids \X (1..r)
    BY <2>7, <2>14
  <2>21. Len(attempts) = planned
    BY <2>7, <2>8
  <2> QED
    BY <1>1, <1>7, <1>11, <1>13, <2>12, <2>18, <2>19, <2>20, <2>21, Zenon DEF Cover
<1> QED
  BY <1>12, <1>13

\* Every plan that is built has the attempts it should have, neither more nor fewer, in
\* the order of the revisions, and is the plan an inspection builds again.
THEOREM AttemptsCoverPlanTheorem == Spec => []AttemptsCoverPlan
<1> DEFINE Holds(trusted, plan, p, attempts, planned) ==
      IF planned > MaxAttempts THEN attempts = <<>> ELSE
        /\ Rebuilt(trusted, plan) = plan
        /\ {<<a.revision, a.scenario, a.repetition>> : a \in Range(attempts)}
             = {"base", "head"} \X Range(KeysOf(p.scenarios, "id")) \X (1..p.repetitions)
        /\ Len(attempts) = planned
        /\ \A i, j \in DOMAIN attempts :
             attempts[i].revision = "head" /\ attempts[j].revision = "base" => j < i
        /\ \A i \in DOMAIN attempts :
             attempts[i].commit = IF attempts[i].revision = "base" THEN base.commit ELSE head.commit
<1>1. RevisionsInv => AttemptsCoverPlan
  <2> SUFFICES ASSUME RevisionsInv, NEW plan, plan = ThePlan(Trusted(base, head), base, head), plan # NoPlan
               PROVE  Holds(Trusted(base, head), plan, Trusted(base, head).pipeline, ExpandAttempts(plan),
                            2 * Len(Trusted(base, head).pipeline.scenarios) * Trusted(base, head).pipeline.repetitions)
    BY DEF AttemptsCoverPlan
  <2>1. PICK p, s, t : Planned(base, head, plan, p, s, t)
    BY PlanIsPlanned DEF RevisionsInv
  <2>2. p = Trusted(base, head).pipeline
    BY <2>1 DEF Planned
  <2>3. Rebuilt(Trusted(base, head), plan) = plan
    BY <2>1, PlanReadBack
  <2>4. PICK trusted, attempts, planned : /\ trusted = Trusted(base, head) /\ attempts = ExpandAttempts(plan)
                                          /\ planned = 2 * Len(p.scenarios) * p.repetitions
    OBVIOUS
  <2>5. Cover(base, head, p, attempts, planned)
    BY <2>1, <2>4, AttemptsOfPlan
  <2>6. Holds(trusted, plan, p, attempts, planned)
    BY <2>3, <2>4, <2>5, Zenon DEF Cover
  <2> HIDE DEF Holds
  <2> QED
    BY <2>2, <2>4, <2>6
<1> QED
  BY <1>1, Revisions, PTL

-----------------------------------------------------------------------------
(* The copy of a tree.                                                     *)

\* The recursion of Copied.
CopyStep(batches, g, i) ==
  IF i = 0 THEN [ws |-> EmptyWorkspace, error |-> "none"] ELSE CopyBatch(g[i - 1], batches[i])
IsCopy(batches, m, g) == g = [i \in 0..m |-> CopyStep(batches, g, i)]

LEMMA CopyExists == ASSUME NEW batches, NEW m \in Nat PROVE \E g : IsCopy(batches, m, g)
<1> DEFINE T == {n \in Nat : \E g : IsCopy(batches, n, g)}
<1>1. 0 \in T
  <2> DEFINE g == [i \in 0..0 |-> [ws |-> EmptyWorkspace, error |-> "none"]]
  <2>1. IsCopy(batches, 0, g)
    BY DEF IsCopy, CopyStep
  <2> HIDE DEF g
  <2> QED
    BY <2>1
<1>2. ASSUME NEW n \in T PROVE n + 1 \in T
  <2>1. PICK g : IsCopy(batches, n, g)
    OBVIOUS
  <2> DEFINE h == [i \in 0..(n + 1) |-> CopyStep(batches, g, i)]
  <2>2. ASSUME NEW i \in 0..(n + 1) PROVE CopyStep(batches, g, i) = CopyStep(batches, h, i)
    <3>1. CASE i = 0
      BY <3>1 DEF CopyStep
    <3>2. CASE i # 0
      <4>1. i - 1 \in 0..n /\ i - 1 \in 0..(n + 1)
        BY <3>2
      <4>2. g[i - 1] = CopyStep(batches, g, i - 1)
        BY <2>1, <4>1 DEF IsCopy
      <4>3. h[i - 1] = CopyStep(batches, g, i - 1)
        BY <4>1
      <4> HIDE DEF h
      <4> QED
        BY <3>2, <4>2, <4>3 DEF CopyStep
    <3> QED
      BY <3>1, <3>2
  <2>3. IsCopy(batches, n + 1, h)
    BY <2>2 DEF IsCopy
  <2> HIDE DEF h
  <2> QED
    BY <2>3
<1>3. T = Nat
  <2> HIDE DEF T
  <2>1. T \in SUBSET Nat
    BY DEF T
  <2> QED
    BY <1>1, <1>2, <2>1, SetInduction
<1> QED
  BY <1>3

\* The state of the copy after every batch.
LEMMA CopiedIs ==
  ASSUME NEW E, NEW m \in Nat, Len(Batches(E)) = m
  PROVE  \E g : /\ Copied(E) = g[m] /\ g[0] = [ws |-> EmptyWorkspace, error |-> "none"]
                /\ \A i \in 1..m : g[i] = CopyBatch(g[i - 1], Batches(E)[i])
<1> DEFINE g == CHOOSE x : IsCopy(Batches(E), m, x)
<1>1. IsCopy(Batches(E), m, g)
  BY CopyExists, Zenon
<1>2. Copied(E) = g[m]
  BY Zenon DEF Copied, IsCopy, CopyStep
<1> HIDE DEF g
<1>3. 0 \in 0..m
  OBVIOUS
<1>4. g[0] = [ws |-> EmptyWorkspace, error |-> "none"]
  BY <1>1, <1>3 DEF IsCopy, CopyStep
<1>5. ASSUME NEW i \in 1..m PROVE g[i] = CopyBatch(g[i - 1], Batches(E)[i])
  <2>1. i \in 0..m /\ i # 0
    OBVIOUS
  <2> QED
    BY <1>1, <2>1 DEF IsCopy, CopyStep
<1> QED
  BY <1>2, <1>4, <1>5

\* The batch of an entry.
Batch(e) ==
  IF KindOf(e) = "directory" THEN Len(e.path)
  ELSE IF KindOf(e) \in FileKinds THEN MaxPathDepth + 1 ELSE MaxPathDepth + 2
IsCreated(e) == KindOf(e) # "gitlink"

\* What a listing and a preflight without errors say of the entries.
Checked(E) ==
  /\ \A e \in E : /\ e.path \in Paths /\ Len(e.path) \in 1..MaxPathDepth /\ \A i \in 1..Len(e.path) : e.path[i] \in Nat
                  /\ KindOf(e) \in {"directory", "regular-file", "executable-file", "symlink", "gitlink"}
                  /\ KindOf(e) = "symlink" => e.stored.names \in Paths
  /\ \A e, f \in E : e.path = f.path => e = f
  /\ \A e \in E : Len(e.path) > 1 => \E d \in E : d.path = Parent(e.path) /\ KindOf(d) = "directory"

LEMMA BatchesAre ==
  ASSUME NEW E, Checked(E)
  PROVE  /\ Len(Batches(E)) = MaxPathDepth + 2 /\ MaxPathDepth \in Nat \ {0}
         /\ \A i \in 1..(MaxPathDepth + 2) : Batches(E)[i] = {e \in E : IsCreated(e) /\ Batch(e) = i}
         /\ \A e \in E : Batch(e) \in 1..(MaxPathDepth + 2)
<1>1. PICK D : D = MaxPathDepth /\ D \in Nat \ {0}
  BY MaterializeAssumption
<1> DEFINE dirs == [d \in 1..D |-> {e \in OfKind(E, {"directory"}) : Len(e.path) = d}]
           F == OfKind(E, FileKinds)
           L == OfKind(E, {"symlink"})
<1>2. Batches(E) = dirs \o <<F, L>>
  BY <1>1 DEF Batches
<1>3. dirs \in Seq(SUBSET E) /\ Len(dirs) = D
  <2>1. \A d \in 1..D : {e \in OfKind(E, {"directory"}) : Len(e.path) = d} \in SUBSET E
    BY DEF OfKind
  <2>2. dirs \in [1..D -> SUBSET E]
    BY <2>1
  <2> HIDE DEF dirs
  <2> QED
    BY <1>1, <2>2
<1>4. <<F, L>> \in Seq(SUBSET E) /\ Len(<<F, L>>) = 2
  <2>1. F \in SUBSET E /\ L \in SUBSET E
    BY DEF OfKind
  <2> HIDE DEF F, L
  <2> QED
    BY <2>1
<1>5. \A d \in 1..D : dirs[d] = {e \in OfKind(E, {"directory"}) : Len(e.path) = d}
  OBVIOUS
<1> HIDE DEF dirs, F, L
<1>6. PICK B : B = dirs \o <<F, L>>
  OBVIOUS
<1>7. Len(B) = D + 2 /\ \A i \in 1..D : B[i] = dirs[i]
  BY <1>1, <1>3, <1>4, <1>6
<1>8. B[D + 1] = F /\ B[D + 2] = L
  BY <1>1, <1>3, <1>4, <1>6
<1>9. ASSUME NEW e \in E
      PROVE  /\ Batch(e) \in 1..(D + 2)
             /\ \A i \in 1..D : (IsCreated(e) /\ Batch(e) = i) <=> (KindOf(e) = "directory" /\ Len(e.path) = i)
             /\ (IsCreated(e) /\ Batch(e) = D + 1) <=> KindOf(e) \in FileKinds
             /\ (IsCreated(e) /\ Batch(e) = D + 2) <=> KindOf(e) = "symlink"
  <2>1. PICK n, k : n = Len(e.path) /\ k = KindOf(e) /\ n \in 1..D
                    /\ k \in {"directory", "regular-file", "executable-file", "symlink", "gitlink"}
    BY <1>1 DEF Checked
  <2> QED
    BY <1>1, <2>1 DEF Batch, IsCreated, FileKinds
<1>10. ASSUME NEW i \in 1..(D + 2) PROVE B[i] = {e \in E : IsCreated(e) /\ Batch(e) = i}
  <2>1. CASE i \in 1..D
    <3>1. B[i] = {e \in E : KindOf(e) \in {"directory"} /\ Len(e.path) = i}
      BY <1>5, <1>7, <2>1 DEF OfKind
    <3> QED
      BY <1>9, <2>1, <3>1
  <2>2. CASE i = D + 1
    BY <1>8, <1>9, <2>2 DEF F, OfKind
  <2>3. CASE i = D + 2
    BY <1>8, <1>9, <2>3 DEF L, OfKind
  <2> QED
    BY <1>1, <2>1, <2>2, <2>3
<1> QED
  BY <1>1, <1>2, <1>6, <1>7, <1>9, <1>10

\* What was created by the first i batches, and the workspace that holds nothing else.
Done(E, i) == {e \in E : IsCreated(e) /\ Batch(e) <= i}
IsWorkspaceOf(ws, S) ==
  /\ DOMAIN ws = {e.path : e \in S}
  /\ \A e \in S : ws[e.path] = Created(e) /\ (KindOf(e) = "symlink" => TargetValid(e.path, e.stored))

\* There is room for every entry of the next batch.
LEMMA RoomForBatch ==
  ASSUME NEW E, Checked(E), NEW i \in 1..(MaxPathDepth + 2), NEW ws, IsWorkspaceOf(ws, Done(E, i - 1)),
         NEW e \in E, IsCreated(e), Batch(e) = i
  PROVE  MayCreate(ws, e.path)
<1>1. MaxPathDepth \in Nat
  BY MaterializeAssumption
<1>2. e.path \notin DOMAIN ws
  <2> SUFFICES ASSUME e.path \in DOMAIN ws PROVE FALSE
    OBVIOUS
  <2>1. PICK f \in Done(E, i - 1) : f.path = e.path
    BY DEF IsWorkspaceOf
  <2>2. f = e /\ Batch(f) <= i - 1
    BY <2>1 DEF Done, Checked
  <2> QED
    BY <1>1, <2>2
<1>3. ASSUME Len(e.path) # 1
      PROVE  Parent(e.path) \in DOMAIN ws /\ ws[Parent(e.path)].kind = "directory"
  <2>a. Len(e.path) \in 1..MaxPathDepth /\ e.path \in Seq(Int)
    BY DEF Checked, Paths
  <2>b. PICK n : n = Len(e.path)
    OBVIOUS
  <2>1. n = Len(e.path) /\ n \in 1..MaxPathDepth /\ n > 1 /\ e.path \in Seq(Int)
    <3>1. n # 1
      BY <1>3, <2>b
    <3>2. n \in 1..MaxPathDepth
      BY <2>a, <2>b
    <3>3. n > 1
      BY ONLY <1>1, <3>1, <3>2
    <3> QED
      BY <2>a, <2>b, <3>2, <3>3
  <2>2. PICK d \in E : d.path = Parent(e.path) /\ KindOf(d) = "directory"
    BY <2>1 DEF Checked
  <2>3. Len(d.path) = n - 1
    BY <2>1, <2>2 DEF Parent
  <2>4. Batch(d) = n - 1 /\ IsCreated(d)
    BY <2>2, <2>3 DEF Batch, IsCreated
  <2>5. n <= i
    BY <1>1, <2>1 DEF Batch
  <2>6. d \in Done(E, i - 1)
    BY <1>1, <2>1, <2>4, <2>5 DEF Done
  <2>7. ws[d.path] = Created(d) /\ d.path \in DOMAIN ws
    BY <2>6 DEF IsWorkspaceOf
  <2>8. Created(d).kind = "directory"
    BY <2>2 DEF Created
  <2> QED
    BY <2>2, <2>7, <2>8
<1> QED
  BY <1>2, <1>3 DEF MayCreate

LEMMA EntryErrors ==
  ASSUME NEW ws, NEW e, MayCreate(ws, e.path)
  PROVE  /\ EntryError(ws, e) \in {"none", "blob", "target"}
         /\ EntryError(ws, e) = "none" /\ KindOf(e) = "symlink" => TargetValid(e.path, e.stored)
<1>1. PICK k : k = KindOf(e)
  OBVIOUS
<1>2. k = "symlink" => k \notin FileKinds
  BY DEF FileKinds
<1> QED
  BY <1>1, <1>2 DEF EntryError

\* One batch more.
LEMMA CreateBatch ==
  ASSUME NEW E, Checked(E), NEW i \in 1..(MaxPathDepth + 2), NEW ws, IsWorkspaceOf(ws, Done(E, i - 1)),
         NEW B, B = {e \in E : IsCreated(e) /\ Batch(e) = i},
         \A e \in B : EntryError(ws, e) = "none"
  PROVE  IsWorkspaceOf(Create(ws, B), Done(E, i))
<1>1. MaxPathDepth \in Nat
  BY MaterializeAssumption
<1>2. Done(E, i) = Done(E, i - 1) \cup B
  <2>1. \A e \in E : Batch(e) \in 1..(MaxPathDepth + 2)
    BY BatchesAre
  <2>2. \A n \in 1..(MaxPathDepth + 2) : n <= i <=> n <= i - 1 \/ n = i
    BY <1>1
  <2> QED
    BY <2>1, <2>2 DEF Done
<1>3. PICK P, new : P = {e.path : e \in B} /\ new = Create(ws, B)
  OBVIOUS
<1>4. new = [p \in DOMAIN ws \cup P |-> IF p \in P THEN Created(CHOOSE e \in B : e.path = p) ELSE ws[p]]
  BY <1>3 DEF Create
<1>5. DOMAIN new = {e.path : e \in Done(E, i)}
  <2>1. DOMAIN new = {e.path : e \in Done(E, i - 1)} \cup P
    BY <1>4 DEF IsWorkspaceOf
  <2> QED
    BY <1>2, <1>3, <2>1
<1>6. ASSUME NEW e \in B
      PROVE  new[e.path] = Created(e) /\ (KindOf(e) = "symlink" => TargetValid(e.path, e.stored))
  <2>1. e.path \in P
    BY <1>3
  <2>2. PICK f : f = CHOOSE x \in B : x.path = e.path
    OBVIOUS
  <2>3. f \in B /\ f.path = e.path
    BY <2>2
  <2>4. f = e
    BY <2>3 DEF Checked
  <2>5. new[e.path] = Created(e)
    BY <1>4, <2>1, <2>2, <2>4
  <2>6. MayCreate(ws, e.path)
    BY RoomForBatch
  <2> QED
    BY <2>5, <2>6, EntryErrors
<1>7. ASSUME NEW e \in Done(E, i - 1)
      PROVE  new[e.path] = Created(e) /\ (KindOf(e) = "symlink" => TargetValid(e.path, e.stored))
  <2>1. e.path \in DOMAIN ws /\ ws[e.path] = Created(e) /\ (KindOf(e) = "symlink" => TargetValid(e.path, e.stored))
    BY DEF IsWorkspaceOf
  <2>2. e.path \notin P
    <3> SUFFICES ASSUME NEW f \in B, f.path = e.path PROVE FALSE
      BY <1>3
    <3>1. f = e
      BY DEF Checked, Done
    <3>2. Batch(e) = i /\ Batch(e) <= i - 1
      BY <3>1 DEF Done
    <3> QED
      BY <1>1, <3>2
  <2>3. new[e.path] = ws[e.path]
    BY <1>4, <2>1, <2>2
  <2> QED
    BY <2>1, <2>3
<1> QED
  BY <1>2, <1>3, <1>5, <1>6, <1>7 DEF IsWorkspaceOf

\* Where the copy is after i batches.
Progress(E, i, st) ==
  /\ st.error \in {"none", "blob", "target"} /\ st = [ws |-> st.ws, error |-> st.error]
  /\ st.error = "none" => IsWorkspaceOf(st.ws, Done(E, i))

LEMMA CopyGoesOn ==
  ASSUME NEW E, Checked(E), NEW i \in 1..(MaxPathDepth + 2), NEW st, Progress(E, i - 1, st)
  PROVE  Progress(E, i, CopyBatch(st, Batches(E)[i]))
<1>1. PICK B : B = Batches(E)[i] /\ B = {e \in E : IsCreated(e) /\ Batch(e) = i}
  BY BatchesAre
<1>2. PICK X, next : X = {EntryError(st.ws, e) : e \in B} \ {"none"} /\ next = CopyBatch(st, B)
  OBVIOUS
<1>3. next = IF st.error # "none" THEN st
             ELSE IF X # {} THEN [st EXCEPT !.error = CHOOSE x \in X : TRUE]
             ELSE [st EXCEPT !.ws = Create(st.ws, B)]
  BY <1>2, Zenon DEF CopyBatch
<1>4. CASE st.error # "none"
  BY <1>1, <1>2, <1>3, <1>4 DEF Progress
<1>5. CASE st.error = "none"
  <2>1. PICK ws : ws = st.ws /\ IsWorkspaceOf(ws, Done(E, i - 1))
    BY <1>5 DEF Progress
  <2>2. X \subseteq {"blob", "target"}
    <3>1. \A e \in B : MayCreate(ws, e.path)
      BY <1>1, <2>1, RoomForBatch
    <3>2. \A e \in B : EntryError(ws, e) \in {"none", "blob", "target"}
      BY <3>1, EntryErrors
    <3> QED
      BY <1>2, <2>1, <3>2
  <2>3. CASE X # {}
    <3>1. PICK x : x = (CHOOSE y \in X : TRUE) /\ x \in X
      BY <2>3
    <3>2. next = [st EXCEPT !.error = x]
      BY <1>3, <1>5, <2>3, <3>1
    <3>3. next.error = x /\ next = [ws |-> next.ws, error |-> next.error]
      BY <3>2 DEF Progress
    <3>4. x \in {"blob", "target"}
      BY <2>2, <3>1
    <3> QED
      BY <1>1, <1>2, <3>3, <3>4 DEF Progress
  <2>4. CASE X = {}
    <3>1. PICK new : new = Create(ws, B)
      OBVIOUS
    <3>2. next = [st EXCEPT !.ws = new]
      BY <1>3, <1>5, <2>1, <2>4, <3>1
    <3>3. next.error = "none" /\ next.ws = new /\ next = [ws |-> next.ws, error |-> next.error]
      BY <1>5, <3>2 DEF Progress
    <3>4. \A e \in B : EntryError(ws, e) = "none"
      BY <1>2, <2>1, <2>4
    <3>5. IsWorkspaceOf(new, Done(E, i))
      BY <1>1, <2>1, <3>1, <3>4, CreateBatch
    <3> QED
      BY <1>1, <1>2, <3>3, <3>5 DEF Progress
  <2> QED
    BY <2>3, <2>4
<1> QED
  BY <1>4, <1>5

\* The copy ends with an error of an object or of a link, or with everything in its place.
LEMMA CopyEnds ==
  ASSUME NEW E, Checked(E)
  PROVE  Progress(E, MaxPathDepth + 2, Copied(E))
<1>1. PICK m : m = MaxPathDepth + 2 /\ m \in Nat /\ Len(Batches(E)) = m
  BY BatchesAre
<1>2. PICK g : /\ Copied(E) = g[m] /\ g[0] = [ws |-> EmptyWorkspace, error |-> "none"]
               /\ \A i \in 1..m : g[i] = CopyBatch(g[i - 1], Batches(E)[i])
  BY <1>1, CopiedIs
<1> DEFINE T == {i \in Nat : i <= m => Progress(E, i, g[i])}
<1>3. 0 \in T
  <2>1. Done(E, 0) = {}
    <3>1. \A e \in E : Batch(e) \in 1..m
      BY <1>1, BatchesAre
    <3>2. \A n \in 1..m : ~(n <= 0)
      OBVIOUS
    <3> QED
      BY <3>1, <3>2 DEF Done
  <2>2. DOMAIN EmptyWorkspace = {}
    BY DEF EmptyWorkspace
  <2>3. IsWorkspaceOf(EmptyWorkspace, Done(E, 0))
    BY <2>1, <2>2 DEF IsWorkspaceOf
  <2>4. g[0].ws = EmptyWorkspace /\ g[0].error = "none" /\ g[0] = [ws |-> g[0].ws, error |-> g[0].error]
    BY <1>2
  <2>5. Progress(E, 0, g[0])
    BY <2>3, <2>4 DEF Progress
  <2> QED
    BY <2>5
<1>4. ASSUME NEW i \in T PROVE i + 1 \in T
  <2>1. SUFFICES ASSUME i + 1 <= m PROVE Progress(E, i + 1, g[i + 1])
    OBVIOUS
  <2>2. i \in Nat /\ i + 1 \in 1..m /\ (i + 1) - 1 = i /\ Progress(E, i, g[i])
    BY <1>1, <2>1
  <2>3. g[i + 1] = CopyBatch(g[i], Batches(E)[i + 1])
    BY <1>2, <2>2
  <2> QED
    BY <1>1, <2>2, <2>3, CopyGoesOn
<1>5. T = Nat
  <2> HIDE DEF T
  <2>1. T \in SUBSET Nat
    BY DEF T
  <2> QED
    BY <1>3, <1>4, <2>1, SetInduction
<1> QED
  BY <1>1, <1>2, <1>5

-----------------------------------------------------------------------------
(* Links.                                                                  *)

\* The recursion of Cleaned.
CleanStep(names, g, i) == IF i = 0 THEN <<>> ELSE CleanName(g[i - 1], names[i])
IsClean(names, m, g) == g = [i \in 0..m |-> CleanStep(names, g, i)]

LEMMA CleanExists == ASSUME NEW names, NEW m \in Nat PROVE \E g : IsClean(names, m, g)
<1> DEFINE T == {n \in Nat : \E g : IsClean(names, n, g)}
<1>1. 0 \in T
  <2> DEFINE g == [i \in 0..0 |-> <<>>]
  <2>1. IsClean(names, 0, g)
    BY DEF IsClean, CleanStep
  <2> HIDE DEF g
  <2> QED
    BY <2>1
<1>2. ASSUME NEW n \in T PROVE n + 1 \in T
  <2>1. PICK g : IsClean(names, n, g)
    OBVIOUS
  <2> DEFINE h == [i \in 0..(n + 1) |-> CleanStep(names, g, i)]
  <2>2. ASSUME NEW i \in 0..(n + 1) PROVE CleanStep(names, g, i) = CleanStep(names, h, i)
    <3>1. CASE i = 0
      BY <3>1 DEF CleanStep
    <3>2. CASE i # 0
      <4>1. i - 1 \in 0..n /\ i - 1 \in 0..(n + 1)
        BY <3>2
      <4>2. g[i - 1] = CleanStep(names, g, i - 1)
        BY <2>1, <4>1 DEF IsClean
      <4>3. h[i - 1] = CleanStep(names, g, i - 1)
        BY <4>1
      <4> HIDE DEF h
      <4> QED
        BY <3>2, <4>2, <4>3 DEF CleanStep
    <3> QED
      BY <3>1, <3>2
  <2>3. IsClean(names, n + 1, h)
    BY <2>2 DEF IsClean
  <2> HIDE DEF h
  <2> QED
    BY <2>3
<1>3. T = Nat
  <2> HIDE DEF T
  <2>1. T \in SUBSET Nat
    BY DEF T
  <2> QED
    BY <1>1, <1>2, <2>1, SetInduction
<1> QED
  BY <1>3

\* What is left after every name.
LEMMA CleanedIs ==
  ASSUME NEW names, NEW m \in Nat, Len(names) = m
  PROVE  \E g : /\ Cleaned(names) = g[m] /\ g[0] = <<>>
                /\ \A i \in 1..m : g[i] = CleanName(g[i - 1], names[i])
<1> DEFINE g == CHOOSE x : IsClean(names, m, x)
<1>1. IsClean(names, m, g)
  BY CleanExists, Zenon
<1>2. Cleaned(names) = g[m]
  BY Zenon DEF Cleaned, IsClean, CleanStep
<1> HIDE DEF g
<1>3. 0 \in 0..m
  OBVIOUS
<1>4. g[0] = <<>>
  BY <1>1, <1>3 DEF IsClean, CleanStep
<1>5. ASSUME NEW i \in 1..m PROVE g[i] = CleanName(g[i - 1], names[i])
  <2>1. i \in 0..m /\ i # 0
    OBVIOUS
  <2> QED
    BY <1>1, <2>1 DEF IsClean, CleanStep
<1> QED
  BY <1>2, <1>4, <1>5

\* One name: nothing happens, the last name is taken away, or a name is added.
LEMMA CleanNameIs ==
  ASSUME NEW d \in Paths, NEW n \in Int
  PROVE  /\ n = Dot => CleanName(d, n) = d
         /\ n = Up /\ d # <<>> /\ d[Len(d)] # Up => CleanName(d, n) = SubSeq(d, 1, Len(d) - 1)
         /\ n = Up /\ (d = <<>> \/ d[Len(d)] = Up) => CleanName(d, n) = Append(d, n)
         /\ n \notin {Dot, Up} => CleanName(d, n) = Append(d, n)
BY DEF CleanName, Up, Dot, Last, Front

LEMMA NoNames == ASSUME NEW d \in Seq(Int), Len(d) = 0 PROVE d = <<>>
OBVIOUS

LEMMA WithoutLast ==
  ASSUME NEW d \in Paths, Len(d) # 0
  PROVE  LET f == SubSeq(d, 1, Len(d) - 1)
         IN  f \in Paths /\ Len(f) = Len(d) - 1 /\ \A j \in 1..Len(f) : f[j] = d[j]
<1>1. Len(d) \in Nat
  BY DEF Paths
<1>2. PICK k : k = Len(d) - 1
  OBVIOUS
<1>3. k \in 0..Len(d)
  BY <1>1, <1>2
<1>4. d \in Seq(Int)
  BY DEF Paths
<1>5. SubSeq(d, 1, k) \in Seq(Int) /\ Len(SubSeq(d, 1, k)) = k /\ \A j \in 1..k : SubSeq(d, 1, k)[j] = d[j]
  BY <1>3, <1>4
<1> QED
  BY <1>2, <1>5 DEF Paths

\* The names go up k times and then only down.
UpsAt(names, k) == \A j \in 1..Len(names) : names[j] = Up <=> j <= k

LEMMA CleanStepKeeps ==
  ASSUME NEW d \in Paths, NEW n \in Int
  PROVE  /\ CleanName(d, n) \in Paths /\ Len(CleanName(d, n)) <= Len(d) + 1
         /\ Len(CleanName(d, n)) = Len(d) + 1 =>
              /\ CleanName(d, n) = Append(d, n) /\ n # Dot
              /\ n = Up => d = <<>> \/ d[Len(d)] = Up
<1>1. Len(d) \in Nat
  BY DEF Paths
<1>2. CASE n = Dot
  <2>1. CleanName(d, n) = d
    BY <1>2, CleanNameIs
  <2> QED
    BY <1>1, <2>1
<1>3. CASE n = Up /\ d # <<>> /\ d[Len(d)] # Up
  <2>1. CleanName(d, n) = SubSeq(d, 1, Len(d) - 1)
    BY <1>3, CleanNameIs
  <2>2. Len(d) # 0
    BY <1>3 DEF Paths
  <2>3. SubSeq(d, 1, Len(d) - 1) \in Paths /\ Len(SubSeq(d, 1, Len(d) - 1)) = Len(d) - 1
    BY <2>2, WithoutLast
  <2> QED
    BY <1>1, <2>1, <2>3
<1>4. CASE (n = Up /\ (d = <<>> \/ d[Len(d)] = Up)) \/ n \notin {Dot, Up}
  <2>1. CleanName(d, n) = Append(d, n)
    BY <1>4, CleanNameIs
  <2>2. Append(d, n) \in Paths /\ Len(Append(d, n)) = Len(d) + 1
    BY DEF Paths
  <2>3. n # Dot
    BY <1>4 DEF Up, Dot
  <2> QED
    BY <1>1, <1>4, <2>1, <2>2, <2>3
<1> QED
  BY <1>2, <1>3, <1>4

\* What grows by one at most is never ahead of its index, nor far behind its end.
LEMMA GrowsByOne ==
  ASSUME NEW m \in Nat, NEW l \in [0..m -> Nat], l[0] = 0, \A i \in 1..m : l[i] <= l[i - 1] + 1
  PROVE  (\A i \in 0..m : l[i] <= i) /\ (\A i \in 0..m : l[m] <= l[i] + (m - i))
<1> DEFINE T == {n \in Nat : n <= m => \A i \in 0..n : l[n] <= l[i] + (n - i)}
<1>1. 0 \in T
  OBVIOUS
<1>2. ASSUME NEW n \in T PROVE n + 1 \in T
  <2>1. SUFFICES ASSUME n + 1 <= m, NEW i \in 0..(n + 1) PROVE l[n + 1] <= l[i] + ((n + 1) - i)
    OBVIOUS
  <2>2. n \in Nat /\ n <= m /\ n + 1 \in 1..m /\ (n + 1) - 1 = n /\ n \in 0..m /\ i \in 0..m /\ n + 1 \in 0..m
    BY <2>1
  <2>3. l[n + 1] <= l[n] + 1 /\ l[n] \in Nat /\ l[n + 1] \in Nat /\ l[i] \in Nat
    BY <2>2
  <2>4. CASE i = n + 1
    BY <2>2, <2>3, <2>4
  <2>5. CASE i \in 0..n
    <3>1. l[n] <= l[i] + (n - i)
      BY <2>2, <2>5
    <3> QED
      BY <2>2, <2>3, <2>5, <3>1
  <2> QED
    BY <2>2, <2>4, <2>5
<1>3. T = Nat
  <2> HIDE DEF T
  <2>1. T \in SUBSET Nat
    BY DEF T
  <2> QED
    BY <1>1, <1>2, <2>1, SetInduction
<1>4. ASSUME NEW n \in 0..m PROVE \A i \in 0..n : l[n] <= l[i] + (n - i)
  <2>1. n \in Nat /\ n <= m
    OBVIOUS
  <2>2. n \in T
    <3> HIDE DEF T
    <3> QED
      BY <1>3, <2>1
  <2> QED
    BY <2>1, <2>2
<1>5. \A i \in 0..m : l[m] <= l[i] + (m - i)
  BY <1>4
<1>6. \A i \in 0..m : l[i] <= i
  BY <1>4
<1> QED
  BY <1>5, <1>6

\* The same of a sequence of names: what is left are names.
LEMMA CleanedPaths ==
  ASSUME NEW names \in Paths
  PROVE  \E g : /\ Cleaned(names) = g[Len(names)] /\ g[0] = <<>>
                /\ \A i \in 1..Len(names) : g[i] = CleanName(g[i - 1], names[i])
                /\ \A i \in 0..Len(names) : g[i] \in Paths /\ Len(g[i]) \in Nat
<1>1. PICK m : m = Len(names) /\ m \in Nat
  BY DEF Paths
<1>2. PICK g : /\ Cleaned(names) = g[m] /\ g[0] = <<>>
               /\ \A i \in 1..m : g[i] = CleanName(g[i - 1], names[i])
  BY <1>1, CleanedIs
<1>3. \A i \in 1..m : names[i] \in Int
  BY <1>1 DEF Paths
<1> DEFINE T == {i \in Nat : i <= m => g[i] \in Paths}
<1>4. 0 \in T
  <2>1. g[0] \in Paths
    BY <1>2 DEF Paths
  <2> QED
    BY <2>1
<1>5. ASSUME NEW i \in T PROVE i + 1 \in T
  <2>1. SUFFICES ASSUME i + 1 <= m PROVE g[i + 1] \in Paths
    OBVIOUS
  <2>2. i \in Nat /\ i <= m /\ i + 1 \in 1..m /\ (i + 1) - 1 = i
    BY <1>1, <2>1
  <2>3. g[i] \in Paths
    BY <2>2
  <2>4. g[i + 1] = CleanName(g[i], names[i + 1]) /\ names[i + 1] \in Int
    BY <1>2, <1>3, <2>2
  <2> QED
    BY <2>3, <2>4, CleanStepKeeps
<1>6. T = Nat
  <2> HIDE DEF T
  <2>1. T \in SUBSET Nat
    BY DEF T
  <2> QED
    BY <1>4, <1>5, <2>1, SetInduction
<1>7. \A i \in 0..m : g[i] \in Paths
  BY <1>1, <1>6
<1>8. \A i \in 0..m : Len(g[i]) \in Nat
  BY <1>7 DEF Paths
<1> QED
  BY <1>1, <1>2, <1>7, <1>8

\* A target that cleaning leaves alone goes up first, if at all: no name is taken away, as
\* each name adds one at most.
LEMMA CleanTarget ==
  ASSUME NEW t \in Paths, Cleaned(t) = t
  PROVE  \E k \in 0..Len(t) : UpsAt(t, k)
<1>1. PICK m : m = Len(t) /\ m \in Nat
  BY DEF Paths
<1>2. PICK g : /\ g[m] = t /\ g[0] = <<>>
               /\ \A i \in 1..m : g[i] = CleanName(g[i - 1], t[i])
               /\ \A i \in 0..m : g[i] \in Paths /\ Len(g[i]) \in Nat
  BY <1>1, CleanedPaths
<1>3. \A i \in 1..m : t[i] \in Int
  BY <1>1 DEF Paths
<1>4. \A i \in 1..m : Len(g[i]) <= Len(g[i - 1]) + 1
  <2> SUFFICES ASSUME NEW i \in 1..m PROVE Len(g[i]) <= Len(g[i - 1]) + 1
    OBVIOUS
  <2>1. i - 1 \in 0..m
    BY <1>1
  <2>2. g[i - 1] \in Paths /\ t[i] \in Int /\ g[i] = CleanName(g[i - 1], t[i])
    BY <1>2, <1>3, <2>1
  <2> QED
    BY <2>2, CleanStepKeeps
<1>5. PICK l : l = [i \in 0..m |-> Len(g[i])]
  OBVIOUS
<1>6. l \in [0..m -> Nat] /\ l[0] = 0 /\ l[m] = m /\ \A i \in 1..m : l[i] <= l[i - 1] + 1
  <2>1. 0 \in 0..m /\ m \in 0..m /\ \A i \in 1..m : i \in 0..m /\ i - 1 \in 0..m
    BY <1>1
  <2>2. Len(<<>>) = 0
    OBVIOUS
  <2> QED
    BY <1>1, <1>2, <1>4, <1>5, <2>1, <2>2
<1>7. \A i \in 0..m : l[i] <= i
  BY <1>1, <1>6, GrowsByOne
<1>8. \A i \in 0..m : m <= l[i] + (m - i)
  BY <1>1, <1>6, GrowsByOne
<1>9. \A i \in 0..m : Len(g[i]) = i
  BY <1>1, <1>5, <1>6, <1>7, <1>8
<1>10. ASSUME NEW i \in 1..m PROVE g[i] = Append(g[i - 1], t[i]) /\ (t[i] = Up => g[i - 1] = <<>> \/ g[i - 1][i - 1] = Up)
  <2>1. i - 1 \in 0..m /\ i \in 0..m
    BY <1>1
  <2>2. g[i - 1] \in Paths /\ t[i] \in Int /\ g[i] = CleanName(g[i - 1], t[i])
    BY <1>2, <1>3, <2>1
  <2>3. Len(g[i]) = Len(g[i - 1]) + 1 /\ Len(g[i - 1]) = i - 1
    BY <1>9, <2>1
  <2> QED
    BY <2>2, <2>3, CleanStepKeeps
<1>11. ASSUME NEW i \in 1..m, i # 1, t[i] = Up PROVE t[i - 1] = Up
  <2>1. i - 1 \in 1..m /\ i - 1 \in 0..m /\ (i - 1) - 1 \in 0..m
    BY <1>1, <1>11
  <2>2. Len(g[i - 1]) = i - 1 /\ Len(g[i - 1]) # 0
    BY <1>9, <2>1
  <2>3. g[i - 1] # <<>>
    BY <2>2
  <2>4. g[i - 1][i - 1] = Up
    BY <1>10, <1>11, <2>3
  <2>5. PICK d, n : d = g[(i - 1) - 1] /\ n = i - 1
    OBVIOUS
  <2>6. d \in Seq(Int) /\ Len(d) = n - 1 /\ n \in Nat /\ g[n] = Append(d, t[n]) /\ t[n] \in Int
    BY <1>2, <1>3, <1>9, <1>10, <2>1, <2>5 DEF Paths
  <2>7. Append(d, t[n])[n] = t[n]
    BY <2>6
  <2> QED
    BY <2>4, <2>5, <2>6, <2>7
<1> DEFINE T == {i \in Nat : i <= m => \E k \in 0..i : \A j \in 1..i : t[j] = Up <=> j <= k}
<1>12. 0 \in T
  <2>1. \A j \in 1..0 : t[j] = Up <=> j <= 0
    OBVIOUS
  <2> QED
    BY <2>1
<1>13. ASSUME NEW i \in T PROVE i + 1 \in T
  <2>1. SUFFICES ASSUME i + 1 <= m PROVE \E k \in 0..(i + 1) : \A j \in 1..(i + 1) : t[j] = Up <=> j <= k
    OBVIOUS
  <2>2. i \in Nat /\ i <= m /\ i + 1 \in 1..m /\ (i + 1) - 1 = i
    BY <1>1, <2>1
  <2>3. PICK k \in 0..i : \A j \in 1..i : t[j] = Up <=> j <= k
    BY <2>2
  <2>4. \A j \in 1..(i + 1) : j \in 1..i \/ j = i + 1
    BY <2>2
  <2>5. CASE t[i + 1] = Up
    <3>1. k = i
      <4>1. CASE i = 0
        BY <4>1
      <4>2. CASE i # 0
        <5>1. t[i] = Up /\ i \in 1..i
          BY <1>11, <2>2, <2>5, <4>2
        <5> QED
          BY <2>2, <2>3, <5>1
      <4> QED
        BY <4>1, <4>2
    <3>2. \A j \in 1..(i + 1) : t[j] = Up <=> j <= i + 1
      BY <2>2, <2>3, <2>4, <2>5, <3>1
    <3>3. PICK n \in 0..(i + 1) : n = i + 1
      BY <2>2
    <3>4. \A j \in 1..(i + 1) : t[j] = Up <=> j <= n
      BY <3>2, <3>3
    <3> QED
      BY <3>4
  <2>6. CASE t[i + 1] # Up
    <3>1. \A j \in 1..(i + 1) : t[j] = Up <=> j <= k
      BY <2>2, <2>3, <2>4, <2>6
    <3>2. k \in 0..(i + 1)
      BY <2>2
    <3> QED
      BY <3>1, <3>2
  <2> QED
    BY <2>5, <2>6
<1>14. T = Nat
  <2> HIDE DEF T
  <2>1. T \in SUBSET Nat
    BY DEF T
  <2> QED
    BY <1>12, <1>13, <2>1, SetInduction
<1>15. \E k \in 0..m : \A j \in 1..m : t[j] = Up <=> j <= k
  BY <1>1, <1>14
<1> QED
  BY <1>1, <1>15 DEF UpsAt

\* Where cleaning is after i names, when n names down are followed by more than n ups.
Escaping(d, n, i) ==
  /\ i <= n => Len(d) = i
  /\ n <= i /\ i <= 2 * n => Len(d) = 2 * n - i
  /\ i <= 2 * n => \A j \in 1..Len(d) : d[j] # Up
  /\ 2 * n < i => Len(d) # 0 /\ d[1] = Up

LEMMA EscapingGoesOn ==
  ASSUME NEW n \in Nat, NEW i \in Nat, NEW d \in Paths, NEW x \in Int, Escaping(d, n, i),
         i < n => x \in Nat, n <= i /\ i <= 2 * n => x = Up
  PROVE  Escaping(CleanName(d, x), n, i + 1)
<1>1. Len(d) \in Nat /\ d \in Seq(Int)
  BY DEF Paths
<1>2. PICK m : m = Len(d) /\ m \in Nat
  BY <1>1
<1>3. PICK new : new = CleanName(d, x)
  OBVIOUS
<1>a. Append(d, x) \in Seq(Int) /\ Len(Append(d, x)) = m + 1 /\ Append(d, x)[m + 1] = x
      /\ \A j \in 1..m : Append(d, x)[j] = d[j]
  BY <1>1, <1>2
<1>4. CASE i < n
  <2>1. x \notin {Dot, Up}
    BY <1>4 DEF Dot, Up
  <2>2. new = Append(d, x)
    BY <1>3, <2>1, CleanNameIs
  <2>3. m = i /\ \A j \in 1..m : d[j] # Up
    BY <1>2, <1>4 DEF Escaping
  <2>4. \A j \in 1..(m + 1) : new[j] # Up
    <3> SUFFICES ASSUME NEW j \in 1..(m + 1) PROVE new[j] # Up
      OBVIOUS
    <3>1. j \in 1..m \/ j = m + 1
      BY <1>2
    <3> QED
      BY <1>a, <2>1, <2>2, <2>3, <3>1
  <2>5. Len(new) = i + 1
    BY <1>a, <2>2, <2>3
  <2>6. i + 1 <= n /\ ~(2 * n < i + 1) /\ (n <= i + 1 => 2 * n - (i + 1) = i + 1)
    BY <1>4
  <2> QED
    BY <1>3, <2>3, <2>4, <2>5, <2>6 DEF Escaping
<1>5. CASE n <= i /\ i < 2 * n
  <2>1. m = 2 * n - i /\ m # 0 /\ \A j \in 1..m : d[j] # Up
    BY <1>2, <1>5 DEF Escaping
  <2>a. m \in 1..m /\ Len(d) # 0
    BY <1>2, <2>1
  <2>2. d # <<>> /\ d[m] # Up /\ x = Up
    <3>1. d # <<>>
      BY <2>a
    <3>2. d[m] # Up
      BY <2>1, <2>a
    <3>3. x = Up
      BY <1>5
    <3> QED
      BY <3>1, <3>2, <3>3
  <2>3. new = SubSeq(d, 1, Len(d) - 1)
    BY <1>2, <1>3, <2>2, CleanNameIs
  <2>b. Len(new) = Len(d) - 1 /\ \A j \in 1..Len(new) : new[j] = d[j]
    BY <2>3, <2>a, WithoutLast
  <2>4. Len(new) = m - 1 /\ \A j \in 1..(m - 1) : new[j] = d[j]
    BY <1>2, <2>b
  <2>5. \A j \in 1..(m - 1) : j \in 1..m
    BY <1>2
  <2>6. \A j \in 1..Len(new) : new[j] # Up
    BY <2>1, <2>4, <2>5
  <2>7. /\ m - 1 = 2 * n - (i + 1) /\ n <= i + 1 /\ i + 1 <= 2 * n /\ ~(2 * n < i + 1) /\ ~(i + 1 <= n)
    BY <1>5, <2>1
  <2> QED
    BY <1>3, <2>4, <2>6, <2>7 DEF Escaping
<1>6. CASE i = 2 * n
  <2>1. m = 0 /\ x = Up
    BY <1>2, <1>6 DEF Escaping
  <2>2. d = <<>>
    BY <1>1, <1>2, <2>1, NoNames
  <2>3. new = Append(d, x)
    BY <1>3, <2>1, <2>2, CleanNameIs
  <2>4. Len(new) = 1 /\ new[1] = Up
    BY <1>a, <2>1, <2>3
  <2>5. ~(i + 1 <= n) /\ ~(i + 1 <= 2 * n)
    BY <1>6
  <2> QED
    BY <1>3, <2>4, <2>5 DEF Escaping
<1>7. CASE 2 * n < i
  <2>1. m # 0 /\ d[1] = Up
    BY <1>2, <1>7 DEF Escaping
  <2>2. Len(new) # 0 /\ new[1] = Up
    <3>1. CASE x = Dot
      BY <1>2, <1>3, <2>1, <3>1, CleanNameIs
    <3>2. CASE x = Up /\ d # <<>> /\ d[Len(d)] # Up
      <4>1. new = SubSeq(d, 1, Len(d) - 1)
        BY <1>3, <3>2, CleanNameIs
      <4>2. m # 1
        BY <1>2, <2>1, <3>2
      <4>3. Len(new) = m - 1 /\ \A j \in 1..(m - 1) : new[j] = d[j]
        BY <1>2, <2>1, <4>1, WithoutLast
      <4>4. 1 \in 1..(m - 1) /\ m - 1 # 0
        BY <1>2, <2>1, <4>2
      <4> QED
        BY <2>1, <4>3, <4>4
    <3>3. CASE (x = Up /\ (d = <<>> \/ d[Len(d)] = Up)) \/ x \notin {Dot, Up}
      <4>1. new = Append(d, x)
        BY <1>3, <3>3, CleanNameIs
      <4>2. 1 \in 1..m
        BY <1>2, <2>1
      <4> QED
        BY <1>2, <1>a, <2>1, <4>1, <4>2
    <3> QED
      BY <3>1, <3>2, <3>3
  <2>3. ~(i + 1 <= n) /\ ~(i + 1 <= 2 * n)
    BY <1>7
  <2> QED
    BY <1>3, <2>2, <2>3 DEF Escaping
<1> QED
  BY <1>4, <1>5, <1>6, <1>7

\* A target that goes up more often than its link is deep leads outside, and is refused.
LEMMA TargetsStayInside ==
  ASSUME NEW par \in Paths, \A i \in 1..Len(par) : par[i] \in Nat,
         NEW t \in Paths, NEW k \in 0..Len(t), UpsAt(t, k), ValidPath(Cleaned(par \o t))
  PROVE  k <= Len(par)
<1>a. Len(par) \in Nat /\ Len(t) \in Nat
  BY DEF Paths
<1>1. PICK n, m : n = Len(par) /\ n \in Nat /\ m = Len(t) /\ m \in Nat
  BY <1>a
<1>2. PICK s : s = par \o t
  OBVIOUS
<1>3. /\ s \in Paths /\ Len(s) = n + m
      /\ \A i \in 1..n : s[i] = par[i]
      /\ \A i \in (n + 1)..(n + m) : s[i] = t[i - n]
  <2>1. par \in Seq(Int) /\ t \in Seq(Int)
    BY DEF Paths
  <2> QED
    BY <1>1, <1>2, <2>1 DEF Paths
<1>4. SUFFICES ASSUME k > n PROVE FALSE
  BY <1>1
<1>b. PICK g : /\ Cleaned(s) = g[Len(s)] /\ g[0] = <<>>
               /\ \A i \in 1..Len(s) : g[i] = CleanName(g[i - 1], s[i])
               /\ \A i \in 0..Len(s) : g[i] \in Paths /\ Len(g[i]) \in Nat
  BY <1>3, CleanedPaths, Zenon
<1>5. /\ Cleaned(s) = g[n + m] /\ g[0] = <<>>
      /\ \A i \in 1..(n + m) : g[i] = CleanName(g[i - 1], s[i])
      /\ \A i \in 0..(n + m) : g[i] \in Paths /\ Len(g[i]) \in Nat
  <2>1. Len(s) = n + m
    BY <1>3
  <2> QED
    BY <1>b, <2>1
<1> DEFINE T == {i \in Nat : i <= n + m => Escaping(g[i], n, i)}
<1>6. 0 \in T
  <2>1. Len(g[0]) = 0
    BY <1>5
  <2>2. Escaping(g[0], n, 0)
    BY <1>1, <2>1 DEF Escaping
  <2> QED
    BY <2>2
<1>7. ASSUME NEW i \in T PROVE i + 1 \in T
  <2>1. SUFFICES ASSUME i + 1 <= n + m PROVE Escaping(g[i + 1], n, i + 1)
    OBVIOUS
  <2>2. i \in Nat /\ i <= n + m /\ i + 1 \in 1..(n + m) /\ (i + 1) - 1 = i /\ i \in 0..(n + m)
    BY <1>1, <2>1
  <2>3. PICK x : x = s[i + 1]
    OBVIOUS
  <2>4. x \in Int
    BY <1>3, <2>2, <2>3 DEF Paths
  <2>5. g[i] \in Paths /\ g[i + 1] = CleanName(g[i], x) /\ Escaping(g[i], n, i)
    BY <1>5, <2>2, <2>3
  <2>6. i < n => x \in Nat
    <3>1. i < n => i + 1 \in 1..n
      BY <1>1, <2>2
    <3> QED
      BY <1>1, <1>3, <2>3, <3>1
  <2>7. n <= i /\ i <= 2 * n => x = Up
    <3> SUFFICES ASSUME n <= i, i <= 2 * n PROVE x = Up
      OBVIOUS
    <3>1. i + 1 \in (n + 1)..(n + m) /\ (i + 1) - n \in 1..m /\ (i + 1) - n <= k
      BY <1>1, <1>4, <2>2
    <3>2. x = t[(i + 1) - n]
      BY <1>3, <2>3, <3>1
    <3> QED
      BY <1>1, <3>1, <3>2 DEF UpsAt
  <2> QED
    BY <1>1, <2>2, <2>4, <2>5, <2>6, <2>7, EscapingGoesOn
<1>8. T = Nat
  <2> HIDE DEF T
  <2>1. T \in SUBSET Nat
    BY DEF T
  <2> QED
    BY <1>6, <1>7, <2>1, SetInduction
<1>9. n + m \in T /\ 2 * n < n + m
  <2> HIDE DEF T
  <2> QED
    BY <1>1, <1>4, <1>8
<1>10. PICK c : c = Cleaned(s) /\ c \in Seq(Int)
  <2>1. n + m \in 0..(n + m)
    BY <1>1
  <2> QED
    BY <1>5, <2>1 DEF Paths
<1>11. Len(c) # 0 /\ c[1] = Up
  BY <1>1, <1>5, <1>9, <1>10 DEF Escaping
<1>12. 1 \in DOMAIN c
  BY <1>10, <1>11
<1>13. c[1] \in Nat
  BY <1>2, <1>10, <1>12 DEF ValidPath
<1> QED
  BY <1>11, <1>13 DEF Up

-----------------------------------------------------------------------------
(* Walks.                                                                  *)

\* Nothing leads outside: the names to go rise no more than the walk is deep.
OnTrack(at, names) == at \in Paths /\ names \in Paths /\ \E k \in 0..Len(names) : UpsAt(names, k) /\ k <= Len(at)

LEMMA NothingToGo == ASSUME NEW at \in Paths PROVE OnTrack(at, <<>>)
<1>1. <<>> \in Paths /\ Len(<<>>) = 0 /\ Len(at) \in Nat
  BY DEF Paths
<1>2. 0 \in 0..Len(<<>>) /\ UpsAt(<<>>, 0) /\ 0 <= Len(at)
  BY <1>1 DEF UpsAt
<1> QED
  BY <1>1, <1>2 DEF OnTrack

LEMMA TailOfNames ==
  ASSUME NEW names \in Paths, names # <<>>, NEW k \in 0..Len(names), UpsAt(names, k)
  PROVE  /\ Head(names) \in Int /\ Tail(names) \in Paths /\ (Head(names) = Up <=> k # 0)
         /\ Len(Tail(names)) \in Nat
         /\ k # 0 => k - 1 \in 0..Len(Tail(names)) /\ UpsAt(Tail(names), k - 1)
         /\ k = 0 => k \in 0..Len(Tail(names)) /\ UpsAt(Tail(names), 0)
<1>1. names \in Seq(Int) /\ Len(names) \in Nat
  BY DEF Paths
<1>2. PICK m : m = Len(names) /\ m \in Nat /\ m # 0
  <2>1. Len(names) # 0
    BY <1>1, NoNames
  <2> QED
    BY <1>1, <2>1
<1>3. PICK rest : rest = Tail(names)
  OBVIOUS
<1>4. rest \in Seq(Int) /\ Len(rest) = m - 1 /\ \A j \in 1..(m - 1) : rest[j] = names[j + 1]
  BY <1>1, <1>2, <1>3
<1>5. 1 \in 1..m /\ Head(names) = names[1] /\ names[1] \in Int
  BY <1>1, <1>2
<1>6. \A j \in 1..m : names[j] = Up <=> j <= k
  BY <1>2 DEF UpsAt
<1>7. k \in 0..m
  BY <1>2
<1>8. Head(names) = Up <=> k # 0
  BY <1>2, <1>5, <1>6, <1>7
<1>9. \A j \in 1..(m - 1) : rest[j] = Up <=> j + 1 <= k
  <2> SUFFICES ASSUME NEW j \in 1..(m - 1) PROVE rest[j] = Up <=> j + 1 <= k
    OBVIOUS
  <2>1. j + 1 \in 1..m
    BY <1>2
  <2> QED
    BY <1>4, <1>6, <2>1
<1>10. k # 0 => k - 1 \in 0..(m - 1) /\ \A j \in 1..(m - 1) : rest[j] = Up <=> j <= k - 1
  BY <1>2, <1>7, <1>9
<1>11. k = 0 => k \in 0..(m - 1) /\ \A j \in 1..(m - 1) : rest[j] = Up <=> j <= 0
  BY <1>2, <1>7, <1>9
<1>12. m - 1 \in Nat
  BY <1>2
<1> QED
  BY <1>3, <1>4, <1>5, <1>8, <1>10, <1>11, <1>12 DEF UpsAt, Paths

LEMMA NamesAfterTarget ==
  ASSUME NEW t \in Paths, NEW rest \in Paths, NEW k \in 0..Len(t), UpsAt(t, k), UpsAt(rest, 0)
  PROVE  t \o rest \in Paths /\ k \in 0..Len(t \o rest) /\ UpsAt(t \o rest, k)
<1>1. t \in Seq(Int) /\ rest \in Seq(Int) /\ Len(t) \in Nat /\ Len(rest) \in Nat
  BY DEF Paths
<1>2. PICK m, n, s : m = Len(t) /\ n = Len(rest) /\ s = t \o rest
  OBVIOUS
<1>3. m \in Nat /\ n \in Nat /\ k \in 0..m
  BY <1>1, <1>2
<1>4. /\ s \in Seq(Int) /\ Len(s) = m + n
      /\ \A j \in 1..m : s[j] = t[j]
      /\ \A j \in (m + 1)..(m + n) : s[j] = rest[j - m]
  BY <1>1, <1>2
<1>5. ASSUME NEW j \in 1..(m + n) PROVE s[j] = Up <=> j <= k
  <2>1. CASE j \in 1..m
    BY <1>2, <1>4, <2>1 DEF UpsAt
  <2>2. CASE j \notin 1..m
    <3>1. j \in (m + 1)..(m + n) /\ j - m \in 1..n /\ ~(j - m <= 0) /\ ~(j <= k)
      BY <1>3, <2>2
    <3>2. rest[j - m] # Up
      BY <1>2, <3>1 DEF UpsAt
    <3> QED
      BY <1>4, <3>1, <3>2
  <2> QED
    BY <2>1, <2>2
<1>6. k \in 0..(m + n)
  BY <1>3
<1> QED
  BY <1>2, <1>4, <1>5, <1>6 DEF UpsAt, Paths

LEMMA ParentOfNext ==
  ASSUME NEW at \in Paths, NEW x \in Int
  PROVE  Append(at, x) \in Paths /\ Parent(Append(at, x)) = at /\ Len(Append(at, x)) = Len(at) + 1
         /\ \A i \in 1..Len(at) : Append(at, x)[i] = at[i]
<1>1. at \in Seq(Int) /\ Len(at) \in Nat
  BY DEF Paths
<1>2. PICK n, p : n = Len(at) /\ p = Append(at, x)
  OBVIOUS
<1>3. p \in Seq(Int) /\ Len(p) = n + 1 /\ \A i \in 1..n : p[i] = at[i]
  BY <1>1, <1>2
<1>4. n \in 0..Len(p) /\ (n + 1) - 1 = n /\ n \in Nat
  BY <1>1, <1>2, <1>3
<1>5. SubSeq(p, 1, n) \in Seq(Int) /\ Len(SubSeq(p, 1, n)) = n /\ \A i \in 1..n : SubSeq(p, 1, n)[i] = p[i]
  BY <1>3, <1>4
<1>6. SubSeq(p, 1, n) = at
  BY <1>1, <1>2, <1>3, <1>5
<1>7. Parent(p) = at
  BY <1>3, <1>4, <1>6 DEF Parent
<1> QED
  BY <1>2, <1>3, <1>7 DEF Paths

\* The target of a link in the workspace leads to a place below its root.
LEMMA TargetOnTrack ==
  ASSUME NEW E, Checked(E), NEW e \in E, KindOf(e) = "symlink", TargetValid(e.path, e.stored),
         NEW at \in Paths, NEW x \in Int, e.path = Append(at, x),
         NEW rest \in Paths, UpsAt(rest, 0)
  PROVE  ~e.stored.absolute /\ OnTrack(at, e.stored.names \o rest)
<1>1. PICK t : t = e.stored.names
  OBVIOUS
<1>2. t \in Paths
  BY <1>1 DEF Checked
<1>3. /\ ~e.stored.absolute /\ Cleaned(t) = t
      /\ ValidPath(Cleaned(Parent(e.path) \o t))
  BY <1>1 DEF TargetValid
<1>4. PICK k \in 0..Len(t) : UpsAt(t, k)
  BY <1>2, <1>3, CleanTarget
<1>5. Parent(e.path) = at /\ Len(e.path) = Len(at) + 1 /\ \A i \in 1..Len(at) : e.path[i] = at[i]
  BY ParentOfNext
<1>6. Len(at) \in Nat
  BY DEF Paths
<1>7. \A i \in 1..Len(at) : at[i] \in Nat
  <2>1. \A i \in 1..Len(e.path) : e.path[i] \in Nat
    BY DEF Checked
  <2>2. \A i \in 1..Len(at) : i \in 1..Len(e.path)
    BY <1>5, <1>6
  <2> QED
    BY <1>5, <2>1, <2>2
<1>8. k <= Len(at)
  BY <1>2, <1>3, <1>4, <1>5, <1>7, TargetsStayInside
<1>9. t \o rest \in Paths /\ k \in 0..Len(t \o rest) /\ UpsAt(t \o rest, k)
  BY <1>2, <1>4, NamesAfterTarget
<1> QED
  BY <1>1, <1>3, <1>8, <1>9 DEF OnTrack

\* A walk that is inside, and one step more.
Inside(w) == w = [at |-> w.at, names |-> w.names, outside |-> FALSE] /\ OnTrack(w.at, w.names)

LEMMA InsideIs == ASSUME NEW at, NEW names, OnTrack(at, names)
                  PROVE  Inside([at |-> at, names |-> names, outside |-> FALSE])
BY DEF Inside

LEMMA CreatedKinds ==
  ASSUME NEW e
  PROVE  /\ Created(e).kind = "symlink" => KindOf(e) = "symlink" /\ Created(e).target = e.stored
         /\ Created(e).kind \in {"directory", "symlink", "file"}
<1>1. CASE KindOf(e) = "directory"
  <2>1. Created(e) = [kind |-> "directory"]
    BY <1>1 DEF Created
  <2> QED
    BY <2>1
<1>2. CASE KindOf(e) = "symlink"
  <2>1. Created(e) = [kind |-> "symlink", target |-> e.stored]
    BY <1>2 DEF Created
  <2> QED
    BY <1>2, <2>1
<1>3. CASE KindOf(e) \notin {"directory", "symlink"}
  <2>1. PICK x : x = (KindOf(e) = "executable-file")
    OBVIOUS
  <2>2. Created(e) = [kind |-> "file", content |-> e.stored, executable |-> x]
    BY <1>3, <2>1 DEF Created
  <2>3. Created(e).kind = "file"
    BY <2>2
  <2> QED
    BY <2>3
<1> QED
  BY <1>1, <1>2, <1>3

LEMMA WalkStaysInside ==
  ASSUME NEW E, Checked(E), NEW S \in SUBSET E, NEW ws, IsWorkspaceOf(ws, S), NEW w, Inside(w)
  PROVE  Inside(WalkOn(ws, w))
<1>1. PICK at, names : at = w.at /\ names = w.names
  OBVIOUS
<1>2. /\ w = [at |-> at, names |-> names, outside |-> FALSE] /\ OnTrack(at, names)
      /\ at \in Paths /\ names \in Paths
  BY <1>1 DEF Inside, OnTrack
<1>3. PICK x, rest : x = Head(names) /\ rest = Tail(names)
  OBVIOUS
<1>4. PICK next : next = Append(at, x)
  OBVIOUS
<1>5. PICK new : new = WalkOn(ws, w)
  OBVIOUS
<1>6. w.at = at /\ w.names = names /\ w.outside = FALSE
  BY <1>2
<1>7. new = IF names = <<>> \/ w.outside THEN w
            ELSE IF x = Up
                 THEN IF at = <<>> THEN [w EXCEPT !.outside = TRUE] ELSE [w EXCEPT !.at = Parent(at), !.names = rest]
            ELSE IF next \notin DOMAIN ws THEN [w EXCEPT !.names = <<>>]
            ELSE CASE ws[next].kind = "symlink" ->
                        IF ws[next].target.absolute THEN [w EXCEPT !.outside = TRUE]
                        ELSE [w EXCEPT !.names = ws[next].target.names \o rest]
                   [] ws[next].kind = "directory" -> [w EXCEPT !.at = next, !.names = rest]
                   [] OTHER -> [w EXCEPT !.names = <<>>]
  BY <1>1, <1>3, <1>4, <1>5 DEF WalkOn
<1>8. [w EXCEPT !.names = <<>>] = [at |-> at, names |-> <<>>, outside |-> FALSE]
  <2>1. PICK y, v : y = <<>> /\ v = [w EXCEPT !.names = y]
    OBVIOUS
  <2>2. w = [at |-> at, names |-> names, outside |-> FALSE]
    BY <1>2
  <2>3. v = [[at |-> at, names |-> names, outside |-> FALSE] EXCEPT !.names = y]
    BY ONLY <2>1, <2>2
  <2>4. v = [at |-> at, names |-> y, outside |-> FALSE]
    BY ONLY <2>3
  <2> QED
    BY <2>1, <2>4
<1>9. Inside([w EXCEPT !.names = <<>>])
  BY <1>2, <1>8, NothingToGo, InsideIs
<1>10. CASE names = <<>>
  BY <1>5, <1>7, <1>10
<1>11. CASE names # <<>>
  <2>1. PICK k \in 0..Len(names) : UpsAt(names, k) /\ k <= Len(at)
    BY <1>2 DEF OnTrack
  <2>2. /\ x \in Int /\ rest \in Paths /\ (x = Up <=> k # 0) /\ Len(rest) \in Nat
        /\ k # 0 => k - 1 \in 0..Len(rest) /\ UpsAt(rest, k - 1)
        /\ k = 0 => k \in 0..Len(rest) /\ UpsAt(rest, 0)
    BY <1>2, <1>3, <1>11, <2>1, TailOfNames
  <2>3. Len(at) \in Nat /\ Len(names) \in Nat
    BY <1>2 DEF Paths
  <2>4. CASE x = Up
    <3>1. k \in Nat /\ k # 0 /\ Len(at) # 0
      BY <2>1, <2>2, <2>3, <2>4
    <3>2. at # <<>>
      BY <3>1
    <3>3. new = [w EXCEPT !.at = Parent(at), !.names = rest]
      BY <1>6, <1>7, <1>11, <2>4, <3>2
    <3>4. PICK up : up = Parent(at)
      OBVIOUS
    <3>5. up \in Paths /\ Len(up) = Len(at) - 1
      BY <1>2, <3>1, <3>4, WithoutLast DEF Parent
    <3>6. k - 1 <= Len(up)
      BY <2>1, <2>3, <3>1, <3>5
    <3>7. OnTrack(up, rest)
      BY <2>2, <3>1, <3>5, <3>6 DEF OnTrack
    <3>8. new = [at |-> up, names |-> rest, outside |-> FALSE]
      BY <1>2, <3>3, <3>4
    <3> QED
      BY <1>5, <3>7, <3>8, InsideIs
  <2>5. CASE x # Up /\ next \notin DOMAIN ws
    BY <1>5, <1>6, <1>7, <1>9, <1>11, <2>5
  <2>6. CASE x # Up /\ next \in DOMAIN ws
    <3>1. k = 0 /\ UpsAt(rest, 0) /\ 0 \in 0..Len(rest)
      BY <2>2, <2>6
    <3>2. PICK e \in S : e.path = next
      BY <2>6 DEF IsWorkspaceOf
    <3>3. ws[next] = Created(e) /\ (KindOf(e) = "symlink" => TargetValid(e.path, e.stored)) /\ e \in E
      BY <3>2 DEF IsWorkspaceOf
    <3>4. CASE ws[next].kind = "symlink"
      <4>1. KindOf(e) = "symlink" /\ ws[next].target = e.stored
        BY <3>3, <3>4, CreatedKinds
      <4>2. ~e.stored.absolute /\ OnTrack(at, e.stored.names \o rest)
        BY <1>2, <1>4, <2>2, <3>1, <3>2, <3>3, <4>1, TargetOnTrack
      <4>3. PICK more : more = e.stored.names \o rest
        OBVIOUS
      <4>4. new = [w EXCEPT !.names = more]
        BY <1>6, <1>7, <1>11, <2>6, <3>4, <4>1, <4>2, <4>3
      <4>5. new = [at |-> at, names |-> more, outside |-> FALSE]
        BY <1>2, <4>4
      <4> QED
        BY <1>5, <4>2, <4>3, <4>5, InsideIs
    <3>5. CASE ws[next].kind = "directory"
      <4>1. new = [w EXCEPT !.at = next, !.names = rest]
        BY <1>6, <1>7, <1>11, <2>6, <3>5
      <4>2. new = [at |-> next, names |-> rest, outside |-> FALSE]
        BY <1>2, <4>1
      <4>3. next \in Paths
        BY <1>2, <1>4, <2>2, ParentOfNext
      <4>4. Len(next) \in Nat
        BY <4>3 DEF Paths
      <4>5. 0 <= Len(next)
        BY <4>4
      <4>6. OnTrack(next, rest)
        BY <2>2, <3>1, <4>3, <4>5 DEF OnTrack
      <4> QED
        BY <1>5, <4>2, <4>6, InsideIs
    <3>6. CASE ws[next].kind \notin {"symlink", "directory"}
      <4>1. new = [w EXCEPT !.names = <<>>]
        BY <1>6, <1>7, <1>11, <2>6, <3>6
      <4> QED
        BY <1>5, <1>9, <4>1
    <3> QED
      BY <3>4, <3>5, <3>6
  <2> QED
    BY <2>4, <2>5, <2>6
<1> QED
  BY <1>10, <1>11

\* The recursion of StaysInside.
WalkStep(ws, names, g, i) ==
  IF i = 0 THEN [at |-> <<>>, names |-> names, outside |-> FALSE] ELSE WalkOn(ws, g[i - 1])
IsWalk(ws, names, m, g) == g = [i \in 0..m |-> WalkStep(ws, names, g, i)]

LEMMA WalkExists == ASSUME NEW ws, NEW names, NEW m \in Nat PROVE \E g : IsWalk(ws, names, m, g)
<1> DEFINE T == {n \in Nat : \E g : IsWalk(ws, names, n, g)}
<1>1. 0 \in T
  <2> DEFINE g == [i \in 0..0 |-> [at |-> <<>>, names |-> names, outside |-> FALSE]]
  <2>1. IsWalk(ws, names, 0, g)
    BY DEF IsWalk, WalkStep
  <2> HIDE DEF g
  <2> QED
    BY <2>1
<1>2. ASSUME NEW n \in T PROVE n + 1 \in T
  <2>1. PICK g : IsWalk(ws, names, n, g)
    OBVIOUS
  <2> DEFINE h == [i \in 0..(n + 1) |-> WalkStep(ws, names, g, i)]
  <2>2. ASSUME NEW i \in 0..(n + 1) PROVE WalkStep(ws, names, g, i) = WalkStep(ws, names, h, i)
    <3>1. CASE i = 0
      BY <3>1 DEF WalkStep
    <3>2. CASE i # 0
      <4>1. i - 1 \in 0..n /\ i - 1 \in 0..(n + 1)
        BY <3>2
      <4>2. g[i - 1] = WalkStep(ws, names, g, i - 1)
        BY <2>1, <4>1 DEF IsWalk
      <4>3. h[i - 1] = WalkStep(ws, names, g, i - 1)
        BY <4>1
      <4> HIDE DEF h
      <4> QED
        BY <3>2, <4>2, <4>3 DEF WalkStep
    <3> QED
      BY <3>1, <3>2
  <2>3. IsWalk(ws, names, n + 1, h)
    BY <2>2 DEF IsWalk
  <2> HIDE DEF h
  <2> QED
    BY <2>3
<1>3. T = Nat
  <2> HIDE DEF T
  <2>1. T \in SUBSET Nat
    BY DEF T
  <2> QED
    BY <1>1, <1>2, <2>1, SetInduction
<1> QED
  BY <1>3

\* No walk of any length leaves the workspace of a checked tree.
LEMMA PathsStayInside ==
  ASSUME NEW E, Checked(E), NEW S \in SUBSET E, NEW ws, IsWorkspaceOf(ws, S), NEW p \in DOMAIN ws, NEW m \in Nat
  PROVE  StaysInside(ws, p, m)
<1> DEFINE g == CHOOSE x : IsWalk(ws, p, m, x)
<1>1. IsWalk(ws, p, m, g)
  BY WalkExists, Zenon
<1>2. StaysInside(ws, p, m) <=> ~g[m].outside
  BY Zenon DEF StaysInside, IsWalk, WalkStep
<1> HIDE DEF g
<1>3. Inside([at |-> <<>>, names |-> p, outside |-> FALSE])
  <2>1. PICK e \in S : e.path = p
    BY DEF IsWorkspaceOf
  <2>2. p \in Paths /\ \A i \in 1..Len(p) : p[i] \in Nat
    BY <2>1 DEF Checked
  <2>3. Len(p) \in Nat /\ <<>> \in Paths /\ Len(<<>>) = 0
    BY <2>2 DEF Paths
  <2>4. UpsAt(p, 0)
    <3> SUFFICES ASSUME NEW j \in 1..Len(p) PROVE p[j] # Up /\ ~(j <= 0)
      BY DEF UpsAt
    <3>1. p[j] \in Nat
      BY <2>2
    <3> QED
      BY <2>3, <3>1 DEF Up
  <2>5. 0 \in 0..Len(p) /\ 0 <= Len(<<>>)
    BY <2>3
  <2>6. OnTrack(<<>>, p)
    BY <2>2, <2>3, <2>4, <2>5 DEF OnTrack
  <2> QED
    BY <2>6, InsideIs, Zenon
<1> DEFINE T == {i \in Nat : i <= m => Inside(g[i])}
<1>4. 0 \in T
  <2>1. 0 \in 0..m
    OBVIOUS
  <2>2. g[0] = [at |-> <<>>, names |-> p, outside |-> FALSE]
    BY <1>1, <2>1 DEF IsWalk, WalkStep
  <2> QED
    BY <1>3, <2>2
<1>5. ASSUME NEW i \in T PROVE i + 1 \in T
  <2>1. SUFFICES ASSUME i + 1 <= m PROVE Inside(g[i + 1])
    OBVIOUS
  <2>2. i \in Nat /\ i <= m /\ i + 1 \in 0..m /\ i + 1 # 0 /\ (i + 1) - 1 = i
    BY <2>1
  <2>3. Inside(g[i])
    BY <2>2
  <2>4. g[i + 1] = WalkOn(ws, g[i])
    BY <1>1, <2>2 DEF IsWalk, WalkStep
  <2> QED
    BY <2>3, <2>4, WalkStaysInside
<1>6. T = Nat
  <2> HIDE DEF T
  <2>1. T \in SUBSET Nat
    BY DEF T
  <2> QED
    BY <1>4, <1>5, <2>1, SetInduction
<1>7. Inside(g[m])
  <2>1. m \in T /\ m <= m
    <3> HIDE DEF T
    <3> QED
      BY <1>6
  <2> QED
    BY <2>1
<1>8. g[m].outside = FALSE
  <2>1. PICK w, a, b : w = g[m] /\ a = w.at /\ b = w.names
    OBVIOUS
  <2>2. w = [at |-> a, names |-> b, outside |-> FALSE]
    BY <1>7, <2>1 DEF Inside
  <2> QED
    BY <2>1, <2>2
<1> QED
  BY <1>2, <1>8

-----------------------------------------------------------------------------
(* The workspace is the tree.                                              *)

LEMMA ListingIsChecked ==
  ASSUME NEW t, IsListing(t), ListingValid(t), PreflightValid(Range(t))
  PROVE  Checked(Range(t))
<1>1. PICK E : E = Range(t)
  OBVIOUS
<1>2. /\ \A e \in E : e.path \in Paths /\ (KindOf(e) = "symlink" => e.stored.names \in Paths)
      /\ \A e \in E : \E i \in DOMAIN t : e = t[i]
  BY <1>1 DEF IsListing, Paths, Range
<1>3. \A e \in E : ValidPath(e.path) /\ KindOf(e) # Unsupported
  BY <1>2 DEF ListingValid
<1>4. MaxPathDepth \in Nat
  BY MaterializeAssumption
<1>5. ASSUME NEW e \in E
      PROVE  Len(e.path) \in 1..MaxPathDepth /\ \A i \in 1..Len(e.path) : e.path[i] \in Nat
  <2>1. PICK p : p = e.path
    OBVIOUS
  <2>2. p \in Seq(Int) /\ p # <<>> /\ Len(p) <= MaxPathDepth /\ \A i \in DOMAIN p : p[i] \in Nat
    BY <1>2, <1>3, <2>1 DEF Paths, ValidPath
  <2>3. Len(p) \in Nat /\ Len(p) # 0 /\ DOMAIN p = 1..Len(p)
    BY <2>2, NoNames
  <2>4. Len(p) \in 1..MaxPathDepth
    BY <1>4, <2>2, <2>3
  <2> QED
    BY <2>1, <2>2, <2>3, <2>4
<1>6. \A e \in E : KindOf(e) \in {"directory", "regular-file", "executable-file", "symlink", "gitlink"}
  <2> SUFFICES ASSUME NEW e \in E
               PROVE  KindOf(e) \in {"directory", "regular-file", "executable-file", "symlink", "gitlink"}
    OBVIOUS
  <2>1. KindOf(e) # Unsupported
    BY <1>3
  <2> QED
    BY <2>1 DEF KindOf, Unsupported
<1>7. ASSUME NEW e \in E, NEW f \in E, e.path = f.path PROVE e = f
  <2>1. PICK i \in DOMAIN t, j \in DOMAIN t : e = t[i] /\ f = t[j]
    BY <1>2
  <2>2. i # j => t[i].path # t[j].path
    BY DEF ListingValid
  <2> QED
    BY <1>7, <2>1, <2>2
<1>8. ASSUME NEW e \in E, Len(e.path) > 1
      PROVE  \E d \in E : d.path = Parent(e.path) /\ KindOf(d) = "directory"
  <2>1. Len(e.path) \in 1..MaxPathDepth
    BY <1>5
  <2>2. PICK n : n = Len(e.path)
    OBVIOUS
  <2>3. n - 1 \in 1..(n - 1)
    <3>1. n \in 1..MaxPathDepth /\ n > 1
      BY <1>8, <2>1, <2>2
    <3> QED
      BY ONLY <1>4, <3>1
  <2>4. Parent(e.path) \in Ancestors(e.path)
    BY <2>2, <2>3 DEF Parent, Ancestors
  <2>5. ParentsListed(E)
    BY <1>1 DEF PreflightValid
  <2> QED
    BY <2>4, <2>5 DEF ParentsListed
<1> QED
  BY <1>1, <1>2, <1>5, <1>6, <1>7, <1>8 DEF Checked

\* What the planner asks of a snapshot.
LEMMA SnapshotIsValid ==
  ASSUME NEW m, EntriesOfListing(m.entries), NEW kind, NEW commit
  PROVE  SnapshotValid(SourceSnapshot(m, kind, commit), kind)
<1>1. PICK a, b, c, d, e, l :
        /\ a = TreeDigest(m.entries) /\ b = ManifestDigest(m.entries)
        /\ c = Cardinality(OfKind(m.entries, FileKinds)) /\ d = Cardinality({x \in m.entries : IsPointer(x)})
        /\ e = Cardinality(OfKind(m.entries, {"gitlink"})) /\ l = Limitations(m.entries)
  OBVIOUS
<1>2. PICK s : s = SourceSnapshot(m, kind, commit)
  OBVIOUS
<1>3. s = [kind |-> kind, commit |-> commit, tree |-> a, manifest |-> b, files |-> c, lfs |-> d, gitlinks |-> e,
           skipped |-> e, limitations |-> l]
  BY <1>1, <1>2, Zenon DEF SourceSnapshot
<1>4. s.kind = kind /\ s.files = c /\ s.lfs = d /\ s.gitlinks = e /\ s.skipped = e /\ s.limitations = l
  BY <1>3
<1>5. Cardinality(Range(l)) = Len(l)
  BY <1>1, LimitationsAreReport, ReportIsCounted
<1>6. PICK F, P, G : /\ F = OfKind(m.entries, FileKinds) /\ P = {x \in m.entries : IsPointer(x)}
                     /\ G = OfKind(m.entries, {"gitlink"})
  OBVIOUS
<1>7. P \subseteq F
  BY <1>6 DEF OfKind, IsPointer
<1>8. IsFiniteSet(F) /\ IsFiniteSet(G)
  <2>1. IsFiniteSet(m.entries)
    BY DEF EntriesOfListing
  <2>2. F \subseteq m.entries /\ G \subseteq m.entries
    BY <1>6 DEF OfKind
  <2> QED
    BY <2>1, <2>2, FS_Subset
<1>9. d <= c
  BY <1>1, <1>6, <1>7, <1>8, FS_Subset
<1>10. e <= e
  <2>1. e \in Nat
    BY <1>1, <1>6, <1>8, FS_CardinalityType
  <2> QED
    BY <2>1
<1> QED
  BY <1>2, <1>4, <1>5, <1>9, <1>10 DEF SnapshotValid

LEMMA GitlinksAreCommits ==
  ASSUME NEW e, KindOf(e) # Unsupported
  PROVE  KindOf(e) = "gitlink" <=> e.type = "commit"
<1>1. PICK m, y : m = e.mode /\ y = e.type
  OBVIOUS
<1> QED
  BY <1>1 DEF KindOf, Unsupported

\* What is left of a tree after its materialization.
LEMMA MaterializedIs ==
  ASSUME NEW t, IsListing(t), NEW m, m = Materialize(t)
  PROVE  /\ m.error \in {"none", "listing", "preflight", "blob", "target"}
         /\ m.error = "none" => /\ ListingValid(t) /\ PreflightValid(Range(t)) /\ m.entries = Range(t)
                                /\ Checked(Range(t))
                                /\ IsWorkspaceOf(m.ws, Done(Range(t), MaxPathDepth + 2))
<1>1. PICK E, c : E = Range(t) /\ c = Copied(E)
  OBVIOUS
<1>2. m = IF ~ListingValid(t) THEN Failed("listing")
          ELSE IF ~PreflightValid(E) THEN Failed("preflight")
          ELSE IF c.error # "none" THEN Failed(c.error)
          ELSE [error |-> "none", ws |-> c.ws, entries |-> E]
  BY <1>1, Zenon DEF Materialize
<1>3. \A x : Failed(x).error = x
  BY DEF Failed
<1>4. CASE ~ListingValid(t)
  BY <1>2, <1>3, <1>4
<1>5. CASE ListingValid(t) /\ ~PreflightValid(E)
  BY <1>2, <1>3, <1>5
<1>6. CASE ListingValid(t) /\ PreflightValid(E)
  <2>1. Checked(E)
    BY <1>1, <1>6, ListingIsChecked
  <2>2. Progress(E, MaxPathDepth + 2, c)
    BY <1>1, <2>1, CopyEnds
  <2>3. /\ c.error \in {"none", "blob", "target"}
        /\ c.error = "none" => IsWorkspaceOf(c.ws, Done(E, MaxPathDepth + 2))
    BY <2>2 DEF Progress
  <2>4. CASE c.error # "none"
    <3>1. m.error = c.error
      BY <1>2, <1>3, <1>6, <2>4
    <3> QED
      BY <2>3, <2>4, <3>1
  <2>5. CASE c.error = "none"
    <3>1. PICK ws : ws = c.ws
      OBVIOUS
    <3>2. m = [error |-> "none", ws |-> ws, entries |-> E]
      BY <1>2, <1>6, <2>5, <3>1
    <3>3. m.error = "none" /\ m.ws = ws /\ m.entries = E
      BY <3>2
    <3> QED
      BY <1>1, <1>6, <2>1, <2>3, <2>5, <3>1, <3>3
  <2> QED
    BY <2>4, <2>5
<1> QED
  BY <1>4, <1>5, <1>6

\* All that was created: every entry but the gitlinks.
LEMMA AllCreated ==
  ASSUME NEW E, Checked(E), \A e \in E : KindOf(e) # Unsupported
  PROVE  Done(E, MaxPathDepth + 2) = {e \in E : e.type # "commit"}
<1>1. MaxPathDepth \in Nat
  BY MaterializeAssumption
<1>2. \A e \in E : Batch(e) \in 1..(MaxPathDepth + 2)
  BY BatchesAre
<1>3. \A n \in 1..(MaxPathDepth + 2) : n <= MaxPathDepth + 2
  BY <1>1
<1>4. \A e \in E : IsCreated(e) <=> e.type # "commit"
  BY GitlinksAreCommits DEF IsCreated
<1> QED
  BY <1>2, <1>3, <1>4 DEF Done

\* WorkspaceIsTheTree (Materializer.Materialize, materializeInventory, validateSymlinkTarget,
\* sourceSnapshotFromMaterialization): what is materialized of a tree is the tree without its
\* gitlinks, for trees of any size and links of any depth; no walk along its links, however
\* long, leaves it, and the planner accepts its snapshot.
THEOREM WorkspaceIsTheTreeTheorem == Spec => []WorkspaceIsTheTree
<1>1. RevisionsInv => WorkspaceIsTheTree
  <2> DEFINE Right(tree, m) ==
        /\ m.error # "destination"
        /\ m.error = "none" =>
             /\ DOMAIN m.ws = {e.path : e \in {x \in Range(tree) : x.type # "commit"}}
             /\ \A p \in DOMAIN m.ws : StaysInside(m.ws, p, WalkSteps)
             /\ SnapshotValid(SourceSnapshot(m, "base", "b"), "base")
  <2>1. ASSUME NEW tree, KnownTree(tree) PROVE Right(tree, Materialized[tree])
    <3>1. PICK m : m = Materialized[tree]
      OBVIOUS
    <3>2. m = Materialize(tree)
      BY <2>1, <3>1 DEF Materialized, KnownTree
    <3>3. IsListing(tree) /\ WalkSteps \in Nat
      BY <2>1, TreesAssumption DEF KnownTree
    <3>4. m.error # "destination"
      <4>1. m.error \in {"none", "listing", "preflight", "blob", "target"}
        BY <3>2, <3>3, MaterializedIs
      <4> QED
        BY <4>1
    <3>5. ASSUME m.error = "none"
          PROVE  /\ DOMAIN m.ws = {e.path : e \in {x \in Range(tree) : x.type # "commit"}}
                 /\ \A p \in DOMAIN m.ws : StaysInside(m.ws, p, WalkSteps)
                 /\ SnapshotValid(SourceSnapshot(m, "base", "b"), "base")
      <4>1. PICK E, ws, S : E = Range(tree) /\ ws = m.ws /\ S = Done(E, MaxPathDepth + 2)
        OBVIOUS
      <4>2. ListingValid(tree) /\ m.entries = E /\ Checked(E) /\ IsWorkspaceOf(ws, S)
        BY <3>2, <3>3, <3>5, <4>1, MaterializedIs
      <4>3. \A e \in E : KindOf(e) # Unsupported
        <5>1. \A e \in E : \E i \in DOMAIN tree : e = tree[i]
          BY <4>1 DEF Range
        <5> QED
          BY <4>2, <5>1 DEF ListingValid
      <4>4. S = {x \in E : x.type # "commit"}
        BY <4>1, <4>2, <4>3, AllCreated
      <4>5. DOMAIN ws = {e.path : e \in {x \in E : x.type # "commit"}}
        BY <4>2, <4>4 DEF IsWorkspaceOf
      <4>6. S \in SUBSET E
        BY <4>4
      <4>7. \A p \in DOMAIN ws : StaysInside(ws, p, WalkSteps)
        BY <3>3, <4>2, <4>6, PathsStayInside
      <4>8. EntriesOfListing(m.entries)
        BY <3>3, <4>1, <4>2, ListingEntries
      <4>9. SnapshotValid(SourceSnapshot(m, "base", "b"), "base")
        BY <4>8, SnapshotIsValid
      <4> QED
        BY <4>1, <4>5, <4>7, <4>9
    <3> QED
      BY <3>1, <3>4, <3>5
  <2>2. ASSUME RevisionsInv PROVE KnownTree(base.tree) /\ KnownTree(head.tree)
    BY <2>2 DEF RevisionsInv
  <2>3. ASSUME RevisionsInv PROVE \A tree \in {base.tree, head.tree} : Right(tree, Materialized[tree])
    <3> HIDE DEF Right
    <3> QED
      BY <2>1, <2>2, <2>3
  <2> QED
    BY <2>3, Zenon DEF WorkspaceIsTheTree
<1> QED
  BY <1>1, Revisions, PTL

=============================================================================
