---------------------------- MODULE ReviewProofs ----------------------------
(***************************************************************************)
(* The safety of Review, for any scripts of observed events, any number of *)
(* scenarios, repetitions and limits, and whatever waiver files are        *)
(* written, granted, replaced or proposed.                                 *)
(*                                                                         *)
(* A review is one step of the model and a long chain of functions of the  *)
(* code: normalization, comparison, policy, waivers, report.  Four         *)
(* invariants carry what the state must promise to it.  ReviewIsCurrent:   *)
(* what is shown was computed from the bundle, the commits and the hour    *)
(* there are.  WaiverInv: in a file the parser accepts, a waiver whose     *)
(* rule is that of its finding was written for it, and granted records so. *)
(* BundleInv: a bundle has the attempts of its plan.  RecordedInv: what it *)
(* has recorded of them are scripts of the plan.                           *)
(*                                                                         *)
(* The rest is about the functions.  Most lemmas come in two parts,        *)
(* because the terms are large: what the fields of a result are (the       *)
(* ...Fields lemmas), and what follows from them with the operators left   *)
(* unexpanded.                                                             *)
(***************************************************************************)
EXTENDS Review, FiniteSetTheorems, WellFoundedInduction, TLAPS

-----------------------------------------------------------------------------
(* What is inspected is what there is.                                     *)

\* The review was made of the bundle, the commits and the hour there are now.
Chain ==
  /\ review.trace = Normalize(bundle, plan.ignore)
  /\ review.delta = CompareTraces(review.trace)
  /\ review.evaluation = Evaluate(review.delta)
  /\ review.application = Apply(review.evaluation, head.config, base.waivers, head.waivers, now)
  /\ review.refused <=> ~(/\ BoundTo(bundle, base.commit, head.commit)
                          /\ ConfigLoads(base, head) /\ bundle.rebuilds
                          /\ ~review.application.refused
                          /\ BindingOk(review.delta, review.application) /\ RefsOk(review.trace, review.delta))
ReviewIsCurrent == stage = "reviewed" => Chain

\* Whatever a review depends on makes it void when it changes.
LEMMA CurrentInit == Init => ReviewIsCurrent
BY DEF Init, ReviewIsCurrent

LEMMA CurrentNext == ReviewIsCurrent /\ [Next]_vars => ReviewIsCurrent'
<1> SUFFICES ASSUME ReviewIsCurrent, [Next]_vars PROVE ReviewIsCurrent'
  OBVIOUS
<1>1. CASE RunAttempt
  BY <1>1 DEF RunAttempt, ReviewIsCurrent
<1>2. CASE Inspect
  <2>1. PICK trace, delta, evaluation, application :
          /\ trace = Normalize(bundle, plan.ignore)
          /\ delta = CompareTraces(trace)
          /\ evaluation = Evaluate(delta)
          /\ application = Apply(evaluation, head.config, base.waivers, head.waivers, now)
          /\ review' = [refused |-> ~(/\ BoundTo(bundle, base.commit, head.commit)
                                      /\ ConfigLoads(base, head) /\ bundle.rebuilds
                                      /\ ~application.refused /\ BindingOk(delta, application) /\ RefsOk(trace, delta)),
                        trace |-> trace, delta |-> delta, evaluation |-> evaluation,
                        application |-> application]
    BY <1>2, Zenon DEF Inspect
  <2>2. /\ review'.trace = trace /\ review'.delta = delta /\ review'.evaluation = evaluation
        /\ review'.application = application
        /\ review'.refused <=> ~(/\ BoundTo(bundle, base.commit, head.commit)
                                 /\ ConfigLoads(base, head) /\ bundle.rebuilds
                                 /\ ~application.refused /\ BindingOk(delta, application) /\ RefsOk(trace, delta))
    BY <2>1
  <2>3. UNCHANGED <<plan, base, head, bundle, now>>
    BY <1>2 DEF Inspect
  <2> QED
    BY <2>1, <2>2, <2>3, Zenon DEF ReviewIsCurrent, Chain
<1>3. CASE UNCHANGED vars
  BY <1>3, Zenon DEF vars, ReviewIsCurrent, Chain
<1>4. CASE Commit \/ CommitInterrupted \/ WriteWaiver \/ WriteBadWaivers \/ ReplaceFile \/ EditConfig
           \/ MergeHead \/ Tick \/ RunAgain
  <2>1. stage' = "bundled"
    BY <1>4, Zenon DEF Commit, CommitInterrupted, WriteWaiver, WriteBadWaivers, ReplaceFile, EditConfig,
       MergeHead, Tick, RunAgain
  <2> QED
    BY <2>1 DEF ReviewIsCurrent
<1> QED
  BY <1>1, <1>2, <1>3, <1>4, Zenon DEF Next

LEMMA Current == Spec => []ReviewIsCurrent
BY CurrentInit, CurrentNext, PTL DEF Spec

-----------------------------------------------------------------------------
(* The head's waivers.                                                     *)

\* What an application consists of.
IsApplication(app, ev, config, b, h, at) ==
  /\ app.governance = ConfigGovernance(config) \cup WaiverGovernance(b, h, app.statuses)
  /\ app.overall = Overall({a.effective : a \in app.builtin
         \cup {Applied("governance", g.finding, g.finding.disposition) : g \in app.governance}})
  /\ app.statuses = [i \in DOMAIN BaseWaivers(b, h) |->
         [id |-> BaseWaivers(b, h)[i].id,
          status |-> WaiverStatus(BaseWaivers(b, h)[i], ev.findings, at)]]
  /\ app.builtin = {Applied("builtin", f,
                      IF \E i \in DOMAIN BaseWaivers(b, h) :
                           /\ app.statuses[i].status = "applied"
                           /\ BaseWaivers(b, h)[i].finding = FindingID(f)
                      THEN "waived" ELSE f.disposition) : f \in ev.findings}
  /\ app.refused <=> ev.refused \/ ~Readable(b) \/ ~Readable(h) \/ Cardinality(app.governance) > MaxGovernance

LEMMA ApplyFields ==
  ASSUME NEW ev, NEW config, NEW b, NEW h, NEW at
  PROVE  IsApplication(Apply(ev, config, b, h, at), ev, config, b, h, at)
BY DEF Apply, IsApplication

\* Overall looks for the worst.
LEMMA OverallRank ==
  ASSUME NEW D, NEW E, D \subseteq E \/ "failed" \in E
  PROVE  DispositionRank(Overall(E)) >= DispositionRank(Overall(D))
BY DEF DispositionRank, Overall

\* Compared with itself a file is a change only where it also fails as the base's.
LEMMA SameFileGovernance ==
  ASSUME NEW b, NEW h, NEW statuses
  PROVE  \/ WaiverGovernance(b, b, statuses) \subseteq WaiverGovernance(b, h, statuses)
         \/ Governance(0, "GR-WAIVER-001", <<"base-state", BaseState(b)>>, "failed")
              \in WaiverGovernance(b, h, statuses)
<1>1. CASE b.entry \in {"absent", "file"}
  <2>1. HeadState(b, b) \in {"absent-on-both", "unchanged"}
    BY <1>1 DEF HeadState, BaseRaw
  <2>2. {HeadState(b, b)} \cap {"added", "removed", "modified-invalid", "unsupported"} = {}
        /\ HeadState(b, b) # "modified-valid"
    BY <2>1
  <2>3. WaiverGovernance(b, b, statuses) =
          {Governance(0, "GR-WAIVER-001", <<"base-state", s>>, "failed")
             : s \in {BaseState(b)} \cap {"invalid", "unsupported"}} \cup StatusGovernance(statuses)
    BY <2>2 DEF WaiverGovernance
  <2> QED
    BY <2>3, Zenon DEF WaiverGovernance
<1>2. CASE b.entry \notin {"absent", "file"}
  <2>1. BaseState(b) \in {"invalid", "unsupported"}
    BY <1>2 DEF BaseState
  <2>2. BaseState(b) \in {BaseState(b)} \cap {"invalid", "unsupported"}
    BY <2>1, Zenon
  <2> QED
    BY <2>2, Zenon DEF WaiverGovernance
<1> QED
  BY <1>1, <1>2, Zenon

\* Two applications of one base agree on the rules' findings, and the one that takes the
\* head's file for the base's has no worse verdict.
LEMMA HeadFileDecidesNothing ==
  ASSUME NEW ev, NEW config, NEW b, NEW h, NEW at
  PROVE  LET with == Apply(ev, config, b, h, at)
             without == Apply(ev, config, b, b, at)
         IN  /\ with.builtin = without.builtin
             /\ with.statuses = without.statuses
             /\ DispositionRank(with.overall) >= DispositionRank(without.overall)
<1>1. PICK x : x = Apply(ev, config, b, h, at) /\ IsApplication(x, ev, config, b, h, at)
  BY ApplyFields, Zenon
<1>2. PICK y : y = Apply(ev, config, b, b, at) /\ IsApplication(y, ev, config, b, b, at)
  BY ApplyFields, Zenon
<1>3. BaseWaivers(b, h) = BaseWaivers(b, b)
  BY DEF BaseWaivers
<1>4. x.statuses = y.statuses
  BY <1>1, <1>2, <1>3 DEF IsApplication
<1>5. x.builtin = y.builtin
  <2> DEFINE Built(st, ws) == {Applied("builtin", f,
                                 IF \E i \in DOMAIN ws : st[i].status = "applied" /\ ws[i].finding = FindingID(f)
                                 THEN "waived" ELSE f.disposition) : f \in ev.findings}
  <2>1. x.builtin = Built(x.statuses, BaseWaivers(b, h)) /\ y.builtin = Built(y.statuses, BaseWaivers(b, b))
    BY <1>1, <1>2, Zenon DEF IsApplication
  <2> HIDE DEF Built
  <2> QED
    BY <1>3, <1>4, <2>1
<1> DEFINE Of(u) == {a.effective : a \in u.builtin
                \cup {Applied("governance", g.finding, g.finding.disposition) : g \in u.governance}}
<1>6. x.overall = Overall(Of(x)) /\ y.overall = Overall(Of(y))
  BY <1>1, <1>2, Zenon DEF IsApplication
<1>7. /\ x.governance = ConfigGovernance(config) \cup WaiverGovernance(b, h, x.statuses)
      /\ y.governance = ConfigGovernance(config) \cup WaiverGovernance(b, b, x.statuses)
  BY <1>1, <1>2, <1>4, Zenon DEF IsApplication
<1>8. CASE WaiverGovernance(b, b, x.statuses) \subseteq WaiverGovernance(b, h, x.statuses)
  <2>1. y.governance \subseteq x.governance
    BY <1>7, <1>8, Zenon
  <2>2. Of(y) \subseteq Of(x)
    BY <1>5, <2>1, Zenon
  <2> HIDE DEF Of
  <2> QED
    BY <1>1, <1>2, <1>4, <1>5, <1>6, <2>2, OverallRank, Zenon
<1>9. CASE Governance(0, "GR-WAIVER-001", <<"base-state", BaseState(b)>>, "failed")
              \in WaiverGovernance(b, h, x.statuses)
  <2>1. PICK g \in x.governance : g.finding.disposition = "failed"
    BY <1>7, <1>9 DEF Governance, Finding
  <2>2. Applied("governance", g.finding, g.finding.disposition).effective = "failed"
    BY <2>1 DEF Applied
  <2>3. "failed" \in Of(x)
    BY <2>1, <2>2, Zenon
  <2> HIDE DEF Of
  <2> QED
    BY <1>1, <1>2, <1>4, <1>5, <1>6, <2>3, OverallRank, Zenon
<1> QED
  BY <1>8, <1>9, SameFileGovernance, Zenon

\* The waivers a request brings along decide nothing about it (waiver.LoadTrusted, Apply).
THEOREM HeadWaiversTheorem == Spec => []HeadWaiversDecideNothing
<1>1. ReviewIsCurrent => HeadWaiversDecideNothing
  <2> SUFFICES ASSUME ReviewIsCurrent, Reviewed PROVE HeadWaiversDecideNothing
    BY Zenon DEF HeadWaiversDecideNothing
  <2>1. review.application = Apply(review.evaluation, head.config, base.waivers, head.waivers, now)
    BY Zenon DEF ReviewIsCurrent, Reviewed, Chain
  <2>2. PICK ev, config, b, h, at : /\ ev = review.evaluation /\ config = head.config
                                    /\ b = base.waivers /\ h = head.waivers /\ at = now
    OBVIOUS
  <2>3. PICK without : without = Apply(ev, config, b, b, at)
    OBVIOUS
  <2>4. /\ Apply(ev, config, b, h, at).builtin = without.builtin
        /\ Apply(ev, config, b, h, at).statuses = without.statuses
        /\ DispositionRank(Apply(ev, config, b, h, at).overall) >= DispositionRank(without.overall)
    BY ONLY <2>3, HeadFileDecidesNothing
  <2> QED
    BY <2>1, <2>2, <2>3, <2>4, Zenon DEF HeadWaiversDecideNothing
<1> QED
  BY <1>1, Current, PTL

-----------------------------------------------------------------------------
(* The waivers that are written.                                           *)

IsWaiver(w) ==
  w = [id |-> w.id, finding |-> w.finding, rule |-> w.rule, reason |-> w.reason,
       issued |-> w.issued, expires |-> w.expires]

\* The waivers of a file that the parser accepts.
WaiversOk(ws) == (\A i \in DOMAIN ws : WaiverIsValid(ws[i])) /\ DistinctWaivers(ws)

\* A waiver was written for a record, a rule and a time.
GrantedBy(w, g) ==
  /\ g.rule = w.rule /\ g.issued = w.issued /\ g.expires = w.expires
  /\ w.finding[2] = {RecordID(g.record)}

\* In an acceptable file, a waiver of the rule its finding is about was written for that
\* finding.
Honest(ws, G) ==
  WaiversOk(ws) =>
    \A i \in DOMAIN ws : ws[i].finding[1] = ws[i].rule => \E g \in G : GrantedBy(ws[i], g)

IsWaiverList(ws) == (\E S : ws \in Seq(S)) /\ \A i \in DOMAIN ws : IsWaiver(ws[i])

FileOk(f, G) ==
  /\ f = [entry |-> f.entry, text |-> f.text]
  /\ f.text = [spelling |-> f.text.spelling, wellFormed |-> f.text.wellFormed, waivers |-> f.text.waivers]
  /\ IsWaiverList(f.text.waivers)
  /\ Honest(f.text.waivers, G)

ConfigOk(c) == c.state = "modified-valid" => 1 \in DOMAIN c.changes

IsHead(h) == h = [commit |-> h.commit, waivers |-> h.waivers, config |-> h.config]

WaiverInv ==
  /\ now \in Int /\ IsHead(head) /\ ConfigOk(head.config)
  /\ FileOk(head.waivers, granted) /\ FileOk(base.waivers, granted)

\* What was granted stays granted.
LEMMA HonestGrows ==
  ASSUME NEW f, NEW G, NEW H, G \subseteq H, FileOk(f, G)
  PROVE  FileOk(f, H)
BY Zenon DEF FileOk, Honest

LEMMA EmptyFile == ASSUME NEW G, NEW e PROVE FileOk([entry |-> e, text |-> EmptyText], G)
<1>1. <<>> \in Seq({})
  OBVIOUS
<1>2. DOMAIN <<>> = {}
  OBVIOUS
<1>3. IsWaiverList(<<>>) /\ Honest(<<>>, G)
  BY <1>1, <1>2, Zenon DEF IsWaiverList, Honest
<1> QED
  BY <1>3 DEF FileOk, EmptyText

\* A file of honest waivers is one in whatever way it is kept.
LEMMA NewFile ==
  ASSUME NEW ws, NEW G, NEW e, NEW s, NEW o, IsWaiverList(ws), Honest(ws, G)
  PROVE  FileOk([entry |-> e, text |-> [spelling |-> s, wellFormed |-> o, waivers |-> ws]], G)
BY DEF FileOk

\* Adding a waiver that was granted.
LEMMA AppendHonest ==
  ASSUME NEW ws, NEW G, NEW w, NEW g, IsWaiverList(ws), Honest(ws, G), IsWaiver(w), GrantedBy(w, g)
  PROVE  IsWaiverList(Append(ws, w)) /\ Honest(Append(ws, w), G \cup {g})
<1>1. PICK S : ws \in Seq(S)
  BY Zenon DEF IsWaiverList
<1>2. PICK T : T = S \cup {w}
  OBVIOUS
<1>3. ws \in Seq(T) /\ w \in T
  BY <1>1, <1>2
<1>4. /\ Append(ws, w) \in Seq(T)
      /\ DOMAIN ws = 1..Len(ws) /\ Len(ws) \in Nat
      /\ DOMAIN Append(ws, w) = 1..(Len(ws) + 1)
      /\ \A i \in 1..Len(ws) : Append(ws, w)[i] = ws[i]
      /\ Append(ws, w)[Len(ws) + 1] = w
  BY <1>3
<1>5. PICK z : z = Append(ws, w)
  OBVIOUS
<1>6. \A i \in DOMAIN z : (i \in DOMAIN ws /\ z[i] = ws[i]) \/ z[i] = w
  BY <1>4, <1>5
<1>7. \A i \in DOMAIN ws : i \in DOMAIN z /\ z[i] = ws[i]
  BY <1>4, <1>5
<1>8. IsWaiverList(z)
  BY <1>4, <1>5, <1>6, Zenon DEF IsWaiverList
<1>9. ASSUME WaiversOk(z) PROVE WaiversOk(ws)
  BY <1>7, <1>9, Zenon DEF WaiversOk, DistinctWaivers
<1>10. ASSUME WaiversOk(z), NEW i \in DOMAIN z, z[i].finding[1] = z[i].rule
       PROVE  \E k \in G \cup {g} : GrantedBy(z[i], k)
  <2>1. CASE i \in DOMAIN ws /\ z[i] = ws[i]
    BY <1>9, <1>10, <2>1, Zenon DEF Honest
  <2>2. CASE z[i] = w
    BY <2>2, Zenon
  <2> QED
    BY <1>6, <2>1, <2>2, Zenon
<1> QED
  BY <1>5, <1>8, <1>10, Zenon DEF Honest

\* Giving another reason.
LEMMA ReasonHonest ==
  ASSUME NEW ws, NEW G, NEW s, IsWaiverList(ws), Honest(ws, G)
  PROVE  /\ IsWaiverList([ws EXCEPT ![1] = [@ EXCEPT !.reason = s]])
         /\ Honest([ws EXCEPT ![1] = [@ EXCEPT !.reason = s]], G)
<1>1. PICK z : z = [ws EXCEPT ![1] = [@ EXCEPT !.reason = s]]
  OBVIOUS
<1>2. PICK S : ws \in Seq(S)
  BY Zenon DEF IsWaiverList
<1>3. PICK T : T = S \cup {[ws[1] EXCEPT !.reason = s]}
  OBVIOUS
<1>4. z \in Seq(T) /\ DOMAIN z = DOMAIN ws
  <2>1. PICK n \in Nat : ws \in [1..n -> S] /\ DOMAIN ws = 1..n
    BY <1>2
  <2>2. PICK v : v = [ws[1] EXCEPT !.reason = s]
    OBVIOUS
  <2>3. z = [ws EXCEPT ![1] = v]
    BY <1>1, <2>1, <2>2
  <2>4. z \in [1..n -> T]
    BY <1>3, <2>1, <2>2, <2>3
  <2> QED
    BY <2>1, <2>4
<1>5. ASSUME NEW i \in DOMAIN ws
      PROVE  /\ IsWaiver(z[i]) /\ z[i].finding = ws[i].finding /\ z[i].rule = ws[i].rule
             /\ z[i].issued = ws[i].issued /\ z[i].expires = ws[i].expires /\ z[i].id = ws[i].id
  <2>1. IsWaiver(ws[i])
    BY Zenon DEF IsWaiverList
  <2>2. z[i] = ws[i] \/ z[i] = [ws[i] EXCEPT !.reason = s]
    BY <1>1, <1>2
  <2>3. CASE z[i] = ws[i]
    BY <2>1, <2>3, Zenon
  <2>4. CASE z[i] = [ws[i] EXCEPT !.reason = s]
    <3>1. PICK w : w = ws[i]
      OBVIOUS
    <3>2. z[i] = [id |-> w.id, finding |-> w.finding, rule |-> w.rule, reason |-> s,
                  issued |-> w.issued, expires |-> w.expires]
      BY <2>1, <2>4, <3>1 DEF IsWaiver
    <3> QED
      BY <3>1, <3>2 DEF IsWaiver
  <2> QED
    BY <2>2, <2>3, <2>4, Zenon
<1>6. IsWaiverList(z)
  BY <1>4, <1>5, Zenon DEF IsWaiverList
<1>7. WaiversOk(z) => WaiversOk(ws)
  BY <1>4, <1>5 DEF WaiversOk, DistinctWaivers, WaiverIsValid
<1>8. ASSUME NEW i \in DOMAIN ws, NEW g, GrantedBy(ws[i], g) PROVE GrantedBy(z[i], g)
  BY <1>5, <1>8 DEF GrantedBy
<1>9. Honest(z, G)
  BY <1>4, <1>5, <1>7, <1>8, Zenon DEF Honest
<1> QED
  BY <1>1, <1>6, <1>9

LEMMA NewHeadFields ==
  ASSUME IsHead(head), NEW f
  PROVE  NewHead(f) = [commit |-> head.commit + 1, waivers |-> f, config |-> head.config]
<1>1. PICK c, w, g : head = [commit |-> c, waivers |-> w, config |-> g]
  BY Zenon DEF IsHead
<1>2. PICK h, d : h = [commit |-> d, waivers |-> w, config |-> g] /\ d = c + 1
  OBVIOUS
<1>3. [h EXCEPT !.waivers = f] = [commit |-> d, waivers |-> f, config |-> g]
  BY ONLY <1>2
<1>5. h = [head EXCEPT !.commit = @ + 1]
  BY <1>1, <1>2
<1>4. NewHead(f) = [h EXCEPT !.waivers = f]
  BY <1>1, <1>5 DEF NewHead
<1> QED
  BY <1>1, <1>2, <1>3, <1>4

LEMMA IsHeadNew ==
  ASSUME NEW c, NEW f, NEW g
  PROVE  LET h == [commit |-> c, waivers |-> f, config |-> g] IN IsHead(h) /\ h.waivers = f /\ h.config = g
BY DEF IsHead

LEMMA IsWaiverNew ==
  ASSUME NEW id, NEW f, NEW rule, NEW issued, NEW expires
  PROVE  LET w == Waiver(id, f, rule, issued, expires)
         IN  /\ IsWaiver(w) /\ w.id = id /\ w.finding = FindingID(f) /\ w.rule = rule
             /\ w.issued = issued /\ w.expires = expires
BY DEF Waiver, IsWaiver

LEMMA FindingIDFields ==
  ASSUME NEW f PROVE FindingID(f)[1] = f.rule /\ FindingID(f)[2] = f.records
BY DEF FindingID

\* A list of one or two waivers.
LEMMA ShortLists ==
  ASSUME NEW v, NEW w, IsWaiver(v), IsWaiver(w)
  PROVE  IsWaiverList(<<v>>) /\ IsWaiverList(<<v, w>>)
<1>1. <<v>> \in Seq({v}) /\ DOMAIN <<v>> = {1} /\ <<v>>[1] = v
  OBVIOUS
<1>2. <<v, w>> \in Seq({v, w}) /\ DOMAIN <<v, w>> = {1, 2} /\ <<v, w>>[1] = v /\ <<v, w>>[2] = w
  OBVIOUS
<1> QED
  BY <1>1, <1>2, Zenon DEF IsWaiverList

\* The mistakes of WriteBadWaivers: the parser refuses the file, or the waiver names
\* another rule than its finding.
LEMMA BadWaiversHonest ==
  ASSUME NEW f, NEW t \in Int, NEW G,
         NEW ws \in {<<Waiver("w1", f, f.rule, t, t + 1),
                       [Waiver("w1", f, f.rule, t, t + 1) EXCEPT !.finding[1] = "GR-ART-001"]>>,
                     <<Waiver("w1", f, f.rule, t, t + 1), Waiver("w2", f, f.rule, t, t + 1)>>,
                     <<Waiver("w1", f, CHOOSE rule \in Waivable : rule # f.rule, t, t + 1)>>,
                     <<Waiver("w1", f, f.rule, t, t)>>,
                     <<Waiver("w1", f, f.rule, t, t + MaxLifetime + 1)>>}
  PROVE  FileOk(FileOf(ws), G)
<1>1. CASE ws = <<Waiver("w1", f, f.rule, t, t + 1),
                  [Waiver("w1", f, f.rule, t, t + 1) EXCEPT !.finding[1] = "GR-ART-001"]>>
  <2>1. PICK v : v = Waiver("w1", f, f.rule, t, t + 1) /\ IsWaiver(v)
    BY IsWaiverNew, Zenon
  <2>2. PICK w : w = [v EXCEPT !.finding[1] = "GR-ART-001"]
    OBVIOUS
  <2>3. IsWaiver(w) /\ w.id = v.id
    BY <2>1, <2>2 DEF IsWaiver
  <2>4. ws = <<v, w>>
    BY <1>1, <2>1, <2>2
  <2>5. DOMAIN ws = {1, 2} /\ ws[1] = v /\ ws[2] = w /\ 1 # 2
    BY <2>4
  <2>6. ~WaiversOk(ws)
    BY <2>3, <2>5 DEF WaiversOk, DistinctWaivers
  <2>7. IsWaiverList(ws) /\ Honest(ws, G)
    BY <2>1, <2>3, <2>4, <2>6, ShortLists, Zenon DEF Honest
  <2> QED
    BY <2>7, NewFile, Zenon DEF FileOf, Text
<1>2. CASE ws = <<Waiver("w1", f, f.rule, t, t + 1), Waiver("w2", f, f.rule, t, t + 1)>>
  <2>1. PICK v : v = Waiver("w1", f, f.rule, t, t + 1) /\ IsWaiver(v) /\ v.finding = FindingID(f)
    BY DEF Waiver, IsWaiver
  <2>2. PICK w : w = Waiver("w2", f, f.rule, t, t + 1) /\ IsWaiver(w) /\ w.finding = FindingID(f)
    BY ONLY IsWaiverNew
  <2>4. ws = <<v, w>>
    BY <1>2, <2>1, <2>2
  <2>5. DOMAIN ws = {1, 2} /\ ws[1] = v /\ ws[2] = w /\ 1 # 2
    BY <2>4
  <2>6. ~WaiversOk(ws)
    BY <2>1, <2>2, <2>5 DEF WaiversOk, DistinctWaivers
  <2>7. IsWaiverList(ws) /\ Honest(ws, G)
    BY <2>1, <2>2, <2>4, <2>6, ShortLists, Zenon DEF Honest
  <2> QED
    BY <2>7, NewFile, Zenon DEF FileOf, Text
<1>3. CASE ws = <<Waiver("w1", f, CHOOSE rule \in Waivable : rule # f.rule, t, t + 1)>>
  <2>1. \E rule \in Waivable : rule # f.rule
    BY DEF Waivable
  <2>2. PICK rule : rule = (CHOOSE x \in Waivable : x # f.rule) /\ rule # f.rule
    BY <2>1, Zenon
  <2>3. PICK v : /\ v = Waiver("w1", f, rule, t, t + 1) /\ IsWaiver(v) /\ v.finding = FindingID(f)
                 /\ v.rule = rule
    BY ONLY IsWaiverNew
  <2>4. ws = <<v>>
    BY <1>3, <2>2, <2>3
  <2>5. DOMAIN ws = {1} /\ ws[1] = v
    BY <2>4
  <2>6. v.finding[1] # v.rule
    BY <2>2, <2>3, FindingIDFields, Zenon
  <2>7. \A i \in DOMAIN ws : ws[i].finding[1] # ws[i].rule
    BY <2>5, <2>6
  <2>8. IsWaiverList(ws) /\ Honest(ws, G)
    BY <2>3, <2>4, <2>7, ShortLists, Zenon DEF Honest
  <2> QED
    BY <2>8, NewFile, Zenon DEF FileOf, Text
<1>4. ASSUME NEW e \in Int, ws = <<Waiver("w1", f, f.rule, t, e)>>, e = t \/ e = t + MaxLifetime + 1
      PROVE  FileOk(FileOf(ws), G)
  <2>1. PICK v : v = Waiver("w1", f, f.rule, t, e) /\ IsWaiver(v) /\ v.issued = t /\ v.expires = e
    BY ONLY IsWaiverNew
  <2>2. ws = <<v>>
    BY <1>4, <2>1
  <2>3. ~WaiverIsValid(v)
    BY <1>4, <2>1, ReviewAssumption DEF WaiverIsValid
  <2>4. DOMAIN ws = {1} /\ ws[1] = v
    BY <2>2
  <2>5. ~WaiversOk(ws)
    BY <2>3, <2>4 DEF WaiversOk
  <2>6. IsWaiverList(ws) /\ Honest(ws, G)
    BY <2>1, <2>2, <2>5, ShortLists, Zenon DEF Honest
  <2> QED
    BY <2>6, NewFile, Zenon DEF FileOf, Text
<1>5. CASE ws = <<Waiver("w1", f, f.rule, t, t)>>
  BY <1>4, <1>5
<1>6. CASE ws = <<Waiver("w1", f, f.rule, t, t + MaxLifetime + 1)>>
  BY <1>4, <1>6, ReviewAssumption
<1> QED
  BY <1>1, <1>2, <1>3, <1>5, <1>6, Zenon

\* What ReplaceFile makes of an honest file.
LEMMA ReplacedHonest ==
  ASSUME NEW f, NEW G, FileOk(f, G), NEW e
  PROVE  /\ FileOk([f EXCEPT !.text.spelling = "b"], G)
         /\ FileOk([f EXCEPT !.text.wellFormed = FALSE], G)
         /\ FileOk([f EXCEPT !.entry = "file", !.text = EmptyText], G)
         /\ FileOk(NoFile, G)
         /\ FileOk([f EXCEPT !.entry = e], G)
         /\ FileOk([f EXCEPT !.text.waivers[1].reason = "s"], G)
<1>1. PICK n, s, o, ws : /\ f = [entry |-> n, text |-> [spelling |-> s, wellFormed |-> o, waivers |-> ws]]
                         /\ IsWaiverList(ws) /\ Honest(ws, G)
  BY DEF FileOk
<1>2. ASSUME NEW x
      PROVE  /\ [f EXCEPT !.text.spelling = x]
                  = [entry |-> n, text |-> [spelling |-> x, wellFormed |-> o, waivers |-> ws]]
             /\ [f EXCEPT !.text.wellFormed = x]
                  = [entry |-> n, text |-> [spelling |-> s, wellFormed |-> x, waivers |-> ws]]
             /\ [f EXCEPT !.entry = x]
                  = [entry |-> x, text |-> [spelling |-> s, wellFormed |-> o, waivers |-> ws]]
             /\ [f EXCEPT !.entry = "file", !.text = x] = [entry |-> "file", text |-> x]
  <2>1. PICK v : v = [spelling |-> s, wellFormed |-> o, waivers |-> ws] /\ f = [entry |-> n, text |-> v]
    BY <1>1
  <2>2. [v EXCEPT !.spelling = x] = [spelling |-> x, wellFormed |-> o, waivers |-> ws]
    BY <2>1
  <2>3. [v EXCEPT !.wellFormed = x] = [spelling |-> s, wellFormed |-> x, waivers |-> ws]
    BY <2>1
  <2>4. [f EXCEPT !.entry = x] = [entry |-> x, text |-> v]
    BY <2>1
  <2>5. PICK g : g = [entry |-> "file", text |-> v]
    OBVIOUS
  <2>6. [g EXCEPT !.text = x] = [entry |-> "file", text |-> x]
    BY ONLY <2>5
  <2>7. [f EXCEPT !.entry = "file", !.text = x] = [g EXCEPT !.text = x]
    <3>1. g = [f EXCEPT !.entry = "file"]
      BY <2>1, <2>5
    <3> QED
      BY <2>1, <3>1
  <2>8. \A u : [f EXCEPT !.text = u] = [entry |-> n, text |-> u]
    BY <2>1
  <2>9. f.text = v
    BY <2>1
  <2>10. [f EXCEPT !.text.spelling = x] = [f EXCEPT !.text = [v EXCEPT !.spelling = x]]
    BY <2>1, <2>9
  <2>11. [f EXCEPT !.text.wellFormed = x] = [f EXCEPT !.text = [v EXCEPT !.wellFormed = x]]
    BY <2>1, <2>9
  <2> QED
    BY <2>1, <2>2, <2>3, <2>4, <2>6, <2>7, <2>8, <2>10, <2>11
<1>6. PICK z : z = [ws EXCEPT ![1] = [@ EXCEPT !.reason = "s"]]
  OBVIOUS
<1>7. [f EXCEPT !.text.waivers[1].reason = "s"] = [entry |-> n, text |-> [spelling |-> s, wellFormed |-> o, waivers |-> z]]
  BY <1>1, <1>6
<1>8. IsWaiverList(z) /\ Honest(z, G)
  BY <1>1, <1>6, ReasonHonest, Zenon
<1>9. FileOk([f EXCEPT !.text.spelling = "b"], G)
  <2>1. [f EXCEPT !.text.spelling = "b"] = [entry |-> n, text |-> [spelling |-> "b", wellFormed |-> o, waivers |-> ws]]
    BY <1>2, Zenon
  <2> QED
    BY <1>1, <2>1 DEF FileOk
<1>10. FileOk([f EXCEPT !.text.wellFormed = FALSE], G)
  <2>1. PICK x : x = FALSE
    OBVIOUS
  <2>2. [f EXCEPT !.text.wellFormed = x] = [entry |-> n, text |-> [spelling |-> s, wellFormed |-> x, waivers |-> ws]]
    BY <1>2, Zenon
  <2>3. FileOk([f EXCEPT !.text.wellFormed = x], G)
    BY ONLY <1>1, <2>2 DEF FileOk
  <2> QED
    BY <2>1, <2>3
<1>11. FileOk([f EXCEPT !.entry = e], G)
  BY <1>1, <1>2 DEF FileOk
<1>12. FileOk([f EXCEPT !.text.waivers[1].reason = "s"], G)
  BY <1>7, <1>8 DEF FileOk
<1>13. FileOk([f EXCEPT !.entry = "file", !.text = EmptyText], G) /\ FileOk(NoFile, G)
  <2>1. [f EXCEPT !.entry = "file", !.text = EmptyText] = [entry |-> "file", text |-> EmptyText]
    BY <1>2, Zenon
  <2> QED
    BY <2>1, EmptyFile DEF NoFile
<1> QED
  BY <1>9, <1>10, <1>11, <1>12, <1>13, Zenon

LEMMA WaiverInit == Init => WaiverInv
<1> SUFFICES ASSUME Init PROVE WaiverInv
  OBVIOUS
<1>1. base.waivers = NoFile /\ head = [commit |-> 1, waivers |-> NoFile, config |-> Unchanged] /\ now = 1
  BY DEF Init
<1>2. IsHead(head) /\ head.waivers = NoFile /\ head.config = Unchanged
  BY <1>1, IsHeadNew, Zenon
<1>3. ConfigOk(Unchanged)
  BY DEF ConfigOk, Unchanged
<1> QED
  BY <1>1, <1>2, <1>3, EmptyFile DEF WaiverInv, NoFile

\* A step that leaves the files alone or replaces the head's by one that is in order.
LEMMA WaiverStep ==
  ASSUME WaiverInv, NEW f, FileOk(f, granted'), head' = NewHead(f), base' = base, now' = now,
         granted \subseteq granted'
  PROVE  WaiverInv'
<1>1. head' = [commit |-> head.commit + 1, waivers |-> f, config |-> head.config]
  BY NewHeadFields, Zenon DEF WaiverInv
<1>2. IsHead(head') /\ head'.waivers = f /\ head'.config = head.config
  BY <1>1, IsHeadNew
<1>3. FileOk(base.waivers, granted')
  BY HonestGrows, Zenon DEF WaiverInv
<1> QED
  BY <1>2, <1>3, Zenon DEF WaiverInv

LEMMA WaiverNext == WaiverInv /\ [Next]_vars => WaiverInv'
<1> SUFFICES ASSUME WaiverInv, [Next]_vars PROVE WaiverInv'
  OBVIOUS
<1>1. CASE UNCHANGED <<base, head, now, granted>>
  BY <1>1, Zenon DEF WaiverInv
<1>2. CASE WriteWaiver
  <2>1. PICK f, issued, r :
          /\ f \in Reviewable /\ issued \in {now, now + 1} /\ {RecordID(r)} = f.records
          /\ head' = NewHead(FileOf(Append(Written, Waiver(NewID, f, f.rule, issued, issued + 1))))
          /\ granted' = granted \cup {[record |-> r, rule |-> f.rule, issued |-> issued, expires |-> issued + 1]}
    BY <1>2, Zenon DEF WriteWaiver
  <2>2. base' = base /\ now' = now
    BY <1>2, Zenon DEF WriteWaiver
  <2>3. PICK w : w = Waiver(NewID, f, f.rule, issued, issued + 1)
    OBVIOUS
  <2>4. PICK g : g = [record |-> r, rule |-> f.rule, issued |-> issued, expires |-> issued + 1]
    OBVIOUS
  <2>5. /\ IsWaiver(w) /\ w.finding = FindingID(f) /\ w.rule = f.rule
        /\ w.issued = issued /\ w.expires = issued + 1
    <3>1. PICK id, e, u : id = NewID /\ e = issued + 1 /\ u = f.rule
      OBVIOUS
    <3>2. w = Waiver(id, f, u, issued, e)
      BY <2>3, <3>1
    <3>3. /\ IsWaiver(w) /\ w.finding = FindingID(f) /\ w.rule = u
          /\ w.issued = issued /\ w.expires = e
      BY ONLY <3>2, IsWaiverNew
    <3> QED
      BY <3>1, <3>3
  <2>6. g.record = r /\ g.rule = f.rule /\ g.issued = issued /\ g.expires = issued + 1
    BY <2>4
  <2>7. GrantedBy(w, g)
    BY <2>1, <2>5, <2>6, FindingIDFields, Zenon DEF GrantedBy
  <2>8. IsWaiverList(Written) /\ Honest(Written, granted)
    <3>1. CASE head.waivers.entry = "file"
      BY <3>1, Zenon DEF Written, WaiverInv, FileOk
    <3>2. CASE head.waivers.entry # "file"
      <4>1. Written = <<>> /\ DOMAIN <<>> = {} /\ <<>> \in Seq({})
        BY <3>2 DEF Written
      <4> QED
        BY <4>1, Zenon DEF IsWaiverList, Honest
    <3> QED
      BY <3>1, <3>2, Zenon
  <2>9. PICK ws : ws = Append(Written, w) /\ IsWaiverList(ws) /\ Honest(ws, granted')
    BY <2>1, <2>4, <2>5, <2>7, <2>8, AppendHonest, Zenon
  <2>10. FileOk(FileOf(ws), granted')
    BY <2>9, NewFile, Zenon DEF FileOf, Text
  <2>11. head' = NewHead(FileOf(ws)) /\ granted \subseteq granted'
    BY <2>1, <2>3, <2>9, Zenon
  <2> QED
    BY <2>2, <2>10, <2>11, WaiverStep, Zenon
<1>3. CASE WriteBadWaivers
  <2>1. UNCHANGED <<base, now, granted>>
    BY <1>3, Zenon DEF WriteBadWaivers
  <2>2. now \in Int
    BY Zenon DEF WaiverInv
  <2>3. PICK f, ws : FileOk(FileOf(ws), granted) /\ head' = NewHead(FileOf(ws))
    BY <1>3, <2>2, BadWaiversHonest, Zenon DEF WriteBadWaivers
  <2> QED
    BY <2>1, <2>3, WaiverStep, Zenon
<1>4. CASE ReplaceFile
  <2>1. UNCHANGED <<base, now, granted>>
    BY <1>4, Zenon DEF ReplaceFile
  <2>2. PICK h : h = head.waivers /\ FileOk(h, granted)
    BY Zenon DEF WaiverInv
  <2>3. PICK f : /\ \/ f = [h EXCEPT !.text.spelling = "b"]
                    \/ f = [h EXCEPT !.text.wellFormed = FALSE]
                    \/ f = [h EXCEPT !.entry = "file", !.text = EmptyText]
                    \/ f = NoFile
                    \/ \E e : f = [h EXCEPT !.entry = e]
                    \/ f = [h EXCEPT !.text.waivers[1].reason = "s"]
                 /\ head' = NewHead(f)
    BY <1>4, <2>2 DEF ReplaceFile
  <2>4. FileOk(f, granted)
    <3>1. ASSUME NEW e
          PROVE  /\ FileOk([h EXCEPT !.text.spelling = "b"], granted)
                 /\ FileOk([h EXCEPT !.text.wellFormed = FALSE], granted)
                 /\ FileOk([h EXCEPT !.entry = "file", !.text = EmptyText], granted)
                 /\ FileOk(NoFile, granted)
                 /\ FileOk([h EXCEPT !.entry = e], granted)
                 /\ FileOk([h EXCEPT !.text.waivers[1].reason = "s"], granted)
      <4>1. PICK G : G = granted
        OBVIOUS
      <4>2. FileOk(h, G)
        BY <2>2, <4>1
      <4> QED
        BY ONLY <4>1, <4>2, ReplacedHonest, Zenon
    <3> QED
      BY <2>3, <3>1, Zenon
  <2> QED
    BY <2>1, <2>3, <2>4, WaiverStep, Zenon
<1>5. CASE EditConfig
  <2>1. UNCHANGED <<base, now, granted>>
    BY <1>5, Zenon DEF EditConfig
  <2>2. PICK c \in HeadConfigs : head' = [NewHead(head.waivers) EXCEPT !.config = c]
    BY <1>5, Zenon DEF EditConfig
  <2>3. PICK w, d : w = head.waivers /\ d = head.commit + 1
    OBVIOUS
  <2>4. NewHead(w) = [commit |-> d, waivers |-> w, config |-> head.config]
    BY <2>3, NewHeadFields, Zenon DEF WaiverInv
  <2>5. head' = [commit |-> d, waivers |-> w, config |-> c]
    BY <2>2, <2>3, <2>4
  <2>6. IsHead(head') /\ head'.waivers = w /\ head'.config = c
    BY <2>5, IsHeadNew, Zenon
  <2>7. ConfigOk(c)
    BY ReviewAssumption, Zenon DEF ConfigOk
  <2> QED
    BY <2>1, <2>3, <2>6, <2>7, Zenon DEF WaiverInv
<1>6. CASE MergeHead
  <2>1. UNCHANGED <<now, granted>>
    BY <1>6, Zenon DEF MergeHead
  <2>2. base'.waivers = head.waivers
    BY <1>6 DEF MergeHead
  <2>3. PICK c, w, g : head = [commit |-> c, waivers |-> w, config |-> g]
    BY Zenon DEF WaiverInv, IsHead
  <2>4. head' = [commit |-> c, waivers |-> w, config |-> Unchanged]
    BY <1>6, <2>3 DEF MergeHead
  <2>5. IsHead(head') /\ head'.waivers = w /\ head'.config = Unchanged
    BY <2>4, IsHeadNew, Zenon
  <2>6. head.waivers = w
    BY <2>3
  <2>7. ConfigOk(Unchanged)
    BY DEF ConfigOk, Unchanged
  <2> QED
    BY <2>1, <2>2, <2>5, <2>6, <2>7, Zenon DEF WaiverInv
<1>7. CASE Tick
  <2>1. UNCHANGED <<base, head, granted>> /\ now' = now + 1
    BY <1>7, Zenon DEF Tick
  <2>2. now' \in Int
    BY <2>1 DEF WaiverInv
  <2> QED
    BY <2>1, <2>2, Zenon DEF WaiverInv
<1>8. CASE RunAttempt \/ Commit \/ CommitInterrupted \/ Inspect \/ RunAgain \/ UNCHANGED vars
  <2>1. UNCHANGED <<base, head, now, granted>>
    BY <1>8, Zenon DEF RunAttempt, Commit, CommitInterrupted, Inspect, RunAgain, vars
  <2> QED
    BY <1>1, <2>1
<1> QED
  BY <1>2, <1>3, <1>4, <1>5, <1>6, <1>7, <1>8, Zenon DEF Next

LEMMA WaiversAreHonest == Spec => []WaiverInv
BY WaiverInit, WaiverNext, PTL DEF Spec

-----------------------------------------------------------------------------
(* What a passed request has been through.                                 *)

\* The verdict is the worst of what is left: a request passes when every finding of a
\* rule is waived and nothing was added.
LEMMA PassedApplication ==
  ASSUME NEW app, NEW ev, NEW config, NEW b, NEW h, NEW at, IsApplication(app, ev, config, b, h, at),
         app.overall = "passed"
  PROVE  /\ \A f \in ev.findings : f.disposition \in {"failed", "requires-review"} =>
              \E i \in DOMAIN BaseWaivers(b, h) :
                /\ WaiverStatus(BaseWaivers(b, h)[i], ev.findings, at) = "applied"
                /\ BaseWaivers(b, h)[i].finding = FindingID(f)
         /\ \A g \in app.governance : g.finding.disposition \notin {"failed", "requires-review"}
<1> DEFINE E == {a.effective : a \in app.builtin
         \cup {Applied("governance", g.finding, g.finding.disposition) : g \in app.governance}}
<1>1. app.overall = Overall(E)
  BY Zenon DEF IsApplication
<1>2. "failed" \notin E /\ "requires-review" \notin E
  <2> HIDE DEF E
  <2> QED
    BY <1>1 DEF Overall
<1>3. \A g \in app.governance : g.finding.disposition \notin {"failed", "requires-review"}
  <2> SUFFICES ASSUME NEW g \in app.governance PROVE g.finding.disposition \in E
    BY <1>2, Zenon
  <2>1. Applied("governance", g.finding, g.finding.disposition).effective = g.finding.disposition
    BY DEF Applied
  <2> QED
    BY <2>1, Zenon
<1>4. ASSUME NEW f \in ev.findings, f.disposition \in {"failed", "requires-review"}
      PROVE  \E i \in DOMAIN BaseWaivers(b, h) :
                /\ WaiverStatus(BaseWaivers(b, h)[i], ev.findings, at) = "applied"
                /\ BaseWaivers(b, h)[i].finding = FindingID(f)
  <2> DEFINE W == \E i \in DOMAIN BaseWaivers(b, h) :
                    /\ app.statuses[i].status = "applied"
                    /\ BaseWaivers(b, h)[i].finding = FindingID(f)
  <2>1. PICK a : a \in app.builtin /\ a = Applied("builtin", f, IF W THEN "waived" ELSE f.disposition)
    BY Zenon DEF IsApplication
  <2>2. a.effective \in E
    BY <2>1, Zenon
  <2> HIDE DEF E
  <2>3. CASE W
    <3>1. PICK i \in DOMAIN BaseWaivers(b, h) :
            app.statuses[i].status = "applied" /\ BaseWaivers(b, h)[i].finding = FindingID(f)
      BY <2>3
    <3>2. app.statuses[i].status = WaiverStatus(BaseWaivers(b, h)[i], ev.findings, at)
      BY DEF IsApplication
    <3> QED
      BY <3>1, <3>2
  <2>4. CASE ~W
    <3>1. a = Applied("builtin", f, f.disposition)
      BY <2>1, <2>4, Zenon
    <3>2. a.effective = f.disposition
      BY <3>1 DEF Applied
    <3> QED
      BY <1>2, <1>4, <2>2, <3>2, Zenon
  <2> QED
    BY <2>3, <2>4, Zenon
<1> QED
  BY <1>3, <1>4, Zenon

\* A waiver that was applied to a finding is in its time and of its rule.
LEMMA AppliedWaiver ==
  ASSUME NEW w, NEW F, NEW at, NEW f \in F, FindingID(f) = w.finding,
         WaiverStatus(w, F, at) = "applied"
  PROVE  w.issued <= at /\ at < w.expires /\ f.rule = w.rule /\ f.rule \in Waivable
<1>1. f \in Targets(w, F)
  BY DEF Targets
<1>2. /\ InWindow(w, at)
      /\ ~ \E x \in Targets(w, F) : x.rule # w.rule
      /\ ~ \A x \in Targets(w, F) : ~Applies(w, x)
  BY DEF WaiverStatus
<1>3. PICK x \in Targets(w, F) : x.rule = w.rule /\ x.rule \in Waivable
  BY <1>2, Zenon DEF Applies
<1>4. f.rule = w.rule
  BY <1>1, <1>2, Zenon
<1> QED
  BY <1>2, <1>3, <1>4 DEF InWindow

\* Two lists with different waivers differ in one of them.
LEMMA DifferentSets ==
  ASSUME NEW B, NEW H, \A w \in B \cup H : IsWaiver(w), B # H
  PROVE  CompareSets(B, H) # {}
<1>1. ASSUME NEW w \in B, NEW v \in H, w.id = v.id, w # v PROVE CompareSets(B, H) # {}
  <2>1. IsWaiver(w) /\ IsWaiver(v)
    BY Zenon
  <2>2. \/ w.finding # v.finding \/ w.rule # v.rule \/ w.reason # v.reason
        \/ w.issued # v.issued \/ w.expires # v.expires
    BY <1>1, <2>1, Zenon DEF IsWaiver
  <2>3. PICK k : k \in ChangedIn(w, v)
    BY <2>2 DEF ChangedIn
  <2>4. PICK q : q = <<w, v>>
    OBVIOUS
  <2>5. q[1] = w /\ q[2] = v /\ q \in B \X H
    BY <2>4
  <2>6. q \in {p \in B \X H : p[1].id = p[2].id}
    BY <1>1, <2>5
  <2>7. <<q[1].id, k>> \in {<<q[1].id, l>> : l \in ChangedIn(q[1], q[2])}
    BY <2>3, <2>5
  <2>8. <<q[1].id, k>> \in UNION {{<<p[1].id, l>> : l \in ChangedIn(p[1], p[2])}
                                   : p \in {x \in B \X H : x[1].id = x[2].id}}
    BY <2>6, <2>7
  <2>9. <<q[1].id, k>> \in CompareSets(B, H)
    BY <2>8, Zenon DEF CompareSets
  <2> QED
    BY <2>9, Zenon
<1>2. CASE \E w \in B : w \notin H
  <2>1. PICK w \in B : w \notin H
    BY <1>2
  <2>2. CASE \A y \in H : y.id # w.id
    <3>1. w \in {x \in B : \A y \in H : y.id # x.id}
      BY <2>2, Zenon
    <3>2. <<w.id, "removed">> \in CompareSets(B, H)
      BY <3>1, Zenon DEF CompareSets
    <3> QED
      BY <3>2, Zenon
  <2>3. CASE \E y \in H : y.id = w.id
    BY <1>1, <2>1, <2>3
  <2> QED
    BY <2>2, <2>3
<1>3. CASE \E w \in H : w \notin B
  <2>1. PICK w \in H : w \notin B
    BY <1>3
  <2>2. CASE \A y \in B : y.id # w.id
    <3>1. w \in {x \in H : \A y \in B : y.id # x.id}
      BY <2>2, Zenon
    <3>2. <<w.id, "added">> \in CompareSets(B, H)
      BY <3>1, Zenon DEF CompareSets
    <3> QED
      BY <3>2, Zenon
  <2>3. CASE \E y \in B : y.id = w.id
    BY <1>1, <2>1, <2>3
  <2> QED
    BY <2>2, <2>3
<1> QED
  BY <1>2, <1>3, Zenon

\* Every finding about configuration and waivers asks for a review or fails the request.
LEMMA GovernanceAsks ==
  ASSUME NEW config, NEW b, NEW h, NEW statuses
  PROVE  \A g \in ConfigGovernance(config) \cup WaiverGovernance(b, h, statuses) :
           g.finding.disposition \in {"failed", "requires-review"}
<1>1. \A place, rule, scope, disposition : Governance(place, rule, scope, disposition).finding.disposition = disposition
  BY DEF Governance, Finding
<1>2. \A g \in ConfigGovernance(config) : \E place, rule, scope : g = Governance(place, rule, scope, "requires-review")
  BY Zenon DEF ConfigGovernance
<1>3. \A g \in WaiverGovernance(b, h, statuses) :
        \E place, rule, scope, d : d \in {"failed", "requires-review"} /\ g = Governance(place, rule, scope, d)
  BY Zenon DEF WaiverGovernance, StatusGovernance
<1> SUFFICES ASSUME NEW g \in ConfigGovernance(config) \cup WaiverGovernance(b, h, statuses)
             PROVE  g.finding.disposition \in {"failed", "requires-review"}
  OBVIOUS
<1>4. CASE g \in ConfigGovernance(config)
  BY <1>1, <1>2, <1>4
<1>5. CASE g \in WaiverGovernance(b, h, statuses)
  <2>1. PICK place, rule, scope, d : d \in {"failed", "requires-review"} /\ g = Governance(place, rule, scope, d)
    BY <1>3, <1>5, Zenon
  <2>2. g.finding.disposition = d
    BY ONLY <2>1 DEF Governance, Finding
  <2> QED
    BY <2>1, <2>2, Zenon
<1> QED
  BY <1>4, <1>5, Zenon

LEMMA HeadStates ==
  ASSUME NEW b, NEW h
  PROVE  /\ HeadState(b, h) \in {"absent-on-both", "unchanged", "equivalent", "added", "removed",
                                 "modified-invalid", "unsupported", "modified-valid"}
         /\ HeadState(b, h) = "modified-valid" => Meaning(b.text) # Meaning(h.text)
BY DEF HeadState

\* Whatever a request proposes to change shows.
LEMMA NothingGoverned ==
  ASSUME NEW config, NEW b, NEW h, NEW statuses, NEW G, ConfigOk(config), FileOk(b, G), FileOk(h, G),
         ConfigGovernance(config) \cup WaiverGovernance(b, h, statuses) = {}
  PROVE  /\ config.state \in {"unchanged", "equivalent"}
         /\ HeadState(b, h) \in {"absent-on-both", "unchanged", "equivalent"}
<1>1. config.state \in {"unchanged", "equivalent"}
  <2>1. CASE config.state = "modified-valid"
    <3>1. 1 \in DOMAIN config.changes
      BY <2>1, Zenon DEF ConfigOk
    <3>2. ConfigGovernance(config)
            = {Governance(i, "GR-CONFIG-001", <<"config", config.changes[i]>>, "requires-review")
                 : i \in DOMAIN config.changes}
      BY <2>1 DEF ConfigGovernance
    <3> QED
      BY <3>1, <3>2, Zenon
  <2>2. CASE config.state \notin {"unchanged", "equivalent", "modified-valid"}
    <3>1. ConfigGovernance(config)
            = {Governance(0, "GR-CONFIG-001", <<"config-state", config.state>>, "requires-review")}
      BY <2>2 DEF ConfigGovernance
    <3> QED
      BY <3>1, Zenon
  <2> QED
    BY <2>1, <2>2, Zenon
<1>2. HeadState(b, h) # "modified-valid"
  <2> SUFFICES ASSUME HeadState(b, h) = "modified-valid" PROVE FALSE
    OBVIOUS
  <2>1. PICK B, H : B = Meaning(b.text) /\ H = Meaning(h.text)
    OBVIOUS
  <2>2. \A w \in B \cup H : IsWaiver(w)
    BY <2>1, Zenon DEF Meaning, Range, FileOk, IsWaiverList
  <2>3. B # H
    BY <2>1, HeadStates, Zenon
  <2>4. CompareSets(B, H) # {}
    BY ONLY <2>2, <2>3, DifferentSets
  <2>5. PICK c : c \in CompareSets(Meaning(b.text), Meaning(h.text))
    BY <2>1, <2>4, Zenon
  <2>6. Governance(0, "GR-WAIVER-001", <<"head-change", c>>, "requires-review") \in WaiverGovernance(b, h, statuses)
    BY <2>5, Zenon DEF WaiverGovernance
  <2> QED
    BY <2>6, Zenon
<1>3. HeadState(b, h) \notin {"added", "removed", "modified-invalid", "unsupported"}
  <2> SUFFICES ASSUME HeadState(b, h) \in {"added", "removed", "modified-invalid", "unsupported"} PROVE FALSE
    OBVIOUS
  <2>1. HeadState(b, h) \in {HeadState(b, h)} \cap {"added", "removed", "modified-invalid", "unsupported"}
    BY Zenon
  <2>2. Governance(0, "GR-WAIVER-001", <<"head-state", HeadState(b, h)>>, "requires-review")
          \in WaiverGovernance(b, h, statuses)
    BY <2>1, Zenon DEF WaiverGovernance
  <2> QED
    BY <2>2, Zenon
<1> QED
  BY <1>1, <1>2, <1>3, HeadStates, Zenon

LEMMA EvaluateFields ==
  ASSUME NEW delta
  PROVE  /\ Evaluate(delta).findings = GlobalFindings(delta) \cup UNION {RecordFindings(r) : r \in delta.records}
         /\ Evaluate(delta).refused <=> \/ delta.refused \/ ~DeltaIsValid(delta)
                                        \/ \E r \in delta.records : UndecidableFor(r)
                                        \/ Cardinality(Evaluate(delta).findings) > MaxFindings
BY DEF Evaluate

LEMMA RecordFindingFields ==
  ASSUME NEW r, NEW rule, NEW f,
         f = Finding(rule, {RecordID(r)}, <<"record">>, {r.scenario}, RuleConfidence(rule, r), "requires-review")
  PROVE  /\ f.rule = rule /\ f.disposition = "requires-review" /\ f.records = {RecordID(r)}
         /\ f.scope = <<"record">> /\ f.scenarios = {r.scenario} /\ f.confidence = RuleConfidence(rule, r)
         /\ FindingID(f) = <<rule, {RecordID(r)}, <<"record">>, {r.scenario}>>
BY DEF Finding, FindingID

\* A run that is incomplete or not real has a finding that no waiver is for.
LEMMA GlobalFindingFields ==
  ASSUME NEW delta, NEW f \in GlobalFindings(delta)
  PROVE  /\ f.rule = "GR-OBS-001" /\ f.disposition \in {"failed", "requires-review"} /\ f.records = {}
         /\ f.scope \in {<<"global-incomplete">>, <<"global-synthetic">>}
BY DEF GlobalFindings, Finding

LEMMA SomeGlobalFinding ==
  ASSUME NEW delta, GlobalFindings(delta) = {}
  PROVE  ~Incomplete(delta) /\ ~NotReal(delta.context)
BY DEF GlobalFindings

\* What a delta says about the run as a whole is what the bundle says.
LEMMA DeltaFields ==
  ASSUME NEW b, NEW ignore
  PROVE  LET delta == CompareTraces(Normalize(b, ignore))
         IN  /\ delta.executionComplete = b.executionComplete
             /\ delta.evidenceComplete = b.evidenceComplete
             /\ delta.context = b.runner
BY DEF CompareTraces, Normalize, Trace

\* A request passes only if it was run completely and for real, proposes no change of
\* configuration or waivers, and every difference a rule is about has a waiver that was
\* written for it, in the file of the base (Evaluate, Apply).
THEOREM PassedTheorem == Spec => []PassedIsReviewed
<1>1. ReviewIsCurrent /\ WaiverInv => PassedIsReviewed
  <2> SUFFICES ASSUME ReviewIsCurrent, WaiverInv, Reviewed, review.application.overall = "passed"
               PROVE  PassedIsReviewed
    BY Zenon DEF PassedIsReviewed
  <2>1. /\ review.delta = CompareTraces(Normalize(bundle, plan.ignore))
        /\ review.evaluation = Evaluate(review.delta)
        /\ review.application = Apply(review.evaluation, head.config, base.waivers, head.waivers, now)
    BY Zenon DEF ReviewIsCurrent, Reviewed, Chain
  <2>2. PICK delta, ev, app, config, b, h, at, ws, G :
          /\ delta = review.delta /\ ev = review.evaluation /\ app = review.application
          /\ config = head.config /\ b = base.waivers /\ h = head.waivers /\ at = now
          /\ ws = BaseWaivers(b, h) /\ G = granted
    OBVIOUS
  <2>3. IsApplication(app, ev, config, b, h, at) /\ app.overall = "passed"
    BY <2>1, <2>2, ApplyFields, Zenon
  <2>4. /\ \A f \in ev.findings : f.disposition \in {"failed", "requires-review"} =>
             \E i \in DOMAIN ws : WaiverStatus(ws[i], ev.findings, at) = "applied" /\ ws[i].finding = FindingID(f)
        /\ \A g \in app.governance : g.finding.disposition \notin {"failed", "requires-review"}
    <3>1. /\ \A f \in ev.findings : f.disposition \in {"failed", "requires-review"} =>
               \E i \in DOMAIN BaseWaivers(b, h) :
                 /\ WaiverStatus(BaseWaivers(b, h)[i], ev.findings, at) = "applied"
                 /\ BaseWaivers(b, h)[i].finding = FindingID(f)
          /\ \A g \in app.governance : g.finding.disposition \notin {"failed", "requires-review"}
      BY ONLY <2>3, PassedApplication, Zenon
    <3> QED
      BY <2>2, <3>1
  <2>5. app.governance = ConfigGovernance(config) \cup WaiverGovernance(b, h, app.statuses)
    BY <2>3, Zenon DEF IsApplication
  <2>6. ConfigGovernance(config) \cup WaiverGovernance(b, h, app.statuses) = {}
    BY <2>4, <2>5, GovernanceAsks, Zenon
  <2>7. ConfigOk(config) /\ FileOk(b, G) /\ FileOk(h, G)
    BY <2>2, Zenon DEF WaiverInv
  <2>8. /\ config.state \in {"unchanged", "equivalent"}
        /\ HeadState(b, h) \in {"absent-on-both", "unchanged", "equivalent"}
    BY ONLY <2>6, <2>7, NothingGoverned, Zenon
  <2>9. ev.findings = GlobalFindings(delta) \cup UNION {RecordFindings(r) : r \in delta.records}
    BY <2>1, <2>2, EvaluateFields, Zenon
  <2>10. GlobalFindings(delta) = {}
    <3> SUFFICES ASSUME NEW f \in GlobalFindings(delta) PROVE FALSE
      BY Zenon
    <3>1. f \in ev.findings /\ f.rule = "GR-OBS-001" /\ f.disposition \in {"failed", "requires-review"}
      BY <2>9, GlobalFindingFields, Zenon
    <3>2. PICK i \in DOMAIN ws : WaiverStatus(ws[i], ev.findings, at) = "applied" /\ ws[i].finding = FindingID(f)
      BY <2>4, <3>1, Zenon
    <3>3. PICK w, F : w = ws[i] /\ F = ev.findings
      OBVIOUS
    <3>4. WaiverStatus(w, F, at) = "applied" /\ FindingID(f) = w.finding /\ f \in F
      BY <3>1, <3>2, <3>3
    <3>5. f.rule \in Waivable
      BY ONLY <3>4, AppliedWaiver
    <3> QED
      BY <3>1, <3>5 DEF Waivable
  <2>11. /\ bundle.executionComplete /\ bundle.evidenceComplete /\ ~NotReal(bundle.runner)
    <3>1. ~Incomplete(delta) /\ ~NotReal(delta.context)
      BY <2>10, SomeGlobalFinding, Zenon
    <3>2. /\ delta.executionComplete = bundle.executionComplete
          /\ delta.evidenceComplete = bundle.evidenceComplete
          /\ delta.context = bundle.runner
      <4>1. PICK x, y : x = bundle /\ y = plan.ignore
        OBVIOUS
      <4>2. delta = CompareTraces(Normalize(x, y))
        BY <2>1, <2>2, <4>1
      <4>3. /\ delta.executionComplete = x.executionComplete
            /\ delta.evidenceComplete = x.evidenceComplete
            /\ delta.context = x.runner
        BY ONLY <4>2, DeltaFields, Zenon
      <4> QED
        BY <4>1, <4>3
    <3> QED
      BY <3>1, <3>2, Zenon DEF Incomplete
  <2>12. ASSUME NEW r \in delta.records, NEW rule \in RulesFor(r)
         PROVE  /\ IsGranted(r, rule)
                /\ \E i \in DOMAIN base.waivers.text.waivers : base.waivers.text.waivers[i].rule = rule
    <3>1. PICK f : f = Finding(rule, {RecordID(r)}, <<"record">>, {r.scenario}, RuleConfidence(rule, r), "requires-review")
      OBVIOUS
    <3>2. f \in ev.findings
      <4>1. f \in RecordFindings(r)
        BY <2>12, <3>1, Zenon DEF RecordFindings
      <4> QED
        BY <2>9, <2>12, <4>1
    <3>3. /\ f.rule = rule /\ f.disposition = "requires-review"
          /\ FindingID(f) = <<rule, {RecordID(r)}, <<"record">>, {r.scenario}>>
      BY ONLY <3>1 DEF Finding, FindingID
    <3>4. PICK i \in DOMAIN ws : WaiverStatus(ws[i], ev.findings, at) = "applied" /\ ws[i].finding = FindingID(f)
      BY <2>4, <3>2, <3>3, Zenon
    <3>5. PICK w, F : w = ws[i] /\ F = ev.findings
      OBVIOUS
    <3>6. WaiverStatus(w, F, at) = "applied" /\ FindingID(f) = w.finding /\ f \in F
      BY <3>2, <3>4, <3>5
    <3>7. w.issued <= at /\ at < w.expires /\ f.rule = w.rule
      BY ONLY <3>6, AppliedWaiver
    <3>8. ws = b.text.waivers /\ BaseState(b) = "valid"
      <4>1. BaseState(b) = "valid" \/ ws = <<>>
        BY <2>2 DEF BaseWaivers
      <4> QED
        BY <2>2, <3>4, <4>1 DEF BaseWaivers
    <3>9. ParseOk(b.text)
      BY <3>8 DEF BaseState
    <3>10. WaiversOk(ws) /\ Honest(ws, G)
      BY <2>7, <3>8, <3>9, Zenon DEF ParseOk, WaiversOk, FileOk
    <3>11. w.finding[1] = rule /\ w.finding[2] = {RecordID(r)}
      BY <3>3, <3>6
    <3>12. PICK g \in G : GrantedBy(w, g)
      BY <3>3, <3>4, <3>5, <3>7, <3>10, <3>11, Zenon DEF Honest
    <3>13. RecordID(g.record) = RecordID(r)
      <4>1. {RecordID(g.record)} = {RecordID(r)}
        BY <3>11, <3>12, Zenon DEF GrantedBy
      <4> QED
        BY <4>1, Zenon
    <3>14. /\ g.rule = rule /\ g.issued <= at /\ at < g.expires
           /\ [g.record EXCEPT !.basis = "", !.ambiguous = FALSE] = [r EXCEPT !.basis = "", !.ambiguous = FALSE]
      <4>1. g.rule = rule /\ g.issued = w.issued /\ g.expires = w.expires
        BY <3>3, <3>7, <3>12, Zenon DEF GrantedBy
      <4>2. [g.record EXCEPT !.basis = "", !.ambiguous = FALSE] = [r EXCEPT !.basis = "", !.ambiguous = FALSE]
        BY <3>13, Zenon DEF RecordID
      <4>3. g.issued <= at /\ at < g.expires
        BY <3>7, <4>1
      <4> QED
        BY <4>1, <4>2, <4>3, Zenon
    <3>15. IsGranted(r, rule)
      BY <2>2, <3>14, Zenon DEF IsGranted
    <3> QED
      BY <2>2, <3>3, <3>5, <3>7, <3>8, <3>15, Zenon
  <2> QED
    BY <2>2, <2>8, <2>11, <2>12, Zenon DEF PassedIsReviewed
<1> QED
  BY <1>1, Current, WaiversAreHonest, PTL

-----------------------------------------------------------------------------
(* The records of a delta.                                                 *)

IsRecord(r) ==
  r = [kind |-> r.kind, scenario |-> r.scenario, basis |-> r.basis, of |-> r.of, base |-> r.base,
       head |-> r.head, baseOccurrence |-> r.baseOccurrence, headOccurrence |-> r.headOccurrence,
       changed |-> r.changed, ambiguous |-> r.ambiguous]

LEMMA RecordFields ==
  ASSUME NEW kind, NEW scenario, NEW basis, NEW of, NEW b, NEW h, NEW bocc, NEW hocc, NEW changed,
         NEW r, r = Record(kind, scenario, basis, of, b, h, bocc, hocc, changed)
  PROVE  /\ IsRecord(r) /\ r.kind = kind /\ r.scenario = scenario /\ r.basis = basis /\ r.of = of
         /\ r.base = b /\ r.head = h /\ r.baseOccurrence = bocc /\ r.headOccurrence = hocc
BY DEF Record, IsRecord

LEMMA AmbiguousFields ==
  ASSUME NEW r, IsRecord(r), NEW a, NEW q, q = [r EXCEPT !.ambiguous = a]
  PROVE  /\ IsRecord(q) /\ q.kind = r.kind /\ q.scenario = r.scenario /\ q.basis = r.basis /\ q.of = r.of
         /\ q.base = r.base /\ q.head = r.head /\ q.baseOccurrence = r.baseOccurrence
         /\ q.headOccurrence = r.headOccurrence
<1>1. q = [kind |-> r.kind, scenario |-> r.scenario, basis |-> r.basis, of |-> r.of, base |-> r.base,
           head |-> r.head, baseOccurrence |-> r.baseOccurrence, headOccurrence |-> r.headOccurrence,
           changed |-> r.changed, ambiguous |-> a]
  BY DEF IsRecord
<1> QED
  BY <1>1 DEF IsRecord

LEMMA BasisFields ==
  ASSUME NEW r, IsRecord(r), NEW e, NEW q, q = [r EXCEPT !.basis = e]
  PROVE  /\ IsRecord(q) /\ q.kind = r.kind /\ q.scenario = r.scenario /\ q.of = r.of
         /\ q.base = r.base /\ q.head = r.head
<1>1. q = [kind |-> r.kind, scenario |-> r.scenario, basis |-> e, of |-> r.of, base |-> r.base,
           head |-> r.head, baseOccurrence |-> r.baseOccurrence, headOccurrence |-> r.headOccurrence,
           changed |-> r.changed, ambiguous |-> r.ambiguous]
  BY DEF IsRecord
<1> QED
  BY <1>1 DEF IsRecord

\* The identifier of a record covers all but what a record rests on.
LEMMA RecordIDFields ==
  ASSUME NEW r, IsRecord(r)
  PROVE  LET i == RecordID(r)
         IN  i.kind = r.kind /\ i.scenario = r.scenario /\ i.base = r.base /\ i.head = r.head
<1>1. PICK e, n : e = "" /\ n = FALSE
  OBVIOUS
<1>0. PICK q : q = [r EXCEPT !.basis = e]
  OBVIOUS
<1>2. PICK i : i = [q EXCEPT !.ambiguous = n]
  OBVIOUS
<1>3. IsRecord(q) /\ q.kind = r.kind /\ q.scenario = r.scenario /\ q.base = r.base /\ q.head = r.head
  BY ONLY IsRecord(r), <1>0, BasisFields
<1>4. i.kind = q.kind /\ i.scenario = q.scenario /\ i.base = q.base /\ i.head = q.head
  BY ONLY <1>2, <1>3, AmbiguousFields
<1>5. i = RecordID(r)
  BY <1>0, <1>1, <1>2, Zenon DEF RecordID
<1> QED
  BY <1>3, <1>4, <1>5, Zenon

LEMMA SameID ==
  ASSUME NEW r, NEW q, IsRecord(r), IsRecord(q), RecordID(r) = RecordID(q)
  PROVE  r.kind = q.kind /\ r.scenario = q.scenario /\ r.base = q.base /\ r.head = q.head
BY RecordIDFields, Zenon

LEMMA OccurrenceRecordFields ==
  ASSUME NEW s, NEW b, NEW h, NEW d, NEW r, r = OccurrenceRecord(s, b, h, d),
         NEW bo, bo = OccurrenceProfile(b, d), NEW ho, ho = OccurrenceProfile(h, d)
  PROVE  /\ IsRecord(r) /\ r.kind \in {"stability-changed", "count-changed"} /\ r.scenario = s
         /\ r.basis = Basis({bo, ho}) /\ r.of = d.kind /\ r.base = <<d>> /\ r.head = <<d>>
         /\ r.baseOccurrence = bo /\ r.headOccurrence = ho
<1>1. PICK k, bs, x, kd, e :
         /\ k = (IF bo.repeatability # ho.repeatability THEN "stability-changed" ELSE "count-changed")
         /\ bs = Basis({bo, ho}) /\ x = <<d>> /\ kd = d.kind /\ e = {}
  OBVIOUS
<1>2. r = Record(k, s, bs, kd, x, x, bo, ho, e)
  BY <1>1, Zenon DEF OccurrenceRecord
<1>4. /\ IsRecord(r) /\ r.kind = k /\ r.scenario = s /\ r.basis = bs /\ r.of = kd
      /\ r.base = x /\ r.head = x /\ r.baseOccurrence = bo /\ r.headOccurrence = ho
  BY ONLY <1>2, RecordFields
<1>5. k \in {"stability-changed", "count-changed"}
  BY ONLY <1>1
<1> QED
  BY <1>1, <1>4, <1>5, Zenon

LEMMA OccurrenceRecordShape ==
  ASSUME NEW s, NEW b, NEW h, NEW d, NEW r, r = OccurrenceRecord(s, b, h, d)
  PROVE  /\ IsRecord(r) /\ r.kind \in {"stability-changed", "count-changed"} /\ r.scenario = s
         /\ r.base = <<d>> /\ r.head = <<d>>
<1>1. PICK bo, ho, bs : bo = OccurrenceProfile(b, d) /\ ho = OccurrenceProfile(h, d) /\ bs = Basis({bo, ho})
  OBVIOUS
<1>2. PICK k, x, kd, e :
         /\ k = (IF bo.repeatability # ho.repeatability THEN "stability-changed" ELSE "count-changed")
         /\ x = <<d>> /\ kd = d.kind /\ e = {}
  OBVIOUS
<1>3. r = Record(k, s, bs, kd, x, x, bo, ho, e)
  BY <1>1, <1>2, Zenon DEF OccurrenceRecord
<1>4. IsRecord(r) /\ r.kind = k /\ r.scenario = s /\ r.base = x /\ r.head = x
  BY ONLY <1>3, RecordFields
<1>5. k \in {"stability-changed", "count-changed"}
  BY ONLY <1>2
<1> QED
  BY <1>2, <1>4, <1>5, Zenon

LEMMA ModifiedRecordFields ==
  ASSUME NEW s, NEW b, NEW h, NEW d, NEW e, NEW r, r = ModifiedRecord(s, b, h, d, e),
         NEW bo, bo = OccurrenceProfile(b, d), NEW ho, ho = OccurrenceProfile(h, e)
  PROVE  /\ IsRecord(r) /\ r.kind = "modified" /\ r.scenario = s
         /\ r.basis = Basis({bo, ho}) /\ r.of = e.kind /\ r.base = <<d>> /\ r.head = <<e>>
         /\ r.baseOccurrence = bo /\ r.headOccurrence = ho
<1>1. PICK k, bs, x, y, kd, c :
         /\ k = "modified"
         /\ bs = Basis({bo, ho}) /\ x = <<d>> /\ y = <<e>> /\ kd = e.kind /\ c = ChangedFields(d, e)
  OBVIOUS
<1>2. r = Record(k, s, bs, kd, x, y, bo, ho, c)
  BY <1>1, Zenon DEF ModifiedRecord
<1>4. /\ IsRecord(r) /\ r.kind = k /\ r.scenario = s /\ r.basis = bs /\ r.of = kd
      /\ r.base = x /\ r.head = y /\ r.baseOccurrence = bo /\ r.headOccurrence = ho
  BY ONLY <1>2, RecordFields
<1> QED
  BY <1>1, <1>4, Zenon

LEMMA ModifiedRecordShape ==
  ASSUME NEW s, NEW b, NEW h, NEW d, NEW e, NEW r, r = ModifiedRecord(s, b, h, d, e)
  PROVE  IsRecord(r) /\ r.kind = "modified" /\ r.scenario = s /\ r.base = <<d>> /\ r.head = <<e>>
<1>1. PICK bo, ho, bs : bo = OccurrenceProfile(b, d) /\ ho = OccurrenceProfile(h, e) /\ bs = Basis({bo, ho})
  OBVIOUS
<1>2. PICK k, x, y, kd, c : k = "modified" /\ x = <<d>> /\ y = <<e>> /\ kd = e.kind /\ c = ChangedFields(d, e)
  OBVIOUS
<1>3. r = Record(k, s, bs, kd, x, y, bo, ho, c)
  BY <1>1, <1>2, Zenon DEF ModifiedRecord
<1>4. IsRecord(r) /\ r.kind = k /\ r.scenario = s /\ r.base = x /\ r.head = y
  BY ONLY <1>3, RecordFields
<1> QED
  BY <1>2, <1>4, Zenon

LEMMA RemovedRecordFields ==
  ASSUME NEW s, NEW b, NEW h, NEW d
  PROVE  LET r == RemovedRecord(s, b, h, d)
             o == OccurrenceProfile(b, d)
         IN  /\ IsRecord(r) /\ r.kind = (IF AttemptsComplete(h) THEN "removed" ELSE "coverage-changed")
             /\ r.scenario = s /\ r.basis = BasisForAbsence(AttemptsComplete(h), o) /\ r.of = d.kind
             /\ r.base = <<d>> /\ r.head = <<>>
<1>1. PICK o, k, bs, x, y, kd, e, a, z :
         /\ o = OccurrenceProfile(b, d) /\ k = (IF AttemptsComplete(h) THEN "removed" ELSE "coverage-changed")
         /\ bs = BasisForAbsence(AttemptsComplete(h), o) /\ x = <<d>> /\ y = Nothing /\ kd = d.kind /\ e = {}
         /\ a = Ambiguous(d, Variants(b) \ Variants(h), Variants(h) \ Variants(b))
         /\ z = EmptyOccurrence
  OBVIOUS
<1>2. PICK q : q = Record(k, s, bs, kd, x, y, o, z, e)
  OBVIOUS
<1>3. PICK r : r = [q EXCEPT !.ambiguous = a]
  OBVIOUS
<1>4. r = RemovedRecord(s, b, h, d)
  BY <1>1, <1>2, <1>3, Zenon DEF RemovedRecord
<1>5. /\ IsRecord(q) /\ q.kind = k /\ q.scenario = s /\ q.basis = bs /\ q.of = kd /\ q.base = x /\ q.head = y
  BY ONLY <1>2, RecordFields
<1>6. /\ IsRecord(r) /\ r.kind = k /\ r.scenario = s /\ r.basis = bs /\ r.of = kd /\ r.base = x /\ r.head = y
  BY ONLY <1>3, <1>5, AmbiguousFields
<1> QED
  BY <1>1, <1>4, <1>6, Zenon DEF Nothing

LEMMA AddedRecordFields ==
  ASSUME NEW s, NEW b, NEW h, NEW d
  PROVE  LET r == AddedRecord(s, b, h, d)
             o == OccurrenceProfile(h, d)
         IN  /\ IsRecord(r) /\ r.kind = (IF AttemptsComplete(b) THEN "added" ELSE "coverage-changed")
             /\ r.scenario = s /\ r.basis = BasisForAbsence(AttemptsComplete(b), o) /\ r.of = d.kind
             /\ r.base = <<>> /\ r.head = <<d>>
<1>1. PICK o, k, bs, x, y, kd, e, a, z :
         /\ o = OccurrenceProfile(h, d) /\ k = (IF AttemptsComplete(b) THEN "added" ELSE "coverage-changed")
         /\ bs = BasisForAbsence(AttemptsComplete(b), o) /\ x = <<d>> /\ y = Nothing /\ kd = d.kind /\ e = {}
         /\ a = Ambiguous(d, Variants(h) \ Variants(b), Variants(b) \ Variants(h))
         /\ z = EmptyOccurrence
  OBVIOUS
<1>2. PICK q : q = Record(k, s, bs, kd, y, x, z, o, e)
  OBVIOUS
<1>3. PICK r : r = [q EXCEPT !.ambiguous = a]
  OBVIOUS
<1>4. r = AddedRecord(s, b, h, d)
  BY <1>1, <1>2, <1>3, Zenon DEF AddedRecord
<1>5. /\ IsRecord(q) /\ q.kind = k /\ q.scenario = s /\ q.basis = bs /\ q.of = kd /\ q.base = y /\ q.head = x
  BY ONLY <1>2, RecordFields
<1>6. /\ IsRecord(r) /\ r.kind = k /\ r.scenario = s /\ r.basis = bs /\ r.of = kd /\ r.base = y /\ r.head = x
  BY ONLY <1>3, <1>5, AmbiguousFields
<1> QED
  BY <1>1, <1>4, <1>6, Zenon DEF Nothing

\* The two sides of a scenario.
Unmatched(mine, theirs) == Variants(mine) \ Variants(theirs)
PairsOf(b, h) == ModifiedPairs(Unmatched(b, h), Unmatched(h, b))

\* A record of a scenario is of one of six kinds.
RecordCase(r, s, b, h) ==
  \/ \E d \in Variants(b) \cap Variants(h) :
       OccurrenceProfile(b, d) # OccurrenceProfile(h, d) /\ r = OccurrenceRecord(s, b, h, d)
  \/ \E p \in PairsOf(b, h) : r = ModifiedRecord(s, b, h, p[1], p[2])
  \/ \E d \in Unmatched(b, h) \ {p[1] : p \in PairsOf(b, h)} : r = RemovedRecord(s, b, h, d)
  \/ \E d \in Unmatched(h, b) \ {p[2] : p \in PairsOf(b, h)} : r = AddedRecord(s, b, h, d)
  \/ r \in OrderRecords(s, b, h)
  \/ r = CoverageRecord(s) /\ ~(AttemptsComplete(b) /\ AttemptsComplete(h))

LEMMA ScenarioRecords ==
  ASSUME NEW trace, NEW s, NEW b, NEW h, b = AttemptsOf(trace, s, "base"), h = AttemptsOf(trace, s, "head"), NEW r
  PROVE  r \in CompareScenario(trace, s) <=> RecordCase(r, s, b, h)
<1>1. CompareScenario(trace, s) =
        OccurrenceRecords(s, b, h) \cup ModifiedRecords(s, b, h, PairsOf(b, h))
        \cup {RemovedRecord(s, b, h, d) : d \in Unmatched(b, h) \ {p[1] : p \in PairsOf(b, h)}}
        \cup {AddedRecord(s, b, h, d) : d \in Unmatched(h, b) \ {p[2] : p \in PairsOf(b, h)}}
        \cup OrderRecords(s, b, h)
        \cup (IF AttemptsComplete(b) /\ AttemptsComplete(h) THEN {} ELSE {CoverageRecord(s)})
  BY DEF CompareScenario, PairsOf, Unmatched
<1>2. r \in OccurrenceRecords(s, b, h) <=>
        \E d \in Variants(b) \cap Variants(h) :
          OccurrenceProfile(b, d) # OccurrenceProfile(h, d) /\ r = OccurrenceRecord(s, b, h, d)
  BY Zenon DEF OccurrenceRecords
<1>3. r \in ModifiedRecords(s, b, h, PairsOf(b, h)) <=>
        \E p \in PairsOf(b, h) : r = ModifiedRecord(s, b, h, p[1], p[2])
  BY Zenon DEF ModifiedRecords
<1>4. r \in (IF AttemptsComplete(b) /\ AttemptsComplete(h) THEN {} ELSE {CoverageRecord(s)})
        <=> r = CoverageRecord(s) /\ ~(AttemptsComplete(b) /\ AttemptsComplete(h))
  BY Zenon
<1>5. r \in {RemovedRecord(s, b, h, d) : d \in Unmatched(b, h) \ {p[1] : p \in PairsOf(b, h)}}
        <=> \E d \in Unmatched(b, h) \ {p[1] : p \in PairsOf(b, h)} : r = RemovedRecord(s, b, h, d)
  OBVIOUS
<1>6. r \in {AddedRecord(s, b, h, d) : d \in Unmatched(h, b) \ {p[2] : p \in PairsOf(b, h)}}
        <=> \E d \in Unmatched(h, b) \ {p[2] : p \in PairsOf(b, h)} : r = AddedRecord(s, b, h, d)
  OBVIOUS
<1> QED
  BY <1>1, <1>2, <1>3, <1>4, <1>5, <1>6, Zenon DEF RecordCase

LEMMA CoverageRecordFields ==
  ASSUME NEW s
  PROVE  LET r == CoverageRecord(s)
         IN  /\ IsRecord(r) /\ r.kind = "coverage-changed" /\ r.scenario = s /\ r.basis = "coverage-limited"
             /\ r.of = "scenario-coverage" /\ r.base = <<>> /\ r.head = <<>>
BY DEF CoverageRecord, Record, IsRecord, Nothing

LEMMA OrderRecordFields ==
  ASSUME NEW s, NEW b, NEW h, NEW r \in OrderRecords(s, b, h)
  PROVE  /\ IsRecord(r) /\ r.kind = "order-changed" /\ r.scenario = s /\ r.of = "sequence"
         /\ \A q \in OrderRecords(s, b, h) : q = r
<1>1. PICK x, y : x = StableSequence(b) /\ y = StableSequence(h)
  OBVIOUS
<1>2. \A q \in OrderRecords(s, b, h) :
         q = Record("order-changed", s, "complete-observation", "sequence", x, y, EmptyOccurrence, EmptyOccurrence, {"order"})
  BY <1>1, Zenon DEF OrderRecords
<1>3. \A q \in OrderRecords(s, b, h) : q = r
  BY <1>2, Zenon
<1>4. PICK e : e = EmptyOccurrence
  OBVIOUS
<1>5. r = Record("order-changed", s, "complete-observation", "sequence", x, y, e, e, {"order"})
  BY <1>2, <1>4, Zenon
<1>6. IsRecord(r) /\ r.kind = "order-changed" /\ r.scenario = s /\ r.of = "sequence"
  BY ONLY <1>5 DEF Record, IsRecord
<1> QED
  BY <1>3, <1>6, Zenon

LEMMA Singletons == ASSUME NEW x, NEW y PROVE <<x>> # <<>> /\ (<<x>> = <<y>> => x = y)
<1>1. <<x>>[1] = x /\ <<y>>[1] = y /\ Len(<<x>>) = 1 /\ Len(<<>>) = 0
  OBVIOUS
<1> QED
  BY <1>1

\* The case of a record, by its kind.
IsOccurrence(r, s, b, h) ==
  \E d \in Variants(b) \cap Variants(h) :
    /\ OccurrenceProfile(b, d) # OccurrenceProfile(h, d)
    /\ r = OccurrenceRecord(s, b, h, d) /\ r.base = <<d>> /\ r.head = <<d>>
IsModified(r, s, b, h) ==
  \E p \in PairsOf(b, h) : r = ModifiedRecord(s, b, h, p[1], p[2]) /\ r.base = <<p[1]>> /\ r.head = <<p[2]>>
IsRemoved(r, s, b, h) ==
  \E d \in Unmatched(b, h) \ {p[1] : p \in PairsOf(b, h)} :
    r = RemovedRecord(s, b, h, d) /\ r.base = <<d>> /\ r.head = <<>>
IsAdded(r, s, b, h) ==
  \E d \in Unmatched(h, b) \ {p[2] : p \in PairsOf(b, h)} :
    r = AddedRecord(s, b, h, d) /\ r.base = <<>> /\ r.head = <<d>>
IsCoverage(r, s, b, h) ==
  r = CoverageRecord(s) /\ r.base = <<>> /\ r.head = <<>> /\ ~(AttemptsComplete(b) /\ AttemptsComplete(h))

OccurrenceKinds == {"stability-changed", "count-changed"}
OneSidedKinds == {"removed", "added", "coverage-changed"}

\* What the kind of a record says about its case.
LEMMA RecordShape ==
  ASSUME NEW r, NEW s, NEW b, NEW h, RecordCase(r, s, b, h)
  PROVE  /\ IsRecord(r) /\ r.scenario = s
         /\ r.kind \in OccurrenceKinds => IsOccurrence(r, s, b, h)
         /\ r.kind = "modified" => IsModified(r, s, b, h)
         /\ r.kind = "order-changed" => r \in OrderRecords(s, b, h)
         /\ r.kind \in OneSidedKinds => IsRemoved(r, s, b, h) \/ IsAdded(r, s, b, h) \/ IsCoverage(r, s, b, h)
         /\ r.kind \in OccurrenceKinds \cup OneSidedKinds \cup {"modified", "order-changed"}
<1>1. CASE \E d \in Variants(b) \cap Variants(h) :
             OccurrenceProfile(b, d) # OccurrenceProfile(h, d) /\ r = OccurrenceRecord(s, b, h, d)
  <2>1. PICK d \in Variants(b) \cap Variants(h) :
             OccurrenceProfile(b, d) # OccurrenceProfile(h, d) /\ r = OccurrenceRecord(s, b, h, d)
    BY <1>1
  <2>2. /\ IsRecord(r) /\ r.kind \in {"stability-changed", "count-changed"} /\ r.scenario = s
        /\ r.base = <<d>> /\ r.head = <<d>>
    BY ONLY <2>1, OccurrenceRecordShape
  <2>3. r.kind \in OccurrenceKinds /\ r.kind \notin OneSidedKinds \cup {"modified", "order-changed"}
    BY <2>2 DEF OccurrenceKinds, OneSidedKinds
  <2>4. IsOccurrence(r, s, b, h)
    BY <2>1, <2>2, Zenon DEF IsOccurrence
  <2> QED
    BY <2>2, <2>3, <2>4, Zenon
<1>2. CASE \E p \in PairsOf(b, h) : r = ModifiedRecord(s, b, h, p[1], p[2])
  <2>1. PICK p \in PairsOf(b, h) : r = ModifiedRecord(s, b, h, p[1], p[2])
    BY <1>2
  <2>2. PICK x, y : x = p[1] /\ y = p[2] /\ r = ModifiedRecord(s, b, h, x, y)
    BY <2>1
  <2>3. IsRecord(r) /\ r.kind = "modified" /\ r.scenario = s /\ r.base = <<x>> /\ r.head = <<y>>
    BY ONLY <2>2, ModifiedRecordShape
  <2>4. r.kind \notin OccurrenceKinds \cup OneSidedKinds \cup {"order-changed"}
    BY <2>3 DEF OccurrenceKinds, OneSidedKinds
  <2>5. IsModified(r, s, b, h)
    BY <2>1, <2>2, <2>3, Zenon DEF IsModified
  <2> QED
    BY <2>3, <2>4, <2>5, Zenon
<1>3. CASE \E d \in Unmatched(b, h) \ {p[1] : p \in PairsOf(b, h)} : r = RemovedRecord(s, b, h, d)
  <2>1. PICK d \in Unmatched(b, h) \ {p[1] : p \in PairsOf(b, h)} : r = RemovedRecord(s, b, h, d)
    BY <1>3
  <2>2. /\ IsRecord(r) /\ r.kind = (IF AttemptsComplete(h) THEN "removed" ELSE "coverage-changed")
        /\ r.scenario = s /\ r.base = <<d>> /\ r.head = <<>>
    BY ONLY <2>1, RemovedRecordFields
  <2>3. r.kind \notin OccurrenceKinds \cup {"order-changed", "modified"} /\ r.kind \in OneSidedKinds
    BY <2>2 DEF OccurrenceKinds, OneSidedKinds
  <2>4. IsRemoved(r, s, b, h)
    BY <2>1, <2>2, Zenon DEF IsRemoved
  <2> QED
    BY <2>2, <2>3, <2>4, Zenon
<1>4. CASE \E d \in Unmatched(h, b) \ {p[2] : p \in PairsOf(b, h)} : r = AddedRecord(s, b, h, d)
  <2>1. PICK d \in Unmatched(h, b) \ {p[2] : p \in PairsOf(b, h)} : r = AddedRecord(s, b, h, d)
    BY <1>4
  <2>2. /\ IsRecord(r) /\ r.kind = (IF AttemptsComplete(b) THEN "added" ELSE "coverage-changed")
        /\ r.scenario = s /\ r.base = <<>> /\ r.head = <<d>>
    BY ONLY <2>1, AddedRecordFields
  <2>3. r.kind \notin OccurrenceKinds \cup {"order-changed", "modified"} /\ r.kind \in OneSidedKinds
    BY <2>2 DEF OccurrenceKinds, OneSidedKinds
  <2>4. IsAdded(r, s, b, h)
    BY <2>1, <2>2, Zenon DEF IsAdded
  <2> QED
    BY <2>2, <2>3, <2>4, Zenon
<1>5. CASE r \in OrderRecords(s, b, h)
  <2>1. IsRecord(r) /\ r.kind = "order-changed" /\ r.scenario = s
    BY <1>5, OrderRecordFields, Zenon
  <2>2. r.kind \notin OccurrenceKinds \cup OneSidedKinds \cup {"modified"}
    BY <2>1 DEF OccurrenceKinds, OneSidedKinds
  <2> QED
    BY <1>5, <2>1, <2>2, Zenon
<1>6. CASE r = CoverageRecord(s) /\ ~(AttemptsComplete(b) /\ AttemptsComplete(h))
  <2>1. IsRecord(r) /\ r.kind = "coverage-changed" /\ r.scenario = s /\ r.base = <<>> /\ r.head = <<>>
    BY <1>6, CoverageRecordFields, Zenon
  <2>2. r.kind \notin OccurrenceKinds \cup {"modified", "order-changed"} /\ r.kind \in OneSidedKinds
    BY <2>1 DEF OccurrenceKinds, OneSidedKinds
  <2>3. IsCoverage(r, s, b, h)
    BY <1>6, <2>1, Zenon DEF IsCoverage
  <2> QED
    BY <2>1, <2>2, <2>3, Zenon
<1> QED
  BY <1>1, <1>2, <1>3, <1>4, <1>5, <1>6, Zenon DEF RecordCase

\* Two records of a scenario with the same kind and the same facts are the same record.
LEMMA SameRecord ==
  ASSUME NEW r, NEW q, NEW s, NEW b, NEW h, RecordCase(r, s, b, h), RecordCase(q, s, b, h),
         r.kind = q.kind, r.base = q.base, r.head = q.head
  PROVE  r = q
<1>1. r.kind \in OccurrenceKinds \cup OneSidedKinds \cup {"modified", "order-changed"}
  BY RecordShape, Zenon
<1>2. CASE r.kind \in OccurrenceKinds
  <2>0. IsOccurrence(r, s, b, h) /\ IsOccurrence(q, s, b, h)
    BY <1>2, RecordShape, Zenon
  <2>1. PICK d : r = OccurrenceRecord(s, b, h, d) /\ r.base = <<d>>
    BY <2>0, Zenon DEF IsOccurrence
  <2>2. PICK e : q = OccurrenceRecord(s, b, h, e) /\ q.base = <<e>>
    BY <2>0, Zenon DEF IsOccurrence
  <2>3. d = e
    BY <2>1, <2>2, Singletons
  <2> QED
    BY <2>1, <2>2, <2>3, Zenon
<1>3. CASE r.kind = "modified"
  <2>0. IsModified(r, s, b, h) /\ IsModified(q, s, b, h)
    BY <1>3, RecordShape, Zenon
  <2>1. PICK p : r = ModifiedRecord(s, b, h, p[1], p[2]) /\ r.base = <<p[1]>> /\ r.head = <<p[2]>>
    BY <2>0, Zenon DEF IsModified
  <2>2. PICK o : q = ModifiedRecord(s, b, h, o[1], o[2]) /\ q.base = <<o[1]>> /\ q.head = <<o[2]>>
    BY <2>0, Zenon DEF IsModified
  <2>3. p[1] = o[1] /\ p[2] = o[2]
    BY <2>1, <2>2, Singletons
  <2> QED
    BY <2>1, <2>2, <2>3, Zenon
<1>4. CASE r.kind = "order-changed"
  <2>1. r \in OrderRecords(s, b, h) /\ q \in OrderRecords(s, b, h)
    BY <1>4, RecordShape, Zenon
  <2> QED
    BY <2>1, OrderRecordFields, Zenon
<1>5. CASE r.kind \in OneSidedKinds
  <2>0. /\ IsRemoved(r, s, b, h) \/ IsAdded(r, s, b, h) \/ IsCoverage(r, s, b, h)
        /\ IsRemoved(q, s, b, h) \/ IsAdded(q, s, b, h) \/ IsCoverage(q, s, b, h)
    BY <1>5, RecordShape, Zenon
  <2>1. \/ \E d : r = RemovedRecord(s, b, h, d) /\ r.base = <<d>> /\ r.head = <<>>
        \/ \E d : r = AddedRecord(s, b, h, d) /\ r.base = <<>> /\ r.head = <<d>>
        \/ r = CoverageRecord(s) /\ r.base = <<>> /\ r.head = <<>>
    BY <2>0, Zenon DEF IsRemoved, IsAdded, IsCoverage
  <2>2. \/ \E d : q = RemovedRecord(s, b, h, d) /\ q.base = <<d>> /\ q.head = <<>>
        \/ \E d : q = AddedRecord(s, b, h, d) /\ q.base = <<>> /\ q.head = <<d>>
        \/ q = CoverageRecord(s) /\ q.base = <<>> /\ q.head = <<>>
    BY <2>0, Zenon DEF IsRemoved, IsAdded, IsCoverage
  <2>3. CASE \E d : r = RemovedRecord(s, b, h, d) /\ r.base = <<d>> /\ r.head = <<>>
    <3>1. PICK d : r = RemovedRecord(s, b, h, d) /\ r.base = <<d>> /\ r.head = <<>>
      BY <2>3
    <3>2. PICK e : q = RemovedRecord(s, b, h, e) /\ q.base = <<e>>
      BY <2>2, <3>1, Singletons, Zenon
    <3>3. d = e
      BY <3>1, <3>2, Singletons
    <3> QED
      BY <3>1, <3>2, <3>3, Zenon
  <2>4. CASE \E d : r = AddedRecord(s, b, h, d) /\ r.base = <<>> /\ r.head = <<d>>
    <3>1. PICK d : r = AddedRecord(s, b, h, d) /\ r.base = <<>> /\ r.head = <<d>>
      BY <2>4
    <3>2. PICK e : q = AddedRecord(s, b, h, e) /\ q.head = <<e>>
      BY <2>2, <3>1, Singletons, Zenon
    <3>3. d = e
      BY <3>1, <3>2, Singletons
    <3> QED
      BY <3>1, <3>2, <3>3, Zenon
  <2>5. CASE r = CoverageRecord(s) /\ r.base = <<>> /\ r.head = <<>>
    BY <2>2, <2>5, Singletons, Zenon
  <2> QED
    BY <2>1, <2>3, <2>4, <2>5, Zenon
<1> QED
  BY <1>1, <1>2, <1>3, <1>4, <1>5, Zenon

\* A record of a comparison is one of a scenario of the trace.
LEMMA DeltaRecord ==
  ASSUME NEW trace, NEW r, r \in CompareTraces(trace).records
  PROVE  \E s \in ScenariosOf(trace) :
           r \in CompareScenario(trace, s) /\ RecordCase(r, s, AttemptsOf(trace, s, "base"), AttemptsOf(trace, s, "head"))
<1>1. CompareTraces(trace).records = UNION {CompareScenario(trace, s) : s \in ScenariosOf(trace)}
  BY DEF CompareTraces
<1>2. PICK s \in ScenariosOf(trace) : r \in CompareScenario(trace, s)
  BY <1>1
<1>3. PICK b, h : b = AttemptsOf(trace, s, "base") /\ h = AttemptsOf(trace, s, "head")
  OBVIOUS
<1>4. RecordCase(r, s, b, h)
  BY <1>2, <1>3, ScenarioRecords
<1> QED
  BY <1>2, <1>3, <1>4, Zenon

\* The identifiers of a delta's records are distinct, whatever was compared.
LEMMA DeltaIsAlwaysValid ==
  ASSUME NEW trace, NEW delta, delta.records = CompareTraces(trace).records
  PROVE  DeltaIsValid(delta)
<1> SUFFICES ASSUME NEW r \in delta.records, NEW q \in delta.records, RecordID(r) = RecordID(q)
             PROVE  r = q
  BY DEF DeltaIsValid
<1>1. PICK s : RecordCase(r, s, AttemptsOf(trace, s, "base"), AttemptsOf(trace, s, "head"))
  BY DeltaRecord, Zenon
<1>2. PICK t : RecordCase(q, t, AttemptsOf(trace, t, "base"), AttemptsOf(trace, t, "head"))
  BY DeltaRecord, Zenon
<1>3. IsRecord(r) /\ r.scenario = s
  BY <1>1, RecordShape, Zenon
<1>4. IsRecord(q) /\ q.scenario = t
  BY <1>2, RecordShape, Zenon
<1>5. r.kind = q.kind /\ r.scenario = q.scenario /\ r.base = q.base /\ r.head = q.head
  BY <1>3, <1>4, SameID, Zenon
<1> QED
  BY <1>1, <1>2, <1>3, <1>4, <1>5, SameRecord, Zenon

-----------------------------------------------------------------------------
(* The report hangs together.                                              *)

LEMMA FindingIDParts ==
  ASSUME NEW f, NEW g, FindingID(f) = FindingID(g)
  PROVE  f.rule = g.rule /\ f.records = g.records /\ f.scope = g.scope
BY DEF FindingID

\* A finding of an evaluation is the one about the run as a whole or of a rule about a record.
LEMMA FindingCases ==
  ASSUME NEW delta, NEW f \in Evaluate(delta).findings
  PROVE  \/ f \in GlobalFindings(delta)
         \/ \E r \in delta.records : \E rule \in RulesFor(r) :
              f = Finding(rule, {RecordID(r)}, <<"record">>, {r.scenario}, RuleConfidence(rule, r), "requires-review")
<1>1. f \in GlobalFindings(delta) \cup UNION {RecordFindings(r) : r \in delta.records}
  BY EvaluateFields, Zenon
<1>2. CASE f \in GlobalFindings(delta)
  BY <1>2
<1>3. CASE f \in UNION {RecordFindings(r) : r \in delta.records}
  <2>1. PICK r \in delta.records : f \in RecordFindings(r)
    BY <1>3, Zenon
  <2>2. PICK rule \in RulesFor(r) :
          f = Finding(rule, {RecordID(r)}, <<"record">>, {r.scenario}, RuleConfidence(rule, r), "requires-review")
    BY <2>1, Zenon DEF RecordFindings
  <2> QED
    BY <2>2, Zenon
<1> QED
  BY <1>1, <1>2, <1>3, Zenon

LEMMA OneGlobalFinding ==
  ASSUME NEW delta, NEW f \in GlobalFindings(delta), NEW g \in GlobalFindings(delta)
  PROVE  f = g
<1>1. PICK x, y : /\ x = Finding("GR-OBS-001", {}, <<"global-incomplete">>, {}, "high", "failed")
                  /\ y = Finding("GR-OBS-001", {}, <<"global-synthetic">>, {}, "high", "requires-review")
  OBVIOUS
<1>2. GlobalFindings(delta) = {x} \/ GlobalFindings(delta) = {y} \/ GlobalFindings(delta) = {}
  BY <1>1 DEF GlobalFindings
<1>3. f \in GlobalFindings(delta) /\ g \in GlobalFindings(delta)
  OBVIOUS
<1> QED
  BY <1>2, <1>3

LEMMA RecordRuleNames ==
  ASSUME NEW r, NEW rule \in RulesFor(r)
  PROVE  rule \notin {"GR-CONFIG-001", "GR-WAIVER-001"}
BY DEF RulesFor, RecordRules, Waivable

\* The findings of a valid delta have distinct identifiers, name no other record, and are
\* not of the governance rules.
LEMMA FindingsAreDistinct ==
  ASSUME NEW delta, DeltaIsValid(delta), NEW f \in Evaluate(delta).findings
  PROVE  /\ \A g \in Evaluate(delta).findings : FindingID(f) = FindingID(g) => f = g
         /\ f.records \subseteq {RecordID(r) : r \in delta.records}
         /\ f.rule \notin {"GR-CONFIG-001", "GR-WAIVER-001"}
<1>1. CASE f \in GlobalFindings(delta)
  <2>1. f.rule = "GR-OBS-001" /\ f.records = {}
    BY <1>1, GlobalFindingFields, Zenon
  <2>2. ASSUME NEW g \in Evaluate(delta).findings, FindingID(f) = FindingID(g) PROVE f = g
    <3>1. g.records = {}
      BY <2>1, <2>2, FindingIDParts, Zenon
    <3>2. g \in GlobalFindings(delta)
      <4>1. ASSUME NEW r, NEW rule,
                   g = Finding(rule, {RecordID(r)}, <<"record">>, {r.scenario}, RuleConfidence(rule, r), "requires-review")
            PROVE  FALSE
        <5>1. g.records = {RecordID(r)}
          BY <4>1, RecordFindingFields
        <5> QED
          BY <3>1, <5>1, Zenon
      <4> QED
        BY <4>1, FindingCases, Zenon
    <3> QED
      BY <1>1, <3>2, OneGlobalFinding, Zenon
  <2>3. f.rule \notin {"GR-CONFIG-001", "GR-WAIVER-001"}
    BY <2>1
  <2> QED
    BY <2>1, <2>2, <2>3, Zenon
<1>2. ASSUME NEW r \in delta.records, NEW rule \in RulesFor(r),
             f = Finding(rule, {RecordID(r)}, <<"record">>, {r.scenario}, RuleConfidence(rule, r), "requires-review")
      PROVE  /\ \A g \in Evaluate(delta).findings : FindingID(f) = FindingID(g) => f = g
             /\ f.records \subseteq {RecordID(q) : q \in delta.records}
             /\ f.rule \notin {"GR-CONFIG-001", "GR-WAIVER-001"}
  <2>1. f.rule = rule /\ f.records = {RecordID(r)}
    BY ONLY <1>2 DEF Finding
  <2>2. ASSUME NEW g \in Evaluate(delta).findings, FindingID(f) = FindingID(g) PROVE f = g
    <3>1. g.rule = rule /\ g.records = {RecordID(r)}
      BY <2>1, <2>2, FindingIDParts, Zenon
    <3>2. g \notin GlobalFindings(delta)
      <4>1. g.records # {}
        BY <3>1, Zenon
      <4> QED
        BY <4>1, GlobalFindingFields, Zenon
    <3>30. PICK q \in delta.records : \E u \in RulesFor(q) :
            g = Finding(u, {RecordID(q)}, <<"record">>, {q.scenario}, RuleConfidence(u, q), "requires-review")
      BY <3>2, FindingCases, Zenon
    <3>3. PICK u \in RulesFor(q) :
            g = Finding(u, {RecordID(q)}, <<"record">>, {q.scenario}, RuleConfidence(u, q), "requires-review")
      BY <3>30
    <3>4. g.rule = u /\ g.records = {RecordID(q)}
      BY ONLY <3>3 DEF Finding
    <3>5. RecordID(q) = RecordID(r) /\ u = rule
      BY <3>1, <3>4, Zenon
    <3>6. q = r
      BY <3>5, Zenon DEF DeltaIsValid
    <3> QED
      BY <1>2, <3>3, <3>5, <3>6, Zenon
  <2>3. f.rule \notin {"GR-CONFIG-001", "GR-WAIVER-001"}
    BY <2>1, RecordRuleNames, Zenon
  <2> QED
    BY <2>1, <2>2, <2>3, Zenon
<1> QED
  BY <1>1, <1>2, FindingCases, Zenon

\* A governance finding: its scope is a tag and what is governed; one about the
\* configuration has the place of its change in the list.
ChangesOf(config) == IF config.state = "modified-valid" THEN config.changes ELSE <<>>
Placed(changes, tag, x, p) == IF tag = "config" THEN p \in DOMAIN changes /\ changes[p] = x ELSE p = 0
Tagged(g, changes, tag, rule, d) == \E x, p : g = Governance(p, rule, <<tag, x>>, d) /\ Placed(changes, tag, x, p)
ReadDifferently(changes) == \A i, j \in DOMAIN changes : changes[i] = changes[j] => i = j
OfStatus(g, statuses, i) ==
  g = Governance(i, "GR-WAIVER-001", <<"status", statuses[i].id, statuses[i].status>>, "requires-review")

LEMMA GovernanceFields ==
  ASSUME NEW place, NEW rule, NEW scope, NEW d, NEW g, g = Governance(place, rule, scope, d)
  PROVE  g.finding.rule = rule /\ g.finding.scope = scope
BY DEF Governance, Finding

LEMMA ConfigForms ==
  ASSUME NEW config, NEW g \in ConfigGovernance(config)
  PROVE  \/ Tagged(g, ChangesOf(config), "config", "GR-CONFIG-001", "requires-review")
         \/ Tagged(g, ChangesOf(config), "config-state", "GR-CONFIG-001", "requires-review")
<1>0. \A s, c : Placed(c, "config-state", s, 0)
  BY Zenon DEF Placed
<1>1. CASE config.state \in {"unchanged", "equivalent"}
  BY <1>1 DEF ConfigGovernance
<1>2. CASE config.state = "modified-valid"
  <2>1. ConfigGovernance(config)
          = {Governance(i, "GR-CONFIG-001", <<"config", config.changes[i]>>, "requires-review")
               : i \in DOMAIN config.changes}
    BY <1>2 DEF ConfigGovernance
  <2>2. ChangesOf(config) = config.changes
    BY <1>2, Zenon DEF ChangesOf
  <2>3. PICK i \in DOMAIN config.changes :
          g = Governance(i, "GR-CONFIG-001", <<"config", config.changes[i]>>, "requires-review")
    BY <2>1, Zenon
  <2>4. Placed(ChangesOf(config), "config", config.changes[i], i)
    BY <2>2, Zenon DEF Placed
  <2> QED
    BY <2>3, <2>4, Zenon DEF Tagged
<1>3. CASE config.state \notin {"unchanged", "equivalent", "modified-valid"}
  <2>1. ConfigGovernance(config)
          = {Governance(0, "GR-CONFIG-001", <<"config-state", config.state>>, "requires-review")}
    BY <1>3 DEF ConfigGovernance
  <2> QED
    BY <1>0, <2>1, Zenon DEF Tagged
<1> QED
  BY <1>1, <1>2, <1>3, Zenon

LEMMA WaiverForms ==
  ASSUME NEW b, NEW h, NEW statuses, NEW changes, NEW g \in WaiverGovernance(b, h, statuses)
  PROVE  \/ Tagged(g, changes, "base-state", "GR-WAIVER-001", "failed")
         \/ Tagged(g, changes, "head-state", "GR-WAIVER-001", "requires-review")
         \/ Tagged(g, changes, "head-change", "GR-WAIVER-001", "requires-review")
         \/ \E i \in DOMAIN statuses : OfStatus(g, statuses, i)
<1>1. \/ \E s : g = Governance(0, "GR-WAIVER-001", <<"base-state", s>>, "failed")
      \/ g \in StatusGovernance(statuses)
      \/ \E s : g = Governance(0, "GR-WAIVER-001", <<"head-state", s>>, "requires-review")
      \/ \E c : g = Governance(0, "GR-WAIVER-001", <<"head-change", c>>, "requires-review")
  BY Zenon DEF WaiverGovernance
<1>2. g \in StatusGovernance(statuses) => \E i \in DOMAIN statuses : OfStatus(g, statuses, i)
  BY Zenon DEF StatusGovernance, OfStatus
<1>3. \A x : Placed(changes, "base-state", x, 0) /\ Placed(changes, "head-state", x, 0) /\ Placed(changes, "head-change", x, 0)
  BY Zenon DEF Placed
<1> QED
  BY <1>1, <1>2, <1>3, Zenon DEF Tagged

LEMMA TagsDiffer ==
  ASSUME NEW t, NEW x, NEW u, NEW y, <<t, x>> = <<u, y>>
  PROVE  t = u /\ x = y
OBVIOUS

LEMMA StatusScope ==
  ASSUME NEW t, NEW x, NEW u, NEW y, NEW z
  PROVE  <<t, x>> # <<u, y, z>>
<1>1. Len(<<t, x>>) = 2 /\ Len(<<u, y, z>>) = 3
  OBVIOUS
<1> QED
  BY <1>1

\* Two tagged findings with the same scope are the same, if a tag has one rule and one disposition.
LEMMA SameTagged ==
  ASSUME NEW g, NEW k, NEW t, NEW u, NEW rule, NEW d, NEW rule2, NEW d2, NEW changes, ReadDifferently(changes),
         Tagged(g, changes, t, rule, d), Tagged(k, changes, u, rule2, d2), g.finding.scope = k.finding.scope,
         t = u => rule = rule2 /\ d = d2
  PROVE  g = k
<1>1. PICK x, p : g = Governance(p, rule, <<t, x>>, d) /\ Placed(changes, t, x, p)
  BY Zenon DEF Tagged
<1>2. PICK y, q : k = Governance(q, rule2, <<u, y>>, d2) /\ Placed(changes, u, y, q)
  BY Zenon DEF Tagged
<1>3. g.finding.scope = <<t, x>>
  BY ONLY <1>1, GovernanceFields
<1>4. k.finding.scope = <<u, y>>
  BY ONLY <1>2, GovernanceFields
<1>5. t = u /\ x = y
  BY <1>3, <1>4, TagsDiffer
<1>6. p = q
  BY ONLY <1>1, <1>2, <1>5, ReadDifferently(changes) DEF Placed, ReadDifferently
<1> QED
  BY <1>1, <1>2, <1>5, <1>6, Zenon

LEMMA TaggedIsNoStatus ==
  ASSUME NEW g, NEW k, NEW t, NEW rule, NEW d, NEW statuses, NEW i, NEW changes,
         Tagged(g, changes, t, rule, d), OfStatus(k, statuses, i)
  PROVE  g.finding.scope # k.finding.scope
<1>1. PICK x, p : g = Governance(p, rule, <<t, x>>, d)
  BY Zenon DEF Tagged
<1>2. g.finding.scope = <<t, x>>
  BY ONLY <1>1, GovernanceFields
<1>3. k.finding.scope = <<"status", statuses[i].id, statuses[i].status>>
  BY GovernanceFields DEF OfStatus
<1> QED
  BY <1>2, <1>3, StatusScope

LEMMA SameStatus ==
  ASSUME NEW g, NEW k, NEW statuses, NEW i, NEW j, OfStatus(g, statuses, i), OfStatus(k, statuses, j),
         g.finding.scope = k.finding.scope
  PROVE  statuses[i].id = statuses[j].id
<1>1. g.finding.scope = <<"status", statuses[i].id, statuses[i].status>>
  BY GovernanceFields DEF OfStatus
<1>2. k.finding.scope = <<"status", statuses[j].id, statuses[j].status>>
  BY GovernanceFields DEF OfStatus
<1>3. \A x, y, z, v, w : <<x, y, z>> = <<x, v, w>> => y = v
  OBVIOUS
<1> QED
  BY <1>1, <1>2, <1>3, Zenon

\* The waivers that are honoured have distinct identifiers.
LEMMA HonouredWaivers ==
  ASSUME NEW b, NEW h, NEW i \in DOMAIN BaseWaivers(b, h), NEW j \in DOMAIN BaseWaivers(b, h),
         BaseWaivers(b, h)[i].id = BaseWaivers(b, h)[j].id
  PROVE  i = j
<1>1. CASE BaseState(b) = "valid"
  <2>1. ParseOk(b.text)
    BY <1>1 DEF BaseState
  <2>2. DistinctWaivers(b.text.waivers) /\ BaseWaivers(b, h) = b.text.waivers
    BY <1>1, <2>1 DEF ParseOk, BaseWaivers
  <2> QED
    BY <2>2, Zenon DEF DistinctWaivers
<1>2. CASE BaseState(b) # "valid"
  BY <1>2 DEF BaseWaivers
<1> QED
  BY <1>1, <1>2

\* The governance findings of an application have distinct identifiers, if no two changes
\* of the configuration read alike.
LEMMA GovernanceIsDistinct ==
  ASSUME NEW app, NEW ev, NEW config, NEW b, NEW h, NEW at, IsApplication(app, ev, config, b, h, at),
         NEW g \in app.governance
  PROVE  /\ ~OneScopeTwice(config) =>
              \A k \in app.governance : FindingID(g.finding) = FindingID(k.finding) => g = k
         /\ g.finding.rule \in {"GR-CONFIG-001", "GR-WAIVER-001"}
<1> DEFINE Tags == {"config", "config-state", "base-state", "head-state", "head-change"}
           Rule(t) == IF t \in {"config", "config-state"} THEN "GR-CONFIG-001" ELSE "GR-WAIVER-001"
           Says(t) == IF t = "base-state" THEN "failed" ELSE "requires-review"
<1>1. PICK statuses, changes : statuses = app.statuses /\ changes = ChangesOf(config)
  OBVIOUS
<1>2. \A k \in app.governance : k \in ConfigGovernance(config) \/ k \in WaiverGovernance(b, h, statuses)
  BY <1>1, Zenon DEF IsApplication
<1>3. /\ Rule("config") = "GR-CONFIG-001" /\ Rule("config-state") = "GR-CONFIG-001"
      /\ Rule("base-state") = "GR-WAIVER-001" /\ Rule("head-state") = "GR-WAIVER-001"
      /\ Rule("head-change") = "GR-WAIVER-001"
      /\ Says("config") = "requires-review" /\ Says("config-state") = "requires-review"
      /\ Says("base-state") = "failed" /\ Says("head-state") = "requires-review"
      /\ Says("head-change") = "requires-review"
  OBVIOUS
<1>4. \A t : Rule(t) \in {"GR-CONFIG-001", "GR-WAIVER-001"}
  OBVIOUS
<1> HIDE DEF Rule, Says
<1>5. ASSUME NEW k \in app.governance
      PROVE  (\E t : Tagged(k, changes, t, Rule(t), Says(t))) \/ (\E i \in DOMAIN statuses : OfStatus(k, statuses, i))
  <2>1. CASE k \in ConfigGovernance(config)
    <3>1. \/ Tagged(k, changes, "config", "GR-CONFIG-001", "requires-review")
          \/ Tagged(k, changes, "config-state", "GR-CONFIG-001", "requires-review")
      BY <1>1, <2>1, ConfigForms, Zenon
    <3> QED
      BY <1>3, <3>1, Zenon
  <2>2. CASE k \in WaiverGovernance(b, h, statuses)
    <3>1. \/ Tagged(k, changes, "base-state", "GR-WAIVER-001", "failed")
          \/ Tagged(k, changes, "head-state", "GR-WAIVER-001", "requires-review")
          \/ Tagged(k, changes, "head-change", "GR-WAIVER-001", "requires-review")
          \/ \E i \in DOMAIN statuses : OfStatus(k, statuses, i)
      BY <2>2, WaiverForms, Zenon
    <3> QED
      BY <1>3, <3>1, Zenon
  <2> QED
    BY <1>2, <2>1, <2>2, Zenon
<1>6. g.finding.rule \in {"GR-CONFIG-001", "GR-WAIVER-001"}
  <2>1. ASSUME NEW t, Tagged(g, changes, t, Rule(t), Says(t)) PROVE g.finding.rule = Rule(t)
    <3>1. PICK x, p, rule, d : g = Governance(p, rule, <<t, x>>, d) /\ rule = Rule(t)
      BY <2>1, Zenon DEF Tagged
    <3> QED
      BY ONLY <3>1, GovernanceFields
  <2>2. ASSUME NEW i, OfStatus(g, statuses, i) PROVE g.finding.rule = "GR-WAIVER-001"
    BY ONLY <2>2, GovernanceFields DEF OfStatus
  <2> QED
    BY <1>4, <1>5, <2>1, <2>2, Zenon
<1>7. ASSUME ~OneScopeTwice(config), NEW k \in app.governance, FindingID(g.finding) = FindingID(k.finding) PROVE g = k
  <2>0. ReadDifferently(changes)
    BY <1>1, <1>7 DEF ReadDifferently, ChangesOf, OneScopeTwice
  <2>1. g.finding.scope = k.finding.scope
    BY <1>7, FindingIDParts, Zenon
  <2>2. ASSUME NEW t, Tagged(g, changes, t, Rule(t), Says(t)) PROVE g = k
    <3>1. ASSUME NEW u, Tagged(k, changes, u, Rule(u), Says(u)) PROVE g = k
      <4>1. t = u => Rule(t) = Rule(u) /\ Says(t) = Says(u)
        BY Zenon
      <4> QED
        BY <2>0, <2>1, <2>2, <3>1, <4>1, SameTagged, Zenon
    <3>2. ASSUME NEW i, OfStatus(k, statuses, i) PROVE FALSE
      BY <2>1, <2>2, <3>2, TaggedIsNoStatus, Zenon
    <3> QED
      BY <1>5, <3>1, <3>2, Zenon
  <2>3. ASSUME NEW i \in DOMAIN statuses, OfStatus(g, statuses, i) PROVE g = k
    <3>1. ASSUME NEW u, Tagged(k, changes, u, Rule(u), Says(u)) PROVE FALSE
      BY <2>1, <2>3, <3>1, TaggedIsNoStatus, Zenon
    <3>2. ASSUME NEW j \in DOMAIN statuses, OfStatus(k, statuses, j) PROVE g = k
      <4>1. statuses[i].id = statuses[j].id
        BY ONLY <2>1, <2>3, <3>2, SameStatus
      <4>2. PICK ws : ws = BaseWaivers(b, h)
        OBVIOUS
      <4>3. statuses = [n \in DOMAIN ws |-> [id |-> ws[n].id, status |-> WaiverStatus(ws[n], ev.findings, at)]]
        BY <1>1, <4>2, Zenon DEF IsApplication
      <4>4. i \in DOMAIN ws /\ j \in DOMAIN ws /\ ws[i].id = ws[j].id
        BY <4>1, <4>3
      <4>5. i = j
        BY <4>2, <4>4, HonouredWaivers, Zenon
      <4> QED
        BY <2>3, <3>2, <4>5, Zenon DEF OfStatus
    <3> QED
      BY <1>5, <3>1, <3>2, Zenon
  <2> QED
    BY <1>5, <2>2, <2>3, Zenon
<1> QED
  BY <1>6, <1>7, Zenon

\* What is applied to a valid delta always hangs together.
LEMMA ReportHangsTogether ==
  ASSUME NEW delta, DeltaIsValid(delta), NEW ev, ev = Evaluate(delta), NEW app, NEW config, NEW b, NEW h, NEW at,
         IsApplication(app, ev, config, b, h, at), ~OneScopeTwice(config)
  PROVE  BindingOk(delta, app)
<1> DEFINE E(f) == IF \E i \in DOMAIN BaseWaivers(b, h) :
                        /\ app.statuses[i].status = "applied"
                        /\ BaseWaivers(b, h)[i].finding = FindingID(f)
                   THEN "waived" ELSE f.disposition
<1>1. app.builtin = {Applied("builtin", f, E(f)) : f \in ev.findings}
  BY Zenon DEF IsApplication
<1> HIDE DEF E
<1>2. ASSUME NEW a \in app.builtin PROVE \E f \in ev.findings : a.finding = f /\ a = Applied("builtin", f, E(f))
  <2>1. PICK f \in ev.findings : a = Applied("builtin", f, E(f))
    BY <1>1, Zenon
  <2>2. a.finding = f
    BY ONLY <2>1 DEF Applied
  <2> QED
    BY <2>1, <2>2, Zenon
<1>3. \A f \in ev.findings :
        /\ \A g \in ev.findings : FindingID(f) = FindingID(g) => f = g
        /\ f.records \subseteq {RecordID(r) : r \in delta.records}
        /\ f.rule \notin {"GR-CONFIG-001", "GR-WAIVER-001"}
  BY FindingsAreDistinct, Zenon
<1>4. \A a, k \in app.builtin : FindingID(a.finding) = FindingID(k.finding) => a = k
  BY <1>2, <1>3, Zenon
<1>5. \A g, k \in app.governance : FindingID(g.finding) = FindingID(k.finding) => g = k
  BY GovernanceIsDistinct, Zenon
<1>6. ASSUME NEW a \in app.builtin, NEW g \in app.governance, FindingID(a.finding) = FindingID(g.finding)
      PROVE  FALSE
  <2>1. a.finding.rule \notin {"GR-CONFIG-001", "GR-WAIVER-001"}
    BY <1>2, <1>3, Zenon
  <2>2. g.finding.rule \in {"GR-CONFIG-001", "GR-WAIVER-001"}
    BY GovernanceIsDistinct, Zenon
  <2>3. a.finding.rule = g.finding.rule
    BY <1>6, FindingIDParts, Zenon
  <2> QED
    BY <2>1, <2>2, <2>3, Zenon
<1>7. \A a \in app.builtin : a.finding.records \subseteq {RecordID(r) : r \in delta.records}
  BY <1>2, <1>3, Zenon
<1> QED
  BY <1>4, <1>5, <1>6, <1>7, Zenon DEF BindingOk

\* A request is left without a report only for the reasons that EveryRunIsReviewed lists
\* (inspect.Inspect, report.Build): two findings never clash otherwise.
THEOREM EveryRunTheorem == Spec => []EveryRunIsReviewed
<1>1. ReviewIsCurrent => EveryRunIsReviewed
  <2> SUFFICES ASSUME ReviewIsCurrent, stage = "reviewed", review.refused PROVE EveryRunIsReviewed
    BY Zenon DEF EveryRunIsReviewed
  <2>1. Chain
    BY DEF ReviewIsCurrent
  <2>2. PICK delta, ev, app, config, b, h, at :
          /\ delta = review.delta /\ ev = review.evaluation /\ app = review.application
          /\ config = head.config /\ b = base.waivers /\ h = head.waivers /\ at = now
    OBVIOUS
  <2>3. delta = CompareTraces(review.trace) /\ ev = Evaluate(delta) /\ app = Apply(ev, config, b, h, at)
    BY <2>1, <2>2, Zenon DEF Chain
  <2>4. \/ ~BoundTo(bundle, base.commit, head.commit) \/ ~ConfigLoads(base, head) \/ ~bundle.rebuilds
        \/ app.refused \/ ~BindingOk(delta, app) \/ ~RefsOk(review.trace, delta)
    BY <2>1, <2>2, Zenon DEF Chain
  <2>5. IsApplication(app, ev, config, b, h, at)
    BY <2>3, ApplyFields, Zenon
  <2>6. DeltaIsValid(delta)
    BY <2>3, DeltaIsAlwaysValid, Zenon
  <2>7. ~OneScopeTwice(config) => BindingOk(delta, app)
    BY <2>3, <2>5, <2>6, ReportHangsTogether, Zenon
  <2>8. app.refused => ev.refused \/ ~Readable(b) \/ ~Readable(h) \/ Cardinality(app.governance) > MaxGovernance
    BY <2>5, Zenon DEF IsApplication
  <2>9. ev.refused => \/ delta.refused \/ (\E r \in delta.records : UndecidableFor(r))
                      \/ Cardinality(ev.findings) > MaxFindings
    BY <2>3, <2>6, EvaluateFields, Zenon
  <2> QED
    BY <2>2, <2>4, <2>7, <2>8, <2>9, Zenon DEF EveryRunIsReviewed
<1> QED
  BY <1>1, Current, PTL

-----------------------------------------------------------------------------
(* Every difference is in one record.                                      *)

\* What a property sees of a variant on one side.
SeenOf(attempts, d) ==
  [i \in DOMAIN attempts |-> IF attempts[i].coverage = "complete"
                             THEN <<CountOf(DigestsOf(attempts[i]), d)>> ELSE <<>>]
KnownCoverage(attempts) == \A i \in DOMAIN attempts : attempts[i].coverage \in {"complete", "incomplete"}

LEMMA ProfileRepetitions ==
  ASSUME NEW reps PROVE BuildOccurrenceProfile(reps).repetitions = reps
BY DEF BuildOccurrenceProfile

\* Two sides have the same profile of a variant just when their attempts show it alike.
LEMMA SameProfile ==
  ASSUME NEW b, NEW h, NEW d, KnownCoverage(b), KnownCoverage(h)
  PROVE  OccurrenceProfile(b, d) = OccurrenceProfile(h, d) <=> SeenOf(b, d) = SeenOf(h, d)
<1>1. PICK x : x = [i \in DOMAIN b |-> RepetitionOccurrence(b[i], d)]
  OBVIOUS
<1>2. PICK y : y = [i \in DOMAIN h |-> RepetitionOccurrence(h[i], d)]
  OBVIOUS
<1>3. OccurrenceProfile(b, d) = BuildOccurrenceProfile(x) /\ OccurrenceProfile(h, d) = BuildOccurrenceProfile(y)
  BY <1>1, <1>2, Zenon DEF OccurrenceProfile
<1>4. OccurrenceProfile(b, d) = OccurrenceProfile(h, d) <=> x = y
  <2>1. BuildOccurrenceProfile(x).repetitions = x /\ BuildOccurrenceProfile(y).repetitions = y
    BY ProfileRepetitions, Zenon
  <2> QED
    BY <1>3, <2>1, Zenon
<1>5. DOMAIN x = DOMAIN b /\ DOMAIN y = DOMAIN h /\ DOMAIN SeenOf(b, d) = DOMAIN b /\ DOMAIN SeenOf(h, d) = DOMAIN h
  BY <1>1, <1>2 DEF SeenOf
<1>6. ASSUME NEW i \in DOMAIN b, i \in DOMAIN h PROVE x[i] = y[i] <=> SeenOf(b, d)[i] = SeenOf(h, d)[i]
  <2>1. PICK cb, ch, nb, nh : /\ cb = b[i].coverage /\ ch = h[i].coverage
                              /\ nb = CountOf(DigestsOf(b[i]), d) /\ nh = CountOf(DigestsOf(h[i]), d)
    OBVIOUS
  <2>2. x[i] = [coverage |-> cb, count |-> IF cb = "complete" THEN nb ELSE 0]
    BY <1>1, <2>1 DEF RepetitionOccurrence
  <2>3. y[i] = [coverage |-> ch, count |-> IF ch = "complete" THEN nh ELSE 0]
    BY <1>2, <1>6, <2>1 DEF RepetitionOccurrence
  <2>4. SeenOf(b, d)[i] = (IF cb = "complete" THEN <<nb>> ELSE <<>>)
    BY <2>1 DEF SeenOf
  <2>5. SeenOf(h, d)[i] = (IF ch = "complete" THEN <<nh>> ELSE <<>>)
    BY <1>6, <2>1 DEF SeenOf
  <2>6. cb \in {"complete", "incomplete"} /\ ch \in {"complete", "incomplete"}
    BY <1>6, <2>1, Zenon DEF KnownCoverage
  <2>7. x[i] = y[i] <=> cb = ch /\ (cb = "complete" => nb = nh)
    BY ONLY <2>2, <2>3, <2>6
  <2>8. SeenOf(b, d)[i] = SeenOf(h, d)[i] <=> cb = ch /\ (cb = "complete" => nb = nh)
    BY <2>4, <2>5, <2>6, Singletons
  <2> QED
    BY <2>7, <2>8, Zenon
<1>7. x = y <=> SeenOf(b, d) = SeenOf(h, d)
  <2>1. x = y <=> DOMAIN b = DOMAIN h /\ \A i \in DOMAIN b : x[i] = y[i]
    BY <1>1, <1>2
  <2>2. SeenOf(b, d) = SeenOf(h, d) <=> DOMAIN b = DOMAIN h /\ \A i \in DOMAIN b : SeenOf(b, d)[i] = SeenOf(h, d)[i]
    BY DEF SeenOf
  <2> QED
    BY <1>6, <2>1, <2>2, Zenon
<1> QED
  BY <1>4, <1>7, Zenon

\* A variant is in one pair at most.
LEMMA PairsAreApart ==
  ASSUME NEW b, NEW h, NEW p \in PairsOf(b, h), NEW q \in PairsOf(b, h), p[1] = q[1] \/ p[2] = q[2]
  PROVE  p[1] = q[1] /\ p[2] = q[2]
<1>1. PICK B, H : B = Unmatched(b, h) /\ H = Unmatched(h, b)
  OBVIOUS
<1>2. p \in B \X H /\ q \in B \X H /\ Modified(p[1], p[2], B, H) /\ Modified(q[1], q[2], B, H)
  BY <1>1, Zenon DEF PairsOf, ModifiedPairs
<1>3. p[1] \in B /\ p[2] \in H /\ q[1] \in B /\ q[2] \in H
  BY <1>2
<1>4. /\ Anchor(p[1]) = Anchor(p[2]) /\ Mates(p[1], B) = {p[1]} /\ Mates(p[2], H) = {p[2]}
      /\ Anchor(q[1]) = Anchor(q[2]) /\ Mates(q[1], B) = {q[1]} /\ Mates(q[2], H) = {q[2]}
  BY <1>2, Zenon DEF Modified
<1>5. Anchor(p[1]) = Anchor(q[1]) => q[1] \in Mates(p[1], B)
  BY <1>3, Zenon DEF Mates
<1>6. Anchor(p[2]) = Anchor(q[2]) => q[2] \in Mates(p[2], H)
  BY <1>3, Zenon DEF Mates
<1>7. Anchor(p[1]) = Anchor(q[1]) /\ Anchor(p[2]) = Anchor(q[2])
  BY <1>4, Zenon
<1> QED
  BY <1>4, <1>5, <1>6, <1>7, Zenon

LEMMA PairParts ==
  ASSUME NEW b, NEW h, NEW p \in PairsOf(b, h)
  PROVE  p[1] \in Unmatched(b, h) /\ p[2] \in Unmatched(h, b)
<1>1. PICK B, H : B = Unmatched(b, h) /\ H = Unmatched(h, b)
  OBVIOUS
<1>2. p \in B \X H
  BY <1>1, Zenon DEF PairsOf, ModifiedPairs
<1> QED
  BY <1>1, <1>2

\* The records about a variant.
About(r, s, b, h, d) == RecordCase(r, s, b, h) /\ r.kind # "order-changed" /\ (r.base = <<d>> \/ r.head = <<d>>)

LEMMA AboutCases ==
  ASSUME NEW r, NEW s, NEW b, NEW h, NEW d, About(r, s, b, h, d)
  PROVE  \/ /\ d \in Variants(b) \cap Variants(h) /\ OccurrenceProfile(b, d) # OccurrenceProfile(h, d)
            /\ r = OccurrenceRecord(s, b, h, d)
         \/ \E p \in PairsOf(b, h) : r = ModifiedRecord(s, b, h, p[1], p[2]) /\ (d = p[1] \/ d = p[2])
         \/ d \in Unmatched(b, h) \ {p[1] : p \in PairsOf(b, h)} /\ r = RemovedRecord(s, b, h, d)
         \/ d \in Unmatched(h, b) \ {p[2] : p \in PairsOf(b, h)} /\ r = AddedRecord(s, b, h, d)
<1>0. r.base = <<d>> \/ r.head = <<d>>
  BY DEF About
<1>1. CASE IsOccurrence(r, s, b, h)
  <2>1. PICK e \in Variants(b) \cap Variants(h) :
          /\ OccurrenceProfile(b, e) # OccurrenceProfile(h, e)
          /\ r = OccurrenceRecord(s, b, h, e) /\ r.base = <<e>> /\ r.head = <<e>>
    BY <1>1, Zenon DEF IsOccurrence
  <2>2. d = e
    BY <1>0, <2>1, Singletons
  <2> QED
    BY <2>1, <2>2, Zenon
<1>2. CASE IsModified(r, s, b, h)
  <2>1. PICK p \in PairsOf(b, h) : r = ModifiedRecord(s, b, h, p[1], p[2]) /\ r.base = <<p[1]>> /\ r.head = <<p[2]>>
    BY <1>2, Zenon DEF IsModified
  <2>2. d = p[1] \/ d = p[2]
    BY <1>0, <2>1, Singletons
  <2> QED
    BY <2>1, <2>2, Zenon
<1>3. CASE IsRemoved(r, s, b, h)
  <2>1. PICK e \in Unmatched(b, h) \ {p[1] : p \in PairsOf(b, h)} :
          r = RemovedRecord(s, b, h, e) /\ r.base = <<e>> /\ r.head = <<>>
    BY <1>3, Zenon DEF IsRemoved
  <2>2. d = e
    BY <1>0, <2>1, Singletons
  <2> QED
    BY <2>1, <2>2, Zenon
<1>4. CASE IsAdded(r, s, b, h)
  <2>1. PICK e \in Unmatched(h, b) \ {p[2] : p \in PairsOf(b, h)} :
          r = AddedRecord(s, b, h, e) /\ r.base = <<>> /\ r.head = <<e>>
    BY <1>4, Zenon DEF IsAdded
  <2>2. d = e
    BY <1>0, <2>1, Singletons
  <2> QED
    BY <2>1, <2>2, Zenon
<1>5. ~IsCoverage(r, s, b, h)
  BY <1>0, Singletons DEF IsCoverage
<1>6. \/ IsOccurrence(r, s, b, h) \/ IsModified(r, s, b, h) \/ IsRemoved(r, s, b, h)
      \/ IsAdded(r, s, b, h) \/ IsCoverage(r, s, b, h)
  BY RecordShape, Zenon DEF About
<1> QED
  BY <1>1, <1>2, <1>3, <1>4, <1>5, <1>6, Zenon

\* A variant is in one record at most.
LEMMA AboutOnce ==
  ASSUME NEW r, NEW q, NEW s, NEW b, NEW h, NEW d, About(r, s, b, h, d), About(q, s, b, h, d)
  PROVE  r = q
<1> DEFINE P == PairsOf(b, h)
<1>1. \A p \in P : p[1] \in Unmatched(b, h) /\ p[2] \in Unmatched(h, b)
  BY PairParts, Zenon
<1>2. \A e : /\ e \in Unmatched(b, h) <=> e \in Variants(b) /\ e \notin Variants(h)
             /\ e \in Unmatched(h, b) <=> e \in Variants(h) /\ e \notin Variants(b)
  BY Zenon DEF Unmatched
<1>3. \/ d \in Variants(b) \cap Variants(h) /\ r = OccurrenceRecord(s, b, h, d)
      \/ \E p \in P : r = ModifiedRecord(s, b, h, p[1], p[2]) /\ (d = p[1] \/ d = p[2])
      \/ d \in Unmatched(b, h) \ {p[1] : p \in P} /\ r = RemovedRecord(s, b, h, d)
      \/ d \in Unmatched(h, b) \ {p[2] : p \in P} /\ r = AddedRecord(s, b, h, d)
  BY ONLY About(r, s, b, h, d), AboutCases
<1>4. \/ d \in Variants(b) \cap Variants(h) /\ q = OccurrenceRecord(s, b, h, d)
      \/ \E p \in P : q = ModifiedRecord(s, b, h, p[1], p[2]) /\ (d = p[1] \/ d = p[2])
      \/ d \in Unmatched(b, h) \ {p[1] : p \in P} /\ q = RemovedRecord(s, b, h, d)
      \/ d \in Unmatched(h, b) \ {p[2] : p \in P} /\ q = AddedRecord(s, b, h, d)
  BY ONLY About(q, s, b, h, d), AboutCases
<1>9. \A p, o \in P : (d = p[1] \/ d = p[2]) /\ (d = o[1] \/ d = o[2]) => p[1] = o[1] /\ p[2] = o[2]
  <2> SUFFICES ASSUME NEW p \in P, NEW o \in P, d = p[1] \/ d = p[2], d = o[1] \/ d = o[2]
               PROVE  p[1] = o[1] /\ p[2] = o[2]
    BY Zenon
  <2>1. p[1] = o[1] \/ p[2] = o[2]
    BY <1>1, <1>2, Zenon
  <2> QED
    BY <2>1, PairsAreApart, Zenon
<1> HIDE DEF P
<1>5. CASE d \in Variants(b) \cap Variants(h)
  <2>1. ~\E p \in P : d = p[1] \/ d = p[2]
    BY <1>1, <1>2, <1>5
  <2> QED
    BY <1>2, <1>3, <1>4, <1>5, <2>1
<1>6. CASE d \in {p[1] : p \in P} \cup {p[2] : p \in P}
  <2>1. PICK o \in P : d = o[1] \/ d = o[2]
    BY <1>6, Zenon
  <2>2. PICK p \in P : r = ModifiedRecord(s, b, h, p[1], p[2]) /\ (d = p[1] \/ d = p[2])
    BY <1>1, <1>2, <1>3, <2>1, Zenon
  <2>3. PICK v \in P : q = ModifiedRecord(s, b, h, v[1], v[2]) /\ (d = v[1] \/ d = v[2])
    BY <1>1, <1>2, <1>4, <2>1, Zenon
  <2>4. p[1] = v[1] /\ p[2] = v[2]
    BY <1>9, <2>2, <2>3, Zenon
  <2> QED
    BY <2>2, <2>3, <2>4, Zenon
<1>7. CASE d \notin Variants(b) \cap Variants(h) /\ d \notin {p[1] : p \in P} \cup {p[2] : p \in P}
  <2>1. ~\E p \in P : d = p[1] \/ d = p[2]
    BY <1>7, Zenon
  <2>2. \/ d \in Unmatched(b, h) /\ r = RemovedRecord(s, b, h, d)
        \/ d \in Unmatched(h, b) /\ r = AddedRecord(s, b, h, d)
    BY <1>3, <1>7, <2>1, Zenon
  <2>3. \/ d \in Unmatched(b, h) /\ q = RemovedRecord(s, b, h, d)
        \/ d \in Unmatched(h, b) /\ q = AddedRecord(s, b, h, d)
    BY <1>4, <1>7, <2>1, Zenon
  <2> QED
    BY <1>2, <2>2, <2>3
<1> QED
  BY <1>5, <1>6, <1>7, Zenon

\* A variant that does not occur alike is in a record, and one that does is in none.
LEMMA AboutExists ==
  ASSUME NEW s, NEW b, NEW h, NEW d \in Variants(b) \cup Variants(h)
  PROVE  (\E r : About(r, s, b, h, d))
           <=> ~(d \in Variants(b) \cap Variants(h) /\ OccurrenceProfile(b, d) = OccurrenceProfile(h, d))
<1>1. CASE d \in Variants(b) \cap Variants(h) /\ OccurrenceProfile(b, d) # OccurrenceProfile(h, d)
  <2>1. PICK r : r = OccurrenceRecord(s, b, h, d)
    OBVIOUS
  <2>2. RecordCase(r, s, b, h)
    BY <1>1, <2>1, Zenon DEF RecordCase
  <2>3. r.kind \in {"stability-changed", "count-changed"} /\ r.base = <<d>>
    BY ONLY <2>1, OccurrenceRecordShape
  <2>4. r.kind # "order-changed"
    BY <2>3
  <2>5. About(r, s, b, h, d)
    BY <2>2, <2>3, <2>4, Zenon DEF About
  <2> QED
    BY <1>1, <2>5, Zenon
<1>2. CASE \E p \in PairsOf(b, h) : d = p[1] \/ d = p[2]
  <2>1. PICK p \in PairsOf(b, h) : d = p[1] \/ d = p[2]
    BY <1>2
  <2>2. PICK x, y : x = p[1] /\ y = p[2]
    OBVIOUS
  <2>3. PICK r : r = ModifiedRecord(s, b, h, x, y)
    OBVIOUS
  <2>4. RecordCase(r, s, b, h)
    BY <2>1, <2>2, <2>3, Zenon DEF RecordCase
  <2>5. r.kind = "modified" /\ r.base = <<x>> /\ r.head = <<y>>
    BY ONLY <2>3, ModifiedRecordShape
  <2>6. r.kind # "order-changed"
    BY <2>5
  <2>7. About(r, s, b, h, d)
    BY <2>1, <2>2, <2>4, <2>5, <2>6, Zenon DEF About
  <2>8. d \notin Variants(b) \cap Variants(h)
    <3>1. p[1] \in Unmatched(b, h) /\ p[2] \in Unmatched(h, b)
      BY <2>1, PairParts, Zenon
    <3> QED
      BY <2>1, <3>1 DEF Unmatched
  <2> QED
    BY <2>7, <2>8, Zenon
<1>3. CASE d \in Unmatched(b, h) /\ ~\E p \in PairsOf(b, h) : d = p[1] \/ d = p[2]
  <2>1. PICK r : r = RemovedRecord(s, b, h, d)
    OBVIOUS
  <2>2. d \in Unmatched(b, h) \ {p[1] : p \in PairsOf(b, h)}
    BY <1>3, Zenon
  <2>3. RecordCase(r, s, b, h)
    BY <2>1, <2>2, Zenon DEF RecordCase
  <2>4. r.kind = (IF AttemptsComplete(h) THEN "removed" ELSE "coverage-changed") /\ r.base = <<d>>
    BY ONLY <2>1, RemovedRecordFields
  <2>5. r.kind # "order-changed"
    BY <2>4
  <2>6. About(r, s, b, h, d)
    BY <2>3, <2>4, <2>5, Zenon DEF About
  <2> QED
    BY <1>3, <2>6, Zenon DEF Unmatched
<1>4. CASE d \in Unmatched(h, b) /\ ~\E p \in PairsOf(b, h) : d = p[1] \/ d = p[2]
  <2>1. PICK r : r = AddedRecord(s, b, h, d)
    OBVIOUS
  <2>2. d \in Unmatched(h, b) \ {p[2] : p \in PairsOf(b, h)}
    BY <1>4, Zenon
  <2>3. RecordCase(r, s, b, h)
    BY <2>1, <2>2, Zenon DEF RecordCase
  <2>4. r.kind = (IF AttemptsComplete(b) THEN "added" ELSE "coverage-changed") /\ r.head = <<d>>
    BY ONLY <2>1, AddedRecordFields
  <2>5. r.kind # "order-changed"
    BY <2>4
  <2>6. About(r, s, b, h, d)
    BY <2>3, <2>4, <2>5, Zenon DEF About
  <2> QED
    BY <1>4, <2>6, Zenon DEF Unmatched
<1>5. CASE d \in Variants(b) \cap Variants(h) /\ OccurrenceProfile(b, d) = OccurrenceProfile(h, d)
  <2>1. ASSUME NEW r, About(r, s, b, h, d) PROVE FALSE
    <3>1. \/ \E p \in PairsOf(b, h) : d = p[1] \/ d = p[2]
          \/ d \in Unmatched(b, h) \/ d \in Unmatched(h, b)
      BY <1>5, <2>1, AboutCases, Zenon
    <3>2. \A p \in PairsOf(b, h) : p[1] \in Unmatched(b, h) /\ p[2] \in Unmatched(h, b)
      BY PairParts, Zenon
    <3>3. d \in Unmatched(b, h) \/ d \in Unmatched(h, b)
      BY <3>1, <3>2, Zenon
    <3> QED
      BY <1>5, <3>3 DEF Unmatched
  <2> QED
    BY <1>5, <2>1, Zenon
<1> QED
  BY <1>1, <1>2, <1>3, <1>4, <1>5, Zenon DEF Unmatched

\* The attempts of a side are attempts of the trace.
LEMMA AttemptsOfTrace ==
  ASSUME NEW trace, NEW s, NEW revision, NEW n \in DOMAIN AttemptsOf(trace, s, revision)
  PROVE  \E i \in DOMAIN trace.attempts :
           /\ trace.attempts[i].scenario = s /\ trace.attempts[i].revision = revision
           /\ trace.attempts[i].repetition = n /\ AttemptsOf(trace, s, revision)[n] = trace.attempts[i]
<1>1. PICK a : a = trace.attempts
  OBVIOUS
<1>2. PICK side : side = {i \in DOMAIN a : a[i].scenario = s /\ a[i].revision = revision}
  OBVIOUS
<1>3. AttemptsOf(trace, s, revision)
        = [m \in {a[i].repetition : i \in side} |-> a[CHOOSE i \in side : a[i].repetition = m]]
  BY <1>1, <1>2 DEF AttemptsOf
<1>4. n \in {a[i].repetition : i \in side}
  BY <1>3
<1>5. PICK j : j = CHOOSE i \in side : a[i].repetition = n
  OBVIOUS
<1>6. j \in side /\ a[j].repetition = n
  BY <1>4, <1>5, Zenon
<1>7. AttemptsOf(trace, s, revision)[n] = a[j]
  BY <1>3, <1>4, <1>5
<1> QED
  BY <1>1, <1>2, <1>6, <1>7, Zenon

\* The attempts of a trace are those of its bundle.
LEMMA TraceAttempts ==
  ASSUME NEW b, NEW ignore, NEW trace, trace = Normalize(b, ignore)
  PROVE  /\ DOMAIN trace.attempts = DOMAIN b.attempts
         /\ \A i \in DOMAIN b.attempts :
              /\ trace.attempts[i].scenario = b.attempts[i].scenario
              /\ trace.attempts[i].revision = b.attempts[i].revision
              /\ trace.attempts[i].repetition = b.attempts[i].repetition
              /\ trace.attempts[i].coverage = Coverage(b.attempts[i], b.executionComplete)
BY DEF Normalize, Trace

LEMMA TraceCoverage ==
  ASSUME NEW b, NEW ignore, NEW trace, trace = Normalize(b, ignore), NEW s, NEW revision
  PROVE  KnownCoverage(AttemptsOf(trace, s, revision))
<1> SUFFICES ASSUME NEW n \in DOMAIN AttemptsOf(trace, s, revision)
             PROVE  AttemptsOf(trace, s, revision)[n].coverage \in {"complete", "incomplete"}
  BY DEF KnownCoverage
<1>1. PICK i \in DOMAIN trace.attempts : AttemptsOf(trace, s, revision)[n] = trace.attempts[i]
  BY AttemptsOfTrace
<1>2. trace.attempts[i].coverage = Coverage(b.attempts[i], b.executionComplete)
  BY <1>1, TraceAttempts
<1>3. Coverage(b.attempts[i], b.executionComplete) \in {"complete", "incomplete"}
  BY DEF Coverage
<1> QED
  BY <1>1, <1>2, <1>3, Zenon

\* A variant of a scenario comes from an attempt of it.
LEMMA VariantScenario ==
  ASSUME NEW trace, NEW s, NEW revision, NEW d \in Variants(AttemptsOf(trace, s, revision))
  PROVE  s \in ScenariosOf(trace)
<1>1. PICK n \in DOMAIN AttemptsOf(trace, s, revision) : TRUE
  BY Zenon DEF Variants
<1>2. PICK i \in DOMAIN trace.attempts : trace.attempts[i].scenario = s
  BY <1>1, AttemptsOfTrace
<1> QED
  BY <1>2, Zenon DEF ScenariosOf

\* The records of a delta about a variant are those of its scenario.
LEMMA AboutInDelta ==
  ASSUME NEW trace, NEW s, NEW b, NEW h, b = AttemptsOf(trace, s, "base"), h = AttemptsOf(trace, s, "head"),
         NEW d \in Variants(b) \cup Variants(h), NEW r
  PROVE  About(r, s, b, h, d) <=> /\ r \in CompareTraces(trace).records /\ r.scenario = s
                                  /\ r.kind # "order-changed" /\ (r.base = <<d>> \/ r.head = <<d>>)
<1>1. CompareTraces(trace).records = UNION {CompareScenario(trace, t) : t \in ScenariosOf(trace)}
  BY DEF CompareTraces
<1>2. s \in ScenariosOf(trace)
  BY VariantScenario, Zenon
<1>3. ASSUME RecordCase(r, s, b, h) PROVE r \in CompareTraces(trace).records /\ r.scenario = s
  <2>1. r \in CompareScenario(trace, s)
    BY <1>3, ScenarioRecords, Zenon
  <2>2. r.scenario = s
    BY <1>3, RecordShape, Zenon
  <2> QED
    BY <1>1, <1>2, <2>1, <2>2, Zenon
<1>4. ASSUME r \in CompareTraces(trace).records, r.scenario = s PROVE RecordCase(r, s, b, h)
  <2>1. PICK t : RecordCase(r, t, AttemptsOf(trace, t, "base"), AttemptsOf(trace, t, "head"))
    BY <1>4, DeltaRecord, Zenon
  <2>2. r.scenario = t
    BY <2>1, RecordShape, Zenon
  <2> QED
    BY <1>4, <2>1, <2>2, Zenon
<1> QED
  BY <1>3, <1>4, Zenon DEF About

\* Nothing is lost or told twice: a behaviour that does not occur alike on both sides is
\* in exactly one record, and one that does is in none (CompareScenario).
THEOREM EveryDifferenceTheorem == Spec => []EveryDifferenceIsRecorded
<1>1. ReviewIsCurrent => EveryDifferenceIsRecorded
  <2> SUFFICES ASSUME ReviewIsCurrent, Reviewed, NEW s \in Range(plan.scenarios)
               PROVE  LET b == Seen(s, "base")
                          h == Seen(s, "head")
                          about(d) == {r \in review.delta.records :
                                         r.scenario = s /\ r.kind # "order-changed" /\ (r.base = <<d>> \/ r.head = <<d>>)}
                          alike(d) == d \in DOMAIN b /\ d \in DOMAIN h /\ b[d] = h[d]
                      IN  \A d \in DOMAIN b \cup DOMAIN h : Cardinality(about(d)) = IF alike(d) THEN 0 ELSE 1
    BY Zenon DEF EveryDifferenceIsRecorded
  <2>1. review.trace = Normalize(bundle, plan.ignore) /\ review.delta = CompareTraces(review.trace)
    BY Zenon DEF ReviewIsCurrent, Reviewed, Chain
  <2>2. PICK trace, x, y, B, H : /\ trace = review.trace /\ x = bundle /\ y = plan.ignore
                                 /\ B = AttemptsOf(trace, s, "base") /\ H = AttemptsOf(trace, s, "head")
    OBVIOUS
  <2>3. KnownCoverage(B) /\ KnownCoverage(H)
    <3>1. trace = Normalize(x, y)
      BY <2>1, <2>2, Zenon
    <3> QED
      BY <2>2, <3>1, TraceCoverage, Zenon
  <2>4. PICK b, h : b = Seen(s, "base") /\ h = Seen(s, "head")
    OBVIOUS
  <2>5. b = [d \in Variants(B) |-> SeenOf(B, d)] /\ h = [d \in Variants(H) |-> SeenOf(H, d)]
    BY <2>2, <2>4 DEF Seen, SeenOf
  <2>6. ASSUME NEW d \in DOMAIN b \cup DOMAIN h
        PROVE  Cardinality({r \in review.delta.records :
                              r.scenario = s /\ r.kind # "order-changed" /\ (r.base = <<d>> \/ r.head = <<d>>)})
                 = IF d \in DOMAIN b /\ d \in DOMAIN h /\ b[d] = h[d] THEN 0 ELSE 1
    <3>1. d \in Variants(B) \cup Variants(H)
      BY <2>5
    <3>2. PICK A : A = {r \in review.delta.records :
                          r.scenario = s /\ r.kind # "order-changed" /\ (r.base = <<d>> \/ r.head = <<d>>)}
      OBVIOUS
    <3>3. \A r : r \in A <=> About(r, s, B, H, d)
      <4> TAKE r
      <4>1. About(r, s, B, H, d) <=> /\ r \in CompareTraces(trace).records /\ r.scenario = s
                                     /\ r.kind # "order-changed" /\ (r.base = <<d>> \/ r.head = <<d>>)
        BY ONLY <2>2, <3>1, AboutInDelta
      <4> QED
        BY <2>1, <2>2, <3>2, <4>1, Zenon
    <3>4. (d \in DOMAIN b /\ d \in DOMAIN h /\ b[d] = h[d])
            <=> d \in Variants(B) \cap Variants(H) /\ OccurrenceProfile(B, d) = OccurrenceProfile(H, d)
      <4>1. OccurrenceProfile(B, d) = OccurrenceProfile(H, d) <=> SeenOf(B, d) = SeenOf(H, d)
        BY <2>3, SameProfile, Zenon
      <4> QED
        BY <2>5, <4>1
    <3>5. (\E r : About(r, s, B, H, d))
            <=> ~(d \in Variants(B) \cap Variants(H) /\ OccurrenceProfile(B, d) = OccurrenceProfile(H, d))
      BY <3>1, AboutExists, Zenon
    <3>6. CASE d \in DOMAIN b /\ d \in DOMAIN h /\ b[d] = h[d]
      <4>1. A = {}
        BY <3>3, <3>4, <3>5, <3>6, Zenon
      <4> QED
        BY <3>2, <3>6, <4>1, FS_EmptySet, Zenon
    <3>7. CASE ~(d \in DOMAIN b /\ d \in DOMAIN h /\ b[d] = h[d])
      <4>1. PICK r : About(r, s, B, H, d)
        BY <3>4, <3>5, <3>7, Zenon
      <4>2. A = {r}
        BY <3>3, <4>1, AboutOnce, Zenon
      <4>3. Cardinality({r}) = 1
        BY FS_Singleton, Zenon
      <4> QED
        BY <3>2, <3>7, <4>2, <4>3, Zenon
    <3> QED
      BY <3>6, <3>7, Zenon
  <2> QED
    BY <2>4, <2>6, Zenon
<1> QED
  BY <1>1, Current, PTL

-----------------------------------------------------------------------------
(* What is not complete is never taken for absent.                         *)

\* A bundle has its plan's attempts.
BundleInv ==
  /\ plan \in Cases
  /\ stage # "running" =>
       /\ DOMAIN bundle.attempts \subseteq Nat
       /\ \A i \in DOMAIN bundle.attempts : bundle.attempts[i].repetition \in 1..plan.repetitions

LEMMA KeysOfPlan ==
  ASSUME NEW p \in Cases
  PROVE  /\ DOMAIN AttemptKeys(p) \subseteq Nat
         /\ \A i \in DOMAIN AttemptKeys(p) : AttemptKeys(p)[i].repetition \in 1..p.repetitions
<1>1. p.repetitions \in Nat \ {0} /\ Len(p.scenarios) \in Nat \ {0}
  BY ReviewAssumption
<1>2. PICK m, l : m = p.repetitions /\ l = Len(p.scenarios)
  OBVIOUS
<1>3. PICK n : n = l * m
  OBVIOUS
<1>4. AttemptKeys(p) = [i \in 1..(2 * n) |->
         [revision |-> IF i <= n THEN "base" ELSE "head",
          scenario |-> p.scenarios[(((i - 1) % n) \div m) + 1],
          repetition |-> ((i - 1) % m) + 1]]
  BY <1>2, <1>3 DEF AttemptKeys
<1>5. DOMAIN AttemptKeys(p) = 1..(2 * n)
  BY <1>4
<1>6. ASSUME NEW i \in 1..(2 * n) PROVE AttemptKeys(p)[i].repetition = ((i - 1) % m) + 1
  BY <1>4
<1>7. ASSUME NEW i \in 1..(2 * n) PROVE ((i - 1) % m) + 1 \in 1..m
  <2>1. i - 1 \in Int /\ m \in Nat \ {0}
    BY <1>1, <1>2
  <2> QED
    BY <2>1
<1> QED
  BY <1>2, <1>5, <1>6, <1>7

LEMMA BundledAttempts ==
  ASSUME NEW x, NEW finished, NEW context, plan \in Cases
  PROVE  /\ DOMAIN Bundled(x, finished, context).attempts \subseteq Nat
         /\ \A i \in DOMAIN Bundled(x, finished, context).attempts :
              Bundled(x, finished, context).attempts[i].repetition \in 1..plan.repetitions
<1>1. PICK keys : keys = AttemptKeys(plan)
  OBVIOUS
<1>2. PICK a : a = Bundled(x, finished, context).attempts
  OBVIOUS
<1>3. a = [i \in DOMAIN keys |->
             [revision |-> keys[i].revision, scenario |-> keys[i].scenario, repetition |-> keys[i].repetition,
              events |-> IF i <= Len(x) THEN x[i] ELSE <<>>, result |-> i <= finished]]
  BY <1>1, <1>2 DEF Bundled
<1>4. DOMAIN a = DOMAIN keys /\ \A i \in DOMAIN keys : a[i].repetition = keys[i].repetition
  BY <1>3
<1>5. DOMAIN keys \subseteq Nat /\ \A i \in DOMAIN keys : keys[i].repetition \in 1..plan.repetitions
  BY <1>1, KeysOfPlan, Zenon
<1> QED
  BY <1>2, <1>4, <1>5, Zenon

LEMMA BundleInit == Init => BundleInv
BY DEF Init, BundleInv

LEMMA BundleNext == BundleInv /\ [Next]_vars => BundleInv'
<1> SUFFICES ASSUME BundleInv, [Next]_vars PROVE BundleInv'
  OBVIOUS
<1>1. plan \in Cases
  BY DEF BundleInv
<1>2. CASE RunAttempt
  BY <1>1, <1>2, Zenon DEF RunAttempt, BundleInv
<1>3. CASE Commit \/ CommitInterrupted \/ RunAgain
  <2>1. PICK x, finished, context : bundle' = Bundled(x, finished, context)
    BY <1>3, Zenon DEF Commit, CommitInterrupted, RunAgain
  <2>2. plan' = plan
    BY <1>3, Zenon DEF Commit, CommitInterrupted, RunAgain
  <2> QED
    BY <1>1, <2>1, <2>2, BundledAttempts, Zenon DEF BundleInv
<1>4. CASE Inspect \/ WriteWaiver \/ WriteBadWaivers \/ ReplaceFile \/ EditConfig \/ MergeHead \/ Tick
  <2>1. plan' = plan /\ bundle' = bundle /\ stage # "running"
    <3>1. CASE Inspect \/ MergeHead \/ Tick
      BY <3>1 DEF Inspect, MergeHead, Tick
    <3>2. CASE WriteWaiver \/ WriteBadWaivers \/ ReplaceFile \/ EditConfig
      <4>1. stage = "reviewed" /\ plan' = plan /\ bundle' = bundle
        BY <3>2, Zenon DEF WriteWaiver, WriteBadWaivers, ReplaceFile, EditConfig, MayEdit
      <4> QED
        BY <4>1
    <3> QED
      BY <1>4, <3>1, <3>2, Zenon
  <2> QED
    BY <1>1, <2>1, Zenon DEF BundleInv
<1>5. CASE UNCHANGED vars
  BY <1>5, Zenon DEF vars, BundleInv
<1> QED
  BY <1>2, <1>3, <1>4, <1>5, Zenon DEF Next

LEMMA BundleIsThePlans == Spec => []BundleInv
BY BundleInit, BundleNext, PTL DEF Spec

LEMMA ProfileFields ==
  ASSUME NEW reps, NEW o, o = BuildOccurrenceProfile(reps),
         NEW complete, complete = Cardinality({i \in DOMAIN reps : reps[i].coverage = "complete"}),
         NEW planned, planned = Cardinality(DOMAIN reps)
  PROVE  /\ o.coverage = (IF complete = planned THEN "complete" ELSE IF complete > 0 THEN "partial" ELSE "none")
         /\ \E least, most : o.repeatability = Assessment(planned, complete, least, most)
<1>0. PICK whole : whole = {i \in DOMAIN reps : reps[i].coverage = "complete"}
  OBVIOUS
<1>1. PICK least, most, total, coverage, repeatability :
        /\ least = (IF whole = {} THEN 0 ELSE Min({reps[i].count : i \in whole}))
        /\ most = (IF whole = {} THEN 0 ELSE Max({reps[i].count : i \in whole}))
        /\ total = FoldFunctionOnSet(+, 0, [i \in whole |-> reps[i].count], whole)
        /\ coverage = (IF complete = planned THEN "complete" ELSE IF complete > 0 THEN "partial" ELSE "none")
        /\ repeatability = Assessment(planned, complete, least, most)
  BY Zenon
<1>2. o = [planned |-> planned, complete |-> complete, least |-> least, most |-> most, total |-> total,
           coverage |-> coverage, repeatability |-> repeatability, repetitions |-> reps]
  BY <1>0, <1>1, Zenon DEF BuildOccurrenceProfile
<1>3. o.coverage = coverage /\ o.repeatability = repeatability
  BY ONLY <1>2
<1> QED
  BY <1>1, <1>3, Zenon

\* A profile that is complete and of more than one sample is of attempts that are all
\* complete, and several.
LEMMA EarnedProfile ==
  ASSUME NEW a, IsFiniteSet(DOMAIN a), NEW d \in Variants(a), NEW o, o = OccurrenceProfile(a, d),
         o.coverage = "complete", o.repeatability # "single-sample"
  PROVE  /\ \A i \in DOMAIN a : a[i].coverage = "complete"
         /\ Cardinality(DOMAIN a) \in Nat /\ Cardinality(DOMAIN a) > 1
<1>1. PICK reps : reps = [i \in DOMAIN a |-> RepetitionOccurrence(a[i], d)]
  OBVIOUS
<1>2. PICK whole, complete, planned : /\ whole = {i \in DOMAIN reps : reps[i].coverage = "complete"}
                                      /\ complete = Cardinality(whole) /\ planned = Cardinality(DOMAIN reps)
  OBVIOUS
<1>3. o = BuildOccurrenceProfile(reps)
  BY <1>1, Zenon DEF OccurrenceProfile
<1>4. DOMAIN reps = DOMAIN a /\ \A i \in DOMAIN a : reps[i].coverage = a[i].coverage
  BY <1>1 DEF RepetitionOccurrence
<1>50. complete = Cardinality({i \in DOMAIN reps : reps[i].coverage = "complete"}) /\ planned = Cardinality(DOMAIN reps)
  BY <1>2, Zenon
<1>5. /\ o.coverage = (IF complete = planned THEN "complete" ELSE IF complete > 0 THEN "partial" ELSE "none")
      /\ \E least, most : o.repeatability = Assessment(planned, complete, least, most)
  BY <1>3, <1>50, ProfileFields
<1>6. complete = planned
  BY <1>5
<1>7. whole \subseteq DOMAIN a /\ IsFiniteSet(whole) /\ planned \in Nat
  BY <1>2, <1>4, FS_Subset, FS_CardinalityType
<1>8. whole = DOMAIN a
  BY <1>2, <1>4, <1>6, <1>7, FS_Subset
<1>9. DOMAIN a # {}
  BY Zenon DEF Variants
<1>10. planned # 0
  BY <1>2, <1>4, <1>9, FS_EmptySet
<1>11. planned # 1
  <2>1. PICK least, most : o.repeatability = Assessment(planned, planned, least, most)
    BY <1>5, <1>6, Zenon
  <2> QED
    BY <2>1 DEF Assessment
<1>12. \A i \in DOMAIN a : a[i].coverage = "complete"
  BY <1>2, <1>4, <1>8, Zenon
<1>13. planned > 1
  BY <1>7, <1>10, <1>11
<1> QED
  BY <1>2, <1>4, <1>7, <1>12, <1>13, Zenon

\* What the two bases of a record say about the profiles behind it.
LEMMA EarnedBasis ==
  ASSUME NEW x, NEW y, Basis({x, y}) = "complete-observation"
  PROVE  /\ x.coverage = "complete" /\ x.repeatability # "single-sample"
         /\ y.coverage = "complete" /\ y.repeatability # "single-sample"
BY DEF Basis

LEMMA EarnedAbsence ==
  ASSUME NEW other, NEW x, BasisForAbsence(other, x) = "complete-observation"
  PROVE  other /\ x.coverage = "complete" /\ x.repeatability # "single-sample"
BY DEF BasisForAbsence

\* When the attempts of a side of the trace are complete, those of the bundle have a result.
LEMMA SideIsWhole ==
  ASSUME NEW x, NEW ignore, NEW trace, trace = Normalize(x, ignore), TraceIsValid(trace),
         DOMAIN x.attempts \subseteq Nat, NEW s, NEW revision,
         \A n \in DOMAIN AttemptsOf(trace, s, revision) : AttemptsOf(trace, s, revision)[n].coverage = "complete",
         NEW i \in DOMAIN x.attempts, x.attempts[i].scenario = s, x.attempts[i].revision = revision
  PROVE  x.attempts[i].result
<1>1. PICK a : a = trace.attempts
  OBVIOUS
<1>2. PICK side : side = {j \in DOMAIN a : a[j].scenario = s /\ a[j].revision = revision}
  OBVIOUS
<1>3. AttemptsOf(trace, s, revision)
        = [m \in {a[j].repetition : j \in side} |-> a[CHOOSE j \in side : a[j].repetition = m]]
  BY <1>1, <1>2 DEF AttemptsOf
<1>4. /\ DOMAIN a = DOMAIN x.attempts /\ a[i].scenario = s /\ a[i].revision = revision
      /\ a[i].coverage = Coverage(x.attempts[i], x.executionComplete)
  BY <1>1, TraceAttempts
<1>5. i \in side
  BY <1>2, <1>4, Zenon
<1>6. PICK n : n = a[i].repetition
  OBVIOUS
<1>7. PICK j : j = CHOOSE k \in side : a[k].repetition = n
  OBVIOUS
<1>8. j \in side /\ a[j].repetition = n
  BY <1>5, <1>6, <1>7, Zenon
<1>9. j = i
  <2>1. /\ j \in DOMAIN a /\ a[j].scenario = s /\ a[j].revision = revision
        /\ j \in Nat /\ i \in Nat /\ i \in DOMAIN a
    BY <1>2, <1>4, <1>8, Zenon
  <2>2. <<a[i].revision, a[i].scenario, a[i].repetition>> = <<a[j].revision, a[j].scenario, a[j].repetition>>
    BY <1>4, <1>6, <1>8, <2>1
  <2>3. ~(i < j) /\ ~(j < i)
    BY <1>1, <2>1, <2>2, Zenon DEF TraceIsValid
  <2> QED
    BY <2>1, <2>3
<1>10. n \in {a[k].repetition : k \in side}
  BY <1>5, <1>6, Zenon
<1>11. AttemptsOf(trace, s, revision)[n] = a[i] /\ n \in DOMAIN AttemptsOf(trace, s, revision)
  <2>1. AttemptsOf(trace, s, revision)[n] = a[j]
    BY <1>3, <1>7, <1>10
  <2>2. n \in DOMAIN AttemptsOf(trace, s, revision)
    BY <1>3, <1>10
  <2> QED
    BY <1>9, <2>1, <2>2, Zenon
<1>12. Coverage(x.attempts[i], x.executionComplete) = "complete"
  BY <1>4, <1>11, Zenon
<1> QED
  BY <1>12 DEF Coverage

Complete(a) == \A i \in DOMAIN a : a[i].coverage = "complete"
Several(a) == Cardinality(DOMAIN a) \in Nat /\ Cardinality(DOMAIN a) > 1

\* High confidence needs the strongest basis and a source apart from what is observed.
LEMMA EarnedConfidence ==
  ASSUME NEW r, NEW f \in RecordFindings(r), f.confidence = "high"
  PROVE  r.basis = "complete-observation" /\ SourceOf(r) \notin {"guest", "workload", "static", "model", "synthetic"}
<1>1. PICK rule \in RulesFor(r) :
        f = Finding(rule, {RecordID(r)}, <<"record">>, {r.scenario}, RuleConfidence(rule, r), "requires-review")
  BY Zenon DEF RecordFindings
<1>2. f.confidence = RuleConfidence(rule, r)
  BY ONLY <1>1 DEF Finding
<1>3. Confidence(r) = "high"
  BY <1>2 DEF RuleConfidence
<1>4. PICK earned, cap :
        /\ earned = (CASE r.basis = "complete-observation" -> "high"
                       [] r.basis \in {"single-sample", "repetition-variable"} -> "medium"
                       [] OTHER -> "low")
        /\ cap = (CASE SourceOf(r) \in {"guest", "workload", "static"} -> "medium"
                    [] SourceOf(r) \in {"model", "synthetic"} -> "low"
                    [] OTHER -> "high")
  BY Zenon
<1>5. Weaker(earned, cap) = "high"
  BY <1>3, <1>4, Zenon DEF Confidence
<1>6. earned \in {"high", "medium", "low"} /\ cap \in {"high", "medium", "low"}
  BY <1>4
<1>7. earned = "high" /\ cap = "high"
  <2>1. Ranks["low"] = 0 /\ Ranks["medium"] = 1 /\ Ranks["high"] = 2
    BY DEF Ranks
  <2> QED
    BY <1>5, <1>6, <2>1 DEF Weaker
<1>8. r.basis = "complete-observation"
  BY <1>4, <1>7
<1>9. SourceOf(r) \notin {"guest", "workload", "static", "model", "synthetic"}
  <2>1. PICK source : source = SourceOf(r)
    OBVIOUS
  <2>2. source \notin {"guest", "workload", "static", "model", "synthetic"}
    BY <1>4, <1>7, <2>1
  <2> QED
    BY <2>1, <2>2
<1> QED
  BY <1>8, <1>9, Zenon

LEMMA StableSide ==
  ASSUME NEW a, IsFiniteSet(DOMAIN a), StableSequence(a) # Nothing
  PROVE  Complete(a) /\ Several(a)
<1>1. Cardinality(DOMAIN a) >= 2 /\ AttemptsComplete(a)
  BY DEF StableSequence
<1>2. Cardinality(DOMAIN a) \in Nat
  BY FS_CardinalityType
<1> QED
  BY <1>1, <1>2 DEF Complete, Several, AttemptsComplete

\* A record of the strongest basis is of two sides that were observed completely, the base
\* or the head repeatedly.
LEMMA EarnedRecord ==
  ASSUME NEW r, NEW s, NEW b, NEW h, RecordCase(r, s, b, h), IsFiniteSet(DOMAIN b), IsFiniteSet(DOMAIN h),
         r.basis = "complete-observation"
  PROVE  Complete(b) /\ Complete(h) /\ (Several(b) \/ Several(h))
<1>1. CASE \E d \in Variants(b) \cap Variants(h) : r = OccurrenceRecord(s, b, h, d)
  <2>1. PICK d : d \in Variants(b) /\ d \in Variants(h) /\ r = OccurrenceRecord(s, b, h, d)
    BY <1>1, Zenon
  <2>2. PICK bo, ho : bo = OccurrenceProfile(b, d) /\ ho = OccurrenceProfile(h, d)
    OBVIOUS
  <2>3. r.basis = Basis({bo, ho})
    BY <2>1, <2>2, OccurrenceRecordFields
  <2>4. /\ bo.coverage = "complete" /\ bo.repeatability # "single-sample"
        /\ ho.coverage = "complete" /\ ho.repeatability # "single-sample"
    BY <2>3, EarnedBasis, Zenon
  <2> QED
    BY <2>1, <2>2, <2>4, EarnedProfile, Zenon DEF Complete, Several
<1>2. CASE \E p \in PairsOf(b, h) : r = ModifiedRecord(s, b, h, p[1], p[2])
  <2>1. PICK p \in PairsOf(b, h) : r = ModifiedRecord(s, b, h, p[1], p[2])
    BY <1>2
  <2>2. PICK d, e : d = p[1] /\ e = p[2]
    OBVIOUS
  <2>3. d \in Variants(b) /\ e \in Variants(h)
    BY <2>2, PairParts, Zenon DEF Unmatched
  <2>4. PICK bo, ho : bo = OccurrenceProfile(b, d) /\ ho = OccurrenceProfile(h, e)
    OBVIOUS
  <2>5. r = ModifiedRecord(s, b, h, d, e)
    BY <2>1, <2>2, Zenon
  <2>6. r.basis = Basis({bo, ho})
    BY <2>4, <2>5, ModifiedRecordFields
  <2>7. /\ bo.coverage = "complete" /\ bo.repeatability # "single-sample"
        /\ ho.coverage = "complete" /\ ho.repeatability # "single-sample"
    BY <2>6, EarnedBasis, Zenon
  <2> QED
    BY <2>3, <2>4, <2>7, EarnedProfile, Zenon DEF Complete, Several
<1>3. CASE \E d \in Unmatched(b, h) \ {p[1] : p \in PairsOf(b, h)} : r = RemovedRecord(s, b, h, d)
  <2>1. PICK d \in Variants(b) : r = RemovedRecord(s, b, h, d)
    BY <1>3, Zenon DEF Unmatched
  <2>2. PICK o : o = OccurrenceProfile(b, d)
    OBVIOUS
  <2>3. r.basis = BasisForAbsence(AttemptsComplete(h), o)
    BY ONLY <2>1, <2>2, RemovedRecordFields
  <2>4. AttemptsComplete(h) /\ o.coverage = "complete" /\ o.repeatability # "single-sample"
    BY <2>3, EarnedAbsence, Zenon
  <2>5. Complete(b) /\ Several(b)
    BY <2>2, <2>4, EarnedProfile, Zenon DEF Complete, Several
  <2> QED
    BY <2>4, <2>5, Zenon DEF Complete, AttemptsComplete
<1>4. CASE \E d \in Unmatched(h, b) \ {p[2] : p \in PairsOf(b, h)} : r = AddedRecord(s, b, h, d)
  <2>1. PICK d \in Variants(h) : r = AddedRecord(s, b, h, d)
    BY <1>4, Zenon DEF Unmatched
  <2>2. PICK o : o = OccurrenceProfile(h, d)
    OBVIOUS
  <2>3. r.basis = BasisForAbsence(AttemptsComplete(b), o)
    BY ONLY <2>1, <2>2, AddedRecordFields
  <2>4. AttemptsComplete(b) /\ o.coverage = "complete" /\ o.repeatability # "single-sample"
    BY <2>3, EarnedAbsence, Zenon
  <2>5. Complete(h) /\ Several(h)
    BY <2>2, <2>4, EarnedProfile, Zenon DEF Complete, Several
  <2> QED
    BY <2>4, <2>5, Zenon DEF Complete, AttemptsComplete
<1>5. CASE r \in OrderRecords(s, b, h)
  <2>1. StableSequence(b) # Nothing /\ StableSequence(h) # Nothing
    BY <1>5, Zenon DEF OrderRecords
  <2> QED
    BY <2>1, StableSide, Zenon
<1>6. CASE r = CoverageRecord(s)
  <2>1. r.basis = "coverage-limited"
    BY <1>6, CoverageRecordFields
  <2> QED
    BY <2>1
<1> QED
  BY <1>1, <1>2, <1>3, <1>4, <1>5, <1>6, Zenon DEF RecordCase

\* A behaviour is called added or removed only when the other side was complete.
LEMMA AbsenceIsEarned ==
  ASSUME NEW r, NEW s, NEW b, NEW h, RecordCase(r, s, b, h)
  PROVE  /\ r.kind = "added" => Complete(b)
         /\ r.kind = "removed" => Complete(h)
<1>1. ASSUME IsRemoved(r, s, b, h) PROVE r.kind # "added" /\ (r.kind = "removed" => Complete(h))
  <2>1. PICK d : r = RemovedRecord(s, b, h, d)
    BY <1>1, Zenon DEF IsRemoved
  <2>2. r.kind = (IF AttemptsComplete(h) THEN "removed" ELSE "coverage-changed")
    BY ONLY <2>1, RemovedRecordFields
  <2> QED
    BY <2>2 DEF Complete, AttemptsComplete
<1>2. ASSUME IsAdded(r, s, b, h) PROVE r.kind # "removed" /\ (r.kind = "added" => Complete(b))
  <2>1. PICK d : r = AddedRecord(s, b, h, d)
    BY <1>2, Zenon DEF IsAdded
  <2>2. r.kind = (IF AttemptsComplete(b) THEN "added" ELSE "coverage-changed")
    BY ONLY <2>1, AddedRecordFields
  <2> QED
    BY <2>2 DEF Complete, AttemptsComplete
<1>3. ASSUME IsCoverage(r, s, b, h) PROVE r.kind = "coverage-changed"
  BY <1>3, CoverageRecordFields DEF IsCoverage
<1>4. r.kind \in {"added", "removed"} => IsRemoved(r, s, b, h) \/ IsAdded(r, s, b, h) \/ IsCoverage(r, s, b, h)
  <2>1. r.kind \in {"added", "removed"} => r.kind \in OneSidedKinds
    BY DEF OneSidedKinds
  <2> QED
    BY <2>1, RecordShape, Zenon
<1>5. r.kind = "coverage-changed" => r.kind # "added" /\ r.kind # "removed"
  OBVIOUS
<1> QED
  BY <1>1, <1>2, <1>3, <1>4, <1>5, Zenon

\* The attempts of a side are as many as the plan repeats, at most.
LEMMA SideIsSmall ==
  ASSUME NEW x, NEW ignore, NEW trace, trace = Normalize(x, ignore), NEW m \in Nat,
         \A i \in DOMAIN x.attempts : x.attempts[i].repetition \in 1..m,
         NEW s, NEW revision, NEW a, a = AttemptsOf(trace, s, revision)
  PROVE  IsFiniteSet(DOMAIN a) /\ (Several(a) => m > 1)
<1>1. DOMAIN a \subseteq 1..m
  <2> SUFFICES ASSUME NEW n \in DOMAIN a PROVE n \in 1..m
    OBVIOUS
  <2>1. PICK i \in DOMAIN trace.attempts : trace.attempts[i].repetition = n
    BY AttemptsOfTrace
  <2>2. i \in DOMAIN x.attempts /\ trace.attempts[i].repetition = x.attempts[i].repetition
    BY <2>1, TraceAttempts
  <2> QED
    BY <2>1, <2>2, Zenon
<1>2. IsFiniteSet(1..m) /\ Cardinality(1..m) = m
  BY FS_Interval
<1>3. IsFiniteSet(DOMAIN a) /\ Cardinality(DOMAIN a) <= Cardinality(1..m)
  BY <1>1, <1>2, FS_Subset
<1> QED
  BY <1>2, <1>3 DEF Several

\* A review that is not refused was made of a valid trace.
LEMMA ReviewedTrace ==
  ASSUME ReviewIsCurrent, Reviewed
  PROVE  TraceIsValid(review.trace)
<1>1. Chain /\ ~review.refused
  BY Zenon DEF ReviewIsCurrent, Reviewed
<1>2. PICK trace, delta, ev, app, config, b, h, at :
        /\ trace = review.trace /\ delta = review.delta /\ ev = review.evaluation /\ app = review.application
        /\ config = head.config /\ b = base.waivers /\ h = head.waivers /\ at = now
  OBVIOUS
<1>3. delta = CompareTraces(trace) /\ ev = Evaluate(delta) /\ app = Apply(ev, config, b, h, at)
  BY <1>1, <1>2, Zenon DEF Chain
<1>4. ~app.refused
  BY <1>1, <1>2, Zenon DEF Chain
<1>5. IsApplication(app, ev, config, b, h, at)
  BY <1>3, ApplyFields, Zenon
<1>6. ~ev.refused
  BY <1>4, <1>5, Zenon DEF IsApplication
<1>7. ~delta.refused
  BY <1>3, <1>6, EvaluateFields, Zenon
<1>8. TraceIsValid(trace)
  BY <1>3, <1>7 DEF CompareTraces
<1> QED
  BY <1>2, <1>8, Zenon

\* What was not observed is not taken for absent, and no finding about a record is of high
\* confidence unless all attempts of both sides were complete, repeatedly, and the observer
\* is not the code under observation (BasisForAbsence, classifyPolicyConfidence).
THEOREM HighConfidenceTheorem == Spec => []HighConfidenceIsEarned
<1>1. ReviewIsCurrent /\ BundleInv => HighConfidenceIsEarned
  <2> SUFFICES ASSUME ReviewIsCurrent, BundleInv, Reviewed, NEW r \in review.delta.records
               PROVE  /\ r.kind = "added" => WholeSide(r.scenario, "base")
                      /\ r.kind = "removed" => WholeSide(r.scenario, "head")
                      /\ (\E f \in RecordFindings(r) : f.confidence = "high") =>
                           /\ WholeSide(r.scenario, "base") /\ WholeSide(r.scenario, "head") /\ plan.repetitions > 1
                           /\ SourceOf(r) \notin {"guest", "workload", "static", "model", "synthetic"}
    BY Zenon DEF HighConfidenceIsEarned
  <2>1. review.trace = Normalize(bundle, plan.ignore) /\ review.delta = CompareTraces(review.trace)
    BY Zenon DEF ReviewIsCurrent, Reviewed, Chain
  <2>2. PICK trace, x, ignore, m : trace = review.trace /\ x = bundle /\ ignore = plan.ignore /\ m = plan.repetitions
    OBVIOUS
  <2>3. trace = Normalize(x, ignore) /\ TraceIsValid(trace)
    BY <2>1, <2>2, ReviewedTrace, Zenon
  <2>4. stage # "running"
    BY DEF Reviewed
  <2>5. /\ DOMAIN x.attempts \subseteq Nat /\ m \in Nat
        /\ \A i \in DOMAIN x.attempts : x.attempts[i].repetition \in 1..m
    <3>1. plan \in Cases
      BY DEF BundleInv
    <3>2. m \in Nat
      BY <2>2, <3>1, ReviewAssumption
    <3> QED
      BY <2>2, <2>4, <3>2, Zenon DEF BundleInv
  <2>6. PICK s : RecordCase(r, s, AttemptsOf(trace, s, "base"), AttemptsOf(trace, s, "head"))
    BY <2>1, <2>2, DeltaRecord, Zenon
  <2>7. PICK b, h : b = AttemptsOf(trace, s, "base") /\ h = AttemptsOf(trace, s, "head")
    OBVIOUS
  <2>8. RecordCase(r, s, b, h) /\ r.scenario = s
    BY <2>6, <2>7, RecordShape, Zenon
  <2>9. Complete(b) => WholeSide(s, "base")
    BY <2>2, <2>3, <2>5, <2>7, SideIsWhole DEF Complete, WholeSide
  <2>10. Complete(h) => WholeSide(s, "head")
    BY <2>2, <2>3, <2>5, <2>7, SideIsWhole DEF Complete, WholeSide
  <2>11. IsFiniteSet(DOMAIN b) /\ (Several(b) => m > 1)
    BY <2>3, <2>5, <2>7, SideIsSmall
  <2>12. IsFiniteSet(DOMAIN h) /\ (Several(h) => m > 1)
    BY <2>3, <2>5, <2>7, SideIsSmall
  <2>13. (r.kind = "added" => Complete(b)) /\ (r.kind = "removed" => Complete(h))
    BY <2>8, AbsenceIsEarned, Zenon
  <2>14. ASSUME NEW f \in RecordFindings(r), f.confidence = "high"
         PROVE  /\ Complete(b) /\ Complete(h) /\ m > 1
                /\ SourceOf(r) \notin {"guest", "workload", "static", "model", "synthetic"}
    <3>1. r.basis = "complete-observation" /\ SourceOf(r) \notin {"guest", "workload", "static", "model", "synthetic"}
      BY <2>14, EarnedConfidence, Zenon
    <3>2. Complete(b) /\ Complete(h) /\ (Several(b) \/ Several(h))
      BY <2>8, <2>11, <2>12, <3>1, EarnedRecord, Zenon
    <3> QED
      BY <2>11, <2>12, <3>1, <3>2, Zenon
  <2> QED
    BY <2>2, <2>8, <2>9, <2>10, <2>13, <2>14, Zenon
<1> QED
  BY <1>1, Current, BundleIsThePlans, PTL

-----------------------------------------------------------------------------
(* What a comparison looks at.                                             *)

\* Two sides that a comparison cannot tell apart.
SameSide(a, c) ==
  /\ DOMAIN a = DOMAIN c
  /\ \A i \in DOMAIN a : a[i].coverage = c[i].coverage /\ DigestsOf(a[i]) = DigestsOf(c[i])

LEMMA SameSideFacts ==
  ASSUME NEW a, NEW c, SameSide(a, c)
  PROVE  /\ Variants(a) = Variants(c)
         /\ AttemptsComplete(a) = AttemptsComplete(c)
         /\ \A d : OccurrenceProfile(a, d) = OccurrenceProfile(c, d)
         /\ StableSequence(a) = StableSequence(c)
<1>1. DOMAIN a = DOMAIN c /\ \A i \in DOMAIN a : a[i].coverage = c[i].coverage /\ DigestsOf(a[i]) = DigestsOf(c[i])
  BY DEF SameSide
<1>2. Variants(a) = Variants(c)
  <2>1. {Range(DigestsOf(a[i])) : i \in DOMAIN a} = {Range(DigestsOf(c[i])) : i \in DOMAIN c}
    BY <1>1, Zenon
  <2> QED
    BY <2>1, Zenon DEF Variants
<1>3. AttemptsComplete(a) = AttemptsComplete(c)
  BY <1>1 DEF AttemptsComplete
<1>4. ASSUME NEW d PROVE OccurrenceProfile(a, d) = OccurrenceProfile(c, d)
  <2>1. ASSUME NEW i \in DOMAIN a PROVE RepetitionOccurrence(a[i], d) = RepetitionOccurrence(c[i], d)
    <3>1. PICK x, y, n : x = a[i].coverage /\ y = DigestsOf(a[i]) /\ n = CountOf(y, d)
      OBVIOUS
    <3>2. c[i].coverage = x /\ CountOf(DigestsOf(c[i]), d) = n /\ CountOf(DigestsOf(a[i]), d) = n
      BY <1>1, <3>1, Zenon
    <3> QED
      BY <3>1, <3>2 DEF RepetitionOccurrence
  <2>2. [i \in DOMAIN a |-> RepetitionOccurrence(a[i], d)] = [i \in DOMAIN c |-> RepetitionOccurrence(c[i], d)]
    BY <1>1, <2>1
  <2> QED
    BY <2>2, Zenon DEF OccurrenceProfile
<1>5. StableSequence(a) = StableSequence(c)
  <2>1. {DigestsOf(a[i]) : i \in DOMAIN a} = {DigestsOf(c[i]) : i \in DOMAIN c}
    BY <1>1, Zenon
  <2>2. PICK O : O = {DigestsOf(a[i]) : i \in DOMAIN a}
    OBVIOUS
  <2>3. StableSequence(a) = (IF Cardinality(DOMAIN a) >= 2 /\ AttemptsComplete(a) /\ (\A x, y \in O : x = y)
                             THEN CHOOSE x \in O : TRUE ELSE Nothing)
    BY <2>2 DEF StableSequence
  <2>4. StableSequence(c) = (IF Cardinality(DOMAIN c) >= 2 /\ AttemptsComplete(c) /\ (\A x, y \in O : x = y)
                             THEN CHOOSE x \in O : TRUE ELSE Nothing)
    <3>1. O = {DigestsOf(c[i]) : i \in DOMAIN c}
      BY <2>1, <2>2, Zenon
    <3> QED
      BY ONLY <3>1 DEF StableSequence
  <2>5. PICK u, n, v : u = (CHOOSE x \in O : TRUE) /\ n = Cardinality(DOMAIN a) /\ v = AttemptsComplete(a)
    OBVIOUS
  <2>6. StableSequence(a) = (IF n >= 2 /\ v /\ (\A x, y \in O : x = y) THEN u ELSE Nothing)
    BY <2>3, <2>5
  <2>7. StableSequence(c) = (IF n >= 2 /\ v /\ (\A x, y \in O : x = y) THEN u ELSE Nothing)
    BY <1>1, <1>3, <2>4, <2>5
  <2> QED
    BY ONLY <2>6, <2>7
<1> QED
  BY <1>2, <1>3, <1>4, <1>5, Zenon

\* Sides that cannot be told apart have the same records.
LEMMA SameCases ==
  ASSUME NEW b, NEW h, NEW b2, NEW h2, SameSide(b, b2), SameSide(h, h2), NEW s, NEW r, RecordCase(r, s, b, h)
  PROVE  RecordCase(r, s, b2, h2)
<1>1. /\ Variants(b) = Variants(b2) /\ Variants(h) = Variants(h2)
      /\ AttemptsComplete(b) = AttemptsComplete(b2)
      /\ AttemptsComplete(h) = AttemptsComplete(h2)
      /\ StableSequence(b) = StableSequence(b2) /\ StableSequence(h) = StableSequence(h2)
  BY SameSideFacts, Zenon
<1>2. \A d : OccurrenceProfile(b, d) = OccurrenceProfile(b2, d) /\ OccurrenceProfile(h, d) = OccurrenceProfile(h2, d)
  BY SameSideFacts, Zenon
<1>3. Unmatched(b, h) = Unmatched(b2, h2) /\ Unmatched(h, b) = Unmatched(h2, b2)
  BY <1>1, Zenon DEF Unmatched
<1>4. PairsOf(b, h) = PairsOf(b2, h2)
  BY <1>3, Zenon DEF PairsOf
<1>5. ASSUME NEW d PROVE OccurrenceRecord(s, b, h, d) = OccurrenceRecord(s, b2, h2, d)
  BY <1>2, Zenon DEF OccurrenceRecord
<1>6. ASSUME NEW d, NEW e PROVE ModifiedRecord(s, b, h, d, e) = ModifiedRecord(s, b2, h2, d, e)
  BY <1>2, Zenon DEF ModifiedRecord
<1>7. ASSUME NEW d PROVE RemovedRecord(s, b, h, d) = RemovedRecord(s, b2, h2, d)
  <2>1. PICK x, y : x = Variants(b) /\ y = Variants(h)
    OBVIOUS
  <2>2. PICK o : o = OccurrenceProfile(b, d)
    OBVIOUS
  <2> QED
    BY <1>1, <1>2, <2>1, <2>2, Zenon DEF RemovedRecord
<1>8. ASSUME NEW d PROVE AddedRecord(s, b, h, d) = AddedRecord(s, b2, h2, d)
  BY <1>1, <1>2, Zenon DEF AddedRecord
<1>9. OrderRecords(s, b, h) = OrderRecords(s, b2, h2)
  BY <1>1, Zenon DEF OrderRecords
<1> QED
  BY <1>1, <1>2, <1>3, <1>4, <1>5, <1>6, <1>7, <1>8, <1>9, Zenon DEF RecordCase

\* In a valid trace every attempt is found again by its revision, scenario and repetition.
LEMMA AttemptFound ==
  ASSUME NEW trace, TraceIsValid(trace), DOMAIN trace.attempts \subseteq Nat, NEW i \in DOMAIN trace.attempts,
         NEW s, NEW revision, NEW n, s = trace.attempts[i].scenario, revision = trace.attempts[i].revision,
         n = trace.attempts[i].repetition
  PROVE  n \in DOMAIN AttemptsOf(trace, s, revision) /\ AttemptsOf(trace, s, revision)[n] = trace.attempts[i]
<1>1. PICK a : a = trace.attempts
  OBVIOUS
<1>2. PICK side : side = {j \in DOMAIN a : a[j].scenario = s /\ a[j].revision = revision}
  OBVIOUS
<1>3. AttemptsOf(trace, s, revision)
        = [m \in {a[j].repetition : j \in side} |-> a[CHOOSE j \in side : a[j].repetition = m]]
  BY <1>1, <1>2 DEF AttemptsOf
<1>4. i \in side /\ i \in DOMAIN a /\ a[i].scenario = s /\ a[i].revision = revision /\ a[i].repetition = n
  BY <1>1, <1>2, Zenon
<1>5. PICK j : j = CHOOSE k \in side : a[k].repetition = n
  OBVIOUS
<1>6. j \in side /\ a[j].repetition = n
  BY <1>4, <1>5, Zenon
<1>7. j = i
  <2>1. j \in DOMAIN a /\ a[j].scenario = s /\ a[j].revision = revision /\ j \in Nat /\ i \in Nat
    BY <1>1, <1>2, <1>6, Zenon
  <2>2. <<a[i].revision, a[i].scenario, a[i].repetition>> = <<a[j].revision, a[j].scenario, a[j].repetition>>
    BY <1>4, <1>6, <2>1
  <2>3. ~(i < j) /\ ~(j < i)
    BY <1>1, <1>4, <2>1, <2>2, Zenon DEF TraceIsValid
  <2> QED
    BY <2>1, <2>3
<1>8. n \in {a[k].repetition : k \in side}
  BY <1>4, Zenon
<1>9. AttemptsOf(trace, s, revision)[n] = a[j]
  BY ONLY <1>3, <1>5, <1>8
<1>10. n \in DOMAIN AttemptsOf(trace, s, revision)
  BY <1>3, <1>8
<1> QED
  BY <1>1, <1>7, <1>9, <1>10, Zenon

\* Two traces that a comparison cannot tell apart.
SameTrace(t, u) ==
  /\ DOMAIN t.attempts = DOMAIN u.attempts
  /\ \A i \in DOMAIN t.attempts :
       /\ t.attempts[i].scenario = u.attempts[i].scenario /\ t.attempts[i].revision = u.attempts[i].revision
       /\ t.attempts[i].repetition = u.attempts[i].repetition /\ t.attempts[i].coverage = u.attempts[i].coverage
       /\ DigestsOf(t.attempts[i]) = DigestsOf(u.attempts[i])

LEMMA SameTraceSides ==
  ASSUME NEW t, NEW u, SameTrace(t, u), TraceIsValid(t), TraceIsValid(u), DOMAIN t.attempts \subseteq Nat,
         NEW s, NEW revision
  PROVE  SameSide(AttemptsOf(t, s, revision), AttemptsOf(u, s, revision))
<1>1. PICK a, c : a = AttemptsOf(t, s, revision) /\ c = AttemptsOf(u, s, revision)
  OBVIOUS
<1>2. DOMAIN u.attempts \subseteq Nat /\ DOMAIN u.attempts = DOMAIN t.attempts
  BY Zenon DEF SameTrace
<1>3. ASSUME NEW n \in DOMAIN a
      PROVE  n \in DOMAIN c /\ a[n].coverage = c[n].coverage /\ DigestsOf(a[n]) = DigestsOf(c[n])
  <2>1. PICK i \in DOMAIN t.attempts :
          /\ t.attempts[i].scenario = s /\ t.attempts[i].revision = revision
          /\ t.attempts[i].repetition = n /\ a[n] = t.attempts[i]
    BY <1>1, AttemptsOfTrace
  <2>2. /\ i \in DOMAIN u.attempts /\ u.attempts[i].scenario = s /\ u.attempts[i].revision = revision
        /\ u.attempts[i].repetition = n /\ u.attempts[i].coverage = t.attempts[i].coverage
        /\ DigestsOf(u.attempts[i]) = DigestsOf(t.attempts[i])
    BY <2>1, Zenon DEF SameTrace
  <2>3. n \in DOMAIN c /\ c[n] = u.attempts[i]
    BY <1>1, <1>2, <2>2, AttemptFound
  <2> QED
    BY <2>1, <2>2, <2>3, Zenon
<1>4. ASSUME NEW n \in DOMAIN c PROVE n \in DOMAIN a
  <2>1. PICK i \in DOMAIN u.attempts :
          /\ u.attempts[i].scenario = s /\ u.attempts[i].revision = revision /\ u.attempts[i].repetition = n
    BY <1>1, AttemptsOfTrace
  <2>2. /\ i \in DOMAIN t.attempts /\ t.attempts[i].scenario = s /\ t.attempts[i].revision = revision
        /\ t.attempts[i].repetition = n
    BY <1>2, <2>1, Zenon DEF SameTrace
  <2> QED
    BY <1>1, <2>2, AttemptFound
<1> QED
  BY <1>1, <1>3, <1>4, Zenon DEF SameSide

LEMMA SameTraceRecords ==
  ASSUME NEW t, NEW u, SameTrace(t, u), TraceIsValid(t), TraceIsValid(u), DOMAIN t.attempts \subseteq Nat
  PROVE  CompareTraces(t).records \subseteq CompareTraces(u).records
<1> SUFFICES ASSUME NEW r \in CompareTraces(t).records PROVE r \in CompareTraces(u).records
  OBVIOUS
<1>1. PICK s \in ScenariosOf(t) : RecordCase(r, s, AttemptsOf(t, s, "base"), AttemptsOf(t, s, "head"))
  BY DeltaRecord, Zenon
<1>2. PICK b, h, b2, h2 : /\ b = AttemptsOf(t, s, "base") /\ h = AttemptsOf(t, s, "head")
                          /\ b2 = AttemptsOf(u, s, "base") /\ h2 = AttemptsOf(u, s, "head")
  OBVIOUS
<1>3. SameSide(b, b2) /\ SameSide(h, h2)
  BY <1>2, SameTraceSides, Zenon
<1>4. RecordCase(r, s, b2, h2)
  BY <1>1, <1>2, <1>3, SameCases, Zenon
<1>5. r \in CompareScenario(u, s)
  BY <1>2, <1>4, ScenarioRecords
<1>6. s \in ScenariosOf(u)
  BY <1>1, Zenon DEF ScenariosOf, SameTrace
<1>7. CompareTraces(u).records = UNION {CompareScenario(u, x) : x \in ScenariosOf(u)}
  BY DEF CompareTraces
<1> QED
  BY <1>5, <1>6, <1>7, Zenon

LEMMA EmptyFunction ==
  ASSUME NEW a, a = [i \in DOMAIN a |-> a[i]], DOMAIN a = {}
  PROVE  a = <<>>
<1>1. a \in [1..0 -> {}]
  BY 1..0 = {}
<1>2. a \in Seq({})
  BY <1>1
<1>3. Len(a) = 0
  BY <1>1, <1>2
<1> QED
  BY <1>2, <1>3

LEMMA SameTraceBack ==
  ASSUME NEW t, NEW u, SameTrace(t, u), TraceIsValid(t), DOMAIN t.attempts \subseteq Nat,
         t.attempts = [i \in DOMAIN t.attempts |-> t.attempts[i]]
  PROVE  SameTrace(u, t) /\ TraceIsValid(u) /\ DOMAIN u.attempts \subseteq Nat
<1>1. SameTrace(u, t) /\ DOMAIN u.attempts = DOMAIN t.attempts
  BY Zenon DEF SameTrace
<1>2. ASSUME NEW i \in DOMAIN u.attempts, NEW j \in DOMAIN u.attempts, i < j
      PROVE  /\ <<u.attempts[i].revision, u.attempts[i].scenario, u.attempts[i].repetition>>
                  # <<u.attempts[j].revision, u.attempts[j].scenario, u.attempts[j].repetition>>
             /\ ~(u.attempts[i].revision = "head" /\ u.attempts[j].revision = "base")
  <2>1. /\ <<t.attempts[i].revision, t.attempts[i].scenario, t.attempts[i].repetition>>
             # <<t.attempts[j].revision, t.attempts[j].scenario, t.attempts[j].repetition>>
        /\ ~(t.attempts[i].revision = "head" /\ t.attempts[j].revision = "base")
    BY <1>1, <1>2, Zenon DEF TraceIsValid
  <2>2. /\ t.attempts[i].scenario = u.attempts[i].scenario /\ t.attempts[i].revision = u.attempts[i].revision
        /\ t.attempts[i].repetition = u.attempts[i].repetition
        /\ t.attempts[j].scenario = u.attempts[j].scenario /\ t.attempts[j].revision = u.attempts[j].revision
        /\ t.attempts[j].repetition = u.attempts[j].repetition
    BY <1>1, <1>2, Zenon DEF SameTrace
  <2> QED
    BY <2>1, <2>2, Zenon
<1>3. u.attempts # <<>>
  <2>1. DOMAIN t.attempts # {}
    <3>1. t.attempts # <<>>
      BY Zenon DEF TraceIsValid
    <3> QED
      BY <3>1, EmptyFunction, Zenon
  <2> QED
    BY <1>1, <2>1
<1> QED
  BY <1>1, <1>2, <1>3, Zenon DEF TraceIsValid

-----------------------------------------------------------------------------
(* Process numbers and clocks.                                             *)

\* The processes running in two attempts are the same but for their numbers.
SameActive(a, c) ==
  /\ \A k \in DOMAIN a : \E x : \E n \in Nat : k = <<x, n>>
  /\ \A k \in DOMAIN c : \E x : \E n \in Nat : k = <<x, n + 10>>
  /\ \A x : \A n \in Nat :
       /\ <<x, n>> \in DOMAIN a <=> <<x, n + 10>> \in DOMAIN c
       /\ <<x, n>> \in DOMAIN a => c[<<x, n + 10>>] = a[<<x, n>>]

LEMMA PairsEqual == ASSUME NEW x, NEW y, NEW n, NEW m PROVE <<x, n>> = <<y, m>> <=> x = y /\ n = m
OBVIOUS

\* One more is started in both.
LEMMA SameActiveSet ==
  ASSUME NEW a, NEW c, SameActive(a, c), NEW s, NEW p \in Nat, NEW v
  PROVE  SameActive(Set(a, <<s, p>>, v), Set(c, <<s, p + 10>>, v))
<1>1. PICK u, w : u = <<s, p>> /\ w = <<s, p + 10>>
  OBVIOUS
<1>2. PICK a2, c2 : a2 = Set(a, u, v) /\ c2 = Set(c, w, v)
  OBVIOUS
<1>3. /\ DOMAIN a2 = DOMAIN a \cup {u} /\ a2[u] = v
      /\ \A y \in DOMAIN a : y # u => a2[y] = a[y]
  BY ONLY <1>2 DEF Set
<1>4. /\ DOMAIN c2 = DOMAIN c \cup {w} /\ c2[w] = v
      /\ \A y \in DOMAIN c : y # w => c2[y] = c[y]
  BY ONLY <1>2 DEF Set
<1>5. \A k \in DOMAIN a2 : \E x : \E n \in Nat : k = <<x, n>>
  BY <1>1, <1>3, Zenon DEF SameActive
<1>6. \A k \in DOMAIN c2 : \E x : \E n \in Nat : k = <<x, n + 10>>
  BY <1>1, <1>4, Zenon DEF SameActive
<1>7. ASSUME NEW x, NEW n \in Nat
      PROVE  /\ <<x, n>> \in DOMAIN a2 <=> <<x, n + 10>> \in DOMAIN c2
             /\ <<x, n>> \in DOMAIN a2 => c2[<<x, n + 10>>] = a2[<<x, n>>]
  <2>1. <<x, n>> = u <=> <<x, n + 10>> = w
    BY <1>1
  <2>2. /\ <<x, n>> \in DOMAIN a <=> <<x, n + 10>> \in DOMAIN c
        /\ <<x, n>> \in DOMAIN a => c[<<x, n + 10>>] = a[<<x, n>>]
    BY Zenon DEF SameActive
  <2> QED
    BY <1>3, <1>4, <2>1, <2>2, Zenon
<1> QED
  BY <1>1, <1>2, <1>5, <1>6, <1>7, Zenon DEF SameActive

\* One ends in both.
LEMMA SameActiveUnset ==
  ASSUME NEW a, NEW c, SameActive(a, c), NEW s, NEW p \in Nat
  PROVE  SameActive(Unset(a, <<s, p>>), Unset(c, <<s, p + 10>>))
<1>1. PICK u, w : u = <<s, p>> /\ w = <<s, p + 10>>
  OBVIOUS
<1>2. PICK a2, c2 : a2 = Unset(a, u) /\ c2 = Unset(c, w)
  OBVIOUS
<1>3. DOMAIN a2 = DOMAIN a \ {u} /\ \A y \in DOMAIN a : y # u => a2[y] = a[y]
  BY ONLY <1>2 DEF Unset
<1>4. DOMAIN c2 = DOMAIN c \ {w} /\ \A y \in DOMAIN c : y # w => c2[y] = c[y]
  BY ONLY <1>2 DEF Unset
<1>5. \A k \in DOMAIN a2 : \E x : \E n \in Nat : k = <<x, n>>
  BY <1>1, <1>3, Zenon DEF SameActive
<1>6. \A k \in DOMAIN c2 : \E x : \E n \in Nat : k = <<x, n + 10>>
  BY <1>1, <1>4, Zenon DEF SameActive
<1>7. ASSUME NEW x, NEW n \in Nat
      PROVE  /\ <<x, n>> \in DOMAIN a2 <=> <<x, n + 10>> \in DOMAIN c2
             /\ <<x, n>> \in DOMAIN a2 => c2[<<x, n + 10>>] = a2[<<x, n>>]
  <2>1. <<x, n>> = u <=> <<x, n + 10>> = w
    BY <1>1
  <2>2. /\ <<x, n>> \in DOMAIN a <=> <<x, n + 10>> \in DOMAIN c
        /\ <<x, n>> \in DOMAIN a => c[<<x, n + 10>>] = a[<<x, n>>]
    BY Zenon DEF SameActive
  <2> QED
    BY <1>3, <1>4, <2>1, <2>2, Zenon
<1> QED
  BY <1>1, <1>2, <1>5, <1>6, <1>7, Zenon DEF SameActive

\* A source has as many processes running in one as in the other.
LEMMA SameActiveCount ==
  ASSUME NEW st, NEW st2, SameActive(st.active, st2.active), IsFiniteSet(DOMAIN st.active), NEW s
  PROVE  Cardinality(ActiveOf(st2, s)) = Cardinality(ActiveOf(st, s))
<1>1. PICK a, c, S, T : a = st.active /\ c = st2.active /\ S = ActiveOf(st, s) /\ T = ActiveOf(st2, s)
  OBVIOUS
<1>2. SameActive(a, c) /\ S = {k \in DOMAIN a : k[1] = s} /\ T = {k \in DOMAIN c : k[1] = s}
  BY <1>1, Zenon DEF ActiveOf
<1>3. IsFiniteSet(S)
  BY <1>1, <1>2, FS_Subset
<1>4. ASSUME NEW k \in S PROVE \E n \in Nat : k = <<s, n>> /\ k[2] = n /\ <<s, n + 10>> \in T
  <2>1. PICK x : \E n \in Nat : k = <<x, n>>
    BY <1>2, Zenon DEF SameActive
  <2>2. PICK n \in Nat : k = <<x, n>>
    BY <2>1
  <2>3. x = s /\ k = <<s, n>> /\ k[2] = n
    BY <1>2, <2>2
  <2>4. <<s, n + 10>> \in DOMAIN c
    BY <1>2, <2>3, Zenon DEF SameActive
  <2>5. <<s, n + 10>> \in T
    BY <1>2, <2>4
  <2> QED
    BY <2>3, <2>5
<1>5. ASSUME NEW l \in T PROVE \E n \in Nat : l = <<s, n + 10>> /\ <<s, n>> \in S
  <2>1. PICK x : \E n \in Nat : l = <<x, n + 10>>
    BY <1>2, Zenon DEF SameActive
  <2>2. PICK n \in Nat : l = <<x, n + 10>>
    BY <2>1
  <2>3. x = s /\ l = <<s, n + 10>>
    BY <1>2, <2>2
  <2>4. <<s, n>> \in DOMAIN a
    BY <1>2, <2>3, Zenon DEF SameActive
  <2>5. <<s, n>> \in S
    BY <1>2, <2>4
  <2> QED
    BY <2>3, <2>5
<1>6. PICK f : f = [k \in S |-> <<s, k[2] + 10>>]
  OBVIOUS
<1>7. f \in [S -> T]
  BY <1>4, <1>6
<1>8. f \in Injection(S, T)
  <2>1. ASSUME NEW k \in S, NEW l \in S, f[k] = f[l] PROVE k = l
    <3>1. PICK n \in Nat : k = <<s, n>> /\ k[2] = n
      BY <1>4
    <3>2. PICK m \in Nat : l = <<s, m>> /\ l[2] = m
      BY <1>4
    <3>3. f[k] = <<s, n + 10>> /\ f[l] = <<s, m + 10>>
      BY <1>6, <3>1, <3>2
    <3>4. <<s, n + 10>> = <<s, m + 10>>
      BY <2>1, <3>3, Zenon
    <3>5. n + 10 = m + 10
      BY <3>4, PairsEqual, Zenon
    <3> QED
      BY <3>1, <3>2, <3>5
  <2> QED
    BY <1>7, <2>1 DEF Injection, IsInjective
<1>9. f \in Surjection(S, T)
  <2>1. ASSUME NEW l \in T PROVE \E k \in S : f[k] = l
    <3>1. PICK n \in Nat : l = <<s, n + 10>> /\ <<s, n>> \in S
      BY <1>5
    <3>2. f[<<s, n>>] = l
      BY <1>6, <3>1
    <3> QED
      BY <3>1, <3>2
  <2> QED
    BY <1>7, <2>1 DEF Surjection
<1>10. ExistsBijection(S, T)
  BY <1>8, <1>9 DEF ExistsBijection, Bijection
<1> QED
  BY <1>1, <1>3, <1>10, FS_Bijection

\* The same process with other numbers.
MovedBody(b, b2) ==
  /\ b.pid \in Nat /\ b2.pid = b.pid + 10
  /\ b.ppid \in Nat /\ b2.ppid = IF b.ppid = 0 THEN 0 ELSE b.ppid + 10
  /\ b2.exe = b.exe /\ b2.exit = b.exit /\ b2.duration = b.duration

\* What a process is called does not depend on its number, nor on that of its parent.
LEMMA SameGeneration ==
  ASSUME NEW st, NEW st2, NEW s, NEW b, NEW b2, SameActive(st.active, st2.active),
         st2.occurrence = st.occurrence, MovedBody(b, b2)
  PROVE  Generation(st2, s, b2) = Generation(st, s, b)
<1>1. PICK a, c, p, q : a = st.active /\ c = st2.active /\ p = b.ppid /\ q = b2.ppid
  OBVIOUS
<1>2. PICK o, x : o = st.occurrence /\ x = NormalizedPath(b.exe)
  OBVIOUS
<1>3. p \in Nat /\ q = (IF p = 0 THEN 0 ELSE p + 10) /\ SameActive(a, c) /\ b2.exe = b.exe
  BY <1>1, Zenon DEF MovedBody
<1> DEFINE Relation(f, k, n) == IF n = 0 THEN "root" ELSE IF k \in DOMAIN f THEN "known-parent" ELSE "unresolved-parent"
           ParentID(f, k, r) == IF r = "known-parent" THEN f[k].stable ELSE <<r>>
           Result(r, i) == LET seed == <<s, i, x>>
                               nth == Known(o, seed, 0) + 1
                           IN  [stable |-> <<seed, nth>>, parent |-> i, relation |-> r, seed |-> seed, nth |-> nth]
<1>4. PICK k, l : k = <<s, p>> /\ l = <<s, q>>
  OBVIOUS
<1>5. PICK r, r2 : r = Relation(a, k, p) /\ r2 = Relation(c, l, q)
  OBVIOUS
<1>6. PICK i, i2 : i = ParentID(a, k, r) /\ i2 = ParentID(c, l, r2)
  OBVIOUS
<1>7. Generation(st, s, b) = Result(r, i)
  BY <1>1, <1>2, <1>4, <1>5, <1>6 DEF Generation
<1>8. Generation(st2, s, b2) = Result(r2, i2)
  BY <1>1, <1>2, <1>3, <1>4, <1>5, <1>6 DEF Generation
<1> HIDE DEF Result
<1>9. r2 = r /\ i2 = i
  <2>1. CASE p = 0
    BY <1>3, <1>5, <1>6, <2>1
  <2>2. CASE p # 0
    <3>1. q = p + 10 /\ q # 0
      BY <1>3, <2>2
    <3>2. (l \in DOMAIN c <=> k \in DOMAIN a) /\ (k \in DOMAIN a => c[l] = a[k])
      <4>1. l = <<s, p + 10>>
        BY <1>4, <3>1
      <4>2. /\ <<s, p>> \in DOMAIN a <=> <<s, p + 10>> \in DOMAIN c
            /\ <<s, p>> \in DOMAIN a => c[<<s, p + 10>>] = a[<<s, p>>]
        BY <1>3, Zenon DEF SameActive
      <4> QED
        BY <1>4, <4>1, <4>2, Zenon
    <3> QED
      BY <1>5, <1>6, <2>2, <3>1, <3>2
  <2> QED
    BY <2>1, <2>2
<1> QED
  BY <1>7, <1>8, <1>9, Zenon

IsAttemptState(st) ==
  st = [active |-> st.active, occurrence |-> st.occurrence, generations |-> st.generations, clock |-> st.clock]

\* Two attempts that differ in process numbers and, where time is ignored, in times.
Alike(ignore, st, st2) ==
  /\ IsAttemptState(st) /\ IsAttemptState(st2)
  /\ IsFiniteSet(DOMAIN st.active) /\ SameActive(st.active, st2.active)
  /\ st2.occurrence = st.occurrence /\ st2.generations = st.generations
  /\ TimestampField \notin ignore => st2.clock = st.clock

\* What an event is there when it is e here.
Moved(ignore, e, e2) ==
  /\ e2.kind = e.kind /\ e2.source = e.source /\ e2.body.of = e.body.of
  /\ TimestampField \notin ignore => e2.at = e.at
  /\ e.body.of # "process" => e2.body = e.body
  /\ e.body.of = "process" => MovedBody(e.body, e2.body)

LEMMA MovedEvents ==
  ASSUME NEW e, IsEvent(e)
  PROVE  Moved(plan.ignore, e, Renumbered(e))
<1>1. PICK t : t = IF TimestampField \in plan.ignore THEN [e EXCEPT !.at = 9 - @] ELSE e
  OBVIOUS
<1>2. Renumbered(e) = IF e.body.of # "process" THEN t
                      ELSE [t EXCEPT !.body.pid = @ + 10, !.body.ppid = IF @ = 0 THEN 0 ELSE @ + 10]
  BY <1>1 DEF Renumbered
<1>3. PICK k, s, at, b : e = [kind |-> k, source |-> s, at |-> at, body |-> b]
  BY Zenon DEF IsEvent
<1>4. PICK at2 : t = [kind |-> k, source |-> s, at |-> at2, body |-> b] /\ (TimestampField \notin plan.ignore => at2 = at)
  BY <1>1, <1>3
<1>5. CASE e.body.of # "process"
  <2>1. Renumbered(e) = t
    BY <1>2, <1>5
  <2>2. /\ t.kind = k /\ t.source = s /\ t.at = at2 /\ t.body = b
        /\ e.kind = k /\ e.source = s /\ e.at = at /\ e.body = b
    BY <1>3, <1>4
  <2> QED
    BY <1>4, <1>5, <2>1, <2>2, Zenon DEF Moved
<1>6. CASE e.body.of = "process"
  <2>1. e.body = b
    BY <1>3
  <2>2. /\ b.of = "process" /\ b.pid \in Nat /\ b.ppid \in Nat
        /\ b = [of |-> "process", pid |-> b.pid, ppid |-> b.ppid, exe |-> b.exe, exit |-> b.exit,
                duration |-> b.duration]
    BY <1>6, <2>1, Zenon DEF IsEvent
  <2>3. PICK p, q, x, y, z : p = b.pid /\ q = b.ppid /\ x = b.exe /\ y = b.exit /\ z = b.duration
    OBVIOUS
  <2>4. b = [of |-> "process", pid |-> p, ppid |-> q, exe |-> x, exit |-> y, duration |-> z]
    BY <2>2, <2>3, Zenon
  <2>5. PICK q2 : q2 = IF q = 0 THEN 0 ELSE q + 10
    OBVIOUS
  <2>6. PICK b1, b2 : /\ b1 = [of |-> "process", pid |-> p + 10, ppid |-> q, exe |-> x, exit |-> y, duration |-> z]
                      /\ b2 = [of |-> "process", pid |-> p + 10, ppid |-> q2, exe |-> x, exit |-> y, duration |-> z]
    OBVIOUS
  <2>7. PICK e2 : e2 = [kind |-> k, source |-> s, at |-> at2, body |-> b2]
    OBVIOUS
  <2>8. [t EXCEPT !.body.pid = @ + 10, !.body.ppid = IF @ = 0 THEN 0 ELSE @ + 10] = e2
    <3>1. PICK t1 : t1 = [kind |-> k, source |-> s, at |-> at2, body |-> b1]
      OBVIOUS
    <3>2. t.body = b /\ t1.body = b1 /\ b.pid = p /\ b.ppid = q
      BY <1>4, <2>3, <3>1
    <3>3. [b EXCEPT !.pid = p + 10] = b1 /\ [b1 EXCEPT !.ppid = q2] = b2
      BY <2>4, <2>6
    <3>4. [t EXCEPT !.body = b1] = t1 /\ [t1 EXCEPT !.body = b2] = e2
      BY <1>4, <2>7, <3>1
    <3>5. [t.body EXCEPT !.pid = t.body.pid + 10] = b1
      BY <3>2, <3>3, Zenon
    <3>6. [t1.body EXCEPT !.ppid = IF t.body.ppid = 0 THEN 0 ELSE t.body.ppid + 10] = b2
      BY <2>5, <3>2, <3>3, Zenon
    <3> QED
      BY <3>4, <3>5, <3>6, Zenon
  <2>9. Renumbered(e) = e2
    BY <1>2, <1>6, <2>8, Zenon
  <2>10. /\ e2.kind = k /\ e2.source = s /\ e2.at = at2 /\ e2.body = b2
         /\ e.kind = k /\ e.source = s /\ e.at = at
    BY <1>3, <2>7
  <2>11. b2.of = "process" /\ b2.pid = p + 10 /\ b2.ppid = q2 /\ b2.exe = x /\ b2.exit = y /\ b2.duration = z
    BY <2>6
  <2> QED
    BY <1>4, <1>6, <2>1, <2>2, <2>3, <2>5, <2>9, <2>10, <2>11, Zenon DEF Moved, MovedBody
<1> QED
  BY <1>5, <1>6, Zenon

LEMMA SameLimitHit ==
  ASSUME NEW ignore, NEW st, NEW st2, Alike(ignore, st, st2), NEW s
  PROVE  ProcessLimitHit(st2, s) <=> ProcessLimitHit(st, s)
<1>1. /\ SameActive(st.active, st2.active) /\ IsFiniteSet(DOMAIN st.active)
      /\ st2.generations = st.generations
  BY Zenon DEF Alike
<1>2. Cardinality(ActiveOf(st2, s)) = Cardinality(ActiveOf(st, s))
  BY ONLY <1>1, SameActiveCount
<1> QED
  BY <1>1, <1>2, Zenon DEF ProcessLimitHit

\* Only processes have numbers.
LEMMA ProcessEvents ==
  ASSUME NEW e, EventIsValid(e)
  PROVE  e.body.of = "process" <=> e.kind \in {"process-start", "process-exit"}
<1>1. PICK k, o : k = e.kind /\ o = e.body.of
  OBVIOUS
<1>2. o = PayloadOf(k)
  BY <1>1, Zenon DEF EventIsValid
<1>3. PayloadOf(k) = "process" <=> k \in {"process-start", "process-exit"}
  BY DEF PayloadOf
<1> QED
  BY <1>1, <1>2, <1>3, Zenon

LEMMA SameRefusal ==
  ASSUME NEW ignore, NEW st, NEW st2, Alike(ignore, st, st2), NEW e, NEW e2, Moved(ignore, e, e2)
  PROVE  EventRefused(st2, e2) <=> EventRefused(st, e)
<1>1. e2.kind = e.kind /\ e2.source = e.source /\ e2.body.of = e.body.of
  BY Zenon DEF Moved
<1>2. EventIsValid(e2) <=> EventIsValid(e)
  BY <1>1, Zenon DEF EventIsValid
<1>3. ProcessLimitHit(st2, e.source) <=> ProcessLimitHit(st, e.source)
  BY SameLimitHit, Zenon
<1> QED
  BY <1>1, <1>2, <1>3, Zenon DEF EventRefused

IsStateOf(u, active, occurrence, generations, clock) ==
  /\ IsAttemptState(u) /\ u.active = active /\ u.occurrence = occurrence
  /\ u.generations = generations /\ u.clock = clock

\* What an assignment to a field of the state of an attempt leaves alone.
LEMMA SetClock ==
  ASSUME NEW st, IsAttemptState(st), NEW x, NEW u, u = [st EXCEPT !.clock = x]
  PROVE  /\ IsAttemptState(u) /\ u.active = st.active /\ u.occurrence = st.occurrence
         /\ u.generations = st.generations /\ u.clock = x
<1>1. PICK a, o, g, c : a = st.active /\ o = st.occurrence /\ g = st.generations /\ c = st.clock
  OBVIOUS
<1>2. st = [active |-> a, occurrence |-> o, generations |-> g, clock |-> c]
  BY <1>1, Zenon DEF IsAttemptState
<1>3. u = [active |-> a, occurrence |-> o, generations |-> g, clock |-> x]
  BY <1>2
<1> QED
  BY <1>1, <1>3 DEF IsAttemptState

LEMMA SetActive ==
  ASSUME NEW st, IsAttemptState(st), NEW x, NEW u, u = [st EXCEPT !.active = x]
  PROVE  /\ IsAttemptState(u) /\ u.active = x /\ u.occurrence = st.occurrence
         /\ u.generations = st.generations /\ u.clock = st.clock
<1>1. PICK a, o, g, c : a = st.active /\ o = st.occurrence /\ g = st.generations /\ c = st.clock
  OBVIOUS
<1>2. st = [active |-> a, occurrence |-> o, generations |-> g, clock |-> c]
  BY <1>1, Zenon DEF IsAttemptState
<1>3. u = [active |-> x, occurrence |-> o, generations |-> g, clock |-> c]
  BY <1>2
<1> QED
  BY <1>1, <1>3 DEF IsAttemptState

LEMMA SetStarted ==
  ASSUME NEW st, IsAttemptState(st), NEW x, NEW y, NEW z, NEW u,
         u = [st EXCEPT !.active = x, !.occurrence = y, !.generations = z]
  PROVE  IsStateOf(u, x, y, z, st.clock)
<1>1. PICK a, o, g, c : a = st.active /\ o = st.occurrence /\ g = st.generations /\ c = st.clock
  OBVIOUS
<1>2. st = [active |-> a, occurrence |-> o, generations |-> g, clock |-> c]
  BY <1>1, Zenon DEF IsAttemptState
<1>3. PICK v, w : /\ v = [active |-> x, occurrence |-> o, generations |-> g, clock |-> c]
                  /\ w = [active |-> x, occurrence |-> y, generations |-> g, clock |-> c]
  OBVIOUS
<1>4. [st EXCEPT !.active = x] = v /\ [v EXCEPT !.occurrence = y] = w
  BY <1>2, <1>3
<1>5. [w EXCEPT !.generations = z] = [active |-> x, occurrence |-> y, generations |-> z, clock |-> c]
  BY <1>3
<1>6. u = [active |-> x, occurrence |-> y, generations |-> z, clock |-> c]
  BY <1>4, <1>5, Zenon
<1> QED
  BY <1>1, <1>6 DEF IsAttemptState, IsStateOf

LEMMA ClockedAlike ==
  ASSUME NEW ignore, NEW st, NEW st2, Alike(ignore, st, st2), NEW e, NEW e2, Moved(ignore, e, e2)
  PROVE  Alike(ignore, Clocked(st, e), Clocked(st2, e2))
<1> DEFINE Clock(f, v) == Set(f, v.source, [origin |-> Known(f, v.source, [origin |-> v.at]).origin, last |-> v.at])
<1>1. PICK x, x2, u, u2 : /\ x = Clock(st.clock, e) /\ x2 = Clock(st2.clock, e2)
                          /\ u = Clocked(st, e) /\ u2 = Clocked(st2, e2)
  OBVIOUS
<1>2. u = [st EXCEPT !.clock = x] /\ u2 = [st2 EXCEPT !.clock = x2]
  BY <1>1, Zenon DEF Clocked
<1>3. TimestampField \notin ignore => x2 = x
  <2> SUFFICES ASSUME TimestampField \notin ignore PROVE x2 = x
    OBVIOUS
  <2>1. st2.clock = st.clock /\ e2.at = e.at /\ e2.source = e.source
    BY Zenon DEF Alike, Moved
  <2> QED
    BY <1>1, <2>1, Zenon
<1> HIDE DEF Clock
<1>4. IsAttemptState(st) /\ IsAttemptState(st2)
  BY Zenon DEF Alike
<1>5. /\ IsAttemptState(u) /\ u.active = st.active /\ u.occurrence = st.occurrence
      /\ u.generations = st.generations /\ u.clock = x
  BY ONLY <1>2, <1>4, SetClock
<1>6. /\ IsAttemptState(u2) /\ u2.active = st2.active /\ u2.occurrence = st2.occurrence
      /\ u2.generations = st2.generations /\ u2.clock = x2
  BY ONLY <1>2, <1>4, SetClock
<1> QED
  BY <1>1, <1>3, <1>5, <1>6, Zenon DEF Alike

LEMMA StartedAlike ==
  ASSUME NEW ignore, NEW st, NEW st2, Alike(ignore, st, st2), NEW s, NEW b, NEW b2, MovedBody(b, b2)
  PROVE  /\ Alike(ignore, ProcessStart(st, s, b), ProcessStart(st2, s, b2))
         /\ <<s, b.pid>> \in DOMAIN ProcessStart(st, s, b).active
<1>1. PICK g : g = Generation(st, s, b)
  OBVIOUS
<1>2. Generation(st2, s, b2) = g
  <2>1. SameActive(st.active, st2.active) /\ st2.occurrence = st.occurrence
    BY Zenon DEF Alike
  <2>2. Generation(st2, s, b2) = Generation(st, s, b)
    BY ONLY MovedBody(b, b2), <2>1, SameGeneration
  <2> QED
    BY <1>1, <2>2, Zenon
<1>3. PICK p : p = b.pid /\ p \in Nat /\ b2.pid = p + 10
  BY Zenon DEF MovedBody
<1>4. PICK x, x2 : x = Set(st.active, <<s, p>>, g) /\ x2 = Set(st2.active, <<s, p + 10>>, g)
  OBVIOUS
<1>5. PICK y, z : y = Set(st.occurrence, g.seed, g.nth) /\ z = Set(st.generations, s, Known(st.generations, s, 0) + 1)
  OBVIOUS
<1>6. PICK u, u2 : u = ProcessStart(st, s, b) /\ u2 = ProcessStart(st2, s, b2)
  OBVIOUS
<1>7. u = [st EXCEPT !.active = x, !.occurrence = y, !.generations = z]
  BY <1>1, <1>3, <1>4, <1>5, <1>6, Zenon DEF ProcessStart
<1>8. st2.occurrence = st.occurrence /\ st2.generations = st.generations
  BY Zenon DEF Alike
<1>9. u2 = [st2 EXCEPT !.active = x2, !.occurrence = y, !.generations = z]
  BY <1>2, <1>3, <1>4, <1>5, <1>6, <1>8, Zenon DEF ProcessStart
<1>10. IsAttemptState(st) /\ IsAttemptState(st2)
  BY Zenon DEF Alike
<1>11. IsStateOf(u, x, y, z, st.clock) /\ IsStateOf(u2, x2, y, z, st2.clock)
  BY <1>7, <1>9, <1>10, SetStarted, Zenon
<1>12. /\ IsAttemptState(u) /\ u.active = x /\ u.occurrence = y /\ u.generations = z /\ u.clock = st.clock
       /\ IsAttemptState(u2) /\ u2.active = x2 /\ u2.occurrence = y /\ u2.generations = z /\ u2.clock = st2.clock
  BY <1>11, Zenon DEF IsStateOf
<1>13. SameActive(x, x2)
  BY <1>3, <1>4, SameActiveSet, Zenon DEF Alike
<1>14. DOMAIN x = DOMAIN st.active \cup {<<s, p>>}
  BY <1>4 DEF Set
<1>15. IsFiniteSet(DOMAIN x) /\ <<s, p>> \in DOMAIN x
  <2>1. IsFiniteSet(DOMAIN st.active)
    BY Zenon DEF Alike
  <2>2. IsFiniteSet(DOMAIN st.active \cup {<<s, p>>})
    BY <2>1, FS_AddElement
  <2> QED
    BY <1>14, <2>2, Zenon
<1> QED
  BY <1>3, <1>6, <1>12, <1>13, <1>15, Zenon DEF Alike

LEMMA ExitedAlike ==
  ASSUME NEW ignore, NEW st, NEW st2, Alike(ignore, st, st2), NEW s, NEW b, NEW b2, MovedBody(b, b2)
  PROVE  /\ Alike(ignore, ProcessExit(st, s, b), ProcessExit(st2, s, b2))
         /\ ExitedProcess(st2, s, b2) = ExitedProcess(st, s, b)
<1>1. PICK p : p = b.pid /\ p \in Nat /\ b2.pid = p + 10
  BY Zenon DEF MovedBody
<1>2. PICK x, x2 : x = Unset(st.active, <<s, p>>) /\ x2 = Unset(st2.active, <<s, p + 10>>)
  OBVIOUS
<1>3. PICK u, u2 : u = ProcessExit(st, s, b) /\ u2 = ProcessExit(st2, s, b2)
  OBVIOUS
<1>4. u = [st EXCEPT !.active = x] /\ u2 = [st2 EXCEPT !.active = x2]
  BY <1>1, <1>2, <1>3, Zenon DEF ProcessExit
<1>5. IsAttemptState(st) /\ IsAttemptState(st2)
  BY Zenon DEF Alike
<1>6. /\ IsAttemptState(u) /\ u.active = x /\ u.occurrence = st.occurrence
      /\ u.generations = st.generations /\ u.clock = st.clock
  BY ONLY <1>4, <1>5, SetActive
<1>7. /\ IsAttemptState(u2) /\ u2.active = x2 /\ u2.occurrence = st2.occurrence
      /\ u2.generations = st2.generations /\ u2.clock = st2.clock
  BY ONLY <1>4, <1>5, SetActive
<1>8. SameActive(x, x2)
  BY <1>1, <1>2, SameActiveUnset, Zenon DEF Alike
<1>9. IsFiniteSet(DOMAIN x)
  <2>1. IsFiniteSet(DOMAIN st.active)
    BY Zenon DEF Alike
  <2>2. DOMAIN x \subseteq DOMAIN st.active
    BY <1>2 DEF Unset
  <2> QED
    BY <2>1, <2>2, FS_Subset, Zenon
<1>10. ExitedProcess(st2, s, b2) = ExitedProcess(st, s, b)
  <2>1. PICK a, c : a = st.active /\ c = st2.active
    OBVIOUS
  <2>2. /\ <<s, p>> \in DOMAIN a <=> <<s, p + 10>> \in DOMAIN c
        /\ <<s, p>> \in DOMAIN a => c[<<s, p + 10>>] = a[<<s, p>>]
    BY <1>1, <2>1, Zenon DEF Alike, SameActive
  <2>3. PICK k, l : k = <<s, p>> /\ l = <<s, p + 10>>
    OBVIOUS
  <2>4. (k \in DOMAIN a <=> l \in DOMAIN c) /\ (k \in DOMAIN a => c[l] = a[k])
    BY <2>2, <2>3, Zenon
  <2>5. Known(c, l, UnknownActor) = Known(a, k, UnknownActor)
    BY <2>4 DEF Known
  <2> QED
    BY <1>1, <2>1, <2>3, <2>5, Zenon DEF ExitedProcess
<1> QED
  BY <1>3, <1>6, <1>7, <1>8, <1>9, <1>10, Zenon DEF Alike

LEMMA SameProcessBody ==
  ASSUME NEW g, NEW b, NEW b2, MovedBody(b, b2)
  PROVE  ProcessBody(g, b2) = ProcessBody(g, b)
<1>1. b2.exe = b.exe /\ b2.exit = b.exit /\ b2.duration = b.duration
  BY Zenon DEF MovedBody
<1> QED
  BY <1>1, Zenon DEF ProcessBody

\* What an event does to the two states, and what it is recorded as, comes out alike.
LEMMA EventAlike ==
  ASSUME NEW ignore, NEW st, NEW st2, Alike(ignore, st, st2), NEW e, NEW e2, Moved(ignore, e, e2), EventIsValid(e)
  PROVE  /\ Alike(ignore, AfterEvent(st, e), AfterEvent(st2, e2))
         /\ BodyOf(st2, e2, AfterEvent(st2, e2)) = BodyOf(st, e, AfterEvent(st, e))
<1>1. PICK t, t2 : t = Clocked(st, e) /\ t2 = Clocked(st2, e2)
  OBVIOUS
<1>2. Alike(ignore, t, t2)
  BY <1>1, ClockedAlike, Zenon
<1>3. PICK k, s, b, b2 : k = e.kind /\ s = e.source /\ b = e.body /\ b2 = e2.body
  OBVIOUS
<1>4. e2.kind = k /\ e2.source = s
  BY <1>3, Zenon DEF Moved
<1>5. PICK u, u2 : u = AfterEvent(st, e) /\ u2 = AfterEvent(st2, e2)
  OBVIOUS
<1>6. CASE k \in {"process-start", "process-exit"}
  <2>1. MovedBody(b, b2) /\ b.of = "process" /\ b2.of = "process"
    BY <1>3, <1>6, ProcessEvents, Zenon DEF Moved
  <2>2. CASE k = "process-start"
    <3>1. u = ProcessStart(t, s, b) /\ u2 = ProcessStart(t2, s, b2)
      BY <1>1, <1>3, <1>4, <1>5, <2>2 DEF AfterEvent
    <3>2. Alike(ignore, u, u2) /\ <<s, b.pid>> \in DOMAIN u.active
      BY <1>2, <2>1, <3>1, StartedAlike, Zenon
    <3>3. PICK p : p = b.pid /\ p \in Nat /\ b2.pid = p + 10
      BY <2>1, Zenon DEF MovedBody
    <3>4. u2.active[<<s, p + 10>>] = u.active[<<s, p>>]
      BY <3>2, <3>3, Zenon DEF Alike, SameActive
    <3>5. PICK g : g = u.active[<<s, p>>]
      OBVIOUS
    <3>6. BodyOf(st, e, u) = ProcessBody(g, b) /\ BodyOf(st2, e2, u2) = ProcessBody(g, b2)
      BY <1>3, <1>4, <2>1, <2>2, <3>3, <3>4, <3>5 DEF BodyOf
    <3>7. ProcessBody(g, b2) = ProcessBody(g, b)
      BY ONLY <2>1, SameProcessBody
    <3> QED
      BY <1>5, <3>2, <3>6, <3>7, Zenon
  <2>3. CASE k = "process-exit"
    <3>1. u = ProcessExit(t, s, b) /\ u2 = ProcessExit(t2, s, b2)
      BY <1>1, <1>3, <1>4, <1>5, <2>3 DEF AfterEvent
    <3>2. Alike(ignore, u, u2)
      BY <1>2, <2>1, <3>1, ExitedAlike, Zenon
    <3>3. ExitedProcess(st2, s, b2) = ExitedProcess(st, s, b)
      BY ONLY Alike(ignore, st, st2), <2>1, ExitedAlike
    <3>4. PICK g : g = ExitedProcess(st, s, b)
      OBVIOUS
    <3>5. BodyOf(st, e, u) = ProcessBody(g, b) /\ BodyOf(st2, e2, u2) = ProcessBody(g, b2)
      BY <1>3, <1>4, <2>1, <2>3, <3>3, <3>4 DEF BodyOf
    <3>6. ProcessBody(g, b2) = ProcessBody(g, b)
      BY ONLY <2>1, SameProcessBody
    <3> QED
      BY <1>5, <3>2, <3>5, <3>6, Zenon
  <2> QED
    BY <1>6, <2>2, <2>3, Zenon
<1>7. CASE k \notin {"process-start", "process-exit"}
  <2>1. b2 = b
    BY <1>3, <1>7, ProcessEvents, Zenon DEF Moved
  <2>2. u = t /\ u2 = t2
    BY <1>1, <1>3, <1>4, <1>5, <1>7 DEF AfterEvent
  <2>3. PICK x : x = IF b.of \in {"filesystem", "artifact"} THEN [b EXCEPT !.path = NormalizedPath(@)] ELSE b
    OBVIOUS
  <2>4. BodyOf(st, e, u) = x /\ BodyOf(st2, e2, u2) = x
    BY <1>3, <1>4, <1>7, <2>1, <2>3 DEF BodyOf
  <2> QED
    BY <1>2, <1>5, <2>2, <2>4, Zenon
<1> QED
  BY <1>6, <1>7, Zenon

LEMMA SameDigest ==
  ASSUME NEW ignore, NEW st, NEW st2, Alike(ignore, st, st2), NEW e, NEW e2, Moved(ignore, e, e2), EventIsValid(e)
  PROVE  SemanticDigest(ignore, st2, e2, AfterEvent(st2, e2)) = SemanticDigest(ignore, st, e, AfterEvent(st, e))
<1>1. PICK u, u2 : u = AfterEvent(st, e) /\ u2 = AfterEvent(st2, e2)
  OBVIOUS
<1>2. PICK x, y : x = BodyOf(st, e, u) /\ y = BodyOf(st2, e2, u2)
  OBVIOUS
<1>3. y = x
  <2>1. BodyOf(st2, e2, AfterEvent(st2, e2)) = BodyOf(st, e, AfterEvent(st, e))
    BY ONLY Alike(ignore, st, st2), Moved(ignore, e, e2), EventIsValid(e), EventAlike
  <2> QED
    BY <1>1, <1>2, <2>1, Zenon
<1>4. e2.kind = e.kind /\ e2.source = e.source
  BY Zenon DEF Moved
<1>5. PICK t, t2 : /\ t = (IF TimestampField \in ignore THEN <<>> ELSE <<Timing(st, e)>>)
                   /\ t2 = (IF TimestampField \in ignore THEN <<>> ELSE <<Timing(st2, e2)>>)
  OBVIOUS
<1>6. t2 = t
  <2>1. CASE TimestampField \in ignore
    BY <1>5, <2>1
  <2>2. CASE TimestampField \notin ignore
    <3>1. st2.clock = st.clock /\ e2.at = e.at
      BY <2>2, Zenon DEF Alike, Moved
    <3>2. Timing(st2, e2) = Timing(st, e)
      BY <1>4, <3>1, Zenon DEF Timing
    <3> QED
      BY <1>5, <2>2, <3>2
  <2> QED
    BY <2>1, <2>2
<1>7. SemanticDigest(ignore, st, e, u) = [kind |-> e.kind, source |-> e.source, body |-> x, timing |-> t]
  BY <1>2, <1>5, Zenon DEF SemanticDigest
<1>8. SemanticDigest(ignore, st2, e2, u2) = [kind |-> e2.kind, source |-> e2.source, body |-> y, timing |-> t2]
  BY <1>2, <1>5, Zenon DEF SemanticDigest
<1> QED
  BY <1>1, <1>3, <1>4, <1>6, <1>7, <1>8, Zenon

IsWalk(w) ==
  /\ w = [state |-> w.state, facts |-> w.facts, refused |-> w.refused]
  /\ \E S : w.facts \in Seq(S)

SameDigests(f, f2) == Len(f2) = Len(f) /\ \A i \in 1..Len(f) : f2[i].digest = f[i].digest

IsWalkOf(u, state, facts, refused) ==
  IsWalk(u) /\ u.state = state /\ u.facts = facts /\ u.refused = refused

\* What the callback of WalkEvents has made of two attempts that are alike so far.
AlikeWalk(ignore, w, w2) ==
  /\ IsWalk(w) /\ IsWalk(w2) /\ (w2.refused <=> w.refused)
  /\ Alike(ignore, w.state, w2.state) /\ SameDigests(w.facts, w2.facts)

LEMMA SetRefused ==
  ASSUME NEW w, IsWalk(w), NEW u, u = [w EXCEPT !.refused = TRUE]
  PROVE  IsWalk(u) /\ u.state = w.state /\ u.facts = w.facts /\ u.refused
<1>1. PICK s, f, r : s = w.state /\ f = w.facts /\ r = w.refused
  OBVIOUS
<1>2. w = [state |-> s, facts |-> f, refused |-> r]
  BY <1>1, Zenon DEF IsWalk
<1>3. u = [state |-> s, facts |-> f, refused |-> TRUE]
  BY <1>2
<1>4. u.state = s /\ u.facts = f /\ u.refused = TRUE
  BY <1>3
<1>5. \E S : f \in Seq(S)
  BY <1>1, Zenon DEF IsWalk
<1> QED
  BY <1>1, <1>3, <1>4, <1>5, Zenon DEF IsWalk

LEMMA SetWalk ==
  ASSUME NEW w, IsWalk(w), NEW x, NEW y, NEW u, u = [w EXCEPT !.state = x, !.facts = Append(@, y)]
  PROVE  IsWalkOf(u, x, Append(w.facts, y), w.refused)
<1>1. PICK s, f, r : s = w.state /\ f = w.facts /\ r = w.refused
  OBVIOUS
<1>2. w = [state |-> s, facts |-> f, refused |-> r]
  BY <1>1, Zenon DEF IsWalk
<1>3. PICK v, g : v = [state |-> x, facts |-> f, refused |-> r] /\ g = Append(f, y)
  OBVIOUS
<1>4. [w EXCEPT !.state = x] = v /\ [v EXCEPT !.facts = g] = [state |-> x, facts |-> g, refused |-> r]
  BY <1>2, <1>3
<1>5. Append(w.facts, y) = g
  BY <1>1, <1>3, Zenon
<1>6. u = [state |-> x, facts |-> g, refused |-> r]
  BY <1>4, <1>5, Zenon
<1>7. u.state = x /\ u.facts = g /\ u.refused = r
  BY ONLY <1>6
<1>8. \E S : g \in Seq(S)
  <2>1. PICK S : f \in Seq(S)
    BY <1>1, Zenon DEF IsWalk
  <2>2. f \in Seq(S \cup {y})
    BY <2>1
  <2>3. g \in Seq(S \cup {y})
    BY <1>3, <2>2
  <2> QED
    BY <2>3
<1> QED
  BY <1>1, <1>5, <1>6, <1>7, <1>8, Zenon DEF IsWalk, IsWalkOf

LEMMA AppendDigests ==
  ASSUME NEW f, NEW f2, \E S : f \in Seq(S), \E S : f2 \in Seq(S), SameDigests(f, f2),
         NEW y, NEW y2, y2.digest = y.digest
  PROVE  SameDigests(Append(f, y), Append(f2, y2))
<1>1. PICK S : f \in Seq(S)
  OBVIOUS
<1>2. PICK T : f2 \in Seq(T)
  OBVIOUS
<1>3. PICK n : n = Len(f)
  OBVIOUS
<1>4. n \in Nat /\ Len(f2) = n /\ \A i \in 1..n : f2[i].digest = f[i].digest
  BY <1>1, <1>3 DEF SameDigests
<1>5. PICK g, g2 : g = Append(f, y) /\ g2 = Append(f2, y2)
  OBVIOUS
<1>6. Len(g) = n + 1 /\ g[n + 1] = y /\ \A i \in 1..n : g[i] = f[i]
  BY <1>1, <1>3, <1>5
<1>7. Len(g2) = n + 1 /\ g2[n + 1] = y2 /\ \A i \in 1..n : g2[i] = f2[i]
  BY <1>2, <1>4, <1>5
<1>8. ASSUME NEW i \in 1..(n + 1) PROVE g2[i].digest = g[i].digest
  <2>1. CASE i = n + 1
    BY <1>6, <1>7, <2>1
  <2>2. CASE i # n + 1
    <3>1. i \in 1..n
      BY <1>4, <2>2
    <3> QED
      BY <1>4, <1>6, <1>7, <3>1
  <2> QED
    BY <2>1, <2>2
<1> QED
  BY <1>5, <1>6, <1>7, <1>8, Zenon DEF SameDigests

LEMMA StepAlike ==
  ASSUME NEW ignore, NEW w, NEW w2, AlikeWalk(ignore, w, w2), NEW e, NEW e2, Moved(ignore, e, e2)
  PROVE  AlikeWalk(ignore, NormalizeEvent(ignore, w, e), NormalizeEvent(ignore, w2, e2))
<1>1. PICK st, st2 : st = w.state /\ st2 = w2.state
  OBVIOUS
<1>2. Alike(ignore, st, st2) /\ IsWalk(w) /\ IsWalk(w2) /\ (w2.refused <=> w.refused)
  BY <1>1, Zenon DEF AlikeWalk
<1>3. EventRefused(st2, e2) <=> EventRefused(st, e)
  BY <1>2, SameRefusal, Zenon
<1>4. PICK u, u2 : u = NormalizeEvent(ignore, w, e) /\ u2 = NormalizeEvent(ignore, w2, e2)
  OBVIOUS
<1>5. CASE w.refused \/ EventRefused(st, e)
  <2>1. u = [w EXCEPT !.refused = TRUE] /\ u2 = [w2 EXCEPT !.refused = TRUE]
    BY <1>1, <1>2, <1>3, <1>4, <1>5, Zenon DEF NormalizeEvent
  <2>2. IsWalk(u) /\ u.state = w.state /\ u.facts = w.facts /\ u.refused
    BY ONLY <1>2, <2>1, SetRefused
  <2>3. IsWalk(u2) /\ u2.state = w2.state /\ u2.facts = w2.facts /\ u2.refused
    BY ONLY <1>2, <2>1, SetRefused
  <2> QED
    BY <1>4, <2>2, <2>3, Zenon DEF AlikeWalk
<1>6. CASE ~(w.refused \/ EventRefused(st, e))
  <2>1. PICK x, x2 : x = AfterEvent(st, e) /\ x2 = AfterEvent(st2, e2)
    OBVIOUS
  <2>2. PICK d : d = SemanticDigest(ignore, st, e, x)
    OBVIOUS
  <2>3. EventIsValid(e)
    BY <1>6, Zenon DEF EventRefused
  <2>4. SemanticDigest(ignore, st2, e2, x2) = d
    <3>1. SemanticDigest(ignore, st2, e2, AfterEvent(st2, e2)) = SemanticDigest(ignore, st, e, AfterEvent(st, e))
      BY ONLY <1>2, Moved(ignore, e, e2), <2>3, SameDigest
    <3> QED
      BY <2>1, <2>2, <3>1, Zenon
  <2>5. PICK y, y2 : /\ y = [digest |-> d, limits |-> FactLimits(st, e)]
                     /\ y2 = [digest |-> d, limits |-> FactLimits(st2, e2)]
    OBVIOUS
  <2>6. u = [w EXCEPT !.state = x, !.facts = Append(@, y)]
    BY <1>1, <1>4, <1>6, <2>1, <2>2, <2>5, Zenon DEF NormalizeEvent
  <2>7. ~(w2.refused \/ EventRefused(st2, e2))
    BY <1>2, <1>3, <1>6, Zenon
  <2>8. u2 = [w2 EXCEPT !.state = x2, !.facts = Append(@, y2)]
    BY <1>1, <1>4, <2>1, <2>4, <2>5, <2>7, Zenon DEF NormalizeEvent
  <2>9. IsWalk(u) /\ u.state = x /\ u.facts = Append(w.facts, y) /\ u.refused = w.refused
    <3>1. IsWalkOf(u, x, Append(w.facts, y), w.refused)
      BY <1>2, <2>6, SetWalk, Zenon
    <3> QED
      BY <3>1, Zenon DEF IsWalkOf
  <2>10. IsWalk(u2) /\ u2.state = x2 /\ u2.facts = Append(w2.facts, y2) /\ u2.refused = w2.refused
    <3>1. IsWalkOf(u2, x2, Append(w2.facts, y2), w2.refused)
      BY <1>2, <2>8, SetWalk, Zenon
    <3> QED
      BY <3>1, Zenon DEF IsWalkOf
  <2>11. Alike(ignore, x, x2)
    BY <1>2, <2>1, <2>3, EventAlike, Zenon
  <2>12. y2.digest = y.digest
    BY <2>5
  <2>13. SameDigests(Append(w.facts, y), Append(w2.facts, y2))
    BY <2>12, AppendDigests, Zenon DEF AlikeWalk, IsWalk
  <2> QED
    BY <1>2, <1>4, <2>9, <2>10, <2>11, <2>13, Zenon DEF AlikeWalk
<1> QED
  BY <1>5, <1>6, Zenon

-----------------------------------------------------------------------------
(* One event after the other.                                              *)

\* The order on the naturals, as the relation induction is stated for.
LEMMA LessThanRelation == \A m, n \in Nat : m < n => <<m, n>> \in OpToRel(<, Nat)
<1>1. OpToRel(<, Nat) = {ss \in Nat \X Nat : ss[1] < ss[2]}
  BY DEF OpToRel
<1> QED
  BY <1>1

\* A non-empty set of natural numbers has a least element.
LEMMA LeastElement ==
  ASSUME NEW T, T \subseteq Nat, T # {}
  PROVE  \E n \in T : \A m \in T : n <= m
<1> DEFINE lt == OpToRel(<, Nat)
<1>1. IsWellFoundedOn(lt, Nat)
  BY NatLessThanWellFounded
<1>2. \A m, n \in Nat : m < n => <<m, n>> \in lt
  BY LessThanRelation
<1> HIDE DEF lt
<1>3. PICK n \in T : \A m \in T : ~(<<m, n>> \in lt)
  BY <1>1, WFMin
<1>4. \A m \in T : n <= m
  <2> TAKE m \in T
  <2>1. ~(m < n)
    BY <1>2, <1>3
  <2>2. m \in Nat /\ n \in Nat
    OBVIOUS
  <2> QED
    BY <2>1, <2>2
<1> QED
  BY <1>4

\* Induction, with the numbers a claim holds for as a set.
LEMMA SetInduction ==
  ASSUME NEW T \in SUBSET Nat, 0 \in T, \A n \in T : n + 1 \in T
  PROVE  T = Nat
<1> DEFINE D == Nat \ T
<1>1. SUFFICES ASSUME D # {} PROVE FALSE
  OBVIOUS
<1>2. PICK n \in D : \A m \in D : n <= m
  <2> HIDE DEF D
  <2>1. D \subseteq Nat
    BY DEF D
  <2> QED
    BY <1>1, <2>1, LeastElement
<1>3. n # 0 /\ n - 1 \in Nat /\ ~(n <= n - 1)
  OBVIOUS
<1>4. n - 1 \in T
  BY <1>2, <1>3
<1> QED
  BY <1>3, <1>4

NothingWalked == [state |-> NewAttemptState, facts |-> <<>>, refused |-> FALSE]

\* The iteration behind NormalizeAttempt: g[i] is what was made of the first i events.
WalkStep(ignore, events, g, i) ==
  IF i = 0 THEN NothingWalked ELSE NormalizeEvent(ignore, g[i - 1], events[i])
IsWalking(ignore, events, n, g) == g = [i \in 0..n |-> WalkStep(ignore, events, g, i)]

LEMMA WalkingExists ==
  ASSUME NEW ignore, NEW events, NEW m \in Nat
  PROVE  \E g : IsWalking(ignore, events, m, g)
<1> DEFINE T == {n \in Nat : \E g : IsWalking(ignore, events, n, g)}
<1>1. 0 \in T
  <2> DEFINE g == [i \in 0..0 |-> NothingWalked]
  <2>1. IsWalking(ignore, events, 0, g)
    BY DEF IsWalking, WalkStep
  <2> HIDE DEF g
  <2> QED
    BY <2>1
<1>2. ASSUME NEW n \in T PROVE n + 1 \in T
  <2>1. PICK g : IsWalking(ignore, events, n, g)
    OBVIOUS
  <2> DEFINE h == [i \in 0..(n + 1) |-> WalkStep(ignore, events, g, i)]
  <2>2. ASSUME NEW i \in 0..(n + 1) PROVE WalkStep(ignore, events, g, i) = WalkStep(ignore, events, h, i)
    <3>1. CASE i = 0
      BY <3>1 DEF WalkStep
    <3>2. CASE i # 0
      <4>1. i - 1 \in 0..n /\ i - 1 \in 0..(n + 1)
        BY <3>2
      <4>2. g[i - 1] = WalkStep(ignore, events, g, i - 1)
        BY <2>1, <4>1 DEF IsWalking
      <4>3. h[i - 1] = WalkStep(ignore, events, g, i - 1)
        BY <4>1
      <4> HIDE DEF h
      <4> QED
        BY <3>2, <4>2, <4>3 DEF WalkStep
    <3> QED
      BY <3>1, <3>2
  <2>3. IsWalking(ignore, events, n + 1, h)
    BY <2>2 DEF IsWalking
  <2> HIDE DEF h
  <2> QED
    BY <2>3
<1>3. T = Nat
  <2> HIDE DEF T
  <2>1. T \in SUBSET Nat
    BY DEF T
  <2> QED
    BY <1>1, <1>2, <2>1, SetInduction
<1> QED
  BY <1>3

\* g[i] is what NormalizeAttempt has made of the first i of n events.
WalkedBy(ignore, events, n, g) ==
  /\ g[0] = NothingWalked /\ NormalizeAttempt(ignore, events) = g[n]
  /\ \A i \in 1..n : g[i] = NormalizeEvent(ignore, g[i - 1], events[i])

LEMMA WalkSteps ==
  ASSUME NEW ignore, NEW events, NEW n \in Nat, n = Len(events)
  PROVE  \E g : WalkedBy(ignore, events, n, g)
<1> DEFINE g == CHOOSE h : IsWalking(ignore, events, n, h)
<1>1. IsWalking(ignore, events, n, g)
  BY WalkingExists, Zenon
<1>2. NormalizeAttempt(ignore, events) = g[n]
  BY DEF NormalizeAttempt, IsWalking, WalkStep, NothingWalked
<1> HIDE DEF g
<1>3. g[0] = NothingWalked
  BY <1>1 DEF IsWalking, WalkStep
<1>4. ASSUME NEW i \in 1..n PROVE g[i] = NormalizeEvent(ignore, g[i - 1], events[i])
  <2>1. i \in 0..n /\ i # 0
    OBVIOUS
  <2> QED
    BY <1>1, <2>1 DEF IsWalking, WalkStep
<1> QED
  BY <1>2, <1>3, <1>4, Zenon DEF WalkedBy

\* An attempt elsewhere, at another time, is the same attempt.
LEMMA AttemptAlike ==
  ASSUME NEW ignore, NEW events, NEW events2, Len(events) \in Nat, Len(events2) = Len(events),
         \A i \in 1..Len(events) : Moved(ignore, events[i], events2[i])
  PROVE  AlikeWalk(ignore, NormalizeAttempt(ignore, events), NormalizeAttempt(ignore, events2))
<1>1. PICK n : n = Len(events) /\ n \in Nat
  OBVIOUS
<1>2. PICK g : WalkedBy(ignore, events, n, g)
  BY <1>1, WalkSteps, Zenon
<1>3. PICK h : WalkedBy(ignore, events2, n, h)
  <2>1. Len(events2) = n
    BY <1>1, Zenon
  <2> QED
    BY <1>1, <2>1, WalkSteps, Zenon
<1> DEFINE T == {i \in Nat : i <= n => AlikeWalk(ignore, g[i], h[i])}
<1>4. 0 \in T
  <2>1. AlikeWalk(ignore, NothingWalked, NothingWalked)
    <3>1. PICK st : st = NewAttemptState
      OBVIOUS
    <3>2. /\ IsAttemptState(st) /\ DOMAIN st.active = {} /\ IsFiniteSet(DOMAIN st.active)
          /\ SameActive(st.active, st.active)
      <4>1. st = [active |-> <<>>, occurrence |-> <<>>, generations |-> <<>>, clock |-> <<>>]
        BY <3>1 DEF NewAttemptState
      <4>2. IsAttemptState(st) /\ st.active = <<>>
        BY <4>1 DEF IsAttemptState
      <4>3. DOMAIN st.active = {}
        BY <4>2
      <4>4. IsFiniteSet(DOMAIN st.active)
        BY <4>3, FS_EmptySet
      <4>5. SameActive(st.active, st.active)
        BY <4>3, Zenon DEF SameActive
      <4> QED
        BY <4>2, <4>3, <4>4, <4>5, Zenon
    <3>3. Alike(ignore, st, st)
      BY <3>2, Zenon DEF Alike
    <3>4. PICK w : w = NothingWalked
      OBVIOUS
    <3>5. w = [state |-> st, facts |-> <<>>, refused |-> FALSE]
      BY <3>1, <3>4, Zenon DEF NothingWalked
    <3>6. w.state = st /\ w.facts = <<>> /\ w.refused = FALSE
      BY <3>5
    <3>7. IsWalk(w)
      <4>1. <<>> \in Seq({})
        OBVIOUS
      <4> QED
        BY <3>5, <3>6, <4>1, Zenon DEF IsWalk
    <3>8. SameDigests(w.facts, w.facts)
      BY Zenon DEF SameDigests
    <3> QED
      BY <3>3, <3>4, <3>6, <3>7, <3>8, Zenon DEF AlikeWalk
  <2>2. g[0] = NothingWalked /\ h[0] = NothingWalked
    BY <1>2, <1>3, Zenon DEF WalkedBy
  <2> QED
    BY <2>1, <2>2
<1>5. ASSUME NEW i \in T PROVE i + 1 \in T
  <2>1. SUFFICES ASSUME i + 1 <= n PROVE AlikeWalk(ignore, g[i + 1], h[i + 1])
    BY i + 1 \in Nat
  <2>2. i + 1 \in 1..n /\ (i + 1) - 1 = i /\ i <= n
    BY <1>1, <2>1
  <2>3. g[i + 1] = NormalizeEvent(ignore, g[i], events[i + 1]) /\ h[i + 1] = NormalizeEvent(ignore, h[i], events2[i + 1])
    BY <1>2, <1>3, <2>2 DEF WalkedBy
  <2>4. AlikeWalk(ignore, g[i], h[i]) /\ Moved(ignore, events[i + 1], events2[i + 1])
    BY <1>1, <2>2
  <2> QED
    BY <2>3, <2>4, StepAlike, Zenon
<1>6. T = Nat
  <2> HIDE DEF T
  <2>1. T \in SUBSET Nat
    BY DEF T
  <2> QED
    BY <1>4, <1>5, <2>1, SetInduction
<1>7. AlikeWalk(ignore, g[n], h[n])
  BY <1>1, <1>6
<1> QED
  BY <1>2, <1>3, <1>7, Zenon DEF WalkedBy

-----------------------------------------------------------------------------
(* What a bundle has recorded.                                             *)

IsAttemptOf(a, p) ==
  /\ a = [revision |-> a.revision, scenario |-> a.scenario, repetition |-> a.repetition,
          events |-> a.events, result |-> a.result]
  /\ a.events = <<>> \/ a.events \in p.scripts
IsBundleOf(b, p) ==
  /\ b = [commits |-> b.commits, attempts |-> b.attempts, executionComplete |-> b.executionComplete,
          evidenceComplete |-> b.evidenceComplete, rebuilds |-> b.rebuilds, runner |-> b.runner]
  /\ b.attempts = [i \in DOMAIN b.attempts |-> b.attempts[i]]
  /\ \A i \in DOMAIN b.attempts : IsAttemptOf(b.attempts[i], p)

\* What was run, and what is in the bundle, are scripts of the plan.
RecordedInv ==
  /\ ran \in Seq(plan.scripts)
  /\ stage # "running" => IsBundleOf(bundle, plan)

LEMMA BundledRecords ==
  ASSUME NEW x, NEW finished, NEW context, plan \in Cases, x \in Seq(plan.scripts)
  PROVE  IsBundleOf(Bundled(x, finished, context), plan)
<1>1. PICK keys : keys = AttemptKeys(plan)
  OBVIOUS
<1>2. PICK u : u = Bundled(x, finished, context)
  OBVIOUS
<1>3. PICK a : a = [i \in DOMAIN keys |->
             [revision |-> keys[i].revision, scenario |-> keys[i].scenario, repetition |-> keys[i].repetition,
              events |-> IF i <= Len(x) THEN x[i] ELSE <<>>, result |-> i <= finished]]
  OBVIOUS
<1>4. PICK c, d, e, m, r : u = [commits |-> c, attempts |-> a, executionComplete |-> d, evidenceComplete |-> e,
                                rebuilds |-> m, runner |-> r]
  BY <1>1, <1>2, <1>3 DEF Bundled
<1>5. /\ u = [commits |-> u.commits, attempts |-> u.attempts, executionComplete |-> u.executionComplete,
              evidenceComplete |-> u.evidenceComplete, rebuilds |-> u.rebuilds, runner |-> u.runner]
      /\ u.attempts = a
  BY <1>4
<1>6. DOMAIN a = DOMAIN keys /\ a = [i \in DOMAIN a |-> a[i]]
  BY <1>3
<1>7. \A i \in DOMAIN keys : i \in Nat /\ 1 <= i
  BY <1>1 DEF AttemptKeys
<1>8. ASSUME NEW i \in DOMAIN a PROVE IsAttemptOf(a[i], plan)
  <2>1. PICK o, s, n, v, f : /\ a[i] = [revision |-> o, scenario |-> s, repetition |-> n, events |-> v, result |-> f]
                             /\ v = IF i <= Len(x) THEN x[i] ELSE <<>>
    BY <1>3
  <2>2. v = <<>> \/ v \in plan.scripts
    <3>1. CASE i <= Len(x)
      <4>1. i \in 1..Len(x)
        BY <1>6, <1>7, <3>1
      <4> QED
        BY <2>1, <3>1, <4>1
    <3>2. CASE ~(i <= Len(x))
      BY <2>1, <3>2
    <3> QED
      BY <3>1, <3>2
  <2> QED
    BY <2>1, <2>2 DEF IsAttemptOf
<1> QED
  BY <1>2, <1>5, <1>6, <1>8, Zenon DEF IsBundleOf

LEMMA RecordedInit == Init => RecordedInv
BY DEF Init, RecordedInv

LEMMA RecordedNext == BundleInv /\ RecordedInv /\ [Next]_vars => RecordedInv'
<1> SUFFICES ASSUME BundleInv, RecordedInv, [Next]_vars PROVE RecordedInv'
  OBVIOUS
<1>1. plan \in Cases /\ ran \in Seq(plan.scripts)
  BY Zenon DEF BundleInv, RecordedInv
<1>2. CASE RunAttempt
  <2>1. PICK s \in plan.scripts : ran' = Append(ran, s)
    BY <1>2, Zenon DEF RunAttempt
  <2>2. plan' = plan /\ stage' = stage /\ bundle' = bundle
    BY <1>2, Zenon DEF RunAttempt
  <2>3. ran' \in Seq(plan.scripts)
    BY <1>1, <2>1
  <2> QED
    BY <2>2, <2>3, Zenon DEF RecordedInv
<1>3. CASE Commit \/ CommitInterrupted
  <2>1. PICK finished, context : bundle' = Bundled(ran, finished, context)
    BY <1>3, Zenon DEF Commit, CommitInterrupted
  <2>2. plan' = plan /\ ran' = ran
    BY <1>3, Zenon DEF Commit, CommitInterrupted
  <2> QED
    BY <1>1, <2>1, <2>2, BundledRecords, Zenon DEF RecordedInv
<1>4. CASE RunAgain
  <2>1. PICK s \in plan.scripts : ran' = [ran EXCEPT ![Len(ran)] = s]
    BY <1>4, Zenon DEF RunAgain
  <2>2. PICK finished, context : bundle' = Bundled(ran', finished, context)
    BY <1>4, Zenon DEF RunAgain
  <2>3. plan' = plan
    BY <1>4, Zenon DEF RunAgain
  <2>4. PICK z : z = ran'
    OBVIOUS
  <2>5. z \in Seq(plan.scripts)
    <3>1. PICK r, n, S : r = ran /\ n = Len(ran) /\ S = plan.scripts
      OBVIOUS
    <3>2. n \in Nat /\ r \in [1..n -> S] /\ s \in S
      BY <1>1, <3>1
    <3>3. z = [r EXCEPT ![n] = s]
      BY <2>1, <2>4, <3>1, Zenon
    <3>4. z \in [1..n -> S]
      BY ONLY <3>2, <3>3
    <3>5. z \in Seq(S)
      BY ONLY <3>2, <3>4
    <3> QED
      BY <3>1, <3>5, Zenon
  <2>6. bundle' = Bundled(z, finished, context)
    BY <2>2, <2>4, Zenon
  <2> QED
    BY <1>1, <2>3, <2>4, <2>5, <2>6, BundledRecords, Zenon DEF RecordedInv
<1>5. CASE Inspect \/ WriteWaiver \/ WriteBadWaivers \/ ReplaceFile \/ EditConfig \/ MergeHead \/ Tick
  <2>1. plan' = plan /\ ran' = ran /\ bundle' = bundle /\ stage # "running"
    <3>1. CASE Inspect \/ MergeHead \/ Tick
      BY <3>1 DEF Inspect, MergeHead, Tick
    <3>2. CASE WriteWaiver \/ WriteBadWaivers \/ ReplaceFile \/ EditConfig
      <4>1. stage = "reviewed" /\ plan' = plan /\ ran' = ran /\ bundle' = bundle
        BY <3>2, Zenon DEF WriteWaiver, WriteBadWaivers, ReplaceFile, EditConfig, MayEdit
      <4> QED
        BY <4>1
    <3> QED
      BY <1>5, <3>1, <3>2, Zenon
  <2> QED
    BY <2>1, Zenon DEF RecordedInv
<1>6. CASE UNCHANGED vars
  BY <1>6, Zenon DEF vars, RecordedInv
<1> QED
  BY <1>2, <1>3, <1>4, <1>5, <1>6, Zenon DEF Next

LEMMA RecordedScripts == Spec => []RecordedInv
BY RecordedInit, RecordedNext, BundleIsThePlans, PTL DEF Spec

-----------------------------------------------------------------------------
(* A run elsewhere.                                                        *)

\* The events of an attempt, or the same with other numbers and times.
MovedList(ignore, v, v2) ==
  /\ v2 = <<>> <=> v = <<>>
  /\ v2 = v \/ (Len(v) \in Nat /\ Len(v2) = Len(v) /\ \A j \in 1..Len(v) : Moved(ignore, v[j], v2[j]))

LEMMA MovedScript ==
  ASSUME plan \in Cases, NEW v, v = <<>> \/ v \in plan.scripts, NEW v2, v2 = [j \in DOMAIN v |-> Renumbered(v[j])]
  PROVE  MovedList(plan.ignore, v, v2)
<1>1. (\E S : v \in Seq(S)) /\ \A j \in DOMAIN v : IsEvent(v[j])
  <2>1. CASE v = <<>>
    <3>1. v \in Seq({}) /\ DOMAIN v = {}
      BY <2>1
    <3> QED
      BY <3>1, Zenon
  <2>2. CASE v \in plan.scripts
    BY <2>2, ReviewAssumption, Zenon
  <2> QED
    BY <2>1, <2>2
<1>2. PICK S : v \in Seq(S)
  BY <1>1
<1>3. PICK n : n = Len(v)
  OBVIOUS
<1>4. n \in Nat /\ DOMAIN v = 1..n
  BY <1>2, <1>3
<1>5. ASSUME NEW j \in 1..n PROVE Moved(plan.ignore, v[j], v2[j])
  <2>1. v2[j] = Renumbered(v[j]) /\ IsEvent(v[j])
    BY <1>1, <1>4
  <2> QED
    BY <2>1, MovedEvents, Zenon
<1>6. v2 \in Seq({Renumbered(v[j]) : j \in 1..n}) /\ Len(v2) = n
  <2>1. v2 \in [1..n -> {Renumbered(v[j]) : j \in 1..n}]
    BY <1>4
  <2> QED
    BY <1>4, <2>1
<1>7. v2 = <<>> <=> v = <<>>
  BY <1>2, <1>3, <1>4, <1>6
<1> QED
  BY <1>3, <1>4, <1>5, <1>6, <1>7, Zenon DEF MovedList

\* Attempts with the same key and result, and the same events but for numbers and times.
MovedAttempt(ignore, a, a2) ==
  /\ a2.revision = a.revision /\ a2.scenario = a.scenario /\ a2.repetition = a.repetition /\ a2.result = a.result
  /\ MovedList(ignore, a.events, a2.events)

LEMMA ElsewhereAttempt ==
  ASSUME plan \in Cases, NEW a, IsAttemptOf(a, plan), NEW a2, a2 = RenumberedAttempt(a)
  PROVE  MovedAttempt(plan.ignore, a, a2)
<1>1. CASE a.revision = "base"
  BY <1>1, Zenon DEF RenumberedAttempt, MovedAttempt, MovedList
<1>2. CASE a.revision # "base"
  <2>1. PICK o, s, n, v, f : o = a.revision /\ s = a.scenario /\ n = a.repetition /\ v = a.events /\ f = a.result
    OBVIOUS
  <2>2. a = [revision |-> o, scenario |-> s, repetition |-> n, events |-> v, result |-> f]
    BY <2>1, Zenon DEF IsAttemptOf
  <2>3. v = <<>> \/ v \in plan.scripts
    BY <2>1, Zenon DEF IsAttemptOf
  <2>4. PICK v2 : v2 = [j \in DOMAIN v |-> Renumbered(v[j])]
    OBVIOUS
  <2>5. a2 = [a EXCEPT !.events = v2]
    BY <1>2, <2>1, <2>4, Zenon DEF RenumberedAttempt
  <2>6. a2 = [revision |-> o, scenario |-> s, repetition |-> n, events |-> v2, result |-> f]
    BY ONLY <2>2, <2>5
  <2>7. a2.revision = o /\ a2.scenario = s /\ a2.repetition = n /\ a2.events = v2 /\ a2.result = f
    BY ONLY <2>6
  <2>8. MovedList(plan.ignore, v, v2)
    BY <2>3, <2>4, MovedScript, Zenon
  <2> QED
    BY <2>1, <2>7, <2>8, Zenon DEF MovedAttempt
<1> QED
  BY <1>1, <1>2

LEMMA ElsewhereBundle ==
  ASSUME plan \in Cases, NEW b, IsBundleOf(b, plan), NEW u, u = Elsewhere(b)
  PROVE  /\ u.executionComplete = b.executionComplete /\ DOMAIN u.attempts = DOMAIN b.attempts
         /\ \A i \in DOMAIN b.attempts : MovedAttempt(plan.ignore, b.attempts[i], u.attempts[i])
<1>1. PICK c, a, d, e, m, r : /\ c = b.commits /\ a = b.attempts /\ d = b.executionComplete /\ m = b.rebuilds
                           /\ e = b.evidenceComplete /\ r = b.runner
  OBVIOUS
<1>2. b = [commits |-> c, attempts |-> a, executionComplete |-> d, evidenceComplete |-> e, rebuilds |-> m, runner |-> r]
  BY <1>1, Zenon DEF IsBundleOf
<1>3. PICK a2 : a2 = [i \in DOMAIN b.attempts |-> RenumberedAttempt(b.attempts[i])]
  OBVIOUS
<1>4. u = [b EXCEPT !.attempts = a2]
  BY <1>3, Zenon DEF Elsewhere
<1>5. u = [commits |-> c, attempts |-> a2, executionComplete |-> d, evidenceComplete |-> e, rebuilds |-> m, runner |-> r]
  BY ONLY <1>2, <1>4
<1>6. u.attempts = a2 /\ u.executionComplete = d
  BY ONLY <1>5
<1>7. DOMAIN a2 = DOMAIN a
  BY ONLY <1>1, <1>3
<1>8. ASSUME NEW i \in DOMAIN a PROVE MovedAttempt(plan.ignore, a[i], a2[i])
  <2>1. PICK x, y : x = a[i] /\ y = a2[i]
    OBVIOUS
  <2>2. y = RenumberedAttempt(x)
    BY <1>1, <1>3, <2>1, Zenon
  <2>3. IsAttemptOf(x, plan)
    BY <1>1, <2>1, Zenon DEF IsBundleOf
  <2>4. MovedAttempt(plan.ignore, x, y)
    BY <2>2, <2>3, ElsewhereAttempt, Zenon
  <2> QED
    BY <2>1, <2>4, Zenon
<1> QED
  BY <1>1, <1>6, <1>7, <1>8, Zenon

\* What the attempt of a trace is made of.
TracedFrom(x, a, ignore, whole) ==
  /\ x.scenario = a.scenario /\ x.revision = a.revision /\ x.repetition = a.repetition
  /\ x.coverage = Coverage(a, whole) /\ x.facts = NormalizeAttempt(ignore, a.events).facts

LEMMA TraceFacts ==
  ASSUME NEW b, NEW ignore, NEW trace, trace = Normalize(b, ignore)
  PROVE  /\ trace.attempts = [i \in DOMAIN trace.attempts |-> trace.attempts[i]]
         /\ \A i \in DOMAIN b.attempts :
              TracedFrom(trace.attempts[i], b.attempts[i], ignore, b.executionComplete)
BY DEF Normalize, Trace, TracedFrom

LEMMA MovedCoverage ==
  ASSUME NEW ignore, NEW a, NEW a2, MovedAttempt(ignore, a, a2), NEW whole
  PROVE  Coverage(a, whole) = Coverage(a2, whole)
<1>1. a2.result = a.result /\ (a2.events = <<>> <=> a.events = <<>>)
  BY Zenon DEF MovedAttempt, MovedList
<1> QED
  BY <1>1, Zenon DEF Coverage

LEMMA SameDigestsOf ==
  ASSUME NEW x, NEW y, \E S : x.facts \in Seq(S), \E S : y.facts \in Seq(S), SameDigests(x.facts, y.facts)
  PROVE  DigestsOf(x) = DigestsOf(y)
<1>1. PICK f, g : f = x.facts /\ g = y.facts
  OBVIOUS
<1>2. PICK S : f \in Seq(S)
  BY <1>1
<1>3. PICK T : g \in Seq(T)
  BY <1>1
<1>4. Len(g) = Len(f) /\ \A i \in 1..Len(f) : g[i].digest = f[i].digest
  BY <1>1, Zenon DEF SameDigests
<1>5. DOMAIN f = 1..Len(f) /\ DOMAIN g = 1..Len(f)
  BY <1>2, <1>3, <1>4
<1>6. DigestsOf(x) = [i \in DOMAIN f |-> f[i].digest] /\ DigestsOf(y) = [i \in DOMAIN g |-> g[i].digest]
  BY <1>1 DEF DigestsOf
<1> QED
  BY ONLY <1>4, <1>5, <1>6

\* The digests of an attempt and those of the same attempt elsewhere.
LEMMA MovedDigests ==
  ASSUME NEW ignore, NEW a, NEW a2, MovedAttempt(ignore, a, a2), NEW x, NEW y,
         x.facts = NormalizeAttempt(ignore, a.events).facts, y.facts = NormalizeAttempt(ignore, a2.events).facts
  PROVE  DigestsOf(x) = DigestsOf(y)
<1>1. PICK v, v2 : v = a.events /\ v2 = a2.events
  OBVIOUS
<1>2. MovedList(ignore, v, v2)
  BY <1>1, Zenon DEF MovedAttempt
<1>3. CASE v2 = v
  <2>1. PICK f : f = x.facts
    OBVIOUS
  <2>2. y.facts = f
    BY <1>1, <1>3, <2>1, Zenon
  <2> QED
    BY <2>1, <2>2, Zenon DEF DigestsOf
<1>4. CASE Len(v) \in Nat /\ Len(v2) = Len(v) /\ \A j \in 1..Len(v) : Moved(ignore, v[j], v2[j])
  <2>1. PICK w, w2 : w = NormalizeAttempt(ignore, v) /\ w2 = NormalizeAttempt(ignore, v2)
    OBVIOUS
  <2>2. AlikeWalk(ignore, w, w2)
    BY <1>4, <2>1, AttemptAlike, Zenon
  <2>3. x.facts = w.facts /\ y.facts = w2.facts
    BY <1>1, <2>1, Zenon
  <2>4. /\ \E S : x.facts \in Seq(S)
        /\ \E S : y.facts \in Seq(S)
        /\ SameDigests(x.facts, y.facts)
    BY <2>2, <2>3, Zenon DEF AlikeWalk, IsWalk
  <2> QED
    BY ONLY <2>4, SameDigestsOf
<1> QED
  BY <1>2, <1>3, <1>4, Zenon DEF MovedList

LEMMA ElsewhereTrace ==
  ASSUME plan \in Cases, NEW b, IsBundleOf(b, plan), NEW t, NEW u,
         t = Normalize(b, plan.ignore), u = Normalize(Elsewhere(b), plan.ignore)
  PROVE  SameTrace(t, u)
<1>1. PICK c, ignore : c = Elsewhere(b) /\ ignore = plan.ignore
  OBVIOUS
<1>2. t = Normalize(b, ignore) /\ u = Normalize(c, ignore)
  BY <1>1, Zenon
<1>3. /\ c.executionComplete = b.executionComplete /\ DOMAIN c.attempts = DOMAIN b.attempts
      /\ \A i \in DOMAIN b.attempts : MovedAttempt(ignore, b.attempts[i], c.attempts[i])
  BY <1>1, ElsewhereBundle
<1>4. DOMAIN t.attempts = DOMAIN b.attempts /\ DOMAIN u.attempts = DOMAIN c.attempts
  BY ONLY <1>2, TraceAttempts
<1>5. /\ \A i \in DOMAIN b.attempts : TracedFrom(t.attempts[i], b.attempts[i], ignore, b.executionComplete)
      /\ \A i \in DOMAIN c.attempts : TracedFrom(u.attempts[i], c.attempts[i], ignore, c.executionComplete)
  BY <1>2, TraceFacts, Zenon
<1>6. ASSUME NEW i \in DOMAIN b.attempts
      PROVE  /\ t.attempts[i].scenario = u.attempts[i].scenario /\ t.attempts[i].revision = u.attempts[i].revision
             /\ t.attempts[i].repetition = u.attempts[i].repetition /\ t.attempts[i].coverage = u.attempts[i].coverage
             /\ DigestsOf(t.attempts[i]) = DigestsOf(u.attempts[i])
  <2>1. PICK a, a2, x, y, whole : /\ a = b.attempts[i] /\ a2 = c.attempts[i]
                                  /\ x = t.attempts[i] /\ y = u.attempts[i]
                                  /\ whole = b.executionComplete
    OBVIOUS
  <2>2. MovedAttempt(ignore, a, a2)
    BY <1>3, <2>1, Zenon
  <2>3. /\ x.scenario = a.scenario /\ x.revision = a.revision /\ x.repetition = a.repetition
        /\ x.coverage = Coverage(a, whole) /\ x.facts = NormalizeAttempt(ignore, a.events).facts
    BY <1>5, <1>6, <2>1, Zenon DEF TracedFrom
  <2>4. /\ y.scenario = a2.scenario /\ y.revision = a2.revision /\ y.repetition = a2.repetition
        /\ y.coverage = Coverage(a2, whole) /\ y.facts = NormalizeAttempt(ignore, a2.events).facts
    <3>1. i \in DOMAIN c.attempts /\ c.executionComplete = whole
      BY <1>3, <1>6, <2>1, Zenon
    <3> QED
      BY <1>5, <2>1, <3>1, Zenon DEF TracedFrom
  <2>5. Coverage(a, whole) = Coverage(a2, whole)
    BY ONLY <2>2, MovedCoverage
  <2>6. DigestsOf(x) = DigestsOf(y)
    BY ONLY <2>2, <2>3, <2>4, MovedDigests
  <2>7. a2.revision = a.revision /\ a2.scenario = a.scenario /\ a2.repetition = a.repetition
    BY <2>2, Zenon DEF MovedAttempt
  <2> QED
    BY <2>1, <2>3, <2>4, <2>5, <2>6, <2>7, Zenon
<1> QED
  BY <1>3, <1>4, <1>6, Zenon DEF SameTrace

\* Process numbers, reused or not, and ignored clocks make no difference to a review
\* (processState, SemanticDigest).
THEOREM PidsAndClocksTheorem == Spec => []PidsAndClocksDecideNothing
<1>1. ReviewIsCurrent /\ BundleInv /\ RecordedInv => PidsAndClocksDecideNothing
  <2> SUFFICES ASSUME ReviewIsCurrent, BundleInv, RecordedInv, Reviewed
               PROVE  CompareTraces(Normalize(Elsewhere(bundle), plan.ignore)).records = review.delta.records
    BY Zenon DEF PidsAndClocksDecideNothing
  <2>1. PICK t, u : t = review.trace /\ u = Normalize(Elsewhere(bundle), plan.ignore)
    OBVIOUS
  <2>2. t = Normalize(bundle, plan.ignore) /\ review.delta = CompareTraces(t)
    BY <2>1, Zenon DEF ReviewIsCurrent, Reviewed, Chain
  <2>3. stage # "running" /\ plan \in Cases
    BY DEF Reviewed, BundleInv
  <2>4. SameTrace(t, u)
    BY <2>1, <2>2, <2>3, ElsewhereTrace, Zenon DEF RecordedInv
  <2>5. TraceIsValid(t)
    BY <2>1, ReviewedTrace, Zenon
  <2>6. DOMAIN t.attempts \subseteq Nat /\ t.attempts = [i \in DOMAIN t.attempts |-> t.attempts[i]]
    <3>1. PICK b, ignore : b = bundle /\ ignore = plan.ignore
      OBVIOUS
    <3>2. t = Normalize(b, ignore)
      BY <2>2, <3>1, Zenon
    <3>3. DOMAIN t.attempts = DOMAIN b.attempts
      BY ONLY <3>2, TraceAttempts
    <3>4. t.attempts = [i \in DOMAIN t.attempts |-> t.attempts[i]]
      BY ONLY <3>2, TraceFacts
    <3> QED
      BY <2>3, <3>1, <3>3, <3>4, Zenon DEF BundleInv
  <2>7. SameTrace(u, t) /\ TraceIsValid(u) /\ DOMAIN u.attempts \subseteq Nat
    BY <2>4, <2>5, <2>6, SameTraceBack, Zenon
  <2>8. CompareTraces(t).records \subseteq CompareTraces(u).records
    BY <2>4, <2>5, <2>6, <2>7, SameTraceRecords, Zenon
  <2>9. CompareTraces(u).records \subseteq CompareTraces(t).records
    BY <2>5, <2>7, SameTraceRecords, Zenon
  <2>10. CompareTraces(u).records = CompareTraces(t).records
    BY <2>8, <2>9, Zenon
  <2> QED
    BY <2>1, <2>2, <2>10, Zenon
<1> QED
  BY <1>1, Current, BundleIsThePlans, RecordedScripts, PTL

=============================================================================
