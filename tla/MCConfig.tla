------------------------------ MODULE MCConfig ------------------------------
(* A small document and what an author may do to it. *)
EXTENDS ConfigTrust

Good(i) == Scalar(<<"good", i>>)
Num(n) == Scalar(<<"int", n>>)
Size(n, u) == Scalar(<<"size", n, u>>)

Scenario(i) == MapOf(<< <<"id", Good(i)>>, <<"name", Good(i)>>, <<"shell", Good(1)>>,
                        <<"run", Good(i)>>, <<"timeout", Size(2, 1)>> >>)
ArtifactRule(i) == MapOf(<< <<"path", Good(i)>>, <<"maxBytes", Size(1, 2)>> >>)
Ignore(i) == MapOf(<< <<"field", Good(i)>> >>)

SmallDocument == MapOf(<<
  <<"apiVersion", Good(1)>>, <<"kind", Good(1)>>,
  <<"metadata", MapOf(<< <<"name", Good(1)>> >>)>>,
  <<"spec", MapOf(<<
    <<"environment", MapOf(<< <<"image", Good(1)>>, <<"workdir", Good(1)>> >>)>>,
    <<"resources", MapOf(<< <<"cpu", Num(1)>>, <<"memory", Size(1, 2)>>, <<"disk", Size(1, 2)>>,
                            <<"processes", Num(1)>>, <<"timeout", Size(2, 1)>> >>)>>,
    <<"network", MapOf(<< <<"mode", Good(1)>>, <<"allow", ListOf(<<>>)>> >>)>>,
    <<"scenarios", ListOf(<<Scenario(1), Scenario(2)>>)>>,
    <<"collect", MapOf(<<
      <<"filesystem", MapOf(<< <<"roots", ListOf(<<Good(1), Good(2)>>)>>, <<"contents", Good(1)>> >>)>>,
      <<"artifacts", ListOf(<<ArtifactRule(1), ArtifactRule(2)>>)>>,
      <<"logs", MapOf(<< <<"maxBytesPerStream", Size(1, 2)>> >>)>> >>)>>,
    <<"compare", MapOf(<< <<"ignore", ListOf(<<Ignore(1)>>)>>, <<"repetitions", Num(1)>> >>)>>,
    <<"policy", MapOf(<< <<"profile", Good(1)>> >>)>> >>)>> >>)

WithChild(n, i, c) ==
  [n EXCEPT !.items[i] = IF n.kind = "map" THEN <<n.items[i][1], c>> ELSE c]

\* What may take the place of a node.
Instead(n) ==
  CASE n.kind = "scalar" /\ n.value[1] = "good" -> {Good(IF n.value[2] = 1 THEN 2 ELSE 1), Scalar(<<"bad", 1>>)}
    [] n.kind = "scalar" /\ n.value[1] = "int" -> {Num(0), Num(2), Num(3), Good(1)}
    [] n.kind = "scalar" /\ n.value[1] = "size" -> {Size(1, 1), Size(3, 1), Size(4, 1), Size(3, 2), Size(4, 2)}
    [] n.kind = "seq" ->
         {Null, Good(1), ListOf(<<>>), ListOf(Reverse(n.items))}
         \cup {ListOf(Append(n.items, n.items[i])) : i \in 1..Len(n.items)}
         \cup {ListOf(RemoveAt(n.items, i)) : i \in 1..Len(n.items)}
    [] n.kind = "map" /\ n.items # <<>> ->
         {Null, [n EXCEPT !.mark = "anchor"], MapOf(Append(n.items, n.items[1])),
          MapOf(Append(n.items, <<"other", Null>>)), MapOf(Tail(n.items))}
    [] OTHER -> {}

\* Of a list of two, the second is edited.
Editable(n) == IF n.kind = "seq" THEN {Len(n.items)} \ {0} ELSE 1..Len(n.items)

RECURSIVE Edited(_)
Edited(n) == Instead(n) \cup UNION {{WithChild(n, i, c) : c \in Edited(Child(n, i))} : i \in Editable(n)}

\* An author goes on from a valid document or back to the first; an invalid one is repaired.
Authored(n) == {SmallDocument} \cup (IF FileErrors(FileWith(n)) = {} THEN Edited(n) ELSE {})

Odd == {[FileWith(SmallDocument) EXCEPT !.entry = e] : e \in {"missing", "too-large", "symlink", "failed"}}
       \cup {[FileWith(SmallDocument) EXCEPT !.size = 9], [FileWith(SmallDocument) EXCEPT !.text = "nul-byte"],
             [FileWith(SmallDocument) EXCEPT !.docs = @ \o @]}

Minima == [q \in Quantities |-> IF q \in {"memory", "disk", "timeout"} THEN 2 ELSE 1]
Maxima == [q \in Quantities |-> 4]
SmallPlatform == [c \in Ceilings |-> IF c \in {"scenarios", "roots", "artifacts"} THEN 2 ELSE 4]

\* Trees: what one may hold, and what may be added to it.
Entry(path, mode, type, size, object) ==
  [path |-> path, mode |-> mode, type |-> type, size |-> size, object |-> object, stored |-> object]
Text(i) == [lfs |-> FALSE, text |-> i]
Folder(path) == Entry(path, "040000", "tree", -1, Text(0))
TextFile(path) == Entry(path, "100644", "blob", 1, Text(1))
Program(path) == Entry(path, "100755", "blob", 1, Text(1))
Pointer(path) == Entry(path, "100644", "blob", 1, [lfs |-> TRUE, text |-> 1])
Submodule(path) == Entry(path, "160000", "commit", -1, Text(2))
Link(path, names) == Entry(path, "120000", "blob", 1, [absolute |-> FALSE, names |-> names])

SmallTree == <<Folder(<<1>>), TextFile(<<1, 4>>), Folder(<<1, 2>>), Program(<<1, 2, 5>>), Folder(<<3>>),
               Submodule(<<3, 8>>), Pointer(<<6>>), Submodule(<<7>>), Link(<<1, 2, 9>>, <<Up, Up, 3>>)>>
Additions ==
  {Link(<<1, 2, 8>>, names) : names \in
     {<<8>>, <<9, Up, Up, 5>>, <<Up, Up, Up, 5>>, <<Up, Up>>, <<GitName>>}}
  \cup {Link(<<1, 8>>, <<2, 9>>), [Link(<<8>>, <<3>>) EXCEPT !.stored.absolute = TRUE, !.object.absolute = TRUE],
        [TextFile(<<8>>) EXCEPT !.stored = Text(3)], [TextFile(<<8>>) EXCEPT !.size = 3],
        [TextFile(<<8>>) EXCEPT !.type = "tree"], TextFile(<<1>>), TextFile(<<6, 1>>), TextFile(<<8, 1>>),
        TextFile(<<1, 2, 2, 2>>)}
SmallTrees == {Append(SmallTree, e) : e \in Additions}
              \cup {Reverse(SmallTree), SmallTree \o <<Link(<<4>>, <<3>>), Link(<<5>>, <<4, 1>>)>>,
                    SmallTree \o <<TextFile(<<4>>), TextFile(<<5>>), TextFile(<<8>>)>>,
                    SmallTree \o [i \in 1..4 |-> Folder(<<10 + i>>)]}

BinaryUnits == <<1, 4>>

\* A plan of a workload is only run by a runner that executes it and makes nothing up; a
\* synthetic test never executes the target (MatchCapabilities, over all its arguments).
ASSUME MatchedRunnersFit ==
  \A q \in Requirements, c \in Capabilities :
    MayExecute(q, c) => /\ c.executes = (q.intent = "workload") /\ c.synthetic = (q.intent # "workload")
                        /\ c.tier \in q.tiers /\ q.features \subseteq c.features
=============================================================================
