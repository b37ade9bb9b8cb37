--------------------------- MODULE PipelineConfig ---------------------------
(***************************************************************************)
(* The pipeline file (internal/config): strict parsing of one YAML         *)
(* document, validation, the choice of the trusted base revision, and the  *)
(* comparison with the file of the head revision.                          *)
(*                                                                         *)
(* A YAML node is a record.  A scalar's value is what its text means:      *)
(* <<"good", i>> a text the field's syntax accepts, <<"bad", i>> one it    *)
(* refuses, <<"int", n>> an integer, <<"size", n, u>> a number with the    *)
(* u-th unit.  Errors are sets of diagnostic codes.                        *)
(***************************************************************************)
EXTENDS Integers, Sequences, FiniteSets, Functions, SequencesExt

CONSTANTS
  MaxPipelineBytes,              \* the largest file that is read
  MaxDepth, MaxNodes,            \* MaxYAMLDepth, MaxYAMLNodes
  MaxInt, Units,                 \* the largest int64; the multipliers of a unit
  MinOf, MaxOf,                  \* the least and the largest value of every bounded quantity
  MaxScenarios, MaxRoots, MaxArtifacts, MaxIgnores

Quantities == {"cpu", "memory", "disk", "processes", "timeout", "artifact", "log", "repetitions"}

ASSUME ConfigAssumption ==
  /\ {MaxPipelineBytes, MaxDepth, MaxNodes, MaxInt, MaxScenarios, MaxRoots, MaxArtifacts, MaxIgnores} \subseteq Nat \ {0}
  /\ Units \in Seq(Nat \ {0})
  /\ MinOf \in [Quantities -> Nat \ {0}] /\ MaxOf \in [Quantities -> Nat \ {0}]

Node(kind, value, items) == [kind |-> kind, mark |-> "plain", value |-> value, items |-> items]
NoValue == <<"none">>
Absent == Node("absent", NoValue, <<>>)
Null == Node("null", NoValue, <<>>)
Scalar(v) == Node("scalar", v, <<>>)
ListOf(nodes) == Node("seq", NoValue, nodes)
MapOf(pairs) == Node("map", NoValue, pairs)     \* pairs <<key, node>>

-----------------------------------------------------------------------------
(* Parse.                                                                  *)

Keys(n) == [i \in 1..Len(n.items) |-> n.items[i][1]]

\* allowedFieldsForPath and sequenceItemPath: the sections of a document.
Fields == [
  document    |-> {"apiVersion", "kind", "metadata", "spec"},
  metadata    |-> {"name"},
  spec        |-> {"environment", "resources", "network", "scenarios", "collect", "compare", "policy"},
  environment |-> {"image", "workdir"},
  resources   |-> {"cpu", "memory", "disk", "processes", "timeout"},
  network     |-> {"mode", "allow"},
  scenarios   |-> {"id", "name", "shell", "run", "timeout"},
  collect     |-> {"filesystem", "artifacts", "logs"},
  filesystem  |-> {"roots", "contents"},
  artifacts   |-> {"path", "maxBytes"},
  logs        |-> {"maxBytesPerStream"},
  compare     |-> {"ignore", "repetitions"},
  ignore      |-> {"field"},
  policy      |-> {"profile"} ]

SequenceSections == {"scenarios", "artifacts", "ignore"}

\* What is below a node, the values of a mapping or the items of a sequence, and in which
\* section of the document.
Child(n, i) == IF n.kind = "map" THEN n.items[i][2] ELSE n.items[i]
SectionBelow(section, n, i) ==
  CASE section \in SequenceSections /\ n.kind = "seq" -> section
    [] section \in DOMAIN Fields /\ n.kind = "map" /\ n.items[i][1] \in Fields[section] -> n.items[i][1]
    [] OTHER -> "unknown"

\* The nodes inspectYAMLNode visits and counts, as <<way to it, section, node>>: it goes
\* down to one level below the limit, to find that there is something.
Way(v) == v[1]
Section(v) == v[2]
NodeOf(v) == v[3]
Below(v) ==
  {<<Append(Way(v), i), SectionBelow(Section(v), NodeOf(v), i), Child(NodeOf(v), i)>>
   : i \in 1..Len(NodeOf(v).items)}
Visited(doc) ==
  LET level[d \in 0..MaxDepth] ==
        IF d = 0 THEN {<< <<>>, "document", doc >>} ELSE UNION {Below(v) : v \in level[d - 1]}
  IN  UNION {level[d] : d \in 0..MaxDepth}

\* inspectYAMLNode of one node: nesting, aliases, anchors, tags, merge and duplicate keys.
NodeErrors(n, depth) ==
  IF depth > MaxDepth THEN {"out-of-range"}
  ELSE (IF n.kind = "alias" \/ n.mark \in {"anchor", "tag"} THEN {"unsupported-yaml"} ELSE {})
       \cup (IF n.kind = "map" /\ Len(n.items) # Cardinality(Range(Keys(n)))
             THEN {"duplicate-key"} ELSE {})
       \cup (IF n.kind = "map" /\ "<<" \in Range(Keys(n)) THEN {"unsupported-yaml"} ELSE {})

InspectErrors(visited) ==
  (UNION {NodeErrors(NodeOf(v), Len(Way(v)) + 1) : v \in visited})
  \cup (IF Cardinality(visited) > MaxNodes THEN {"out-of-range"} ELSE {})

\* inspectKnownFields: in a section only its fields, whatever the nesting.
UnknownFields(visited) ==
  IF \E v \in visited : /\ Section(v) \in DOMAIN Fields /\ NodeOf(v).kind = "map"
                        /\ ~(Range(Keys(NodeOf(v))) \subseteq Fields[Section(v)])
  THEN {"unknown-field"} ELSE {}

\* preflightInput and loadSingleDocumentNode, of a file that says what is wrong with it.
PreflightErrors(file) ==
  (IF file.size > MaxPipelineBytes THEN {"input-too-large"} ELSE {})
  \cup (IF file.text # "utf8" THEN {file.text} ELSE {})
LoadErrors(file) == IF Len(file.docs) # 1 THEN {"multiple-documents"} ELSE {}

ParseErrors(file) ==
  IF PreflightErrors(file) # {} THEN PreflightErrors(file)
  ELSE IF LoadErrors(file) # {} THEN LoadErrors(file)
  ELSE LET visited == Visited(file.docs[1])
       IN  IF InspectErrors(visited) # {} THEN InspectErrors(visited) ELSE UnknownFields(visited)

\* mappingFields: the field k of a mapping; anything else has no fields.
Field(n, k) ==
  IF n.kind = "map" /\ k \in Range(Keys(n))
  THEN n.items[CHOOSE i \in 1..Len(n.items) : n.items[i][1] = k][2]
  ELSE Absent

\* decodeDocument ... decodePolicy: a section as a function of its fields.
Decode(n, section) == [k \in Fields[section] |-> Field(n, k)]

\* The elements of a list; a node that is no sequence has none.
Items(n) == IF n.kind = "seq" THEN n.items ELSE <<>>

MissingSection(n) == n.kind \in {"absent", "null"}
MissingString(n) == n.kind # "scalar" \/ n.value = NoValue

\* intField: text that is no integer counts as zero.
IntOf(n) == IF n.kind = "scalar" /\ n.value \in {"int"} \X Int THEN n.value[2] ELSE 0

-----------------------------------------------------------------------------
(* Validate.                                                               *)

\* parsePositiveUnitNumber: no zero, and no overflow.
UnitNumber(n, mult) == IF n = 0 \/ n > MaxInt \div mult THEN 0 ELSE n * mult

\* ParseSizeBytes and ParseDurationMillis; zero is an error.
Quantity(n) ==
  IF n.kind = "scalar" /\ n.value \in {"size"} \X Nat \X DOMAIN Units
  THEN UnitNumber(n.value[2], Units[n.value[3]]) ELSE 0

If(cond, code) == IF cond THEN {code} ELSE {}

RangeOf(q) == MinOf[q]..MaxOf[q]

\* validateSizeField and validateDurationField
QuantityErrors_NoMinimum(n, q) ==
  IF MissingString(n) THEN {"missing"}
  ELSE IF Quantity(n) = 0 THEN {"invalid-unit"}
  ELSE If(Quantity(n) > MaxOf[q], "out-of-range")
QuantityErrors(n, q) ==
  IF MissingString(n) THEN {"missing"}
  ELSE IF Quantity(n) = 0 THEN {"invalid-unit"}
  ELSE If(Quantity(n) \notin RangeOf(q), "out-of-range")

IntErrors(n, q) ==
  IF MissingSection(n) THEN {"missing"} ELSE If(IntOf(n) \notin RangeOf(q), "out-of-range")

\* A text that one of the field's checks (identifier, path, image, shell, ...) accepts.
TextErrors(n) ==
  IF MissingString(n) THEN {"missing"} ELSE If(n.value[1] # "good", "invalid-value")

\* A text that must be the one supported value.
Only == <<"good", 1>>
OnlyErrors(n) == IF MissingString(n) THEN {"missing"} ELSE If(n.value # Only, "invalid-value")

EnvironmentErrors(n) ==
  IF MissingSection(n) THEN {"missing"}
  ELSE LET e == Decode(n, "environment") IN TextErrors(e.image) \cup TextErrors(e.workdir)

ResourceErrors(n) ==
  IF MissingSection(n) THEN {"missing"}
  ELSE LET r == Decode(n, "resources")
       IN  IntErrors(r.cpu, "cpu") \cup QuantityErrors(r.memory, "memory")
           \cup QuantityErrors(r.disk, "disk") \cup IntErrors(r.processes, "processes")
           \cup QuantityErrors(r.timeout, "timeout")

\* validateNetwork: deny, and nothing allowed.
NetworkErrors(n) ==
  IF MissingSection(n) THEN {"missing"}
  ELSE LET w == Decode(n, "network")
       IN  OnlyErrors(w.mode)
           \cup (IF MissingSection(w.allow) THEN {"missing"}
                 ELSE If(Len(Items(w.allow)) # 0, "invalid-value"))

\* A valid value that an earlier element of the list has already.
Repeats(list, i) == list[i][1] = "good" /\ \E j \in 1..(i - 1) : list[j] = list[i]
RepeatErrors(list) == If(\E i \in 1..Len(list) : Repeats(list, i), "duplicate")

\* validateScenarios under the global timeout.
WithinGlobal(timeout, global) == timeout <= global

ScenarioErrors(n, global) ==
  IF n.kind = "null" THEN {"missing"}
  ELSE LET s == Decode(n, "scenarios")
       IN  TextErrors(s.id) \cup TextErrors(s.name) \cup TextErrors(s.shell) \cup TextErrors(s.run)
           \cup QuantityErrors(s.timeout, "timeout")
           \cup If(QuantityErrors(s.timeout, "timeout") = {} /\ global > 0
                   /\ ~WithinGlobal(Quantity(s.timeout), global), "cross-field")

ScenariosErrors(n, global) ==
  IF MissingSection(n) THEN {"missing"}
  ELSE If(Len(Items(n)) \notin 1..MaxScenarios, "out-of-range")
       \cup (UNION {ScenarioErrors(Items(n)[i], global) : i \in 1..Len(Items(n))})
       \cup RepeatErrors([i \in 1..Len(Items(n)) |-> Field(Items(n)[i], "id").value])

FilesystemErrors(n) ==
  IF MissingSection(n) THEN {"missing"}
  ELSE LET f == Decode(n, "filesystem")
           roots == Items(f.roots)
       IN  (IF MissingSection(f.roots) THEN {"missing"}
            ELSE If(Len(roots) > MaxRoots, "out-of-range")
                 \cup (UNION {TextErrors(roots[i]) : i \in 1..Len(roots)})
                 \cup RepeatErrors([i \in 1..Len(roots) |-> roots[i].value]))
           \cup OnlyErrors(f.contents)

ArtifactErrors(n) ==
  IF n.kind = "null" THEN {"missing"}
  ELSE TextErrors(Field(n, "path")) \cup QuantityErrors(Field(n, "maxBytes"), "artifact")

CollectErrors(n) ==
  IF MissingSection(n) THEN {"missing"}
  ELSE LET c == Decode(n, "collect")
           arts == Items(c.artifacts)
       IN  FilesystemErrors(c.filesystem)
           \cup (IF MissingSection(c.artifacts) THEN {"missing"}
                 ELSE If(Len(arts) > MaxArtifacts, "out-of-range")
                      \cup (UNION {ArtifactErrors(arts[i]) : i \in 1..Len(arts)})
                      \cup RepeatErrors([i \in 1..Len(arts) |-> Field(arts[i], "path").value]))
           \cup (IF MissingSection(c.logs) THEN {"missing"}
                 ELSE QuantityErrors(Field(c.logs, "maxBytesPerStream"), "log"))

\* validateCompare: the two known fields may be ignored.
IgnoreErrors(n) ==
  IF n.kind = "null" THEN {"missing"} ELSE TextErrors(Field(n, "field"))

CompareErrors(n) ==
  IF MissingSection(n) THEN {"missing"}
  ELSE LET c == Decode(n, "compare")
           fields == Items(c.ignore)
       IN  (IF MissingSection(c.ignore) THEN {"missing"}
            ELSE If(Len(fields) > MaxIgnores, "out-of-range")
                 \cup (UNION {IgnoreErrors(fields[i]) : i \in 1..Len(fields)})
                 \cup RepeatErrors([i \in 1..Len(fields) |-> Field(fields[i], "field").value]))
           \cup IntErrors(c.repetitions, "repetitions")

PolicyErrors(n) == IF MissingSection(n) THEN {"missing"} ELSE OnlyErrors(Field(n, "profile"))

GlobalTimeout(spec) ==
  IF MissingSection(Field(spec, "resources")) THEN 0
  ELSE Quantity(Field(Field(spec, "resources"), "timeout"))

\* Validate of the document node n.
ValidateErrors(n) ==
  LET d == Decode(n, "document")
      s == Decode(d.spec, "spec")
  IN  OnlyErrors(d.apiVersion) \cup OnlyErrors(d.kind)
      \cup (IF MissingSection(d.metadata) THEN {"missing"} ELSE TextErrors(Field(d.metadata, "name")))
      \cup (IF MissingSection(d.spec) THEN {"missing"}
            ELSE EnvironmentErrors(s.environment) \cup ResourceErrors(s.resources)
                 \cup NetworkErrors(s.network) \cup ScenariosErrors(s.scenarios, GlobalTimeout(d.spec))
                 \cup CollectErrors(s.collect) \cup CompareErrors(s.compare)
                 \cup PolicyErrors(s.policy))

Values(nodes) == [i \in 1..Len(nodes) |-> nodes[i].value]

\* The validated pipeline of a document without errors.
Pipeline(n) ==
  LET spec == Field(n, "spec")
      env == Decode(Field(spec, "environment"), "environment")
      res == Decode(Field(spec, "resources"), "resources")
      col == Decode(Field(spec, "collect"), "collect")
      cmp == Decode(Field(spec, "compare"), "compare")
      scen(x) == [id |-> Field(x, "id").value, name |-> Field(x, "name").value,
                  shell |-> Field(x, "shell").value, run |-> Field(x, "run").value,
                  timeout |-> Quantity(Field(x, "timeout"))]
      art(x) == [path |-> Field(x, "path").value, max |-> Quantity(Field(x, "maxBytes"))]
  IN  [ name |-> Field(Field(n, "metadata"), "name").value,
        image |-> env.image.value, workdir |-> env.workdir.value,
        resources |-> [cpu |-> IntOf(res.cpu), memory |-> Quantity(res.memory),
                       disk |-> Quantity(res.disk), processes |-> IntOf(res.processes),
                       timeout |-> Quantity(res.timeout)],
        scenarios |-> [i \in 1..Len(Items(Field(spec, "scenarios"))) |->
                         scen(Items(Field(spec, "scenarios"))[i])],
        roots |-> Values(Items(Field(col.filesystem, "roots"))),
        artifacts |-> [i \in 1..Len(Items(col.artifacts)) |-> art(Items(col.artifacts)[i])],
        log |-> Quantity(Field(col.logs, "maxBytesPerStream")),
        ignore |-> [i \in 1..Len(Items(cmp.ignore)) |-> Field(Items(cmp.ignore)[i], "field").value],
        repetitions |-> IntOf(cmp.repetitions) ]

\* ParseAndValidate
FileErrors(file) ==
  LET parse == ParseErrors(file)
  IN  IF parse # {} THEN parse ELSE ValidateErrors(file.docs[1])

-----------------------------------------------------------------------------
(* ComparePipelines.  A change is [path, kind, effect].                    *)

Change(path, kind, effect) == [path |-> path, kind |-> kind, effect |-> effect]

\* addStringChange and addRunChange
TextChange(path, before, after, effect) ==
  If(before # after, Change(path, "modified", effect))

\* addIntDirectional
IntChange(path, before, after, more, less) ==
  If(before # after, Change(path, "modified", IF after > before THEN more ELSE less))

\* sameStringSet: as multisets.
Count(list, v) == Cardinality({i \in DOMAIN list : list[i] = v})
IsPermutation(a, b) ==
  Len(a) = Len(b) /\ \A v \in Range(a) \cup Range(b) : Count(a, v) = Count(b, v)

\* compareStringList: a permutation is one change, otherwise position by position.
ListChanges(path, base, head, added, removed) ==
  IF IsPermutation(base, head) THEN If(base # head, Change(<<path>>, "reordered", "informational"))
  ELSE UNION {If(i \in DOMAIN base /\ i \in DOMAIN head /\ base[i] # head[i],
                 Change(<<path, i>>, "modified", "unknown"))
              \cup If(i \in DOMAIN base /\ i \notin DOMAIN head, Change(<<path, i>>, "removed", removed))
              \cup If(i \in DOMAIN head /\ i \notin DOMAIN base, Change(<<path, i>>, "added", added))
              : i \in DOMAIN base \cup DOMAIN head}

\* Elements with a key: added, removed and reordered keys.
KeyChanges(path, base, head, added, removed) ==
  (UNION {If(base[i] \notin Range(head), Change(<<path, base[i]>>, "removed", removed)) : i \in DOMAIN base})
  \cup (UNION {If(head[i] \notin Range(base), Change(<<path, head[i]>>, "added", added)) : i \in DOMAIN head})
  \cup If(IsPermutation(base, head) /\ base # head, Change(<<path>>, "reordered", "informational"))

KeysOf(list, k) == [i \in DOMAIN list |-> list[i][k]]
ByKey(list, k, v) == list[CHOOSE i \in DOMAIN list : list[i][k] = v]
CommonKeys(base, head, k) == Range(KeysOf(base, k)) \cap Range(KeysOf(head, k))

\* compareScenarios
ScenarioChanges(base, head) ==
  KeyChanges("scenarios", KeysOf(base, "id"), KeysOf(head, "id"), "execution", "execution")
  \cup UNION {LET b == ByKey(base, "id", id)
                  h == ByKey(head, "id", id)
              IN  TextChange(<<"scenarios", id, "name">>, b.name, h.name, "informational")
                  \cup TextChange(<<"scenarios", id, "shell">>, b.shell, h.shell, "execution")
                  \cup TextChange(<<"scenarios", id, "run">>, b.run, h.run, "execution")
                  \cup IntChange(<<"scenarios", id, "timeout">>, b.timeout, h.timeout, "increase", "decrease")
              : id \in CommonKeys(base, head, "id")}

\* compareArtifacts
ArtifactChanges(base, head) ==
  KeyChanges("artifacts", KeysOf(base, "path"), KeysOf(head, "path"), "strengthened", "weakened")
  \cup UNION {IntChange(<<"artifacts", p, "max">>, ByKey(base, "path", p).max,
                        ByKey(head, "path", p).max, "strengthened", "weakened")
              : p \in CommonKeys(base, head, "path")}

\* compareIgnoreFields: what is ignored is not observed.
IgnoreChanges_Swapped(base, head) == KeyChanges("ignore", base, head, "strengthened", "weakened")
IgnoreChanges(base, head) == KeyChanges("ignore", base, head, "weakened", "strengthened")

\* (The network mode, its allow list, the contents mode and the profile have one valid
\* value each, so two validated pipelines agree on them.)
ComparePipelines(b, h) ==
  TextChange(<<"name">>, b.name, h.name, "informational")
  \cup TextChange(<<"image">>, b.image, h.image, "execution")
  \cup TextChange(<<"workdir">>, b.workdir, h.workdir, "execution")
  \cup (UNION {IntChange(<<"resources", r>>, b.resources[r], h.resources[r], "increase", "decrease")
               : r \in DOMAIN b.resources})
  \cup ScenarioChanges(b.scenarios, h.scenarios)
  \cup ListChanges("roots", b.roots, h.roots, "strengthened", "weakened")
  \cup ArtifactChanges(b.artifacts, h.artifacts)
  \cup IntChange(<<"log">>, b.log, h.log, "strengthened", "weakened")
  \cup IgnoreChanges(b.ignore, h.ignore)
  \cup IntChange(<<"repetitions">>, b.repetitions, h.repetitions, "strengthened", "weakened")

-----------------------------------------------------------------------------
(* LoadTrusted.  A file is read from a revision; `entry' is "file", "missing", *)
(* "too-large", "failed" or another kind of tree entry.                    *)

\* The error of gitstore for a blob over the limit is not the one that LoadTrusted knows:
\* a file that is too large is one that cannot be read.
CannotBeRead(file) == file.entry \in {"failed", "too-large"}

EmptyPipeline == [none |-> TRUE]
Loaded(base, head, pipeline, assessment) ==
  [error |-> "none", base |-> base.commit, head |-> head.commit, pipeline |-> pipeline,
   assessment |-> assessment]
LoadError(code, base, head) ==
  [Loaded(base, head, EmptyPipeline, [state |-> "none", changes |-> {}]) EXCEPT !.error = code]

\* assessHead: nothing the head holds is an error once it has been read.
AssessHead(base, head) ==
  CASE head.entry = "missing" -> [state |-> "removed", changes |-> {}]
    [] head.entry # "file"    -> [state |-> "unsupported-entry", changes |-> {}]
    [] head = base            -> [state |-> "unchanged", changes |-> {}]
    [] OTHER ->
         IF FileErrors(head) # {} THEN [state |-> "modified-invalid", changes |-> {}]
         ELSE LET changes == ComparePipelines(Pipeline(base.docs[1]), Pipeline(head.docs[1]))
              IN  [state |-> IF changes = {} THEN "equivalent" ELSE "modified-valid",
                   changes |-> changes]

\* classifyBaseReadError
BaseError(base) ==
  CASE base.entry = "missing" -> "base-config-missing"
    [] CannotBeRead(base) -> "base-read-failed"
    [] base.entry # "file" -> "unsupported-base-entry"
    [] OTHER -> IF FileErrors(base) # {} THEN "base-config-invalid" ELSE "none"

\* A revision is [commit, file].
LoadTrusted_PrefersHead(base, head) ==
  LET a == AssessHead(base.file, head.file)
  IN  IF BaseError(base.file) # "none" THEN LoadError(BaseError(base.file), base, head)
      ELSE IF CannotBeRead(head.file) THEN LoadError("head-inspection-failed", base, head)
      ELSE Loaded(base, head, Pipeline((IF a.state = "modified-valid" THEN head ELSE base).file.docs[1]), a)
LoadTrusted(base, head) ==
  IF BaseError(base.file) # "none" THEN LoadError(BaseError(base.file), base, head)
  ELSE IF CannotBeRead(head.file) THEN LoadError("head-inspection-failed", base, head)
  ELSE Loaded(base, head, Pipeline(base.file.docs[1]), AssessHead(base.file, head.file))
=============================================================================
