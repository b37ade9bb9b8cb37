----------------------------- MODULE Materialize -----------------------------
(***************************************************************************)
(* From a commit to a directory: the listing of a Git tree                 *)
(* (internal/gitstore) and its copy into a workspace                       *)
(* (internal/materialize), as internal/localrun uses them.                 *)
(*                                                                         *)
(* A tree is a sequence of records of git ls-tree.  A path is a sequence   *)
(* of names.  A name is a natural number, their order being the order of   *)
(* the texts; Up is "..", Dot stands for an empty name and ".", GitName    *)
(* for .git, and BadName for one that is too long or has a character that  *)
(* is not allowed.  An object is named by its content: a text, an LFS      *)
(* pointer, or the target of a link.  An error of the host's file system   *)
(* or of git ends a copy like any error below.                             *)
(***************************************************************************)
EXTENDS Integers, Sequences, FiniteSets, Functions, SequencesExt

CONSTANTS
  MaxTreeEntries, MaxPathDepth,  \* of a listing and of a materialization alike
  MaxFileBytes, MaxTotalBytes,   \* MaxSingleFileBytes, MaxTotalBlobBytes
  MaxTargetBytes,                \* MaxSymlinkTargetBytes, also the largest LFS pointer
  MaxLinks,                      \* MaxSymlinks; the other kinds are counted alike
  MaxReportedLimitations

ASSUME MaterializeAssumption ==
  {MaxTreeEntries, MaxPathDepth, MaxFileBytes, MaxTotalBytes, MaxTargetBytes, MaxLinks,
   MaxReportedLimitations} \subseteq Nat \ {0}

Up == -1
Dot == -2
GitName == -3
BadName == -4

Parent(p) == SubSeq(p, 1, Len(p) - 1)
Ancestors(p) == {SubSeq(p, 1, i) : i \in 1..(Len(p) - 1)}

\* The order of paths.
PathLess(p, q) ==
  \/ Len(p) < Len(q) /\ p = SubSeq(q, 1, Len(p))
  \/ \E i \in DOMAIN p \cap DOMAIN q :
       p[i] < q[i] /\ \A j \in 1..(i - 1) : p[j] = q[j]

\* A set of paths in order: before the i-th there are i - 1.
InOrder(S) == [i \in 1..Cardinality(S) |-> CHOOSE p \in S : Cardinality({q \in S : PathLess(q, p)}) = i - 1]

\* ValidateGitTreePath and validateMaterializationPath
ValidPath(p) == p # <<>> /\ Len(p) <= MaxPathDepth /\ \A i \in DOMAIN p : p[i] \in Nat

-----------------------------------------------------------------------------
(* The listing of a tree.                                                  *)

Unsupported == "unsupported"

\* classifyTreeMode
KindOf(e) ==
  CASE e.mode = "040000" /\ e.type = "tree"   -> "directory"
    [] e.mode = "100644" /\ e.type = "blob"   -> "regular-file"
    [] e.mode = "100755" /\ e.type = "blob"   -> "executable-file"
    [] e.mode = "120000" /\ e.type = "blob"   -> "symlink"
    [] e.mode = "160000" /\ e.type = "commit" -> "gitlink"
    [] OTHER -> Unsupported

FileKinds == {"regular-file", "executable-file"}
BlobKinds == FileKinds \cup {"symlink"}

\* checkPathConflicts: something that is no directory has an entry below it.
Conflict(e, f) == KindOf(e) # "directory" /\ e.path \in Ancestors(f.path)

\* parseLsTree of the records of a commit's tree, in whatever order git lists them.
ListingValid(tree) ==
  /\ Len(tree) <= MaxTreeEntries
  /\ \A i \in DOMAIN tree : ValidPath(tree[i].path) /\ KindOf(tree[i]) # Unsupported
  /\ \A i, j \in DOMAIN tree : i # j => tree[i].path # tree[j].path /\ ~Conflict(tree[i], tree[j])

\* readBlob: what git cat-file returns must have the size of the entry and hash to the
\* object it was asked for.
BlobReadable(e, limit) == e.size <= limit /\ e.stored = e.object

-----------------------------------------------------------------------------
(* The inventory.                                                          *)

OfKind(entries, kinds) == {e \in entries : KindOf(e) \in kinds}
SizeOf(entries) == FoldFunction(+, 0, [e \in entries |-> e.size])

\* Sizes are checked before anything is read; the sizes of directories and gitlinks are
\* not known.
SizesValid(entries) ==
  LET blobs == OfKind(entries, BlobKinds)
  IN  /\ \A e \in blobs : e.size \in 0..MaxFileBytes
      /\ \A e \in OfKind(entries, {"symlink"}) : e.size <= MaxTargetBytes
      /\ SizeOf(blobs) <= MaxTotalBytes

\* requireExplicitParents
ParentsListed(entries) ==
  \A e \in entries : \A p \in Ancestors(e.path) :
    \E d \in entries : d.path = p /\ KindOf(d) = "directory"

\* preflightInventory
PreflightValid(entries) ==
  /\ Cardinality(entries) <= MaxTreeEntries
  /\ SizesValid(entries)
  /\ \A e, f \in entries : ~Conflict(e, f)
  /\ Cardinality(OfKind(entries, {"symlink"})) <= MaxLinks
  /\ ParentsListed(entries)

-----------------------------------------------------------------------------
(* Links.                                                                  *)

\* path.Clean of the names: ".." takes a name away, if there is one.
CleanName(done, n) ==
  CASE n = Dot -> done
    [] n = Up /\ done # <<>> /\ Last(done) # Up -> Front(done)
    [] OTHER -> Append(done, n)
Cleaned(names) ==
  LET done[i \in 0..Len(names)] == IF i = 0 THEN <<>> ELSE CleanName(done[i - 1], names[i])
  IN  done[Len(names)]

\* validateSymlinkTarget: a relative, clean target that names something below the root.
TargetValid_NeedNotBeClean(path, target) ==
  ~target.absolute /\ target.names # <<>> /\ ValidPath(Cleaned(Parent(path) \o target.names))
TargetValid(path, target) ==
  /\ ~target.absolute /\ target.names # <<>>
  /\ Cleaned(target.names) = target.names
  /\ ValidPath(Cleaned(Parent(path) \o target.names))

-----------------------------------------------------------------------------
(* The copy.                                                               *)

\* A workspace is a function from paths to what is there.
EmptyWorkspace == [p \in {} |-> "nothing"]

Created(e) == CASE KindOf(e) = "directory" -> [kind |-> "directory"]
             [] KindOf(e) = "symlink"   -> [kind |-> "symlink", target |-> e.stored]
             [] OTHER -> [kind |-> "file", content |-> e.stored, executable |-> KindOf(e) = "executable-file"]

\* Exclusive creation: the path is new and its parent is a directory.
MayCreate(ws, path) ==
  path \notin DOMAIN ws /\ (Len(path) = 1 \/ (Parent(path) \in DOMAIN ws /\ ws[Parent(path)].kind = "directory"))

\* What is created after one another, or at once if the order does not matter.
Create(ws, entries) ==
  LET path == {e.path : e \in entries}
      at(p) == CHOOSE e \in entries : e.path = p
  IN  [p \in DOMAIN ws \cup path |-> IF p \in path THEN Created(at(p)) ELSE ws[p]]

\* sortInventory: directories, those nearer to the root first, then files, then links.
Batches(entries) ==
  [d \in 1..MaxPathDepth |-> {e \in OfKind(entries, {"directory"}) : Len(e.path) = d}]
  \o << OfKind(entries, FileKinds), OfKind(entries, {"symlink"}) >>

\* materializeFile and materializeSymlink of one entry.
EntryError(ws, e) ==
  CASE KindOf(e) \in FileKinds /\ ~MayCreate(ws, e.path) -> "destination"
    [] KindOf(e) \in FileKinds /\ ~BlobReadable(e, MaxFileBytes) -> "blob"
    [] KindOf(e) = "symlink" /\ ~BlobReadable(e, MaxTargetBytes) -> "blob"
    [] KindOf(e) = "symlink" /\ ~TargetValid(e.path, e.stored) -> "target"
    [] KindOf(e) \in {"directory", "symlink"} /\ ~MayCreate(ws, e.path) -> "destination"
    [] OTHER -> "none"

\* materializeInventory, batch by batch up to the first error.
CopyBatch(st, batch) ==
  LET errors == {EntryError(st.ws, e) : e \in batch} \ {"none"}
  IN  IF st.error # "none" THEN st
      ELSE IF errors # {} THEN [st EXCEPT !.error = CHOOSE x \in errors : TRUE]
      ELSE [st EXCEPT !.ws = Create(st.ws, batch)]
Copied(entries) ==
  LET batches == Batches(entries)
      copy[i \in 0..Len(batches)] ==
        IF i = 0 THEN [ws |-> EmptyWorkspace, error |-> "none"] ELSE CopyBatch(copy[i - 1], batches[i])
  IN  copy[Len(batches)]

\* parseLFSPointer on what materializeFile has copied.
IsPointer(e) == KindOf(e) \in FileKinds /\ e.size <= MaxTargetBytes /\ e.object.lfs

Disposition(e) == IF IsPointer(e) THEN "lfs-pointer" ELSE KindOf(e)
EntryReport(e) == [path |-> e.path, object |-> e.object, disposition |-> Disposition(e)]

\* entryForTreeDigest: what was created, a pointer being the file it is.
TreeDigest(entries) ==
  {[path |-> e.path, object |-> e.object, disposition |-> KindOf(e)] : e \in entries \ OfKind(entries, {"gitlink"})}
ManifestDigest(entries) == {EntryReport(e) : e \in entries}

\* A gitlink is reported and left out; not all are reported.
Limitations(entries) ==
  LET paths == InOrder({e.path : e \in OfKind(entries, {"gitlink"})})
  IN  SubSeq(paths, 1, IF Len(paths) < MaxReportedLimitations THEN Len(paths) ELSE MaxReportedLimitations)

Failed(error) == [error |-> error, ws |-> EmptyWorkspace, entries |-> {}]

\* Materializer.Materialize: on an error the workspace is removed again.
Materialize(tree) ==
  IF ~ListingValid(tree) THEN Failed("listing")
  ELSE LET entries == Range(tree)
           copy == Copied(entries)
       IN  IF ~PreflightValid(entries) THEN Failed("preflight")
           ELSE IF copy.error # "none" THEN Failed(copy.error)
           ELSE [error |-> "none", ws |-> copy.ws, entries |-> entries]

\* sourceSnapshotFromMaterialization
SourceSnapshot(result, kind, commit) ==
  LET count(kinds) == Cardinality(OfKind(result.entries, kinds))
  IN  [kind |-> kind, commit |-> commit, tree |-> TreeDigest(result.entries),
       manifest |-> ManifestDigest(result.entries),
       files |-> count(FileKinds), lfs |-> Cardinality({e \in result.entries : IsPointer(e)}),
       gitlinks |-> count({"gitlink"}), skipped |-> count({"gitlink"}),
       limitations |-> Limitations(result.entries)]
==============================================================================
