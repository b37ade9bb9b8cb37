----------------------------- MODULE MCExecute -----------------------------
(* Small instances of Execute for TLC. *)
EXTENDS Execute

Tree(f) == [rules |-> TRUE, files |-> f]

\* Workspaces over two paths: nothing to collect, two files with the same content, a file
\* after one that is left out, a link in the way, a file with a second name.
SomeWorkspaces ==
  {EmptyWorkspace, Tree(<<"absent", "absent">>), Tree(<<"text", "text">>),
   Tree(<<"large", "text">>), Tree(<<"absent", "blocked">>), Tree(<<"text", "blocked">>),
   Tree(<<"hardlink", "special">>)}

SomeExits == {<<0, FALSE>>, <<1, TRUE>>, <<0, TRUE>>}
=============================================================================
