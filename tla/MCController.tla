---------------------------- MODULE MCController ----------------------------
(* Small instances of Controller for TLC. *)
EXTENDS Controller, TLC

CONSTANTS p1, t1, t2, c1

Open1 == [closed |-> FALSE, draft |-> FALSE, target |-> t1]
Open2 == [closed |-> FALSE, draft |-> FALSE, target |-> t2]
Closed1 == [closed |-> TRUE, draft |-> FALSE, target |-> t1]

MCSnapshots == {Open1, Open2}
MCSnapshotsClosing == {Open1, Closed1}

Hint == [kind |-> "pull_request", pr |-> p1]
Removed == [kind |-> "installation", prs |-> {p1}]
Old == [kind |-> "legacy"]
Rerequest == [kind |-> "check_run", run |-> c1, genuine |-> TRUE]
Foreign == [kind |-> "check_run", run |-> c1, genuine |-> FALSE]

Symmetry == Permutations(Deliveries) \cup Permutations(Workers)

HintBodies == {Hint}
AllBodies == {Hint, Removed, Old, Rerequest, Foreign}
=============================================================================
