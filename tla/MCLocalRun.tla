----------------------------- MODULE MCLocalRun -----------------------------
(* Runs for one output directory. *)
EXTENDS LocalRun, TLC

CONSTANTS r1, r2
TwoRuns == {r1, r2}
Symmetry == Permutations(Runs)
=============================================================================
