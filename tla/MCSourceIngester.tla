-------------------------- MODULE MCSourceIngester --------------------------
(* Small instances of SourceIngester for TLC. *)
EXTENDS SourceIngester, TLC

Symmetry == Permutations(Deliveries) \cup Permutations(Targets) \cup Permutations(Processes)
=============================================================================
