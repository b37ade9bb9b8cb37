------------------------- MODULE MCControllerStore -------------------------
(* Small instances of ControllerStore for TLC. *)
EXTENDS ControllerStore, TLC

Symmetry == Permutations(Deliveries) \cup Permutations(Targets)
=============================================================================
