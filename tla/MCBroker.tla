------------------------------ MODULE MCBroker ------------------------------
(* Small instances of Broker for TLC. *)
EXTENDS Broker, TLC

EveryRequest == Request

Symmetry == Permutations(Conns)
=============================================================================
