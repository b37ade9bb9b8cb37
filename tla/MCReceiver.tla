----------------------------- MODULE MCReceiver -----------------------------
(* Small instances of Receiver for TLC. *)
EXTENDS Receiver, TLC

CONSTANTS d1, b1, b2

Genuine == [id |-> d1, body |-> b1, flaw |-> "none"]
Altered == [id |-> d1, body |-> b2, flaw |-> "none"]

GenuineOnly == {Genuine}
EveryKind == {Genuine, Altered} \cup
             {[id |-> d1, body |-> b1, flaw |-> f] : f \in Flaws \ {"none"}}

Symmetry == Permutations(Conns)
=============================================================================
