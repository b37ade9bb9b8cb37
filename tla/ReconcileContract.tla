------------------------- MODULE ReconcileContract -------------------------
(***************************************************************************)
(* What the GitHub controller promises about a pull request, with no       *)
(* leases, stores, processes or time: every delivery takes effect at most  *)
(* once, its effect is to bring the controller's view of the pull request  *)
(* at least as far as the change the delivery announced, and the view      *)
(* never goes back.                                                        *)
(***************************************************************************)
EXTENDS Integers

CONSTANTS PRs, Deliveries, None

VARIABLES
  version,      \* the version of each pull request on GitHub
  announced,    \* what a delivery announces: None, or a pull request and a version
  view,         \* the version each pull request was last reconciled with
  done          \* the deliveries that took effect

contractVars == <<version, announced, view, done>>

ContractInit ==
  /\ version = [p \in PRs |-> 0]
  /\ announced = [d \in Deliveries |-> None]
  /\ view = [p \in PRs |-> 0]
  /\ done = {}

\* GitHub changes pull request p and announces the change with delivery d.
Announce(p, d) ==
  /\ announced[d] = None
  /\ version' = [version EXCEPT ![p] = @ + 1]
  /\ announced' = [announced EXCEPT ![d] = [pr |-> p, version |-> version[p] + 1]]
  /\ UNCHANGED <<view, done>>

\* A delivery that announces no change of a pull request (pr = None).
AnnounceOther(d) ==
  /\ announced[d] = None
  /\ announced' = [announced EXCEPT ![d] = [pr |-> None, version |-> 0]]
  /\ UNCHANGED <<version, view, done>>

Reconcile(d) ==
  /\ d \notin done
  /\ announced[d] # None
  /\ done' = done \cup {d}
  /\ IF announced[d].pr = None
     THEN view' = view
     ELSE LET p == announced[d].pr IN
          \E v \in announced[d].version .. version[p] :
            v >= view[p] /\ view' = [view EXCEPT ![p] = v]
  /\ UNCHANGED <<version, announced>>

ContractNext ==
  \E d \in Deliveries :
    \/ \E p \in PRs : Announce(p, d)
    \/ AnnounceOther(d)
    \/ Reconcile(d)

ContractSpec == ContractInit /\ [][ContractNext]_contractVars
=============================================================================
