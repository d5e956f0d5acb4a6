---------------------------- MODULE MCPlacement ----------------------------
(***************************************************************************)
(* Instances of Placement for TLC.  The collectors and the pods run on the *)
(* nodes of Local only.  A collector changes nothing but the mount, the    *)
(* directory and the logical volume of its own node, and a pod elsewhere   *)
(* only delays the release of the claim, so what happens on a node of      *)
(* Local does not depend on those of the others, and the nodes are alike.  *)
(* On the nodes of Coarse, DeleteVolume and NodeStageVolume, once they     *)
(* have decided on the PV, go to their end with nobody else's steps in     *)
(* between; there too they may fail at each of their own.                  *)
(***************************************************************************)
EXTENDS Placement, TLC

CONSTANTS Local,            \* nodes with collectors and pods
          Coarse,           \* nodes whose calls are not interrupted
          MaxDisturbances   \* bound: moves and faults together

ASSUME LocalAssumption == Local \subseteq Nodes /\ Coarse \subseteq Nodes \ Local
ASSUME DisturbanceAssumption == MaxDisturbances \in Nat

\* An action constraint.  Moves and faults are nobody's duty, so bounding them
\* disables no step that fairness asks for.
Bounded ==
  /\ \A n \in Nodes \ Local : fo'[n] = fo[n] /\ scan'[n] = scan[n] /\ pod'[n] = pod[n]
  /\ Moves' + faults' <= MaxDisturbances
  /\ \A n \in Coarse : /\ del[n] \in {"unmount", "rmdir", "remove"} => del'[n] # del[n]
                       /\ stage[n] \in {"patch", "ensure", "mount"} => stage'[n] # stage[n]

\* The fairness of Placement, for the collectors that run.
LocalFairSpec ==
  /\ Spec
  /\ \A n \in Nodes : InformerFairness(n) /\ DeleteFairness(n)
  /\ \A n \in Local : FailoverFairness(n) /\ ScannerFairness(n)
  /\ CleanupFairness

\* NoLeak for the nodes whose collectors run.
LocalNoLeak == \A n \in Local : []<>HeldForAReason(n)
=============================================================================
