---------------------------- MODULE MCNodeVolume ----------------------------
(***************************************************************************)
(* An instance of NodeVolume for TLC.  The processes of the other nodes    *)
(* share nothing with the mounts, only the CSIDriver object with the       *)
(* process of Here: no step of the mounts needs to be tried in the midst   *)
(* of their start or stop, nor their stop in the midst of the mounts.      *)
(***************************************************************************)
EXTENDS NodeVolume

\* An action constraint.  The others get to serve in the end, so it delays the
\* steps that fairness asks for and forbids none; that they stop only before the
\* first pod comes forbids a step that nobody is bound to take.
OthersServe ==
  /\ mountVars' # mountVars => \A n \in Nodes \ {Here} : Serving(n)
  /\ \A n \in Nodes \ {Here} :
       phase'[n] # phase[n] => \A p \in Pods : pod[p] = "absent"
=============================================================================
