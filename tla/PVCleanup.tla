------------------------------ MODULE PVCleanup ------------------------------
(***************************************************************************)
(* PVCleanupReconciler of the cluster manager: it removes the finalizers   *)
(* of a Released PV whose hostname topology names no available node.       *)
(*                                                                         *)
(* Its cache is not modelled: Released, the topology and the deletion      *)
(* timestamp are never taken back, so an old version only makes Reconcile  *)
(* run later or issue its delete request twice.                            *)
(***************************************************************************)
EXTENDS Cluster

VARIABLE cleanup   \* progress of Reconcile

\* Mutant: any Ready node will do.
AvailableAny(n) == registered \cap up # {}

\* The hostname is that of a Node object in Ready condition.
Available(n) == n \in registered \cap up

\* Mutant: the phase is not looked at.
NeedsFinalizerRemovalAnyPhase(pv) ==
  pv.affinity # None /\ ~Available(pv.affinity)

\* The conditions under which Reconcile acts on the PV.
NeedsFinalizerRemoval(pv) ==
  /\ pv.phase = "Released"
  /\ pv.affinity # None
  /\ ~Available(pv.affinity)

\* Reconcile up to its decision.  It runs for every event of a Released PV
\* and for the informer's resyncs, so at any time.
PVCleanupRead ==
  /\ cleanup = "idle"
  /\ NeedsFinalizerRemoval(Current)
  /\ cleanup' = IF Current.deleting THEN "finalize" ELSE "delete"
  /\ UNCHANGED clusterVars

\* A lookup of the Node that fails counts as a node that is not available.
PVCleanupMisread ==
  /\ cleanup = "idle"
  /\ Current.phase = "Released" /\ Current.affinity # None
  /\ faults < MaxFaults
  /\ faults' = faults + 1
  /\ cleanup' = IF Current.deleting THEN "finalize" ELSE "delete"
  /\ UNCHANGED <<apiVars, diskVars, up, registered>>

\* Delete sets the deletion timestamp; the finalizers keep the object.
PVCleanupDelete ==
  /\ cleanup = "delete"
  /\ IF Current.phase = "Absent" \/ Current.deleting
     THEN UNCHANGED hist
     ELSE Publish([Current EXCEPT !.deleting = TRUE])
  /\ cleanup' = "idle"
  /\ UNCHANGED <<seen, diskVars, nodeVars>>

\* The patch drops both finalizers, and the object goes; NotFound is success.
PVCleanupFinalize ==
  /\ cleanup = "finalize"
  /\ IF Current.phase = "Absent" THEN UNCHANGED hist ELSE Publish(NoPV)
  /\ cleanup' = "idle"
  /\ UNCHANGED <<seen, diskVars, nodeVars>>

PVCleanupNext ==
  PVCleanupRead \/ PVCleanupMisread \/ PVCleanupDelete \/ PVCleanupFinalize

PVCleanupInit == cleanup = "idle"

PVCleanupTypeOK == cleanup \in {"idle", "delete", "finalize"}
=============================================================================
