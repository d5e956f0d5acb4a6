------------------------- MODULE FailoverReconciler -------------------------
(***************************************************************************)
(* PVFailoverReconciler, the event-driven collector of each node: the PV   *)
(* informer that feeds it, its workqueue, and Reconcile in the steps       *)
(* between which a stage or another node can run.                          *)
(***************************************************************************)
EXTENDS Cluster

CONSTANT EnableLVGarbageCollection   \* the flag --enable-lv-garbage-collection

ASSUME FailoverFlagAssumption == EnableLVGarbageCollection \in BOOLEAN

VARIABLES queued,   \* nodes whose workqueue holds the PV
          fo        \* fo[n]: progress of Reconcile on node n

failoverVars == <<queued, fo>>

-----------------------------------------------------------------------------
\* The predicate on update events: the annotation has moved away from n.
MovedAway(old, new, n) ==
  /\ old.phase # "Absent" /\ new.phase # "Absent"
  /\ new.selected # None
  /\ SelectedNode(old) # new.selected
  /\ SelectedNode(old) = n

\* The informer of node n catches up to a newer version.  A watch delivers
\* every version; a relist may skip some.
Deliver(n) ==
  /\ n \in up
  /\ \E k \in (seen[n] + 1)..Len(hist) :
       /\ seen' = [seen EXCEPT ![n] = k]
       /\ queued' = IF EnableLVGarbageCollection /\ MovedAway(View(n), hist[k], n)
                    THEN queued \cup {n} ELSE queued
  /\ UNCHANGED <<hist, diskVars, nodeVars, fo>>

\* Reconcile up to its decision, on the cached PV.
FailoverShouldDelete(pv, n) ==
  /\ pv.phase = "Bound"
  /\ ~pv.deleting
  /\ HasNodeAnnotationMismatch(pv, n)

FailoverRead(n) ==
  /\ n \in queued
  /\ fo[n] = "idle"
  /\ queued' = queued \ {n}
  /\ fo' = [fo EXCEPT ![n] = IF FailoverShouldDelete(View(n), n)
                             THEN "unmount" ELSE "idle"]
  /\ UNCHANGED clusterVars

\* A failed unmount is logged and the deletion is tried all the same.
FailoverUnmount(n) ==
  /\ fo[n] = "unmount"
  /\ \E ok \in BOOLEAN :
       /\ CleanupUnmount(n, ok)
       /\ fo' = [fo EXCEPT ![n] = IF ok THEN AfterUnmount(n, "delete") ELSE "delete"]
  /\ UNCHANGED <<apiVars, lvs, dirs, hasty, nodeVars, queued>>

FailoverRemoveDir(n) ==
  /\ fo[n] = "rmdir"
  /\ \E ok \in BOOLEAN, next \in {"delete", "unmount"} :
       /\ CleanupRemoveDir(n, ok)
       /\ ok => next = "delete"
       /\ fo' = [fo EXCEPT ![n] = next]
  /\ UNCHANGED <<apiVars, lvs, mounts, pod, hasty, nodeVars, queued>>

\* lvremove once; on an error the request goes back to the workqueue.
FailoverDelete(n) ==
  /\ fo[n] = "delete"
  /\ \/ /\ n \in lvs => LVRemovable(n)
        /\ RemoveLV(n)
        /\ UNCHANGED queued
     \/ /\ n \in lvs /\ ~LVRemovable(n)
        /\ queued' = queued \cup {n}
        /\ UNCHANGED <<lvs, pod>>
  /\ fo' = [fo EXCEPT ![n] = "idle"]
  /\ UNCHANGED <<apiVars, mounts, dirs, hasty, nodeVars>>

FailoverNext ==
  \E n \in Nodes : \/ Deliver(n) \/ FailoverRead(n) \/ FailoverUnmount(n)
                   \/ FailoverRemoveDir(n) \/ FailoverDelete(n)

FailoverInit ==
  /\ queued = {}
  /\ fo = [n \in Nodes |-> "idle"]

FailoverTypeOK ==
  /\ queued \subseteq Nodes
  /\ fo \in [Nodes -> {"idle", "unmount", "rmdir", "delete"}]

\* A restart loses the workqueue; the new informer's first list raises
\* create events only, which the predicate ignores.
FailoverRestart(n) ==
  /\ queued' = queued \ {n}
  /\ fo' = [fo EXCEPT ![n] = "idle"]
=============================================================================
