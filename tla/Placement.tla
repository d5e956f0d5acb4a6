----------------------------- MODULE Placement -----------------------------
(***************************************************************************)
(* Where a volume lives: the controller and node servers, the two          *)
(* collectors of every node and the manager's PV cleanup composed over one *)
(* PV object, with driver restarts and node failures.                      *)
(***************************************************************************)
EXTENDS ControllerServer, NodeServer, FailoverReconciler, OrphanScanner, PVCleanup

vars == <<clusterVars, pending, responses, del, stage, queued, fo, scan, cleanup>>

driverVars == <<pending, responses, del, stage, queued, fo, scan>>

-----------------------------------------------------------------------------
(* Faults *)

\* Everything the driver process on n holds in memory is lost.
DriverStops(n) ==
  /\ ControllerRestart(n)
  /\ NodeServerRestart(n)
  /\ FailoverRestart(n)
  /\ ScannerRestart(n)

\* The informer's first list after a start is no older than what n had seen.
Relist(n) == \E k \in seen[n]..Len(hist) : seen' = [seen EXCEPT ![n] = k]

\* The driver pod restarts; pods and mounts of the node stay.
DriverRestart(n) ==
  /\ n \in up
  /\ faults < MaxFaults
  /\ faults' = faults + 1
  /\ DriverStops(n)
  /\ Relist(n)
  /\ UNCHANGED <<hist, diskVars, up, registered, pending, cleanup>>

\* The node stops: its pods and mounts are gone, its disks are not, nor is the
\* staging directory.
NodeFail(n) ==
  /\ n \in up
  /\ faults < MaxFaults
  /\ faults' = faults + 1
  /\ up' = up \ {n}
  /\ mounts' = mounts \ {n}
  /\ pod' = [pod EXCEPT ![n] = "none"]
  /\ hasty' = hasty \ {n}
  /\ del' = [del EXCEPT ![n] = "idle"]
  /\ responses' = {r \in responses : n \notin {r.affinity, r.initial}}
  /\ stage' = [stage EXCEPT ![n] = "idle"]
  /\ FailoverRestart(n)
  /\ ScannerRestart(n)
  /\ UNCHANGED <<apiVars, lvs, dirs, registered, pending, cleanup>>

\* The Node object of a stopped node is deleted.
NodeDeregister(n) ==
  /\ n \in registered \ up
  /\ registered' = registered \ {n}
  /\ UNCHANGED <<apiVars, diskVars, up, faults, driverVars, cleanup>>

\* The node returns, with its local disks as they were or blank.
NodeRecover(n) ==
  /\ n \notin up
  /\ up' = up \cup {n}
  /\ registered' = registered \cup {n}
  /\ lvs' \in {lvs, lvs \ {n}}
  /\ Relist(n)
  /\ UNCHANGED <<hist, mounts, dirs, pod, hasty, faults, driverVars, cleanup>>

FaultNext ==
  \E n \in Nodes : \/ DriverRestart(n) \/ NodeFail(n)
                   \/ NodeDeregister(n) \/ NodeRecover(n)

-----------------------------------------------------------------------------
Init ==
  /\ ClusterInit
  /\ ControllerInit
  /\ NodeServerInit
  /\ FailoverInit
  /\ ScannerInit
  /\ PVCleanupInit

Next ==
  \/ ControllerNext /\ UNCHANGED <<stage, queued, fo, scan, cleanup>>
  \/ NodeServerNext /\ UNCHANGED <<pending, responses, del, queued, fo, scan, cleanup>>
  \/ FailoverNext /\ UNCHANGED <<pending, responses, del, stage, scan, cleanup>>
  \/ ScannerNext /\ UNCHANGED <<pending, responses, del, stage, queued, fo, cleanup>>
  \/ PVCleanupNext /\ UNCHANGED driverVars
  \/ FaultNext

Spec == Init /\ [][Next]_vars

\* Scheduling the code guarantees: informers catch up, a workqueue hands out
\* what it holds, the scanner's ticker fires, the provisioner retries a
\* deletion until it succeeds, and a handler once started runs to its end.
\* Staging, pods and claims are the users' doing and get no fairness.
InformerFairness(n) ==
  WF_vars(Deliver(n) /\ UNCHANGED <<pending, responses, del, stage, scan, cleanup>>)

FailoverFairness(n) ==
  WF_vars((FailoverRead(n) \/ FailoverUnmount(n) \/ FailoverRemoveDir(n)
             \/ FailoverDelete(n))
            /\ UNCHANGED <<pending, responses, del, stage, scan, cleanup>>)

ScannerFairness(n) ==
  WF_vars((ScanList(n) \/ ScanCheck(n) \/ ScanUnmount(n) \/ ScanRemoveDir(n)
             \/ ScanDelete(n))
            /\ UNCHANGED <<pending, responses, del, stage, queued, fo, cleanup>>)

DeleteFairness(n) ==
  WF_vars((DeleteVolumeCheck(n) \/ DeleteVolumeUnmount(n)
             \/ DeleteVolumeRemoveDir(n) \/ DeleteVolumeRemove(n) \/ DeletePV(n))
            /\ UNCHANGED <<stage, queued, fo, scan, cleanup>>)

CleanupFairness ==
  WF_vars((PVCleanupRead \/ PVCleanupDelete \/ PVCleanupFinalize)
            /\ UNCHANGED driverVars)

Fairness ==
  /\ \A n \in Nodes : /\ InformerFairness(n) /\ FailoverFairness(n)
                      /\ ScannerFairness(n) /\ DeleteFairness(n)
  /\ CleanupFairness

FairSpec == Spec /\ Fairness

-----------------------------------------------------------------------------
(* Properties *)

\* Every variable keeps its type; in particular no cache is ever ahead of the
\* API server and no collector holds a version that was never published.
TypeOK ==
  /\ ClusterTypeOK
  /\ ControllerTypeOK
  /\ NodeServerTypeOK
  /\ FailoverTypeOK
  /\ ScannerTypeOK
  /\ PVCleanupTypeOK

\* No version of the PV has ever named a node other than n.
Settled(n) == \A k \in 1..Len(hist) : ~HasNodeAnnotationMismatch(hist[k], n)

\* While no version of the PV has named another node, the failover reconciler
\* of n never sets out to delete the volume, and the orphan scanner of n never
\* takes it for misplaced: not on an old cached version, not after a restart,
\* not because the PV names no node at all.  (What remains is a scan that
\* found no PV: the window between lvcreate in CreateVolume and the PV
\* reaching the scanner's cache.)
SettledVolumeNotCollected ==
  \A n \in Nodes : Settled(n) => fo[n] = "idle" /\ scan[n].reason # "mismatch"

\* A pod is given its volume: NodePublishVolume binds the staging directory
\* without looking whether anything is mounted on it, and DeleteVolume, the
\* failover reconciler and the orphan scanner unmount it, and remove directory
\* and device, in steps of their own.  Even so, on a node that every version of
\* the PV agrees to, no pod finds a bare directory or loses the volume before
\* its container starts, whatever fails, restarts or is retried, unless a scan
\* that had found no PV has gone on to act after the PV was saved.
SettledPodSeesVolume ==
  \A n \in Nodes : pod[n] = "bare" /\ Settled(n) => n \in hasty

\* The PV of a claim in use is never deleted: neither a DeleteVolume that
\* answers late or from an old cache entry nor the manager's cleanup, which
\* decides and acts in two steps, takes away a PV that is not Released.
BoundPVKept ==
  [][Current.phase = "Bound" => Current'.phase # "Absent"]_vars

\* The inductive invariant behind the three properties above.  With them: pods
\* are those of a bound claim, on nodes where kubelet has the volume for staged;
\* there it is mounted, as long as nobody has cause to unmount it; a claim that
\* waits is not staged; and no deletion of the PV (DeleteVolume, the
\* provisioner, the manager's cleanup) is under way while a claim waits for the
\* volume or has it.
PodsOfBoundClaim ==
  \A n \in Nodes : pod[n] # "none" => Current.phase = "Bound" /\ stage[n] = "staged"

StagedIsMounted ==
  \A n \in Nodes :
    stage[n] = "staged" /\ ~Block /\ Current.phase = "Bound" /\ Settled(n)
    => n \in mounts \cup hasty

NoDeletionUnderWay == cleanup = "idle" /\ \A n \in Nodes : del[n] = "idle"

DeletionsAfterRelease ==
  /\ responses # {} => pending
  /\ pending => Current.phase = "Absent" /\ \A n \in Nodes : stage[n] = "idle"
  /\ pending \/ Current.phase = "Bound" => NoDeletionUnderWay

PlacementInv ==
  /\ TypeOK
  /\ SettledPodSeesVolume
  /\ SettledVolumeNotCollected
  /\ PodsOfBoundClaim
  /\ StagedIsMounted
  /\ DeletionsAfterRelease

\* Logical volumes do not leak: again and again, a running node holds the
\* volume only if a pod uses it, the PV names the node, or its claim still
\* waits.  So what a move, a lost answer, a withdrawn claim, a restart or a
\* premature deletion of the PV leaves behind is removed.  (The collectors
\* leave alone the logical volumes of a PV with hostname topology.)
HeldForAReason(n) ==
  \/ n \notin lvs \cap up
  \/ pod[n] \in {"bound", "running"}
  \/ SelectedNode(Current) = n
  \/ Current.affinity # None
  \/ pending

NoLeak == \A n \in Nodes : []<>HeldForAReason(n)

\* A released PV does not stay for ever, unless the node it names is stopped
\* but still registered, or no node runs.
ReleasedPVGoes ==
  []<>(\/ Current.phase # "Released"
       \/ Owner(Current) \in registered \ up
       \/ up = {})

-----------------------------------------------------------------------------
(* What the documentation says and the code does not always do *)

\* "Deletes LVM logical volumes that shouldn't be on the current node"
\* (internal/gc/README.md): no collector removes the logical volume of the
\* node that the PV names.
CollectorActs(n) ==
  \/ fo[n] = "delete" /\ fo'[n] = "idle"
  \/ scan[n].pc = "delete" /\ scan'[n].pc = "idle"

CollectorSparesSelectedNode ==
  [][\A n \in Nodes :
       n \in lvs /\ n \notin lvs' /\ CollectorActs(n) => SelectedNode(Current) # n]_vars

\* "Only the instance on the selected node performs the actual LVM deletion"
\* (docs/design/pv-recovery.md): DeleteVolume removes the logical volume of n
\* only while the PV names n.
OnlySelectedNodeDeletes ==
  [][\A n \in Nodes :
       del[n] = "remove" /\ n \in lvs /\ n \notin lvs'
       => SelectedNode(Current) \in {n, None}]_vars
=============================================================================
