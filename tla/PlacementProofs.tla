-------------------------- MODULE PlacementProofs --------------------------
(***************************************************************************)
(* Theorems about Placement, for every set of nodes, every setting of the  *)
(* flags and every bound on moves and faults.                              *)
(***************************************************************************)
EXTENDS Placement, TLAPS

USE NoneAssumption, AffinityFlagAssumption, BoundAssumption, MetadataFlagAssumption,
    BlockAssumption, FailoverFlagAssumption, ScannerFlagAssumption

-----------------------------------------------------------------------------
(* The PV object *)

\* The newest and the cached version of the PV are PVs.
LEMMA VersionsArePVs ==
  ASSUME ClusterTypeOK
  PROVE  /\ Current \in PV
         /\ \A n \in Nodes : View(n) \in PV
BY DEF ClusterTypeOK, Current, View

\* Publishing a version adds it to the history, keeps the older ones where
\* they are, and leaves every cached version index valid.
LEMMA PublishKeepsHistory ==
  ASSUME ClusterTypeOK, NEW pv \in PV, Publish(pv)
  PROVE  /\ hist' \in Seq(PV)
         /\ Len(hist') = Len(hist) + 1
         /\ Len(hist') >= 1
         /\ \A k \in 1..Len(hist) : hist'[k] = hist[k]
         /\ hist'[Len(hist')] = pv
         /\ 1..Len(hist) \subseteq 1..Len(hist')
BY DEF ClusterTypeOK, Publish

-----------------------------------------------------------------------------
(* Type correctness, one lemma per component *)

\* What LVM and the mounter leave behind keeps its type.
LEMMA UnmountTypes ==
  ASSUME ClusterTypeOK, NEW n \in Nodes
  PROVE  /\ \A ok : CleanupUnmount(n, ok) =>
              mounts' \subseteq Nodes /\ pod' \in [Nodes -> PodStates]
         /\ \A ok : CleanupRemoveDir(n, ok) => dirs' \subseteq Nodes
         /\ RemoveLV(n) => lvs' \subseteq Nodes /\ pod' \in [Nodes -> PodStates]
BY DEF ClusterTypeOK, CleanupUnmount, CleanupRemoveDir, RemoveLV, PodStates

LEMMA ControllerTypes ==
  ASSUME TypeOK, ControllerNext, UNCHANGED <<stage, queued, fo, scan, cleanup>>
  PROVE  TypeOK'
<1> USE DEF TypeOK, ClusterTypeOK, ControllerTypeOK, NodeServerTypeOK,
            FailoverTypeOK, ScannerTypeOK, PVCleanupTypeOK
<1>1. CASE \E n \in Nodes : CreateVolume(n)
  BY <1>1 DEF CreateVolume, CreateVolumeResponse, Response, MaybeNode, apiVars, nodeVars
<1>2. CASE \E r \in responses : SaveVolume(r)
  <2>1. PICK r \in responses : SaveVolume(r)
    BY <1>2, Zenon
  <2> DEFINE pv == [NoPV EXCEPT !.phase = "Bound", !.affinity = r.affinity,
                                !.initial = r.initial]
  <2>2. pv \in PV
    BY Zenon DEF PV, NoPV, MaybeNode, Response
  <2>3. Publish(pv)
    BY <2>1, Zenon DEF SaveVolume
  <2> QED
    BY <2>1, <2>2, <2>3, PublishKeepsHistory, Zenon DEF SaveVolume, diskVars, nodeVars
<1>3. CASE WithdrawClaim
  BY <1>3, Zenon DEF WithdrawClaim, clusterVars
<1>4. ASSUME NEW n \in Nodes, DeleteVolumeCheck(n)
      PROVE  TypeOK'
  BY <1>4, Zenon DEF DeleteVolumeCheck, DeleteVolumeVerdict, clusterVars
<1>5. ASSUME NEW n \in Nodes, DeleteVolumeUnmount(n)
      PROVE  TypeOK'
  <2>1. mounts' \subseteq Nodes /\ pod' \in [Nodes -> PodStates]
    BY <1>5, UnmountTypes, Zenon DEF DeleteVolumeUnmount
  <2>2. ControllerTypeOK'
    BY <1>5, Zenon DEF DeleteVolumeUnmount, AfterUnmount
  <2> QED
    BY <1>5, <2>1, <2>2, Zenon DEF DeleteVolumeUnmount, apiVars, nodeVars
<1>8. ASSUME NEW n \in Nodes, DeleteVolumeRemoveDir(n)
      PROVE  TypeOK'
  <2>1. dirs' \subseteq Nodes
    BY <1>8, UnmountTypes, Zenon DEF DeleteVolumeRemoveDir
  <2>2. ControllerTypeOK'
    BY <1>8, Zenon DEF DeleteVolumeRemoveDir
  <2> QED
    BY <1>8, <2>1, <2>2, Zenon DEF DeleteVolumeRemoveDir, apiVars, nodeVars
<1>6. ASSUME NEW n \in Nodes, DeleteVolumeRemove(n)
      PROVE  TypeOK'
  <2>1. lvs' \subseteq Nodes /\ pod' \in [Nodes -> PodStates]
    BY <1>6, UnmountTypes, Zenon DEF DeleteVolumeRemove
  <2>2. ControllerTypeOK'
    BY <1>6, Zenon DEF DeleteVolumeRemove
  <2> QED
    BY <1>6, <2>1, <2>2, Zenon DEF DeleteVolumeRemove, apiVars, nodeVars
<1>7. ASSUME NEW n \in Nodes, DeletePV(n)
      PROVE  TypeOK'
  <2>1. NoPV \in PV
    BY Zenon DEF PV, NoPV, MaybeNode
  <2>2. CASE UNCHANGED hist
    BY <1>7, <2>2, Zenon DEF DeletePV, diskVars, nodeVars
  <2>3. CASE Publish(NoPV)
    BY <1>7, <2>1, <2>3, PublishKeepsHistory, Zenon DEF DeletePV, diskVars, nodeVars
  <2> QED
    BY <1>7, <2>2, <2>3, Zenon DEF DeletePV
<1> QED
  BY <1>1, <1>2, <1>3, <1>4, <1>5, <1>6, <1>7, <1>8, Zenon DEF ControllerNext

LEMMA NodeServerTypes ==
  ASSUME TypeOK, NodeServerNext,
         UNCHANGED <<pending, responses, del, queued, fo, scan, cleanup>>
  PROVE  TypeOK'
<1> USE DEF TypeOK, ClusterTypeOK, ControllerTypeOK, NodeServerTypeOK,
            FailoverTypeOK, ScannerTypeOK, PVCleanupTypeOK
<1>1. ASSUME NEW n \in Nodes, NodeStageRead(n)
      PROVE  TypeOK'
  BY <1>1, Zenon DEF NodeStageRead, StageAt, clusterVars
<1>2. ASSUME NEW n \in Nodes, NodeStagePatch(n)
      PROVE  TypeOK'
  <2>1. [Current EXCEPT !.selected = n] \in PV
    BY VersionsArePVs, Zenon DEF PV, MaybeNode
  <2>2. CASE UNCHANGED hist
    BY <1>2, <2>2, Zenon DEF NodeStagePatch, StageAt, diskVars, nodeVars
  <2>3. CASE Publish([Current EXCEPT !.selected = n])
    BY <1>2, <2>1, <2>3, PublishKeepsHistory, Zenon
    DEF NodeStagePatch, StageAt, diskVars, nodeVars
  <2> QED
    BY <1>2, <2>2, <2>3, Zenon DEF NodeStagePatch
<1>3. ASSUME NEW n \in Nodes, NodeStageEnsure(n) \/ NodeStageMount(n)
      PROVE  TypeOK'
  BY <1>3, Zenon DEF NodeStageEnsure, NodeStageMount, StageAt, apiVars, nodeVars
<1>4. ASSUME NEW n \in Nodes, NodeStageFail(n) \/ NodeUnstageVolume(n)
      PROVE  TypeOK'
  BY <1>4, Zenon DEF NodeStageFail, NodeUnstageVolume, StageAt, apiVars, nodeVars, clusterVars
<1>6. ASSUME NEW n \in Nodes, PodPublish(n) \/ PodStart(n) \/ PodStop(n)
      PROVE  TypeOK'
  BY <1>6, Zenon DEF PodPublish, PodStart, PodStop, SetPod, PodStates, apiVars, nodeVars
<1>5. CASE ReleaseClaim
  <2>1. [Current EXCEPT !.phase = "Released"] \in PV
    BY VersionsArePVs, Zenon DEF PV
  <2> QED
    BY <1>5, <2>1, PublishKeepsHistory, Zenon DEF ReleaseClaim, diskVars, nodeVars
<1> QED
  BY <1>1, <1>2, <1>3, <1>4, <1>5, <1>6, Zenon DEF NodeServerNext

LEMMA FailoverTypes ==
  ASSUME TypeOK, FailoverNext,
         UNCHANGED <<pending, responses, del, stage, scan, cleanup>>
  PROVE  TypeOK'
<1> USE DEF TypeOK, ClusterTypeOK, ControllerTypeOK, NodeServerTypeOK,
            FailoverTypeOK, ScannerTypeOK, PVCleanupTypeOK
<1>1. ASSUME NEW n \in Nodes, Deliver(n)
      PROVE  TypeOK'
  BY <1>1 DEF Deliver, diskVars, nodeVars
<1>2. ASSUME NEW n \in Nodes, FailoverRead(n)
      PROVE  TypeOK'
  BY <1>2, Zenon DEF FailoverRead, clusterVars
<1>3. ASSUME NEW n \in Nodes, FailoverUnmount(n)
      PROVE  TypeOK'
  <2>1. mounts' \subseteq Nodes /\ pod' \in [Nodes -> PodStates]
    BY <1>3, UnmountTypes, Zenon DEF FailoverUnmount
  <2>2. FailoverTypeOK'
    BY <1>3, Zenon DEF FailoverUnmount, AfterUnmount
  <2> QED
    BY <1>3, <2>1, <2>2, Zenon DEF FailoverUnmount, apiVars, nodeVars
<1>4. ASSUME NEW n \in Nodes, FailoverRemoveDir(n)
      PROVE  TypeOK'
  <2>1. dirs' \subseteq Nodes
    BY <1>4, UnmountTypes, Zenon DEF FailoverRemoveDir
  <2>2. FailoverTypeOK'
    BY <1>4, Zenon DEF FailoverRemoveDir
  <2> QED
    BY <1>4, <2>1, <2>2, Zenon DEF FailoverRemoveDir, apiVars, nodeVars
<1>5. ASSUME NEW n \in Nodes, FailoverDelete(n)
      PROVE  TypeOK'
  <2>1. lvs' \subseteq Nodes /\ pod' \in [Nodes -> PodStates]
    BY <1>5, UnmountTypes, Zenon DEF FailoverDelete
  <2>2. FailoverTypeOK'
    BY <1>5, Zenon DEF FailoverDelete
  <2> QED
    BY <1>5, <2>1, <2>2, Zenon DEF FailoverDelete, apiVars, nodeVars
<1> QED
  BY <1>1, <1>2, <1>3, <1>4, <1>5, Zenon DEF FailoverNext

\* A scan that has found an orphan keeps its reason from step to step.
LEMMA ScanMovesOn ==
  ASSUME ScannerTypeOK, NEW n \in Nodes, scan[n].pc \in {"unmount", "rmdir"},
         NEW pc \in {"unmount", "rmdir", "delete"}, scan' = [scan EXCEPT ![n].pc = pc]
  PROVE  ScannerTypeOK'
<1> USE DEF ScannerTypeOK, ScanState
<1>1. scan[n] \in [pc : {"unmount", "rmdir", "delete"}, reason : {"noPV", "mismatch"}]
  BY Zenon
<1>2. [scan[n] EXCEPT !.pc = pc] \in ScanState
  BY <1>1, Zenon
<1> QED
  BY <1>2, Zenon

LEMMA ScannerTypes ==
  ASSUME TypeOK, ScannerNext,
         UNCHANGED <<pending, responses, del, stage, queued, fo, cleanup>>
  PROVE  TypeOK'
<1> USE DEF TypeOK, ClusterTypeOK, ControllerTypeOK, NodeServerTypeOK,
            FailoverTypeOK, ScannerTypeOK, PVCleanupTypeOK, ScanState
<1>1. ASSUME NEW n \in Nodes, ScanList(n)
      PROVE  TypeOK'
  BY <1>1, Zenon DEF ScanList, clusterVars
<1>2. ASSUME NEW n \in Nodes, ScanCheck(n)
      PROVE  TypeOK'
  BY <1>2, Zenon DEF ScanCheck, ShouldCleanupVolume, clusterVars
<1>3. ASSUME NEW n \in Nodes, ScanUnmount(n)
      PROVE  TypeOK'
  <2>1. mounts' \subseteq Nodes /\ pod' \in [Nodes -> PodStates]
    BY <1>3, UnmountTypes, Zenon DEF ScanUnmount
  <2>2. PICK pc \in {"rmdir", "delete"} : scan' = [scan EXCEPT ![n].pc = pc]
    BY <1>3, Zenon DEF ScanUnmount, AfterUnmount
  <2>3. ScannerTypeOK'
    BY <1>3, <2>2, ScanMovesOn, Zenon DEF ScanUnmount
  <2> QED
    BY <1>3, <2>1, <2>3, Zenon DEF ScanUnmount, NoteHaste, apiVars, nodeVars
<1>5. ASSUME NEW n \in Nodes, ScanRemoveDir(n)
      PROVE  TypeOK'
  <2>1. dirs' \subseteq Nodes
    BY <1>5, UnmountTypes, Zenon DEF ScanRemoveDir
  <2>2. ScannerTypeOK'
    <3>1. PICK pc \in {"unmount", "delete"} : scan' = [scan EXCEPT ![n].pc = pc]
      BY <1>5, Zenon DEF ScanRemoveDir
    <3> QED
      BY <1>5, <3>1, ScanMovesOn, Zenon DEF ScanRemoveDir
  <2> QED
    BY <1>5, <2>1, <2>2, Zenon DEF ScanRemoveDir, apiVars, nodeVars
<1>4. ASSUME NEW n \in Nodes, ScanDelete(n)
      PROVE  TypeOK'
  BY <1>4, UnmountTypes, Zenon DEF ScanDelete, ScanIdle, NoteHaste, apiVars, nodeVars
<1> QED
  BY <1>1, <1>2, <1>3, <1>4, <1>5, Zenon DEF ScannerNext

LEMMA PVCleanupTypes ==
  ASSUME TypeOK, PVCleanupNext, UNCHANGED driverVars
  PROVE  TypeOK'
<1> USE DEF TypeOK, ClusterTypeOK, ControllerTypeOK, NodeServerTypeOK,
            FailoverTypeOK, ScannerTypeOK, PVCleanupTypeOK, driverVars
<1>1. [Current EXCEPT !.deleting = TRUE] \in PV /\ NoPV \in PV
  BY VersionsArePVs, Zenon DEF PV, NoPV, MaybeNode
<1>2. CASE PVCleanupRead
  BY <1>2, Zenon DEF PVCleanupRead, clusterVars
<1>6. CASE PVCleanupMisread
  BY <1>6 DEF PVCleanupMisread, apiVars, diskVars
<1>3. CASE UNCHANGED hist /\ (PVCleanupDelete \/ PVCleanupFinalize)
  BY <1>3, Zenon DEF PVCleanupDelete, PVCleanupFinalize, diskVars, nodeVars
<1>4. CASE PVCleanupDelete /\ Publish([Current EXCEPT !.deleting = TRUE])
  BY <1>1, <1>4, PublishKeepsHistory, Zenon DEF PVCleanupDelete, diskVars, nodeVars
<1>5. CASE PVCleanupFinalize /\ Publish(NoPV)
  BY <1>1, <1>5, PublishKeepsHistory, Zenon DEF PVCleanupFinalize, diskVars, nodeVars
<1> QED
  BY <1>2, <1>3, <1>4, <1>5, <1>6, Zenon DEF PVCleanupNext, PVCleanupDelete, PVCleanupFinalize

LEMMA FaultTypes ==
  ASSUME TypeOK, FaultNext
  PROVE  TypeOK'
<1> USE DEF TypeOK, ClusterTypeOK, ControllerTypeOK, NodeServerTypeOK,
            FailoverTypeOK, ScannerTypeOK, PVCleanupTypeOK, ScanState, ScanIdle
<1>1. ASSUME NEW n \in Nodes, DriverRestart(n)
      PROVE  TypeOK'
  BY <1>1 DEF DriverRestart, DriverStops, ControllerRestart, NodeServerRestart,
              FailoverRestart, ScannerRestart, Relist, diskVars
<1>2. ASSUME NEW n \in Nodes, NodeFail(n)
      PROVE  TypeOK'
  BY <1>2 DEF NodeFail, FailoverRestart, ScannerRestart, apiVars, PodStates
<1>3. ASSUME NEW n \in Nodes, NodeDeregister(n)
      PROVE  TypeOK'
  BY <1>3, Zenon DEF NodeDeregister, apiVars, diskVars, driverVars
<1>4. ASSUME NEW n \in Nodes, NodeRecover(n)
      PROVE  TypeOK'
  BY <1>4 DEF NodeRecover, Relist, driverVars
<1> QED
  BY <1>1, <1>2, <1>3, <1>4, Zenon DEF FaultNext

\* Every reachable state is well typed: in particular no cache index ever
\* points past the newest version of the PV.
THEOREM TypeCorrect == Spec => []TypeOK
<1>1. Init => TypeOK
  <2> NoPV \in PV
    BY Zenon DEF PV, NoPV, MaybeNode
  <2> QED
    BY DEF Init, ClusterInit, ControllerInit, NodeServerInit, FailoverInit,
           ScannerInit, PVCleanupInit, TypeOK, ClusterTypeOK, ControllerTypeOK,
           NodeServerTypeOK, FailoverTypeOK, ScannerTypeOK, PVCleanupTypeOK,
           ScanState, ScanIdle, PodStates
<1>2. TypeOK /\ [Next]_vars => TypeOK'
  <2> SUFFICES ASSUME TypeOK, [Next]_vars
               PROVE  TypeOK'
    BY Zenon
  <2>1. CASE UNCHANGED vars
    BY <2>1, Zenon DEF vars, clusterVars, TypeOK, ClusterTypeOK, ControllerTypeOK,
                NodeServerTypeOK, FailoverTypeOK, ScannerTypeOK, PVCleanupTypeOK
  <2> QED
    BY <2>1, ControllerTypes, NodeServerTypes, FailoverTypes, ScannerTypes,
       PVCleanupTypes, FaultTypes, Zenon DEF Next
<1> QED
  BY <1>1, <1>2, PTL DEF Spec
-----------------------------------------------------------------------------
(* What each conjunct of the inductive invariant owes to each component *)

\* A step publishes at most one version of the PV, by one of the writers.
Writes(pv) ==
  \/ \E r \in responses : SaveVolume(r) /\ pv = [NoPV EXCEPT !.phase = "Bound",
                                                 !.affinity = r.affinity,
                                                 !.initial = r.initial]
  \/ (PVCleanupFinalize \/ \E n \in Nodes : DeletePV(n)) /\ pv = NoPV
  \/ \E n \in Nodes : NodeStagePatch(n) /\ pv = [Current EXCEPT !.selected = n]
  \/ ReleaseClaim /\ pv = [Current EXCEPT !.phase = "Released"]
  \/ PVCleanupDelete /\ pv = [Current EXCEPT !.deleting = TRUE]

LEMMA Writers ==
  ASSUME TypeOK, [Next]_vars
  PROVE  UNCHANGED hist \/ \E pv \in PV : Publish(pv) /\ Writes(pv)
<1>0. Current \in PV /\ NoPV \in PV
  BY VersionsArePVs, Zenon DEF TypeOK, PV, NoPV, MaybeNode
<1>1. CASE UNCHANGED vars
  BY <1>1, Zenon DEF vars, clusterVars
<1>2. CASE ControllerNext
  <2>1. ASSUME NEW r \in responses, SaveVolume(r)
        PROVE  \E pv \in PV : Publish(pv) /\ Writes(pv)
    <3> DEFINE pv == [NoPV EXCEPT !.phase = "Bound", !.affinity = r.affinity,
                                  !.initial = r.initial]
    <3>1. pv \in PV
      BY ZenonT(60) DEF PV, NoPV, MaybeNode, Response, TypeOK, ControllerTypeOK
    <3>2. Publish(pv) /\ Writes(pv)
      BY <2>1, ZenonT(60) DEF SaveVolume, Writes
    <3> QED
      BY <3>1, <3>2, Zenon
  <2>2. ASSUME NEW n \in Nodes, DeletePV(n)
        PROVE  UNCHANGED hist \/ \E pv \in PV : Publish(pv) /\ Writes(pv)
    BY <1>0, <2>2, ZenonT(60) DEF DeletePV, Writes
  <2> QED
    BY <1>2, <2>1, <2>2, Zenon DEF ControllerNext, CreateVolume, WithdrawClaim, clusterVars,
       DeleteVolumeCheck, DeleteVolumeUnmount, DeleteVolumeRemoveDir, DeleteVolumeRemove, apiVars
<1>3. CASE NodeServerNext
  <2>1. ASSUME NEW n \in Nodes, NodeStagePatch(n)
        PROVE  UNCHANGED hist \/ \E pv \in PV : Publish(pv) /\ Writes(pv)
    <3>1. [Current EXCEPT !.selected = n] \in PV
      BY <1>0, Zenon DEF PV, MaybeNode
    <3> QED
      BY <2>1, <3>1, ZenonT(60) DEF NodeStagePatch, Writes
  <2>2. CASE ReleaseClaim
    <3>1. [Current EXCEPT !.phase = "Released"] \in PV
      BY <1>0, Zenon DEF PV
    <3> QED
      BY <2>2, <3>1, Zenon DEF ReleaseClaim, Writes
  <2> QED
    BY <1>3, <2>1, <2>2, Zenon DEF NodeServerNext, NodeStageRead, NodeStageEnsure,
       NodeStageMount, NodeStageFail, NodeUnstageVolume, PodPublish, PodStart, PodStop,
       clusterVars, apiVars
<1>4. CASE FailoverNext
  BY <1>4, Zenon DEF FailoverNext, Deliver, FailoverRead, FailoverUnmount, FailoverRemoveDir,
              FailoverDelete,
              clusterVars, apiVars
<1>5. CASE ScannerNext
  BY <1>5, Zenon DEF ScannerNext, ScanList, ScanCheck, ScanUnmount, ScanRemoveDir, ScanDelete,
              clusterVars, apiVars
<1>6. CASE PVCleanupNext
  <2>1. [Current EXCEPT !.deleting = TRUE] \in PV
    BY <1>0, Zenon DEF PV
  <2> QED
    BY <1>0, <1>6, <2>1, Zenon DEF PVCleanupNext, PVCleanupRead, PVCleanupMisread, PVCleanupDelete,
       PVCleanupFinalize, clusterVars, apiVars, Writes
<1>7. CASE FaultNext
  BY <1>7, Zenon DEF FaultNext, DriverRestart, NodeFail, NodeDeregister, NodeRecover, apiVars
<1> QED
  BY <1>1, <1>2, <1>3, <1>4, <1>5, <1>6, <1>7, Zenon DEF Next

\* The history of the PV only grows, so a volume that has moved stays moved.
LEMMA SettledBefore ==
  ASSUME TypeOK, [Next]_vars, NEW n \in Nodes, Settled(n)'
  PROVE  Settled(n)
<1>1. CASE UNCHANGED hist
  BY <1>1, Zenon DEF Settled, HasNodeAnnotationMismatch, SelectedNode
<1>2. ASSUME NEW pv \in PV, Publish(pv)
      PROVE  Settled(n)
  <2>1. \A k \in 1..Len(hist) : k \in 1..Len(hist)' /\ hist'[k] = hist[k]
    BY <1>2, PublishKeepsHistory, Zenon DEF TypeOK
  <2> QED
    BY <2>1, Zenon DEF Settled, HasNodeAnnotationMismatch, SelectedNode
<1> QED
  BY <1>1, <1>2, Writers, Zenon
\* A collector decides on a version in its cache, which is one of the history.
LEMMA SettledStep ==
  ASSUME TypeOK, SettledVolumeNotCollected, [Next]_vars
  PROVE  SettledVolumeNotCollected'
<1> SUFFICES ASSUME NEW n \in Nodes, Settled(n)'
             PROVE  fo'[n] = "idle" /\ scan'[n].reason # "mismatch"
  BY Zenon DEF SettledVolumeNotCollected
<1>1. Settled(n)
  BY SettledBefore, Zenon
<1>2. fo[n] = "idle" /\ scan[n].reason # "mismatch"
  BY <1>1, Zenon DEF SettledVolumeNotCollected
<1>3. ~HasNodeAnnotationMismatch(View(n), n)
  BY <1>1, Zenon DEF Settled, View, TypeOK, ClusterTypeOK
<1>4. CASE UNCHANGED <<fo, scan>>
  BY <1>2, <1>4, Zenon
<1>5. CASE FailoverNext /\ UNCHANGED scan
  BY <1>2, <1>3, <1>5, Zenon DEF FailoverNext, Deliver, FailoverRead, FailoverUnmount,
     FailoverRemoveDir, FailoverDelete, FailoverShouldDelete, TypeOK, FailoverTypeOK
<1>6. CASE ScannerNext /\ UNCHANGED fo
  <2> USE DEF TypeOK, ScannerTypeOK, ScanState
  <2>1. ASSUME NEW m \in Nodes, ScanList(m) \/ ScanUnmount(m) \/ ScanRemoveDir(m)
        PROVE  scan'[n].reason # "mismatch"
    BY <1>2, <2>1, Zenon DEF ScanList, ScanUnmount, ScanRemoveDir
  <2>2. ASSUME NEW m \in Nodes, ScanCheck(m)
        PROVE  scan'[n].reason # "mismatch"
    BY <1>2, <1>3, <2>2, Zenon DEF ScanCheck, ShouldCleanupVolume
  <2>3. ASSUME NEW m \in Nodes, ScanDelete(m)
        PROVE  scan'[n].reason # "mismatch"
    BY <1>2, <2>3, Zenon DEF ScanDelete, ScanIdle
  <2> QED
    BY <1>2, <1>6, <2>1, <2>2, <2>3, Zenon DEF ScannerNext
<1>7. CASE FaultNext
  BY <1>2, <1>7 DEF FaultNext, DriverRestart, NodeFail, NodeDeregister, NodeRecover,
     DriverStops, FailoverRestart, ScannerRestart, ScanIdle, driverVars,
     TypeOK, FailoverTypeOK, ScannerTypeOK
<1> QED
  BY <1>4, <1>5, <1>6, <1>7, Zenon DEF Next, vars, driverVars

\* What the newest version of the PV is after a step.
LEMMA CurrentAfter ==
  ASSUME TypeOK, [Next]_vars
  PROVE  \/ Current' = Current /\ UNCHANGED hist
         \/ \E pv \in PV : Current' = pv /\ Writes(pv)
BY Writers, PublishKeepsHistory, Zenon DEF TypeOK, Current

\* Deletions start on a Released PV, and no step makes a PV Bound again.
LEMMA DeletionsStep ==
  ASSUME TypeOK, DeletionsAfterRelease, [Next]_vars
  PROVE  DeletionsAfterRelease'
<1> USE DEF DeletionsAfterRelease, NoDeletionUnderWay
<1>0. Current \in PV /\ NoPV.phase = "Absent"
  BY VersionsArePVs, Zenon DEF TypeOK, NoPV
<1>1. CASE UNCHANGED vars
  BY <1>1, Zenon DEF vars, clusterVars, Current
<1>2. CASE ControllerNext /\ UNCHANGED <<stage, cleanup>>
  <2> USE DEF TypeOK, ControllerTypeOK
  <2>1. ASSUME NEW n \in Nodes, CreateVolume(n)
        PROVE  DeletionsAfterRelease'
    BY <1>2, <2>1, Zenon DEF CreateVolume, apiVars, Current
  <2>2. ASSUME NEW r \in responses, SaveVolume(r)
        PROVE  DeletionsAfterRelease'
    BY <1>2, <2>2, Zenon DEF SaveVolume
  <2>3. CASE WithdrawClaim
    BY <1>2, <2>3, Zenon DEF WithdrawClaim, clusterVars, Current
  <2>4. ASSUME NEW n \in Nodes, DeleteVolumeCheck(n)
        PROVE  DeletionsAfterRelease'
    BY <1>2, <2>4, Zenon DEF DeleteVolumeCheck, OfferedForDeletion, clusterVars, Current
  <2>5. ASSUME NEW n \in Nodes,
               DeleteVolumeUnmount(n) \/ DeleteVolumeRemoveDir(n) \/ DeleteVolumeRemove(n)
        PROVE  DeletionsAfterRelease'
    <3>1. del[n] # "idle" /\ UNCHANGED <<hist, pending, responses>>
      BY <2>5, Zenon DEF DeleteVolumeUnmount, DeleteVolumeRemoveDir, DeleteVolumeRemove, apiVars
    <3> QED
      BY <1>2, <3>1, Zenon DEF Current
  <2>6. ASSUME NEW n \in Nodes, DeletePV(n)
        PROVE  DeletionsAfterRelease'
    <3>1. ~pending /\ Current.phase # "Bound" /\ ~pending' /\ responses' = {}
      BY <2>6, Zenon DEF DeletePV
    <3>2. Current'.phase # "Bound"
      <4>1. CASE UNCHANGED hist
        BY <3>1, <4>1, Zenon DEF Current
      <4>2. CASE Publish(NoPV)
        BY <1>0, <4>2, PublishKeepsHistory, Zenon DEF Current, PV, NoPV, MaybeNode
      <4> QED
        BY <2>6, <4>1, <4>2, Zenon DEF DeletePV
    <3> QED
      BY <3>1, <3>2, Zenon
  <2> QED
    BY <1>2, <2>1, <2>2, <2>3, <2>4, <2>5, <2>6, Zenon DEF ControllerNext
<1>3. CASE NodeServerNext /\ UNCHANGED <<pending, responses, del, cleanup>>
  <2>0. pending => UNCHANGED stage
    <3> SUFFICES ASSUME pending
                 PROVE  UNCHANGED stage
      BY Zenon
    <3>1. Current.phase = "Absent" /\ \A n \in Nodes : stage[n] = "idle"
      BY Zenon
    <3> QED
      BY <1>3, <3>1, Zenon DEF NodeServerNext, NodeStageRead, NodeStagePatch, NodeStageEnsure,
         NodeStageMount, NodeStageFail, NodeUnstageVolume, PodPublish, PodStart, PodStop,
         ReleaseClaim
  <2>1. CASE UNCHANGED hist
    BY <1>3, <2>0, <2>1, Zenon DEF Current
  <2>2. ASSUME NEW n \in Nodes, NodeStagePatch(n), Publish([Current EXCEPT !.selected = n])
        PROVE  DeletionsAfterRelease'
    <3>1. Current'.phase = Current.phase
      BY <1>0, <2>2, PublishKeepsHistory DEF Current, PV, MaybeNode, TypeOK
    <3> QED
      BY <1>3, <2>0, <3>1, Zenon
  <2>3. CASE ReleaseClaim
    <3>1. Current'.phase = "Released" /\ Current.phase = "Bound"
      BY <1>0, <2>3, PublishKeepsHistory DEF ReleaseClaim, Current, PV, TypeOK
    <3> QED
      BY <1>3, <3>1, Zenon
  <2> QED
    BY <1>3, <2>1, <2>2, <2>3, ZenonT(60) DEF NodeServerNext, NodeStageRead, NodeStagePatch,
       NodeStageEnsure, NodeStageMount, NodeStageFail, NodeUnstageVolume, PodPublish,
       PodStart, PodStop, clusterVars, apiVars
<1>4. CASE FailoverNext /\ UNCHANGED <<pending, responses, del, stage, cleanup>>
  BY <1>4, Zenon DEF FailoverNext, Deliver, FailoverRead, FailoverUnmount, FailoverRemoveDir,
              FailoverDelete,
              clusterVars, apiVars, Current
<1>5. CASE ScannerNext /\ UNCHANGED <<pending, responses, del, stage, cleanup>>
  BY <1>5, Zenon DEF ScannerNext, ScanList, ScanCheck, ScanUnmount, ScanRemoveDir, ScanDelete,
              clusterVars, apiVars, Current
<1>6. CASE PVCleanupNext /\ UNCHANGED <<pending, responses, del, stage>>
  <2>1. CASE PVCleanupRead
    BY <1>6, <2>1, Zenon DEF PVCleanupRead, NeedsFinalizerRemoval, clusterVars, Current
  <2>5. CASE PVCleanupMisread
    BY <1>6, <2>5, Zenon DEF PVCleanupMisread, apiVars, Current
  <2>2. CASE cleanup # "idle" /\ UNCHANGED hist
    BY <1>6, <2>2, Zenon DEF Current, PVCleanupNext, PVCleanupRead, PVCleanupMisread
  <2>3. CASE PVCleanupDelete /\ Publish([Current EXCEPT !.deleting = TRUE])
    <3> DEFINE pv == [Current EXCEPT !.deleting = TRUE]
    <3>1. pv \in PV /\ pv.phase = Current.phase
      BY <1>0, Zenon DEF PV
    <3>2. Current'.phase = Current.phase
      BY <2>3, <3>1, PublishKeepsHistory, Zenon DEF Current, TypeOK
    <3> QED
      BY <1>6, <2>3, <3>2, Zenon DEF PVCleanupDelete
  <2>4. CASE PVCleanupFinalize /\ Publish(NoPV)
    <3>1. Current'.phase = "Absent"
      BY <1>0, <2>4, PublishKeepsHistory, ZenonT(60) DEF Current, PV, NoPV, MaybeNode, TypeOK
    <3> QED
      BY <1>6, <2>4, <3>1, Zenon DEF PVCleanupFinalize
  <2> QED
    BY <1>6, <2>1, <2>2, <2>3, <2>4, <2>5, Zenon DEF PVCleanupNext, PVCleanupDelete, PVCleanupFinalize
<1>7. CASE FaultNext
  BY <1>7 DEF FaultNext, DriverRestart, NodeFail, NodeDeregister, NodeRecover,
     DriverStops, ControllerRestart, NodeServerRestart, driverVars, apiVars, Current,
     TypeOK, ControllerTypeOK, NodeServerTypeOK
<1> QED
  BY <1>1, <1>2, <1>3, <1>4, <1>5, <1>6, <1>7, Zenon DEF Next, driverVars

\* A PV becomes bound only for a claim that waits.
LEMMA BoundBefore ==
  ASSUME TypeOK, DeletionsAfterRelease, [Next]_vars, Current'.phase = "Bound"
  PROVE  Current.phase = "Bound" \/ pending
<1>1. Current \in PV /\ NoPV.phase = "Absent"
  BY VersionsArePVs, Zenon DEF TypeOK, NoPV
<1>2. ASSUME NEW pv \in PV, Current' = pv, Writes(pv)
      PROVE  Current.phase = "Bound" \/ pending
  <2>1. CASE \E r \in responses : SaveVolume(r)
    BY <2>1, Zenon DEF DeletionsAfterRelease
  <2>2. ASSUME NEW n \in Nodes, pv = [Current EXCEPT !.selected = n]
        PROVE  Current.phase = "Bound"
    BY <1>1, <1>2, <2>2, Zenon DEF PV
  <2>3. CASE pv = [Current EXCEPT !.deleting = TRUE]
    BY <1>1, <1>2, <2>3, Zenon DEF PV
  <2>4. CASE ReleaseClaim
    BY <2>4, Zenon DEF ReleaseClaim
  <2> QED
    BY <1>1, <1>2, <2>1, <2>2, <2>3, <2>4, Zenon DEF Writes
<1> QED
  BY <1>2, CurrentAfter, Zenon

\* Which steps change the staging of a node, publish a pod there, or forget a
\* hasty scan.
LEMMA NodeSteps ==
  ASSUME TypeOK, [Next]_vars, NEW n \in Nodes
  PROVE  /\ stage[n] # "staged" /\ stage'[n] = "staged"
            => NodeStageMount(n) \/ (Block /\ NodeStageEnsure(n))
         /\ stage[n] = "staged" /\ stage'[n] # "staged"
            => NodeUnstageVolume(n) \/ NodeFail(n)
         /\ pod[n] = "none" /\ pod'[n] # "none" => PodPublish(n)
         /\ n \in hasty /\ n \notin hasty'
            => NodeStageMount(n) \/ NodeUnstageVolume(n) \/ NodeFail(n)
<1> USE DEF TypeOK, ClusterTypeOK, NodeServerTypeOK
<1>1. CASE UNCHANGED vars
  BY <1>1, Zenon DEF vars, clusterVars
<1>2. CASE ControllerNext /\ UNCHANGED stage
  BY <1>2, Zenon DEF ControllerNext, CreateVolume, SaveVolume, WithdrawClaim, clusterVars,
     diskVars, DeleteVolumeCheck, DeleteVolumeUnmount, DeleteVolumeRemoveDir,
     DeleteVolumeRemove, DeletePV, CleanupUnmount, RemoveLV
<1>3. CASE NodeServerNext
  <2>1. CASE ReleaseClaim
    BY <2>1, Zenon DEF ReleaseClaim, diskVars
  <2>2. ASSUME NEW m \in Nodes,
               NodeStageRead(m) \/ NodeStagePatch(m) \/ NodeStageFail(m)
        PROVE  UNCHANGED <<pod, hasty>> /\ (stage'[n] = "staged" <=> stage[n] = "staged")
    BY <2>2, Zenon DEF NodeStageRead, NodeStagePatch, NodeStageFail, StageAt, clusterVars,
       diskVars
  <2>3. ASSUME NEW m \in Nodes, NodeStageEnsure(m)
        PROVE  UNCHANGED <<pod, hasty>> /\ (stage'[n] = stage[n]
                 \/ (n = m /\ stage[n] # "staged" /\ (Block \/ stage'[n] # "staged")))
    BY <2>3, Zenon DEF NodeStageEnsure, StageAt
  <2>4. ASSUME NEW m \in Nodes, NodeStageMount(m) \/ NodeUnstageVolume(m)
        PROVE  n = m \/ (UNCHANGED pod /\ stage'[n] = stage[n]
                           /\ (n \in hasty' <=> n \in hasty))
    BY <2>4, Zenon DEF NodeStageMount, NodeUnstageVolume, StageAt
  <2>5. ASSUME NEW m \in Nodes, PodPublish(m) \/ PodStart(m) \/ PodStop(m)
        PROVE  UNCHANGED <<stage, hasty>>
                 /\ (pod[n] = "none" /\ pod'[n] # "none" => n = m /\ PodPublish(m))
    BY <2>5, Zenon DEF PodPublish, PodStart, PodStop, SetPod
  <2>6. NodeStageMount(n) \/ NodeUnstageVolume(n) => UNCHANGED pod
    BY Zenon DEF NodeStageMount, NodeUnstageVolume
  <2>7. /\ NodeStageMount(n) => stage[n] = "mount"
        /\ NodeUnstageVolume(n) => stage'[n] = "idle"
    BY Zenon DEF NodeStageMount, NodeUnstageVolume, StageAt
  <2> QED
    BY <1>3, <2>1, <2>2, <2>3, <2>4, <2>5, <2>6, <2>7, Zenon DEF NodeServerNext
<1>4. CASE FailoverNext /\ UNCHANGED stage
  BY <1>4, Zenon DEF FailoverNext, Deliver, FailoverRead, FailoverUnmount,
     FailoverRemoveDir, FailoverDelete, CleanupUnmount, RemoveLV, clusterVars, diskVars
<1>5. CASE ScannerNext /\ UNCHANGED stage
  BY <1>5, Zenon DEF ScannerNext, ScanList, ScanCheck, ScanUnmount, ScanRemoveDir,
     ScanDelete, CleanupUnmount, RemoveLV, NoteHaste, clusterVars
<1>6. CASE PVCleanupNext /\ UNCHANGED stage
  BY <1>6, Zenon DEF PVCleanupNext, PVCleanupRead, PVCleanupMisread, PVCleanupDelete,
     PVCleanupFinalize, clusterVars, diskVars
<1>7. CASE FaultNext
  <2>1. ASSUME NEW m \in Nodes, DriverRestart(m)
        PROVE  UNCHANGED <<pod, hasty>> /\ (stage'[n] = "staged" <=> stage[n] = "staged")
    BY <2>1, Zenon DEF DriverRestart, DriverStops, NodeServerRestart, diskVars
  <2>2. ASSUME NEW m \in Nodes, NodeFail(m), m # n
        PROVE  pod'[n] = pod[n] /\ stage'[n] = stage[n] /\ (n \in hasty' <=> n \in hasty)
    BY <2>2, Zenon DEF NodeFail
  <2>3. NodeFail(n) => pod'[n] = "none" /\ stage'[n] = "idle"
    BY Zenon DEF NodeFail
  <2>4. ASSUME NEW m \in Nodes, NodeDeregister(m) \/ NodeRecover(m)
        PROVE  UNCHANGED <<pod, hasty, stage>>
    BY <2>4, Zenon DEF NodeDeregister, NodeRecover, diskVars, driverVars
  <2> QED
    BY <1>7, <2>1, <2>2, <2>3, <2>4, Zenon DEF FaultNext
<1> QED
  BY <1>1, <1>2, <1>3, <1>4, <1>5, <1>6, <1>7, Zenon DEF Next, driverVars

\* While the claim is bound and the PV has named no other node, a mount or a
\* bound volume is taken away only by a hasty scan, or with the node itself.
LEMMA TakenHastily ==
  ASSUME TypeOK, DeletionsAfterRelease, SettledVolumeNotCollected, [Next]_vars,
         NEW n \in Nodes, Current.phase = "Bound", Settled(n),
         n \in mounts \ mounts' \/ (pod[n] # "bare" /\ pod'[n] = "bare")
  PROVE  n \in hasty' \/ NodeFail(n) \/ PodPublish(n)
<1> USE DEF TypeOK, ClusterTypeOK
<1>0. /\ \A m \in Nodes : del[m] = "idle"
      /\ fo[n] = "idle" /\ scan[n].reason # "mismatch"
  BY Zenon DEF DeletionsAfterRelease, NoDeletionUnderWay, SettledVolumeNotCollected
<1>1. CASE UNCHANGED <<mounts, pod>>
  BY <1>1, Zenon
<1>2. CASE ControllerNext
  BY <1>0, <1>1, <1>2, Zenon DEF ControllerNext, CreateVolume, SaveVolume, WithdrawClaim,
     clusterVars, diskVars, DeleteVolumeCheck, DeleteVolumeUnmount, DeleteVolumeRemoveDir,
     DeleteVolumeRemove, DeletePV
<1>3. CASE NodeServerNext
  <2>1. ASSUME NEW m \in Nodes, NodeStageMount(m)
        PROVE  FALSE
    BY <2>1, Zenon DEF NodeStageMount
  <2>2. ASSUME NEW m \in Nodes, PodPublish(m) \/ PodStart(m) \/ PodStop(m)
        PROVE  PodPublish(n)
    BY <2>2, Zenon DEF PodPublish, PodStart, PodStop, SetPod
  <2> QED
    BY <1>1, <1>3, <2>1, <2>2, Zenon DEF NodeServerNext, ReleaseClaim, NodeStageRead,
       NodeStagePatch, NodeStageEnsure, NodeStageFail, NodeUnstageVolume, clusterVars,
       diskVars
<1>4. CASE FailoverNext
  BY <1>0, <1>1, <1>4, Zenon DEF FailoverNext, Deliver, FailoverRead, FailoverUnmount,
     FailoverRemoveDir, FailoverDelete, CleanupUnmount, RemoveLV, clusterVars, diskVars
<1>5. CASE ScannerNext
  <2>1. ASSUME NEW m \in Nodes, ScanUnmount(m) \/ ScanDelete(m)
        PROVE  n \in hasty'
    <3>1. m = n
      BY <2>1, Zenon DEF ScanUnmount, ScanDelete, CleanupUnmount, RemoveLV
    <3>2. scan[n].reason = "noPV"
      BY <1>0, <2>1, <3>1, Zenon DEF ScanUnmount, ScanDelete, ScannerTypeOK, ScanState
    <3>3. ActsHastily(n)
      BY <3>2, Zenon DEF ActsHastily
    <3> QED
      BY <2>1, <3>1, <3>3, Zenon DEF ScanUnmount, ScanDelete, NoteHaste
  <2> QED
    BY <1>1, <1>5, <2>1, Zenon DEF ScannerNext, ScanList, ScanCheck, ScanRemoveDir,
       clusterVars
<1>6. CASE PVCleanupNext
  BY <1>1, <1>6, Zenon DEF PVCleanupNext, PVCleanupRead, PVCleanupMisread,
     PVCleanupDelete, PVCleanupFinalize, clusterVars, diskVars
<1>7. CASE FaultNext
  BY <1>1, <1>7, Zenon DEF FaultNext, DriverRestart, NodeFail, NodeDeregister,
     NodeRecover, diskVars
<1> QED
  BY <1>1, <1>2, <1>3, <1>4, <1>5, <1>6, <1>7, Zenon DEF Next, vars, clusterVars

\* A claim is not released under its pods, nor is the volume unstaged.
LEMMA PodsStep ==
  ASSUME TypeOK, DeletionsAfterRelease, PodsOfBoundClaim, [Next]_vars
  PROVE  PodsOfBoundClaim'
<1> SUFFICES ASSUME NEW n \in Nodes, pod'[n] # "none"
             PROVE  Current'.phase = "Bound" /\ stage'[n] = "staged"
  BY Zenon DEF PodsOfBoundClaim
<1>1. CASE PodPublish(n)
  BY <1>1, Zenon DEF PodPublish, apiVars, Current
<1>2. CASE pod[n] # "none"
  <2>1. Current.phase = "Bound" /\ stage[n] = "staged"
    BY <1>2, Zenon DEF PodsOfBoundClaim
  <2>2. stage'[n] = "staged"
    <3>1. ~NodeUnstageVolume(n)
      BY <1>2, Zenon DEF NodeUnstageVolume
    <3>2. ~NodeFail(n)
      BY Zenon DEF NodeFail, TypeOK, ClusterTypeOK
    <3> QED
      BY <2>1, <3>1, <3>2, NodeSteps, Zenon
  <2>3. Current \in PV /\ ~ReleaseClaim /\ ~pending
    BY <1>2, <2>1, VersionsArePVs, Zenon DEF ReleaseClaim, TypeOK, DeletionsAfterRelease
  <2>4. /\ ~PVCleanupFinalize /\ \A m \in Nodes : ~DeletePV(m)
        /\ \A r \in responses : ~SaveVolume(r)
    BY <2>1, <2>3, Zenon DEF DeletionsAfterRelease, NoDeletionUnderWay, PVCleanupFinalize, DeletePV
  <2>5. ASSUME NEW pv \in PV, Current' = pv, Writes(pv)
        PROVE  Current'.phase = "Bound"
    BY <2>1, <2>3, <2>4, <2>5, Zenon DEF Writes, PV
  <2> QED
    BY <2>1, <2>2, <2>5, CurrentAfter, Zenon
<1> QED
  BY <1>1, <1>2, NodeSteps, Zenon

\* What has been mounted by NodeStageVolume stays mounted, or a hasty scan has
\* been there since.
LEMMA MountedStep ==
  ASSUME TypeOK, DeletionsAfterRelease, SettledVolumeNotCollected, StagedIsMounted,
         [Next]_vars
  PROVE  StagedIsMounted'
<1> SUFFICES ASSUME NEW n \in Nodes, stage'[n] = "staged", ~Block,
                    Current'.phase = "Bound", Settled(n)'
             PROVE  n \in mounts' \cup hasty'
  BY Zenon DEF StagedIsMounted
<1>1. Settled(n) /\ (Current.phase = "Bound" \/ pending)
  BY SettledBefore, BoundBefore, Zenon
<1>2. ~NodeUnstageVolume(n) /\ ~NodeFail(n)
  BY Zenon DEF NodeUnstageVolume, NodeFail, StageAt, TypeOK, NodeServerTypeOK
<1>3. CASE stage[n] # "staged"
  BY <1>3, NodeSteps, Zenon DEF NodeStageMount
<1>4. CASE stage[n] = "staged"
  <2>1. Current.phase = "Bound"
    BY <1>1, <1>4, Zenon DEF DeletionsAfterRelease
  <2>2. n \in mounts \cup hasty
    BY <1>1, <1>4, <2>1, Zenon DEF StagedIsMounted
  <2>3. n \in hasty => n \in hasty'
    BY <1>2, <1>4, NodeSteps, Zenon DEF NodeStageMount
  <2>4. n \in mounts /\ n \notin mounts' => n \in hasty' \/ PodPublish(n)
    BY <1>1, <1>2, <2>1, TakenHastily, Zenon
  <2>5. PodPublish(n) => UNCHANGED mounts
    BY Zenon DEF PodPublish
  <2> QED
    BY <2>2, <2>3, <2>4, <2>5, Zenon
<1> QED
  BY <1>3, <1>4, Zenon

\* A pod is published on what is staged, and keeps it until its container runs.
LEMMA SeesStep ==
  ASSUME TypeOK, DeletionsAfterRelease, SettledVolumeNotCollected, PodsOfBoundClaim,
         StagedIsMounted, SettledPodSeesVolume, [Next]_vars
  PROVE  SettledPodSeesVolume'
<1> SUFFICES ASSUME NEW n \in Nodes, pod'[n] = "bare", Settled(n)'
             PROVE  n \in hasty'
  BY Zenon DEF SettledPodSeesVolume
<1>1. Settled(n)
  BY SettledBefore, Zenon
<1>2. ~NodeFail(n)
  BY Zenon DEF NodeFail, TypeOK, ClusterTypeOK
<1>3. CASE PodPublish(n)
  <2>1. ~Block /\ n \notin mounts
    BY <1>3, Zenon DEF PodPublish, SetPod, TypeOK, ClusterTypeOK
  <2>2. n \in hasty
    BY <1>1, <1>3, <2>1, Zenon DEF PodPublish, StagedIsMounted
  <2> QED
    BY <1>3, <2>2, Zenon DEF PodPublish
<1>4. CASE pod[n] # "none" /\ ~PodPublish(n)
  <2>1. Current.phase = "Bound" /\ stage[n] = "staged"
    BY <1>4, Zenon DEF PodsOfBoundClaim
  <2>2. CASE pod[n] = "bare"
    <3>1. n \in hasty
      BY <1>1, <2>2, Zenon DEF SettledPodSeesVolume
    <3>2. ~NodeStageMount(n) /\ ~NodeUnstageVolume(n)
      BY <2>1, <2>2, Zenon DEF NodeStageMount, NodeUnstageVolume
    <3> QED
      BY <1>2, <3>1, <3>2, NodeSteps, Zenon
  <2>3. CASE pod[n] # "bare"
    BY <1>1, <1>2, <1>4, <2>1, <2>3, TakenHastily, Zenon
  <2> QED
    BY <2>2, <2>3, Zenon
<1> QED
  BY <1>3, <1>4, NodeSteps, Zenon
-----------------------------------------------------------------------------
(* The theorems *)

\* The inductive invariant holds in every reachable state: pods belong to a
\* bound claim on a node that has it staged, a settled volume is mounted there
\* and no collector has it in hand, and nobody deletes it.
THEOREM PlacementInvariant == Spec => []PlacementInv
<1>1. Init => SettledPodSeesVolume /\ PodsOfBoundClaim /\ StagedIsMounted
                /\ DeletionsAfterRelease
  BY DEF Init, ClusterInit, ControllerInit, NodeServerInit, PVCleanupInit,
         SettledPodSeesVolume, PodsOfBoundClaim, StagedIsMounted,
         DeletionsAfterRelease, NoDeletionUnderWay, Current, NoPV
<1>2. Init => SettledVolumeNotCollected
  BY DEF Init, FailoverInit, ScannerInit, ScanIdle, SettledVolumeNotCollected
<1>3. PlacementInv /\ [Next]_vars
      => SettledPodSeesVolume' /\ SettledVolumeNotCollected' /\ PodsOfBoundClaim'
           /\ StagedIsMounted' /\ DeletionsAfterRelease'
  BY SeesStep, SettledStep, PodsStep, MountedStep, DeletionsStep, Zenon DEF PlacementInv
<1> QED
  BY <1>1, <1>2, <1>3, TypeCorrect, PTL DEF Spec, PlacementInv

\* On a node that every version of the PV agrees to, a pod finds the volume at
\* its target path, unless a scan that found no PV acted after the PV was saved.
THEOREM PodSeesVolume == Spec => []SettledPodSeesVolume
BY PlacementInvariant, PTL DEF PlacementInv

\* As long as the PV has named no other node, no collector of n sets out to
\* delete the volume as moved or misplaced.
THEOREM SettledSpared == Spec => []SettledVolumeNotCollected
BY PlacementInvariant, PTL DEF PlacementInv

\* The PV of a claim in use is never deleted: no version of it is followed by
\* its absence before the claim has been released.
THEOREM BoundKept == Spec => BoundPVKept
<1>1. PlacementInv /\ [Next]_vars
      => [Current.phase = "Bound" => Current'.phase # "Absent"]_vars
  <2> SUFFICES ASSUME PlacementInv, [Next]_vars, Current.phase = "Bound"
               PROVE  Current'.phase # "Absent"
    BY Zenon
  <2>1. TypeOK /\ NoDeletionUnderWay /\ Current \in PV
    BY VersionsArePVs, Zenon DEF PlacementInv, DeletionsAfterRelease, TypeOK
  <2>2. CASE Current' = Current
    BY <2>2, Zenon
  <2>3. ASSUME NEW pv \in PV, Current' = pv, Writes(pv)
        PROVE  Current'.phase # "Absent"
    <3>1. ~PVCleanupFinalize /\ \A n \in Nodes : ~DeletePV(n)
      BY <2>1, Zenon DEF NoDeletionUnderWay, PVCleanupFinalize, DeletePV
    <3>2. pv.phase \in {"Bound", "Released"}
      BY <2>1, <2>3, <3>1, Zenon DEF Writes, PV, NoPV
    <3> QED
      BY <2>3, <3>2, Zenon
  <2> QED
    BY <2>1, <2>2, <2>3, CurrentAfter, Zenon
<1> QED
  BY <1>1, PlacementInvariant, PTL DEF Spec, BoundPVKept
=============================================================================
