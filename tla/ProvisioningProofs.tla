------------------------- MODULE ProvisioningProofs -------------------------
(***************************************************************************)
(* Proofs about Provisioning, for any number of volumes, devices and       *)
(* concurrent calls, where driver instances do not overlap.                *)
(***************************************************************************)
EXTENDS Provisioning, TLAPS

\* Calls belong to instances, and NoCall is none of them.
LEMMA CallFacts ==
  /\ \A w \in Calls : InstanceOf(w) \in Instances
  /\ NoCall \notin Calls
BY CallAssumption, Zenon DEF Calls, InstanceOf

\* What lvremove and vgremove leave: other volumes keep metadata and node.
LEMMA RemovedLVs ==
  ASSUME NEW V, RemoveLVs(V), dir \in BOOLEAN
  PROVE  /\ lvs' \subseteq lvs
         /\ lvs = {} => lvs' = {}
         /\ nodes' \subseteq nodes
         /\ \A v \in lvs' : v \notin V
         /\ \A v \in lvs : v \in V \/ v \in lvs'
         /\ \A v \in nodes : v \in V \/ v \in nodes'
         /\ nodes' # {} => dir'
         /\ dir' \in BOOLEAN
         /\ ~dir => ~dir'
<1>1. dir' = dir \/ dir' = FALSE
  BY Zenon DEF RemoveLVs
<1>2. dir' \in BOOLEAN /\ (~dir => ~dir')
  <2>1. CASE dir' = FALSE
    BY <2>1, Zenon
  <2>2. CASE dir' = dir
    BY <2>2, Zenon
  <2> QED
    BY <1>1, <2>1, <2>2, Zenon
<1> QED
  BY <1>2, Zenon DEF RemoveLVs

\* A call that is under way has a volume.
LEMMA BusyVolume ==
  ASSUME TypeOK, OwnVolumes, NEW w \in Calls, pc[w] # "idle"
  PROVE  vol[w] \in Volumes
BY DEF TypeOK, OwnVolumes

\* Every step keeps the types.
LEMMA TypeStep ==
  ASSUME TypeOK, OwnVolumes, [Next]_vars
  PROVE  TypeOK'
<1> USE CallFacts
<1>1. ASSUME NEW w \in Calls, NEW v \in Volumes, EnsureVolume(w, v) PROVE TypeOK'
  BY <1>1, Zenon DEF TypeOK, CallSteps, EnsureVolume, Goto, lvmVars, procVars
<1>2. ASSUME NEW w \in Calls, EnsureStep(w) PROVE TypeOK'
  <2>1. CASE CheckMetadata(w)
    BY <2>1, Zenon DEF TypeOK, CallSteps, CheckMetadata, Goto, lvmVars, procVars
  <2>2. CASE CheckDeviceNode(w)
    BY <2>2, Zenon DEF TypeOK, CallSteps, CheckDeviceNode, Goto, lvmVars, procVars
  <2>3. CASE RemoveCorrupted(w)
    BY <2>3, RemovedLVs DEF TypeOK, CallSteps, RemoveCorrupted, Goto, Return, procVars
  <2>4. CASE GetVolumeGroup(w)
    BY <2>4, Zenon DEF TypeOK, CallSteps, GetVolumeGroup, Goto, lvmVars, procVars
  <2>5. CASE EnsurePhysicalVolumes(w)
    BY <2>5 DEF TypeOK, CallSteps, EnsurePhysicalVolumes, Goto, Return, procVars
  <2>6. CASE LVCreate(w)
    BY <2>6, BusyVolume, ZenonT(60) DEF TypeOK, CallSteps, LVCreate, Goto, Return, MakeLate, Stopping,
       procVars
  <2>7. CASE GetNewLV(w)
    BY <2>7 DEF TypeOK, CallSteps, GetNewLV, Goto, Return, lvmVars, procVars
  <2>8. CASE Reply(w)
    BY <2>8, Zenon DEF TypeOK, CallSteps, Reply, Goto, Return, lvmVars, procVars
  <2> QED
    BY <1>2, <2>1, <2>2, <2>3, <2>4, <2>5, <2>6, <2>7, <2>8, Zenon DEF EnsureStep
<1>3. ASSUME NEW w \in Calls, ProvisionStep(w) PROVE TypeOK'
  <2>1. CASE Join(w)
    BY <2>1 DEF TypeOK, CallSteps, Join, Goto, lvmVars, procVars
  <2>2. CASE ProvisionGet(w)
    BY <2>2 DEF TypeOK, CallSteps, ProvisionGet, Goto, FlightDone, Sharing, lvmVars,
       procVars
  <2>3. CASE StaleGet(w)
    BY <2>3, Zenon DEF TypeOK, CallSteps, StaleGet, Goto, lvmVars, procVars
  <2>4. CASE StaleMknodes(w)
    BY <2>4, Zenon DEF TypeOK, CallSteps, StaleMknodes, Goto, procVars
  <2>5. CASE StaleReadDir(w)
    BY <2>5, Zenon DEF TypeOK, CallSteps, StaleReadDir, Goto, lvmVars, procVars
  <2>6. CASE StaleUnlink(w)
    BY <2>6 DEF TypeOK, CallSteps, StaleUnlink, FlightFails, Sharing, procVars
  <2>7. CASE StaleRmdir(w)
    BY <2>7, Zenon DEF TypeOK, CallSteps, StaleRmdir, Goto, procVars
  <2>8. CASE VGCreate(w)
    BY <2>8, DeviceAssumption DEF TypeOK, CallSteps, VGCreate, Goto, FlightFails, Sharing,
       procVars
  <2>9. CASE ProvisionGetNew(w)
    BY <2>9 DEF TypeOK, CallSteps, ProvisionGetNew, FlightDone, FlightFails, Sharing,
       lvmVars, procVars
  <2> QED
    BY <1>3, <2>1, <2>2, <2>3, <2>4, <2>5, <2>6, <2>7, <2>8, <2>9, Zenon DEF ProvisionStep
<1>4. ASSUME NEW i \in Instances, CleanupStep(i) PROVE TypeOK'
  <2>1. CASE CleanupList(i)
    BY <2>1, Zenon DEF TypeOK, CallSteps, CleanupList, CleanupGoto, lvmVars, callVars
  <2>2. CASE CleanupRemoveVG(i)
    BY <2>2, RemovedLVs DEF TypeOK, CallSteps, CleanupRemoveVG, CleanupGoto, Overtake
  <2>3. CASE CleanupRemovePVs(i)
    BY <2>3, Zenon DEF TypeOK, CallSteps, CleanupRemovePVs, CleanupGoto, callVars
  <2>4. CASE CleanupFail(i)
    BY <2>4, Zenon DEF TypeOK, CallSteps, CleanupFail, CleanupGoto, lvmVars, callVars
  <2> QED
    BY <1>4, <2>1, <2>2, <2>3, <2>4, Zenon DEF CleanupStep
<1>5. ASSUME NEW w \in Calls, Fail(w) PROVE TypeOK'
  BY <1>5, BusyVolume DEF TypeOK, CallSteps, Fail, FlightFails, Sharing, Goto, Return,
     MakeLate, Stopping, procVars
<1>6. ASSUME NEW v \in Volumes, AskDelete(v) PROVE TypeOK'
  BY <1>6, Zenon DEF TypeOK, CallSteps, AskDelete, lvmVars, procVars, callVars
<1>7. ASSUME NEW v \in Volumes, Delete(v) PROVE TypeOK'
  BY <1>7, RemovedLVs, Zenon DEF TypeOK, CallSteps, Delete, Overtake, procVars
<1>8. ASSUME NEW i \in Instances, Shutdown(i) PROVE TypeOK'
  BY <1>8, ProvisioningBounds DEF TypeOK, CallSteps, Shutdown, lvmVars, callVars
<1>9. ASSUME NEW i \in Instances, Exit(i) PROVE TypeOK'
  BY <1>9, Zenon DEF TypeOK, CallSteps, Exit, lvmVars, callVars
<1>10. ASSUME NEW i \in Instances, Crash(i) PROVE TypeOK'
  BY <1>10, ProvisioningBounds DEF TypeOK, CallSteps, Crash, Lose, lvmVars
<1>11. ASSUME NEW i \in Instances, Start(i) PROVE TypeOK'
  BY <1>11, Zenon DEF TypeOK, CallSteps, Start, Stopping, lvmVars, callVars
<1>12. CASE Reboot
  BY <1>12, DeviceAssumption, ProvisioningBounds DEF TypeOK, CallSteps, Reboot, Lose
<1>13. CASE UNCHANGED vars
  BY <1>13, Zenon DEF TypeOK, CallSteps, vars, lvmVars, procVars, callVars
<1> QED
  BY <1>1, <1>2, <1>3, <1>4, <1>5, <1>6, <1>7, <1>8, <1>9, <1>10, <1>11, <1>12, <1>13, Zenon DEF
     Next

\* Volumes need the group, nodes the directory.
LEMMA DiskStep ==
  ASSUME TypeOK, DiskConsistent, FlightConsistent, [Next]_vars
  PROVE  DiskConsistent'
<1> USE CallFacts
<1>1. ASSUME NEW w \in Calls, NEW v \in Volumes, EnsureVolume(w, v) PROVE DiskConsistent'
  BY <1>1, Zenon DEF TypeOK, DiskConsistent, EnsureVolume, Goto, lvmVars, procVars
<1>2. ASSUME NEW w \in Calls, EnsureStep(w) PROVE DiskConsistent'
  <2>1. CASE CheckMetadata(w)
    BY <2>1, Zenon DEF TypeOK, DiskConsistent, CheckMetadata, Goto, lvmVars, procVars
  <2>2. CASE CheckDeviceNode(w)
    BY <2>2, Zenon DEF TypeOK, DiskConsistent, CheckDeviceNode, Goto, lvmVars, procVars
  <2>3. CASE RemoveCorrupted(w)
    BY <2>3, RemovedLVs, Zenon DEF TypeOK, DiskConsistent, RemoveCorrupted, Goto, Return, procVars
  <2>4. CASE GetVolumeGroup(w)
    BY <2>4, Zenon DEF TypeOK, DiskConsistent, GetVolumeGroup, Goto, lvmVars, procVars
  <2>5. CASE EnsurePhysicalVolumes(w)
    BY <2>5, Zenon DEF TypeOK, DiskConsistent, EnsurePhysicalVolumes, Goto, Return, procVars
  <2>6. CASE LVCreate(w)
    BY <2>6, Zenon DEF TypeOK, DiskConsistent, LVCreate, Goto, Return, MakeLate, Stopping, procVars
  <2>7. CASE GetNewLV(w)
    BY <2>7, Zenon DEF TypeOK, DiskConsistent, GetNewLV, Goto, Return, lvmVars, procVars
  <2>8. CASE Reply(w)
    BY <2>8, Zenon DEF TypeOK, DiskConsistent, Reply, Goto, Return, lvmVars, procVars
  <2> QED
    BY <1>2, <2>1, <2>2, <2>3, <2>4, <2>5, <2>6, <2>7, <2>8, Zenon DEF EnsureStep
<1>3. ASSUME NEW w \in Calls, ProvisionStep(w) PROVE DiskConsistent'
  <2>1. CASE Join(w)
    BY <2>1, Zenon DEF TypeOK, DiskConsistent, Join, Goto, lvmVars, procVars
  <2>2. CASE ProvisionGet(w)
    BY <2>2, Zenon DEF TypeOK, DiskConsistent, ProvisionGet, Goto, FlightDone, Sharing, lvmVars,
       procVars
  <2>3. CASE StaleGet(w)
    BY <2>3, Zenon DEF TypeOK, DiskConsistent, StaleGet, Goto, lvmVars, procVars
  <2>4. CASE StaleMknodes(w)
    BY <2>4, Zenon DEF TypeOK, DiskConsistent, StaleMknodes, Goto, procVars
  <2>5. CASE StaleReadDir(w)
    BY <2>5, Zenon DEF TypeOK, DiskConsistent, StaleReadDir, Goto, lvmVars, procVars
  <2>6. CASE StaleUnlink(w)
    BY <2>6, Zenon DEF TypeOK, DiskConsistent, StaleUnlink, FlightFails, Sharing, procVars
  <2>7. CASE StaleRmdir(w)
    BY <2>7, Zenon DEF TypeOK, DiskConsistent, StaleRmdir, Goto, procVars
  <2>8. CASE VGCreate(w)
    BY <2>8, Zenon DEF TypeOK, DiskConsistent, VGCreate, Goto, FlightFails, Sharing, procVars
  <2>9. CASE ProvisionGetNew(w)
    BY <2>9, Zenon DEF TypeOK, DiskConsistent, ProvisionGetNew, FlightDone, FlightFails, Sharing,
       lvmVars, procVars
  <2> QED
    BY <1>3, <2>1, <2>2, <2>3, <2>4, <2>5, <2>6, <2>7, <2>8, <2>9, Zenon DEF ProvisionStep
<1>4. ASSUME NEW i \in Instances, CleanupStep(i) PROVE DiskConsistent'
  <2>1. CASE CleanupList(i)
    BY <2>1, Zenon DEF TypeOK, DiskConsistent, CleanupList, CleanupGoto, lvmVars, callVars
  <2>2. CASE CleanupRemoveVG(i)
    BY <2>2, RemovedLVs, Zenon DEF TypeOK, DiskConsistent, CleanupRemoveVG, CleanupGoto, Overtake
  <2>3. CASE CleanupRemovePVs(i)
    BY <2>3, Zenon DEF TypeOK, DiskConsistent, CleanupRemovePVs, CleanupGoto, callVars
  <2>4. CASE CleanupFail(i)
    BY <2>4, Zenon DEF TypeOK, DiskConsistent, CleanupFail, CleanupGoto, lvmVars, callVars
  <2> QED
    BY <1>4, <2>1, <2>2, <2>3, <2>4, Zenon DEF CleanupStep
<1>5. ASSUME NEW w \in Calls, Fail(w) PROVE DiskConsistent'
  BY <1>5, Zenon DEF TypeOK, DiskConsistent, Fail, FlightFails, Sharing, Goto, Return, MakeLate,
     Stopping, procVars
<1>6. ASSUME NEW v \in Volumes, AskDelete(v) PROVE DiskConsistent'
  BY <1>6, Zenon DEF TypeOK, DiskConsistent, AskDelete, lvmVars, procVars, callVars
<1>7. ASSUME NEW v \in Volumes, Delete(v) PROVE DiskConsistent'
  BY <1>7, RemovedLVs DEF TypeOK, DiskConsistent, Delete, Overtake, procVars
<1>8. ASSUME NEW i \in Instances, Shutdown(i) PROVE DiskConsistent'
  BY <1>8, Zenon DEF TypeOK, DiskConsistent, Shutdown, lvmVars, callVars
<1>9. ASSUME NEW i \in Instances, Exit(i) PROVE DiskConsistent'
  BY <1>9, Zenon DEF TypeOK, DiskConsistent, Exit, lvmVars, callVars
<1>10. ASSUME NEW i \in Instances, Crash(i) PROVE DiskConsistent'
  BY <1>10, Zenon DEF TypeOK, DiskConsistent, Crash, Lose, lvmVars
<1>11. ASSUME NEW i \in Instances, Start(i) PROVE DiskConsistent'
  BY <1>11, Zenon DEF TypeOK, DiskConsistent, Start, Stopping, lvmVars, callVars
<1>12. CASE Reboot
  BY <1>12, Zenon DEF TypeOK, DiskConsistent, Reboot, Lose
<1>13. CASE UNCHANGED vars
  BY <1>13, Zenon DEF TypeOK, DiskConsistent, vars, lvmVars, procVars, callVars
<1> QED
  BY <1>1, <1>2, <1>3, <1>4, <1>5, <1>6, <1>7, <1>8, <1>9, <1>10, <1>11, <1>12, <1>13, Zenon DEF
     Next

\* The leader of the flight is alone with the missing group.
LEMMA FlightStep ==
  ASSUME OneInstance, TypeOK, DiskConsistent, FlightConsistent, VGCreateUnblocked, [Next]_vars
  PROVE  (FlightConsistent /\ VGCreateUnblocked)'
<1> USE CallFacts
<1>1. ASSUME NEW w \in Calls, NEW v \in Volumes, EnsureVolume(w, v) PROVE (FlightConsistent /\ VGCreateUnblocked)'
  BY <1>1, Zenon DEF OneInstance, TypeOK, DiskConsistent, FlightConsistent, VGCreateUnblocked,
     EnsureVolume, Goto, lvmVars, procVars
<1>2. ASSUME NEW w \in Calls, EnsureStep(w) PROVE (FlightConsistent /\ VGCreateUnblocked)'
  <2>1. CASE CheckMetadata(w)
    BY <2>1, Zenon DEF OneInstance, TypeOK, DiskConsistent, FlightConsistent, VGCreateUnblocked,
       CheckMetadata, Goto, lvmVars, procVars
  <2>2. CASE CheckDeviceNode(w)
    BY <2>2 DEF OneInstance, TypeOK, DiskConsistent, FlightConsistent, VGCreateUnblocked,
       CheckDeviceNode, Goto, lvmVars, procVars
  <2>3. CASE RemoveCorrupted(w)
    BY <2>3, RemovedLVs DEF OneInstance, TypeOK, DiskConsistent, FlightConsistent,
       VGCreateUnblocked, RemoveCorrupted, Goto, Return, procVars
  <2>4. CASE GetVolumeGroup(w)
    BY <2>4, Zenon DEF OneInstance, TypeOK, DiskConsistent, FlightConsistent, VGCreateUnblocked,
       GetVolumeGroup, Goto, lvmVars, procVars
  <2>5. CASE EnsurePhysicalVolumes(w)
    BY <2>5 DEF OneInstance, TypeOK, DiskConsistent, FlightConsistent, VGCreateUnblocked,
       EnsurePhysicalVolumes, Goto, Return, procVars
  <2>6. CASE LVCreate(w)
    BY <2>6 DEF OneInstance, TypeOK, DiskConsistent, FlightConsistent, VGCreateUnblocked,
       LVCreate, Goto, Return, MakeLate, Stopping, procVars
  <2>7. CASE GetNewLV(w)
    BY <2>7 DEF OneInstance, TypeOK, DiskConsistent, FlightConsistent, VGCreateUnblocked,
       GetNewLV, Goto, Return, lvmVars, procVars
  <2>8. CASE Reply(w)
    BY <2>8, Zenon DEF OneInstance, TypeOK, DiskConsistent, FlightConsistent, VGCreateUnblocked,
       Reply, Goto, Return, lvmVars, procVars
  <2> QED
    BY <1>2, <2>1, <2>2, <2>3, <2>4, <2>5, <2>6, <2>7, <2>8, Zenon DEF EnsureStep
<1>3. ASSUME NEW w \in Calls, ProvisionStep(w) PROVE (FlightConsistent /\ VGCreateUnblocked)'
  <2>1. CASE Join(w)
    BY <2>1 DEF OneInstance, TypeOK, DiskConsistent, FlightConsistent, VGCreateUnblocked,
       Join, Goto, lvmVars, procVars
  <2>2. CASE ProvisionGet(w)
    BY <2>2 DEF OneInstance, TypeOK, DiskConsistent, FlightConsistent, VGCreateUnblocked,
       ProvisionGet, Goto, FlightDone, Sharing, lvmVars, procVars
  <2>3. CASE StaleGet(w)
    BY <2>3 DEF OneInstance, TypeOK, DiskConsistent, FlightConsistent, VGCreateUnblocked,
       StaleGet, Goto, lvmVars, procVars
  <2>4. CASE StaleMknodes(w)
    BY <2>4 DEF OneInstance, TypeOK, DiskConsistent, FlightConsistent, VGCreateUnblocked,
       StaleMknodes, Goto, procVars
  <2>5. CASE StaleReadDir(w)
    BY <2>5 DEF OneInstance, TypeOK, DiskConsistent, FlightConsistent, VGCreateUnblocked,
       StaleReadDir, Goto, lvmVars, procVars
  <2>6. CASE StaleUnlink(w)
    BY <2>6 DEF OneInstance, TypeOK, DiskConsistent, FlightConsistent, VGCreateUnblocked,
       StaleUnlink, FlightFails, Sharing, procVars
  <2>7. CASE StaleRmdir(w)
    BY <2>7, Zenon DEF OneInstance, TypeOK, DiskConsistent, FlightConsistent, VGCreateUnblocked,
       StaleRmdir, Goto, procVars
  <2>8. CASE VGCreate(w)
    BY <2>8 DEF OneInstance, TypeOK, DiskConsistent, FlightConsistent, VGCreateUnblocked,
       VGCreate, Goto, FlightFails, Sharing, procVars
  <2>9. CASE ProvisionGetNew(w)
    BY <2>9 DEF OneInstance, TypeOK, DiskConsistent, FlightConsistent, VGCreateUnblocked,
       ProvisionGetNew, FlightDone, FlightFails, Sharing, lvmVars, procVars
  <2> QED
    BY <1>3, <2>1, <2>2, <2>3, <2>4, <2>5, <2>6, <2>7, <2>8, <2>9, Zenon DEF ProvisionStep
<1>4. ASSUME NEW i \in Instances, CleanupStep(i) PROVE (FlightConsistent /\ VGCreateUnblocked)'
  <2>1. CASE CleanupList(i)
    BY <2>1, Zenon DEF OneInstance, TypeOK, DiskConsistent, FlightConsistent, VGCreateUnblocked,
       CleanupList, CleanupGoto, lvmVars, callVars
  <2>2. CASE CleanupRemoveVG(i)
    BY <2>2, RemovedLVs, Zenon DEF OneInstance, TypeOK, DiskConsistent, FlightConsistent,
       VGCreateUnblocked, CleanupRemoveVG, CleanupGoto, Overtake
  <2>3. CASE CleanupRemovePVs(i)
    BY <2>3, Zenon DEF OneInstance, TypeOK, DiskConsistent, FlightConsistent, VGCreateUnblocked,
       CleanupRemovePVs, CleanupGoto, callVars
  <2>4. CASE CleanupFail(i)
    BY <2>4, Zenon DEF OneInstance, TypeOK, DiskConsistent, FlightConsistent, VGCreateUnblocked,
       CleanupFail, CleanupGoto, lvmVars, callVars
  <2> QED
    BY <1>4, <2>1, <2>2, <2>3, <2>4, Zenon DEF CleanupStep
<1>5. ASSUME NEW w \in Calls, Fail(w) PROVE (FlightConsistent /\ VGCreateUnblocked)'
  BY <1>5 DEF OneInstance, TypeOK, DiskConsistent, FlightConsistent, VGCreateUnblocked,
     Fail, FlightFails, Sharing, Goto, Return, MakeLate, Stopping, procVars
<1>6. ASSUME NEW v \in Volumes, AskDelete(v) PROVE (FlightConsistent /\ VGCreateUnblocked)'
  BY <1>6, Zenon DEF OneInstance, TypeOK, DiskConsistent, FlightConsistent, VGCreateUnblocked,
     AskDelete, lvmVars, procVars, callVars
<1>7. ASSUME NEW v \in Volumes, Delete(v) PROVE (FlightConsistent /\ VGCreateUnblocked)'
  BY <1>7, RemovedLVs DEF OneInstance, TypeOK, DiskConsistent, FlightConsistent,
     VGCreateUnblocked, Delete, Overtake, procVars
<1>8. ASSUME NEW i \in Instances, Shutdown(i) PROVE (FlightConsistent /\ VGCreateUnblocked)'
  BY <1>8, Zenon DEF OneInstance, TypeOK, DiskConsistent, FlightConsistent, VGCreateUnblocked,
     Shutdown, lvmVars, callVars
<1>9. ASSUME NEW i \in Instances, Exit(i) PROVE (FlightConsistent /\ VGCreateUnblocked)'
  BY <1>9, Zenon DEF OneInstance, TypeOK, DiskConsistent, FlightConsistent, VGCreateUnblocked,
     Exit, lvmVars, callVars
<1>10. ASSUME NEW i \in Instances, Crash(i) PROVE (FlightConsistent /\ VGCreateUnblocked)'
  BY <1>10, Zenon DEF OneInstance, TypeOK, DiskConsistent, FlightConsistent, VGCreateUnblocked,
     Crash, Lose, lvmVars
<1>11. ASSUME NEW i \in Instances, Start(i) PROVE (FlightConsistent /\ VGCreateUnblocked)'
  BY <1>11, Zenon DEF OneInstance, TypeOK, DiskConsistent, FlightConsistent, VGCreateUnblocked,
     Start, Stopping, lvmVars, callVars
<1>12. CASE Reboot
  BY <1>12, Zenon DEF OneInstance, TypeOK, DiskConsistent, FlightConsistent, VGCreateUnblocked,
     Reboot, Lose
<1>13. CASE UNCHANGED vars
  BY <1>13, Zenon DEF OneInstance, TypeOK, DiskConsistent, FlightConsistent, VGCreateUnblocked,
     vars, lvmVars, procVars, callVars
<1> QED
  BY <1>1, <1>2, <1>3, <1>4, <1>5, <1>6, <1>7, <1>8, <1>9, <1>10, <1>11, <1>12, <1>13, Zenon DEF
     Next

\* No two calls have the same volume.
LEMMA OwnStep ==
  ASSUME TypeOK, OwnVolumes, [Next]_vars
  PROVE  OwnVolumes'
<1> USE CallFacts
<1>1. ASSUME NEW w \in Calls, NEW v \in Volumes, EnsureVolume(w, v) PROVE OwnVolumes'
  BY <1>1, VolumeAssumption DEF TypeOK, OwnVolumes, EnsureVolume, Goto, lvmVars, procVars
<1>2. ASSUME NEW w \in Calls, EnsureStep(w) PROVE OwnVolumes'
  <2>1. CASE CheckMetadata(w)
    BY <2>1, VolumeAssumption, Zenon DEF TypeOK, OwnVolumes, CheckMetadata, Goto, lvmVars, procVars
  <2>2. CASE CheckDeviceNode(w)
    BY <2>2, VolumeAssumption, Zenon DEF TypeOK, OwnVolumes, CheckDeviceNode, Goto, lvmVars,
       procVars
  <2>3. CASE RemoveCorrupted(w)
    BY <2>3, VolumeAssumption, RemovedLVs DEF TypeOK, OwnVolumes, RemoveCorrupted, Goto,
       Return, procVars
  <2>4. CASE GetVolumeGroup(w)
    BY <2>4, VolumeAssumption, Zenon DEF TypeOK, OwnVolumes, GetVolumeGroup, Goto, lvmVars,
       procVars
  <2>5. CASE EnsurePhysicalVolumes(w)
    BY <2>5, VolumeAssumption DEF TypeOK, OwnVolumes, EnsurePhysicalVolumes, Goto, Return,
       procVars
  <2>6. CASE LVCreate(w)
    BY <2>6, VolumeAssumption DEF TypeOK, OwnVolumes, LVCreate, Goto, Return, MakeLate,
       Stopping, procVars
  <2>7. CASE GetNewLV(w)
    BY <2>7, VolumeAssumption DEF TypeOK, OwnVolumes, GetNewLV, Goto, Return, lvmVars,
       procVars
  <2>8. CASE Reply(w)
    BY <2>8, VolumeAssumption, Zenon DEF TypeOK, OwnVolumes, Reply, Goto, Return, lvmVars, procVars
  <2> QED
    BY <1>2, <2>1, <2>2, <2>3, <2>4, <2>5, <2>6, <2>7, <2>8, Zenon DEF EnsureStep
<1>3. ASSUME NEW w \in Calls, ProvisionStep(w) PROVE OwnVolumes'
  <2>1. CASE Join(w)
    BY <2>1, VolumeAssumption DEF TypeOK, OwnVolumes, Join, Goto, lvmVars, procVars
  <2>2. CASE ProvisionGet(w)
    BY <2>2, VolumeAssumption DEF TypeOK, OwnVolumes, ProvisionGet, Goto, FlightDone,
       Sharing, lvmVars, procVars
  <2>3. CASE StaleGet(w)
    BY <2>3, VolumeAssumption, Zenon DEF TypeOK, OwnVolumes, StaleGet, Goto, lvmVars, procVars
  <2>4. CASE StaleMknodes(w)
    BY <2>4, VolumeAssumption, Zenon DEF TypeOK, OwnVolumes, StaleMknodes, Goto, procVars
  <2>5. CASE StaleReadDir(w)
    BY <2>5, VolumeAssumption, Zenon DEF TypeOK, OwnVolumes, StaleReadDir, Goto, lvmVars, procVars
  <2>6. CASE StaleUnlink(w)
    BY <2>6, VolumeAssumption DEF TypeOK, OwnVolumes, StaleUnlink, FlightFails, Sharing,
       procVars
  <2>7. CASE StaleRmdir(w)
    BY <2>7, VolumeAssumption, Zenon DEF TypeOK, OwnVolumes, StaleRmdir, Goto, procVars
  <2>8. CASE VGCreate(w)
    BY <2>8, VolumeAssumption DEF TypeOK, OwnVolumes, VGCreate, Goto, FlightFails, Sharing,
       procVars
  <2>9. CASE ProvisionGetNew(w)
    BY <2>9, VolumeAssumption DEF TypeOK, OwnVolumes, ProvisionGetNew, FlightDone,
       FlightFails, Sharing, lvmVars, procVars
  <2> QED
    BY <1>3, <2>1, <2>2, <2>3, <2>4, <2>5, <2>6, <2>7, <2>8, <2>9, Zenon DEF ProvisionStep
<1>4. ASSUME NEW i \in Instances, CleanupStep(i) PROVE OwnVolumes'
  <2>1. CASE CleanupList(i)
    BY <2>1, VolumeAssumption, Zenon DEF TypeOK, OwnVolumes, CleanupList, CleanupGoto, lvmVars,
       callVars
  <2>2. CASE CleanupRemoveVG(i)
    BY <2>2, VolumeAssumption, RemovedLVs, Zenon DEF TypeOK, OwnVolumes, CleanupRemoveVG,
       CleanupGoto, Overtake
  <2>3. CASE CleanupRemovePVs(i)
    BY <2>3, VolumeAssumption, Zenon DEF TypeOK, OwnVolumes, CleanupRemovePVs, CleanupGoto,
       callVars
  <2>4. CASE CleanupFail(i)
    BY <2>4, VolumeAssumption, Zenon DEF TypeOK, OwnVolumes, CleanupFail, CleanupGoto, lvmVars,
       callVars
  <2> QED
    BY <1>4, <2>1, <2>2, <2>3, <2>4, Zenon DEF CleanupStep
<1>5. ASSUME NEW w \in Calls, Fail(w) PROVE OwnVolumes'
  BY <1>5, VolumeAssumption DEF TypeOK, OwnVolumes, Fail, FlightFails, Sharing, Goto,
     Return, MakeLate, Stopping, procVars
<1>6. ASSUME NEW v \in Volumes, AskDelete(v) PROVE OwnVolumes'
  BY <1>6, VolumeAssumption, Zenon DEF TypeOK, OwnVolumes, AskDelete, lvmVars, procVars, callVars
<1>7. ASSUME NEW v \in Volumes, Delete(v) PROVE OwnVolumes'
  BY <1>7, VolumeAssumption, RemovedLVs, Zenon DEF TypeOK, OwnVolumes, Delete, Overtake, procVars
<1>8. ASSUME NEW i \in Instances, Shutdown(i) PROVE OwnVolumes'
  BY <1>8, VolumeAssumption, Zenon DEF TypeOK, OwnVolumes, Shutdown, lvmVars, callVars
<1>9. ASSUME NEW i \in Instances, Exit(i) PROVE OwnVolumes'
  BY <1>9, VolumeAssumption, Zenon DEF TypeOK, OwnVolumes, Exit, lvmVars, callVars
<1>10. ASSUME NEW i \in Instances, Crash(i) PROVE OwnVolumes'
  BY <1>10, VolumeAssumption, Zenon DEF TypeOK, OwnVolumes, Crash, Lose, lvmVars
<1>11. ASSUME NEW i \in Instances, Start(i) PROVE OwnVolumes'
  BY <1>11, VolumeAssumption, Zenon DEF TypeOK, OwnVolumes, Start, Stopping, lvmVars, callVars
<1>12. CASE Reboot
  BY <1>12, VolumeAssumption, Zenon DEF TypeOK, OwnVolumes, Reboot, Lose
<1>13. CASE UNCHANGED vars
  BY <1>13, Zenon DEF TypeOK, OwnVolumes, vars, lvmVars, procVars, callVars
<1> QED
  BY <1>1, <1>2, <1>3, <1>4, <1>5, <1>6, <1>7, <1>8, <1>9, <1>10, <1>11, <1>12, <1>13, Zenon DEF
     Next

\* A volume changes under a call only if the call is overtaken.
LEMMA KnownStep ==
  ASSUME TypeOK, DiskConsistent, FlightConsistent, OwnVolumes, KnownVolumes, [Next]_vars
  PROVE  KnownVolumes'
<1> USE CallFacts
<1>1. ASSUME NEW w \in Calls, NEW v \in Volumes, EnsureVolume(w, v) PROVE KnownVolumes'
  BY <1>1, Zenon DEF TypeOK, DiskConsistent, FlightConsistent, OwnVolumes, KnownVolumes,
     EnsureVolume, Goto, lvmVars, procVars
<1>2. ASSUME NEW w \in Calls, EnsureStep(w) PROVE KnownVolumes'
  <2>1. CASE CheckMetadata(w)
    BY <2>1, Zenon DEF TypeOK, DiskConsistent, FlightConsistent, OwnVolumes, KnownVolumes,
       CheckMetadata, Goto, lvmVars, procVars
  <2>2. CASE CheckDeviceNode(w)
    BY <2>2, Zenon DEF TypeOK, DiskConsistent, FlightConsistent, OwnVolumes, KnownVolumes,
       CheckDeviceNode, Goto, lvmVars, procVars
  <2>3. CASE RemoveCorrupted(w)
    BY <2>3, RemovedLVs DEF TypeOK, DiskConsistent, FlightConsistent, OwnVolumes,
       KnownVolumes, RemoveCorrupted, Goto, Return, procVars
  <2>4. CASE GetVolumeGroup(w)
    BY <2>4, Zenon DEF TypeOK, DiskConsistent, FlightConsistent, OwnVolumes, KnownVolumes,
       GetVolumeGroup, Goto, lvmVars, procVars
  <2>5. CASE EnsurePhysicalVolumes(w)
    BY <2>5 DEF TypeOK, DiskConsistent, FlightConsistent, OwnVolumes, KnownVolumes,
       EnsurePhysicalVolumes, Goto, Return, procVars
  <2>6. CASE LVCreate(w)
    BY <2>6 DEF TypeOK, DiskConsistent, FlightConsistent, OwnVolumes, KnownVolumes,
       LVCreate, Goto, Return, MakeLate, Stopping, procVars
  <2>7. CASE GetNewLV(w)
    BY <2>7 DEF TypeOK, DiskConsistent, FlightConsistent, OwnVolumes, KnownVolumes,
       GetNewLV, Goto, Return, lvmVars, procVars
  <2>8. CASE Reply(w)
    BY <2>8, Zenon DEF TypeOK, DiskConsistent, FlightConsistent, OwnVolumes, KnownVolumes, Reply,
       Goto, Return, lvmVars, procVars
  <2> QED
    BY <1>2, <2>1, <2>2, <2>3, <2>4, <2>5, <2>6, <2>7, <2>8, Zenon DEF EnsureStep
<1>3. ASSUME NEW w \in Calls, ProvisionStep(w) PROVE KnownVolumes'
  <2>1. CASE Join(w)
    BY <2>1 DEF TypeOK, DiskConsistent, FlightConsistent, OwnVolumes, KnownVolumes, Join,
       Goto, lvmVars, procVars
  <2>2. CASE ProvisionGet(w)
    BY <2>2 DEF TypeOK, DiskConsistent, FlightConsistent, OwnVolumes, KnownVolumes,
       ProvisionGet, Goto, FlightDone, Sharing, lvmVars, procVars
  <2>3. CASE StaleGet(w)
    BY <2>3, Zenon DEF TypeOK, DiskConsistent, FlightConsistent, OwnVolumes, KnownVolumes,
       StaleGet, Goto, lvmVars, procVars
  <2>4. CASE StaleMknodes(w)
    BY <2>4 DEF TypeOK, DiskConsistent, FlightConsistent, OwnVolumes, KnownVolumes,
       StaleMknodes, Goto, procVars
  <2>5. CASE StaleReadDir(w)
    BY <2>5, Zenon DEF TypeOK, DiskConsistent, FlightConsistent, OwnVolumes, KnownVolumes,
       StaleReadDir, Goto, lvmVars, procVars
  <2>6. CASE StaleUnlink(w)
    BY <2>6 DEF TypeOK, DiskConsistent, FlightConsistent, OwnVolumes, KnownVolumes,
       StaleUnlink, FlightFails, Sharing, procVars
  <2>7. CASE StaleRmdir(w)
    BY <2>7, Zenon DEF TypeOK, DiskConsistent, FlightConsistent, OwnVolumes, KnownVolumes,
       StaleRmdir, Goto, procVars
  <2>8. CASE VGCreate(w)
    BY <2>8 DEF TypeOK, DiskConsistent, FlightConsistent, OwnVolumes, KnownVolumes,
       VGCreate, Goto, FlightFails, Sharing, procVars
  <2>9. CASE ProvisionGetNew(w)
    BY <2>9 DEF TypeOK, DiskConsistent, FlightConsistent, OwnVolumes, KnownVolumes,
       ProvisionGetNew, FlightDone, FlightFails, Sharing, lvmVars, procVars
  <2> QED
    BY <1>3, <2>1, <2>2, <2>3, <2>4, <2>5, <2>6, <2>7, <2>8, <2>9, Zenon DEF ProvisionStep
<1>4. ASSUME NEW i \in Instances, CleanupStep(i) PROVE KnownVolumes'
  <2>1. CASE CleanupList(i)
    BY <2>1, Zenon DEF TypeOK, DiskConsistent, FlightConsistent, OwnVolumes, KnownVolumes,
       CleanupList, CleanupGoto, lvmVars, callVars
  <2>2. CASE CleanupRemoveVG(i)
    BY <2>2, RemovedLVs DEF TypeOK, DiskConsistent, FlightConsistent, OwnVolumes,
       KnownVolumes, CleanupRemoveVG, CleanupGoto, Overtake
  <2>3. CASE CleanupRemovePVs(i)
    BY <2>3, Zenon DEF TypeOK, DiskConsistent, FlightConsistent, OwnVolumes, KnownVolumes,
       CleanupRemovePVs, CleanupGoto, callVars
  <2>4. CASE CleanupFail(i)
    BY <2>4, Zenon DEF TypeOK, DiskConsistent, FlightConsistent, OwnVolumes, KnownVolumes,
       CleanupFail, CleanupGoto, lvmVars, callVars
  <2> QED
    BY <1>4, <2>1, <2>2, <2>3, <2>4, Zenon DEF CleanupStep
<1>5. ASSUME NEW w \in Calls, Fail(w) PROVE KnownVolumes'
  BY <1>5 DEF TypeOK, DiskConsistent, FlightConsistent, OwnVolumes, KnownVolumes, Fail,
     FlightFails, Sharing, Goto, Return, MakeLate, Stopping, procVars
<1>6. ASSUME NEW v \in Volumes, AskDelete(v) PROVE KnownVolumes'
  BY <1>6, Zenon DEF TypeOK, DiskConsistent, FlightConsistent, OwnVolumes, KnownVolumes, AskDelete,
     lvmVars, procVars, callVars
<1>7. ASSUME NEW v \in Volumes, Delete(v) PROVE KnownVolumes'
  BY <1>7, RemovedLVs DEF TypeOK, DiskConsistent, FlightConsistent, OwnVolumes,
     KnownVolumes, Delete, Overtake, procVars
<1>8. ASSUME NEW i \in Instances, Shutdown(i) PROVE KnownVolumes'
  BY <1>8, Zenon DEF TypeOK, DiskConsistent, FlightConsistent, OwnVolumes, KnownVolumes, Shutdown,
     lvmVars, callVars
<1>9. ASSUME NEW i \in Instances, Exit(i) PROVE KnownVolumes'
  BY <1>9, Zenon DEF TypeOK, DiskConsistent, FlightConsistent, OwnVolumes, KnownVolumes, Exit,
     lvmVars, callVars
<1>10. ASSUME NEW i \in Instances, Crash(i) PROVE KnownVolumes'
  BY <1>10, Zenon DEF TypeOK, DiskConsistent, FlightConsistent, OwnVolumes, KnownVolumes, Crash,
     Lose, lvmVars
<1>11. ASSUME NEW i \in Instances, Start(i) PROVE KnownVolumes'
  BY <1>11, Zenon DEF TypeOK, DiskConsistent, FlightConsistent, OwnVolumes, KnownVolumes, Start,
     Stopping, lvmVars, callVars
<1>12. CASE Reboot
  BY <1>12, Zenon DEF TypeOK, DiskConsistent, FlightConsistent, OwnVolumes, KnownVolumes, Reboot,
     Lose
<1>13. CASE UNCHANGED vars
  BY <1>13, Zenon DEF TypeOK, DiskConsistent, FlightConsistent, OwnVolumes, KnownVolumes, vars,
     lvmVars, procVars, callVars
<1> QED
  BY <1>1, <1>2, <1>3, <1>4, <1>5, <1>6, <1>7, <1>8, <1>9, <1>10, <1>11, <1>12, <1>13, Zenon DEF
     Next

\* What Cleanup may take along was made late.
LEMMA CleanupInvStep ==
  ASSUME OneInstance, TypeOK, CleanupConsistent, [Next]_vars
  PROVE  CleanupConsistent'
<1> USE CallFacts
<1>1. ASSUME NEW w \in Calls, NEW v \in Volumes, EnsureVolume(w, v) PROVE CleanupConsistent'
  BY <1>1, Zenon DEF OneInstance, TypeOK, CleanupConsistent, EnsureVolume, Goto, lvmVars, procVars
<1>2. ASSUME NEW w \in Calls, EnsureStep(w) PROVE CleanupConsistent'
  <2>1. CASE CheckMetadata(w)
    BY <2>1, Zenon DEF OneInstance, TypeOK, CleanupConsistent, CheckMetadata, Goto, lvmVars,
       procVars
  <2>2. CASE CheckDeviceNode(w)
    BY <2>2, Zenon DEF OneInstance, TypeOK, CleanupConsistent, CheckDeviceNode, Goto, lvmVars,
       procVars
  <2>3. CASE RemoveCorrupted(w)
    BY <2>3, RemovedLVs, Zenon DEF OneInstance, TypeOK, CleanupConsistent, RemoveCorrupted, Goto,
       Return, procVars
  <2>4. CASE GetVolumeGroup(w)
    BY <2>4, Zenon DEF OneInstance, TypeOK, CleanupConsistent, GetVolumeGroup, Goto, lvmVars,
       procVars
  <2>5. CASE EnsurePhysicalVolumes(w)
    BY <2>5, Zenon DEF OneInstance, TypeOK, CleanupConsistent, EnsurePhysicalVolumes, Goto, Return,
       procVars
  <2>6. CASE LVCreate(w)
    BY <2>6, Zenon DEF OneInstance, TypeOK, CleanupConsistent, LVCreate, Goto, Return, MakeLate,
       Stopping, procVars
  <2>7. CASE GetNewLV(w)
    BY <2>7, Zenon DEF OneInstance, TypeOK, CleanupConsistent, GetNewLV, Goto, Return, lvmVars,
       procVars
  <2>8. CASE Reply(w)
    BY <2>8, Zenon DEF OneInstance, TypeOK, CleanupConsistent, Reply, Goto, Return, lvmVars,
       procVars
  <2> QED
    BY <1>2, <2>1, <2>2, <2>3, <2>4, <2>5, <2>6, <2>7, <2>8, Zenon DEF EnsureStep
<1>3. ASSUME NEW w \in Calls, ProvisionStep(w) PROVE CleanupConsistent'
  <2>1. CASE Join(w)
    BY <2>1, Zenon DEF OneInstance, TypeOK, CleanupConsistent, Join, Goto, lvmVars, procVars
  <2>2. CASE ProvisionGet(w)
    BY <2>2, Zenon DEF OneInstance, TypeOK, CleanupConsistent, ProvisionGet, Goto, FlightDone,
       Sharing, lvmVars, procVars
  <2>3. CASE StaleGet(w)
    BY <2>3, Zenon DEF OneInstance, TypeOK, CleanupConsistent, StaleGet, Goto, lvmVars, procVars
  <2>4. CASE StaleMknodes(w)
    BY <2>4, Zenon DEF OneInstance, TypeOK, CleanupConsistent, StaleMknodes, Goto, procVars
  <2>5. CASE StaleReadDir(w)
    BY <2>5, Zenon DEF OneInstance, TypeOK, CleanupConsistent, StaleReadDir, Goto, lvmVars,
       procVars
  <2>6. CASE StaleUnlink(w)
    BY <2>6, Zenon DEF OneInstance, TypeOK, CleanupConsistent, StaleUnlink, FlightFails, Sharing,
       procVars
  <2>7. CASE StaleRmdir(w)
    BY <2>7, Zenon DEF OneInstance, TypeOK, CleanupConsistent, StaleRmdir, Goto, procVars
  <2>8. CASE VGCreate(w)
    BY <2>8, Zenon DEF OneInstance, TypeOK, CleanupConsistent, VGCreate, Goto, FlightFails,
       Sharing, procVars
  <2>9. CASE ProvisionGetNew(w)
    BY <2>9, Zenon DEF OneInstance, TypeOK, CleanupConsistent, ProvisionGetNew, FlightDone,
       FlightFails, Sharing, lvmVars, procVars
  <2> QED
    BY <1>3, <2>1, <2>2, <2>3, <2>4, <2>5, <2>6, <2>7, <2>8, <2>9, Zenon DEF ProvisionStep
<1>4. ASSUME NEW i \in Instances, CleanupStep(i) PROVE CleanupConsistent'
  <2>1. CASE CleanupList(i)
    BY <2>1, Zenon DEF OneInstance, TypeOK, CleanupConsistent, CleanupList, CleanupGoto, lvmVars,
       callVars
  <2>2. CASE CleanupRemoveVG(i)
    BY <2>2, RemovedLVs, Zenon DEF OneInstance, TypeOK, CleanupConsistent, CleanupRemoveVG,
       CleanupGoto, Overtake
  <2>3. CASE CleanupRemovePVs(i)
    BY <2>3, Zenon DEF OneInstance, TypeOK, CleanupConsistent, CleanupRemovePVs, CleanupGoto,
       callVars
  <2>4. CASE CleanupFail(i)
    BY <2>4, Zenon DEF OneInstance, TypeOK, CleanupConsistent, CleanupFail, CleanupGoto, lvmVars,
       callVars
  <2> QED
    BY <1>4, <2>1, <2>2, <2>3, <2>4, Zenon DEF CleanupStep
<1>5. ASSUME NEW w \in Calls, Fail(w) PROVE CleanupConsistent'
  BY <1>5, Zenon DEF OneInstance, TypeOK, CleanupConsistent, Fail, FlightFails, Sharing, Goto,
     Return, MakeLate, Stopping, procVars
<1>6. ASSUME NEW v \in Volumes, AskDelete(v) PROVE CleanupConsistent'
  BY <1>6, Zenon DEF OneInstance, TypeOK, CleanupConsistent, AskDelete, lvmVars, procVars, callVars
<1>7. ASSUME NEW v \in Volumes, Delete(v) PROVE CleanupConsistent'
  BY <1>7, RemovedLVs, Zenon DEF OneInstance, TypeOK, CleanupConsistent, Delete, Overtake, procVars
<1>8. ASSUME NEW i \in Instances, Shutdown(i) PROVE CleanupConsistent'
  BY <1>8, Zenon DEF OneInstance, TypeOK, CleanupConsistent, Shutdown, lvmVars, callVars
<1>9. ASSUME NEW i \in Instances, Exit(i) PROVE CleanupConsistent'
  BY <1>9, Zenon DEF OneInstance, TypeOK, CleanupConsistent, Exit, lvmVars, callVars
<1>10. ASSUME NEW i \in Instances, Crash(i) PROVE CleanupConsistent'
  BY <1>10, Zenon DEF OneInstance, TypeOK, CleanupConsistent, Crash, Lose, lvmVars
<1>11. ASSUME NEW i \in Instances, Start(i) PROVE CleanupConsistent'
  BY <1>11, Zenon DEF OneInstance, TypeOK, CleanupConsistent, Start, Stopping, lvmVars, callVars
<1>12. CASE Reboot
  BY <1>12, Zenon DEF OneInstance, TypeOK, CleanupConsistent, Reboot, Lose
<1>13. CASE UNCHANGED vars
  BY <1>13, Zenon DEF OneInstance, TypeOK, CleanupConsistent, vars, lvmVars, procVars, callVars
<1> QED
  BY <1>1, <1>2, <1>3, <1>4, <1>5, <1>6, <1>7, <1>8, <1>9, <1>10, <1>11, <1>12, <1>13, Zenon DEF
     Next

-----------------------------------------------------------------------------
\* A node whose driver has never run satisfies the invariant.
LEMMA InitHolds == Init => ProvisioningInv
<1> SUFFICES ASSUME Init PROVE ProvisioningInv
  BY Zenon
<1>1. TypeOK
  <2>1. boots \in 0..MaxBoots /\ stops \in 0..MaxStops
    BY ProvisioningBounds DEF Init
  <2>2. dir \in BOOLEAN
    BY Zenon DEF Init
  <2>3. pvs \subseteq Devices /\ doomed \subseteq Volumes /\ overtaken \subseteq Calls
    BY DeviceAssumption, Zenon DEF Init
  <2> QED
    BY <2>1, <2>2, <2>3, Zenon DEF Init, TypeOK, CallSteps
<1>2. DiskConsistent /\ FlightConsistent /\ VGCreateUnblocked
  BY Zenon DEF Init, DiskConsistent, FlightConsistent, VGCreateUnblocked
<1>3. OwnVolumes /\ KnownVolumes /\ CleanupConsistent
  BY Zenon DEF Init, OwnVolumes, KnownVolumes, CleanupConsistent
<1> QED
  BY <1>1, <1>2, <1>3, Zenon DEF ProvisioningInv

\* The inductive invariant holds of one driver instance, however many calls it
\* serves at once and wherever it or the node is stopped.
THEOREM ProvisioningInvariant ==
  ASSUME OneInstance
  PROVE  Spec => []ProvisioningInv
<1>1. ProvisioningInv /\ [Next]_vars => ProvisioningInv'
  BY OneInstance, TypeStep, DiskStep, FlightStep, OwnStep, KnownStep, CleanupInvStep, Zenon
     DEF ProvisioningInv
<1> QED
  BY InitHolds, <1>1, PTL DEF Spec

\* vgcreate never finds the leavings of an earlier volume group in its way.
THEOREM Unblocked ==
  ASSUME OneInstance
  PROVE  Spec => []VGCreateUnblocked
<1>1. ProvisioningInv => VGCreateUnblocked
  BY Zenon DEF ProvisioningInv
<1> QED
  BY ProvisioningInvariant, <1>1, PTL

\* EnsureVolume answers OK only for volumes that can be used.
THEOREM EnsuredHeld ==
  ASSUME OneInstance
  PROVE  Spec => []EnsuredVolumeHeld
<1>1. ProvisioningInv => EnsuredVolumeHeld
  BY Zenon DEF ProvisioningInv, EnsuredVolumeHeld, KnownVolumes, Held
<1> QED
  BY ProvisioningInvariant, <1>1, PTL

\* The removal of stale nodes never takes the node of a live volume: while it
\* runs, there is no volume group and so no volume.
THEOREM LiveNodesKept ==
  ASSUME OneInstance
  PROVE  Spec => LiveNodeKept
<1>1. ProvisioningInv => \A w \in Calls : pc[w] = "unlink" => lvs = {}
  BY Zenon DEF ProvisioningInv, FlightConsistent, DiskConsistent
<1>2. ProvisioningInv /\ [Next]_vars =>
        [\A w \in Calls, v \in lvs :
           pc[w] = "unlink" /\ v \in nodes => v \in nodes' \/ entries'[w] = entries[w]]_vars
  BY <1>1, Zenon
<1> QED
  BY ProvisioningInvariant, <1>2, PTL DEF Spec, LiveNodeKept

-----------------------------------------------------------------------------
(* The layer implements VolumeStore *)

storeVars == <<Held, doomed, late, boots>>

\* Steps that touch neither metadata nor nodes mean nothing to the store.
LEMMA SilentStep ==
  ASSUME UNCHANGED <<lvs, nodes, doomed, late, boots>>
  PROVE  UNCHANGED storeVars
BY Zenon DEF storeVars, Held

\* EnsureVolume itself makes volumes; what it removes had no node.
LEMMA EnsureStoreStep ==
  ASSUME ProvisioningInv, NEW w \in Calls, EnsureStep(w)
  PROVE  [Store!Next]_storeVars
<1>1. CASE CheckMetadata(w)
  BY <1>1, SilentStep, Zenon DEF CheckMetadata, lvmVars, procVars
<1>2. CASE CheckDeviceNode(w)
  BY <1>2, SilentStep, Zenon DEF CheckDeviceNode, lvmVars, procVars
<1>3. CASE RemoveCorrupted(w)
  <2>1. vol[w] \notin nodes
    BY <1>3, Zenon DEF ProvisioningInv, KnownVolumes, RemoveCorrupted
  <2>2. Held' = Held
    BY <1>3, <2>1, Zenon DEF RemoveCorrupted, RemoveLVs, Held
  <2> QED
    BY <1>3, <2>2, Zenon DEF RemoveCorrupted, procVars, storeVars
<1>4. CASE GetVolumeGroup(w)
  BY <1>4, SilentStep, Zenon DEF GetVolumeGroup, lvmVars, procVars
<1>5. CASE EnsurePhysicalVolumes(w)
  BY <1>5, SilentStep, Zenon DEF EnsurePhysicalVolumes, procVars
<1>6. CASE LVCreate(w)
  <2>1. vol[w] \in Volumes
    BY <1>6, BusyVolume, Zenon DEF ProvisioningInv, LVCreate
  <2>2. Held' \in {Held, Held \cup {vol[w]}} /\ late' \in {late, late \cup {vol[w]}}
    BY <1>6, Zenon DEF LVCreate, MakeLate, Held
  <2>3. Store!Create(vol[w])
    BY <1>6, <2>2, Zenon DEF LVCreate, procVars, Store!Create
  <2> QED
    BY <2>1, <2>3, Zenon DEF Store!Next
<1>7. CASE GetNewLV(w)
  BY <1>7, SilentStep, Zenon DEF GetNewLV, lvmVars, procVars
<1>8. CASE Reply(w)
  BY <1>8, SilentStep, Zenon DEF Reply, lvmVars, procVars
<1> QED
  BY <1>1, <1>2, <1>3, <1>4, <1>5, <1>6, <1>7, <1>8, Zenon DEF EnsureStep

\* Nodes go only while there is no volume at all.
LEMMA ProvisionStoreStep ==
  ASSUME ProvisioningInv, NEW w \in Calls, ProvisionStep(w)
  PROVE  UNCHANGED storeVars
<1>1. CASE Join(w)
  BY <1>1, SilentStep, Zenon DEF Join, lvmVars, procVars
<1>2. CASE ProvisionGet(w)
  BY <1>2, SilentStep, Zenon DEF ProvisionGet, lvmVars, procVars
<1>3. CASE StaleGet(w)
  BY <1>3, SilentStep, Zenon DEF StaleGet, lvmVars, procVars
<1>4. CASE StaleMknodes(w)
  <2>1. lvs = {}
    BY <1>4, Zenon DEF ProvisioningInv, FlightConsistent, DiskConsistent, StaleMknodes
  <2> QED
    BY <1>4, <2>1, Zenon DEF StaleMknodes, procVars, storeVars, Held
<1>5. CASE StaleReadDir(w)
  BY <1>5, SilentStep, Zenon DEF StaleReadDir, lvmVars, procVars
<1>6. CASE StaleUnlink(w)
  <2>1. lvs = {}
    BY <1>6, Zenon DEF ProvisioningInv, FlightConsistent, DiskConsistent, StaleUnlink
  <2> QED
    BY <1>6, <2>1, Zenon DEF StaleUnlink, procVars, storeVars, Held
<1>7. CASE StaleRmdir(w)
  BY <1>7, SilentStep, Zenon DEF StaleRmdir, procVars
<1>8. CASE VGCreate(w)
  BY <1>8, SilentStep, Zenon DEF VGCreate, procVars
<1>9. CASE ProvisionGetNew(w)
  BY <1>9, SilentStep, Zenon DEF ProvisionGetNew, lvmVars, procVars
<1> QED
  BY <1>1, <1>2, <1>3, <1>4, <1>5, <1>6, <1>7, <1>8, <1>9, Zenon DEF ProvisionStep

\* Cleanup takes only volumes made since the shutdown began.
LEMMA CleanupStoreStep ==
  ASSUME ProvisioningInv, NEW i \in Instances, CleanupStep(i)
  PROVE  [Store!Next]_storeVars
<1>1. CASE CleanupRemoveVG(i)
  <2>1. CASE vgDevs = {}
    BY <1>1, <2>1, SilentStep, Zenon DEF CleanupRemoveVG
  <2>2. CASE vgDevs # {}
    <3>1. lvs \subseteq late
      BY <1>1, Zenon DEF ProvisioningInv, CleanupConsistent, CleanupRemoveVG
    <3>2. Held \subseteq late /\ Held' = {}
      BY <1>1, <2>2, <3>1, Zenon DEF CleanupRemoveVG, RemoveLVs, Held
    <3>3. Store!Shutdown
      BY <1>1, <3>2, Zenon DEF CleanupRemoveVG, Store!Shutdown
    <3> QED
      BY <3>3, Zenon DEF Store!Next
  <2> QED
    BY <2>1, <2>2, Zenon
<1>2. CASE CleanupList(i)
  BY <1>2, SilentStep, Zenon DEF CleanupList, lvmVars
<1>3. CASE CleanupRemovePVs(i)
  BY <1>3, SilentStep, Zenon DEF CleanupRemovePVs
<1>4. CASE CleanupFail(i)
  BY <1>4, SilentStep, Zenon DEF CleanupFail, lvmVars
<1> QED
  BY <1>1, <1>2, <1>3, <1>4, Zenon DEF CleanupStep

\* Every step is one of the store's, or means nothing to it.
LEMMA StoreStep ==
  ASSUME ProvisioningInv, [Next]_vars
  PROVE  [Store!Next]_storeVars
<1>1. ASSUME NEW w \in Calls, NEW v \in Volumes, EnsureVolume(w, v)
      PROVE  [Store!Next]_storeVars
  BY <1>1, SilentStep, Zenon DEF EnsureVolume, lvmVars, procVars
<1>2. ASSUME NEW w \in Calls, Fail(w) PROVE [Store!Next]_storeVars
  <2>1. vol[w] \in Volumes
    BY <1>2, BusyVolume, Zenon DEF ProvisioningInv, Fail
  <2>2. Held' \in {Held, Held \cup {vol[w]}} /\ late' \in {late, late \cup {vol[w]}}
    BY <1>2, Zenon DEF Fail, MakeLate, Held
  <2>3. Store!Create(vol[w])
    BY <1>2, <2>2, Zenon DEF Fail, procVars, Store!Create
  <2> QED
    BY <2>1, <2>3, Zenon DEF Store!Next
<1>3. ASSUME NEW v \in Volumes, AskDelete(v) PROVE [Store!Next]_storeVars
  <2>1. Store!AskRemoval(v)
    BY <1>3, Zenon DEF AskDelete, lvmVars, procVars, Held, Store!AskRemoval
  <2> QED
    BY <2>1, Zenon DEF Store!Next
<1>4. ASSUME NEW v \in Volumes, Delete(v) PROVE [Store!Next]_storeVars
  <2>1. Held' \in {Held, Held \ {v}}
    BY <1>4, Zenon DEF Delete, RemoveLVs, Held
  <2>2. Store!Remove(v)
    BY <1>4, <2>1, Zenon DEF Delete, procVars, Store!Remove
  <2> QED
    BY <2>2, Zenon DEF Store!Next
<1>5. ASSUME NEW i \in Instances, Shutdown(i) \/ Exit(i) \/ Crash(i)
      PROVE  [Store!Next]_storeVars
  BY <1>5, SilentStep, Zenon DEF Shutdown, Exit, Crash, lvmVars
<1>6. ASSUME NEW i \in Instances, Start(i) PROVE [Store!Next]_storeVars
  <2>1. CASE late' = late
    BY <1>6, <2>1, SilentStep, Zenon DEF Start, lvmVars
  <2>2. CASE late' = {}
    <3>1. Store!Start
      BY <1>6, <2>2, Zenon DEF Start, lvmVars, Held, Store!Start
    <3> QED
      BY <3>1, Zenon DEF Store!Next
  <2> QED
    BY <1>6, <2>1, <2>2, Zenon DEF Start
<1>7. CASE Reboot
  <2>1. lvs \subseteq Volumes
    BY Zenon DEF ProvisioningInv, TypeOK
  <2>2. Held' \subseteq Volumes
    BY <1>7, <2>1, Zenon DEF Reboot, Held
  <2>3. Store!Reboot
    BY <1>7, <2>2, Zenon DEF Reboot, Store!Reboot
  <2> QED
    BY <2>3, Zenon DEF Store!Next
<1>8. CASE UNCHANGED vars
  BY <1>8, SilentStep, Zenon DEF vars, lvmVars, procVars
<1> QED
  BY <1>1, <1>2, <1>3, <1>4, <1>5, <1>6, <1>7, <1>8, EnsureStoreStep, ProvisionStoreStep,
     CleanupStoreStep, Zenon DEF Next

\* What EnsureVolume, the deletion, Cleanup, crashes and restarts do to the
\* volumes of a node is what VolumeStore allows: nothing loses a volume that
\* nobody asked to delete.
THEOREM StoreRefined ==
  ASSUME OneInstance
  PROVE  Spec => StoreSpec
<1>1. Init => Store!Init
  BY Zenon DEF Init, Held, Store!Init
<1>2. ProvisioningInv /\ [Next]_vars => [Store!Next]_storeVars
  BY StoreStep, Zenon
<1> QED
  BY <1>1, <1>2, ProvisioningInvariant, PTL DEF Spec, StoreSpec, Store!Spec, storeVars
=============================================================================
