-------------------------- MODULE ControllerServer --------------------------
(***************************************************************************)
(* The CSI controller server of each node (CreateVolume, DeleteVolume) and *)
(* the external-provisioner sidecar that calls it.  The sidecar runs with  *)
(* --node-deployment: every node has one, and a PV without hostname        *)
(* topology is offered for deletion to all of them.                        *)
(***************************************************************************)
EXTENDS Cluster

CONSTANT ExtraCreateMetadata   \* the sidecar's flag --extra-create-metadata

ASSUME MetadataFlagAssumption == ExtraCreateMetadata \in BOOLEAN

VARIABLES pending,     \* a claim waits for its volume
          responses,   \* CreateVolume responses the provisioner has received
          del          \* del[n]: progress of DeleteVolume on node n

controllerVars == <<pending, responses, del>>

Response == [affinity : MaybeNode, initial : MaybeNode]

-----------------------------------------------------------------------------
(* CreateVolume on node n.  The request carries the name and namespace of  *)
(* the claim if the sidecar adds them.  The call may also fail, or its     *)
(* answer be lost, after EnsureVolume has created the logical volume.      *)

CreateVolumeResponse(n) ==
  IF RemovePvNodeAffinity /\ ExtraCreateMetadata
  THEN [affinity |-> None, initial |-> n]
  ELSE [affinity |-> n, initial |-> None]

CreateVolume(n) ==
  /\ n \in up
  /\ pending
  /\ lvs' = lvs \cup {n}
  /\ responses' \in {responses, responses \cup {CreateVolumeResponse(n)}}
  /\ UNCHANGED <<apiVars, mounts, dirs, pod, hasty, nodeVars, pending, del>>

\* The provisioner saves the PV of one successful call and drops the rest.
SaveVolume(r) ==
  /\ r \in responses
  /\ Publish([NoPV EXCEPT !.phase = "Bound",
                          !.affinity = r.affinity,
                          !.initial = r.initial])
  /\ pending' = FALSE
  /\ responses' = {}
  /\ UNCHANGED <<seen, diskVars, nodeVars, del>>

\* The claim is deleted before it has a PV.
WithdrawClaim ==
  /\ pending
  /\ pending' = FALSE
  /\ responses' = {}
  /\ UNCHANGED <<clusterVars, del>>

-----------------------------------------------------------------------------
(* DeleteVolume on node n: look the PV up in the cache, unmount the device, *)
(* remove the logical volume, answer.                                      *)

\* Mutant: only the annotation counts.
DeleteVolumeVerdictNoFallback(pv, n) ==
  IF pv.phase = "Absent" THEN "ok"
  ELSE IF pv.affinity # None THEN "unmount"
  ELSE IF pv.selected \notin registered \cup {None} THEN "ok"
  ELSE IF pv.selected # n THEN "idle" ELSE "unmount"

\* What the handler concludes from the PV it has read.
DeleteVolumeVerdict(pv, n) ==
  LET node == SelectedNode(pv)
  IN  IF pv.phase = "Absent" THEN "ok"
      ELSE IF pv.affinity # None \/ node = None THEN "unmount"
      ELSE IF node \notin registered THEN "ok"
      ELSE IF node # n THEN "idle" ELSE "unmount"

\* The provisioner of n offers n the Released PVs whose topology admits n.
OfferedForDeletion(n) ==
  /\ Current.phase = "Released"
  /\ Current.affinity \in {None, n}

DeleteVolumeCheck(n) ==
  /\ n \in up
  /\ del[n] = "idle"
  /\ OfferedForDeletion(n)
  /\ del' = [del EXCEPT ![n] = DeleteVolumeVerdict(View(n), n)]
  /\ UNCHANGED <<clusterVars, pending, responses>>

DeleteVolumeUnmount(n) ==
  /\ del[n] = "unmount"
  /\ \E ok \in BOOLEAN :
       /\ CleanupUnmount(n, ok)
       /\ del' = [del EXCEPT ![n] = IF ok THEN AfterUnmount(n, "remove") ELSE "idle"]
  /\ UNCHANGED <<apiVars, lvs, dirs, hasty, nodeVars, pending, responses>>

DeleteVolumeRemoveDir(n) ==
  /\ del[n] = "rmdir"
  /\ \E ok \in BOOLEAN, next \in {"remove", "unmount", "idle"} :
       /\ CleanupRemoveDir(n, ok)
       /\ ok <=> next = "remove"
       /\ del' = [del EXCEPT ![n] = next]
  /\ UNCHANGED <<apiVars, lvs, mounts, pod, hasty, nodeVars, pending, responses>>

\* lvremove is retried while the device is in use, until the 10s timeout.
DeleteVolumeRemove(n) ==
  /\ del[n] = "remove"
  /\ \/ /\ n \in lvs => LVRemovable(n)
        /\ RemoveLV(n)
        /\ del' = [del EXCEPT ![n] = "ok"]
     \/ /\ n \in lvs /\ ~LVRemovable(n)
        /\ del' = [del EXCEPT ![n] = "idle"]
        /\ UNCHANGED <<lvs, pod>>
  /\ UNCHANGED <<apiVars, mounts, dirs, hasty, nodeVars, pending, responses>>

\* The provisioner deletes the PV object once DeleteVolume has succeeded.
DeletePV(n) ==
  /\ del[n] = "ok"
  /\ del' = [del EXCEPT ![n] = "idle"]
  /\ IF Current.phase = "Absent" THEN UNCHANGED hist ELSE Publish(NoPV)
  /\ UNCHANGED <<seen, diskVars, nodeVars, pending, responses>>

ControllerNext ==
  \/ \E n \in Nodes : CreateVolume(n)
  \/ \E r \in responses : SaveVolume(r)
  \/ WithdrawClaim
  \/ \E n \in Nodes : \/ DeleteVolumeCheck(n) \/ DeleteVolumeUnmount(n)
                      \/ DeleteVolumeRemoveDir(n) \/ DeleteVolumeRemove(n) \/ DeletePV(n)

ControllerInit ==
  /\ pending = TRUE
  /\ responses = {}
  /\ del = [n \in Nodes |-> "idle"]

ControllerTypeOK ==
  /\ pending \in BOOLEAN
  /\ responses \subseteq Response
  /\ del \in [Nodes -> {"idle", "unmount", "rmdir", "remove", "ok"}]

\* A restart of the driver pod on n drops its calls and its sidecar's answers.
ControllerRestart(n) ==
  /\ del' = [del EXCEPT ![n] = "idle"]
  /\ responses' = {r \in responses : n \notin {r.affinity, r.initial}}
=============================================================================
