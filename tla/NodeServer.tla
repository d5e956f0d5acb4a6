----------------------------- MODULE NodeServer -----------------------------
(***************************************************************************)
(* The CSI node server of each node: NodeStageVolume in the steps between  *)
(* which other nodes and the collectors can run, and the pod that uses the *)
(* staged volume.  NodeUnstageVolume leaves the device mounted.            *)
(***************************************************************************)
EXTENDS Cluster

VARIABLE stage   \* stage[n]: progress of staging on node n

StageAt(n, pc) == stage' = [stage EXCEPT ![n] = pc]

-----------------------------------------------------------------------------
\* Does NodeStageVolume on n have to record n in the PV it has read?
NeedsPatch(pv, n) == RemovePvNodeAffinity /\ HasNodeAnnotationMismatch(pv, n)

\* kubelet calls NodeStageVolume for a pod scheduled to n.  A PV the cache
\* does not hold is not an error: the call goes straight on to the mount.
NodeStageRead(n) ==
  /\ n \in up
  /\ stage[n] = "idle"
  /\ Current.phase = "Bound"
  /\ Current.affinity \in {None, n}
  /\ LET pv == View(n)
     IN  StageAt(n, IF pv.phase = "Absent" THEN "mount"
                    ELSE IF NeedsPatch(pv, n) THEN "patch" ELSE "ensure")
  /\ UNCHANGED clusterVars

\* A merge patch without a resource version: it sets the annotation on the
\* newest object, whatever the cache held.
NodeStagePatch(n) ==
  /\ stage[n] = "patch"
  /\ Current.phase # "Absent"
  /\ \/ /\ Current.selected = n
        /\ UNCHANGED hist
     \/ /\ Current.selected # n
        /\ Moves < MaxMoves
        /\ Publish([Current EXCEPT !.selected = n])
  /\ StageAt(n, "ensure")
  /\ UNCHANGED <<seen, diskVars, nodeVars>>

\* NodeEnsureVolume: the logical volume is there, or is created empty.
NodeStageEnsure(n) ==
  /\ stage[n] = "ensure"
  /\ lvs' = lvs \cup {n}
  /\ StageAt(n, IF Block THEN "staged" ELSE "mount")
  /\ UNCHANGED <<apiVars, mounts, dirs, pod, hasty, nodeVars>>

\* Mutant: a staging directory that exists is taken for a mounted one.
NodeStageMountIfNoDir(n) ==
  /\ stage[n] = "mount"
  /\ Block \/ n \in lvs
  /\ mounts' = IF Block \/ n \in dirs THEN mounts ELSE mounts \cup {n}
  /\ dirs' = IF Block THEN dirs ELSE dirs \cup {n}
  /\ StageAt(n, "staged")
  /\ hasty' = hasty \ {n}
  /\ UNCHANGED <<apiVars, lvs, pod, nodeVars>>

\* EnsureMount makes the directory and FormatAndMount mounts the device on it;
\* nothing to do when already mounted.  A block volume whose PV was not in the
\* cache returns without any check.
NodeStageMount(n) ==
  /\ stage[n] = "mount"
  /\ Block \/ n \in lvs
  /\ mounts' = IF Block THEN mounts ELSE mounts \cup {n}
  /\ dirs' = IF Block THEN dirs ELSE dirs \cup {n}
  /\ StageAt(n, "staged")
  /\ hasty' = hasty \ {n}
  /\ UNCHANGED <<apiVars, lvs, pod, nodeVars>>

\* Each step may fail: the API server refuses the patch or the PV is gone,
\* the volume cannot be ensured (no space, LVM error), the mount fails.
NodeStageFail(n) ==
  /\ stage[n] \in {"patch", "ensure", "mount"}
  /\ StageAt(n, "idle")
  /\ UNCHANGED clusterVars

-----------------------------------------------------------------------------
SetPod(n, s) == pod' = [pod EXCEPT ![n] = s]

\* NodePublishVolume for a pod of a bound claim, once kubelet has the volume
\* for staged: it binds the staging directory as it finds it, mounted or bare,
\* or the device.  It fails if there is neither directory nor device.
PodPublish(n) ==
  /\ stage[n] = "staged"
  /\ Current.phase = "Bound"
  /\ pod[n] = "none"
  /\ n \in (IF Block THEN lvs ELSE dirs)
  /\ SetPod(n, IF Block \/ n \in mounts THEN "bound" ELSE "bare")
  /\ UNCHANGED <<apiVars, lvs, mounts, dirs, hasty, nodeVars, stage>>

\* A container starts on what is bound at the target path.
PodStart(n) ==
  /\ pod[n] = "bound"
  /\ SetPod(n, "running")
  /\ UNCHANGED <<apiVars, lvs, mounts, dirs, hasty, nodeVars, stage>>

\* The pod ends: NodeUnpublishVolume.
PodStop(n) ==
  /\ pod[n] # "none"
  /\ SetPod(n, "none")
  /\ UNCHANGED <<apiVars, lvs, mounts, dirs, hasty, nodeVars, stage>>

\* The last pod is gone: the device stays mounted; kubelet forgets the staging
\* and removes the staging directory unless something is mounted on it.
NodeUnstageVolume(n) ==
  /\ stage[n] = "staged"
  /\ pod[n] = "none"
  /\ StageAt(n, "idle")
  /\ dirs' = IF n \in mounts THEN dirs ELSE dirs \ {n}
  /\ hasty' = hasty \ {n}
  /\ UNCHANGED <<apiVars, lvs, mounts, pod, nodeVars>>

\* The claim is deleted; PVC protection waits for the pods to be gone.
ReleaseClaim ==
  /\ Current.phase = "Bound"
  /\ \A n \in Nodes : pod[n] = "none"
  /\ Publish([Current EXCEPT !.phase = "Released"])
  /\ UNCHANGED <<seen, diskVars, nodeVars, stage>>

NodeServerNext ==
  \/ \E n \in Nodes : \/ NodeStageRead(n) \/ NodeStagePatch(n)
                      \/ NodeStageEnsure(n) \/ NodeStageMount(n)
                      \/ NodeStageFail(n) \/ NodeUnstageVolume(n)
                      \/ PodPublish(n) \/ PodStart(n) \/ PodStop(n)
  \/ ReleaseClaim

NodeServerInit == stage = [n \in Nodes |-> "idle"]

NodeServerTypeOK ==
  stage \in [Nodes -> {"idle", "patch", "ensure", "mount", "staged"}]

\* A restart of the driver pod aborts the call in progress; what kubelet has
\* recorded as staged stays staged.
NodeServerRestart(n) ==
  stage' = [stage EXCEPT ![n] =
              IF @ = "staged" THEN "staged" ELSE "idle"]
=============================================================================
