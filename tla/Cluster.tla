------------------------------ MODULE Cluster ------------------------------
(***************************************************************************)
(* The state that the parts of the driver share for ONE volume: the        *)
(* PersistentVolume object in the API server, the copy of it each driver's *)
(* informer cache holds, the logical volume of that name on each node with *)
(* its mounts, and the nodes themselves.                                   *)
(*                                                                         *)
(* The PV object is kept as the history of its versions.  The driver reads *)
(* it through a cached client, so what a handler on node n sees is the     *)
(* version hist[seen[n]], which may lag behind the API server.             *)
(***************************************************************************)
EXTENDS Naturals, Sequences, FiniteSets

CONSTANTS Nodes,      \* the nodes that run the driver's DaemonSet
          None,       \* "no node"
          RemovePvNodeAffinity, \* the flag --run-alongside-webhook
          Block,      \* the volume is used as a raw block device
          MaxMoves,   \* bound: changes of the selected-node annotation
          MaxFaults   \* bound: restarts, node failures and failed lookups together

ASSUME NoneAssumption == None \notin Nodes
ASSUME AffinityFlagAssumption == RemovePvNodeAffinity \in BOOLEAN
ASSUME BlockAssumption == Block \in BOOLEAN
ASSUME BoundAssumption == MaxMoves \in Nat /\ MaxFaults \in Nat

VARIABLES hist,       \* versions of the PV object, hist[1] being "no such PV"
          seen,       \* seen[n]: the version in the informer cache of node n
          lvs,        \* nodes whose volume group holds the logical volume
          mounts,     \* nodes where the device is mounted on the staging path
          dirs,       \* nodes where the staging directory exists
          pod,        \* pod[n]: what the pod on node n has of the volume
          hasty,      \* history: nodes where a collector that had found no PV
                      \* acted although there is one, since the last staging
          up,         \* nodes that run (and are Ready)
          registered, \* nodes that have a Node object
          faults      \* number of faults so far

apiVars  == <<hist, seen>>
diskVars == <<lvs, mounts, dirs, pod, hasty>>
nodeVars == <<up, registered, faults>>
clusterVars == <<hist, seen, lvs, mounts, dirs, pod, hasty, up, registered, faults>>

-----------------------------------------------------------------------------
(* The PersistentVolume object *)

MaybeNode == Nodes \cup {None}

\* affinity: the node of the hostname topology term; initial: the volume
\* attribute selected-initial-node; selected: the annotation selected-node.
\* "Bound" stands for Available as well: no code tells the two apart.
PV == [phase    : {"Absent", "Bound", "Released"},
       deleting : BOOLEAN,
       affinity : MaybeNode,
       initial  : MaybeNode,
       selected : MaybeNode]

NoPV == [phase |-> "Absent", deleting |-> FALSE,
         affinity |-> None, initial |-> None, selected |-> None]

Current == hist[Len(hist)]
View(n) == hist[seen[n]]

\* The annotation, or the initial node when there is no annotation.
SelectedNode(pv) == IF pv.selected # None THEN pv.selected ELSE pv.initial

HasNodeAnnotationMismatch(pv, n) == SelectedNode(pv) \notin {None, n}

\* The node on which the PV object says its logical volume is.
Owner(pv) == IF pv.affinity # None THEN pv.affinity ELSE SelectedNode(pv)

Publish(pv) == hist' = Append(hist, pv)

Moves == Cardinality({k \in 2..Len(hist) :
                        /\ hist[k].phase # "Absent"
                        /\ hist[k].selected # hist[k - 1].selected})

-----------------------------------------------------------------------------
(* What LVM and the mounter do on node n *)

\* What the pod on a node has of the volume.  "bound": NodePublishVolume has
\* bound it at the target path, no container runs yet; "running": a container
\* has it, in its own mount namespace or as an open device; "bare": the pod was
\* given the staging directory with nothing mounted on it, or has lost the
\* volume at its target path before its container started.
PodStates == {"none", "bound", "running", "bare"}

\* lvremove refuses a device that is mounted or held open.  The device node
\* bound at a pod's target does not hold a block volume open.
LVRemovable(n) ==
  /\ n \notin mounts
  /\ pod[n] \notin (IF Block THEN {"running"} ELSE {"bound", "running"})

\* Remove the logical volume.  A block volume goes from under its target.
RemoveLV(n) ==
  /\ lvs' = lvs \ {n}
  /\ pod' = [pod EXCEPT ![n] = IF Block /\ @ = "bound" THEN "bare" ELSE @]

\* CleanupStagingDir up to and including Unmount: what findmnt lists for the
\* device, the staging path and the pod's target path, is unmounted.  A running
\* container keeps what it has, and its presence may make an unmount fail.
CleanupUnmount(n, ok) ==
  \/ /\ ok
     /\ mounts' = mounts \ {n}
     /\ pod' = [pod EXCEPT ![n] = IF ~Block /\ @ = "bound" THEN "bare" ELSE @]
  \/ /\ ~ok
     /\ pod[n] = "running"
     /\ mounts' \in {mounts, mounts \ {n}}
     /\ UNCHANGED pod

\* CleanupStagingDir from os.Remove on.  Until then the staging directory is
\* there with nothing mounted on it; if it has been mounted again, os.Remove
\* fails and CleanupStagingDir starts over, or gives up after ten attempts.
CleanupRemoveDir(n, ok) ==
  \/ ok /\ n \notin mounts /\ dirs' = dirs \ {n}
  \/ ~ok /\ n \in mounts /\ UNCHANGED dirs

\* Where CleanupStagingDir goes after unmounting: findmnt names the directories
\* to remove, so there is none when the staging path was not mounted.
AfterUnmount(n, done) == IF n \in mounts THEN "rmdir" ELSE done

ClusterInit ==
  /\ hist = <<NoPV>>
  /\ seen = [n \in Nodes |-> 1]
  /\ lvs = {}
  /\ mounts = {}
  /\ dirs = {}
  /\ pod = [n \in Nodes |-> "none"]
  /\ hasty = {}
  /\ up = Nodes
  /\ registered = Nodes
  /\ faults = 0

ClusterTypeOK ==
  /\ hist \in Seq(PV) /\ Len(hist) >= 1
  /\ seen \in [Nodes -> 1..Len(hist)]
  /\ lvs \subseteq Nodes
  /\ mounts \subseteq Nodes
  /\ dirs \subseteq Nodes
  /\ pod \in [Nodes -> PodStates]
  /\ hasty \subseteq Nodes
  /\ up \subseteq Nodes
  /\ registered \subseteq Nodes
  /\ faults \in 0..MaxFaults
=============================================================================
