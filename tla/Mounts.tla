------------------------------- MODULE Mounts -------------------------------
(***************************************************************************)
(* The mounts of one volume on one node.  Kubelet stages the volume and    *)
(* publishes it to the pods, one call after the other; a call it has given *)
(* up may still be running, because mount commands are not tied to the     *)
(* context of the call.  DeleteVolume, not NodeUnstageVolume, takes the    *)
(* staging mount down; so do the collectors of the node, the orphan        *)
(* scanner and the failover reconciler, also when they go by an old PV.    *)
(***************************************************************************)
EXTENDS Naturals, Sequences

CONSTANTS Pods,
          Staging,    \* the staging path; each pod stands for its target path
          MaxErrors   \* bound: calls given up, removals failed, strays, node restarts

ASSUME StagingAssumption == Staging \notin Pods
ASSUME MountBounds == MaxErrors \in Nat

VARIABLES mode,     \* "mount" or "block": the access type of the volume
          lv,       \* the logical volume exists
          paths,    \* paths that exist
          mounts,   \* mounts[x]: what is mounted on x, the topmost last
          pod,      \* pod[p]: life of the pod, as kubelet sees it
          staged,   \* whether kubelet takes the volume to be staged
          call,     \* call[s]: kubelet's call, and the one it has given up
          claim,    \* "bound"; "deleted": the volume is to go; "removed": so is the PV
          del, by, refs, ref, \* progress of a cleanup, and whose it is
          errors,
          disturbed, \* history: a cleanup was cut short, or the node restarted
          stolen     \* history: a collector took from what kubelet has staged

hostVars == <<lv, paths, mounts>>
podVars == <<pod, staged, claim>>
delVars == <<del, by, refs, ref>>
history == <<disturbed, stolen>>
mountVars == <<mode, hostVars, podVars, call, delVars, errors, history>>

Paths == Pods \cup {Staging}
Slots == {"kubelet", "late"}
NoCall == [op |-> "none", path |-> Staging, pc |-> "none"]

Calls == [op : {"none", "stage", "publish", "unpublish", "unstage"}, path : Paths,
          pc : {"none", "ensure", "mount", "unmount", "recheck"}]

\* "volume": the file system or device of the volume; "empty": the staging
\* directory itself, bound while nothing was mounted there.
Mounted == {"volume", "empty"}

MountsTypeOK ==
  /\ mode \in {"mount", "block"} /\ lv \in BOOLEAN
  /\ paths \subseteq Paths
  /\ mounts \in [Paths -> Seq(Mounted)]
  /\ pod \in [Pods -> {"absent", "starting", "published", "running", "stopping", "forced", "gone"}]
  /\ staged \in {"no", "uncertain", "yes"} /\ call \in [Slots -> Calls]
  /\ claim \in {"bound", "deleted", "removed"}
  /\ del \in {"none", "list", "unmount", "remove", "lvremove"}
  /\ by \in {"none", "DeleteVolume", "collector"}
  /\ refs \subseteq Paths /\ ref \in Paths
  /\ errors \in 0..MaxErrors
  /\ disturbed \in BOOLEAN /\ stolen \in BOOLEAN

\* CreateVolume has made the volume.
MountsInit ==
  /\ mode \in {"mount", "block"}
  /\ lv = TRUE /\ paths = {} /\ mounts = [x \in Paths |-> <<>>]
  /\ pod = [p \in Pods |-> "absent"] /\ staged = "no"
  /\ call = [s \in Slots |-> NoCall]
  /\ claim = "bound" /\ del = "none" /\ by = "none" /\ refs = {} /\ ref = Staging
  /\ errors = 0 /\ disturbed = FALSE /\ stolen = FALSE

-----------------------------------------------------------------------------
(* The host *)

HasVolume(x) == mounts[x] # <<>> /\ mounts[x][Len(mounts[x])] = "volume"
Holds(x) == \E i \in DOMAIN mounts[x] : mounts[x][i] = "volume"

\* IsLikelyNotMountPoint compares devices, so it misses a bind mount of a
\* directory of the same file system.
LikelyMountPoint(x) == HasVolume(x)
IsMountPoint(x) == mounts[x] # <<>>

Push(x, m) == mounts' = [mounts EXCEPT ![x] = Append(@, m)]
Pop(x) == mounts' = [mounts EXCEPT ![x] = SubSeq(@, 1, Len(@) - 1)]

-----------------------------------------------------------------------------
(* Calls *)

At(s, op, p) == call[s].op = op /\ call[s].pc = p
Goto(s, p) == call' = [call EXCEPT ![s].pc = p]
End(s) == call' = [call EXCEPT ![s] = NoCall]

Begin(op, x, p) ==
  /\ call["kubelet"] = NoCall
  /\ call' = [call EXCEPT !["kubelet"] = [op |-> op, path |-> x, pc |-> p]]

\* Kubelet takes note of an answer to a call it still waits for.
SetPod(s, p, before, after) ==
  pod' = IF s = "kubelet" /\ pod[p] = before THEN [pod EXCEPT ![p] = after] ELSE pod
SetStaged(s, b) == staged' = IF s = "kubelet" THEN b ELSE staged

Failed(s) == End(s) /\ UNCHANGED <<hostVars, podVars>>

-----------------------------------------------------------------------------
(* NodeStageVolume *)

\* Mutant: a staging directory that exists is taken for a mounted one.
StageEnsureDirOnly(s) ==
  /\ At(s, "stage", "ensure")
  /\ lv' = TRUE
  /\ paths' = IF mode = "block" THEN paths ELSE paths \cup {Staging}
  /\ IF mode = "block" \/ Staging \in paths
       THEN End(s) /\ SetStaged(s, "yes")
       ELSE Goto(s, "mount") /\ UNCHANGED staged
  /\ UNCHANGED <<mode, mounts, pod, claim, delVars, errors, history>>

\* NodeEnsureVolume creates the volume again if it is missing.  A block
\* volume needs no more; otherwise EnsureMount makes the directory, unless
\* the volume is mounted there already.
StageEnsure(s) ==
  /\ At(s, "stage", "ensure")
  /\ lv' = TRUE
  /\ paths' = IF mode = "block" THEN paths ELSE paths \cup {Staging}
  /\ IF mode = "block" \/ LikelyMountPoint(Staging)
       THEN End(s) /\ SetStaged(s, "yes")
       ELSE Goto(s, "mount") /\ UNCHANGED staged
  /\ UNCHANGED <<mode, mounts, pod, claim, delVars, errors, history>>

\* FormatAndMount: a device that is mounted there already is busy.
StageMount(s) ==
  /\ At(s, "stage", "mount")
  /\ \/ /\ lv /\ Staging \in paths /\ ~IsMountPoint(Staging)
        /\ Push(Staging, "volume")
        /\ End(s) /\ SetStaged(s, "yes")
        /\ UNCHANGED <<lv, paths, pod, claim>>
     \/ /\ ~lv \/ Staging \notin paths \/ IsMountPoint(Staging)
        /\ Failed(s)
  /\ UNCHANGED <<mode, delVars, errors, history>>

-----------------------------------------------------------------------------
(* NodePublishVolume *)

\* The target file of a block volume is made, and bound to whatever it is
\* bound to already; a target directory that is mounted is left alone.
PublishEnsure(s) ==
  /\ At(s, "publish", "ensure")
  /\ LET p == call[s].path IN
       /\ paths' = paths \cup {p}
       /\ IF mode = "mount" /\ LikelyMountPoint(p)
            THEN End(s) /\ SetPod(s, p, "starting", "published")
            ELSE Goto(s, "mount") /\ UNCHANGED pod
  /\ UNCHANGED <<mode, lv, mounts, staged, claim, delVars, errors, history>>

\* The bind mount, of the device of a block volume or of the staging
\* directory with what is mounted there.
PublishMount(s) ==
  /\ At(s, "publish", "mount")
  /\ LET p == call[s].path
         source == IF mode = "block" THEN lv ELSE Staging \in paths
         seen == IF mode = "block" \/ HasVolume(Staging) THEN "volume" ELSE "empty"
     IN \/ /\ source /\ p \in paths
           /\ Push(p, seen)
           /\ End(s) /\ SetPod(s, p, "starting", "published")
           /\ UNCHANGED <<lv, paths, staged, claim>>
        \/ /\ ~source \/ p \notin paths
           /\ Failed(s)
  /\ UNCHANGED <<mode, delVars, errors, history>>

-----------------------------------------------------------------------------
(* NodeUnpublishVolume: CleanupMountPoint takes one mount down and removes the
   path, if that was the only one.                                          *)

RemoveTarget(s, p) ==
  /\ paths' = paths \ {p}
  /\ End(s) /\ SetPod(s, p, "stopping", "gone")

\* Mutant: the path is mounted, so nothing is taken down.
UnpublishUnmountBusy(s) ==
  /\ At(s, "unpublish", "unmount")
  /\ LET p == call[s].path IN
       IF IsMountPoint(p)
         THEN Goto(s, "recheck") /\ UNCHANGED <<mounts, paths, pod>>
         ELSE RemoveTarget(s, p) /\ UNCHANGED mounts
  /\ UNCHANGED <<mode, lv, staged, claim, delVars, errors, history>>

UnpublishUnmount(s) ==
  /\ At(s, "unpublish", "unmount")
  /\ LET p == call[s].path IN
       IF IsMountPoint(p)
         THEN Pop(p) /\ Goto(s, "recheck") /\ UNCHANGED <<paths, pod>>
         ELSE RemoveTarget(s, p) /\ UNCHANGED mounts
  /\ UNCHANGED <<mode, lv, staged, claim, delVars, errors, history>>

\* Mutant: one unmount is taken to be enough.
UnpublishRecheckNot(s) ==
  /\ At(s, "unpublish", "recheck")
  /\ RemoveTarget(s, call[s].path)
  /\ UNCHANGED <<mode, lv, mounts, staged, claim, delVars, errors, history>>

\* A path that is mounted still is an error; kubelet calls again.
UnpublishRecheck(s) ==
  /\ At(s, "unpublish", "recheck")
  /\ LET p == call[s].path IN
       \/ ~IsMountPoint(p) /\ RemoveTarget(s, p)
       \/ IsMountPoint(p) /\ End(s) /\ UNCHANGED <<paths, pod>>
  /\ UNCHANGED <<mode, lv, mounts, staged, claim, delVars, errors, history>>

-----------------------------------------------------------------------------
(* NodeUnstageVolume does nothing.  Kubelet then removes the staging directory
   if nothing is mounted there.                                             *)
NodeUnstageVolume(s) ==
  /\ At(s, "unstage", "unmount")
  /\ End(s) /\ SetStaged(s, "no")
  /\ paths' = IF LikelyMountPoint(Staging) THEN paths ELSE paths \ {Staging}
  /\ stolen' = FALSE
  /\ UNCHANGED <<mode, lv, mounts, pod, claim, delVars, errors, disturbed>>
-----------------------------------------------------------------------------
(* DeleteVolume, once it has found that the volume is on this node, and the
   collectors: both clean up the mounts and remove the logical volume.      *)

BeginCleanup(who) ==
  /\ del = "none"
  /\ del' = "list" /\ by' = who
  /\ UNCHANGED <<mode, hostVars, podVars, call, refs, ref, history>>

DeleteVolume == claim = "deleted" /\ BeginCleanup("DeleteVolume") /\ UNCHANGED errors

\* The orphan scanner finds a volume that no PV stands for.
ScanFindsOrphan == claim = "removed" /\ lv /\ BeginCleanup("collector") /\ UNCHANGED errors

\* The scanner or the failover reconciler goes by a list or a PV of its cache
\* that names no PV for the volume yet, or another node.  Neither looks at the
\* claim, the pods or the mounts.
CollectorStrays ==
  /\ errors < MaxErrors /\ errors' = errors + 1
  /\ claim # "removed" /\ lv
  /\ BeginCleanup("collector")

\* Only a collector takes anything from a volume whose claim is bound.
NoteTheft ==
  stolen' = (stolen \/ (claim = "bound" /\ staged = "yes" /\ hostVars' # hostVars))

NoRefs == refs' = {} /\ ref' = Staging
CleanupEnds == del' = "none" /\ by' = "none"

\* The next path to clean up, in the order of findmnt, or the volume itself.
NextRef(R) ==
  /\ refs' = R
  /\ \/ R # {} /\ ref' \in R /\ del' = "unmount"
     \/ R = {} /\ ref' = Staging /\ del' = "lvremove"
  /\ UNCHANGED by

\* Mutant: NodeUnstageVolume is trusted to have unmounted the volume.
FindMountTargetsNot ==
  /\ del = "list"
  /\ NextRef({})
  /\ UNCHANGED <<mode, hostVars, podVars, call, errors, history>>

\* findmnt lists where the file system of the device is mounted.  It does not
\* list the bind mounts of the device file of a block volume.
FindMountTargets ==
  /\ del = "list"
  /\ NextRef({x \in Paths : mode = "mount" /\ Holds(x)})
  /\ UNCHANGED <<mode, hostVars, podVars, call, errors, history>>

CleanupUnmount ==
  /\ del = "unmount"
  /\ del' = "remove"
  /\ IF IsMountPoint(ref) THEN Pop(ref) ELSE UNCHANGED mounts
  /\ UNCHANGED <<mode, lv, paths, podVars, call, by, refs, ref, errors, disturbed>>
  /\ NoteTheft

\* Mutant: the directory is left where it is.
CleanupRemoveNot ==
  /\ del = "remove"
  /\ NextRef(refs \ {ref})
  /\ UNCHANGED <<mode, hostVars, podVars, call, errors, history>>

\* The directory, its data file and its parent go.  A directory with another
\* mount on it is busy: the cleanup starts over, or has done so often enough.
\* Then DeleteVolume fails, and a collector tries to remove the volume anyway.
CleanupRemove ==
  /\ del = "remove"
  /\ \/ /\ ~IsMountPoint(ref)
        /\ paths' = paths \ {ref}
        /\ NextRef(refs \ {ref})
     \/ /\ IsMountPoint(ref)
        /\ \/ del' = "list" /\ UNCHANGED by
           \/ by = "collector" /\ del' = "lvremove" /\ UNCHANGED by
           \/ by = "DeleteVolume" /\ CleanupEnds
        /\ NoRefs
        /\ UNCHANGED paths
  /\ UNCHANGED <<mode, lv, mounts, podVars, call, errors, disturbed>>
  /\ NoteTheft

\* A removal fails: the cleanup starts over, with findmnt.
RemoveFails ==
  /\ errors < MaxErrors
  /\ del = "remove"
  /\ del' = "list"
  /\ errors' = errors + 1
  /\ disturbed' = TRUE
  /\ NoRefs
  /\ UNCHANGED <<mode, hostVars, podVars, call, by, stolen>>

\* A mounted file system, or a container with the device open.
InUse ==
  \/ mode = "mount" /\ \E x \in Paths : Holds(x)
  \/ \E p \in Pods : pod[p] \in {"running", "forced"}

\* Delete polls while the volume is in use, then gives up; the provisioner
\* calls again.  A collector tries once, and again when it decides anew.
RemoveLogicalVolume ==
  /\ del = "lvremove"
  /\ \/ /\ ~InUse /\ lv' = FALSE
        /\ claim' = IF by = "DeleteVolume" THEN "removed" ELSE claim
     \/ InUse /\ UNCHANGED <<lv, claim>>
  /\ CleanupEnds
  /\ UNCHANGED <<mode, paths, mounts, pod, staged, call, refs, ref, errors, disturbed>>
  /\ NoteTheft

-----------------------------------------------------------------------------
(* Kubelet and the users *)

PodIn(states) == {p \in Pods : pod[p] \in states}

Published == {"published", "running"}
Wanting == Published \cup {"starting"}

Becomes(p, before, after) ==
  /\ pod[p] \in before
  /\ pod' = [pod EXCEPT ![p] = after]
  /\ UNCHANGED <<mode, hostVars, staged, claim, call, delVars, errors, history>>

PodStarts(p) == claim = "bound" /\ Becomes(p, {"absent"}, "starting")

\* The container opens the volume.  One that finds the target taken away holds
\* nothing of the volume, and is left "published".
ContainerStarts(p) == HasVolume(p) /\ Becomes(p, {"published"}, "running")

PodStops(p) == Becomes(p, {"starting", "published", "running"}, "stopping")

\* The pod is deleted by force: it is gone for everybody but kubelet.
PodForced(p) == Becomes(p, {"running"}, "forced")
KubeletKills(p) == Becomes(p, {"forced"}, "stopping")

CallBegins == UNCHANGED <<mode, hostVars, pod, claim, delVars, errors, history>>

KubeletUnpublishes(p) ==
  /\ pod[p] = "stopping"
  /\ Begin("unpublish", p, "unmount")
  /\ UNCHANGED staged /\ CallBegins

KubeletCalls ==
  \/ /\ staged # "yes" /\ PodIn({"starting"}) # {}
     /\ Begin("stage", Staging, "ensure")
     /\ staged' = "uncertain" /\ CallBegins
  \/ /\ \/ staged = "yes" /\ \E p \in PodIn({"starting"}) : Begin("publish", p, "ensure")
        \/ /\ staged # "no" /\ PodIn(Wanting \cup {"stopping", "forced"}) = {}
           /\ Begin("unstage", Staging, "unmount")
     /\ UNCHANGED staged /\ CallBegins
  \/ \E p \in Pods : KubeletUnpublishes(p)

\* Kubelet's deadline passes while a mount command runs.
KubeletGivesUp ==
  /\ errors < MaxErrors
  /\ call["late"] = NoCall
  /\ call["kubelet"].pc \in {"mount", "recheck"}
  /\ call' = [kubelet |-> NoCall, late |-> call["kubelet"]]
  /\ errors' = errors + 1
  /\ UNCHANGED <<mode, hostVars, podVars, delVars, history>>

\* A claim is deleted when no pod that the API server knows uses it.
DeleteClaim ==
  /\ claim = "bound"
  /\ PodIn(Wanting) = {}
  /\ claim' = "deleted"
  /\ UNCHANGED <<mode, hostVars, pod, staged, call, delVars, errors, history>>

\* What the end of the driver process leaves of the calls it was serving.
CallsLost ==
  /\ call' = [s \in Slots |-> NoCall]
  /\ CleanupEnds
  /\ disturbed' = (disturbed \/ del \in {"unmount", "remove"})
  /\ NoRefs
  /\ UNCHANGED <<mode, hostVars, podVars, errors, stolen>>

\* The node restarts: its mounts and containers are gone, and kubelet begins
\* anew for the pods it still has.
NodeRestarts ==
  /\ errors < MaxErrors
  /\ errors' = errors + 1
  /\ mounts' = [x \in Paths |-> <<>>]
  /\ pod' = [p \in Pods |-> CASE pod[p] \in Published -> "starting"
                              [] pod[p] = "forced" -> "stopping"
                              [] OTHER -> pod[p]]
  /\ staged' = "no"
  /\ call' = [s \in Slots |-> NoCall]
  /\ CleanupEnds
  /\ NoRefs
  /\ disturbed' = TRUE /\ stolen' = FALSE
  /\ UNCHANGED <<mode, lv, paths, claim>>

HandlerStep(s) ==
  \/ StageEnsure(s) \/ StageMount(s)
  \/ PublishEnsure(s) \/ PublishMount(s)
  \/ UnpublishUnmount(s) \/ UnpublishRecheck(s)
  \/ NodeUnstageVolume(s)

DeleteStep ==
  FindMountTargets \/ CleanupUnmount \/ CleanupRemove \/ RemoveLogicalVolume
=============================================================================
