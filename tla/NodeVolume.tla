----------------------------- MODULE NodeVolume -----------------------------
(***************************************************************************)
(* The mounts of a volume on node Here, served by the driver process of    *)
(* that node, which starts, registers, stops and crashes beside the ones   *)
(* of the other nodes.                                                     *)
(***************************************************************************)
EXTENDS DriverProcess, Mounts

CONSTANT Here

ASSUME HereAssumption == Here \in Nodes

vars == <<processVars, mountVars>>

TypeOK == ProcessTypeOK /\ MountsTypeOK

Init == ProcessInit /\ MountsInit

Idle == (\A s \in Slots : call[s] = NoCall) /\ del = "none"

\* The end of a process loses the calls it was serving.
ProcessDies(n) ==
  /\ Die(n)
  /\ IF n = Here THEN CallsLost ELSE UNCHANGED mountVars

NodeGoesDown ==
  /\ NodeRestarts
  /\ SetPhase(Here, "down")
  /\ UNCHANGED <<csiDriver, stops>>

ProcessStep(n) ==
  /\ StartStep(n) \/ GracefulStop(n, n = Here => Idle)
  /\ UNCHANGED mountVars

ProcessTerminates(n) == Terminate(n) /\ UNCHANGED mountVars

\* A new call needs a server that serves; a call it has taken goes on while
\* the server stops.
Admitted == Serving(Here) /\ (KubeletCalls \/ DeleteVolume \/ ScanFindsOrphan) /\ UNCHANGED processVars
Stray == Alive(Here) /\ CollectorStrays /\ UNCHANGED processVars
Handled(s) == Alive(Here) /\ HandlerStep(s) /\ UNCHANGED processVars
Deleting == Alive(Here) /\ DeleteStep /\ UNCHANGED processVars
CallDisturbed == Alive(Here) /\ (RemoveFails \/ KubeletGivesUp) /\ UNCHANGED processVars

Kills == (\E p \in Pods : KubeletKills(p)) /\ UNCHANGED processVars
Users ==
  /\ \/ \E p \in Pods : PodStarts(p) \/ ContainerStarts(p) \/ PodStops(p) \/ PodForced(p)
     \/ DeleteClaim
  /\ UNCHANGED processVars

Next ==
  \/ \E n \in Nodes : ProcessStep(n) \/ ProcessTerminates(n) \/ ProcessDies(n)
  \/ NodeGoesDown
  \/ Admitted \/ Stray \/ Deleting \/ CallDisturbed \/ Kills \/ Users
  \/ \E s \in Slots : Handled(s)

Spec == Init /\ [][Next]_vars

\* Kubelet restarts the container and repeats its calls, the provisioner
\* repeats DeleteVolume, and a command that runs ends.  Kubelet's calls for
\* one pod are not held up by the ones for another, nor by DeleteVolume: it
\* waits longer and longer before it repeats a call that fails, and takes down
\* before it sets up.
Fairness ==
  /\ \A n \in Nodes : WF_vars(ProcessStep(n))
  /\ WF_vars(Serving(Here) /\ KubeletCalls /\ UNCHANGED processVars)
  /\ \A p \in Pods : SF_vars(Serving(Here) /\ KubeletUnpublishes(p) /\ UNCHANGED processVars)
  /\ WF_vars(Serving(Here) /\ (DeleteVolume \/ ScanFindsOrphan) /\ UNCHANGED processVars)
  /\ \A s \in Slots : WF_vars(Handled(s))
  /\ WF_vars(Deleting) /\ WF_vars(Kills)

FairSpec == Spec /\ Fairness

-----------------------------------------------------------------------------
(* Properties *)

\* A pod whose NodePublishVolume has answered has the volume at its target
\* path, never the bare staging directory, and the volume exists, unless a
\* collector that strays took it while it was staged.  NodePublishVolume binds
\* the staging directory without a look at what is mounted there; it relies on
\* the order of the calls, and on NodeStageVolume looking at the mount and the
\* volume, not the path: what a collector took before, or while NodeStageVolume
\* ran, is made up for.
RunningPodSeesVolume ==
  ~stolen => \A p \in PodIn(Published) : HasVolume(p) /\ lv

\* NodeUnpublishVolume answers only when nothing is left at the target path,
\* also when a repeated NodePublishVolume has stacked mounts of a block device
\* there, and nothing comes back by a publish call that kubelet has given up.
GonePodLeavesNothing ==
  \A p \in PodIn({"gone"}) : ~IsMountPoint(p) /\ p \notin paths

\* Between them, DeleteVolume, which stands in for NodeUnstageVolume, the
\* orphan scanner and kubelet leave no staging directory, unless a cleanup was
\* cut short after its unmount or the node restarted: then findmnt does not
\* show the directory to the next attempt.
DeletedVolumeLeavesNothing ==
  claim = "removed" /\ ~lv /\ staged = "no" /\ Idle /\ ~disturbed
    => ~IsMountPoint(Staging) /\ Staging \notin paths

\* A process serves only after the CSIDriver object was there, and every
\* process serves in the end, although those that find that another one has
\* created the object in between end with an error.
AllDriversServe == \A n \in Nodes : <>[](Serving(n) /\ csiDriver)

\* A pod that waits for the volume gets it, unless a collector has taken what
\* was staged for it, and one that stops lets go of it, whatever calls were
\* lost, given up or repeated.
PodsMoveOn ==
  \A p \in Pods :
    /\ pod[p] = "starting" ~> pod[p] # "starting" \/ stolen
    /\ pod[p] = "stopping" ~> pod[p] = "gone"

\* A volume whose claim is deleted goes: no mount that a pod, kubelet or a
\* late call has left keeps DeleteVolume from removing it for ever.  If a stage
\* call that was running creates it once more, the orphan scanner removes it.
DeletionCompletes == claim = "deleted" ~> [](claim = "removed" /\ ~lv)

-----------------------------------------------------------------------------
(* Why they hold *)

\* Somebody relies on the volume being staged: a pod that has it, or one that
\* is to get it by a call that runs.
Needed ==
  \/ PodIn(Published) # {}
  \/ \E s \in Slots : call[s].op = "publish" /\ pod[call[s].path] \in Wanting

\* The steps that the calls take their turn in.  A call that kubelet has given
\* up is past the check that comes first; kubelet has one call at a time, so a
\* pod is not gone while it is published, and not back while it is unpublished.
CallsOrdered ==
  /\ \A s \in Slots :
       LET c == call[s] IN
         /\ c.op \in {"publish", "unpublish"} => c.path \in Pods
         /\ c.op = "publish" => pod[c.path] # "absent"
         /\ c.op = "unpublish" => pod[c.path] \in {"stopping", "gone"}
  /\ call["late"].pc \in {"none", "mount", "recheck"}
  /\ LET c == call["kubelet"] IN
       /\ c.op = "stage" => staged = "uncertain"
       /\ c.op = "publish" => pod[c.path] \in {"starting", "stopping"}
       /\ Needed => staged = "yes" /\ c.op # "unstage"

\* The claim outlives the pods that use it, and DeleteVolume comes after it.
BoundWhileUsed ==
  /\ claim # "bound" => PodIn(Wanting) = {}
  /\ by = "DeleteVolume" => claim # "bound"

\* While the claim is bound, what kubelet takes to be staged is there, unless
\* a collector took it since.
StagedIsMounted ==
  claim = "bound" /\ staged = "yes" /\ ~stolen
    => IF mode = "mount" THEN HasVolume(Staging) ELSE lv

\* The staging path is mounted once, and only with the volume.  Without it,
\* somebody is there to remove the directory.
StagingAccounted ==
  /\ mounts[Staging] \in {<<>>, <<"volume">>}
  /\ mode = "block" => Staging \notin paths /\ mounts[Staging] = <<>>
  /\ mode = "mount" /\ ~lv => \A x \in Paths : ~Holds(x)
  /\ mode = "mount" /\ Staging \in paths /\ ~disturbed =>
       HasVolume(Staging) \/ staged # "no" \/ (del = "remove" /\ ref = Staging)

\* Calls are served by a process, and a process by a registered driver.
CallsServed ==
  /\ ~Alive(Here) => Idle
  /\ \A n \in Nodes : Alive(n) => csiDriver

\* The inductive invariant behind the three properties: the calls of kubelet,
\* DeleteVolume and the collectors interleave at every command they run, with
\* calls given up, processes that end and restarts of the node.
VolumeInv ==
  /\ TypeOK
  /\ CallsOrdered /\ BoundWhileUsed /\ StagedIsMounted /\ StagingAccounted /\ CallsServed
  /\ RunningPodSeesVolume /\ GonePodLeavesNothing
=============================================================================
