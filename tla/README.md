# A TLA+ model of the local CSI driver

## The system

The driver provides Kubernetes volumes on the local NVMe disks of each node, as
logical volumes (LVs) of an LVM volume group (VG).  A DaemonSet pod on every
node runs the CSI controller server, the CSI node server, an LVM layer, and two
garbage collectors.  The cluster manager runs a PV cleanup controller and two
admission webhooks.  The chart deploys two replicas of it: leader election lets
one of them run the controller, and the API server asks either one about an
admission; the models have one replica, which may crash.  The parts do not call
each other across nodes: they meet in the PersistentVolume (PV) object, which
each reads through an informer cache that may lag, and in the LVM state of a
node.

| part | source | modules |
|---|---|---|
| controller server, provisioner sidecar | `internal/csi/controller` | `ControllerServer`, `NodeStorage` |
| node server | `internal/csi/node` | `NodeServer`, `NodeStorage`, `Mounts` |
| mount handling | `internal/csi/mounter` | `Mounts`; its outcome in `Cluster` |
| failover reconciler | `internal/gc/failover_pv_cleanup.go` | `FailoverReconciler`; its effect in `Mounts`, `NodeStorage` |
| orphan scanner | `internal/gc/lvm_orphan_cleanup.go` | `OrphanScanner`; its effect in `Mounts`, `NodeStorage` |
| PV cleanup controller | `internal/manager/pvcleanup` | `PVCleanup` |
| API server, caches, disks, nodes | external | `Cluster` |
| LVM layer and commands: concurrency | `internal/csi/core/lvm`, `internal/pkg/lvm` | `Provisioning`, `VolumeStore` |
| LVM layer and commands: sizes | the same | `NodeStorage` |
| device filter and probe, capacity | `internal/pkg/probe`, `internal/pkg/block` | `Devices` |
| driver program, registration, server | `cmd/driver`, `internal/csi/driver.go`, `internal/csi/server` | `DriverProcess` |
| manager program | `cmd/manager` | `ManagerProcess` |
| PVC webhook | `internal/webhook/enforceEphemeral` | `ClaimWebhook` |
| pod webhook | `internal/webhook/hyperconverged` | `PodWebhook` |
| claims, volumes and classes as the manager sees them | external | `ApiObjects` |

Five modules compose the others, each around one question:

| composition | of | question |
|---|---|---|
| `Placement` | `Cluster`, `ControllerServer`, `NodeServer`, `FailoverReconciler`, `OrphanScanner`, `PVCleanup` | on which node is a volume, and who removes it |
| `Provisioning` | implements `VolumeStore` | what concurrent calls do to the LVM state of a node |
| `NodeStorage` | `Devices` | how large is a volume, and on which disks |
| `NodeVolume` | `DriverProcess`, `Mounts` | what is mounted where, under a process that comes and goes |
| `Admission` | `ManagerProcess`, `ApiObjects`, `ClaimWebhook`, `PodWebhook` | which claims and pods are admitted, and where pods may go |

## Where a volume lives: `Placement`

One volume is modelled; volumes do not interact at this level.

State.  The PV is the history `hist` of its versions, as the API server
published them; node `n` reads `hist[seen[n]]` from its cache, and `Deliver`
advances `seen[n]` by one version and evaluates the event filters on the way.
`lvs`, `mounts` and `dirs` are the nodes that hold the LV, have its device
mounted on the staging path, and have the staging directory.  `pod[n]` is what
the pod on `n` has: nothing, the volume bound at its target path, the volume in
a running container, or a bare directory.  `hasty` records history: nodes where
a scan that had found no PV acted although there was one by then.  `up` and
`registered` are the nodes that run and those with a Node object.  Each handler
has a program counter per node: `del` (DeleteVolume), `stage` (NodeStageVolume),
`fo` (failover reconciler), `scan` (orphan scanner), and `cleanup` for the
manager.

Actions.  A handler is cut where another process can run in between: after the
cached PV was read, after the annotation was patched, after the unmount, after
the directory was removed, and after the LV was removed.  `DeleteVolumeCheck`,
`DeleteVolumeUnmount`, `DeleteVolumeRemoveDir` and `DeleteVolumeRemove` are one
DeleteVolume call; `NodeStageRead`, `NodeStagePatch`, `NodeStageEnsure` and
`NodeStageMount` are one NodeStageVolume call; the collectors and the PV cleanup
are cut alike.  The cleanup unmounts every path that findmnt lists for the
device, a pod's target among them; what a running container has in its own mount
namespace it does not reach.  `PodPublish` binds the staging directory as it
finds it, and `PodStart` is the container that comes later.  Failure at any step
ends the call where the code returns; a lookup of the Node that fails makes the
PV cleanup take the node for gone (`PVCleanupMisread`).  Faults are a restart of
the driver (queues and calls are lost, mounts and pods stay), the failure of a
node, the deletion of its Node object, and its return with its disks intact or
blank.

External parts are the provisioner (`SaveVolume`, `DeletePV`: it saves the PV
after the answer of CreateVolume, and deletes it after a successful
DeleteVolume), the informer, and the users' claims and pods.

Properties.

* `SettledPodSeesVolume`: on a node that every version of the PV agrees to, no
  pod is given a bare directory or loses the volume before its container
  starts, unless a scan that had found no PV acted after the PV was saved.  Both
  exceptions are real: where an earlier version named another node, a
  collector that decided then may act now, and scanner_race below has the other.
* `SettledVolumeNotCollected`: while no version of the PV has named another
  node, no collector of the node sets out to delete the volume as misplaced.
* `BoundPVKept`: no step deletes a bound PV.
* `NoLeak` (`LocalNoLeak` in the runs): an LV that has no reason to be there is
  removed, whatever left it behind.
* `ReleasedPVGoes`: a released PV goes, unless its node is stopped but still
  registered, or no node runs.

## The LVM layer of a node: `Provisioning`

State.  `pvs`, `vgDevs`, `lvs` are what LVM has in its metadata: the devices
that are physical volumes, those of the VG (none: there is no VG), the logical
volumes.  `nodes` and `dir` are what is under `/dev`: a node for each volume and
the directory of the VG, which LVM maintains itself since udev is disabled, and
which may be left behind.  `pc`, `vol` and `entries` are the progress, the
volume and the directory listing of each concurrent EnsureVolume call; `flight`
is the call that leads the singleflight of an instance; `inst` and `cl` are the
state of a driver instance and of its Cleanup.  `late` and `overtaken` record
history for the properties: volumes made while an instance was stopping, and
calls whose volume somebody removed meanwhile.

Actions.  Each LVM command is atomic, as LVM locks the VG; everything between
two commands is not.  EnsureVolume is a look at the volume, the two looks of
the corruption check, removal of a corrupted volume, a look at the VG,
EnsurePhysicalVolumes, the singleflight, and lvcreate.  Inside the singleflight
are a second look at the VG, the steps of RemoveStaleDeviceMapperNodes (look,
vgmknodes, listing, one unlink per entry, rmdir), vgcreate and a third look.
`Fail` is a command that fails, or that is killed when the context of its
caller ends; the provisioning runs under the context of the leader, so its
failure is the failure of all that wait.  A killed lvcreate may have written
the metadata and not have made the node.  Shutdown stops new calls, lets those
under way finish (GracefulStop) and runs Cleanup beside them.  A restart of the
node brings back the disks as they were, with or without the volumes activated,
or blank disks.  One call per volume is under way at a time, as kubelet and the
provisioner see to it.

Properties.

* `StoreSpec`: the layer implements `VolumeStore` under the mapping `held <-
  lvs \cap nodes`.  A volume stays until somebody asks for its deletion or the
  node restarts; a shutdown takes at most volumes made during it.
* `EnsuredVolumeHeld`: EnsureVolume answers OK only for a volume that has both
  metadata and node, unless a deletion or Cleanup overtook the call.
* `VGCreateUnblocked`: leavings of an earlier VG never block vgcreate.
* `LiveNodeKept`: the removal of stale nodes spares the nodes of live volumes.
* `CallsReturn`: every call returns; nobody waits for a failed leader.

## Sizes and disks: `NodeStorage` over `Devices`

State.  `content[d]` is what blkid finds on a disk, `group[d]` the volume group
it belongs to.  `lv` is the size of the one volume on this node (0: none).  `pv`
is what the PV records of it: size and limit of its creation, the size of the
last expansion, the node; `cache` is the driver's copy.  `call` is the call
under way with its step and local variables, `collect` a collector's decision to
delete the volume.  Three variables record history: `acked` is the largest size
NodeExpandVolume has acknowledged, `kept` the largest of those that the PV was to
record, and `taken` says that a collector deleted the volume of this node while
a PV without an expansion was all the driver had in hand.

Actions.  EnsureVolume is cut at every look at a disk and every LVM command: a
disk may be taken by other software between the scan, the two looks of
CreatePhysicalVolume and pvcreate.  CreateVolume and NodeStageVolume lead into
EnsureVolume with the sizes they take from the request or the PV;
NodeExpandVolume reads the PV, looks, extends, looks again, and patches the
annotation; without a PV in hand it skips the patch and acknowledges all the same.
A collector decides by the cache (`CollectDecide`) and deletes in a later step
(`CollectDelete`), whatever call runs and wherever the volume belongs by then.
lvcreate and lvextend are external and modelled by what they do with sizes:
whole extents, one stripe on every disk of the group.  The size of an expansion
goes through `ExtendSize`, which is what printing a quantity and reading it as
an lvextend argument make of it.  A call may fail at any step, the host may be
replaced by one with blank disks, and the volume may stay on another node, be
expanded there, and come back.

Properties.

* `StagedAtAckedSize`: a volume staged on the node its PV names is at least as
  large as every size acknowledged with a PV in hand, also if it had to be made
  again, unless it was `taken`.  Both restrictions are needed: the first loses a
  size that nobody has recorded, the second one that the cache does not show.
* `CapacityCreatable`: a volume of the capacity reported could be created, on
  disks of the same size.  On others it could not: every volume is striped over
  all disks, and the smallest is full first.
* `ForeignContentKept`: no disk that somebody else has formatted is made a
  physical volume.
* `RefusedOnlyIfFull`: OutOfRange means that the space is lacking.
* `WaitingPodStaged`: a pod that waits gets its volume unless one of three named
  obstructions stands: the recorded size exceeds the recorded limit, a volume
  left over here does not fit, or the disks are too small.
* `ExpansionCompletes`: an expansion that fits is carried out and acknowledged,
  unless the pod leaves or a collector deletes the volume first.

## Mounts and the driver process: `NodeVolume`

State.  `mounts[x]` is the stack of mounts on the staging path or on a pod's
target path, `paths` the paths that exist.  An entry is the volume, or the bare
staging directory bound while nothing was mounted there.  `call` has kubelet's
call and one it has given up, which runs on, as mount commands are not tied to
the context of the call.  `del`, `refs`, `ref` are the progress of
CleanupStagingDir, `by` tells whether DeleteVolume or a collector runs it.
`phase[n]` is how far the process on each node has got from main to serving.
`disturbed` records that a cleanup was cut short or the node restarted, `stolen`
that a collector took something of a volume that was staged for a bound claim.

Actions.  Stage, publish and unpublish are cut between the look at the mount
point and the mount command.  Unpublish takes down one mount and fails if
another is below it.  NodeUnstageVolume does nothing: DeleteVolume and the
collectors look up the mounts with findmnt, unmount, remove the directory
and remove the LV, with retries.  `ScanFindsOrphan` is a collector that is right;
`CollectorStrays` is one that goes by an old cache, at any time, also while the
volume is being staged or is in use.  A process looks for the CSIDriver object,
creates it if it is missing and ends with an error if another process was
faster; kubelet starts it again.  On SIGTERM the server finishes the calls it
has; a crash loses them.  Kubelet, pods and claims are external: kubelet calls
for one pod at a time, repeats what failed, and kills pods deleted by force
only after the API server has forgotten them.

Properties.

* `RunningPodSeesVolume`: a pod whose publish call was answered has the volume at
  its path, never the bare directory, and the LV exists, unless the volume was
  `stolen`.  What a collector takes before or during NodeStageVolume is made up
  for.
* `GonePodLeavesNothing`: no mount or path is left of a pod that is gone, also
  if repeated publish calls have stacked mounts.
* `DeletedVolumeLeavesNothing`: nor of a volume that is gone, unless a cleanup
  was cut short after the unmount; then findmnt no longer shows the directory.
* `AllDriversServe`: all processes get to serve, although of those that start
  together all but one may fail to register at first.
* `PodsMoveOn`, `DeletionCompletes`: pods get the volume, unless it was `stolen`,
  and leave it, and a volume whose claim is deleted goes.

## Admission: `Admission`

State.  A claim has a class, a failover mode, perhaps an annotation, perhaps an
owner; `pv[c]` is its volume with its initial and its selected node; `seen...`
are the manager's cache.  `required[p]` and `preferred[p]` are the node selector
terms of a pod, `req[p]` the progress of the webhook's request.  `unchecked` and
`blind` record claims and pods that passed without the webhook knowing what it
needs to know.

Actions.  The manager gets its certificates, registers two handlers in a
goroutine, and answers probes, which may start the webhook server first.  The
pod webhook reads one object a step: claim and class of each volume, then each
PV.  A claim that is not found ends the request with an admission; the mode of
the last PV counts for all.  The webhook configurations have failurePolicy
Ignore, so what does not reach a handler passes.  The scheduler, the
provisioner and the staging on the pod's node close the loop: the webhook's
decision moves volumes, and their node enters its next decision.

Properties.

* `DurablePodFollowsVolume`: a durability volume stays on its first node unless
  a pod came there that passed blindly or had terms or local volumes of its own.
* `AvailabilityNeverBlocks`: pods without durability volumes lose no node.
* `OnlyEphemeralClaims`: other claims of this driver exist only unchecked.
* `ManagerServes`, `RequestsAnswered`: the manager comes to serve both handlers
  and answers.

## Model checking

An `MC` module instantiates each composition.

| run | instance | checks |
|---|---|---|
| placement | 2 nodes, moves back and forth, failover reconciler, one fault | `PlacementInv` (the inductive invariant) |
| leak | 2 nodes, orphan scanner, one move or one fault | `SettledPodSeesVolume`, `SettledVolumeNotCollected`, `LocalNoLeak`, `ReleasedPVGoes` |
| affinity | raw block volume, PV keeps its hostname topology, both collectors, one fault | `BoundPVKept`, `LocalNoLeak`, `ReleasedPVGoes` |
| provisioning | 1 instance, 2 calls, 2 volumes, 1 own and 1 foreign disk, one stop, one restart of the node | all of `Provisioning`, and `ProvisioningInv` |
| returns | 2 overlapping instances, 1 call each, one stop | `CallsReturn` |
| storage | 2 local disks and 1 other, 4 kinds of request, 2 expansions, one move, two faults, one disk taken | all of `NodeStorage` but `RefusedOnlyIfFull` (run odd_size), `StorageInv` and `CapacityInv` |
| mounts | 2 nodes, 2 pods, both access types, one stop or crash, one error | all of `NodeVolume`, and `VolumeInv` |
| webhooks | 2 nodes, 2 claims in 4 combinations, 2 pods of two volumes, one crash | all of `Admission` but `DurabilityEnforced`, and `AdmissionInv` |

Bounds.  Two nodes are enough for a volume to be where it should and where it
should not; a collector touches its own node only, so in `MCPlacement` the
collectors and the pods are on the nodes of `Local` and the others stand for any
other node.  On the nodes of `Coarse`, the other node of run leak, a
DeleteVolume or NodeStageVolume call that has decided on the PV goes to its end
with nobody in between; the other runs have no such node.  `MaxMoves` bounds the
stagings on another node (moving away and back takes two), `MaxFaults` the
faults, `MaxDisturbances` both together.  In `Provisioning` two volumes are one
that is kept and one that is made; two calls are a leader and a follower.
`MaxStops` and `MaxBoots` bound shutdowns or crashes and restarts of the node.
In `NodeStorage` the units are scaled down (a MiB is four sectors, a KiB two)
and the disks hold a few extents, so that every rounding, a full group and a
limit between two extents occur; `MaxForeign` bounds the disks others take; a PV
that NodeExpandVolume cannot read is one of the faults, a collector's decision
is not bounded.  In `NodeVolume` one error (`MaxErrors`) is a call given up, a
failed removal, a collector that strays or a restart of the node, beside one
stop, and one cleanup runs at a time; the other node's process only meets the
first in the CSIDriver object, so `MCNodeVolume` (`OthersServe`) lets the mounts
change only while it serves, and lets it stop only before the first pod comes;
the first delays steps that fairness asks for, the second forbids one that
nobody has to take.  In `Admission` one crash of the manager (`MaxCrashes`)
already gives requests without an answer and a fresh cache.  Without these
bounds histories grow for ever.  Deadlock is not checked: with the bounds used
up and the users idle all systems may stop.

Fairness.  Informers catch up, a workqueue hands out what it holds, the
scanner's ticker fires, the provisioner retries DeleteVolume, and a handler once
started runs to its end: each is weak fairness of one process of one node.
Kubelet restarts containers and repeats its calls for staging, publishing and
unpublishing.  Its calls for one volume take turns, and taking down comes before
setting up, so unpublishing is strongly fair for each pod: a pod that stops is
not put off for ever by calls for another.  The manager's goroutines and
kubelet's probes go on.  Pods, claims, faults and failures of commands get none,
nor does anybody's decision to move a volume.  In `NodeStorage` only the call
under way and the informer are fair: no property waits for the collector.  In
`Provisioning` each call's own steps are weakly fair; a call that waits for the
singleflight has no step of its own and depends on the leader.

Four runs show that the code does not do what a document or comment says.

| run | what is written | what happens |
|---|---|---|
| scanner_race | the collectors delete LVs "that shouldn't be on the current node" (`internal/gc/README.md:65`) | a scan before the new PV is in the cache takes the volume for an orphan and removes it after the PV was saved |
| other_node_deletes | "Only the instance on the selected node performs the actual LVM deletion." (`docs/design/pv-recovery.md:115`) | the former node, on an old cache entry, removes its own copy and answers OK |
| odd_size | OutOfRange is for "an invalid capacity_range and an unsatisfiable expansion (not enough free space)" (`internal/csi/node/node.go:679`) | an expansion to a size that is no multiple of 1 KiB is printed without a suffix, read as MiB, and refused on a group that has the space |
| durability | "Pods must be scheduled on nodes with local storage and will remain pending if storage nodes are unavailable" (`docs/user-guide.md:165`) | the required term becomes one of several alternatives if the pod has a required term of its own |

Three more such scenarios are within reach of the modules with other constants,
and no run holds them: the failover reconciler, on an old cache entry, removes a
volume that has moved back (`CollectorSparesSelectedNode` in `MCPlacement` with
two moves); of two overlapping driver instances one unlinks the device node of a
volume the other has just made (`LiveNodeKept` with two `Instances`); an expansion
whose PV could not be read is acknowledged and lost at the next move
(`StagedAtAckedSize` with `acked` for `kept`).

## Proofs

`PlacementProofs` (any set of nodes, any setting of the flags, any bounds):

* `TypeCorrect`: `Spec => []TypeOK`, one lemma per component.
* `PlacementInvariant`: `Spec => []PlacementInv`.  `SettledPodSeesVolume` alone is
  not inductive: a publish call takes the staging directory as it finds it, so
  what kubelet has for staged must still be mounted (`StagedIsMounted`), and that
  holds because every deleter that could unmount it is excluded or recorded.
  DeleteVolume is not under way while a claim waits for the volume or has it
  (`DeletionsAfterRelease`), which is also what `BoundPVKept` needs; the failover
  reconciler and a scan that found the volume misplaced have decided on a version
  that names another node (`SettledVolumeNotCollected`: a cached version is one
  of the history); a scan that found no PV is in `hasty`.  `PodsOfBoundClaim` says
  that the claim outlives its pods.
* `PodSeesVolume`, `SettledSpared`, `BoundKept`: the three properties, from it.

`ProvisioningProofs` (any volumes, devices and number of concurrent calls,
under the hypothesis `OneInstance` that driver instances do not overlap):

* `ProvisioningInvariant`: `Spec => []ProvisioningInv`.  The core is
  `FlightConsistent`: only the leader is inside provisionVolumeGroup, there is
  no VG from its look up to vgcreate, and its listing covers all nodes that
  remain.  With `DiskConsistent` (no VG, no volume) the nodes it unlinks
  belong to nobody.  `OwnVolumes` and `KnownVolumes` say what a call knows of
  its volume, `CleanupConsistent` that whatever appears after Cleanup counted
  the volumes was made late.
* `Unblocked`, `EnsuredHeld`, `LiveNodesKept`: the properties, from it.
* `StoreRefined`: `Spec => StoreSpec`, step by step: EnsureVolume's lvcreate and
  a killed lvcreate are `Create`, lvremove is `Remove`, vgremove in Cleanup is
  `Shutdown`, and all else stutters.

`NodeStorageProofs` (any finite set of disks of any sizes, any requests, limits,
expansions and bounds):

* `StorageInvariant`: `Spec => []StorageInv`.  `StagedAtAckedSize` alone says
  nothing of a volume that is not staged.  `SizesRecorded` ties the recorded size
  to the PV and to the cache: where the cache lags behind an expansion made here,
  the volume itself still has the size, or a collector has taken it.  `CallKnows`
  carries this through a call: a stage call on the node the PV names asks for the
  recorded size or finds it, and from its look for the volume up to lvcreate
  there is none.  A deletion in between is harmless as long as what the driver
  has in hand is current, which is why `taken` is set only if it is not.  The
  arithmetic is in the lemmas `RoundUpBound`, `AllocatedBound` and
  `ExtendSizeBound`: rounding to extents and reading a bare number as MiB never
  give less than what was asked for.
* `StagedVolumeAtAckedSize`: the property, from it.
* `ForeignDisksKept`: only pvcreate and a replaced host
  write to a disk, and pvcreate without --yes spares signatures.
* `KibibyteSizesRefusedOnlyIfFull`: if all sizes asked for are multiples of
  1 KiB; run odd_size shows that it is needed.

`CapacityProofs` (the same module, any number of disks):

* `CapacityInvariant`: `Spec => []CapacityInv`, on top of `StorageInv`.
  `CapacityCreatable` says nothing of a state in which a call is under way, nor
  of how the volume lies on the disks.  `DisksOurs` follows the disks through
  the scan and the creation of the group: what the filter refuses never gets
  in, and a disk of the group is a physical volume, so nobody takes it any
  more.  `WholeStripes` says that the volume is a multiple of one extent on
  every disk.
* `EqualDisksCapacityCreatable`: the property, if all disks the filter accepts
  have the same number of extents.  `AvailableCapacity` is a sum over a set of
  disks, so this takes induction.  The induction theorems of the library have a
  predicate as a parameter, which the provers cannot instantiate; the lemma
  `Least` gets the same from the well-founded order of the natural numbers: each
  induction looks at the least counterexample.  `TotalExists` shows in this way
  that the recursion behind the sum has a solution, `TotalOfEqual` what it is.

`NodeVolumeProofs` (any nodes, pods and bounds, both access types):

* `VolumeInvariant`: `Spec => []VolumeInv`.  The three properties are about pods
  that run or are gone, and the work lies in between.  `CallsOrdered` says for
  pods in which state a call may be under way, and how far a call can be that
  was given up; `BoundWhileUsed` that DeleteVolume comes after the last use;
  `StagedIsMounted` that the staging path has the volume on it when it is bound
  to a target, unless a collector took it since; `StagingAccounted` that it is
  mounted at most once, and that a directory without a mount is one that kubelet
  or the cleanup still deals with; `CallsServed` that calls run in a live
  process.
* `RunningPodSees`, `GonePodLeaves`, `DeletedVolumeLeaves`: the properties.

`AdmissionProofs` (any nodes, claims, classes, pods and bounds):

* `AdmissionInvariant`: `Spec => []AdmissionInv`.  `DurablePodFollowsVolume` is
  about pods that have a node; what makes it hold is spread over the request,
  which reads one object a step.  `RequestKnows` says what the request has
  gathered from the volumes it has passed, `PodKnows` that the terms it leaves
  name the volume's first node and no other, `DurableKept` that neither the
  volume nor the cached copy of it names another node.  All of it is conditional
  on `Kept`, and the hard steps are those that may change it: a pod placed
  elsewhere, and a volume bound after the request had looked.
* `DurableFollows`, `NeverBlocked`, `EphemeralOnly`: the properties, from it.
* `DurabilityForPlainPods`: `Spec => []DurabilityEnforced`, if no pod has a
  required term of its own or more than one claim; run durability shows that
  the first is needed.

The assumptions are the named `ASSUME`s of the modules: model values differ
from what they stand beside, flags are Boolean, bounds and sizes are natural
numbers, the disks are finitely many, foreign devices are devices.

Only model-checked, as the prover has neither fairness nor `ENABLED`:
`LocalNoLeak`, `ReleasedPVGoes`, `CallsReturn`, `WaitingPodStaged`,
`ExpansionCompletes`, `AllDriversServe`, `PodsMoveOn`, `DeletionCompletes`,
`ManagerServes`, `RequestsAnswered`.  Every safety property of a passing run has
a theorem.

## Not modelled

* Several volumes competing for the space of one group: `NodeStorage` has one
  volume, `Provisioning` has several without sizes.
* Mount options, filesystem types, the resizing of the filesystem itself,
  statistics, names of volumes and devices.
* ListVolumes, NodeGetVolumeStats, validation of capabilities and the getters:
  they change nothing.  A request that validation refuses is a call that fails.
* The separate controller and node servers of `internal/csi/server`, and the LVM
  wrapper functions for commands the driver never runs: no program uses them.
* The size conversions of `internal/pkg/convert`: only tests call them.
* An error of the gRPC server while the process runs: Start would notice it only
  when the process is told to stop.
* Transport, certificates' content, telemetry, events, the startup diagnostic
  (it writes one event), flag parsing, cache transforms: I/O without state of
  its own, or data nobody reads.
