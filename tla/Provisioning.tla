---------------------------- MODULE Provisioning ----------------------------
(***************************************************************************)
(* The LVM layer of one node: EnsureVolume down to the physical volumes,   *)
(* the volume group and the removal of stale device nodes, deletion, and   *)
(* the cleanup at shutdown.  Calls of one driver instance run              *)
(* concurrently; every LVM command is atomic (LVM locks the volume group), *)
(* everything between two commands is not.                                 *)
(***************************************************************************)
EXTENDS Naturals, FiniteSets

CONSTANTS Volumes, NoVolume,
          Devices,       \* disks that pass the device filter
          Foreign,       \* those of them that another volume group uses
          Instances,     \* driver instances that may overlap on the node
          MaxCalls,      \* bound: concurrent calls of one instance
          NoCall,
          EnableCleanup, \* the flag --enable-cleanup
          MaxBoots,      \* bound: restarts of the node
          MaxStops       \* bound: shutdowns and crashes of the driver

ASSUME VolumeAssumption == NoVolume \notin Volumes
ASSUME DeviceAssumption == Foreign \subseteq Devices
ASSUME CallAssumption == NoCall \notin Instances \X (1..MaxCalls)
ASSUME ProvisioningBounds ==
  MaxCalls \in Nat /\ MaxBoots \in Nat /\ MaxStops \in Nat /\ EnableCleanup \in BOOLEAN

VARIABLES pvs,       \* devices that are physical volumes
          vgDevs,    \* devices of the volume group; {}: there is no group
          lvs,       \* logical volumes in the metadata of the group
          nodes,     \* volumes with a device node /dev/<vg>/<lv>
          dir,       \* the directory /dev/<vg> exists
          inst,      \* inst[i]: state of driver instance i
          flight,    \* flight[i]: the call that leads the singleflight of i
          cl,        \* cl[i]: progress of Cleanup in instance i
          pc, vol,   \* pc[w], vol[w]: progress and volume of EnsureVolume call w
          entries,   \* entries[w]: what is left of the listing of /dev/<vg>
          doomed,    \* volumes with a deletion under way
          boots, stops,
          late,      \* history: volumes made while an instance was stopping
          overtaken  \* history: calls whose volume was removed meanwhile

lvmVars  == <<pvs, vgDevs, lvs, nodes, dir>>
procVars == <<inst, cl, boots, stops>>
callVars == <<flight, pc, vol, entries, overtaken>>
vars == <<lvmVars, procVars, callVars, doomed, late>>

Calls == Instances \X (1..MaxCalls)
InstanceOf(w) == w[1]

Held == lvs \cap nodes

-----------------------------------------------------------------------------
(* LVM commands *)

\* A volume leaves the metadata.  With udev disabled LVM removes the device
\* node itself and may leave it behind, or the empty directory.
RemoveLVs(V) ==
  /\ lvs' = lvs \ V
  /\ nodes' \in {nodes \ V, nodes}
  /\ dir' \in {dir, FALSE}
  /\ nodes' # {} => dir'

Overtake(V) == overtaken' = overtaken \cup {w \in Calls : vol[w] \in V}

-----------------------------------------------------------------------------
(* Calls *)

Goto(w, p) == pc' = [pc EXCEPT ![w] = p]

\* The call ends with an error, or the caller has taken its answer.
Return(w) ==
  /\ Goto(w, "idle")
  /\ vol' = [vol EXCEPT ![w] = NoVolume]
  /\ entries' = [entries EXCEPT ![w] = {}]
  /\ overtaken' = overtaken \ {w}

\* A call of EnsureVolume, up to the first GetLogicalVolume.  Kubelet and the
\* provisioner have one call per volume under way.
EnsureVolume(w, v) ==
  /\ inst[InstanceOf(w)] = "up"
  /\ pc[w] = "idle"
  /\ \A u \in Calls : vol[u] # v
  /\ vol' = [vol EXCEPT ![w] = v]
  /\ Goto(w, IF v \in lvs THEN "check" ELSE "group")
  /\ UNCHANGED <<lvmVars, procVars, flight, entries, doomed, late, overtaken>>

\* IsLogicalVolumeCorrupted: a volume gone meanwhile is not corrupted.
CheckMetadata(w) ==
  /\ pc[w] = "check"
  /\ Goto(w, IF vol[w] \in lvs THEN "stat" ELSE "ok")
  /\ UNCHANGED <<lvmVars, procVars, flight, vol, entries, doomed, late, overtaken>>

\* Mutant: the device node is not looked at.
CheckDeviceNodeSkipped(w) ==
  /\ pc[w] = "stat"
  /\ Goto(w, "ok")
  /\ UNCHANGED <<lvmVars, procVars, flight, vol, entries, doomed, late, overtaken>>

CheckDeviceNode(w) ==
  /\ pc[w] = "stat"
  /\ Goto(w, IF vol[w] \in nodes THEN "ok" ELSE "corrupted")
  /\ UNCHANGED <<lvmVars, procVars, flight, vol, entries, doomed, late, overtaken>>

\* A corrupted volume is removed, to be made again; one that is not found any
\* more is an error here.
RemoveCorrupted(w) ==
  /\ pc[w] = "corrupted"
  /\ \/ /\ vol[w] \in lvs
        /\ RemoveLVs({vol[w]})
        /\ Goto(w, "group")
        /\ UNCHANGED <<vol, entries, overtaken>>
     \/ /\ vol[w] \notin lvs
        /\ Return(w)
        /\ UNCHANGED <<lvs, nodes, dir>>
  /\ UNCHANGED <<pvs, vgDevs, procVars, flight, doomed, late>>

GetVolumeGroup(w) ==
  /\ pc[w] = "group"
  /\ Goto(w, IF vgDevs # {} THEN "lvcreate" ELSE "devices")
  /\ UNCHANGED <<lvmVars, procVars, flight, vol, entries, doomed, late, overtaken>>

\* EnsurePhysicalVolumes: one device after the other, stopping at an error;
\* an error too if another volume group has them all.
EnsurePhysicalVolumes(w) ==
  /\ pc[w] = "devices"
  /\ \E done \in SUBSET Devices :
       /\ pvs' = pvs \cup done
       /\ IF done = Devices /\ Devices \ Foreign # {}
          THEN Goto(w, "join") /\ UNCHANGED <<vol, entries, overtaken>>
          ELSE Return(w)
  /\ UNCHANGED <<vgDevs, lvs, nodes, dir, procVars, flight, doomed, late>>

-----------------------------------------------------------------------------
(* EnsureVolumeGroup: the calls of one instance share one provisioning *)

\* Mutant: every call provisions on its own.
JoinAlways(w) ==
  /\ pc[w] = "join"
  /\ flight' = [flight EXCEPT ![InstanceOf(w)] = w]
  /\ Goto(w, "get")
  /\ UNCHANGED <<lvmVars, procVars, vol, entries, doomed, late, overtaken>>

\* singleflight.Do: lead, or wait for the call that does.
Join(w) ==
  /\ pc[w] = "join"
  /\ LET i == InstanceOf(w)
     IN  IF flight[i] = NoCall
         THEN flight' = [flight EXCEPT ![i] = w] /\ Goto(w, "get")
         ELSE UNCHANGED flight /\ Goto(w, "wait")
  /\ UNCHANGED <<lvmVars, procVars, vol, entries, doomed, late, overtaken>>

Sharing(w) == {w} \cup {u \in Calls : InstanceOf(u) = InstanceOf(w) /\ pc[u] = "wait"}

\* The leader is done: all that share its flight have the volume group, or its
\* error.
FlightDone(w) ==
  /\ flight' = [flight EXCEPT ![InstanceOf(w)] = NoCall]
  /\ pc' = [u \in Calls |-> IF u \in Sharing(w) THEN "lvcreate" ELSE pc[u]]
  /\ UNCHANGED <<vol, entries, overtaken>>

\* Mutant: an error reaches the leader only.
FlightFailsForLeader(w) ==
  /\ flight' = [flight EXCEPT ![InstanceOf(w)] = NoCall]
  /\ Return(w)

\* Mutant: the flight is not forgotten, and whoever comes next waits for it.
FlightFailsUnforgotten(w) == Return(w) /\ UNCHANGED flight

FlightFails(w) ==
  /\ flight' = [flight EXCEPT ![InstanceOf(w)] = NoCall]
  /\ pc' = [u \in Calls |-> IF u \in Sharing(w) THEN "idle" ELSE pc[u]]
  /\ vol' = [u \in Calls |-> IF u \in Sharing(w) THEN NoVolume ELSE vol[u]]
  /\ entries' = [u \in Calls |-> IF u \in Sharing(w) THEN {} ELSE entries[u]]
  /\ overtaken' = overtaken \ Sharing(w)

\* provisionVolumeGroup looks once more whether there is something to do.
ProvisionGet(w) ==
  /\ pc[w] = "get"
  /\ IF vgDevs # {}
     THEN FlightDone(w)
     ELSE Goto(w, "stale") /\ UNCHANGED <<flight, vol, entries, overtaken>>
  /\ UNCHANGED <<lvmVars, procVars, doomed, late>>

\* RemoveStaleDeviceMapperNodes: nothing to do for a group that exists.
StaleGet(w) ==
  /\ pc[w] = "stale"
  /\ Goto(w, IF vgDevs # {} THEN "vgcreate" ELSE "mknodes")
  /\ UNCHANGED <<lvmVars, procVars, flight, vol, entries, doomed, late, overtaken>>

\* vgmknodes makes the nodes that the metadata asks for and removes others, or
\* leaves some.
StaleMknodes(w) ==
  /\ pc[w] = "mknodes"
  /\ nodes' \in {lvs \cup left : left \in SUBSET (nodes \ lvs)}
  /\ dir' \in IF nodes' # {} THEN {TRUE} ELSE {dir, FALSE}
  /\ Goto(w, "readdir")
  /\ UNCHANGED <<pvs, vgDevs, lvs, procVars, flight, vol, entries, doomed, late, overtaken>>

StaleReadDir(w) ==
  /\ pc[w] = "readdir"
  /\ entries' = [entries EXCEPT ![w] = nodes]
  /\ Goto(w, IF dir THEN "unlink" ELSE "vgcreate")
  /\ UNCHANGED <<lvmVars, procVars, flight, vol, doomed, late, overtaken>>

\* The listed nodes are removed one by one; one that is gone is an error.
StaleUnlink(w) ==
  /\ pc[w] = "unlink"
  /\ \E v \in entries[w] :
       \/ /\ v \in nodes
          /\ nodes' = nodes \ {v}
          /\ entries' = [entries EXCEPT ![w] = @ \ {v}]
          /\ UNCHANGED <<flight, pc, vol, overtaken>>
       \/ /\ v \notin nodes
          /\ FlightFails(w)
          /\ UNCHANGED nodes
  /\ UNCHANGED <<pvs, vgDevs, lvs, dir, procVars, doomed, late>>

\* Mutant: the directory stays.
StaleRmdirSkipped(w) ==
  /\ pc[w] = "unlink"
  /\ entries[w] = {}
  /\ Goto(w, "vgcreate")
  /\ UNCHANGED <<lvmVars, procVars, flight, vol, entries, doomed, late, overtaken>>

\* The directory is removed if it is empty; otherwise it is left in place.
StaleRmdir(w) ==
  /\ pc[w] = "unlink"
  /\ entries[w] = {}
  /\ dir' = (nodes # {})
  /\ Goto(w, "vgcreate")
  /\ UNCHANGED <<pvs, vgDevs, lvs, nodes, procVars, flight, vol, entries, doomed, late, overtaken>>

\* vgcreate: an existing group is as good as a new one, a directory in the way
\* is an error, and where both are there LVM may complain about either.
VGCreate(w) ==
  /\ pc[w] = "vgcreate"
  /\ \/ /\ vgDevs = {} /\ ~dir
        /\ vgDevs' = Devices \ Foreign
        /\ pvs' = pvs \cup vgDevs'
        /\ Goto(w, "getnew")
        /\ UNCHANGED <<flight, vol, entries, overtaken>>
     \/ /\ vgDevs # {}
        /\ Goto(w, "getnew")
        /\ UNCHANGED <<pvs, vgDevs, flight, vol, entries, overtaken>>
     \/ /\ dir
        /\ FlightFails(w)
        /\ UNCHANGED <<pvs, vgDevs>>
  /\ UNCHANGED <<lvs, nodes, dir, procVars, doomed, late>>

ProvisionGetNew(w) ==
  /\ pc[w] = "getnew"
  /\ IF vgDevs # {} THEN FlightDone(w) ELSE FlightFails(w)
  /\ UNCHANGED <<lvmVars, procVars, doomed, late>>

-----------------------------------------------------------------------------
(* The logical volume *)

Stopping == \E i \in Instances : inst[i] = "stopping"

MakeLate(v) == late' = IF Stopping THEN late \cup {v} ELSE late

\* lvcreate; a volume of that name or a group gone meanwhile is an error.
LVCreate(w) ==
  /\ pc[w] = "lvcreate"
  /\ \/ /\ vgDevs # {} /\ vol[w] \notin lvs
        /\ lvs' = lvs \cup {vol[w]}
        /\ nodes' = nodes \cup {vol[w]}
        /\ dir' = TRUE
        /\ MakeLate(vol[w])
        /\ Goto(w, "getlv")
        /\ UNCHANGED <<vol, entries, overtaken>>
     \/ /\ vgDevs = {} \/ vol[w] \in lvs
        /\ Return(w)
        /\ UNCHANGED <<lvs, nodes, dir, late>>
  /\ UNCHANGED <<pvs, vgDevs, procVars, flight, doomed>>

GetNewLV(w) ==
  /\ pc[w] = "getlv"
  /\ IF vol[w] \in lvs
     THEN Goto(w, "ok") /\ UNCHANGED <<vol, entries, overtaken>>
     ELSE Return(w)
  /\ UNCHANGED <<lvmVars, procVars, flight, doomed, late>>

Reply(w) ==
  /\ pc[w] = "ok"
  /\ Return(w)
  /\ UNCHANGED <<lvmVars, procVars, flight, doomed, late>>

\* A command fails, or is killed because the caller's context ended; lvcreate
\* may have written the metadata by then and not have made the node.  A call
\* that waits for a leader does not look at its context.
Fail(w) ==
  /\ pc[w] \notin {"idle", "wait", "ok"}
  /\ IF flight[InstanceOf(w)] = w
     THEN FlightFails(w)
     ELSE Return(w) /\ UNCHANGED flight
  /\ \/ UNCHANGED <<lvs, late>>
     \/ /\ pc[w] = "lvcreate" /\ vgDevs # {}
        /\ lvs' = lvs \cup {vol[w]}
        /\ MakeLate(vol[w])
  /\ UNCHANGED <<pvs, vgDevs, nodes, dir, procVars, doomed>>

\* DeleteVolume and the collectors.
AskDelete(v) ==
  /\ \E i \in Instances : inst[i] = "up"
  /\ doomed' = doomed \cup {v}
  /\ UNCHANGED <<lvmVars, procVars, callVars, late>>

\* lvremove; a volume that is not there is a success.
Delete(v) ==
  /\ v \in doomed
  /\ \E i \in Instances : inst[i] # "down"
  /\ doomed' = doomed \ {v}
  /\ \/ v \in lvs /\ RemoveLVs({v}) /\ Overtake({v})
     \/ UNCHANGED <<lvs, nodes, dir, overtaken>>
  /\ UNCHANGED <<pvs, vgDevs, procVars, flight, pc, vol, entries, late>>

-----------------------------------------------------------------------------
(* The driver instances *)

\* The context ends: no new calls, those under way are finished, and Cleanup
\* runs beside them.
Shutdown(i) ==
  /\ inst[i] = "up"
  /\ stops < MaxStops
  /\ stops' = stops + 1
  /\ inst' = [inst EXCEPT ![i] = "stopping"]
  /\ cl' = [cl EXCEPT ![i] = IF EnableCleanup THEN "list" ELSE "idle"]
  /\ UNCHANGED <<lvmVars, boots, callVars, doomed, late>>

CleanupGoto(i, p) == cl' = [cl EXCEPT ![i] = p]

\* Mutant: logical volumes do not keep the group.
CleanupListUncounted(i) ==
  /\ cl[i] = "list"
  /\ CleanupGoto(i, IF vgDevs # {} THEN "vg" ELSE "pvs")
  /\ UNCHANGED <<lvmVars, inst, boots, stops, callVars, doomed, late>>

\* The groups of the driver are listed with their logical volumes; a group
\* that is made later is not looked at.
CleanupList(i) ==
  /\ cl[i] = "list"
  /\ CleanupGoto(i, IF lvs # {} THEN "idle" ELSE IF vgDevs # {} THEN "vg" ELSE "pvs")
  /\ UNCHANGED <<lvmVars, inst, boots, stops, callVars, doomed, late>>

\* vgremove --yes takes the logical volumes along; a group gone meanwhile is
\* as good as removed.
CleanupRemoveVG(i) ==
  /\ cl[i] = "vg"
  /\ CleanupGoto(i, "pvs")
  /\ IF vgDevs # {}
     THEN vgDevs' = {} /\ RemoveLVs(lvs) /\ Overtake(lvs)
     ELSE UNCHANGED <<vgDevs, lvs, nodes, dir, overtaken>>
  /\ UNCHANGED <<pvs, inst, boots, stops, flight, pc, vol, entries, doomed, late>>

\* Every physical volume of the node, in the order LVM lists them, up to the
\* first that a volume group uses.
CleanupRemovePVs(i) ==
  /\ cl[i] = "pvs"
  /\ LET free == pvs \ (vgDevs \cup Foreign)
     IN  \E done \in SUBSET free :
           /\ free = pvs => done = free
           /\ pvs' = pvs \ done
  /\ CleanupGoto(i, "idle")
  /\ UNCHANGED <<vgDevs, lvs, nodes, dir, inst, boots, stops, callVars, doomed, late>>

CleanupFail(i) ==
  /\ cl[i] # "idle"
  /\ CleanupGoto(i, "idle")
  /\ UNCHANGED <<lvmVars, inst, boots, stops, callVars, doomed, late>>

Exit(i) ==
  /\ inst[i] = "stopping"
  /\ cl[i] = "idle"
  /\ \A w \in Calls : InstanceOf(w) = i => pc[w] = "idle"
  /\ inst' = [inst EXCEPT ![i] = "down"]
  /\ UNCHANGED <<lvmVars, cl, boots, stops, callVars, doomed, late>>

\* The calls of the instances I are lost.
Lose(I) ==
  /\ inst' = [i \in Instances |-> IF i \in I THEN "down" ELSE inst[i]]
  /\ cl' = [i \in Instances |-> IF i \in I THEN "idle" ELSE cl[i]]
  /\ flight' = [i \in Instances |-> IF i \in I THEN NoCall ELSE flight[i]]
  /\ pc' = [w \in Calls |-> IF InstanceOf(w) \in I THEN "idle" ELSE pc[w]]
  /\ vol' = [w \in Calls |-> IF InstanceOf(w) \in I THEN NoVolume ELSE vol[w]]
  /\ entries' = [w \in Calls |-> IF InstanceOf(w) \in I THEN {} ELSE entries[w]]
  /\ overtaken' = {w \in overtaken : InstanceOf(w) \notin I}

\* The process is killed.
Crash(i) ==
  /\ inst[i] # "down"
  /\ stops < MaxStops
  /\ stops' = stops + 1
  /\ Lose({i})
  /\ UNCHANGED <<lvmVars, boots, doomed, late>>

Start(i) ==
  /\ inst[i] = "down"
  /\ inst' = [inst EXCEPT ![i] = "up"]
  /\ late' = IF Stopping THEN late ELSE {}
  /\ UNCHANGED <<lvmVars, cl, boots, stops, callVars, doomed>>

\* The node restarts with its disks as they were or blank, and with or without
\* the volumes activated again.
Reboot ==
  /\ boots < MaxBoots
  /\ boots' = boots + 1
  /\ Lose(Instances)
  /\ \/ /\ UNCHANGED <<pvs, vgDevs, lvs>>
        /\ nodes' \in {{}, lvs}
     \/ pvs' = Foreign /\ vgDevs' = {} /\ lvs' = {} /\ nodes' = {}
  /\ dir' = (nodes' # {})
  /\ doomed' = {}
  /\ late' = {}
  /\ UNCHANGED stops

-----------------------------------------------------------------------------
Init ==
  /\ pvs = Foreign
  /\ vgDevs = {}
  /\ lvs = {}
  /\ nodes = {}
  /\ dir = FALSE
  /\ inst = [i \in Instances |-> "down"]
  /\ flight = [i \in Instances |-> NoCall]
  /\ cl = [i \in Instances |-> "idle"]
  /\ pc = [w \in Calls |-> "idle"]
  /\ vol = [w \in Calls |-> NoVolume]
  /\ entries = [w \in Calls |-> {}]
  /\ doomed = {}
  /\ boots = 0
  /\ stops = 0
  /\ late = {}
  /\ overtaken = {}

EnsureStep(w) ==
  \/ CheckMetadata(w) \/ CheckDeviceNode(w) \/ RemoveCorrupted(w)
  \/ GetVolumeGroup(w) \/ EnsurePhysicalVolumes(w)
  \/ LVCreate(w) \/ GetNewLV(w) \/ Reply(w)

ProvisionStep(w) ==
  \/ Join(w) \/ ProvisionGet(w) \/ StaleGet(w) \/ StaleMknodes(w) \/ StaleReadDir(w)
  \/ StaleUnlink(w) \/ StaleRmdir(w) \/ VGCreate(w) \/ ProvisionGetNew(w)

CleanupStep(i) ==
  CleanupList(i) \/ CleanupRemoveVG(i) \/ CleanupRemovePVs(i) \/ CleanupFail(i)

Next ==
  \/ \E w \in Calls, v \in Volumes : EnsureVolume(w, v)
  \/ \E w \in Calls : EnsureStep(w) \/ ProvisionStep(w) \/ Fail(w)
  \/ \E v \in Volumes : AskDelete(v) \/ Delete(v)
  \/ \E i \in Instances : Shutdown(i) \/ CleanupStep(i) \/ Exit(i) \/ Crash(i) \/ Start(i)
  \/ Reboot

Spec == Init /\ [][Next]_vars

\* A handler, once called, runs to its end.
FairSpec == Spec /\ \A w \in Calls : WF_vars(EnsureStep(w) \/ ProvisionStep(w))

-----------------------------------------------------------------------------
(* Properties *)

CallSteps ==
  {"idle", "check", "stat", "corrupted", "group", "devices", "join", "wait", "get", "stale",
   "mknodes", "readdir", "unlink", "vgcreate", "getnew", "lvcreate", "getlv", "ok"}

TypeOK ==
  /\ pvs \subseteq Devices
  /\ vgDevs \subseteq Devices
  /\ lvs \subseteq Volumes
  /\ nodes \subseteq Volumes
  /\ dir \in BOOLEAN
  /\ inst \in [Instances -> {"up", "stopping", "down"}]
  /\ flight \in [Instances -> Calls \cup {NoCall}]
  /\ cl \in [Instances -> {"idle", "list", "vg", "pvs"}]
  /\ pc \in [Calls -> CallSteps]
  /\ vol \in [Calls -> Volumes \cup {NoVolume}]
  /\ entries \in [Calls -> SUBSET Volumes]
  /\ doomed \subseteq Volumes
  /\ boots \in 0..MaxBoots
  /\ stops \in 0..MaxStops
  /\ late \subseteq Volumes
  /\ overtaken \subseteq Calls

\* "cleanup can never race a concurrent create of the same volume group"
\* (lvm.go, provisionVolumeGroup): the removal of stale device nodes never
\* takes the node of a logical volume that exists.
LiveNodeKept ==
  [][\A w \in Calls, v \in lvs :
       pc[w] = "unlink" /\ v \in nodes => v \in nodes' \/ entries'[w] = entries[w]]_vars

\* When provisionVolumeGroup gets to vgcreate, nothing that an earlier removal,
\* a killed command or a crash left under /dev is in its way.
VGCreateUnblocked ==
  \A w \in Calls : pc[w] = "vgcreate" => vgDevs = {} /\ ~dir

\* EnsureVolume answers OK only for a volume that exists with its device node,
\* unless a deletion or the shutdown has overtaken the call: not for one that
\* a killed lvcreate or a restart left without a node.
EnsuredVolumeHeld ==
  \A w \in Calls : pc[w] = "ok" /\ w \notin overtaken => vol[w] \in Held

\* What the layer promises: no creation, removal of corrupted volumes, removal
\* of stale nodes, killed command or restart of the driver loses a volume that
\* nobody asked to delete; a shutdown loses at most volumes made during it.
Store == INSTANCE VolumeStore WITH held <- Held
StoreSpec == Store!Spec

\* Every call of EnsureVolume returns; in particular no call waits for ever
\* for a singleflight leader that has failed.
CallsReturn == \A w \in Calls : pc[w] # "idle" ~> pc[w] = "idle"

-----------------------------------------------------------------------------
(* The inductive invariant, where instances do not overlap *)

OneInstance == \A i, j \in Instances : i = j

\* There is no volume without the group, and no node without the directory.
DiskConsistent ==
  /\ vgDevs = {} => lvs = {}
  /\ nodes # {} => dir

\* Only the leader of the flight is inside provisionVolumeGroup; from its look
\* at the group up to vgcreate there is no group, and what is left of its
\* listing covers all nodes.
FlightConsistent ==
  \A w \in Calls :
    /\ pc[w] \in {"get", "stale", "mknodes", "readdir", "unlink", "vgcreate", "getnew"}
         => flight[InstanceOf(w)] = w
    /\ pc[w] \in {"stale", "mknodes", "readdir", "unlink"} => vgDevs = {}
    /\ pc[w] = "unlink" => nodes \subseteq entries[w]

\* A call has a volume of its own.
OwnVolumes ==
  \A w \in Calls :
    /\ (pc[w] = "idle") = (vol[w] = NoVolume)
    /\ \A u \in Calls : vol[u] = vol[w] /\ vol[w] # NoVolume => u = w

\* What a call knows of its volume, as long as nobody has overtaken it.
KnownVolumes ==
  \A w \in Calls :
    /\ pc[w] \in {"check", "stat", "getlv", "ok"} /\ w \notin overtaken => vol[w] \in lvs
    /\ pc[w] \in {"getlv", "ok"} /\ w \notin overtaken => vol[w] \in nodes
    /\ pc[w] = "corrupted" => vol[w] \notin nodes

\* Only an instance that stops runs Cleanup, and what was made since Cleanup
\* counted the logical volumes was made late.
CleanupConsistent ==
  \A i \in Instances :
    /\ cl[i] # "idle" => inst[i] = "stopping"
    /\ cl[i] = "vg" => lvs \subseteq late

ProvisioningInv ==
  /\ TypeOK
  /\ DiskConsistent
  /\ FlightConsistent
  /\ VGCreateUnblocked
  /\ OwnVolumes
  /\ KnownVolumes
  /\ CleanupConsistent
=============================================================================
