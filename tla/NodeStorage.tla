---------------------------- MODULE NodeStorage ----------------------------
(***************************************************************************)
(* One volume on one node, by its sizes: what CreateVolume, NodeStage-     *)
(* Volume and NodeExpandVolume ask for, what LVM allocates on the disks of *)
(* Devices, and what the PersistentVolume remembers of it.  The volume may *)
(* be away, on another node, and come back.                                *)
(***************************************************************************)
EXTENDS Devices

CONSTANTS Requests, Limits,  \* sizes a claim may ask for (0: none given)
          DefaultSize,       \* the size of a volume nobody gave a size (1 GiB)
          ExpandSizes,       \* sizes the claim may be raised to
          None,
          MaxMoves,          \* bound: stays on another node
          MaxFaults          \* bound: failed calls, restarts, replaced hosts

ASSUME RequestAssumption ==
  /\ Requests \subseteq Nat /\ Limits \subseteq Nat /\ ExpandSizes \subseteq Nat \ {0}
  /\ DefaultSize \in Nat \ {0}
ASSUME StorageBounds == MaxMoves \in Nat /\ MaxFaults \in Nat

VARIABLES claim,   \* the size and the limit the claim asks for at creation
          asked,   \* the size the claim has been raised to; 0: never
          lv,      \* size of the logical volume on this node; 0: there is none
          pv,      \* the PersistentVolume
          cache,   \* this driver's informer cache of it
          call,    \* the call under way
          want,    \* a pod on this node waits for the volume or uses it
          staged,  \* the volume is staged for it
          answer,  \* how the last expansion was answered
          collect, \* a collector has decided to delete the volume here
          acked,   \* history: largest size acknowledged to an expansion
          kept,    \* history: largest one of them that the PV was to record
          taken,   \* history: deleted here while only an old PV was in hand
          moves, faults

cluster == <<claim, asked, pv, cache, want, moves>>
history == <<acked, kept, taken>>
rest == <<diskVars, lv, answer, cluster, staged, history, collect, faults>>
vars == <<rest, call>>

PVs == [cap : Nat, limit : Nat, exp : Nat, node : {"here", "other"}]

ASSUME NoneAssumption == None \notin PVs

Steps == {"none", "check", "group", "scan", "islvm2", "pvs", "formatted", "lvm2",
          "pvcreate", "reget", "vgcreate", "lvcreate", "done",
          "annotate", "capacity", "mount", "find", "extend", "query", "record"}

NoDisk == [path |-> <<>>, model |-> Empty, type |-> Empty, size |-> 0]

NoCall == [op |-> "none", pc |-> "none", cap |-> 0, lim |-> 0, read |-> None,
           todo |-> {}, disks |-> {}, disk |-> NoDisk, formatted |-> FALSE, size |-> 0]

Calls == [op : {"none", "create", "stage", "expand"}, pc : Steps, cap : Nat, lim : Nat,
          read : PVs \cup {None}, todo : SUBSET Lsblk, disks : SUBSET Lsblk,
          disk : Lsblk \cup {NoDisk}, formatted : BOOLEAN, size : Nat]

TypeOK ==
  /\ DevicesTypeOK
  /\ claim \in [req : Requests, limit : Limits]
  /\ asked \in ExpandSizes \cup {0}
  /\ lv \in Nat /\ acked \in Nat /\ kept \in Nat /\ taken \in BOOLEAN
  /\ pv \in PVs \cup {None} /\ cache \in PVs \cup {None}
  /\ call \in Calls
  /\ want \in BOOLEAN /\ staged \in BOOLEAN /\ collect \in BOOLEAN
  /\ answer \in {"none", "ok", "outOfRange"}
  /\ moves \in 0..MaxMoves /\ faults \in 0..MaxFaults

Init ==
  /\ DevicesInit
  /\ claim \in [req : Requests, limit : Limits]
  /\ asked = 0 /\ lv = 0 /\ acked = 0 /\ kept = 0 /\ taken = FALSE
  /\ pv = None /\ cache = None /\ call = NoCall
  /\ want = FALSE /\ staged = FALSE /\ collect = FALSE /\ answer = "none"
  /\ moves = 0 /\ faults = 0

Idle == call = NoCall
At(op, p) == call.op = op /\ call.pc = p
Goto(p) == call' = [call EXCEPT !.pc = p]
Larger(m, n) == IF m >= n THEN m ELSE n

\* getCapacityAndLimit: an expansion counts if it is larger.
Capacity(p) == Larger(p.cap, p.exp)

Here(p) == p # None /\ p.node = "here"

SizeFits(n, cap, lim) == n >= cap /\ (lim > 0 => n <= lim)

-----------------------------------------------------------------------------
(* EnsureVolume *)

ValidSize(cap, lim) == cap > 0 /\ (lim > 0 => lim >= cap)

EnsureVolume(op, cap, lim, read) ==
  IF ValidSize(cap, lim)
  THEN [NoCall EXCEPT !.op = op, !.pc = "check", !.cap = cap, !.lim = lim, !.read = read]
  ELSE NoCall

\* Mutant: any volume of that name will do.
CheckExistingAnySize ==
  /\ call.pc = "check"
  /\ call' = IF lv = 0 THEN [call EXCEPT !.pc = "group"]
             ELSE [call EXCEPT !.pc = "done", !.size = lv]
  /\ UNCHANGED rest

CheckExisting ==
  /\ call.pc = "check"
  /\ call' = IF lv = 0 THEN [call EXCEPT !.pc = "group"]
             ELSE IF SizeFits(lv, call.cap, call.lim)
                  THEN [call EXCEPT !.pc = "done", !.size = lv]
                  ELSE NoCall
  /\ UNCHANGED rest

\* Mutant: every disk of the node is looked at, the filter is not asked.
GetVolumeGroupUnfiltered ==
  /\ call.pc = "group"
  /\ call' = IF OurDisks # {} THEN [call EXCEPT !.pc = "lvcreate"]
             ELSE [call EXCEPT !.pc = "scan", !.todo = Lsblk]
  /\ UNCHANGED rest

GetVolumeGroup ==
  /\ call.pc = "group"
  /\ call' = IF OurDisks # {} THEN [call EXCEPT !.pc = "lvcreate"]
             ELSE [call EXCEPT !.pc = "scan", !.todo = {d \in Lsblk : Match(d)}]
  /\ UNCHANGED rest

\* Mutant: only blank disks are available.
ScanDeviceBlank(d) ==
  /\ call.pc = "scan"
  /\ d \in call.todo
  /\ call' = [call EXCEPT !.todo = @ \ {d},
                          !.disks = IF IsFormatted(d) THEN @ ELSE @ \cup {d}]
  /\ UNCHANGED rest

\* ScanAvailableDevices, one disk: blank is available, anything else is looked
\* at once more.
ScanDevice(d) ==
  /\ call.pc = "scan"
  /\ d \in call.todo
  /\ call' = IF IsFormatted(d)
             THEN [call EXCEPT !.pc = "islvm2", !.disk = d]
             ELSE [call EXCEPT !.todo = @ \ {d}, !.disks = @ \cup {d}]
  /\ UNCHANGED rest

ScanLVM2 ==
  /\ call.pc = "islvm2"
  /\ LET d == call.disk
     IN  call' = [call EXCEPT !.pc = "scan", !.todo = @ \ {d},
                              !.disks = IF IsLVM2(d) THEN @ \cup {d} ELSE @]
  /\ UNCHANGED rest

ScanEnd ==
  /\ call.pc = "scan"
  /\ call.todo = {}
  /\ call' = IF call.disks = {} THEN NoCall
             ELSE [call EXCEPT !.pc = "pvs", !.todo = call.disks, !.disks = {}]
  /\ UNCHANGED rest

\* A physical volume of another group is passed over.
Found(d) ==
  [call EXCEPT !.pc = "pvs", !.todo = @ \ {d},
               !.disks = IF group[d] = "foreign" THEN @ ELSE @ \cup {d}]

\* ensurePhysicalVolume: a disk that is a physical volume is taken as it is.
GetPhysicalVolume(d) ==
  /\ call.pc = "pvs"
  /\ d \in call.todo
  /\ call' = IF IsLVM2(d) THEN Found(d) ELSE [call EXCEPT !.pc = "formatted", !.disk = d]
  /\ UNCHANGED rest

\* CreatePhysicalVolume looks twice before it runs pvcreate.
LookFormatted ==
  /\ call.pc = "formatted"
  /\ call' = [call EXCEPT !.pc = "lvm2", !.formatted = IsFormatted(call.disk)]
  /\ UNCHANGED rest

LookLVM2 ==
  /\ call.pc = "lvm2"
  /\ call' = IF IsLVM2(call.disk) THEN [call EXCEPT !.pc = "reget"]
             ELSE IF call.formatted THEN NoCall
             ELSE [call EXCEPT !.pc = "pvcreate"]
  /\ UNCHANGED rest

CreatePhysicalVolume ==
  /\ call.pc = "pvcreate"
  /\ Pvcreate(call.disk)
  /\ call' = IF content[call.disk] = "blank" THEN [call EXCEPT !.pc = "reget"] ELSE NoCall
  /\ UNCHANGED <<group, foreign, lv, answer, cluster, staged, history, collect, faults>>

GetNewPhysicalVolume ==
  /\ call.pc = "reget"
  /\ call' = IF IsLVM2(call.disk) THEN Found(call.disk) ELSE NoCall
  /\ UNCHANGED rest

PhysicalVolumesEnd ==
  /\ call.pc = "pvs"
  /\ call.todo = {}
  /\ call' = IF call.disks = {} THEN NoCall ELSE [call EXCEPT !.pc = "vgcreate"]
  /\ UNCHANGED rest

\* vgcreate refuses a disk that another group has got hold of.
EnsureVolumeGroup ==
  /\ call.pc = "vgcreate"
  /\ IF \A d \in call.disks : group[d] = "none"
     THEN Vgcreate(call.disks) /\ Goto("lvcreate")
     ELSE call' = NoCall /\ UNCHANGED group
  /\ UNCHANGED <<content, foreign, lv, answer, cluster, staged, history, collect, faults>>

CreateLogicalVolume ==
  /\ call.pc = "lvcreate"
  /\ IF HasRoom(OurDisks, 0, call.cap)
     THEN /\ lv' = Allocated(OurDisks, call.cap)
          /\ call' = [call EXCEPT !.pc = "done", !.size = lv']
     ELSE call' = NoCall /\ UNCHANGED lv
  /\ UNCHANGED <<diskVars, answer, cluster, staged, history, collect, faults>>

-----------------------------------------------------------------------------
(* CreateVolume *)

\* A request without a size takes the limit, then the default.
RequestedSize ==
  IF claim.req > 0 THEN claim.req ELSE IF claim.limit > 0 THEN claim.limit ELSE DefaultSize

CreateVolume ==
  /\ Idle
  /\ pv = None
  /\ claim.limit > 0 => claim.req <= claim.limit
  /\ call' = EnsureVolume("create", RequestedSize, claim.limit, None)
  /\ UNCHANGED rest

\* The provisioner saves the volume with the size that was allocated.
CreateReply ==
  /\ At("create", "done")
  /\ pv' = [cap |-> call.size, limit |-> claim.limit, exp |-> 0, node |-> "here"]
  /\ call' = NoCall
  /\ UNCHANGED <<diskVars, lv, answer, claim, asked, cache, want, moves, staged,
                 history, collect, faults>>

-----------------------------------------------------------------------------
(* NodeStageVolume *)

\* The PV is read from the cache; without it nothing is ensured.
NodeStageVolume ==
  /\ Idle
  /\ want /\ ~staged
  /\ call' = [NoCall EXCEPT !.op = "stage",
                            !.pc = IF cache = None THEN "mount"
                                   ELSE IF cache.node # "here" THEN "annotate" ELSE "capacity",
                            !.read = cache]
  /\ UNCHANGED rest

\* The patch puts this node into the PV, and brings back the PV as it is.
StageAnnotate ==
  /\ At("stage", "annotate")
  /\ pv' = [pv EXCEPT !.node = "here"]
  /\ call' = [call EXCEPT !.pc = "capacity", !.read = pv']
  /\ UNCHANGED <<diskVars, lv, answer, claim, asked, cache, want, moves, staged,
                 history, collect, faults>>

\* Mutant: the size the volume was created with.
StageEnsureCreatedSize ==
  /\ At("stage", "capacity")
  /\ call' = EnsureVolume("stage", call.read.cap, call.read.limit, call.read)
  /\ UNCHANGED rest

StageEnsure ==
  /\ At("stage", "capacity")
  /\ call' = EnsureVolume("stage", Capacity(call.read), call.read.limit, call.read)
  /\ UNCHANGED rest

\* There is a device to mount if there is a volume.
StageMount ==
  /\ At("stage", "mount") \/ At("stage", "done")
  /\ staged' = (want /\ lv > 0)
  /\ call' = NoCall
  /\ UNCHANGED <<diskVars, lv, answer, cluster, history, collect, faults>>

-----------------------------------------------------------------------------
(* NodeExpandVolume *)

\* The PV is read for its events, so a read that fails does not end the call.
NodeExpandVolume ==
  /\ Idle
  /\ staged
  /\ asked > acked
  /\ \E read \in {cache, None} :
       /\ read = cache \/ faults < MaxFaults
       /\ call' = [NoCall EXCEPT !.op = "expand", !.pc = "find", !.read = read]
       /\ faults' = IF read = cache THEN faults ELSE faults + 1
  /\ answer' = "none"
  /\ UNCHANGED <<diskVars, lv, cluster, staged, history, collect>>

\* Mutant: there is nothing to expand in a volume that is large enough.
ExpandFindRefuses ==
  /\ At("expand", "find")
  /\ call' = IF lv = 0 \/ asked <= lv THEN NoCall ELSE [call EXCEPT !.pc = "extend"]
  /\ UNCHANGED rest

\* A volume that is large enough is reported with the size it has.
ExpandFind ==
  /\ At("expand", "find")
  /\ call' = IF lv = 0 THEN NoCall
             ELSE IF asked <= lv THEN [call EXCEPT !.pc = "record", !.size = lv]
             ELSE [call EXCEPT !.pc = "extend"]
  /\ UNCHANGED rest

\* The size is handed over as a quantity, which ends in a binary suffix only
\* if it is a multiple of 1 KiB; lvextend reads a bare number as MiB.
ExtendSize(n) == IF n % Kibi = 0 THEN n ELSE n * Mebi

\* Only a group without the space is answered with OutOfRange.
ExtendLogicalVolume ==
  /\ At("expand", "extend")
  /\ \/ /\ lv > 0 /\ HasRoom(OurDisks, 0, ExtendSize(asked))
        /\ lv' = Allocated(OurDisks, ExtendSize(asked))
        /\ Goto("query")
        /\ UNCHANGED answer
     \/ /\ lv > 0 /\ ~HasRoom(OurDisks, 0, ExtendSize(asked))
        /\ call' = NoCall /\ answer' = "outOfRange" /\ UNCHANGED lv
     \/ /\ lv = 0
        /\ call' = NoCall /\ UNCHANGED <<answer, lv>>
  /\ UNCHANGED <<diskVars, cluster, staged, history, collect, faults>>

ExpandQuery ==
  /\ At("expand", "query")
  /\ call' = IF lv = 0 THEN NoCall ELSE [call EXCEPT !.pc = "record", !.size = lv]
  /\ UNCHANGED rest

\* The patch holds what differs from the PV that was read; a PV that could not
\* be read is not patched, and the expansion is acknowledged all the same.
ExpandRecord ==
  /\ At("expand", "record")
  /\ pv' = IF call.read = None \/ call.read.exp = call.size THEN pv
           ELSE [pv EXCEPT !.exp = call.size]
  /\ acked' = Larger(acked, call.size)
  /\ kept' = IF call.read = None THEN kept ELSE Larger(kept, call.size)
  /\ answer' = "ok"
  /\ call' = NoCall
  /\ UNCHANGED <<diskVars, lv, claim, asked, cache, want, moves, staged, taken, collect, faults>>

-----------------------------------------------------------------------------
(* The rest of the cluster *)

Sync ==
  /\ cache # pv
  /\ cache' = pv
  /\ UNCHANGED <<diskVars, lv, answer, claim, asked, pv, want, moves, staged,
                 history, collect, faults, call>>

PodArrives ==
  /\ pv # None /\ ~want
  /\ want' = TRUE
  /\ UNCHANGED <<diskVars, lv, answer, claim, asked, pv, cache, moves, staged,
                 history, collect, faults, call>>

PodLeaves ==
  /\ want
  /\ want' = FALSE /\ staged' = FALSE
  /\ UNCHANGED <<diskVars, lv, answer, claim, asked, pv, cache, moves,
                 history, collect, faults, call>>

RaiseClaim ==
  /\ pv # None
  /\ asked' \in {n \in ExpandSizes : n > asked /\ n > pv.cap}
  /\ UNCHANGED <<diskVars, lv, answer, claim, pv, cache, want, moves, staged,
                 history, collect, faults, call>>

\* A stay on another node, where the volume may be expanded as the claim asks.
StayElsewhere ==
  /\ moves < MaxMoves
  /\ pv # None /\ ~want /\ Idle
  /\ \E n \in {pv.exp} \cup {m \in {asked} : m > acked} :
       /\ pv' = [pv EXCEPT !.node = "other", !.exp = n]
       /\ acked' = Larger(acked, n) /\ kept' = Larger(kept, n)
  /\ taken' = FALSE
  /\ moves' = moves + 1
  /\ UNCHANGED <<diskVars, lv, answer, claim, asked, cache, want, staged, collect, faults, call>>

\* The failover reconciler or the orphan scanner finds a volume here that, by
\* the cache, belongs to another node or to no PV, whatever else goes on.
CollectDecide ==
  /\ ~collect
  /\ lv > 0
  /\ cache # None => cache.node = "other"
  /\ collect' = TRUE
  /\ UNCHANGED <<diskVars, lv, answer, cluster, staged, history, faults, call>>

\* A call or the cache holds a PV of this node that has yet to learn a size.
Lagging ==
  \/ call.op = "expand"
  \/ \E p \in {cache, call.read} : Here(p) /\ Capacity(p) < kept

\* Later it unmounts and deletes the volume.  lvremove fails only if the volume
\* is still open.
CollectDelete ==
  /\ collect
  /\ collect' = FALSE
  /\ \/ /\ lv' = 0
        /\ taken' = (taken \/ (lv > 0 /\ Here(pv) /\ Lagging))
     \/ staged /\ UNCHANGED <<lv, taken>>
  /\ UNCHANGED <<diskVars, answer, cluster, staged, acked, kept, faults, call>>

\* A command, a patch or the driver fails: the call is over, what it did
\* stays.  A driver that starts lists the PV anew, and has decided nothing.
CallFails ==
  /\ faults < MaxFaults
  /\ ~Idle
  /\ call' = NoCall
  /\ \/ UNCHANGED <<cache, collect>>
     \/ cache' = pv /\ collect' = FALSE
  /\ faults' = faults + 1
  /\ UNCHANGED <<diskVars, lv, answer, claim, asked, pv, want, moves, staged, history>>

HostReplaced ==
  /\ faults < MaxFaults
  /\ ReplaceDisks
  /\ lv' = 0 /\ staged' = FALSE /\ call' = NoCall /\ cache' = pv
  /\ collect' = FALSE /\ taken' = FALSE
  /\ faults' = faults + 1
  /\ UNCHANGED <<answer, claim, asked, pv, want, moves, acked, kept>>

DiskTaken ==
  /\ \E d \in Lsblk : TakeForeign(d)
  /\ UNCHANGED <<lv, answer, cluster, staged, history, collect, faults, call>>

-----------------------------------------------------------------------------
EnsureStep ==
  \/ CheckExisting \/ GetVolumeGroup
  \/ \E d \in Lsblk : ScanDevice(d) \/ GetPhysicalVolume(d)
  \/ ScanLVM2 \/ ScanEnd
  \/ LookFormatted \/ LookLVM2 \/ CreatePhysicalVolume \/ GetNewPhysicalVolume
  \/ PhysicalVolumesEnd \/ EnsureVolumeGroup \/ CreateLogicalVolume

CallStep ==
  \/ EnsureStep
  \/ CreateVolume \/ CreateReply
  \/ NodeStageVolume \/ StageAnnotate \/ StageEnsure \/ StageMount
  \/ NodeExpandVolume \/ ExpandFind \/ ExtendLogicalVolume \/ ExpandQuery \/ ExpandRecord

Next ==
  \/ CallStep \/ Sync \/ CollectDecide \/ CollectDelete
  \/ PodArrives \/ PodLeaves \/ RaiseClaim \/ StayElsewhere
  \/ CallFails \/ HostReplaced \/ DiskTaken

Spec == Init /\ [][Next]_vars

\* The sidecars and kubelet repeat a call that failed, and staging comes
\* before expanding; the informer keeps running.
FairSpec == Spec /\ WF_vars(CallStep) /\ WF_vars(Sync)

-----------------------------------------------------------------------------
(* Properties *)

\* A volume that NodeStageVolume has staged on the node its PV names is at
\* least as large as every size that NodeExpandVolume has acknowledged and
\* written to the PV, wherever it was expanded, and even if the volume had to be
\* made again.  Only a collector that deletes the volume here while an
\* expansion of it has yet to reach the cache can take the size away.
StagedAtAckedSize ==
  staged /\ Here(pv) /\ lv > 0 /\ ~taken => lv >= kept

\* A size in hand is large enough, or the collector has taken the volume away.
Covers(n) == n >= kept \/ taken

\* What the PV and the cache of it know of the size to keep.  Without the PV in
\* the cache there is none; a cache that lags behind an expansion goes with a
\* volume that has its size.
SizesRecorded ==
  /\ pv = None => acked = 0 /\ asked = 0 /\ cache = None /\ ~want /\ ~staged
  /\ kept <= acked
  /\ pv # None => pv.exp <= kept /\ kept <= Capacity(pv)
  /\ cache # None => cache.exp <= kept
  /\ Here(pv) /\ cache = None => kept = 0
  /\ Here(pv) /\ Here(cache) => Covers(lv) \/ Covers(Capacity(cache))
  /\ staged /\ Here(pv) => lv = 0 \/ Covers(lv)

Creating == {"group", "scan", "islvm2", "pvs", "formatted", "lvm2", "pvcreate", "reget",
             "vgcreate", "lvcreate"}

\* What a call has in hand: between its look for the volume and lvcreate there
\* is none, and a stage call asks for the size to keep, or finds it.
CallKnows ==
  /\ call.op = "none" => call.pc = "none"
  /\ call.op = "create" => pv = None /\ call.pc \in Creating \cup {"check", "done"}
  /\ call.pc \in Creating => lv = 0
  /\ call.pc \in {"islvm2", "formatted", "lvm2", "pvcreate", "reget"} => call.disk \in Lsblk
  /\ call.op = "stage" =>
       /\ pv # None /\ ~staged
       /\ call.pc \in Creating \cup {"annotate", "capacity", "mount", "check", "done"}
       /\ call.pc = "annotate" => cache # None /\ (Here(cache) => Covers(Capacity(cache)))
       /\ call.pc \in {"capacity", "check"} => Here(call.read)
       /\ call.pc = "check" => call.cap = Capacity(call.read)
       /\ Here(pv) =>
            /\ call.pc \in {"mount", "done"} => lv = 0 \/ Covers(lv)
            /\ call.pc \in {"capacity", "check"} => Covers(lv) \/ Covers(Capacity(call.read))
            /\ call.pc \in Creating => Covers(call.cap)
  /\ call.op = "expand" =>
       /\ pv # None
       /\ call.pc \in {"find", "extend", "query", "record"}
       /\ acked < asked /\ (call.read # None => cache # None /\ call.read.exp <= kept)
       /\ call.pc = "extend" => lv < asked
       /\ call.pc = "query" => lv = 0 \/ acked < lv
       /\ call.pc = "record" => acked < call.size /\ (lv = call.size \/ lv = 0)
       /\ lv = 0 /\ Here(pv) => taken \/ call.pc = "find"

\* The inductive invariant behind StagedAtAckedSize.
StorageInv == TypeOK /\ SizesRecorded /\ CallKnows

\* Whenever no call is under way, a volume of the size that GetCapacity
\* reports as the largest possible one could be created, if the disks are of
\* one size.
CapacityCreatable ==
  LET n == AvailableCapacity(lv)
      D == IF OurDisks # {} THEN OurDisks ELSE {d \in Available : group[d] # "foreign"}
  IN  Idle /\ n > 0 => HasRoom(D, lv, n)

\* EnsureVolume works on disks the filter accepts only: every disk of the group
\* is such a disk and a physical volume, and so is every disk that a call has
\* found or still has to look at, as far as it has got with it.
DisksOurs ==
  /\ \A d \in OurDisks : Match(d) /\ IsLVM2(d)
  /\ \A d \in call.todo \cup call.disks : Match(d)
  /\ call.pc \in {"islvm2", "formatted", "lvm2", "pvcreate", "reget"} => Match(call.disk)
  /\ call.pc \in {"pvs", "formatted", "lvm2", "pvcreate", "reget", "vgcreate"} =>
       \A d \in call.disks : IsLVM2(d)

\* A volume lies in a group, with whole extents on each of its disks: what
\* lvcreate and lvextend allocate stays a multiple of it as the group is.
WholeStripes ==
  lv # 0 => OurDisks # {} /\ lv = RoundDown(lv, Cardinality(OurDisks) * PeSize)

\* The inductive invariant behind CapacityCreatable: the disks EnsureVolume
\* takes are those that AvailableCapacity counts, and LVM uses them evenly.
CapacityInv == DisksOurs /\ WholeStripes

\* CreatePhysicalVolume never turns a disk into a physical volume that
\* somebody else has written to, however late they wrote.
ForeignContentKept ==
  [][\A d \in Lsblk : content[d] = "other" => content'[d] # "lvm2"]_vars

\* OutOfRange answers an expansion only if the group lacks the space for it.
RefusedOnlyIfFull ==
  [][answer' = "outOfRange" /\ answer # "outOfRange" => ~HasRoom(OurDisks, 0, asked)]_vars

\* What keeps EnsureVolume from succeeding here: a limit below the size, a
\* volume left over with another size, or disks too small for it.
Obstructed ==
  LET n == Capacity(pv)
      D == IF OurDisks # {} THEN OurDisks ELSE {d \in Available : group[d] # "foreign"}
  IN  \/ ~ValidSize(n, pv.limit)
      \/ lv > 0 /\ ~SizeFits(lv, n, pv.limit)
      \/ lv = 0 /\ ~HasRoom(D, 0, n)

\* A pod that waits for its volume gets it: NodeStageVolume makes the volume
\* again where it is missing, unless one of the obstructions stands.
WaitingPodStaged == want ~> (staged \/ ~want \/ Obstructed)

\* An expansion the claim asks for is carried out and acknowledged, if the
\* group has the space, the pod stays and no collector deletes the volume.
ExpansionCompletes ==
  (staged /\ asked > acked) ~>
    (acked >= asked \/ ~staged \/ lv = 0 \/ ~HasRoom(OurDisks, 0, asked))
=============================================================================
