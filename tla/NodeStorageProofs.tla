------------------------- MODULE NodeStorageProofs -------------------------
(***************************************************************************)
(* Proofs about NodeStorage, for any disks, sizes and bounds.              *)
(***************************************************************************)
EXTENDS NodeStorage, FiniteSetTheorems, TLAPS

\* Rounding up to a unit never makes a size smaller.
LEMMA RoundUpBound ==
  ASSUME NEW n \in Nat, NEW u \in Nat \ {0}
  PROVE  RoundUp(n, u) \in Nat /\ RoundUp(n, u) >= n
<1> DEFINE q == (n + u - 1) \div u
<1>1. n + u - 1 \in Nat
  OBVIOUS
<1>2. q \in Int /\ (n + u - 1) = q * u + ((n + u - 1) % u) /\ ((n + u - 1) % u) \in 0 .. (u - 1)
  BY <1>1, SMT
<1>3. q >= 0
  BY <1>1, <1>2, SMT
<1>4. q * u \in Nat /\ q * u >= n
  BY <1>2, <1>3, SMT
<1> QED
  BY <1>4, Zenon DEF RoundUp, RoundDown

\* lvcreate and lvextend allocate at least what they are asked for.
LEMMA AllocatedBound ==
  ASSUME NEW n \in Nat, OurDisks # {}
  PROVE  Allocated(OurDisks, n) \in Nat /\ Allocated(OurDisks, n) >= n
<1>1. IsFiniteSet(OurDisks)
  BY SizeAssumption, FS_Subset, Zenon DEF OurDisks
<1>2. Cardinality(OurDisks) \in Nat \ {0}
  BY <1>1, FS_CardinalityType, FS_EmptySet, Zenon
<1>3. PeSize \in Nat \ {0}
  BY SizeAssumption DEF PeSize
<1>4. Cardinality(OurDisks) * PeSize \in Nat \ {0}
  BY <1>2, <1>3, SMT
<1> QED
  BY <1>4, RoundUpBound DEF Allocated

\* The size handed to lvextend is at least the size asked for.
LEMMA ExtendSizeBound ==
  ASSUME NEW n \in Nat
  PROVE  ExtendSize(n) \in Nat /\ ExtendSize(n) >= n
<1>1. Mebi >= 1 /\ Mebi \in Nat
  BY SizeAssumption
<1>2. n * Mebi \in Nat /\ n * Mebi >= n
  BY <1>1, SMT
<1> QED
  BY <1>2 DEF ExtendSize

\* The names of the steps.
LEMMA StepNames ==
  /\ "none" \in Steps /\ "check" \in Steps /\ "group" \in Steps /\ "scan" \in Steps
  /\ "islvm2" \in Steps /\ "pvs" \in Steps /\ "formatted" \in Steps /\ "lvm2" \in Steps
  /\ "pvcreate" \in Steps /\ "reget" \in Steps /\ "vgcreate" \in Steps /\ "lvcreate" \in Steps
  /\ "done" \in Steps /\ "annotate" \in Steps /\ "capacity" \in Steps /\ "mount" \in Steps
  /\ "find" \in Steps /\ "extend" \in Steps /\ "query" \in Steps /\ "record" \in Steps
BY DEF Steps

\* An idle call is a call.
LEMMA NoCallFacts ==
  /\ NoCall \in Calls /\ NoCall.op = "none" /\ NoCall.pc = "none"
  /\ "none" \notin Creating \cup {"islvm2", "formatted", "lvm2", "pvcreate", "reget"}
BY StepNames, Zenon DEF NoCall, Calls, NoDisk, Creating

\* What the steps of a call write into it.
LEMMA CallUpdates ==
  ASSUME NEW c \in Calls, NEW p \in Steps
  PROVE  /\ [c EXCEPT !.pc = p] \in Calls
         /\ \A n \in Nat : [c EXCEPT !.pc = p, !.size = n] \in Calls
         /\ \A t \in SUBSET Lsblk : [c EXCEPT !.pc = p, !.todo = t] \in Calls
         /\ \A d \in Lsblk : [c EXCEPT !.pc = p, !.disk = d] \in Calls
         /\ \A t, D \in SUBSET Lsblk : [c EXCEPT !.todo = t, !.disks = D] \in Calls
         /\ \A t, D \in SUBSET Lsblk : [c EXCEPT !.pc = p, !.todo = t, !.disks = D] \in Calls
         /\ \A f \in BOOLEAN : [c EXCEPT !.pc = p, !.formatted = f] \in Calls
         /\ \A r \in PVs \cup {None} : [c EXCEPT !.pc = p, !.read = r] \in Calls
         /\ \A r \in PVs \cup {None}, o \in {"create", "stage", "expand"} :
              /\ [c EXCEPT !.op = o, !.pc = p, !.read = r] \in Calls
              /\ \A n, m \in Nat :
                   [c EXCEPT !.op = o, !.pc = p, !.cap = n, !.lim = m, !.read = r] \in Calls
BY ZenonT(60) DEF Calls

\* The call that EnsureVolume begins, or none.
LEMMA EnsureCall ==
  ASSUME NEW op \in {"create", "stage"}, NEW cap \in Nat, NEW lim \in Nat,
         NEW read \in PVs \cup {None}
  PROVE  LET c == EnsureVolume(op, cap, lim, read)
         IN  /\ c \in Calls
             /\ \/ c = NoCall
                \/ c.op = op /\ c.pc = "check" /\ c.cap = cap /\ c.read = read
<1>1. op \in {"create", "stage", "expand"}
  BY Zenon
<1>2. EnsureVolume(op, cap, lim, read) \in Calls
  BY <1>1, StepNames, NoCallFacts, CallUpdates, ZenonT(60) DEF EnsureVolume
<1> QED
  BY <1>2, Zenon DEF EnsureVolume, NoCall

\* The capacity recorded in a PV is a size, and covers both of its sources.
LEMMA CapacityFacts ==
  ASSUME NEW p \in PVs
  PROVE  Capacity(p) \in Nat /\ Capacity(p) >= p.cap /\ Capacity(p) >= p.exp
         /\ (Capacity(p) = p.cap \/ Capacity(p) = p.exp)
BY DEF Capacity, Larger, PVs

\* Types: the steps of EnsureVolume.
LEMMA EnsureTypeStep ==
  ASSUME StorageInv, EnsureStep
  PROVE  TypeOK'
<1> USE DEF StorageInv
<1>a. call \in Calls /\ lv \in Nat /\ cache \in PVs \cup {None} /\ NoCall \in Calls
  BY NoCallFacts, Zenon DEF TypeOK
<1>b. /\ call.todo \in SUBSET Lsblk /\ call.disks \in SUBSET Lsblk /\ {} \in SUBSET Lsblk
      /\ \A d \in Lsblk : /\ call.todo \ {d} \in SUBSET Lsblk
                          /\ call.disks \cup {d} \in SUBSET Lsblk
  BY DEF TypeOK, Calls
<1>1. CASE CheckExisting
  <2>2. call' \in Calls
    BY <1>1, <1>a, StepNames, CallUpdates, Zenon DEF CheckExisting
  <2> QED
    BY <1>1, <2>2, Zenon
       DEF TypeOK, DevicesTypeOK, CheckExisting, rest, history, cluster, diskVars
<1>2. CASE GetVolumeGroup
  <2>0. {d \in Lsblk : Match(d)} \in SUBSET Lsblk
    BY Zenon
  <2>2. call' \in Calls
    BY <1>2, <1>a, <2>0, StepNames, CallUpdates, Zenon DEF GetVolumeGroup
  <2> QED
    BY <1>2, <2>2, Zenon
       DEF TypeOK, DevicesTypeOK, GetVolumeGroup, rest, history, cluster, diskVars
<1>3. ASSUME NEW d \in Lsblk, ScanDevice(d) PROVE TypeOK'
  <2>2. call' \in Calls
    BY <1>3, <1>a, <1>b, StepNames, CallUpdates, Zenon DEF ScanDevice
  <2> QED
    BY <1>3, <2>2
       DEF TypeOK, DevicesTypeOK, ScanDevice, rest, history, cluster, diskVars
<1>4. ASSUME NEW d \in Lsblk, GetPhysicalVolume(d) PROVE TypeOK'
  <2>2. call' \in Calls
    BY <1>4, <1>a, <1>b, StepNames, CallUpdates, Zenon DEF GetPhysicalVolume, Found
  <2> QED
    BY <1>4, <2>2, Zenon
       DEF TypeOK, DevicesTypeOK, GetPhysicalVolume, rest, history, cluster, diskVars
<1>5. CASE ScanLVM2
  <2>0. call.disk \in Lsblk
    BY <1>5, Zenon DEF CallKnows, ScanLVM2
  <2>2. call' \in Calls
    BY <1>5, <1>a, <1>b, <2>0, StepNames, CallUpdates, Zenon DEF ScanLVM2
  <2> QED
    BY <1>5, <2>2
       DEF TypeOK, DevicesTypeOK, ScanLVM2, rest, history, cluster, diskVars
<1>6. CASE ScanEnd
  <2>2. call' \in Calls
    BY <1>6, <1>a, <1>b, StepNames, CallUpdates, Zenon DEF ScanEnd
  <2> QED
    BY <1>6, <2>2, Zenon
       DEF TypeOK, DevicesTypeOK, ScanEnd, rest, history, cluster, diskVars
<1>7. CASE LookFormatted
  <2>0. IsFormatted(call.disk) \in BOOLEAN
    BY Zenon DEF IsFormatted
  <2>2. call' \in Calls
    BY <1>7, <1>a, <2>0, StepNames, CallUpdates, Zenon DEF LookFormatted
  <2> QED
    BY <1>7, <2>2, Zenon
       DEF TypeOK, DevicesTypeOK, LookFormatted, rest, history, cluster, diskVars
<1>8. CASE LookLVM2
  <2>2. call' \in Calls
    BY <1>8, <1>a, StepNames, CallUpdates, Zenon DEF LookLVM2
  <2> QED
    BY <1>8, <2>2, Zenon
       DEF TypeOK, DevicesTypeOK, LookLVM2, rest, history, cluster, diskVars
<1>9. CASE CreatePhysicalVolume
  <2>2. call' \in Calls
    BY <1>9, <1>a, StepNames, CallUpdates, Zenon DEF CreatePhysicalVolume
  <2>3. DevicesTypeOK'
    <3>1. call.disk \in Lsblk
      BY <1>9, Zenon DEF CallKnows, CreatePhysicalVolume
    <3>2. content[call.disk] \in {"blank", "lvm2", "other"}
      BY <3>1, Zenon DEF TypeOK, DevicesTypeOK
    <3> DEFINE c == IF content[call.disk] = "blank" THEN "lvm2" ELSE content[call.disk]
    <3>3. c \in {"blank", "lvm2", "other"} /\ content' = [content EXCEPT ![call.disk] = c]
      BY <1>9, <3>2, Zenon DEF CreatePhysicalVolume, Pvcreate
    <3> HIDE DEF c
    <3> QED
      BY <1>9, <3>3, Zenon DEF TypeOK, DevicesTypeOK, CreatePhysicalVolume
  <2> QED
    BY <1>9, <2>2, <2>3, Zenon DEF TypeOK, CreatePhysicalVolume, cluster, history
<1>10. CASE GetNewPhysicalVolume
  <2>0. call.disk \in Lsblk
    BY <1>10, Zenon DEF CallKnows, GetNewPhysicalVolume
  <2>2. call' \in Calls
    BY <1>10, <1>a, <1>b, <2>0, StepNames, CallUpdates, ZenonT(60) DEF GetNewPhysicalVolume, Found
  <2> QED
    BY <1>10, <2>2, Zenon
       DEF TypeOK, DevicesTypeOK, GetNewPhysicalVolume, rest, history, cluster, diskVars
<1>11. CASE PhysicalVolumesEnd
  <2>2. call' \in Calls
    BY <1>11, <1>a, StepNames, CallUpdates, Zenon DEF PhysicalVolumesEnd
  <2> QED
    BY <1>11, <2>2, Zenon
       DEF TypeOK, DevicesTypeOK, PhysicalVolumesEnd, rest, history, cluster, diskVars
<1>12. CASE EnsureVolumeGroup
  <2>6. call' = NoCall \/ call' = [call EXCEPT !.pc = "lvcreate"]
    BY <1>12, Zenon DEF EnsureVolumeGroup, Goto
  <2>7. [call EXCEPT !.pc = "lvcreate"] \in Calls
    BY <1>a, StepNames, CallUpdates, Zenon
  <2>2. call' \in Calls
    BY <1>a, <2>6, <2>7, NoCallFacts, Zenon
  <2> QED
    BY <1>12, <2>2, Zenon
       DEF TypeOK, DevicesTypeOK, EnsureVolumeGroup, rest, history, cluster, diskVars, Vgcreate
<1>13. CASE CreateLogicalVolume
  <2>0. call.cap \in Nat /\ (HasRoom(OurDisks, 0, call.cap) => Allocated(OurDisks, call.cap) \in Nat)
    BY AllocatedBound, Zenon DEF TypeOK, Calls, HasRoom
  <2>6. \/ call' = NoCall
        \/ /\ HasRoom(OurDisks, 0, call.cap)
           /\ call' = [call EXCEPT !.pc = "done", !.size = Allocated(OurDisks, call.cap)]
    BY <1>13, Zenon DEF CreateLogicalVolume
  <2>7. HasRoom(OurDisks, 0, call.cap) =>
          [call EXCEPT !.pc = "done", !.size = Allocated(OurDisks, call.cap)] \in Calls
    BY <1>a, <2>0, StepNames, CallUpdates, Zenon
  <2>2. call' \in Calls
    BY <1>a, <2>6, <2>7, NoCallFacts, Zenon
  <2> QED
    BY <1>13, <2>2, <2>0, Zenon
       DEF TypeOK, DevicesTypeOK, CreateLogicalVolume, rest, history, cluster, diskVars
<1> QED
  BY <1>1, <1>2, <1>3, <1>4, <1>5, <1>6, <1>7, <1>8, <1>9, <1>10, <1>11, <1>12, <1>13, Zenon
     DEF EnsureStep

\* Types: the steps of the calls.
LEMMA CallTypeStep ==
  ASSUME StorageInv, CallStep
  PROVE  TypeOK'
<1> USE DEF StorageInv
<1>a. call \in Calls /\ lv \in Nat /\ cache \in PVs \cup {None} /\ NoCall \in Calls
  BY NoCallFacts, Zenon DEF TypeOK
<1>1. CASE CreateVolume
  <2>0. RequestedSize \in Nat /\ claim.limit \in Nat
    BY RequestAssumption, Zenon DEF TypeOK, RequestedSize
  <2>2. call' \in Calls
    BY <1>1, <1>a, <2>0, EnsureCall, Zenon DEF CreateVolume
  <2> QED
    BY <1>1, <2>2
       DEF TypeOK, DevicesTypeOK, CreateVolume, rest, history, cluster, diskVars
<1>2. CASE CreateReply
  <2>2. call' \in Calls
    BY <1>2, <1>a, Zenon DEF CreateReply
  <2> QED
    BY <1>2, <2>2, RequestAssumption, Zenon
       DEF TypeOK, DevicesTypeOK, CreateReply, rest, history, cluster, diskVars, PVs, Calls
<1>3. CASE NodeStageVolume
  <2>2. call' \in Calls
    BY <1>3, <1>a, StepNames, CallUpdates, ZenonT(60) DEF NodeStageVolume
  <2> QED
    BY <1>3, <2>2
       DEF TypeOK, DevicesTypeOK, NodeStageVolume, rest, history, cluster, diskVars
<1>4. CASE StageAnnotate
  <2>0. [pv EXCEPT !.node = "here"] \in PVs
    BY <1>4 DEF TypeOK, CallKnows, StageAnnotate, At, PVs
  <2>2. call' \in Calls
    BY <1>4, <1>a, <2>0, StepNames, CallUpdates, Zenon DEF StageAnnotate
  <2> QED
    BY <1>4, <2>2, <2>0, Zenon
       DEF TypeOK, DevicesTypeOK, StageAnnotate, rest, history, cluster, diskVars
<1>5. CASE StageEnsure
  <2>0. call.read \in PVs /\ Capacity(call.read) \in Nat /\ call.read.limit \in Nat
    BY <1>5, CapacityFacts, Zenon DEF TypeOK, CallKnows, Here, Calls, StageEnsure, At, PVs
  <2>2. call' \in Calls
    BY <1>5, <1>a, <2>0, EnsureCall, Zenon DEF StageEnsure
  <2> QED
    BY <1>5, <2>2, Zenon
       DEF TypeOK, DevicesTypeOK, StageEnsure, rest, history, cluster, diskVars
<1>6. CASE StageMount
  <2>1. call' \in Calls /\ staged' \in BOOLEAN
    BY <1>6, <1>a, Zenon DEF StageMount
  <2> QED
    BY <1>6, <2>1, Zenon
       DEF TypeOK, DevicesTypeOK, StageMount, history, cluster, diskVars
<1>7. CASE NodeExpandVolume
  <2>0. PICK read \in {cache, None} :
          /\ read = cache \/ faults < MaxFaults
          /\ call' = [NoCall EXCEPT !.op = "expand", !.pc = "find", !.read = read]
          /\ faults' = IF read = cache THEN faults ELSE faults + 1
    BY <1>7, Zenon DEF NodeExpandVolume
  <2>1. read \in PVs \cup {None}
    BY <1>a, Zenon
  <2>2. call' \in Calls
    BY <1>a, <2>0, <2>1, StepNames, CallUpdates, Zenon
  <2>3. faults' \in 0..MaxFaults
    BY <2>0, StorageBounds DEF TypeOK
  <2> QED
    BY <1>7, <2>2, <2>3, Zenon
       DEF TypeOK, DevicesTypeOK, NodeExpandVolume, rest, history, cluster, diskVars
<1>8. CASE ExpandFind
  <2>2. call' \in Calls
    BY <1>8, <1>a, StepNames, CallUpdates, Zenon DEF ExpandFind
  <2> QED
    BY <1>8, <2>2, Zenon
       DEF TypeOK, DevicesTypeOK, ExpandFind, rest, history, cluster, diskVars
<1>9. CASE ExtendLogicalVolume
  <2>0. HasRoom(OurDisks, 0, ExtendSize(asked)) => Allocated(OurDisks, ExtendSize(asked)) \in Nat
    BY AllocatedBound, ExtendSizeBound, RequestAssumption DEF TypeOK, HasRoom
  <2>6. call' = NoCall \/ call' = [call EXCEPT !.pc = "query"]
    BY <1>9, Zenon DEF ExtendLogicalVolume, Goto
  <2>7. [call EXCEPT !.pc = "query"] \in Calls
    BY <1>a, StepNames, CallUpdates, Zenon
  <2>2. call' \in Calls
    BY <1>a, <2>6, <2>7, NoCallFacts, Zenon
  <2> QED
    BY <1>9, <2>2, <2>0, Zenon
       DEF TypeOK, DevicesTypeOK, ExtendLogicalVolume, rest, history, cluster, diskVars
<1>10. CASE ExpandQuery
  <2>2. call' \in Calls
    BY <1>10, <1>a, StepNames, CallUpdates, Zenon DEF ExpandQuery
  <2> QED
    BY <1>10, <2>2, Zenon
       DEF TypeOK, DevicesTypeOK, ExpandQuery, rest, history, cluster, diskVars
<1>11. CASE ExpandRecord
  <2>0. call.size \in Nat /\ (pv # None => [pv EXCEPT !.exp = call.size] \in PVs) /\ pv # None
    BY <1>11, Zenon DEF TypeOK, CallKnows, Calls, ExpandRecord, At, PVs
  <2>2. call' \in Calls
    BY <1>11, <1>a, Zenon DEF ExpandRecord
  <2> QED
    BY <1>11, <2>2, <2>0, <2>0, Zenon
       DEF TypeOK, DevicesTypeOK, ExpandRecord, rest, history, cluster, diskVars, Larger
<1>12. CASE EnsureStep
  BY <1>12, EnsureTypeStep
<1> QED
  BY <1>1, <1>2, <1>3, <1>4, <1>5, <1>6, <1>7, <1>8, <1>9, <1>10, <1>11, <1>12, Zenon DEF CallStep

\* Types: the rest of the cluster.
LEMMA EnvTypeStep ==
  ASSUME StorageInv, [Next]_vars, ~CallStep
  PROVE  TypeOK'
<1> USE DEF StorageInv
<1>a. call \in Calls /\ NoCall \in Calls
  BY NoCallFacts, Zenon DEF TypeOK
<1>1. CASE Sync
  BY <1>1, NoCallFacts, StepNames
     DEF TypeOK, DevicesTypeOK, Calls, Sync, rest, history, cluster, diskVars
<1>2. CASE CollectDecide
  BY <1>2, Zenon
     DEF TypeOK, DevicesTypeOK, CollectDecide, rest, history, cluster, diskVars
<1>11. CASE CollectDelete
  <2>1. lv' \in Nat
    BY <1>11 DEF TypeOK, CollectDelete
  <2>2. collect' \in BOOLEAN /\ taken' \in BOOLEAN
    BY <1>11, Zenon DEF TypeOK, CollectDelete
  <2> QED
    BY <1>11, <2>1, <2>2, Zenon
       DEF TypeOK, DevicesTypeOK, CollectDelete, cluster, diskVars
<1>3. CASE PodArrives
  BY <1>3, NoCallFacts, StepNames
     DEF TypeOK, DevicesTypeOK, Calls, PodArrives, rest, history, cluster, diskVars
<1>4. CASE PodLeaves
  <2>1. DevicesTypeOK'
    BY <1>4, Zenon
       DEF TypeOK, DevicesTypeOK, PodLeaves, rest, history, cluster, diskVars
  <2>2. call' \in Calls
    BY <1>4, <1>a, Zenon DEF PodLeaves
  <2>3. claim' \in [req : Requests, limit : Limits] /\ asked' \in ExpandSizes \cup {0}
        /\ lv' \in Nat /\ acked' \in Nat /\ kept' \in Nat /\ moves' \in 0..MaxMoves /\ faults' \in 0..MaxFaults
    BY <1>4, Zenon
       DEF TypeOK, PodLeaves, rest, history, cluster, diskVars
  <2>4. pv' \in PVs \cup {None} /\ cache' \in PVs \cup {None}
    BY <1>4, Zenon
       DEF TypeOK, PodLeaves, rest, history, cluster, diskVars
  <2>5. want' \in BOOLEAN /\ staged' \in BOOLEAN /\ collect' \in BOOLEAN /\ taken' \in BOOLEAN
        /\ answer' \in {"none", "ok", "outOfRange"}
    BY <1>4, Zenon
       DEF TypeOK, PodLeaves, rest, history, cluster, diskVars
  <2> QED
    BY <2>1, <2>2, <2>3, <2>4, <2>5, Zenon DEF TypeOK
<1>5. CASE RaiseClaim
  BY <1>5, NoCallFacts, StepNames, RequestAssumption
     DEF TypeOK, DevicesTypeOK, Calls, RaiseClaim, rest, history, cluster, diskVars
<1>6. CASE StayElsewhere
  <2> PICK n \in {pv.exp} \cup {m \in {asked} : m > acked} :
             pv' = [pv EXCEPT !.node = "other", !.exp = n] /\ acked' = Larger(acked, n)
             /\ kept' = Larger(kept, n)
    BY <1>6, Zenon DEF StayElsewhere
  <2> pv \in PVs /\ n \in Nat
    BY <1>6, RequestAssumption DEF StayElsewhere, TypeOK, PVs
  <2>1. DevicesTypeOK'
    BY <1>6, Zenon
       DEF TypeOK, DevicesTypeOK, StayElsewhere, rest, history, cluster, diskVars
  <2>2. call' \in Calls
    BY <1>6, <1>a, Zenon DEF StayElsewhere
  <2>3. claim' \in [req : Requests, limit : Limits] /\ asked' \in ExpandSizes \cup {0}
        /\ lv' \in Nat /\ acked' \in Nat /\ kept' \in Nat /\ moves' \in 0..MaxMoves /\ faults' \in 0..MaxFaults
    BY <1>6, StorageBounds
       DEF TypeOK, StayElsewhere, rest, history, cluster, diskVars, Larger
  <2>4. pv' \in PVs \cup {None} /\ cache' \in PVs \cup {None}
    <3>1. pv' \in PVs
      BY Zenon DEF PVs
    <3> QED
      BY <1>6, <3>1, Zenon DEF TypeOK, StayElsewhere
  <2>5. want' \in BOOLEAN /\ staged' \in BOOLEAN /\ collect' \in BOOLEAN /\ taken' \in BOOLEAN
        /\ answer' \in {"none", "ok", "outOfRange"}
    BY <1>6, Zenon
       DEF TypeOK, StayElsewhere, rest, history, cluster, diskVars
  <2> QED
    BY <2>1, <2>2, <2>3, <2>4, <2>5, Zenon DEF TypeOK
<1>7. CASE CallFails
  <2>1. call' \in Calls
    BY <1>7, <1>a, Zenon DEF CallFails
  <2>2. cache' \in PVs \cup {None} /\ collect' \in BOOLEAN
    BY <1>7, Zenon DEF CallFails, TypeOK
  <2>3. faults' \in 0..MaxFaults
    BY <1>7, StorageBounds DEF CallFails, TypeOK
  <2> QED
    BY <1>7, <2>1, <2>2, <2>3, Zenon
       DEF TypeOK, DevicesTypeOK, CallFails, history, diskVars
<1>8. CASE HostReplaced
  <2>1. DevicesTypeOK'
    BY <1>8, Zenon
       DEF TypeOK, DevicesTypeOK, HostReplaced, rest, history, cluster, diskVars, ReplaceDisks
  <2>2. call' \in Calls
    BY <1>8, <1>a, Zenon DEF HostReplaced
  <2>3. claim' \in [req : Requests, limit : Limits] /\ asked' \in ExpandSizes \cup {0}
        /\ lv' \in Nat /\ acked' \in Nat /\ kept' \in Nat /\ moves' \in 0..MaxMoves /\ faults' \in 0..MaxFaults
    BY <1>8, StorageBounds
       DEF TypeOK, HostReplaced, rest, history, cluster, diskVars
  <2>4. pv' \in PVs \cup {None} /\ cache' \in PVs \cup {None}
    BY <1>8, Zenon
       DEF TypeOK, HostReplaced, rest, history, cluster, diskVars
  <2>5. want' \in BOOLEAN /\ staged' \in BOOLEAN /\ collect' \in BOOLEAN /\ taken' \in BOOLEAN
        /\ answer' \in {"none", "ok", "outOfRange"}
    BY <1>8, ZenonT(60)
       DEF TypeOK, HostReplaced, rest, history, cluster, diskVars
  <2> QED
    BY <2>1, <2>2, <2>3, <2>4, <2>5, Zenon DEF TypeOK
<1>9. CASE DiskTaken
  BY <1>9, NoCallFacts, StepNames, ForeignAssumption
     DEF TypeOK, DevicesTypeOK, Calls, DiskTaken, rest, history, cluster, diskVars, TakeForeign
<1>10. CASE UNCHANGED vars
  BY <1>10 DEF TypeOK, DevicesTypeOK, vars, rest, history, cluster, diskVars
<1> QED
  BY <1>1, <1>2, <1>3, <1>4, <1>5, <1>6, <1>7, <1>8, <1>9, <1>10, <1>11, Zenon DEF Next

\* What the PV and the cache know of the sizes: the steps of EnsureVolume.
LEMMA EnsureSizesStep ==
  ASSUME StorageInv, EnsureStep
  PROVE  SizesRecorded'
<1> USE DEF StorageInv
<1>1. CASE CheckExisting
  BY <1>1, Zenon DEF SizesRecorded, Here, Covers, CheckExisting, rest, history, cluster
<1>2. CASE GetVolumeGroup
  BY <1>2, Zenon DEF SizesRecorded, Here, Covers, GetVolumeGroup, rest, history, cluster
<1>3. ASSUME NEW d \in Lsblk, ScanDevice(d) PROVE SizesRecorded'
  BY <1>3, Zenon DEF SizesRecorded, Here, Covers, ScanDevice, rest, history, cluster
<1>4. ASSUME NEW d \in Lsblk, GetPhysicalVolume(d) PROVE SizesRecorded'
  BY <1>4, Zenon DEF SizesRecorded, Here, Covers, GetPhysicalVolume, rest, history, cluster
<1>5. CASE ScanLVM2
  BY <1>5, Zenon DEF SizesRecorded, Here, Covers, ScanLVM2, rest, history, cluster
<1>6. CASE ScanEnd
  BY <1>6, Zenon DEF SizesRecorded, Here, Covers, ScanEnd, rest, history, cluster
<1>7. CASE LookFormatted
  BY <1>7, Zenon DEF SizesRecorded, Here, Covers, LookFormatted, rest, history, cluster
<1>8. CASE LookLVM2
  BY <1>8, Zenon DEF SizesRecorded, Here, Covers, LookLVM2, rest, history, cluster
<1>9. CASE CreatePhysicalVolume
  BY <1>9, Zenon DEF SizesRecorded, Here, Covers, CreatePhysicalVolume, rest, history, cluster
<1>10. CASE GetNewPhysicalVolume
  BY <1>10, Zenon DEF SizesRecorded, Here, Covers, GetNewPhysicalVolume, rest, history, cluster
<1>11. CASE PhysicalVolumesEnd
  BY <1>11, Zenon DEF SizesRecorded, Here, Covers, PhysicalVolumesEnd, rest, history, cluster
<1>12. CASE EnsureVolumeGroup
  BY <1>12, Zenon DEF SizesRecorded, Here, Covers, EnsureVolumeGroup, rest, history, cluster
<1>13. CASE CreateLogicalVolume
  BY <1>13, NoCallFacts, AllocatedBound, CapacityFacts
     DEF TypeOK, SizesRecorded, CallKnows, Here, Covers, Calls, CreateLogicalVolume, rest,
         history, cluster,
      diskVars, HasRoom
<1> QED
  BY <1>1, <1>2, <1>3, <1>4, <1>5, <1>6, <1>7, <1>8, <1>9, <1>10, <1>11, <1>12, <1>13, Zenon
     DEF EnsureStep

\* What the PV and the cache know of the sizes: the steps of the calls.
LEMMA CallSizesStep ==
  ASSUME StorageInv, CallStep
  PROVE  SizesRecorded'
<1> USE DEF StorageInv
<1>1. CASE CreateVolume
  BY <1>1, Zenon DEF SizesRecorded, Here, Covers, CreateVolume, rest, history, cluster
<1>2. CASE CreateReply
  BY <1>2, NoCallFacts, CapacityFacts, NoneAssumption
     DEF TypeOK, SizesRecorded, CallKnows, Here, Covers, Calls, CreateReply, rest, history, cluster,
      diskVars, At, PVs, Capacity, Larger
<1>3. CASE NodeStageVolume
  BY <1>3, Zenon DEF SizesRecorded, Here, Covers, NodeStageVolume, rest, history, cluster
<1>4. CASE StageAnnotate
  BY <1>4, NoCallFacts, CapacityFacts, NoneAssumption
     DEF TypeOK, SizesRecorded, CallKnows, Here, Covers, Calls, StageAnnotate, rest, history,
         cluster,
      diskVars, At, PVs, Capacity, Larger
<1>5. CASE StageEnsure
  BY <1>5, Zenon DEF SizesRecorded, Here, Covers, StageEnsure, rest, history, cluster
<1>6. CASE StageMount
  BY <1>6, NoCallFacts, CapacityFacts, Zenon
     DEF TypeOK, SizesRecorded, CallKnows, Here, Covers, Calls, StageMount, rest, history,
         cluster, diskVars,
      At
<1>7. CASE NodeExpandVolume
  BY <1>7, Zenon DEF SizesRecorded, Here, Covers, NodeExpandVolume, rest, history, cluster
<1>8. CASE ExpandFind
  BY <1>8, Zenon DEF SizesRecorded, Here, Covers, ExpandFind, rest, history, cluster
<1>9. CASE ExtendLogicalVolume
  BY <1>9, NoCallFacts, AllocatedBound, ExtendSizeBound, RequestAssumption, CapacityFacts
     DEF TypeOK, SizesRecorded, CallKnows, Here, Covers, Calls, ExtendLogicalVolume, rest,
         history, cluster,
      diskVars, Goto, At, HasRoom
<1>10. CASE ExpandQuery
  BY <1>10, Zenon DEF SizesRecorded, Here, Covers, ExpandQuery, rest, history, cluster
<1>11. CASE ExpandRecord
  BY <1>11, NoCallFacts, CapacityFacts, NoneAssumption
     DEF TypeOK, SizesRecorded, CallKnows, Here, Covers, Calls, ExpandRecord, rest, history,
         cluster,
      diskVars, At, Larger, PVs, Capacity
<1>12. CASE EnsureStep
  BY <1>12, EnsureSizesStep, Zenon
<1> QED
  BY <1>1, <1>2, <1>3, <1>4, <1>5, <1>6, <1>7, <1>8, <1>9, <1>10, <1>11, <1>12, Zenon DEF CallStep

\* What the PV and the cache know of the sizes: the rest of the cluster.
LEMMA EnvSizesStep ==
  ASSUME StorageInv, [Next]_vars, ~CallStep
  PROVE  SizesRecorded'
<1> USE DEF StorageInv
<1>1. CASE Sync
  BY <1>1, Zenon DEF TypeOK, SizesRecorded, Here, Covers, Sync, history
<1>2. CASE CollectDecide
  BY <1>2, Zenon DEF SizesRecorded, Here, Covers, CollectDecide, cluster, history
<1>11. CASE CollectDelete
  <2>1. UNCHANGED <<pv, cache, asked, want, staged, acked, kept>>
    BY <1>11, Zenon DEF CollectDelete, cluster
  <2>2. CASE UNCHANGED <<lv, taken>>
    BY <2>1, <2>2, Zenon DEF SizesRecorded, Here, Covers
  <2>3. CASE lv' = 0 /\ taken' = (taken \/ (lv > 0 /\ Here(pv) /\ Lagging))
    <3>1. Here(pv) /\ Here(cache) /\ ~taken' => Capacity(cache) >= kept
      <4> SUFFICES ASSUME Here(pv), Here(cache), ~taken' PROVE Capacity(cache) >= kept
        BY Zenon
      <4>1. cache \in PVs /\ Capacity(cache) \in Nat /\ kept \in Nat /\ lv \in Nat
        BY CapacityFacts, Zenon DEF TypeOK, Here
      <4>2. ~taken /\ (lv = 0 \/ ~(Capacity(cache) < kept))
        <5>1. ~taken /\ ~(lv > 0 /\ Lagging)
          BY <2>3, Zenon
        <5>2. Capacity(cache) < kept => Lagging
          BY Zenon DEF Lagging
        <5> QED
          BY <4>1, <5>1, <5>2
      <4>3. lv >= kept \/ Capacity(cache) >= kept
        BY <4>2, Zenon DEF SizesRecorded, Covers
      <4> QED
        BY <4>1, <4>2, <4>3
    <3> QED
      BY <2>1, <2>3, <3>1, Zenon DEF SizesRecorded, Here, Covers
  <2> QED
    BY <1>11, <2>2, <2>3, Zenon DEF CollectDelete
<1>3. CASE PodArrives
  BY <1>3, Zenon DEF SizesRecorded, Here, Covers, PodArrives, history
<1>4. CASE PodLeaves
  BY <1>4, Zenon DEF SizesRecorded, Here, Covers, PodLeaves, history
<1>5. CASE RaiseClaim
  BY <1>5, Zenon DEF SizesRecorded, Here, Covers, RaiseClaim, history
<1>6. CASE StayElsewhere
  <2> PICK n \in {pv.exp} \cup {m \in {asked} : m > acked} :
             pv' = [pv EXCEPT !.node = "other", !.exp = n] /\ acked' = Larger(acked, n)
             /\ kept' = Larger(kept, n)
    BY <1>6, Zenon DEF StayElsewhere
  <2>1. pv \in PVs /\ n \in Nat /\ acked \in Nat /\ kept \in Nat
    BY <1>6, RequestAssumption DEF StayElsewhere, TypeOK, PVs
  <2>2. /\ pv' \in PVs /\ pv'.node = "other" /\ pv'.exp = n /\ pv'.cap = pv.cap
        /\ pv # None /\ pv' # None
    <3>1. pv' \in PVs
      BY <2>1, Zenon DEF PVs
    <3>2. pv'.node = "other" /\ pv'.exp = n /\ pv'.cap = pv.cap
      BY <2>1, Zenon DEF PVs
    <3> QED
      BY <1>6, <3>1, <3>2, NoneAssumption, Zenon DEF StayElsewhere
  <2>3. kept <= Capacity(pv) /\ pv.exp <= kept /\ kept <= acked
    BY <2>2, Zenon DEF SizesRecorded
  <2>4. kept <= kept' /\ kept' <= acked' /\ pv'.exp <= kept' /\ kept' <= Capacity(pv')
    BY <2>1, <2>2, <2>3 DEF Larger, Capacity, PVs
  <2>5. cache' = cache /\ (cache # None => cache \in PVs /\ cache.exp <= kept)
    BY <1>6, Zenon DEF StayElsewhere, TypeOK, SizesRecorded
  <2>6. kept' \in Nat
    BY <2>1, Zenon DEF Larger
  <2>7. cache' # None => cache'.exp <= kept'
    BY <2>1, <2>4, <2>5, <2>6 DEF PVs
  <2>8. ~Here(pv)'
    BY <2>2, Zenon DEF Here
  <2> QED
    BY <2>2, <2>4, <2>7, <2>8, Zenon DEF SizesRecorded
<1>7. CASE CallFails
  BY <1>7, Zenon DEF TypeOK, SizesRecorded, Here, Covers, CallFails, history
<1>8. CASE HostReplaced
  BY <1>8, Zenon DEF TypeOK, SizesRecorded, Here, Covers, HostReplaced
<1>9. CASE DiskTaken
  BY <1>9, Zenon DEF SizesRecorded, Here, Covers, DiskTaken, cluster, history
<1>10. CASE UNCHANGED vars
  BY <1>10, Zenon DEF SizesRecorded, Here, Covers, Capacity, vars, rest, history, cluster, diskVars
<1> QED
  BY <1>1, <1>2, <1>3, <1>4, <1>5, <1>6, <1>7, <1>8, <1>9, <1>10, <1>11, Zenon DEF Next

\* What the call has in hand: the steps of EnsureVolume.
LEMMA EnsureHandStep ==
  ASSUME StorageInv, EnsureStep
  PROVE  CallKnows'
<1> USE DEF StorageInv
<1>1. CASE CheckExisting
  BY <1>1, NoCallFacts, CapacityFacts
     DEF TypeOK, SizesRecorded, CallKnows, Here, Covers, Calls, CheckExisting, rest, history,
         cluster,
      diskVars, SizeFits, Creating
<1>2. CASE GetVolumeGroup
  BY <1>2, NoCallFacts, CapacityFacts, Zenon
     DEF TypeOK, SizesRecorded, CallKnows, Here, Covers, Calls, GetVolumeGroup, rest, history,
         cluster,
      diskVars, Creating
<1>3. ASSUME NEW d \in Lsblk, ScanDevice(d) PROVE CallKnows'
  BY <1>3, NoCallFacts, CapacityFacts
     DEF TypeOK, SizesRecorded, CallKnows, Here, Covers, Calls, ScanDevice, rest, history,
         cluster, diskVars,
      Creating
<1>4. ASSUME NEW d \in Lsblk, GetPhysicalVolume(d) PROVE CallKnows'
  BY <1>4, NoCallFacts, CapacityFacts, Zenon
     DEF TypeOK, SizesRecorded, CallKnows, Here, Covers, Calls, GetPhysicalVolume, rest,
         history, cluster,
      diskVars, Found, Creating
<1>5. CASE ScanLVM2
  BY <1>5, NoCallFacts, CapacityFacts, Zenon
     DEF TypeOK, SizesRecorded, CallKnows, Here, Covers, Calls, ScanLVM2, rest, history,
         cluster, diskVars,
      Creating
<1>6. CASE ScanEnd
  BY <1>6, NoCallFacts, CapacityFacts
     DEF TypeOK, SizesRecorded, CallKnows, Here, Covers, Calls, ScanEnd, rest, history, cluster,
         diskVars,
      Creating
<1>7. CASE LookFormatted
  BY <1>7, NoCallFacts, CapacityFacts, Zenon
     DEF TypeOK, SizesRecorded, CallKnows, Here, Covers, Calls, LookFormatted, rest, history,
         cluster,
      diskVars, Creating
<1>8. CASE LookLVM2
  BY <1>8, NoCallFacts, CapacityFacts
     DEF TypeOK, SizesRecorded, CallKnows, Here, Covers, Calls, LookLVM2, rest, history,
         cluster, diskVars,
      Creating
<1>9. CASE CreatePhysicalVolume
  BY <1>9, NoCallFacts, CapacityFacts, Zenon
     DEF TypeOK, SizesRecorded, CallKnows, Here, Covers, Calls, CreatePhysicalVolume, rest,
         history, cluster,
      diskVars, Pvcreate, Creating
<1>10. CASE GetNewPhysicalVolume
  BY <1>10, NoCallFacts, CapacityFacts, Zenon
     DEF TypeOK, SizesRecorded, CallKnows, Here, Covers, Calls, GetNewPhysicalVolume, rest,
         history, cluster,
      diskVars, Found, Creating
<1>11. CASE PhysicalVolumesEnd
  BY <1>11, NoCallFacts, CapacityFacts, Zenon
     DEF TypeOK, SizesRecorded, CallKnows, Here, Covers, Calls, PhysicalVolumesEnd, rest,
         history, cluster,
      diskVars, Creating
<1>12. CASE EnsureVolumeGroup
  BY <1>12, NoCallFacts, CapacityFacts
     DEF TypeOK, SizesRecorded, CallKnows, Here, Covers, Calls, EnsureVolumeGroup, rest,
         history, cluster,
      diskVars, Vgcreate, Goto, Creating
<1>13. CASE CreateLogicalVolume
  <2>0. call.cap \in Nat /\ (HasRoom(OurDisks, 0, call.cap) => lv' >= call.cap /\ lv' \in Nat)
    BY <1>13, AllocatedBound, Zenon DEF TypeOK, Calls, HasRoom, CreateLogicalVolume
  <2>1. CASE HasRoom(OurDisks, 0, call.cap)
    <3>1. /\ call.pc = "lvcreate" /\ call'.pc = "done" /\ call'.op = call.op
          /\ UNCHANGED <<pv, cache, staged, acked, kept, taken>> /\ kept \in Nat
      <4>1. call' = [call EXCEPT !.pc = "done", !.size = lv']
        BY <1>13, <2>1, Zenon DEF CreateLogicalVolume
      <4>2. call'.pc = "done" /\ call'.op = call.op
        BY <4>1, Zenon DEF TypeOK, Calls
      <4> QED
        BY <1>13, <4>2, Zenon DEF TypeOK, CreateLogicalVolume, cluster, history
    <3>2. call.op \in {"create", "stage"} /\ call'.pc \notin Creating
      BY <3>1, Zenon DEF TypeOK, Calls, CallKnows, Creating
    <3>3. call.op = "stage" /\ Here(pv) => Covers(lv)'
      <4>1. call.op = "stage" /\ Here(pv) => call.cap >= kept \/ taken
        BY <3>1, Zenon DEF CallKnows, Creating, Covers
      <4>2. call.cap >= kept => lv' >= kept
        BY <2>0, <2>1, <3>1
      <4> QED
        BY <3>1, <4>1, <4>2, Zenon DEF Covers
    <3> QED
      BY <3>1, <3>2, <3>3, Zenon DEF CallKnows, Here
  <2>2. CASE ~HasRoom(OurDisks, 0, call.cap)
    BY <1>13, <2>2, NoCallFacts
       DEF CallKnows, CreateLogicalVolume, cluster, history, diskVars, Creating
  <2> QED
    BY <2>1, <2>2, Zenon
<1> QED
  BY <1>1, <1>2, <1>3, <1>4, <1>5, <1>6, <1>7, <1>8, <1>9, <1>10, <1>11, <1>12, <1>13, Zenon
     DEF EnsureStep

\* What the call has in hand: the steps of the calls.
LEMMA CallHandStep ==
  ASSUME StorageInv, CallStep
  PROVE  CallKnows'
<1> USE DEF StorageInv
<1>1. CASE CreateVolume
  <2>0. RequestedSize \in Nat /\ claim.limit \in Nat
    BY RequestAssumption, Zenon DEF TypeOK, RequestedSize
  <2>1. \/ call' = NoCall
        \/ call'.op = "create" /\ call'.pc = "check"
    BY <1>1, <2>0, EnsureCall DEF CreateVolume
  <2> QED
    BY <1>1, <2>1, NoCallFacts DEF CallKnows, CreateVolume, rest, history, cluster, Creating
<1>2. CASE CreateReply
  BY <1>2, NoCallFacts DEF CallKnows, CreateReply
<1>3. CASE NodeStageVolume
  BY <1>3, NoCallFacts, CapacityFacts
     DEF TypeOK, SizesRecorded, CallKnows, Here, Covers, Calls, NodeStageVolume, rest, history,
         cluster,
      diskVars, Idle, Creating, NoCall
<1>4. CASE StageAnnotate
  <2>1. /\ pv' = [pv EXCEPT !.node = "here"] /\ UNCHANGED <<lv, cache, staged, acked, kept, taken>>
        /\ call' = [call EXCEPT !.pc = "capacity", !.read = pv']
        /\ call.op = "stage" /\ call.pc = "annotate"
    BY <1>4, Zenon DEF StageAnnotate, At, history
  <2>2. pv \in PVs /\ ~staged /\ kept <= Capacity(pv)
    BY <2>1, Zenon DEF TypeOK, SizesRecorded, CallKnows
  <2>3. pv' \in PVs /\ pv' # None /\ Capacity(pv') = Capacity(pv)
    BY <2>1, <2>2, NoneAssumption, Zenon DEF PVs, Capacity
  <2>4. call'.op = "stage" /\ call'.pc = "capacity" /\ call'.read = pv'
    BY <2>1, Zenon DEF TypeOK, Calls
  <2>5. Capacity(pv) \in Nat /\ kept \in Nat
    BY <2>2, CapacityFacts, Zenon DEF TypeOK
  <2>6. Capacity(pv') >= kept
    BY <2>2, <2>3, <2>5
  <2>7. pv'.node = "here"
    BY <2>1, <2>2, Zenon DEF PVs
  <2> QED
    BY <2>1, <2>2, <2>3, <2>4, <2>6, <2>7, Zenon DEF CallKnows, Creating, Here, Covers
<1>5. CASE StageEnsure
  <2>0. call.read \in PVs /\ Capacity(call.read) \in Nat /\ call.read.limit \in Nat
    BY <1>5, CapacityFacts, Zenon DEF TypeOK, CallKnows, Here, Calls, StageEnsure, At, PVs
  <2>1. \/ call' = NoCall
        \/ /\ call'.op = "stage" /\ call'.pc = "check"
           /\ call'.cap = Capacity(call.read) /\ call'.read = call.read
    BY <1>5, <2>0, EnsureCall DEF StageEnsure
  <2>2. UNCHANGED <<pv, lv, staged, kept, taken>>
    BY <1>5, Zenon DEF StageEnsure, rest, cluster, history
  <2>3. CASE call' = NoCall
    BY <2>3, NoCallFacts, Zenon DEF CallKnows, Creating
  <2>4. CASE call' # NoCall
    <3>1. call.op = "stage" /\ call.pc = "capacity"
      BY <1>5, Zenon DEF StageEnsure, At
    <3> QED
      BY <2>1, <2>2, <2>4, <3>1, Zenon DEF CallKnows, Creating, Here, Covers
  <2> QED
    BY <2>3, <2>4, Zenon
<1>6. CASE StageMount
  BY <1>6, NoCallFacts, Zenon DEF CallKnows, StageMount
<1>7. CASE NodeExpandVolume
  BY <1>7, NoCallFacts, CapacityFacts
     DEF TypeOK, SizesRecorded, CallKnows, Here, Covers, Calls, NodeExpandVolume, rest, history,
         cluster,
      diskVars, Idle, Creating, NoCall
<1>8. CASE ExpandFind
  BY <1>8, NoCallFacts, RequestAssumption, CapacityFacts
     DEF TypeOK, SizesRecorded, CallKnows, Here, Covers, Calls, ExpandFind, rest, history,
         cluster, diskVars,
      At, Creating
<1>9. CASE ExtendLogicalVolume
  BY <1>9, NoCallFacts, AllocatedBound, ExtendSizeBound, RequestAssumption, CapacityFacts
     DEF TypeOK, SizesRecorded, CallKnows, Here, Covers, Calls, ExtendLogicalVolume, rest,
         history, cluster,
      diskVars, Goto, At, HasRoom, Creating
<1>10. CASE ExpandQuery
  BY <1>10, NoCallFacts, CapacityFacts, Zenon
     DEF TypeOK, SizesRecorded, CallKnows, Here, Covers, Calls, ExpandQuery, rest, history, cluster,
      diskVars, At, Creating
<1>11. CASE ExpandRecord
  BY <1>11, NoCallFacts, Zenon DEF CallKnows, ExpandRecord
<1>12. CASE EnsureStep
  BY <1>12, EnsureHandStep
<1> QED
  BY <1>1, <1>2, <1>3, <1>4, <1>5, <1>6, <1>7, <1>8, <1>9, <1>10, <1>11, <1>12, Zenon DEF CallStep

\* What the call has in hand: the rest of the cluster.
LEMMA EnvHandStep ==
  ASSUME StorageInv, [Next]_vars, ~CallStep
  PROVE  CallKnows'
<1> USE DEF StorageInv
<1>1. CASE Sync
  BY <1>1, Zenon DEF SizesRecorded, CallKnows, Here, Covers, Sync, history
<1>2. CASE CollectDecide
  BY <1>2, Zenon DEF CallKnows, Here, Covers, CollectDecide, cluster, history
<1>11. CASE CollectDelete
  <2>1. UNCHANGED <<pv, cache, asked, want, staged, acked, kept, call>>
    BY <1>11, Zenon DEF CollectDelete, cluster
  <2>2. CASE UNCHANGED <<lv, taken>>
    BY <2>1, <2>2, Zenon DEF CallKnows, Here, Covers
  <2>3. CASE lv' = 0 /\ taken' = (taken \/ (lv > 0 /\ Here(pv) /\ Lagging))
    <3>1. lv \in Nat /\ kept \in Nat /\ asked \in Nat /\ acked \in Nat
      BY RequestAssumption DEF TypeOK
    <3>2. ASSUME Here(pv), Here(call.read), ~taken', lv >= kept \/ Capacity(call.read) >= kept
          PROVE  Capacity(call.read) >= kept
      <4>1. Capacity(call.read) \in Nat
        BY <3>2, CapacityFacts, Zenon DEF TypeOK, Calls, Here
      <4>2. lv = 0 \/ ~(Capacity(call.read) < kept)
        <5>1. ~(lv > 0 /\ Lagging)
          BY <2>3, <3>2, Zenon
        <5>2. Capacity(call.read) < kept => Lagging
          BY <3>2, Zenon DEF Lagging
        <5> QED
          BY <3>1, <5>1, <5>2
      <4> QED
        BY <3>1, <3>2, <4>1, <4>2
    <3>3. call.op = "expand" /\ Here(pv) /\ ~taken' => lv = 0 /\ ~taken
      <4>1. call.op = "expand" => Lagging
        BY Zenon DEF Lagging
      <4>2. lv > 0 \/ lv = 0
        BY <3>1
      <4> QED
        BY <2>3, <4>1, <4>2, Zenon
    <3>4. call.op = "expand" /\ call.pc = "extend" => lv' < asked
      BY <2>3, <3>1 DEF CallKnows
    <3>5. taken => taken'
      BY <2>3, Zenon
    <3> QED
      BY <2>1, <2>3, <3>2, <3>3, <3>4, <3>5, ZenonT(60) DEF CallKnows, Here, Covers
  <2> QED
    BY <1>11, <2>2, <2>3, Zenon DEF CollectDelete
<1>3. CASE PodArrives
  BY <1>3, Zenon DEF CallKnows, Here, Covers, PodArrives, history
<1>4. CASE PodLeaves
  BY <1>4, Zenon DEF CallKnows, Here, Covers, PodLeaves, history
<1>5. CASE RaiseClaim
  BY <1>5, NoCallFacts, RequestAssumption, CapacityFacts
     DEF TypeOK, SizesRecorded, CallKnows, Here, Covers, Calls, RaiseClaim, rest, history,
         cluster, diskVars,
      Creating
<1>6. CASE StayElsewhere
  BY <1>6, NoCallFacts, Zenon DEF CallKnows, StayElsewhere, Idle
<1>7. CASE CallFails
  BY <1>7, NoCallFacts, Zenon DEF CallKnows, CallFails
<1>8. CASE HostReplaced
  BY <1>8, NoCallFacts, Zenon DEF CallKnows, HostReplaced
<1>9. CASE DiskTaken
  BY <1>9, Zenon DEF CallKnows, Here, Covers, DiskTaken, cluster, history
<1>10. CASE UNCHANGED vars
  BY <1>10 DEF CallKnows, Here, Covers, Capacity, vars, rest, history, cluster, diskVars
<1> QED
  BY <1>1, <1>2, <1>3, <1>4, <1>5, <1>6, <1>7, <1>8, <1>9, <1>10, <1>11, Zenon DEF Next

\* StorageInv holds for any disks, sizes, moves and faults, whenever a collector
\* decides and deletes, and whether or not NodeExpandVolume can read the PV.
THEOREM StorageInvariant == Spec => []StorageInv
<1>1. Init => StorageInv
  <2>1. Init => TypeOK
    <3>1. Init => DevicesTypeOK
      BY ForeignAssumption DEF Init, DevicesInit, DevicesTypeOK
    <3>2. Init => /\ want \in BOOLEAN /\ staged \in BOOLEAN
                  /\ collect \in BOOLEAN /\ taken \in BOOLEAN
      BY Zenon DEF Init
    <3> QED
      BY <3>1, <3>2, NoCallFacts, StorageBounds DEF Init, TypeOK
  <2> QED
    <3>1. Init => kept <= acked
      BY DEF Init
    <3> QED
      BY <2>1, <3>1, NoCallFacts, Zenon DEF Init, StorageInv, SizesRecorded, CallKnows, Here
<1>2. StorageInv /\ [Next]_vars => StorageInv'
  <2>1. StorageInv /\ CallStep => StorageInv'
    BY CallTypeStep, CallSizesStep, CallHandStep, Zenon DEF StorageInv
  <2>2. StorageInv /\ [Next]_vars /\ ~CallStep => StorageInv'
    BY EnvTypeStep, EnvSizesStep, EnvHandStep, Zenon DEF StorageInv
  <2> QED
    BY <2>1, <2>2, Zenon
<1> QED
  BY <1>1, <1>2, PTL DEF Spec

\* A volume that NodeStageVolume has staged on the node its PV names is at
\* least as large as every size NodeExpandVolume acknowledged and wrote to the
\* PV, for any disks, sizes, moves and faults, unless a collector deleted the
\* volume here before the cache knew of an expansion.
THEOREM StagedVolumeAtAckedSize == Spec => []StagedAtAckedSize
<1>1. StorageInv => StagedAtAckedSize
  <2>1. ASSUME TypeOK, lv = 0 PROVE ~(lv > 0)
    BY <2>1
  <2> QED
    BY <2>1, Zenon DEF StorageInv, SizesRecorded, StagedAtAckedSize, Covers
<1> QED
  BY <1>1, StorageInvariant, PTL

\* The only steps that write to a disk.
LEMMA ContentWriters ==
  ASSUME [Next]_vars
  PROVE  \/ UNCHANGED content
         \/ \E d : Pvcreate(d)
         \/ ReplaceDisks
         \/ \E d \in Lsblk : TakeForeign(d)
<1>1. CASE EnsureStep
  BY <1>1, Zenon
     DEF EnsureStep, CheckExisting, GetVolumeGroup, ScanDevice, GetPhysicalVolume, ScanLVM2,
         ScanEnd, LookFormatted, LookLVM2, CreatePhysicalVolume, GetNewPhysicalVolume,
         PhysicalVolumesEnd, EnsureVolumeGroup, CreateLogicalVolume, rest, history, diskVars
<1>2. CASE CallStep /\ ~EnsureStep
  BY <1>2, Zenon
     DEF CallStep, CreateVolume, CreateReply, NodeStageVolume, StageAnnotate, StageEnsure,
         StageMount, NodeExpandVolume, ExpandFind, ExtendLogicalVolume, ExpandQuery,
         ExpandRecord, rest, history, diskVars
<1>3. CASE Next /\ ~CallStep
  BY <1>3, Zenon
     DEF Next, Sync, CollectDecide, CollectDelete, PodArrives, PodLeaves, RaiseClaim, StayElsewhere,
         CallFails, HostReplaced, DiskTaken, diskVars
<1>4. CASE UNCHANGED vars
  BY <1>4, Zenon DEF vars, rest, history, diskVars
<1> QED
  BY <1>1, <1>2, <1>3, <1>4, Zenon

\* CreatePhysicalVolume never turns a disk into a physical volume that
\* somebody else has written to, whatever else happens between its two looks
\* at the disk and pvcreate, and whether or not the PV can be read.
THEOREM ForeignDisksKept == Spec => ForeignContentKept
<1> DEFINE Contents == content \in [Lsblk -> {"blank", "lvm2", "other"}]
<1>1. Init => Contents
  BY Zenon DEF Init, DevicesInit
<1>2. ASSUME Contents, [Next]_vars
      PROVE  /\ Contents'
             /\ \A d \in Lsblk : content[d] = "other" => content'[d] # "lvm2"
  <2>1. CASE UNCHANGED content
    BY <1>2, <2>1, Zenon
  <2>2. ASSUME NEW e, Pvcreate(e)
        PROVE  /\ Contents'
               /\ \A d \in Lsblk : content[d] = "other" => content'[d] # "lvm2"
    BY <1>2, <2>2, Zenon DEF Pvcreate
  <2>3. CASE ReplaceDisks
    BY <1>2, <2>3, Zenon DEF ReplaceDisks
  <2>4. ASSUME NEW e \in Lsblk, TakeForeign(e)
        PROVE  /\ Contents'
               /\ \A d \in Lsblk : content[d] = "other" => content'[d] # "lvm2"
    BY <1>2, <2>4, Zenon DEF TakeForeign
  <2> QED
    BY <1>2, <2>1, <2>2, <2>3, <2>4, ContentWriters, Zenon
<1>3. Contents /\ [Next]_vars => Contents'
  BY <1>2, Zenon
<1>4. Contents /\ [Next]_vars =>
        [\A d \in Lsblk : content[d] = "other" => content'[d] # "lvm2"]_vars
  BY <1>2, Zenon
<1> QED
  BY <1>1, <1>3, <1>4, PTL DEF Spec, ForeignContentKept

\* An expansion is refused with OutOfRange only if the group lacks the space,
\* provided every size asked for is a multiple of 1 KiB: then lvextend reads
\* the size that NodeExpandVolume was asked for.
THEOREM KibibyteSizesRefusedOnlyIfFull ==
  ASSUME \A n \in ExpandSizes : n % Kibi = 0
  PROVE  Spec => RefusedOnlyIfFull
<1> DEFINE Asked == asked \in ExpandSizes \cup {0}
           Refusal == answer' = "outOfRange" /\ answer # "outOfRange"
<1>1. Init => Asked
  BY Zenon DEF Init
<1>2. Asked => ExtendSize(asked) = asked
  <2>1. 0 % Kibi = 0
    BY SizeAssumption
  <2> QED
    BY <2>1, Zenon DEF ExtendSize
<1>3. ASSUME [Next]_vars
      PROVE  /\ asked' = asked \/ asked' \in ExpandSizes
             /\ Refusal => ~HasRoom(OurDisks, 0, ExtendSize(asked))
  <2>1. CASE EnsureStep
    BY <2>1, Zenon
       DEF EnsureStep, CheckExisting, GetVolumeGroup, ScanDevice, GetPhysicalVolume, ScanLVM2,
           ScanEnd, LookFormatted, LookLVM2, CreatePhysicalVolume, GetNewPhysicalVolume,
           PhysicalVolumesEnd, EnsureVolumeGroup, CreateLogicalVolume, rest, history, cluster
  <2>2. CASE ExtendLogicalVolume
    BY <2>2, Zenon DEF ExtendLogicalVolume, cluster, history
  <2>3. CASE NodeExpandVolume \/ ExpandRecord
    BY <2>3, Zenon DEF NodeExpandVolume, ExpandRecord, cluster, history
  <2>4. CASE \/ CreateVolume \/ CreateReply \/ NodeStageVolume \/ StageAnnotate \/ StageEnsure
             \/ StageMount \/ ExpandFind \/ ExpandQuery
    BY <2>4, Zenon
       DEF CreateVolume, CreateReply, NodeStageVolume, StageAnnotate, StageEnsure, StageMount,
           ExpandFind, ExpandQuery, rest, history, cluster
  <2>5. CASE Next /\ ~CallStep
    <3>1. CASE RaiseClaim
      BY <3>1 DEF RaiseClaim
    <3>2. CASE ~RaiseClaim
      BY <2>5, <3>2, Zenon
         DEF Next, Sync, CollectDecide, CollectDelete, PodArrives, PodLeaves, StayElsewhere,
             CallFails,
             HostReplaced, DiskTaken, cluster, history
    <3> QED
      BY <3>1, <3>2, Zenon
  <2>6. CASE UNCHANGED vars
    BY <2>6, Zenon DEF vars, rest, history, cluster
  <2> QED
    BY <1>3, <2>1, <2>2, <2>3, <2>4, <2>5, <2>6, Zenon DEF CallStep
<1>4. Asked /\ [Next]_vars => Asked'
  BY <1>3
<1>5. Asked /\ [Next]_vars => [Refusal => ~HasRoom(OurDisks, 0, asked)]_vars
  BY <1>2, <1>3, Zenon
<1> QED
  BY <1>1, <1>4, <1>5, PTL DEF Spec, RefusedOnlyIfFull
=============================================================================
