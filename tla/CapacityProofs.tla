-------------------------- MODULE CapacityProofs --------------------------
(***************************************************************************)
(* Proofs about the capacity that Devices reports and NodeStorage uses up, *)
(* for any number of disks.                                                *)
(***************************************************************************)
EXTENDS NodeStorageProofs, WellFoundedInduction

-----------------------------------------------------------------------------
(* Induction *)

\* The order of the natural numbers, as the relation of a set.
LEMMA NatOrder ==
  \E R : IsWellFoundedOn(R, Nat) /\ \A x, y \in Nat : x < y => <<x, y>> \in R
<1>1. IsWellFoundedOn(OpToRel(<, Nat), Nat)
  BY NatLessThanWellFounded, Zenon
<1>2. \A x, y \in Nat : x < y => <<x, y>> \in OpToRel(<, Nat)
  BY Zenon DEF OpToRel
<1> QED
  BY <1>1, <1>2, Zenon

\* Every set of natural numbers has a least element: a proof by induction takes
\* the least counterexample.
LEMMA Least ==
  ASSUME NEW T \in SUBSET Nat, T # {}
  PROVE  \E n \in T : \A m \in T : n <= m
<1>1. PICK R : IsWellFoundedOn(R, Nat) /\ \A x, y \in Nat : x < y => <<x, y>> \in R
  BY NatOrder, Zenon
<1>2. T \subseteq Nat
  BY Zenon
<1>3. \E x \in T : \A y \in T : ~ (<<y, x>> \in R)
  <2>1. IsWellFoundedOn(R, Nat)
    BY <1>1
  <2> HIDE <1>1
  <2> QED
    BY <1>2, <2>1, WFMin, Zenon
<1>4. PICK x \in T : \A y \in T : <<y, x>> \notin R
  BY <1>3, Zenon
<1>5. \A y \in T : ~(y < x)
  BY <1>1, <1>4, Zenon
<1>6. x \in Nat
  BY Zenon
<1>7. \A y \in T : x <= y
  BY <1>5, <1>6
<1> QED
  BY <1>7, Zenon

-----------------------------------------------------------------------------
(* What disks add up to *)

\* The recursion of Total: it takes one element out of the set at a time.
First(s) == CHOOSE x \in s : TRUE
Added(g, s) == IF s = {} THEN 0 ELSE Usable(First(s)) + g[s \ {First(s)}]

\* Total is what this recursion computes for all subsets of its set.
LEMMA TotalRecursion ==
  ASSUME NEW D
  PROVE  Total(D) = (CHOOSE g : g = [s \in SUBSET D |-> Added(g, s)])[D]
BY Zenon DEF Total, MapThenSumSet, MapThenFoldSet, Added, First

\* Taking one element out of a finite set.
LEMMA TakenOut ==
  ASSUME NEW s, IsFiniteSet(s), s # {}
  PROVE  /\ First(s) \in s
         /\ Cardinality(s) \in Nat \ {0} /\ s \ {First(s)} \subseteq s
         /\ Cardinality(s \ {First(s)}) = Cardinality(s) - 1
<1>1. First(s) \in s
  BY DEF First
<1>2. Cardinality(s) \in Nat /\ Cardinality(s) # 0
  BY FS_CardinalityType, FS_EmptySet, Zenon
<1>3. Cardinality(s \ {First(s)}) = Cardinality(s) - 1
  BY <1>1, FS_RemoveElement, Zenon
<1> QED
  BY <1>1, <1>2, <1>3, Zenon

\* Total is well defined on a finite set: its recursion has a solution.
LEMMA TotalExists ==
  ASSUME NEW D, IsFiniteSet(D)
  PROVE  \E g : g = [s \in SUBSET D |-> Added(g, s)]
<1> DEFINE Upto(n) == {s \in SUBSET D : Cardinality(s) <= n}
           Solved(n) == \E g : g = [s \in Upto(n) |-> Added(g, s)]
           T == {n \in Nat : ~Solved(n)}
<1>0. \A s \in SUBSET D : IsFiniteSet(s) /\ Cardinality(s) \in Nat
  BY FS_Subset, FS_CardinalityType, Zenon
<1>1. Solved(0)
  <2>1. \A s \in Upto(0) : s = {}
    BY <1>0, FS_EmptySet
  <2> DEFINE g == [s \in Upto(0) |-> 0]
  <2>2. g = [s \in Upto(0) |-> Added(g, s)]
    BY <2>1 DEF Added
  <2> QED
    BY <2>2, Zenon
<1>2. ASSUME NEW n \in Nat, Solved(n) PROVE Solved(n + 1)
  <2>1. PICK g : g = [s \in Upto(n) |-> Added(g, s)]
    BY <1>2, Zenon
  <2> DEFINE h == [s \in Upto(n + 1) |-> Added(g, s)]
  <2>2. ASSUME NEW s \in Upto(n + 1) PROVE Added(h, s) = Added(g, s)
    <3>1. CASE s = {}
      BY <3>1 DEF Added
    <3>2. CASE s # {}
      <4> DEFINE t == s \ {First(s)}
      <4>1. t \in Upto(n) /\ t \in Upto(n + 1)
        BY <1>0, <3>2, TakenOut
      <4>2. h[t] = Added(g, t) /\ g[t] = Added(g, t)
        BY <2>1, <4>1, Zenon
      <4> QED
        BY <3>2, <4>2 DEF Added
    <3> QED
      BY <3>1, <3>2, Zenon
  <2>3. h = [s \in Upto(n + 1) |-> Added(h, s)]
    BY <2>2, Zenon
  <2> QED
    BY <2>3, Zenon
<1>3. T = {}
  <2> SUFFICES ASSUME T # {} PROVE FALSE
    BY Zenon
  <2> HIDE DEF Solved
  <2>1. PICK n \in T : \A m \in T : n <= m
    BY Least, Zenon
  <2>2. n # 0 /\ n - 1 \in Nat /\ n - 1 \notin T
    BY <1>1, <2>1
  <2>3. Solved(n - 1)
    BY <2>2, Zenon
  <2>4. Solved(n - 1 + 1)
    BY <1>2, <2>2, <2>3, Zenon
  <2> QED
    BY <2>2, <2>4
<1>4. Solved(Cardinality(D))
  <2> HIDE DEF Solved
  <2> QED
    BY <1>0, <1>3, Zenon
<1>5. Upto(Cardinality(D)) = SUBSET D
  BY <1>0, FS_Subset, Zenon
<1> QED
  BY <1>4, <1>5, Zenon

\* Disks of the same size add up to their number times that size.
LEMMA TotalOfEqual ==
  ASSUME NEW D, IsFiniteSet(D), NEW u \in Nat, \A d \in D : Usable(d) = u
  PROVE  Total(D) = Cardinality(D) * u
<1> DEFINE g == CHOOSE f : f = [s \in SUBSET D |-> Added(f, s)]
<1>1. g = [s \in SUBSET D |-> Added(g, s)]
  BY TotalExists, Zenon
<1>2. Total(D) = g[D]
  BY TotalRecursion, Zenon
<1> HIDE DEF g
<1> DEFINE T == {n \in Nat : \E s \in SUBSET D : Cardinality(s) = n /\ g[s] # n * u}
<1>0. \A s \in SUBSET D : IsFiniteSet(s) /\ Cardinality(s) \in Nat
  BY FS_Subset, FS_CardinalityType, Zenon
<1>3. T = {}
  <2> SUFFICES ASSUME T # {} PROVE FALSE
    BY Zenon
  <2>1. PICK n \in T : \A m \in T : n <= m
    <3>1. T \in SUBSET Nat
      OBVIOUS
    <3> HIDE DEF T
    <3> QED
      BY <3>1, Least, Zenon
  <2>2. PICK s \in SUBSET D : Cardinality(s) = n /\ g[s] # n * u
    BY <2>1, Zenon
  <2>3. g[s] = Added(g, s)
    BY <1>1, Zenon
  <2>4. CASE s = {}
    BY <2>2, <2>3, <2>4, FS_EmptySet DEF Added
  <2>5. CASE s # {}
    <3> DEFINE t == s \ {First(s)}
    <3>1. t \in SUBSET D /\ Cardinality(t) = n - 1 /\ n - 1 \in Nat /\ First(s) \in D
      <4>1. n \in Nat /\ IsFiniteSet(s)
        BY <1>0, <2>1, Zenon
      <4>2. First(s) \in s /\ Cardinality(t) = n - 1 /\ n # 0
        BY <2>2, <2>5, <4>1, TakenOut, Zenon
      <4> QED
        BY <4>1, <4>2
    <3>2. n - 1 \notin T
      BY <2>1, <3>1
    <3>3. g[t] = (n - 1) * u
      BY <3>1, <3>2, Zenon
    <3>4. g[s] = u + g[t]
      BY <2>3, <2>5, <3>1, Zenon DEF Added
    <3>5. u + (n - 1) * u = n * u
      BY <3>1
    <3> QED
      BY <2>2, <3>3, <3>4, <3>5, Zenon
  <2> QED
    BY <2>4, <2>5, Zenon
<1> QED
  BY <1>0, <1>2, <1>3, Zenon
-----------------------------------------------------------------------------
(* The disks of the group *)

\* Every call begins without disks.
LEMMA NoCallDisks ==
  /\ NoCall.todo = {} /\ NoCall.disks = {} /\ NoCall.pc = "none"
BY Zenon DEF NoCall

\* The disks of a call: the steps of EnsureVolume.
LEMMA EnsureDisksStep ==
  ASSUME StorageInv, DisksOurs, EnsureStep
  PROVE  DisksOurs'
<1> USE DEF StorageInv
<1>a. call \in Calls /\ content \in [Lsblk -> {"blank", "lvm2", "other"}]
      /\ group \in [Lsblk -> {"none", "ours", "foreign"}]
  BY Zenon DEF TypeOK, DevicesTypeOK
<1>1. CASE CheckExisting
  BY <1>1, <1>a, NoCallDisks, Zenon
     DEF DisksOurs, OurDisks, IsLVM2, IsFormatted, Calls, CheckExisting, rest, diskVars
<1>2. CASE GetVolumeGroup
  BY <1>2, <1>a, NoCallDisks
     DEF DisksOurs, OurDisks, IsLVM2, IsFormatted, Calls, GetVolumeGroup, rest, diskVars
<1>3. ASSUME NEW d \in Lsblk, ScanDevice(d) PROVE DisksOurs'
  BY <1>3, <1>a, NoCallDisks
     DEF DisksOurs, OurDisks, IsLVM2, IsFormatted, Calls, ScanDevice, rest, diskVars
<1>4. ASSUME NEW d \in Lsblk, GetPhysicalVolume(d) PROVE DisksOurs'
  BY <1>4, <1>a, NoCallDisks
     DEF DisksOurs, OurDisks, IsLVM2, IsFormatted, Calls, GetPhysicalVolume, Found, rest, diskVars
<1>5. CASE ScanLVM2
  BY <1>5, <1>a, NoCallDisks, Zenon
     DEF DisksOurs, OurDisks, IsLVM2, IsFormatted, Calls, ScanLVM2, CallKnows, rest, diskVars
<1>6. CASE ScanEnd
  BY <1>6, <1>a, NoCallDisks, Zenon
     DEF DisksOurs, OurDisks, IsLVM2, IsFormatted, Calls, ScanEnd, rest, diskVars
<1>7. CASE LookFormatted
  BY <1>7, <1>a, NoCallDisks, ZenonT(60)
     DEF DisksOurs, OurDisks, IsLVM2, IsFormatted, Calls, LookFormatted, CallKnows, rest, diskVars
<1>8. CASE LookLVM2
  BY <1>8, <1>a, NoCallDisks, Zenon
     DEF DisksOurs, OurDisks, IsLVM2, IsFormatted, Calls, LookLVM2, CallKnows, rest, diskVars
<1>9. CASE CreatePhysicalVolume
  BY <1>9, <1>a, NoCallDisks, Zenon
     DEF DisksOurs, OurDisks, IsLVM2, IsFormatted, Calls, CreatePhysicalVolume, Pvcreate,
         CallKnows, rest, diskVars
<1>10. CASE GetNewPhysicalVolume
  BY <1>10, <1>a, NoCallDisks, Zenon
     DEF DisksOurs, OurDisks, IsLVM2, IsFormatted, Calls, GetNewPhysicalVolume, Found,
         CallKnows, rest, diskVars
<1>11. CASE PhysicalVolumesEnd
  BY <1>11, <1>a, NoCallDisks
     DEF DisksOurs, OurDisks, IsLVM2, IsFormatted, Calls, PhysicalVolumesEnd, rest, diskVars
<1>12. CASE EnsureVolumeGroup
  BY <1>12, <1>a, NoCallDisks
     DEF DisksOurs, OurDisks, IsLVM2, IsFormatted, Calls, EnsureVolumeGroup, Vgcreate, Goto,
         rest, diskVars
<1>13. CASE CreateLogicalVolume
  BY <1>13, <1>a, NoCallDisks, ZenonT(60)
     DEF DisksOurs, OurDisks, IsLVM2, IsFormatted, Calls, CreateLogicalVolume, rest, diskVars
<1> QED
  BY <1>1, <1>2, <1>3, <1>4, <1>5, <1>6, <1>7, <1>8, <1>9, <1>10, <1>11, <1>12, <1>13, Zenon
     DEF EnsureStep

\* The disks of a call: the steps of the calls.
LEMMA CallDisksStep ==
  ASSUME StorageInv, DisksOurs, CallStep
  PROVE  DisksOurs'
<1> USE DEF StorageInv
<1>a. call \in Calls /\ content \in [Lsblk -> {"blank", "lvm2", "other"}]
      /\ group \in [Lsblk -> {"none", "ours", "foreign"}]
  BY Zenon DEF TypeOK, DevicesTypeOK
<1>1. CASE CreateVolume
  BY <1>1, <1>a, NoCallDisks, Zenon
     DEF DisksOurs, OurDisks, IsLVM2, Calls, CreateVolume, EnsureVolume, NoCall, rest, diskVars
<1>2. CASE CreateReply
  BY <1>2, <1>a, NoCallDisks
     DEF DisksOurs, OurDisks, IsLVM2, Calls, CreateReply, diskVars
<1>3. CASE NodeStageVolume
  BY <1>3, <1>a, NoCallDisks, Zenon
     DEF DisksOurs, OurDisks, IsLVM2, Calls, NodeStageVolume, NoCall, rest, diskVars
<1>4. CASE StageAnnotate
  BY <1>4, <1>a, NoCallDisks
     DEF DisksOurs, OurDisks, IsLVM2, Calls, StageAnnotate, At, diskVars
<1>5. CASE StageEnsure
  BY <1>5, <1>a, NoCallDisks, Zenon
     DEF DisksOurs, OurDisks, IsLVM2, Calls, StageEnsure, EnsureVolume, NoCall, rest, diskVars
<1>6. CASE StageMount
  BY <1>6, <1>a, NoCallDisks, Zenon
     DEF DisksOurs, OurDisks, IsLVM2, Calls, StageMount, diskVars
<1>7. CASE NodeExpandVolume
  BY <1>7, <1>a, NoCallDisks
     DEF DisksOurs, OurDisks, IsLVM2, Calls, NodeExpandVolume, NoCall, diskVars
<1>8. CASE ExpandFind
  BY <1>8, <1>a, NoCallDisks, Zenon
     DEF DisksOurs, OurDisks, IsLVM2, Calls, ExpandFind, At, rest, diskVars
<1>9. CASE ExtendLogicalVolume
  BY <1>9, <1>a, NoCallDisks
     DEF DisksOurs, OurDisks, IsLVM2, Calls, ExtendLogicalVolume, At, Goto, diskVars
<1>10. CASE ExpandQuery
  BY <1>10, <1>a, NoCallDisks, Zenon
     DEF DisksOurs, OurDisks, IsLVM2, Calls, ExpandQuery, At, rest, diskVars
<1>11. CASE ExpandRecord
  BY <1>11, <1>a, NoCallDisks, Zenon
     DEF DisksOurs, OurDisks, IsLVM2, Calls, ExpandRecord, diskVars
<1>12. CASE EnsureStep
  BY <1>12, EnsureDisksStep, Zenon
<1> QED
  BY <1>1, <1>2, <1>3, <1>4, <1>5, <1>6, <1>7, <1>8, <1>9, <1>10, <1>11, <1>12, Zenon DEF CallStep

\* The disks of a call: the rest of the cluster.
LEMMA EnvDisksStep ==
  ASSUME StorageInv, DisksOurs, [Next]_vars, ~CallStep
  PROVE  DisksOurs'
<1> USE DEF StorageInv
<1>a. call \in Calls /\ content \in [Lsblk -> {"blank", "lvm2", "other"}]
      /\ group \in [Lsblk -> {"none", "ours", "foreign"}]
  BY Zenon DEF TypeOK, DevicesTypeOK
<1>1. CASE Sync
  BY <1>1, Zenon
     DEF DisksOurs, OurDisks, IsLVM2, Sync, diskVars
<1>2. CASE CollectDecide \/ CollectDelete
  BY <1>2, Zenon
     DEF DisksOurs, OurDisks, IsLVM2, CollectDecide, CollectDelete, diskVars
<1>3. CASE PodArrives
  BY <1>3, Zenon
     DEF DisksOurs, OurDisks, IsLVM2, PodArrives, diskVars
<1>4. CASE PodLeaves
  BY <1>4, Zenon
     DEF DisksOurs, OurDisks, IsLVM2, PodLeaves, diskVars
<1>5. CASE RaiseClaim
  BY <1>5, Zenon
     DEF DisksOurs, OurDisks, IsLVM2, RaiseClaim, diskVars
<1>6. CASE StayElsewhere
  BY <1>6, Zenon
     DEF DisksOurs, OurDisks, IsLVM2, StayElsewhere, diskVars
<1>7. CASE CallFails
  BY <1>7, <1>a, NoCallDisks, Zenon
     DEF DisksOurs, OurDisks, IsLVM2, CallFails, diskVars
<1>8. CASE HostReplaced
  BY <1>8, <1>a, NoCallDisks, Zenon
     DEF DisksOurs, OurDisks, IsLVM2, HostReplaced, ReplaceDisks
<1>9. CASE DiskTaken
  <2>1. PICK e \in Lsblk : TakeForeign(e)
    BY <1>9 DEF DiskTaken
  <2>2. \A d \in Lsblk : d # e => content'[d] = content[d] /\ group'[d] = group[d]
    BY <1>a, <2>1, Zenon DEF TakeForeign
  <2>3. content[e] # "lvm2" /\ (group'[e] = "ours" => group[e] = "ours")
    BY <1>a, <2>1, Zenon DEF TakeForeign
  <2>4. call' = call /\ call.disks \in SUBSET Lsblk
    BY <1>9, <1>a, Zenon DEF DiskTaken, Calls
  <2> QED
    BY <2>2, <2>3, <2>4, Zenon DEF DisksOurs, OurDisks, IsLVM2
<1>10. CASE UNCHANGED vars
  BY <1>10, Zenon DEF DisksOurs, OurDisks, IsLVM2, vars, rest, diskVars
<1> QED
  BY <1>1, <1>2, <1>3, <1>4, <1>5, <1>6, <1>7, <1>8, <1>9, <1>10, Zenon DEF Next

-----------------------------------------------------------------------------
(* Whole stripes *)

\* One stripe of a group is some number of sectors.
LEMMA StripeSize ==
  ASSUME OurDisks # {}
  PROVE  Cardinality(OurDisks) \in Nat \ {0} /\ PeSize \in Nat \ {0}
         /\ Cardinality(OurDisks) * PeSize \in Nat \ {0}
<1>1. IsFiniteSet(OurDisks)
  BY SizeAssumption, FS_Subset DEF OurDisks
<1>2. Cardinality(OurDisks) \in Nat \ {0}
  BY <1>1, FS_CardinalityType, FS_EmptySet, Zenon
<1>3. PeSize \in Nat \ {0}
  BY SizeAssumption DEF PeSize
<1> QED
  BY <1>2, <1>3, SMT

\* A multiple of a unit is what it was after it is rounded, either way.
LEMMA MultipleRounds ==
  ASSUME NEW q \in Int, NEW u \in Nat \ {0}
  PROVE  RoundDown(q * u, u) = q * u /\ RoundUp(q * u, u) = q * u
<1>1. (q * u) \div u = q
  BY SMT
<1>2. (q * u + u - 1) \div u = q
  BY SMT
<1> QED
  BY <1>1, <1>2, Zenon DEF RoundDown, RoundUp

\* lvcreate and lvextend allocate whole stripes.
LEMMA AllocatedWhole ==
  ASSUME NEW n \in Nat, OurDisks # {}
  PROVE  Allocated(OurDisks, n)
           = RoundDown(Allocated(OurDisks, n), Cardinality(OurDisks) * PeSize)
<1> DEFINE u == Cardinality(OurDisks) * PeSize
           q == (n + u - 1) \div u
<1>1. u \in Nat \ {0}
  BY StripeSize, Zenon
<1>2. Allocated(OurDisks, n) = q * u
  BY Zenon DEF Allocated, RoundUp, RoundDown
<1>3. q \in Int
  BY <1>1, SMT
<1> HIDE DEF u, q
<1>4. RoundDown(q * u, u) = q * u
  BY <1>1, <1>3, MultipleRounds, Zenon
<1> QED
  BY <1>2, <1>4, Zenon DEF u

\* The only steps that change the volume or the group.
LEMMA StripeWriters ==
  ASSUME [Next]_vars
  PROVE  \/ UNCHANGED <<lv, group>>
         \/ EnsureVolumeGroup \/ CreateLogicalVolume \/ ExtendLogicalVolume
         \/ CollectDelete \/ HostReplaced \/ DiskTaken
<1>1. CASE EnsureStep
  BY <1>1, Zenon
     DEF EnsureStep, CheckExisting, GetVolumeGroup, ScanDevice, GetPhysicalVolume, ScanLVM2,
         ScanEnd, LookFormatted, LookLVM2, CreatePhysicalVolume, GetNewPhysicalVolume,
         PhysicalVolumesEnd, rest, diskVars
<1>2. CASE CallStep /\ ~EnsureStep
  BY <1>2, Zenon
     DEF CallStep, CreateVolume, CreateReply, NodeStageVolume, StageAnnotate, StageEnsure,
         StageMount, NodeExpandVolume, ExpandFind, ExpandQuery, ExpandRecord, rest, diskVars
<1>3. CASE Next /\ ~CallStep
  BY <1>3, Zenon
     DEF Next, Sync, CollectDecide, PodArrives, PodLeaves, RaiseClaim, StayElsewhere, CallFails,
         diskVars
<1>4. CASE UNCHANGED vars
  BY <1>4, Zenon DEF vars, rest, diskVars
<1> QED
  BY <1>1, <1>2, <1>3, <1>4, Zenon

\* The volume keeps whole stripes.
LEMMA StripesStep ==
  ASSUME StorageInv, CapacityInv, [Next]_vars
  PROVE  WholeStripes'
<1> USE DEF StorageInv
<1>1. CASE UNCHANGED <<lv, group>>
  BY <1>1, Zenon DEF CapacityInv, WholeStripes, OurDisks
<1>2. CASE EnsureVolumeGroup
  <2>1. lv' = 0
    BY <1>2, Zenon DEF EnsureVolumeGroup, CallKnows, Creating
  <2> QED
    BY <2>1, Zenon DEF WholeStripes
<1>3. CASE CreateLogicalVolume
  <2>1. OurDisks' = OurDisks /\ call.cap \in Nat
    BY <1>3, Zenon DEF CreateLogicalVolume, OurDisks, diskVars, TypeOK, Calls
  <2>2. CASE HasRoom(OurDisks, 0, call.cap)
    <3>1. OurDisks # {} /\ lv' = Allocated(OurDisks, call.cap)
      BY <1>3, <2>2, Zenon DEF CreateLogicalVolume, HasRoom
    <3> QED
      BY <2>1, <3>1, AllocatedWhole, Zenon DEF WholeStripes
  <2>3. CASE ~HasRoom(OurDisks, 0, call.cap)
    BY <1>3, <2>1, <2>3, Zenon DEF CreateLogicalVolume, CapacityInv, WholeStripes
  <2> QED
    BY <2>2, <2>3, Zenon
<1>4. CASE ExtendLogicalVolume
  <2>1. OurDisks' = OurDisks /\ ExtendSize(asked) \in Nat
    BY <1>4, ExtendSizeBound, RequestAssumption, Zenon
       DEF ExtendLogicalVolume, OurDisks, diskVars, TypeOK
  <2>2. CASE /\ HasRoom(OurDisks, 0, ExtendSize(asked))
             /\ lv' = Allocated(OurDisks, ExtendSize(asked))
    <3>1. OurDisks # {}
      BY <2>2, Zenon DEF HasRoom
    <3> QED
      BY <2>1, <2>2, <3>1, AllocatedWhole, Zenon DEF WholeStripes
  <2>3. CASE UNCHANGED lv
    BY <2>1, <2>3, Zenon DEF CapacityInv, WholeStripes
  <2> QED
    BY <1>4, <2>2, <2>3, Zenon DEF ExtendLogicalVolume
<1>5. CASE HostReplaced
  BY <1>5, Zenon DEF WholeStripes, HostReplaced
<1>7. CASE CollectDelete
  <2>1. group' = group /\ (lv' = 0 \/ lv' = lv)
    BY <1>7, Zenon DEF CollectDelete, diskVars
  <2> QED
    BY <2>1, Zenon DEF CapacityInv, WholeStripes, OurDisks
<1>6. CASE DiskTaken
  <2>1. PICK e \in Lsblk : TakeForeign(e)
    BY <1>6, Zenon DEF DiskTaken
  <2>2. group[e] # "ours"
    BY <2>1, Zenon DEF TakeForeign, CapacityInv, DisksOurs, OurDisks, IsLVM2
  <2>3. OurDisks' = OurDisks
    BY <2>1, <2>2, Zenon DEF TakeForeign, OurDisks, TypeOK, DevicesTypeOK
  <2> QED
    BY <1>6, <2>3, Zenon DEF DiskTaken, CapacityInv, WholeStripes
<1> QED
  BY <1>1, <1>2, <1>3, <1>4, <1>5, <1>6, <1>7, StripeWriters, Zenon

-----------------------------------------------------------------------------
(* The capacity *)

\* What a disk contributes is a number of whole extents.
LEMMA UsableExtents ==
  ASSUME NEW d \in Lsblk
  PROVE  PeSize \in Nat \ {0} /\ \E w \in Nat : Usable(d) = w * PeSize
<1> DEFINE x == IF d.size > DataAlignment THEN d.size - DataAlignment ELSE 0
<1>1. x \in Nat /\ PeSize \in Nat \ {0}
  BY SizeAssumption DEF DataAlignment, PeSize
<1>2. Usable(d) = (x \div PeSize) * PeSize
  BY Zenon DEF Usable, RoundDown
<1> HIDE DEF x
<1>3. x \div PeSize \in Nat
  BY <1>1, SMT
<1> QED
  BY <1>1, <1>2, <1>3, Zenon

\* No space at all is a number of whole stripes.
LEMMA NothingIsWhole ==
  ASSUME NEW D \in SUBSET Lsblk, D # {}
  PROVE  0 = RoundDown(0, Cardinality(D) * PeSize)
<1>1. IsFiniteSet(D)
  BY SizeAssumption, FS_Subset, Zenon
<1>2. Cardinality(D) \in Nat \ {0} /\ PeSize \in Nat \ {0}
  BY <1>1, SizeAssumption, FS_CardinalityType, FS_EmptySet DEF PeSize
<1> DEFINE u == Cardinality(D) * PeSize
<1>3. u \in Nat \ {0}
  BY <1>2, SMT
<1> HIDE DEF u
<1>4. RoundDown(0 * u, u) = 0 * u /\ 0 * u = 0
  BY <1>3, MultipleRounds
<1> QED
  BY <1>4 DEF u

\* On disks of the same size, of which LVM has used whole stripes, a volume of
\* all the space that is left fits.
LEMMA FreeSpaceFits ==
  ASSUME NEW D \in SUBSET Lsblk, D # {},
         NEW u, \A d \in D : Usable(d) = u,
         NEW used \in Nat, used = RoundDown(used, Cardinality(D) * PeSize)
  PROVE  Total(D) \in Nat /\ HasRoom(D, used, Total(D) - used)
<1> DEFINE k == Cardinality(D)
           s == k * PeSize
           m == used \div s
<1>1. IsFiniteSet(D) /\ k \in Nat \ {0}
  <2>1. IsFiniteSet(D)
    BY SizeAssumption, FS_Subset, Zenon
  <2> QED
    BY <2>1, FS_CardinalityType, FS_EmptySet, Zenon
<1>2. PICK w \in Nat : u = w * PeSize
  BY UsableExtents, Zenon
<1>3. PeSize \in Nat \ {0}
  BY SizeAssumption DEF PeSize
<1>4. u \in Nat /\ s \in Nat \ {0}
  <2> HIDE DEF k
  <2> QED
    BY <1>1, <1>2, <1>3, SMT
<1>5. Total(D) = k * u
  BY <1>1, <1>4, TotalOfEqual, Zenon
<1>6. used = m * s
  BY DEF RoundDown
<1>7. m \in Int
  <2> HIDE DEF s
  <2> QED
    BY <1>4, SMT
<1>8. k * u - used = (w - m) * s
  <2> HIDE DEF k, m
  <2>1. k * u = w * (k * PeSize)
    BY <1>1, <1>2, <1>3, SMT
  <2>2. w * s - m * s = (w - m) * s
    <3> HIDE DEF s
    <3> QED
      BY <1>4, <1>7, SMT
  <2> QED
    BY <1>6, <2>1, <2>2, Zenon
<1>9. RoundUp(k * u - used, s) = k * u - used
  <2> HIDE DEF k, m, s
  <2>1. w - m \in Int
    BY <1>7
  <2> QED
    BY <1>4, <1>8, <2>1, MultipleRounds, Zenon
<1>10. (used + (k * u - used)) \div k = u
  <2> HIDE DEF k, m, s
  <2>1. used + (k * u - used) = u * k
    BY <1>1, <1>4, SMT
  <2>2. (u * k) \div k = u
    BY <1>1, <1>4, SMT
  <2> QED
    BY <2>1, <2>2, Zenon
<1>11. u <= u /\ Total(D) \in Nat
  <2> HIDE DEF k
  <2> QED
    BY <1>1, <1>4, <1>5
<1>12. (used + Allocated(D, Total(D) - used)) \div k = u
  BY <1>5, <1>9, <1>10, Zenon DEF Allocated
<1> QED
  BY <1>11, <1>12, Zenon DEF HasRoom

\* CapacityInv holds on any disks: the group that EnsureVolume makes holds only
\* disks the filter accepts, and the volume whole stripes of it.
THEOREM CapacityInvariant == Spec => []CapacityInv
<1>1. Init => CapacityInv
  BY NoCallDisks, Zenon DEF Init, DevicesInit, CapacityInv, DisksOurs, WholeStripes, OurDisks
<1>2. StorageInv /\ CapacityInv /\ [Next]_vars => CapacityInv'
  <2>1. StorageInv /\ CapacityInv /\ CallStep => DisksOurs'
    BY CallDisksStep DEF CapacityInv
  <2>2. StorageInv /\ CapacityInv /\ [Next]_vars /\ ~CallStep => DisksOurs'
    BY EnvDisksStep, Zenon DEF CapacityInv
  <2> QED
    BY <2>1, <2>2, StripesStep, Zenon DEF CapacityInv
<1> QED
  BY <1>1, <1>2, StorageInvariant, PTL DEF Spec

\* The capacity that GetCapacity reports can be had as one volume: before the
\* group exists, where EnsureVolume would make it of the disks available, and
\* afterwards, beside the volume that is there.  It takes disks of which LVM
\* can use the same number of extents, as every volume is striped over all of
\* them.
THEOREM EqualDisksCapacityCreatable ==
  ASSUME \A d, e \in Lsblk : Match(d) /\ Match(e) => Usable(d) = Usable(e)
  PROVE  Spec => []CapacityCreatable
<1>1. ASSUME StorageInv, CapacityInv PROVE CapacityCreatable
  <2> DEFINE Spare == {d \in Available : group[d] # "foreign"}
  <2>1. lv \in Nat
    BY <1>1, Zenon DEF StorageInv, TypeOK
  <2>2. CASE OurDisks # {}
    <3>1. PICK e \in OurDisks : TRUE
      BY <2>2, Zenon
    <3>2. OurDisks \in SUBSET Lsblk /\ \A d \in OurDisks : Usable(d) = Usable(e)
      BY <1>1, <3>1, Zenon DEF CapacityInv, DisksOurs, OurDisks
    <3>3. lv = RoundDown(lv, Cardinality(OurDisks) * PeSize)
      <4>1. CASE lv # 0
        BY <1>1, <4>1, Zenon DEF CapacityInv, WholeStripes
      <4>2. CASE lv = 0
        BY <2>2, <3>2, <4>2, NothingIsWhole, Zenon
      <4> QED
        BY <4>1, <4>2, Zenon
    <3>4. HasRoom(OurDisks, lv, Total(OurDisks) - lv)
      BY <2>1, <2>2, <3>2, <3>3, FreeSpaceFits, Zenon
    <3> QED
      BY <2>2, <3>4, Zenon DEF CapacityCreatable, AvailableCapacity
  <2>3. CASE OurDisks = {} /\ Spare # {}
    <3>1. PICK e \in Spare : TRUE
      BY <2>3, Zenon
    <3>2. Spare \in SUBSET Lsblk /\ \A d \in Spare : Usable(d) = Usable(e)
      BY <3>1, Zenon DEF Available
    <3>3. lv = 0
      BY <1>1, <2>3 DEF CapacityInv, WholeStripes
    <3>4. 0 = RoundDown(0, Cardinality(Spare) * PeSize)
      BY <2>3, <3>2, NothingIsWhole, Zenon
    <3>5. Total(Spare) \in Nat /\ HasRoom(Spare, 0, Total(Spare) - 0)
      BY <2>3, <3>2, <3>4, FreeSpaceFits, Zenon
    <3>6. HasRoom(Spare, lv, Total(Spare))
      <4>1. Total(Spare) - 0 = Total(Spare)
        BY <3>5
      <4> QED
        BY <3>3, <3>5, <4>1, Zenon
    <3> QED
      BY <2>3, <3>6, Zenon DEF CapacityCreatable, AvailableCapacity
  <2>4. CASE OurDisks = {} /\ Spare = {}
    BY <2>4, TotalOfEqual, FS_EmptySet DEF CapacityCreatable, AvailableCapacity
  <2> QED
    BY <2>2, <2>3, <2>4, Zenon
<1> QED
  BY <1>1, StorageInvariant, CapacityInvariant, PTL
=============================================================================
