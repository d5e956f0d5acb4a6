------------------------------ MODULE Devices ------------------------------
(***************************************************************************)
(* The disks of one node: which of them the device filter accepts, what    *)
(* the probe makes of their content, how they become physical volumes and  *)
(* a volume group, and the capacity the driver reports for them.  Every    *)
(* look at a disk is a step of its own, because others may write to it     *)
(* between two looks.                                                      *)
(***************************************************************************)
EXTENDS Integers, Sequences, FiniteSets, FiniteSetsExt

CONSTANTS Lsblk,          \* the disks: records [path, model, type, size]
          PathPrefixes, Models, Types, \* defaults and addons of the filter
          Empty,          \* an addon entry of blanks only
          Kibi, Mebi,     \* 1 KiB and 1 MiB, in sectors
          MaxForeign      \* bound: disks that others take into use

ASSUME SizeAssumption ==
  /\ IsFiniteSet(Lsblk) /\ \A d \in Lsblk : d.size \in Nat
  /\ Kibi \in Nat \ {0} /\ Mebi \in Nat \ {0}
ASSUME ForeignAssumption == MaxForeign \in Nat

VARIABLES content,  \* content[d]: "blank", "lvm2" (a physical volume) or "other"
          group,    \* group[d]: the volume group of d: "none", "ours" or "foreign"
          foreign   \* how many disks others have taken

diskVars == <<content, group, foreign>>

DevicesTypeOK ==
  /\ content \in [Lsblk -> {"blank", "lvm2", "other"}]
  /\ group \in [Lsblk -> {"none", "ours", "foreign"}]
  /\ foreign \in 0..MaxForeign

DevicesInit ==
  /\ content = [d \in Lsblk |-> "blank"]
  /\ group = [d \in Lsblk |-> "none"]
  /\ foreign = 0

-----------------------------------------------------------------------------
(* Filter and probe *)

appendUnique(entries) == entries \ {Empty}

HasPrefix(s, p) == Len(p) <= Len(s) /\ SubSeq(s, 1, Len(p)) = p

\* A disk passes if its path, its model and its type each match an entry.
Match(d) ==
  /\ \E p \in appendUnique(PathPrefixes) : HasPrefix(d.path, p)
  /\ d.model \in appendUnique(Models)
  /\ d.type \in appendUnique(Types)

IsFormatted(d) == content[d] # "blank"
IsLVM2(d) == content[d] = "lvm2"

\* What ScanAvailableDevices returns when no disk changes under it.
Available == {d \in Lsblk : Match(d) /\ (IsFormatted(d) => IsLVM2(d))}

-----------------------------------------------------------------------------
(* Sizes *)

DataAlignment == Mebi
PeSize == 4 * Mebi

RoundDown(n, unit) == (n \div unit) * unit
RoundUp(n, unit) == RoundDown(n + unit - 1, unit)

\* What a disk contributes to a volume group: whole extents, after the
\* metadata area.
Usable(d) ==
  RoundDown(IF d.size > DataAlignment THEN d.size - DataAlignment ELSE 0, PeSize)

Total(D) == MapThenSumSet(Usable, D)

OurDisks == {d \in Lsblk : group[d] = "ours"}

\* One stripe on every disk of the group, in whole extents.
Allocated(D, n) == RoundUp(n, Cardinality(D) * PeSize)

\* LVM finds room for n more on every disk of D when "used" is allocated.
HasRoom(D, used, n) ==
  LET k == Cardinality(D)
  IN  D # {} /\ \A d \in D : (used + Allocated(D, n)) \div k <= Usable(d)

-----------------------------------------------------------------------------
(* Capacity *)

\* Mutant: the sizes are added up before they are cut to whole extents.
CapacityCutAtEnd(used) ==
  IF OurDisks # {}
  THEN Total(OurDisks) - used
  ELSE RoundDown(MapThenSumSet(LAMBDA d : d.size - DataAlignment,
                               {d \in Available : group[d] # "foreign"}), PeSize)

\* AvailableCapacity: the free space of the group; before it exists, what the
\* available disks outside other groups would give it.
AvailableCapacity(used) ==
  IF OurDisks # {}
  THEN Total(OurDisks) - used
  ELSE Total({d \in Available : group[d] # "foreign"})

-----------------------------------------------------------------------------
(* Commands *)

\* Mutant: pvcreate is told to answer its question with yes.
PvcreateForced(d) == content' = [content EXCEPT ![d] = "lvm2"]

\* Without --yes pvcreate leaves a disk alone on which it finds a signature.
Pvcreate(d) ==
  content' = [content EXCEPT ![d] = IF content[d] = "blank" THEN "lvm2" ELSE @]

Vgcreate(D) == group' = [d \in Lsblk |-> IF d \in D THEN "ours" ELSE group[d]]

\* Somebody else formats a disk, or makes it part of a volume group.
TakeForeign(d) ==
  /\ foreign < MaxForeign
  /\ content[d] = "blank"
  /\ foreign' = foreign + 1
  /\ \/ content' = [content EXCEPT ![d] = "other"] /\ UNCHANGED group
     \/ /\ content' = [content EXCEPT ![d] = "lvm2"]
        /\ group' = [group EXCEPT ![d] = "foreign"]

\* The node comes up on another host: its local disks are new.
ReplaceDisks ==
  /\ content' = [d \in Lsblk |-> IF Match(d) THEN "blank" ELSE content[d]]
  /\ group' = [d \in Lsblk |-> IF Match(d) THEN "none" ELSE group[d]]
  /\ UNCHANGED foreign
=============================================================================
