---------------------------- MODULE VolumeStore ----------------------------
(***************************************************************************)
(* What the LVM layer of a node promises to the rest of the driver: a      *)
(* volume, once made, stays until somebody asks for its deletion, the node *)
(* restarts, or the driver is shut down right after the volume was made.   *)
(***************************************************************************)
EXTENDS Naturals

CONSTANT Volumes

VARIABLES held,     \* volumes that exist and can be used
          doomed,   \* volumes whose deletion has been asked for
          late,     \* volumes made while the driver was shutting down
          boots     \* number of restarts of the node

Init == held = {} /\ doomed = {} /\ late = {} /\ boots = 0

\* A creation ends, with or without success.
Create(v) ==
  /\ held' \in {held, held \cup {v}}
  /\ late' \in {late, late \cup {v}}
  /\ UNCHANGED <<doomed, boots>>

AskRemoval(v) ==
  /\ doomed' = doomed \cup {v}
  /\ UNCHANGED <<held, late, boots>>

\* A deletion ends, with or without success.
Remove(v) ==
  /\ v \in doomed
  /\ doomed' = doomed \ {v}
  /\ held' \in {held, held \ {v}}
  /\ UNCHANGED <<late, boots>>

Shutdown ==
  /\ held \subseteq late
  /\ held' = {}
  /\ UNCHANGED <<doomed, late, boots>>

Start == late' = {} /\ UNCHANGED <<held, doomed, boots>>

\* What is there after a restart is up to the disks.
Reboot ==
  /\ boots' = boots + 1
  /\ held' \in SUBSET Volumes
  /\ doomed' = {}
  /\ late' = {}

Next ==
  \/ \E v \in Volumes : Create(v) \/ AskRemoval(v) \/ Remove(v)
  \/ Shutdown
  \/ Start
  \/ Reboot

Spec == Init /\ [][Next]_<<held, doomed, late, boots>>
=============================================================================
