---------------------------- MODULE OrphanScanner ----------------------------
(***************************************************************************)
(* LVMOrphanScanner, the periodic collector of each node: list the logical *)
(* volumes, look each one up in the PV cache, delete the orphans found.    *)
(***************************************************************************)
EXTENDS Cluster

CONSTANT EnableLVMOrphanCleanup   \* the flag --enable-lvm-orphan-cleanup

ASSUME ScannerFlagAssumption == EnableLVMOrphanCleanup \in BOOLEAN

VARIABLE scan   \* scan[n]: progress of the scan on node n, as for the volume

\* reason: why the volume is taken for an orphan.
ScanState ==
  [pc : {"idle", "check"}, reason : {"none"}]
    \cup [pc : {"unmount", "rmdir", "delete"}, reason : {"noPV", "mismatch"}]
ScanIdle == [pc |-> "idle", reason |-> "none"]

-----------------------------------------------------------------------------
\* A tick of the timer: the listing of the volume groups has the volume.
ScanList(n) ==
  /\ EnableLVMOrphanCleanup
  /\ n \in up
  /\ scan[n].pc = "idle"
  /\ n \in lvs
  /\ scan' = [scan EXCEPT ![n].pc = "check"]
  /\ UNCHANGED clusterVars

\* Mutants: a PV without annotation counts as one of another node; a volume
\* without PV is left alone.
ShouldCleanupUnannotated(pv, n) ==
  IF pv.phase = "Absent" THEN "noPV"
  ELSE IF pv.selected # n THEN "mismatch" ELSE "none"

ShouldCleanupMisplacedOnly(pv, n) ==
  IF pv.phase # "Absent" /\ HasNodeAnnotationMismatch(pv, n)
  THEN "mismatch" ELSE "none"

\* Why the volume is to be deleted, if it is.
ShouldCleanupVolume(pv, n) ==
  IF pv.phase = "Absent" THEN "noPV"
  ELSE IF HasNodeAnnotationMismatch(pv, n) THEN "mismatch" ELSE "none"

ScanCheck(n) ==
  /\ scan[n].pc = "check"
  /\ LET reason == ShouldCleanupVolume(View(n), n)
     IN  scan' = [scan EXCEPT ![n] =
                    [pc |-> IF reason = "none" THEN "idle" ELSE "unmount",
                     reason |-> reason]]
  /\ UNCHANGED clusterVars

\* The scanner takes the volume away for "no PV" although there is one by now.
ActsHastily(n) ==
  /\ scan[n].reason = "noPV" /\ Current.phase # "Absent"
  /\ mounts' # mounts \/ pod' # pod

NoteHaste(n) == hasty' = IF ActsHastily(n) THEN hasty \cup {n} ELSE hasty

\* Mutant: the scanner goes straight to the deletion.
ScanUnmountSkipped(n) ==
  /\ scan[n].pc = "unmount"
  /\ scan' = [scan EXCEPT ![n].pc = "delete"]
  /\ UNCHANGED clusterVars

\* A failed unmount is logged and the deletion is tried all the same.
ScanUnmount(n) ==
  /\ scan[n].pc = "unmount"
  /\ \E ok \in BOOLEAN :
       /\ CleanupUnmount(n, ok)
       /\ scan' = [scan EXCEPT ![n].pc = IF ok THEN AfterUnmount(n, "delete")
                                               ELSE "delete"]
  /\ UNCHANGED <<apiVars, lvs, dirs, nodeVars>>
  /\ NoteHaste(n)

ScanRemoveDir(n) ==
  /\ scan[n].pc = "rmdir"
  /\ \E ok \in BOOLEAN, next \in {"delete", "unmount"} :
       /\ CleanupRemoveDir(n, ok)
       /\ ok => next = "delete"
       /\ scan' = [scan EXCEPT ![n].pc = next]
  /\ UNCHANGED <<apiVars, lvs, mounts, pod, hasty, nodeVars>>

\* lvremove once; a volume in use is left to the next scan.
ScanDelete(n) ==
  /\ scan[n].pc = "delete"
  /\ IF LVRemovable(n) THEN RemoveLV(n) ELSE UNCHANGED <<lvs, pod>>
  /\ scan' = [scan EXCEPT ![n] = ScanIdle]
  /\ UNCHANGED <<apiVars, mounts, dirs, nodeVars>>
  /\ NoteHaste(n)

ScannerNext ==
  \E n \in Nodes : \/ ScanList(n) \/ ScanCheck(n) \/ ScanUnmount(n)
                   \/ ScanRemoveDir(n) \/ ScanDelete(n)

ScannerInit == scan = [n \in Nodes |-> ScanIdle]

ScannerTypeOK == scan \in [Nodes -> ScanState]

ScannerRestart(n) == scan' = [scan EXCEPT ![n] = ScanIdle]
=============================================================================
