----------------------------- MODULE PodWebhook -----------------------------
(***************************************************************************)
(* The mutating webhook that steers pods to the nodes of their volumes.    *)
(* For each volume of the pod it reads the claim and the class, then for   *)
(* each local claim the persistent volume; the node affinity it adds is    *)
(* required in durability mode, and preferred otherwise.                   *)
(***************************************************************************)
EXTENDS ApiObjects

CONSTANTS Pods,
          PodVolumes, \* PodVolumes[p]: a claim or Ephemeral for each volume of p
          OwnTerms,   \* OwnTerms[p]: required node selector terms of the user
          Ephemeral

ASSUME PodAssumption ==
  /\ PodVolumes \in [Pods -> Seq(Claims \cup {Ephemeral})]
  /\ OwnTerms \in [Pods -> SUBSET SUBSET Nodes]
  /\ Ephemeral \notin Claims /\ None \notin Claims

VARIABLES pod,       \* pod[p]: life of the pod
          req,       \* req[p]: progress of its admission request
          required,  \* required[p]: required terms, of which one must match
          preferred, \* preferred[p]: preferred terms
          at,        \* at[p]: the node of p
          blind      \* history: pods admitted without a volume's node known

podVars == <<pod, req, required, preferred, at, blind>>

NoReq == [todo |-> <<>>, names |-> <<>>, nodes |-> {}, mode |-> "availability",
          step |-> "none"]

Reqs == [todo : Seq(Claims \cup {Ephemeral}), names : Seq(Claims \cup {None}),
         nodes : SUBSET Nodes, mode : {"availability", "durability"},
         step : {"none", "volumes", "pvs"}]

PodsTypeOK ==
  /\ pod \in [Pods -> {"new", "asked", "admitted", "denied", "placed", "staged"}]
  /\ req \in [Pods -> Reqs]
  /\ required \in [Pods -> SUBSET SUBSET Nodes]
  /\ preferred \in [Pods -> SUBSET SUBSET Nodes]
  /\ at \in [Pods -> Nodes \cup {None}]
  /\ blind \subseteq Pods

PodsInit ==
  /\ pod = [p \in Pods |-> "new"] /\ req = [p \in Pods |-> NoReq]
  /\ required = OwnTerms /\ preferred = [p \in Pods |-> {}]
  /\ at = [p \in Pods |-> None] /\ blind = {}

SetPod(p, s) == pod' = [pod EXCEPT ![p] = s]
NoteBlind(p, b) == blind' = IF b THEN blind \cup {p} ELSE blind

\* The end of a request: the pod is created as it was sent, or with a term.
Allow(p) ==
  /\ SetPod(p, "admitted") /\ req' = [req EXCEPT ![p] = NoReq]
  /\ UNCHANGED <<required, preferred, at>>

CreatePod(p, reached) ==
  /\ pod[p] = "new"
  /\ \/ /\ reached
        /\ SetPod(p, "asked")
        /\ req' = [req EXCEPT ![p].todo = PodVolumes[p], ![p].step = "volumes"]
        /\ UNCHANGED blind
     \/ /\ ~reached
        /\ SetPod(p, "admitted")
        /\ NoteBlind(p, TRUE)
        /\ UNCHANGED req
  /\ UNCHANGED <<required, preferred, at, objectVars>>

-----------------------------------------------------------------------------
(* Handle *)

Reading(p, s) == pod[p] = "asked" /\ req[p].step = s

\* Mutant: a claim that is not found is read again, without end.
HandleVolumeWaits(p) ==
  /\ Reading(p, "volumes") /\ req[p].todo # <<>>
  /\ LET v == Head(req[p].todo)
         name == IF seenClaim[v] = "bound" THEN v ELSE None
     IN /\ v # Ephemeral /\ seenClaim[v] # "absent"
        /\ req' = [req EXCEPT
                    ![p].todo = Tail(@),
                    ![p].names = IF Local(v) /\ seenClass THEN Append(@, name) ELSE @]
        /\ NoteBlind(p, Local(v) /\ ~seenClass)
        /\ UNCHANGED <<pod, required, preferred, at>>
  /\ UNCHANGED objectVars

\* One volume of the pod.  A claim that is not found ends the whole request:
\* the claim of an ephemeral volume does not exist before its pod.
HandleVolume(p) ==
  /\ Reading(p, "volumes") /\ req[p].todo # <<>>
  /\ LET v == Head(req[p].todo)
         name == IF seenClaim[v] = "bound" THEN v ELSE None
     IN IF v = Ephemeral \/ (v # Ephemeral /\ seenClaim[v] = "absent")
          THEN Allow(p) /\ NoteBlind(p, TRUE)
          ELSE /\ req' = [req EXCEPT
                    ![p].todo = Tail(@),
                    ![p].names = IF Local(v) /\ seenClass THEN Append(@, name) ELSE @]
               /\ NoteBlind(p, Local(v) /\ ~seenClass)
               /\ UNCHANGED <<pod, required, preferred, at>>
  /\ UNCHANGED objectVars

\* All volumes are read: on to the persistent volumes of the local ones.
HandleVolumesDone(p) ==
  /\ Reading(p, "volumes") /\ req[p].todo = <<>>
  /\ IF req[p].names = <<>>
       THEN Allow(p)
       ELSE /\ req' = [req EXCEPT ![p].step = "pvs"]
            /\ UNCHANGED <<pod, required, preferred, at>>
  /\ UNCHANGED <<blind, objectVars>>

FailoverMode(c) == IF spec[c].mode = "durability" THEN "durability" ELSE "availability"

\* Mutant: the failover mode of the volume is not looked at.
GetPvNodesAndFailoverModeDefault(p) ==
  /\ Reading(p, "pvs") /\ req[p].names # <<>>
  /\ LET c == Head(req[p].names)
         found == c # None /\ seenPV[c] # None
     IN /\ req' = [req EXCEPT ![p].names = Tail(@),
                     ![p].nodes = IF found THEN @ \cup {NodeOf(seenPV[c])} ELSE @]
        /\ NoteBlind(p, ~found)
  /\ UNCHANGED <<pod, required, preferred, at, objectVars>>

\* One persistent volume.  One that is not found has no node, and the mode of
\* the last one counts.  (A volume this driver has made names its first node.)
GetPvNodesAndFailoverMode(p) ==
  /\ Reading(p, "pvs") /\ req[p].names # <<>>
  /\ LET c == Head(req[p].names)
         found == c # None /\ seenPV[c] # None
     IN /\ req' = [req EXCEPT
               ![p].names = Tail(@),
               ![p].nodes = IF found THEN @ \cup {NodeOf(seenPV[c])} ELSE @,
               ![p].mode = IF found THEN FailoverMode(c) ELSE "availability"]
        /\ NoteBlind(p, ~found)
  /\ UNCHANGED <<pod, required, preferred, at, objectVars>>

\* Mutant: the term is required in every mode.
PatchPodWithRequired(p) ==
  /\ Reading(p, "pvs") /\ req[p].names = <<>>
  /\ SetPod(p, "admitted") /\ req' = [req EXCEPT ![p] = NoReq]
  /\ LET term == IF req[p].nodes = {} THEN {} ELSE {req[p].nodes} IN
       required' = [required EXCEPT ![p] = @ \cup term]
  /\ UNCHANGED <<preferred, at, blind, objectVars>>

\* A term with all the nodes found.  It joins the terms the pod has already,
\* any one of which makes a node eligible.
PatchPodWithNodeAffinity(p) ==
  /\ Reading(p, "pvs") /\ req[p].names = <<>>
  /\ SetPod(p, "admitted") /\ req' = [req EXCEPT ![p] = NoReq]
  /\ LET term == IF req[p].nodes = {} THEN {} ELSE {req[p].nodes} IN
       IF req[p].mode = "durability"
         THEN required' = [required EXCEPT ![p] = @ \cup term] /\ UNCHANGED preferred
         ELSE preferred' = [preferred EXCEPT ![p] = @ \cup term] /\ UNCHANGED required
  /\ UNCHANGED <<at, blind, objectVars>>

\* A read fails for good: the request is refused.
HandlePodFails(p) ==
  /\ pod[p] = "asked" /\ req[p].todo \o req[p].names # <<>>
  /\ SetPod(p, "denied") /\ req' = [req EXCEPT ![p] = NoReq]
  /\ UNCHANGED <<required, preferred, at, blind, objectVars>>

PodHandlerStep(p) ==
  \/ HandleVolume(p) \/ HandleVolumesDone(p)
  \/ GetPvNodesAndFailoverMode(p) \/ PatchPodWithNodeAffinity(p)
=============================================================================
