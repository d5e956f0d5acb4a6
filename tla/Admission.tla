------------------------------ MODULE Admission ------------------------------
(***************************************************************************)
(* Claims and pods pass the webhooks of a manager that starts and crashes, *)
(* pods are scheduled, volumes are provisioned where their first pod goes, *)
(* and a volume follows a pod that is staged on another node.              *)
(***************************************************************************)
EXTENDS ManagerProcess, ClaimWebhook, PodWebhook

vars == <<managerVars, objectVars, podVars>>

TypeOK == ManagerTypeOK /\ ObjectsTypeOK /\ PodsTypeOK

Init == ManagerInit /\ ObjectsInit /\ PodsInit

-----------------------------------------------------------------------------
(* The cluster *)

UsedClaims(p) == {c \in Claims : \E i \in DOMAIN PodVolumes[p] : PodVolumes[p][i] = c}

\* Required terms are alternatives; without any, every node will do.
Eligible(p) == IF required[p] = {} THEN Nodes ELSE UNION required[p]

\* The pod is scheduled.  A claim that waits for its first pod is provisioned
\* on that pod's node.
Schedule(p) ==
  /\ pod[p] = "admitted"
  /\ \A c \in UsedClaims(p) : Exists(c)
  /\ \E n \in Eligible(p) :
       LET fresh == {c \in UsedClaims(p) : claim[c] = "unbound"} IN
         /\ at' = [at EXCEPT ![p] = n]
         /\ claim' = [c \in Claims |-> IF c \in fresh THEN "bound" ELSE claim[c]]
         /\ pv' = [c \in Claims |-> IF c \in fresh /\ Local(c)
                                      THEN [initial |-> n, selected |-> None] ELSE pv[c]]
  /\ SetPod(p, "placed")
  /\ UNCHANGED <<managerVars, spec, seenClaim, seenPV, seenClass, unchecked>>
  /\ UNCHANGED <<req, required, preferred, blind>>

\* NodeStageVolume on the pod's node: the volume is on this node from now on.
\* (Module NodeServer has its steps, with the driver's own stale reads.)
StagePod(p) ==
  /\ pod[p] = "placed"
  /\ SetPod(p, "staged")
  /\ pv' = [c \in Claims |->
              IF c \in UsedClaims(p) /\ Local(c) /\ NodeOf(pv[c]) # at[p]
                THEN [pv[c] EXCEPT !.selected = at[p]] ELSE pv[c]]
  /\ UNCHANGED <<managerVars, spec, claim, seenClaim, seenPV, seenClass, unchecked>>
  /\ UNCHANGED <<req, required, preferred, at, blind>>

-----------------------------------------------------------------------------

ManagerStarts ==
  /\ CertsReady \/ RegisterHandler \/ ServerStarts \/ Probe
  /\ UNCHANGED <<objectVars, podVars>>

\* The crash of the manager takes its requests and its cache along.  The API
\* server goes on without an answer, and the next manager reads its cache
\* before it serves.
ManagerCrashes ==
  /\ ManagerCrash
  /\ claim' = [c \in Claims |-> IF claim[c] = "asked" THEN "unbound" ELSE claim[c]]
  /\ unchecked' = unchecked \cup {c \in Claims : claim[c] = "asked"}
  /\ pod' = [p \in Pods |-> IF pod[p] = "asked" THEN "admitted" ELSE pod[p]]
  /\ blind' = blind \cup {p \in Pods : pod[p] = "asked"}
  /\ req' = [p \in Pods |-> NoReq]
  /\ seenClaim' = [c \in Claims |-> IF claim'[c] \in {"unbound", "bound"}
                                      THEN claim'[c] ELSE "absent"]
  /\ seenPV' = pv /\ seenClass' = TRUE
  /\ UNCHANGED <<spec, pv, required, preferred, at>>

ClaimStep(c) ==
  /\ CreateClaim(c, Reached("claim")) \/ HandleClaim(c) \/ HandleClaimFails(c)
  /\ UNCHANGED <<managerVars, podVars>>

PodStep(p) ==
  /\ CreatePod(p, Reached("pod")) \/ PodHandlerStep(p) \/ HandlePodFails(p)
  /\ UNCHANGED managerVars

CacheSyncs == Sync /\ UNCHANGED <<managerVars, podVars>>

Next ==
  \/ ManagerStarts \/ ManagerCrashes \/ CacheSyncs
  \/ \E c \in Claims : ClaimStep(c)
  \/ \E p \in Pods : PodStep(p) \/ Schedule(p) \/ StagePod(p)

Spec == Init /\ [][Next]_vars

\* The rotator, the goroutine, the server and kubelet's probe go on; a request
\* that runs is answered.
Fairness ==
  /\ WF_vars(CertsReady /\ UNCHANGED <<objectVars, podVars>>)
  /\ WF_vars(RegisterHandler /\ UNCHANGED <<objectVars, podVars>>)
  /\ WF_vars(ServerStarts /\ UNCHANGED <<objectVars, podVars>>)
  /\ WF_vars(Probe /\ UNCHANGED <<objectVars, podVars>>)
  /\ \A p \in Pods : WF_vars(PodHandlerStep(p) /\ UNCHANGED managerVars)
  /\ \A c \in Claims : WF_vars(HandleClaim(c) /\ UNCHANGED <<managerVars, podVars>>)

FairSpec == Spec /\ Fairness
-----------------------------------------------------------------------------
(* Properties *)

Uses(c) == {p \in Pods : c \in UsedClaims(p)}
Durable(c) == Local(c) /\ spec[c].mode = "durability"

\* Pods whose affinity has no say but that of their one local volume.
Plain(p) == OwnTerms[p] = {} /\ \E c \in Claims : {d \in UsedClaims(p) : Local(d)} = {c}

Strays(c) == {p \in Uses(c) : at[p] \notin {None, pv[c].initial}}

\* No pod has strayed that the webhook could not have kept from it.
OnlyPlainStrays(c) == \A p \in Strays(c) : p \notin blind /\ Plain(p)
Kept(c) == Durable(c) /\ pv[c] # None /\ OnlyPlainStrays(c)

\* A volume in durability mode stays where it was made, and the pods that use
\* it go there, although the webhook reads a cache that lags: a stray pod is
\* preceded by one that the webhook did not see, that it let pass without the
\* volume's node, or that brought terms or local volumes of its own.
DurablePodFollowsVolume ==
  \A c \in Claims :
    Kept(c) => Strays(c) = {} /\ NodeOf(pv[c]) = pv[c].initial

\* What the user guide says of durability mode, for every pod that the webhook
\* has handled with the volume's node in sight.
DurabilityEnforced ==
  \A c \in Claims :
    Durable(c) /\ pv[c] # None /\ Strays(c) \cap blind = {} => Strays(c) = {}

\* The webhook never takes nodes from a pod none of whose volumes is in
\* durability mode, whatever its other volumes and its own terms are.
AvailabilityNeverBlocks ==
  \A p \in Pods : (\A c \in UsedClaims(p) : ~Durable(c)) => required[p] = OwnTerms[p]

\* A claim of this driver's class that is neither annotated nor owned by a pod
\* exists only if no manager answered, or none that knew the class.
OnlyEphemeralClaims ==
  \A c \in Claims :
    Exists(c) /\ Local(c) /\ ~Excused(c) => c \in unchecked

\* A claim of this driver is bound exactly if it has a volume, which the cache
\* may lack but cannot make up, and the claims of a scheduled pod are bound.
VolumesBound ==
  \A c \in Claims :
    /\ pv[c] # None <=> claim[c] = "bound" /\ Local(c)
    /\ pv[c] = None => seenPV[c] = None
    /\ \A p \in Uses(c) : at[p] # None => claim[c] = "bound"

Created == {"admitted", "placed", "staged"}

\* What a request has in hand: volumes of the pod, and the local ones among
\* them by name; a request that has seen everything of a plain pod with a
\* durable volume has found that volume's node.
RequestKnows(p) ==
  /\ pod[p] # "asked" => req[p] = NoReq
  /\ pod[p] = "asked" => req[p].step \in {"volumes", "pvs"}
  /\ \A i \in DOMAIN req[p].todo : req[p].todo[i] \in UsedClaims(p) \cup {Ephemeral}
  /\ \A i \in DOMAIN req[p].names :
       req[p].names[i] \in {c \in UsedClaims(p) : Local(c)} \cup {None}
  /\ req[p].mode = "durability" => \E c \in UsedClaims(p) : Durable(c)
  /\ \A c \in UsedClaims(p) :
       Durable(c) /\ Plain(p) /\ p \notin blind =>
         /\ req[p].step = "volumes" =>
              /\ req[p].nodes = {}
              /\ req[p].names = <<>> => \E i \in DOMAIN req[p].todo : req[p].todo[i] = c
         /\ req[p].step = "pvs" => req[p].names # <<>> \/ req[p].nodes # {}
         /\ req[p].nodes # {} => req[p].mode = "durability" /\ pv[c] # None
         /\ pod[p] \in Created => pv[c] # None

\* Until a pod strays that the webhook could not keep from it, the first node
\* of a durable volume is all that the cache, a request or a pod knows of.
DurableKept(c) ==
  Kept(c) =>
    /\ Strays(c) = {}
    /\ NodeOf(pv[c]) = pv[c].initial
    /\ seenPV[c] # None => NodeOf(seenPV[c]) = pv[c].initial

PodKnows(p) ==
  /\ at[p] # None <=> pod[p] \in {"placed", "staged"}
  /\ pod[p] \notin Created => required[p] = OwnTerms[p]
  /\ \A c \in UsedClaims(p) :
       Kept(c) /\ Plain(p) /\ p \notin blind =>
         /\ req[p].nodes \subseteq {pv[c].initial}
         /\ pod[p] \in Created => required[p] = {{pv[c].initial}}

\* The inductive invariant behind the three properties.
AdmissionInv ==
  /\ TypeOK
  /\ VolumesBound
  /\ \A p \in Pods : RequestKnows(p) /\ PodKnows(p)
  /\ \A c \in Claims : DurableKept(c)
  /\ AvailabilityNeverBlocks
  /\ OnlyEphemeralClaims

\* The manager gets to serve both handlers, whichever of the probe and the
\* registering goroutine starts the server, and stays ready.
ManagerServes == <>[](\A h \in Handlers : Reached(h))

\* Every admission request is answered.
RequestsAnswered ==
  /\ \A p \in Pods : pod[p] = "asked" ~> pod[p] # "asked"
  /\ \A c \in Claims : claim[c] = "asked" ~> claim[c] # "asked"
=============================================================================
