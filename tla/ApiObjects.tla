----------------------------- MODULE ApiObjects -----------------------------
(***************************************************************************)
(* The objects that the admission webhooks read: claims, their volumes and *)
(* their storage classes, and the manager's cache of them, which lags.     *)
(***************************************************************************)
EXTENDS Naturals, Sequences

CONSTANTS Nodes, Claims, None,
          ClaimSpecs \* ClaimSpecs[c]: how c may be written

\* A claim: the provisioner of its class ("none", "local", this driver, or
\* "other"), the failover mode its volume gets (or None), whether it has the
\* accept-ephemeral-storage annotation, and whether a pod owns it.
Specs == [class : {"none", "local", "other"},
          mode : {"availability", "durability", "invalid", None},
          accepts : BOOLEAN, owned : BOOLEAN]

\* A volume: the node it was made on, and the node its annotation names.
Volumes == [initial : Nodes, selected : Nodes \cup {None}]

ASSUME ClaimAssumption ==
  /\ ClaimSpecs \in [Claims -> SUBSET Specs]
  /\ None \notin Nodes \cup Volumes

VARIABLES spec,     \* spec[c]: how c is written
          claim,    \* claim[c]: life of the claim
          pv,       \* pv[c]: the volume bound to c, or None
          seenClaim, seenPV, seenClass, \* the manager's cache
          unchecked \* history: claims admitted without their class being known

objectVars == <<spec, claim, pv, seenClaim, seenPV, seenClass, unchecked>>

ObjectsTypeOK ==
  /\ spec \in [Claims -> Specs]
  /\ claim \in [Claims -> {"new", "asked", "denied", "unbound", "bound"}]
  /\ pv \in [Claims -> Volumes \cup {None}]
  /\ seenClaim \in [Claims -> {"absent", "unbound", "bound"}]
  /\ seenPV \in [Claims -> Volumes \cup {None}]
  /\ seenClass \in BOOLEAN
  /\ unchecked \subseteq Claims

ObjectsInit ==
  /\ spec \in [Claims -> UNION {ClaimSpecs[c] : c \in Claims}]
  /\ \A c \in Claims : spec[c] \in ClaimSpecs[c]
  /\ claim = [c \in Claims |-> "new"] /\ pv = [c \in Claims |-> None]
  /\ seenClaim = [c \in Claims |-> "absent"] /\ seenPV = [c \in Claims |-> None]
  /\ seenClass \in BOOLEAN
  /\ unchecked = {}

\* The node that holds the volume: its annotation, else its initial node.
NodeOf(v) == IF v.selected = None THEN v.initial ELSE v.selected

Local(c) == spec[c].class = "local"
Exists(c) == claim[c] \in {"unbound", "bound"}

\* One object of the cache catches up.
Sync ==
  /\ \/ \E c \in Claims :
          /\ Exists(c) /\ seenClaim[c] # claim[c]
          /\ seenClaim' = [seenClaim EXCEPT ![c] = claim[c]]
          /\ UNCHANGED <<seenPV, seenClass>>
     \/ \E c \in Claims :
          /\ seenPV[c] # pv[c]
          /\ seenPV' = [seenPV EXCEPT ![c] = pv[c]]
          /\ UNCHANGED <<seenClaim, seenClass>>
     \/ ~seenClass /\ seenClass' = TRUE /\ UNCHANGED <<seenClaim, seenPV>>
  /\ UNCHANGED <<spec, claim, pv, unchecked>>
=============================================================================
