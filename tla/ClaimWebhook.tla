---------------------------- MODULE ClaimWebhook ----------------------------
(***************************************************************************)
(* The validating webhook that keeps claims of this driver's classes to    *)
(* generic ephemeral volumes.                                              *)
(***************************************************************************)
EXTENDS ApiObjects

\* The claim is created; the history notes a claim that nobody has checked.
AdmitClaim(c, blind) ==
  /\ claim' = [claim EXCEPT ![c] = "unbound"]
  /\ unchecked' = IF blind THEN unchecked \cup {c} ELSE unchecked

CreateClaim(c, reached) ==
  /\ claim[c] = "new"
  /\ \/ reached /\ claim' = [claim EXCEPT ![c] = "asked"] /\ UNCHANGED unchecked
     \/ ~reached /\ AdmitClaim(c, TRUE)
  /\ UNCHANGED <<spec, pv, seenClaim, seenPV, seenClass>>

Excused(c) == spec[c].accepts \/ spec[c].owned

\* Mutant: the test for the provisioner is turned round.
HandleClaimOthers(c) ==
  /\ claim[c] = "asked"
  /\ IF spec[c].class = "other" /\ seenClass /\ ~Excused(c)
       THEN claim' = [claim EXCEPT ![c] = "denied"] /\ UNCHANGED unchecked
       ELSE AdmitClaim(c, ~seenClass)
  /\ UNCHANGED <<spec, pv, seenClaim, seenPV, seenClass>>

\* Annotated claims, claims without a class, claims whose class is not found
\* and claims of other provisioners pass, and so do claims owned by a pod.
HandleClaim(c) ==
  /\ claim[c] = "asked"
  /\ IF Local(c) /\ seenClass /\ ~Excused(c)
       THEN claim' = [claim EXCEPT ![c] = "denied"] /\ UNCHANGED unchecked
       ELSE AdmitClaim(c, ~seenClass)
  /\ UNCHANGED <<spec, pv, seenClaim, seenPV, seenClass>>

\* The class cannot be read: the request is refused as a bad one.
HandleClaimFails(c) ==
  /\ claim[c] = "asked" /\ ~spec[c].accepts /\ spec[c].class # "none"
  /\ claim' = [claim EXCEPT ![c] = "denied"]
  /\ UNCHANGED <<spec, pv, seenClaim, seenPV, seenClass, unchecked>>
=============================================================================
