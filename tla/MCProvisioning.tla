--------------------------- MODULE MCProvisioning ---------------------------
(***************************************************************************)
(* Instances of Provisioning for TLC: the volumes are alike.               *)
(***************************************************************************)
EXTENDS Provisioning, TLC

VolumeSymmetry == Permutations(Volumes)
=============================================================================
