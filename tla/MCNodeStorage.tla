--------------------------- MODULE MCNodeStorage ---------------------------
(***************************************************************************)
(* An instance of NodeStorage for TLC: two local disks of the same size    *)
(* and the disk of the operating system, which the filter does not accept. *)
(***************************************************************************)
EXTENDS NodeStorage

LocalDisk(p) == [path |-> <<"nvme", p>>, model |-> "direct", type |-> "disk", size |-> 45]

MCLsblk == {LocalDisk("0"), LocalDisk("1"),
            [path |-> <<"nvme", "2">>, model |-> "os", type |-> "disk", size |-> 45]}
MCPathPrefixes == {<<"nvme">>, Empty}
=============================================================================
