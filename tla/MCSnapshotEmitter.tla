------------------------- MODULE MCSnapshotEmitter -------------------------
(* Instances of SnapshotEmitter for TLC. *)
EXTENDS SnapshotEmitter, TLC

CONSTANTS a, b, cluster

TwoVMs == {a, b}
ClusterRequests == {cluster}

\* The VMs are interchangeable: nothing tells one from another.
VMSymmetry == Permutations(TwoVMs)
=============================================================================
