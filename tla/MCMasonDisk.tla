---------------------------- MODULE MCMasonDisk ----------------------------
(* MasonDisk with two processes and two versions that link the same path. *)
EXTENDS MasonDisk, TLC

CONSTANTS a, b, v1, v2

TwoProcs == {a, b}
MCVersions == {v1, v2}
SamePath == [v \in MCVersions |-> "bin/tool"]

(* What follows the loss of a lock is left out: nothing is claimed of it.  *)
Kept == ~ lost

(* Neither the processes nor the versions differ. *)
Symmetry == Permutations(TwoProcs) \cup Permutations(MCVersions)
=============================================================================
