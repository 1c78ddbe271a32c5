-------------------------- MODULE MCMasonInstaller --------------------------
(* MasonInstaller with three requests.  With two permits and two packages, *)
(* requests wait both for a permit of the global semaphore and for the one *)
(* of their package, and a grant may free another.                         *)
EXTENDS MasonInstaller, TLC

CONSTANTS p1, p2, r1, r2, r3

MCPackages == {p1, p2}
MCRunners == {r1, r2, r3}

(* Requests are interchangeable, and so are packages. *)
Symmetry == Permutations(MCRunners) \cup Permutations(MCPackages)
=============================================================================
