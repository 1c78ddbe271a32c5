-------------------------- MODULE MCInstallerLive ---------------------------
(* MasonInstaller with two requests for one package: small enough for      *)
(* liveness, and enough for a request to wait for, collide with or outlive *)
(* another.                                                                *)
EXTENDS MasonInstaller

CONSTANTS p1, r1, r2

MCPackages == {p1}
MCRunners == {r1, r2}
=============================================================================
