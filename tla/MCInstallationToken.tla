------------------------ MODULE MCInstallationToken ------------------------
(* InstallationToken for TLC: the lifetimes in proportion, a few seconds   *)
(* long; the margin is exactly the drift and the latency together.         *)
EXTENDS InstallationToken

CONSTANTS c1, c2

MCCalls == {c1, c2}
=============================================================================
