-------------------------- MODULE MCGatewayProcess --------------------------
(***************************************************************************)
(* TLC instances of GatewayProcess.  Sessions are interchangeable, but the *)
(* run checks liveness, so that no symmetry is used.                       *)
(***************************************************************************)
EXTENDS GatewayProcess

CONSTANTS s1, s2
=============================================================================
