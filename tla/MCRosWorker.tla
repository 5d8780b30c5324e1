---------------------------- MODULE MCRosWorker -----------------------------
(***************************************************************************)
(* TLC instances of RosWorker.  Two connections, so that calls nest, and   *)
(* two entities, enough for two clients, or a client and its server.       *)
(***************************************************************************)
EXTENDS RosWorker, TLC

CONSTANTS a, b      \* the connections

ConnSymmetry == Permutations({a, b})
=============================================================================
