------------------------------ MODULE MCLeases ------------------------------
(***************************************************************************)
(* TLC instance of ClientLeases: few ids, so that both counters run out    *)
(* and the host's own id can fall before and after the engine's.           *)
(***************************************************************************)
EXTENDS ClientLeases
=============================================================================
