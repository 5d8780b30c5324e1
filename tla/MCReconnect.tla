---------------------------- MODULE MCReconnect -----------------------------
(***************************************************************************)
(* TLC instances of Reconnect: two channels, one of them a topic, so that  *)
(* a reopen can fail between them, and two overlapping reconnect() calls.  *)
(***************************************************************************)
EXTENDS Reconnect
=============================================================================
