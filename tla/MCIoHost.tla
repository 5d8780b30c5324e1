------------------------------ MODULE MCIoHost ------------------------------
(***************************************************************************)
(* The host with two engines, one after the other.  MaxHostEvents is 64 in *)
(* the source; with 2 the application can exceed it in one turn.           *)
(***************************************************************************)
EXTENDS IoHost
=============================================================================
