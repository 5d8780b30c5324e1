--------------------------- MODULE MCWorkerClient ---------------------------
(***************************************************************************)
(* TLC instances of WorkerClient: a publisher and a service client, so     *)
(* that a reopen can be cut short between the two.                         *)
(***************************************************************************)
EXTENDS WorkerClient
=============================================================================
