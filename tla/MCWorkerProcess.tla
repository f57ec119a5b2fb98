-------------------------- MODULE MCWorkerProcess ---------------------------
(* The helper process for TLC. *)
EXTENDS WorkerProcess
=============================================================================
