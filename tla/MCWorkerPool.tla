---------------------------- MODULE MCWorkerPool ----------------------------
(* WorkerPool on small instances; N and W come from the configurations. *)
EXTENDS WorkerPool
=============================================================================
