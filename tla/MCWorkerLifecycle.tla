------------------------- MODULE MCWorkerLifecycle -------------------------
(***************************************************************************)
(* WorkerLifecycle for TLC.                                                *)
(***************************************************************************)
EXTENDS WorkerLifecycle
=============================================================================
