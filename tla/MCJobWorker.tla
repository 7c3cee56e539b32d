----------------------------- MODULE MCJobWorker -----------------------------
(* Small instances of JobWorker for TLC. *)
EXTENDS JobWorkerProps

CONSTANTS j1, j2

=============================================================================
