---------------------------- MODULE MCParallelExec ----------------------------
(* Model checking of ParallelExec: more items than permits, so a task waits   *)
(* for a permit that another one holds through its retries.  The caller is    *)
(* done when the batch has returned, so the run ends there.                   *)
EXTENDS ParallelExec

MCNItems == 3
MCConcurrency == 2
MCMaxRetries == 2
=============================================================================
