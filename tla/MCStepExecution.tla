--------------------------- MODULE MCStepExecution ---------------------------
(***************************************************************************)
(* StepExecution for TLC: three steps, the second with retries, the last   *)
(* one executed by the subprocess executor.                                *)
(***************************************************************************)
EXTENDS StepExecution

MCMaxAttempts == <<1, 3, 2>>
MCInProcess   == {1, 2}
=============================================================================
