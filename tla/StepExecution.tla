---------------------------- MODULE StepExecution ----------------------------
(***************************************************************************)
(* The steps of one run that a worker thread executes: _execute_run and    *)
(* _execute_step of run_dispatcher.py over step_run_repository.py, the two *)
(* executors with their child processes, and what a crash of the service   *)
(* and the reconciliation at the next start leave behind.                  *)
(*                                                                         *)
(* It opens the "running" stage of RunDispatcher: every repository call is *)
(* a step of its own, so that the service can go down, and a call can      *)
(* raise, between any two of them.                                         *)
(***************************************************************************)
EXTENDS Naturals

CONSTANTS
  NumSteps,     \* len(workflow.steps)
  MaxAttempts,  \* step.max_attempts, per step
  InProcess,    \* the steps with executor_type INPROCESS
  Faults,       \* repository calls and executors may raise
  MaxRestarts   \* bounds the model: how often the service goes down

Steps == 1 .. NumSteps

ASSUME StepConstants ==
  /\ NumSteps \in Nat \ {0}
  /\ MaxAttempts \in [Steps -> Nat \ {0}]
  /\ InProcess \subseteq Steps
  /\ Faults \in BOOLEAN
  /\ MaxRestarts \in Nat

VARIABLES
  run,       \* workflow_runs.status
  rows,      \* step_runs: [step -> [attempt_no -> status]]
  at,        \* where the worker thread is
  step,      \* sequence_no of the step it is at
  attempt,   \* attempt_no
  verdict,   \* the status it is about to record, for an attempt or the run
  child,     \* the process that executes the attempt
  payload,   \* what the child has put into the result queue
  worked,    \* the <<step, attempt>> whose work was done, whatever is recorded
  restarts   \* how often the service went down

position == <<step, attempt>>
process  == <<child, payload, worked>>
vars == <<run, rows, at, step, attempt, verdict, child, payload, worked, restarts>>

Attempts(s) == 1 .. MaxAttempts[s]
Places ==
  {"insert", "mark", "start", "wait", "record", "skip", "result", "reread",
   "failing", "ended", "down"}
Settled == {"succeeded", "failed"}
RowStatuses == {"none", "queued", "running", "skipped"} \cup Settled

RunningRow(s, a) == rows[s][a] = "running"
Passed(s) == \E a \in Attempts(s) : rows[s][a] = "succeeded"
Failed(s) == rows[s][MaxAttempts[s]] = "failed"

TypeOK ==
  /\ run \in {"running"} \cup Settled
  /\ DOMAIN rows = Steps
  /\ \A s \in Steps : rows[s] \in [Attempts(s) -> RowStatuses]
  /\ at \in Places
  /\ step \in Steps /\ attempt \in Attempts(step)
  /\ verdict \in Settled
  /\ child \in {"none", "working", "flushing", "exited"}
  /\ payload \in {"none", "ok", "error"}
  /\ worked \subseteq UNION {{s} \X Attempts(s) : s \in Steps}
  /\ restarts \in 0 .. MaxRestarts
-----------------------------------------------------------------------------
Init ==
  /\ run = "running"
  /\ rows = [s \in Steps |-> [a \in Attempts(s) |-> "none"]]
  /\ at = "insert" /\ step = 1 /\ attempt = 1
  /\ verdict = "failed"
  /\ child = "none" /\ payload = "none" /\ worked = {}
  /\ restarts = 0

SetRow(s, a, status) == rows' = [rows EXCEPT ![s][a] = status]

\* insert_step_run()
InsertStep ==
  /\ at = "insert"
  /\ SetRow(step, attempt, "queued")
  /\ at' = "mark"
  /\ UNCHANGED <<run, position, verdict, process, restarts>>

\* set_step_running()
MarkRunning ==
  /\ at = "mark"
  /\ SetRow(step, attempt, "running")
  /\ at' = "start"
  /\ UNCHANGED <<run, position, verdict, process, restarts>>
-----------------------------------------------------------------------------
(* The executors.  An in-process step runs in a spawned process and sends  *)
(* its result through a queue that the parent reads after joining it.      *)

StartChild ==
  /\ at = "start"
  /\ child' = "working" /\ payload' = "none"
  /\ at' = "wait"
  /\ UNCHANGED <<run, rows, position, verdict, worked, restarts>>

\* The callable returns, or the command exits with 0.  A result that does not
\* fit into the pipe keeps the child from exiting until somebody reads it; one
\* that cannot be pickled never arrives.
ChildSucceeds ==
  /\ child = "working"
  /\ worked' = worked \cup {position}
  /\ \/ child' = "exited" /\ payload' = "ok"
     \/ step \in InProcess /\ child' = "flushing" /\ payload' = "ok"
     \/ step \in InProcess /\ child' = "exited" /\ payload' = "none"
  /\ UNCHANGED <<run, rows, at, position, verdict, restarts>>

\* The callable raises, the command fails, or the process is killed.
ChildFails ==
  /\ child = "working"
  /\ \/ child' = "exited" /\ payload' \in {"error", "none"}
     \/ step \in InProcess /\ child' = "flushing" /\ payload' = "error"
  /\ UNCHANGED <<run, rows, at, position, verdict, worked, restarts>>

\* Mutant: only an error payload counts as a failure.
JoinReturns_NoPayloadPasses ==
  /\ at = "wait" /\ child = "exited"
  /\ verdict' = IF payload = "error" THEN "failed" ELSE "succeeded"
  /\ child' = "none" /\ payload' = "none"
  /\ at' = "record"
  /\ UNCHANGED <<run, rows, position, worked, restarts>>

\* join() returns and the payload, if there is one, is read.
JoinReturns ==
  /\ at = "wait" /\ child = "exited"
  /\ verdict' = IF payload = "ok" THEN "succeeded" ELSE "failed"
  /\ child' = "none" /\ payload' = "none"
  /\ at' = "record"
  /\ UNCHANGED <<run, rows, position, worked, restarts>>

\* Mutants: the child is not terminated; a child that has put its result is
\* joined without a timeout.
JoinTimesOut_LeavesChild ==
  /\ at = "wait" /\ child \in {"working", "flushing"}
  /\ verdict' = "failed"
  /\ at' = "record"
  /\ UNCHANGED <<run, rows, position, process, restarts>>

JoinTimesOut_WaitsForFlush ==
  /\ at = "wait" /\ child = "working"
  /\ verdict' = "failed"
  /\ child' = "none" /\ payload' = "none"
  /\ at' = "record"
  /\ UNCHANGED <<run, rows, position, worked, restarts>>

\* join(timeout) finds the child alive: terminate(), the queue is not read.
JoinTimesOut ==
  /\ at = "wait" /\ child \in {"working", "flushing"}
  /\ verdict' = "failed"
  /\ child' = "none" /\ payload' = "none"
  /\ at' = "record"
  /\ UNCHANGED <<run, rows, position, worked, restarts>>

\* The executor raises before the child starts or after it ended (the log file
\* cannot be written): a failed attempt, whatever the child did.
ExecutorRaises ==
  /\ Faults
  /\ at = "start" \/ (at = "wait" /\ child = "exited")
  /\ verdict' = "failed"
  /\ child' = "none" /\ payload' = "none"
  /\ at' = "record"
  /\ UNCHANGED <<run, rows, position, worked, restarts>>
-----------------------------------------------------------------------------
\* update_step_result(), then the next attempt, the next step or the end.
RecordStep ==
  /\ at = "record"
  /\ SetRow(step, attempt, verdict)
  /\ \/ /\ verdict = "succeeded" /\ step < NumSteps
        /\ step' = step + 1 /\ attempt' = 1 /\ at' = "insert"
     \/ /\ verdict = "succeeded" /\ step = NumSteps
        /\ at' = "result" /\ UNCHANGED position
     \/ /\ verdict = "failed" /\ attempt < MaxAttempts[step]
        /\ attempt' = attempt + 1 /\ at' = "insert" /\ UNCHANGED step
     \/ /\ verdict = "failed" /\ attempt = MaxAttempts[step]
        /\ at' = "skip" /\ UNCHANGED position
  /\ UNCHANGED <<run, verdict, process, restarts>>

\* _skip_remaining_steps(), one step
SkipStep ==
  /\ at = "skip" /\ step < NumSteps
  /\ SetRow(step + 1, 1, "skipped")
  /\ step' = step + 1 /\ attempt' = 1
  /\ UNCHANGED <<run, at, verdict, process, restarts>>

SkipEnds ==
  /\ at = "skip" /\ step = NumSteps
  /\ at' = "result"
  /\ UNCHANGED <<run, rows, position, verdict, process, restarts>>

\* update_run_result(): the UPDATE ...
RecordRun ==
  /\ at = "result"
  /\ run' = verdict
  /\ at' = "reread"
  /\ UNCHANGED <<rows, position, verdict, process, restarts>>

\* ... and the get_run() that it returns.
RereadRun ==
  /\ at = "reread"
  /\ at' = "ended"
  /\ UNCHANGED <<run, rows, position, verdict, process, restarts>>

\* A repository call raises: _execute_run's except clause.
CallRaises ==
  /\ Faults
  /\ at \in {"insert", "mark", "record", "skip", "result", "reread"}
  /\ at' = "failing"
  /\ UNCHANGED <<run, rows, position, verdict, process, restarts>>

\* _mark_run_failed_after_unexpected_exception(), which may raise as well.
MarkRunFailed ==
  /\ at = "failing"
  /\ run' = "failed" \/ (Faults /\ UNCHANGED run)
  /\ at' = "ended"
  /\ UNCHANGED <<rows, position, verdict, process, restarts>>

\* The service goes down, and the child with it.
GoDown ==
  /\ at # "down" /\ restarts < MaxRestarts
  /\ at' = "down" /\ restarts' = restarts + 1
  /\ child' = "none" /\ payload' = "none"
  /\ UNCHANGED <<run, rows, position, verdict, worked>>

\* Mutants: step_runs is left alone; every step of the run is failed.
Reconcile_RunOnly ==
  /\ at = "down"
  /\ run' = IF run = "running" THEN "failed" ELSE run
  /\ at' = "ended"
  /\ UNCHANGED <<rows, position, verdict, process, restarts>>

Reconcile_FailsAll ==
  /\ at = "down"
  /\ run' = IF run = "running" THEN "failed" ELSE run
  /\ rows' = [s \in Steps |-> [a \in Attempts(s) |->
                IF rows[s][a] # "none" THEN "failed" ELSE rows[s][a]]]
  /\ at' = "ended"
  /\ UNCHANGED <<position, verdict, process, restarts>>

\* mark_stale_running_runs_failed(); a run is not resumed.
Reconcile ==
  /\ at = "down"
  /\ run' = IF run = "running" THEN "failed" ELSE run
  /\ rows' = [s \in Steps |-> [a \in Attempts(s) |->
                IF RunningRow(s, a) THEN "failed" ELSE rows[s][a]]]
  /\ at' = "ended"
  /\ UNCHANGED <<position, verdict, process, restarts>>

Thread ==
  \/ InsertStep \/ MarkRunning \/ StartChild \/ JoinReturns \/ JoinTimesOut
  \/ RecordStep \/ SkipStep \/ SkipEnds \/ RecordRun \/ RereadRun
  \/ MarkRunFailed \/ Reconcile

Next ==
  \/ Thread
  \/ ChildSucceeds \/ ChildFails
  \/ ExecutorRaises \/ CallRaises \/ GoDown

Spec == Init /\ [][Next]_vars

\* The worker thread is not starved, join() has a timeout, and a service that
\* is down is started again (Restart=always).
FairSpec == Spec /\ WF_vars(Thread)
-----------------------------------------------------------------------------
(* Safety.                                                                 *)

\* A run is recorded as succeeded only when every step has an attempt that was
\* recorded as succeeded and did its work; no timeout, lost payload, exception
\* or restart makes a success out of less.
SuccessIsComplete ==
  run = "succeeded" =>
    \A s \in Steps : \E a \in Attempts(s) :
      rows[s][a] = "succeeded" /\ <<s, a>> \in worked

\* Attempts are made one after the other, and a step is reached only past
\* steps that passed - or, as skipped, behind a step that failed for good.
StepsAreSerial ==
  \A s \in Steps : \A a \in Attempts(s) :
    /\ rows[s][a] # "none" /\ a > 1 => rows[s][a - 1] = "failed"
    /\ rows[s][a] \notin {"none", "skipped"} /\ s > 1 => Passed(s - 1)
    /\ rows[s][a] = "skipped" => /\ s > 1 /\ a = 1
                                 /\ Failed(s - 1) \/ rows[s - 1][1] = "skipped"

\* Nothing of a run is still at work once the run has a final status: a child
\* process never outlives the result of its run.
NoWorkAfterResult == [][(run \in Settled) => worked' = worked]_vars

\* How the row of an attempt moves in the code. The diagram "StepRun Status" of
\* docs/20.egograph/pipelines/architecture.md:340-351 has two edges otherwise:
\* RUNNING --> SKIPPED, where the code inserts the row of a skipped step as
\* "skipped", and FAILED --> RUNNING, where a retry gets a row of its own.
RowEdges ==
  {<<"none", "queued">>, <<"queued", "running">>, <<"running", "succeeded">>,
   <<"running", "failed">>, <<"none", "skipped">>}

\* An attempt's recorded result is final, for a retry and for the
\* reconciliation alike, none is recorded for an attempt that was not running,
\* and the row of a retry is opened behind a failed one and leaves it as it is.
StepResultsAreKept ==
  [][\A s \in Steps : \A a \in Attempts(s) :
       rows'[s][a] # rows[s][a] =>
         /\ <<rows[s][a], rows'[s][a]>> \in RowEdges
         /\ a > 1 => rows[s][a - 1] = "failed" /\ rows'[s][a - 1] = "failed"]_vars

\* After a restart neither the run nor one of its steps is left running.
RestartConverges ==
  (at = "ended" /\ restarts > 0) =>
    run # "running" /\ \A s \in Steps : \A a \in Attempts(s) : ~RunningRow(s, a)

\* A run with a final status has no step in status running.
SettledRunHasNoRunningStep ==
  run \in Settled => \A s \in Steps : \A a \in Attempts(s) : ~RunningRow(s, a)
-----------------------------------------------------------------------------
(* Liveness.                                                               *)

\* A run ends, however long its children take and wherever the service stops.
RunSettles == <>(run \in Settled)
=============================================================================
