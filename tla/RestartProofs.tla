---------------------------- MODULE RestartProofs ----------------------------
(***************************************************************************)
(* What a stop of the service at any point leaves behind: the safety of    *)
(* step execution for any number of steps and attempts, and of the cron    *)
(* triggers for any schedules. Of these, type correctness for every choice *)
(* of callers; for a service that nobody but its own main thread           *)
(* re-registers, that no slot is forgotten and the record is never ahead   *)
(* of the job; and for one with any number of API threads, that their      *)
(* overlapping calls of sync_jobs() lose no job and that a start leaves    *)
(* exactly the right ones.                                                 *)
(***************************************************************************)
EXTENDS StepExecution, ScheduleTrigger, TLAPS

-------------------------------------------------------------------------------
(* Step execution.                                                         *)

Open == {"start", "wait", "record"}           \* the attempt's row is running
Live == {"insert", "mark"} \cup Open          \* an attempt is being made
Over == {"failing", "ended", "down"}          \* the worker has given up the plan

Done(s) ==
  \E a \in Attempts(s) : rows[s][a] = "succeeded" /\ <<s, a>> \in worked

\* Where the worker is and what the row of its attempt says.
Cursor ==
  /\ at = "insert" => rows[step][attempt] = "none"
  /\ at = "mark" => rows[step][attempt] = "queued"
  /\ at \in Open => rows[step][attempt] = "running"
  /\ at \in Live /\ attempt > 1 => rows[step][attempt - 1] = "failed"
  /\ at \in Live => \A s \in Steps : s < step => Done(s)
  /\ at = "skip" => /\ verdict = "failed"
                    /\ Failed(step) \/ rows[step][1] = "skipped"
  /\ at = "result" /\ verdict = "succeeded" => \A s \in Steps : Done(s)

\* No row is there before its attempt.
Untouched ==
  /\ at \in Live => \A a \in Attempts(step) : a > attempt => rows[step][a] = "none"
  /\ at \in Live \cup {"skip"} =>
       \A s \in Steps : s > step => \A a \in Attempts(s) : rows[s][a] = "none"

\* The child and what is believed of it.
ChildIsWaitedFor ==
  /\ child # "none" => at = "wait"
  /\ child = "none" => payload = "none"
  /\ payload = "ok" => <<step, attempt>> \in worked
  /\ at = "record" /\ verdict = "succeeded" => <<step, attempt>> \in worked

\* The run's own row.
RunStatus ==
  /\ at \in Live \cup {"skip", "result"} => run = "running"
  /\ at = "reread" => run = verdict
  /\ restarts > 0 => at \in {"down", "ended"}

\* Where a row in status running can be.
OpenRows ==
  \A s \in Steps : \A a \in Attempts(s) : RunningRow(s, a) =>
    \/ at \in Open /\ s = step /\ a = attempt
    \/ at \in Over /\ (Faults \/ (at = "down" /\ run = "running"))

IInv ==
  /\ TypeOK
  /\ Cursor
  /\ Untouched
  /\ ChildIsWaitedFor
  /\ RunStatus
  /\ OpenRows
  /\ SuccessIsComplete
  /\ StepsAreSerial
  /\ RestartConverges
-----------------------------------------------------------------------------
LEMMA Bounds ==
  /\ Steps \subseteq Nat
  /\ \A s \in Steps : /\ Attempts(s) \subseteq Nat
                      /\ 1 \in Attempts(s) /\ MaxAttempts[s] \in Attempts(s)
                      /\ s > 1 => s - 1 \in Steps /\ s - 1 < s
                      /\ s < NumSteps => s + 1 \in Steps
                      /\ \A a \in Attempts(s) : /\ a > 1 => a - 1 \in Attempts(s)
                                                /\ a < MaxAttempts[s]
                                                     => a + 1 \in Attempts(s)
  BY StepConstants DEF Steps, Attempts

\* Writing one row changes that row.
LEMMA RowWritten ==
  ASSUME TypeOK, NEW s \in Steps, NEW a \in Attempts(s), NEW v \in RowStatuses,
         SetRow(s, a, v)
  PROVE  /\ DOMAIN rows' = Steps
         /\ \A t \in Steps : rows'[t] \in [Attempts(t) -> RowStatuses]
         /\ rows'[s][a] = v
         /\ \A t \in Steps : \A b \in Attempts(t) :
              (t # s \/ b # a) => rows'[t][b] = rows[t][b]
  BY DEF TypeOK, SetRow

\* The reconciliation changes the rows that are running.
LEMMA RowsReconciled ==
  ASSUME TypeOK, Reconcile
  PROVE  /\ DOMAIN rows' = Steps
         /\ \A t \in Steps : rows'[t] \in [Attempts(t) -> RowStatuses]
         /\ \A t \in Steps : \A b \in Attempts(t) :
              rows'[t][b] = IF rows[t][b] = "running" THEN "failed" ELSE rows[t][b]
  BY DEF TypeOK, Reconcile, RunningRow, RowStatuses, Settled

LEMMA InitIInv == Init => IInv
  <1> SUFFICES ASSUME Init PROVE IInv
    OBVIOUS
  <1> USE Bounds, StepConstants DEF Init
  <1>1. TypeOK
    BY DEF TypeOK, RowStatuses, Settled, Places, Steps, Attempts
  <1>2. \A s \in Steps : \A a \in Attempts(s) : rows[s][a] = "none"
    OBVIOUS
  <1>3. Cursor /\ Untouched
    <2>1. 1 \in Steps /\ \A s \in Steps : ~(s < 1)
      BY DEF Steps
    <2>2. rows[1][1] = "none"
      BY <1>2, <2>1
    <2>3. Cursor
      BY <2>1, <2>2 DEF Cursor, Live, Open
    <2>4. Untouched
      BY <1>2, <2>1 DEF Untouched
    <2> QED
      BY <2>3, <2>4
  <1>4. ChildIsWaitedFor /\ RunStatus /\ OpenRows
    BY <1>2 DEF ChildIsWaitedFor, RunStatus, OpenRows, RunningRow
  <1>5. SuccessIsComplete /\ StepsAreSerial /\ RestartConverges
    BY <1>2 DEF SuccessIsComplete, StepsAreSerial, RestartConverges
  <1> QED
    BY <1>1, <1>3, <1>4, <1>5 DEF IInv

LEMMA TypeStep == TypeOK /\ [Next]_vars => TypeOK'
  <1> SUFFICES ASSUME TypeOK, [Next]_vars PROVE TypeOK'
    OBVIOUS
  <1> USE Bounds, StepConstants DEF position, process
  <1>1. CASE InsertStep \/ MarkRunning
    <2>1. /\ DOMAIN rows' = Steps
          /\ \A t \in Steps : rows'[t] \in [Attempts(t) -> RowStatuses]
      BY <1>1, RowWritten DEF InsertStep, MarkRunning, TypeOK, RowStatuses
    <2> QED
      BY <1>1, <2>1 DEF InsertStep, MarkRunning, TypeOK, Places
  <1>2. CASE RecordStep
    <2>1. /\ DOMAIN rows' = Steps
          /\ \A t \in Steps : rows'[t] \in [Attempts(t) -> RowStatuses]
      BY <1>2, RowWritten DEF RecordStep, TypeOK, RowStatuses
    <2>2. step' \in Steps /\ attempt' \in Attempts(step') /\ at' \in Places
      BY <1>2 DEF RecordStep, TypeOK, Places, Steps, Attempts
    <2> QED
      BY <1>2, <2>1, <2>2 DEF RecordStep, TypeOK
  <1>3. CASE SkipStep
    <2>1. step + 1 \in Steps
      BY <1>3 DEF SkipStep, TypeOK, Steps
    <2>2. /\ DOMAIN rows' = Steps
          /\ \A t \in Steps : rows'[t] \in [Attempts(t) -> RowStatuses]
      BY <1>3, <2>1, RowWritten DEF SkipStep, RowStatuses
    <2> QED
      BY <1>3, <2>1, <2>2 DEF SkipStep, TypeOK
  <1>4. CASE ChildSucceeds
    BY <1>4 DEF ChildSucceeds, TypeOK
  <1>5. CASE StartChild \/ ChildFails \/ JoinReturns \/ JoinTimesOut \/ ExecutorRaises
    BY <1>5 DEF StartChild, ChildFails, JoinReturns, JoinTimesOut, ExecutorRaises,
                TypeOK, Places, Settled
  <1>6. CASE SkipEnds \/ RecordRun \/ RereadRun \/ CallRaises \/ MarkRunFailed
    BY <1>6 DEF SkipEnds, RecordRun, RereadRun, CallRaises, MarkRunFailed, TypeOK,
                Places, Settled
  <1>7. CASE GoDown
    BY <1>7 DEF GoDown, TypeOK, Places
  <1>8. CASE Reconcile
    BY <1>8, RowsReconciled DEF Reconcile, TypeOK, Places, Settled
  <1>9. CASE UNCHANGED vars
    BY <1>9 DEF vars, TypeOK
  <1> QED
    BY <1>1, <1>2, <1>3, <1>4, <1>5, <1>6, <1>7, <1>8, <1>9 DEF Next, Thread
-----------------------------------------------------------------------------
(* The worker's position against the rows, one lemma per kind of step.     *)

Progress == Cursor /\ Untouched /\ ChildIsWaitedFor /\ RunStatus /\ OpenRows
Plan == StepsAreSerial /\ SuccessIsComplete /\ RestartConverges

LEMMA DoneStays ==
  ASSUME worked \subseteq worked',
         \A s \in Steps : \A a \in Attempts(s) :
           rows[s][a] \in Settled => rows'[s][a] = rows[s][a]
  PROVE  \A s \in Steps : /\ Done(s) => Done(s)'
                          /\ Passed(s) => Passed(s)'
  BY DEF Done, Passed, Settled

LEMMA BeginStep ==
  ASSUME IInv, TypeOK', InsertStep \/ MarkRunning
  PROVE  Progress' /\ Plan'
  <1> USE DEF IInv, position, process
  <1> DEFINE v == IF at = "insert" THEN "queued" ELSE "running"
  <1>1. /\ step \in Steps /\ attempt \in Attempts(step)
        /\ rows[step][attempt] = IF at = "insert" THEN "none" ELSE "queued"
        /\ at \in {"insert", "mark"} /\ run = "running" /\ restarts = 0
        /\ child = "none"
    BY DEF TypeOK, Cursor, RunStatus, ChildIsWaitedFor, InsertStep, MarkRunning, Live
  <1>2. /\ rows'[step][attempt] = v
        /\ \A t \in Steps : \A b \in Attempts(t) :
             (t # step \/ b # attempt) => rows'[t][b] = rows[t][b]
    <2>1. v \in RowStatuses /\ SetRow(step, attempt, v)
      BY <1>1 DEF InsertStep, MarkRunning, RowStatuses
    <2> HIDE DEF v
    <2> QED
      BY <1>1, <2>1, RowWritten
  <1>3. /\ at' = IF at = "insert" THEN "mark" ELSE "start"
        /\ UNCHANGED <<run, step, attempt, verdict, child, payload, worked, restarts>>
    BY <1>1 DEF InsertStep, MarkRunning
  <1>4. \A s \in Steps : (Done(s) => Done(s)') /\ (Passed(s) => Passed(s)')
    <2>1. \A s \in Steps : \A a \in Attempts(s) :
            rows[s][a] \in Settled => rows'[s][a] = rows[s][a]
      BY <1>1, <1>2 DEF Settled
    <2> QED
      BY <1>3, <2>1, DoneStays
  <1>5. Cursor'
    <2>1. attempt > 1 => rows'[step][attempt - 1] = "failed"
      BY <1>1, <1>2, Bounds DEF Cursor, Live
    <2>2. \A s \in Steps : s < step => Done(s)'
      BY <1>1, <1>4 DEF Cursor, Live
    <2> QED
      BY <1>1, <1>2, <1>3, <2>1, <2>2 DEF Cursor, Live, Open
  <1>6. Untouched'
    <2>1. \A a \in Attempts(step) : a > attempt => rows'[step][a] = "none"
      BY <1>1, <1>2, Bounds DEF Untouched, Live
    <2>2. \A s \in Steps : s > step => \A a \in Attempts(s) : rows'[s][a] = "none"
      BY <1>1, <1>2, Bounds DEF Untouched, Live
    <2> QED
      BY <1>3, <2>1, <2>2 DEF Untouched
  <1>7. ChildIsWaitedFor' /\ RunStatus'
    BY <1>1, <1>3 DEF ChildIsWaitedFor, RunStatus, Live, Open
  <1>8. OpenRows'
    BY <1>1, <1>2, <1>3 DEF OpenRows, RunningRow, Open, Over
  <1>9. StepsAreSerial'
    <2>1. \A s \in Steps : Passed(s) => Passed(s)'
      BY <1>4
    <2>2. step > 1 => step - 1 \in Steps /\ Passed(step - 1)
      BY <1>1, Bounds DEF Cursor, Live, Done, Passed
    <2>3. \A s \in Steps : Failed(s) => Failed(s)'
      BY <1>1, <1>2, Bounds DEF Failed
    <2> SUFFICES ASSUME NEW s \in Steps, NEW a \in Attempts(s)
                 PROVE  /\ rows'[s][a] # "none" /\ a > 1 => rows'[s][a - 1] = "failed"
                        /\ rows'[s][a] \notin {"none", "skipped"} /\ s > 1
                             => Passed(s - 1)'
                        /\ rows'[s][a] = "skipped" =>
                             /\ s > 1 /\ a = 1
                             /\ Failed(s - 1)' \/ rows'[s - 1][1] = "skipped"
      BY DEF StepsAreSerial
    <2>4. /\ s > 1 => s - 1 \in Steps
          /\ a > 1 => a - 1 \in Attempts(s)
      BY Bounds
    <2>5. CASE s = step /\ a = attempt
      BY <1>1, <1>2, <2>1, <2>2, <2>4, <2>5, Bounds DEF Cursor, Live
    <2>6. CASE ~(s = step /\ a = attempt)
      BY <1>1, <1>2, <2>1, <2>3, <2>4, <2>6, Bounds DEF StepsAreSerial
    <2> QED
      BY <2>5, <2>6
  <1>10. SuccessIsComplete' /\ RestartConverges'
    BY <1>1, <1>3 DEF SuccessIsComplete, RestartConverges
  <1> QED
    BY <1>5, <1>6, <1>7, <1>8, <1>9, <1>10 DEF Progress, Plan

\* The executor and its child: the row of the attempt stays running.
LEMMA ExecuteStep ==
  ASSUME IInv, StartChild \/ ChildSucceeds \/ ChildFails \/ JoinReturns
                 \/ JoinTimesOut \/ ExecutorRaises
  PROVE  Progress' /\ Plan'
  <1> USE DEF IInv, position, process
  <1>1. /\ at \in Open /\ at' \in Open /\ run = "running" /\ ~(restarts > 0)
        /\ UNCHANGED <<run, rows, step, attempt, restarts>>
        /\ worked \subseteq worked'
    <2>1. /\ at \in Open /\ at' \in Open
          /\ UNCHANGED <<run, rows, step, attempt, restarts>>
          /\ worked \subseteq worked'
      BY DEF StartChild, ChildSucceeds, ChildFails, JoinReturns, JoinTimesOut,
             ExecutorRaises, ChildIsWaitedFor, Open
    <2> QED
      BY <2>1 DEF RunStatus, Open, Live
  <1>2. \A s \in Steps : Done(s) => Done(s)'
    BY <1>1 DEF Done
  <1>3. Cursor'
    BY <1>1, <1>2 DEF Cursor, Live, Open
  <1>4. Untouched'
    BY <1>1 DEF Untouched, Live
  <1>5. ChildIsWaitedFor'
    BY DEF ChildIsWaitedFor, StartChild, ChildSucceeds, ChildFails, JoinReturns,
           JoinTimesOut, ExecutorRaises
  <1>6. RunStatus'
    BY <1>1 DEF RunStatus, Live, Open
  <1>7. OpenRows'
    BY <1>1 DEF OpenRows, RunningRow, Open, Over
  <1>8. StepsAreSerial'
    <2>1. rows' = rows /\ StepsAreSerial
      BY <1>1
    <2>2. \A s \in Steps : (Passed(s) <=> Passed(s)') /\ (Failed(s) <=> Failed(s)')
      BY <2>1 DEF Passed, Failed
    <2> QED
      BY <2>1 DEF StepsAreSerial, Passed, Failed
  <1>9. SuccessIsComplete' /\ RestartConverges'
    BY <1>1 DEF SuccessIsComplete, RestartConverges
  <1> QED
    BY <1>3, <1>4, <1>5, <1>6, <1>7, <1>8, <1>9 DEF Progress, Plan

\* The run's row, a raised call, a crash: the rows of the steps stay.
LEMMA EndStep ==
  ASSUME IInv, SkipEnds \/ RecordRun \/ RereadRun \/ CallRaises \/ MarkRunFailed
                 \/ GoDown \/ UNCHANGED vars
  PROVE  Progress' /\ Plan'
  <1> USE DEF IInv, position, process
  <1>1. /\ UNCHANGED <<rows, step, attempt, verdict, worked>>
        /\ \A s \in Steps : Done(s) <=> Done(s)'
    BY DEF SkipEnds, RecordRun, RereadRun, CallRaises, MarkRunFailed, GoDown, vars, Done
  <1>2. Cursor'
    BY <1>1 DEF Cursor, Live, Open, SkipEnds, RecordRun, RereadRun, CallRaises,
                MarkRunFailed, GoDown, vars, Failed
  <1>3. Untouched'
    BY <1>1 DEF Untouched, Live, Open, SkipEnds, RecordRun, RereadRun, CallRaises,
                MarkRunFailed, GoDown, vars
  <1>4. ChildIsWaitedFor'
    BY <1>1 DEF ChildIsWaitedFor, SkipEnds, RecordRun, RereadRun, CallRaises,
                MarkRunFailed, GoDown, vars
  <1>5. RunStatus'
    BY <1>1, StepConstants DEF RunStatus, Live, Open, SkipEnds, RecordRun, RereadRun,
                CallRaises, MarkRunFailed, GoDown, vars, TypeOK
  <1>6. OpenRows'
    BY <1>1 DEF OpenRows, RunningRow, Live, Open, Over, RunStatus, SkipEnds, RecordRun,
                RereadRun, CallRaises, MarkRunFailed, GoDown, vars
  <1>7. StepsAreSerial'
    BY <1>1 DEF StepsAreSerial, Passed, Failed
  <1>8. SuccessIsComplete'
    <2>1. CASE run' = run
      BY <1>1, <2>1 DEF SuccessIsComplete
    <2>2. CASE run' = "failed"
      BY <2>2 DEF SuccessIsComplete
    <2>3. CASE RecordRun /\ verdict = "succeeded"
      BY <1>1, <2>3 DEF RecordRun, SuccessIsComplete, Cursor, Done
    <2> QED
      BY <2>1, <2>2, <2>3 DEF SkipEnds, RecordRun, RereadRun, CallRaises,
            MarkRunFailed, GoDown, vars, TypeOK, Settled
  <1>9. RestartConverges'
    BY <1>1 DEF RestartConverges, RunStatus, RunningRow, SkipEnds, RecordRun,
                RereadRun, CallRaises, MarkRunFailed, GoDown, vars, Live
  <1> QED
    BY <1>2, <1>3, <1>4, <1>5, <1>6, <1>7, <1>8, <1>9 DEF Progress, Plan

\* update_step_result(): the attempt is closed, the cursor moves on.
LEMMA CloseAttempt ==
  ASSUME IInv, TypeOK', RecordStep
  PROVE  Progress' /\ Plan'
  <1> USE DEF IInv, position, process
  <1>1. /\ step \in Steps /\ attempt \in Attempts(step) /\ verdict \in Settled
        /\ rows[step][attempt] = "running"
        /\ at = "record" /\ run = "running" /\ ~(restarts > 0) /\ child = "none"
        /\ UNCHANGED <<run, verdict, child, payload, worked, restarts>>
    BY DEF TypeOK, Cursor, RunStatus, ChildIsWaitedFor, RecordStep, Live, Open
  <1>2. /\ rows'[step][attempt] = verdict
        /\ \A t \in Steps : \A b \in Attempts(t) :
             (t # step \/ b # attempt) => rows'[t][b] = rows[t][b]
    <2>1. verdict \in RowStatuses /\ SetRow(step, attempt, verdict)
      BY <1>1 DEF RecordStep, RowStatuses
    <2> QED
      BY <1>1, <2>1, RowWritten
  <1>3. \A s \in Steps : (Done(s) => Done(s)') /\ (Passed(s) => Passed(s)')
    <2>1. \A s \in Steps : \A a \in Attempts(s) :
            rows[s][a] \in Settled => rows'[s][a] = rows[s][a]
      BY <1>1, <1>2 DEF Settled
    <2> QED
      BY <1>1, <2>1, DoneStays
  <1>4. ASSUME NEW s \in Steps, s = step, verdict = "succeeded" PROVE Done(s)'
    BY <1>1, <1>2, <1>4 DEF ChildIsWaitedFor, Done
  <1>5. \A s \in Steps : s < step => Done(s)'
    BY <1>1, <1>3 DEF Cursor, Live, Open
  <1>6. \A s \in Steps : s > step => \A a \in Attempts(s) : rows'[s][a] = "none"
    BY <1>1, <1>2, Bounds DEF Untouched, Live, Open
  <1>7. \A a \in Attempts(step) : a > attempt => rows'[step][a] = "none"
    BY <1>1, <1>2, Bounds DEF Untouched, Live, Open
  <1>8. Cursor' /\ Untouched'
    <2>1. CASE verdict = "succeeded" /\ step < NumSteps
      <3>1. step' = step + 1 /\ step' \in Steps /\ attempt' = 1 /\ at' = "insert"
        BY <1>1, <2>1, Bounds DEF RecordStep
      <3>2. rows'[step'][1] = "none"
        BY <1>1, <1>6, <3>1, Bounds
      <3>3. \A s \in Steps : s < step' => Done(s)'
        BY <1>1, <1>4, <1>5, <2>1, <3>1, Bounds
      <3>4. Cursor'
        BY <3>1, <3>2, <3>3 DEF Cursor, Open
      <3>5. \A a \in Attempts(step') : rows'[step'][a] = "none"
        BY <1>1, <1>6, <3>1, Bounds
      <3>6. \A s \in Steps : s > step' => \A a \in Attempts(s) : rows'[s][a] = "none"
        BY <1>1, <1>6, <3>1, Bounds
      <3> QED
        BY <3>4, <3>5, <3>6 DEF Untouched
    <2>2. CASE verdict = "succeeded" /\ step = NumSteps
      <3>1. step' = step /\ attempt' = attempt /\ at' = "result"
        BY <1>1, <2>2, Bounds DEF RecordStep
      <3>2. \A s \in Steps : Done(s)'
        BY <1>1, <1>4, <1>5, <2>2, StepConstants DEF Steps
      <3>3. Cursor'
        BY <3>1, <3>2 DEF Cursor, Live, Open
      <3> QED
        BY <3>1, <3>3 DEF Untouched, Live, Open
    <2>3. CASE verdict = "failed" /\ attempt < MaxAttempts[step]
      <3>1. step' = step /\ attempt' = attempt + 1 /\ at' = "insert"
            /\ attempt + 1 \in Attempts(step) /\ attempt \in Nat
        BY <1>1, <2>3, Bounds DEF RecordStep
      <3>2. rows'[step][attempt + 1] = "none" /\ rows'[step][attempt] = "failed"
        BY <1>2, <1>7, <2>3, <3>1
      <3>3. Cursor'
        BY <1>5, <3>1, <3>2 DEF Cursor, Open
      <3>4. \A a \in Attempts(step) : a > attempt + 1 => rows'[step][a] = "none"
        BY <1>1, <1>7, <3>1, Bounds
      <3> QED
        BY <1>6, <3>1, <3>3, <3>4 DEF Untouched
    <2>4. CASE verdict = "failed" /\ attempt = MaxAttempts[step]
      <3>1. step' = step /\ attempt' = attempt /\ at' = "skip" /\ verdict' = "failed"
        BY <1>1, <2>4, Bounds DEF RecordStep
      <3>2. Failed(step)'
        BY <1>2, <2>4, <3>1 DEF Failed
      <3>3. Cursor'
        BY <3>1, <3>2 DEF Cursor, Live, Open
      <3> QED
        BY <1>6, <3>1, <3>3 DEF Untouched, Live, Open
    <2> QED
      BY <2>1, <2>2, <2>3, <2>4 DEF RecordStep
  <1>9. at' \in {"insert", "result", "skip"}
    BY DEF RecordStep
  <1>10. ChildIsWaitedFor' /\ RunStatus'
    BY <1>1, <1>9 DEF ChildIsWaitedFor, RunStatus, Live, Open
  <1>11. OpenRows'
    BY <1>1, <1>2, <1>9 DEF OpenRows, RunningRow, Open, Over, Settled
  <1>12. StepsAreSerial'
    <2>1. \A s \in Steps : Failed(s) => Failed(s)'
      BY <1>1, <1>2, Bounds DEF Failed
    <2> SUFFICES ASSUME NEW s \in Steps, NEW a \in Attempts(s)
                 PROVE  /\ rows'[s][a] # "none" /\ a > 1 => rows'[s][a - 1] = "failed"
                        /\ rows'[s][a] \notin {"none", "skipped"} /\ s > 1
                             => Passed(s - 1)'
                        /\ rows'[s][a] = "skipped" =>
                             /\ s > 1 /\ a = 1
                             /\ Failed(s - 1)' \/ rows'[s - 1][1] = "skipped"
      BY DEF StepsAreSerial
    <2>2. /\ s > 1 => s - 1 \in Steps
          /\ a > 1 => a - 1 \in Attempts(s)
      BY Bounds
    <2>3. rows'[s][a] \in Settled \/ rows'[s][a] = rows[s][a]
      BY <1>1, <1>2
    <2>4. rows[s][a] \in {"none", "skipped"} => rows'[s][a] = rows[s][a]
      BY <1>1, <1>2
    <2>5. /\ rows[s][a] # "none" /\ a > 1 => rows[s][a - 1] = "failed"
          /\ rows[s][a] \notin {"none", "skipped"} /\ s > 1 => Passed(s - 1)
          /\ rows[s][a] = "skipped" => /\ s > 1 /\ a = 1
                                       /\ Failed(s - 1) \/ rows[s - 1][1] = "skipped"
      BY DEF StepsAreSerial
    <2>6. a > 1 /\ rows[s][a - 1] = "failed" => rows'[s][a - 1] = "failed"
      BY <1>1, <1>2, <2>2
    <2>7. s > 1 /\ rows[s - 1][1] = "skipped" => rows'[s - 1][1] = "skipped"
      BY <1>1, <1>2, <2>2, Bounds
    <2> QED
      BY <1>3, <2>1, <2>2, <2>3, <2>4, <2>5, <2>6, <2>7 DEF Settled
  <1>13. SuccessIsComplete' /\ RestartConverges'
    BY <1>1, <1>9 DEF SuccessIsComplete, RestartConverges
  <1> QED
    BY <1>8, <1>10, <1>11, <1>12, <1>13 DEF Progress, Plan

\* _skip_remaining_steps(): the next step's only row is skipped.
LEMMA SkipOne ==
  ASSUME IInv, SkipStep
  PROVE  Progress' /\ Plan'
  <1> USE DEF IInv, position, process
  <1>0. /\ step \in Steps /\ step + 1 \in Steps /\ step \in Nat
    BY Bounds DEF SkipStep, TypeOK
  <1>a. PICK m \in Steps, n \in Steps : m = step /\ n = step + 1
    BY <1>0
  <1>1. /\ 1 \in Attempts(n) /\ m \in Nat /\ n > 1 /\ n - 1 = m
        /\ m = step /\ n = step + 1
        /\ at = "skip" /\ at' = "skip" /\ step' = n /\ attempt' = 1
        /\ verdict = "failed" /\ (Failed(m) \/ rows[m][1] = "skipped")
        /\ run = "running" /\ ~(restarts > 0) /\ child = "none"
        /\ UNCHANGED <<run, verdict, child, payload, worked, restarts>>
    <2>1. at = "skip" /\ at' = "skip" /\ step' = n /\ attempt' = 1
          /\ UNCHANGED <<run, verdict, child, payload, worked, restarts>>
      BY <1>a DEF SkipStep
    <2>2. /\ verdict = "failed" /\ (Failed(m) \/ rows[m][1] = "skipped")
          /\ run = "running" /\ ~(restarts > 0) /\ child = "none"
      BY <1>a, <2>1 DEF Cursor, RunStatus, ChildIsWaitedFor
    <2>3. /\ 1 \in Attempts(n) /\ m \in Nat /\ n > 1 /\ n - 1 = m
      BY <1>0, <1>a, Bounds, StepConstants DEF Steps
    <2> QED
      BY <1>a, <2>1, <2>2, <2>3
  <1>2. /\ rows'[n][1] = "skipped"
        /\ \A t \in Steps : \A b \in Attempts(t) :
             (t # n \/ b # 1) => rows'[t][b] = rows[t][b]
    <2>1. "skipped" \in RowStatuses /\ SetRow(n, 1, "skipped")
      BY <1>1 DEF SkipStep, RowStatuses
    <2> QED
      BY <1>1, <2>1, RowWritten
  <1>3. \A a \in Attempts(n) : rows[n][a] = "none"
    BY <1>0, <1>1 DEF Untouched
  <1>4. \A s \in Steps : (Done(s) => Done(s)') /\ (Passed(s) => Passed(s)')
    <2>1. \A s \in Steps : \A a \in Attempts(s) :
            rows[s][a] \in Settled => rows'[s][a] = rows[s][a]
      BY <1>2, <1>3 DEF Settled
    <2> QED
      BY <1>1, <2>1, DoneStays
  <1>5. \A s \in Steps : Failed(s) => Failed(s)'
    BY <1>2, <1>3, Bounds DEF Failed
  <1>6. Cursor'
    BY <1>1, <1>2 DEF Cursor, Live, Open
  <1>7. \A s \in Steps : s > n => s > step /\ s # n
    BY <1>1, Bounds
  <1>8. Untouched'
    <2>1. \A s \in Steps : s > n => \A a \in Attempts(s) : rows'[s][a] = "none"
      BY <1>1, <1>2, <1>7 DEF Untouched
    <2> QED
      BY <1>1, <2>1 DEF Untouched, Live, Open
  <1>9. ChildIsWaitedFor' /\ RunStatus'
    BY <1>1 DEF ChildIsWaitedFor, RunStatus, Live, Open
  <1>10. OpenRows'
    BY <1>1, <1>2 DEF OpenRows, RunningRow, Open, Over
  <1>11. StepsAreSerial'
    <2> SUFFICES ASSUME NEW s \in Steps, NEW a \in Attempts(s)
                 PROVE  /\ rows'[s][a] # "none" /\ a > 1 => rows'[s][a - 1] = "failed"
                        /\ rows'[s][a] \notin {"none", "skipped"} /\ s > 1
                             => Passed(s - 1)'
                        /\ rows'[s][a] = "skipped" =>
                             /\ s > 1 /\ a = 1
                             /\ Failed(s - 1)' \/ rows'[s - 1][1] = "skipped"
      BY DEF StepsAreSerial
    <2>1. /\ s > 1 => s - 1 \in Steps
          /\ a > 1 => a - 1 \in Attempts(s)
      BY Bounds
    <2>2. CASE s = n /\ a = 1
      <3>1. rows'[m][1] = "skipped" \/ Failed(m)'
        <4>1. m # n
          BY <1>1, Bounds
        <4>2. CASE rows[m][1] = "skipped"
          BY <1>1, <1>2, <4>1, <4>2, Bounds
        <4>3. CASE Failed(m)
          BY <1>1, <1>5, <4>3
        <4> QED
          BY <1>1, <4>2, <4>3
      <3> QED
        BY <1>1, <1>2, <2>2, <3>1
    <2>3. CASE ~(s = n /\ a = 1)
      <3>1. rows'[s][a] = rows[s][a]
        BY <1>2, <2>3
      <3>2. rows[s][a] # "none" /\ a > 1 => rows'[s][a - 1] = "failed"
        <4>1. rows[s][a] # "none" /\ a > 1 => rows[s][a - 1] = "failed"
          BY DEF StepsAreSerial
        <4> QED
          BY <1>2, <1>3, <2>1, <4>1
      <3>3. rows[s][a] \notin {"none", "skipped"} /\ s > 1 => Passed(s - 1)'
        BY <1>4, <2>1 DEF StepsAreSerial
      <3>4. rows[s][a] = "skipped" =>
              /\ s > 1 /\ a = 1
              /\ Failed(s - 1)' \/ rows'[s - 1][1] = "skipped"
        <4>1. rows[s][a] = "skipped" =>
                s > 1 /\ a = 1 /\ (Failed(s - 1) \/ rows[s - 1][1] = "skipped")
          BY DEF StepsAreSerial
        <4>2. s > 1 /\ rows[s - 1][1] = "skipped" => rows'[s - 1][1] = "skipped"
          BY <1>2, <2>1, Bounds
        <4> QED
          BY <1>5, <2>1, <4>1, <4>2
      <3> QED
        BY <3>1, <3>2, <3>3, <3>4
    <2> QED
      BY <2>2, <2>3
  <1>12. SuccessIsComplete' /\ RestartConverges'
    BY <1>1 DEF SuccessIsComplete, RestartConverges
  <1> QED
    BY <1>6, <1>8, <1>9, <1>10, <1>11, <1>12 DEF Progress, Plan

\* mark_stale_running_runs_failed(): what was running has failed.
LEMMA ReconcileStep ==
  ASSUME IInv, Reconcile
  PROVE  Progress' /\ Plan'
  <1> USE DEF IInv, position, process
  <1>1. \A t \in Steps : \A b \in Attempts(t) :
          rows'[t][b] = IF rows[t][b] = "running" THEN "failed" ELSE rows[t][b]
    BY RowsReconciled
  <1>2. /\ at = "down" /\ at' = "ended"
        /\ run' = IF run = "running" THEN "failed" ELSE run
        /\ UNCHANGED <<step, attempt, verdict, child, payload, worked, restarts>>
    BY DEF Reconcile
  <1>3. \A s \in Steps : (Done(s) => Done(s)') /\ (Passed(s) => Passed(s)')
    <2>1. \A s \in Steps : \A a \in Attempts(s) :
            rows[s][a] \in Settled => rows'[s][a] = rows[s][a]
      BY <1>1 DEF Settled
    <2> QED
      BY <1>2, <2>1, DoneStays
  <1>4. Cursor' /\ Untouched'
    BY <1>2 DEF Cursor, Untouched, Live, Open
  <1>5. ChildIsWaitedFor' /\ RunStatus'
    BY <1>2 DEF ChildIsWaitedFor, RunStatus, Live, Open
  <1>6. \A s \in Steps : \A a \in Attempts(s) : rows'[s][a] # "running"
    BY <1>1
  <1>7. OpenRows' /\ RestartConverges'
    BY <1>2, <1>6 DEF OpenRows, RestartConverges, RunningRow
  <1>8. SuccessIsComplete'
    <2>1. run' = "succeeded" => \A s \in Steps : Done(s)
      BY <1>2 DEF SuccessIsComplete, Done
    <2>2. run' = "succeeded" => \A s \in Steps : Done(s)'
      BY <1>3, <2>1
    <2> QED
      BY <2>2 DEF SuccessIsComplete, Done
  <1>9. StepsAreSerial'
    <2>1. \A s \in Steps : Failed(s) => Failed(s)'
      BY <1>1, Bounds DEF Failed
    <2>2. \A s \in Steps : s > 1 => s - 1 \in Steps
      BY Bounds
    <2>3. \A s \in Steps : \A a \in Attempts(s) : a > 1 => a - 1 \in Attempts(s)
      BY Bounds
    <2>4. \A s \in Steps : 1 \in Attempts(s)
      BY Bounds
    <2> QED
      BY <1>1, <1>3, <2>1, <2>2, <2>3, <2>4 DEF StepsAreSerial
  <1> QED
    BY <1>4, <1>5, <1>7, <1>8, <1>9 DEF Progress, Plan
-----------------------------------------------------------------------------
(* The theorems.                                                           *)

\* IInv holds in every reachable state.
THEOREM Invariance == Spec => []IInv
  <1>1. IInv /\ [Next]_vars => IInv'
    <2> SUFFICES ASSUME IInv, [Next]_vars PROVE IInv'
      OBVIOUS
    <2>1. TypeOK'
      BY TypeStep DEF IInv
    <2>2. Progress' /\ Plan'
      BY <2>1, BeginStep, ExecuteStep, EndStep, CloseAttempt, SkipOne, ReconcileStep
         DEF Next, Thread
    <2> QED
      BY <2>1, <2>2 DEF IInv, Progress, Plan
  <1> QED
    BY InitIInv, <1>1, PTL DEF Spec

\* Every variable keeps to its range, for any number of steps and attempts.
THEOREM TypeCorrect == Spec => []TypeOK
  BY Invariance, PTL DEF IInv

\* update_run_result(SUCCEEDED) is reached only over a completed attempt of every
\* step, whatever is lost, raised, timed out or restarted on the way.
THEOREM SuccessMeansWork == Spec => []SuccessIsComplete
  BY Invariance, PTL DEF IInv

\* Steps are executed in order and attempts one by one.
THEOREM ExecutionIsSerial == Spec => []StepsAreSerial
  BY Invariance, PTL DEF IInv

\* mark_stale_running_runs_failed() leaves nothing running behind.
THEOREM RestartsConverge == Spec => []RestartConverges
  BY Invariance, PTL DEF IInv

\* Without faults a finished run has no running step.
THEOREM FinishedRunsAreClean == ~Faults => (Spec => []SettledRunHasNoRunningStep)
  <1> SUFFICES ASSUME ~Faults PROVE Spec => []SettledRunHasNoRunningStep
    OBVIOUS
  <1>1. IInv => SettledRunHasNoRunningStep
    <2> SUFFICES ASSUME IInv, run \in Settled, NEW s \in Steps, NEW a \in Attempts(s),
                        RunningRow(s, a)
                 PROVE  FALSE
      BY DEF SettledRunHasNoRunningStep
    <2> QED
      BY DEF IInv, OpenRows, RunStatus, Live, Open, Settled
  <1> QED
    BY Invariance, <1>1, PTL

\* A child process never does its work after the run's result is recorded.
THEOREM NoLateWork == Spec => NoWorkAfterResult
  <1>1. IInv /\ [Next]_vars => [(run \in Settled) => worked' = worked]_vars
    <2> SUFFICES ASSUME IInv, [Next]_vars, run \in Settled PROVE worked' = worked
      OBVIOUS
    <2>1. ~ChildSucceeds
      BY DEF IInv, ChildSucceeds, ChildIsWaitedFor, RunStatus, Live, Open, Settled
    <2> QED
      BY <2>1 DEF Next, Thread, InsertStep, MarkRunning, StartChild, JoinReturns,
            JoinTimesOut, RecordStep, SkipStep, SkipEnds, RecordRun, RereadRun,
            MarkRunFailed, Reconcile, ChildFails, ExecutorRaises, CallRaises, GoDown,
            vars, process
  <1> QED
    BY Invariance, <1>1, PTL DEF Spec, NoWorkAfterResult

\* The row of an attempt moves along RowEdges only: what is recorded stays, and a
\* retry opens a row of its own behind the failed one.
THEOREM ResultsAreFinal == Spec => StepResultsAreKept
  <1> DEFINE Moves(s, a) ==
        rows'[s][a] # rows[s][a] =>
          /\ <<rows[s][a], rows'[s][a]>> \in RowEdges
          /\ a > 1 => rows[s][a - 1] = "failed" /\ rows'[s][a - 1] = "failed"
  <1>1. IInv /\ [Next]_vars =>
          [\A s \in Steps : \A a \in Attempts(s) : Moves(s, a)]_vars
    <2> SUFFICES ASSUME IInv, [Next]_vars, NEW s \in Steps, NEW a \in Attempts(s)
                 PROVE  Moves(s, a)
      OBVIOUS
    <2> USE DEF IInv
    <2>1. a \in Nat /\ (a > 1 => a - 1 \in Attempts(s) /\ a - 1 # a)
      BY Bounds
    <2>2. CASE InsertStep \/ MarkRunning \/ RecordStep
      <3>1. step \in Steps /\ attempt \in Attempts(step)
        BY DEF TypeOK
      <3>2. PICK v \in RowStatuses : /\ SetRow(step, attempt, v)
                                     /\ <<rows[step][attempt], v>> \in RowEdges
        BY <2>2 DEF InsertStep, MarkRunning, RecordStep, Cursor, Open, RowEdges,
              RowStatuses, Settled, TypeOK
      <3>3. /\ rows'[step][attempt] = v
            /\ \A t \in Steps : \A b \in Attempts(t) :
                 (t # step \/ b # attempt) => rows'[t][b] = rows[t][b]
        BY <3>1, <3>2, RowWritten
      <3>4. CASE s = step /\ a = attempt
        <4>1. at \in Live
          BY <2>2 DEF InsertStep, MarkRunning, RecordStep, Live, Open
        <4>2. a > 1 => rows[s][a - 1] = "failed"
          BY <3>4, <4>1 DEF Cursor
        <4> QED
          BY <2>1, <3>2, <3>3, <3>4, <4>2
      <3> QED
        BY <3>3, <3>4
    <2>3. CASE SkipStep
      <3>1. /\ step + 1 \in Steps /\ 1 \in Attempts(step + 1)
            /\ rows[step + 1][1] = "none"
        BY <2>3, Bounds DEF SkipStep, TypeOK, Untouched
      <3>2. "skipped" \in RowStatuses /\ SetRow(step + 1, 1, "skipped")
        BY <2>3 DEF SkipStep, RowStatuses
      <3>3. /\ rows'[step + 1][1] = "skipped"
            /\ \A t \in Steps : \A b \in Attempts(t) :
                 (t # step + 1 \/ b # 1) => rows'[t][b] = rows[t][b]
        BY <3>1, <3>2, RowWritten
      <3> QED
        BY <3>1, <3>3 DEF RowEdges
    <2>4. CASE Reconcile
      <3>1. \A b \in Attempts(s) :
              rows'[s][b] = IF rows[s][b] = "running" THEN "failed" ELSE rows[s][b]
        BY <2>4, RowsReconciled
      <3>2. a > 1 /\ rows[s][a] = "running" => rows[s][a - 1] = "failed"
        BY DEF StepsAreSerial
      <3> QED
        BY <2>1, <3>1, <3>2 DEF RowEdges
    <2>5. CASE rows' = rows
      BY <2>5
    <2> QED
      BY <2>2, <2>3, <2>4, <2>5 DEF Next, Thread, StartChild, JoinReturns,
            JoinTimesOut, SkipEnds, RecordRun, RereadRun, MarkRunFailed,
            ChildSucceeds, ChildFails, ExecutorRaises, CallRaises, GoDown, vars
  <1> QED
    BY Invariance, <1>1, PTL DEF Spec, StepResultsAreKept

-------------------------------------------------------------------------------
(* Schedule triggers.                                                      *)
(* Definitions.                                                            *)

\* The schedules whose slots the database must remember.
Crons == {s \in Schedules \ Intervals : WorkflowOf[s] \in Coalesce}

OnGrid(s, t) == t = (t \div Period[s]) * Period[s]

MainSync == sync[Main]
InLoop == MainSync.pc \in {"visit", "check", "insert", "stamp", "add"}

\* Inside the loop over the triggers there is a trigger at its head.
AtTrigger ==
  \A t \in Syncers :
    sync[t].pc \in {"check", "insert", "stamp", "add", "clear"} => sync[t].todo # <<>>

\* Without API threads and CLI processes: everything is enabled, the main thread
\* syncs while the service is starting, triggers fire only once it is up.
Phases ==
  /\ \A w \in Workflows : enabled[w]
  /\ service = "starting" <=> MainSync.pc # "idle"
  /\ MainSync.pc # "clear" /\ MainSync.now <= clock
  /\ \A s \in Schedules :
       /\ MainSync.doomed[s] = Never
       /\ firing[s].pc # "clear"
       /\ firing[s].pc # "idle" => service = "up"
       /\ service = "down" \/ MainSync.pc = "remove" => job[s] = Never

\* A job is never before its record; a firing is over before the next one.
JobFollowsRecord(s) ==
  /\ job[s] # Never => nextAt[s] # Never /\ nextAt[s] <= job[s]
  /\ firing[s].pc # "idle" => job[s] # Never /\ clock < job[s]
  /\ firing[s].pc = "stamp" => firing[s].next = job[s]
  /\ InLoop /\ job[s] # Never => FirstSlot(s, MainSync.now) <= job[s]
  /\ MainSync.pc = "add" /\ s = Head(MainSync.todo) => nextAt[s] = FirstSlot(s, MainSync.now)

\* Of a cron schedule nothing lies further ahead than the next slot, and the
\* record is never behind what is owed.
RecordCoversDebt(s) ==
  /\ job[s] # Never => OnGrid(s, job[s]) /\ job[s] <= FirstSlot(s, clock)
  /\ nextAt[s] # Never => nextAt[s] <= FirstSlot(s, clock)
  /\ due[s] # Never => OnGrid(s, due[s]) /\ nextAt[s] # Never /\ nextAt[s] <= due[s]
  /\ firing[s].pc \in {"ask", "stamp"} /\ due[s] # Never => job[s] <= due[s]
  /\ InLoop /\ ~IsPast(MainSync.seen[s], MainSync.now) /\ due[s] # Never
       => FirstSlot(s, MainSync.now) <= due[s]
  /\ MainSync.pc = "stamp" /\ s = Head(MainSync.todo) /\ due[s] # Never
       => FirstSlot(s, MainSync.now) <= due[s]

TInv == TriggerTypeOK /\ AtTrigger

TriggerInv ==
  /\ TInv /\ Phases
  /\ \A s \in Schedules : JobFollowsRecord(s)
  /\ \A s \in Crons : RecordCoversDebt(s)
-----------------------------------------------------------------------------
(* Arithmetic of slots.                                                    *)

LEMMA PeriodIsPositive ==
  ASSUME NEW s \in Schedules
  PROVE  Period[s] \in Nat \ {0}
BY ScheduleConstants

LEMMA Division ==
  ASSUME NEW t \in Nat, NEW p \in Nat \ {0}
  PROVE  /\ t \div p \in Nat
         /\ (t \div p) * p <= t /\ t < (t \div p + 1) * p
OBVIOUS

LEMMA FirstSlotIsLater ==
  ASSUME NEW s \in Schedules, NEW t \in Nat
  PROVE  FirstSlot(s, t) \in Nat /\ t < FirstSlot(s, t)
<1> DEFINE p == Period[s]
           j == t \div p
<1>1. p \in Nat \ {0}
  BY PeriodIsPositive
<1>2. j \in Nat /\ t < (j + 1) * p
  BY <1>1, Division
<1>3. FirstSlot(s, t) = IF s \in Intervals THEN t + p ELSE (j + 1) * p
  BY DEF FirstSlot
<1> HIDE DEF j, p
<1>4. (j + 1) * p \in Nat
  BY <1>1, <1>2
<1> QED
  BY <1>1, <1>2, <1>3, <1>4

LEMMA FirstSlotIsOnGrid ==
  ASSUME NEW s \in Schedules \ Intervals, NEW t \in Nat
  PROVE  OnGrid(s, FirstSlot(s, t))
<1> DEFINE p == Period[s]
           k == t \div p + 1
<1>1. p \in Nat \ {0} /\ k \in Nat
  BY PeriodIsPositive, Division
<1>2. FirstSlot(s, t) = k * p
  BY DEF FirstSlot
<1> HIDE DEF k, p
<1>3. (k * p) \div p = k
  BY <1>1
<1> QED
  BY <1>2, <1>3 DEF OnGrid, p

\* The first slot after t is the least point of the grid after t.
LEMMA FirstSlotIsNext ==
  ASSUME NEW s \in Schedules \ Intervals, NEW t \in Nat, NEW u \in Nat,
         OnGrid(s, u), t < u
  PROVE  FirstSlot(s, t) <= u
<1> DEFINE p == Period[s]
           j == t \div p
           k == u \div p
<1>1. p \in Nat \ {0} /\ j \in Nat /\ k \in Nat /\ j * p <= t
  BY PeriodIsPositive, Division
<1>2. u = k * p /\ FirstSlot(s, t) = (j + 1) * p
  BY DEF OnGrid, FirstSlot
<1> HIDE DEF j, k, p
<1>3. j < k
  BY <1>1, <1>2
<1>4. (j + 1) * p <= k * p
  BY <1>1, <1>3
<1> QED
  BY <1>2, <1>4

LEMMA FirstSlotIsMonotone ==
  ASSUME NEW s \in Schedules \ Intervals, NEW t \in Nat, NEW u \in Nat, t <= u
  PROVE  FirstSlot(s, t) <= FirstSlot(s, u)
BY FirstSlotIsNext, FirstSlotIsOnGrid, FirstSlotIsLater

LEMMA SlotAfterIsLater ==
  ASSUME NEW s \in Schedules, NEW slot \in Nat, NEW t \in Nat
  PROVE  /\ SlotAfter(s, slot, t) \in Nat
         /\ t < SlotAfter(s, slot, t) /\ slot <= SlotAfter(s, slot, t)
<1> DEFINE p == Period[s]
           d == t - slot
           k == d \div p
<1>1. p \in Nat \ {0}
  BY ScheduleConstants
<1>2. CASE slot > t
  BY <1>2 DEF SlotAfter
<1>3. CASE ~(slot > t)
  <2>1. d \in Nat
    BY <1>3
  <2>2. k \in Nat /\ d < (k + 1) * p
    BY <1>1, <2>1, Division
  <2>3. SlotAfter(s, slot, t) = slot + (k + 1) * p
    BY <1>3 DEF SlotAfter
  <2> HIDE DEF k, p
  <2>4. (k + 1) * p \in Nat
    BY <1>1, <2>2
  <2> QED
    BY <2>2, <2>3, <2>4
<1> QED
  BY <1>2, <1>3

LEMMA SlotAfterKeepsGrid ==
  ASSUME NEW s \in Schedules \ Intervals, NEW slot \in Nat, NEW t \in Nat,
         OnGrid(s, slot)
  PROVE  /\ OnGrid(s, SlotAfter(s, slot, t))
         /\ slot <= FirstSlot(s, t) => SlotAfter(s, slot, t) <= FirstSlot(s, t)
<1> DEFINE p == Period[s]
           i == slot \div p
           d == t - slot
           k == d \div p
<1>1. p \in Nat \ {0}
  BY ScheduleConstants
<1>2. CASE slot > t
  BY <1>2 DEF SlotAfter
<1>3. CASE ~(slot > t)
  <2>1. d \in Nat /\ i \in Nat /\ slot = i * p
    BY <1>1, <1>3 DEF OnGrid
  <2>2. k \in Nat /\ k * p <= d
    BY <1>1, <2>1, Division
  <2>3. SlotAfter(s, slot, t) = slot + (k + 1) * p
    BY <1>3 DEF SlotAfter
  <2>4. t = slot + d
    BY <1>3
  <2> DEFINE j == t \div p
  <2>5. j \in Nat /\ t < (j + 1) * p
    BY <1>1, Division
  <2>6. FirstSlot(s, t) = (j + 1) * p
    BY DEF FirstSlot
  <2> HIDE DEF i, j, k, d, p
  <2>7. slot + (k + 1) * p = (i + k + 1) * p
    BY <1>1, <2>1, <2>2
  <2>8. ((i + k + 1) * p) \div p = i + k + 1
    BY <1>1, <2>1, <2>2
  <2>9. (i + k) * p < (j + 1) * p
    BY <1>1, <2>1, <2>2, <2>4, <2>5
  <2>10. i + k < j + 1
    BY <1>1, <2>1, <2>2, <2>5, <2>9
  <2>11. (i + k + 1) * p <= (j + 1) * p
    BY <1>1, <2>1, <2>2, <2>5, <2>10
  <2> QED
    BY <2>3, <2>6, <2>7, <2>8, <2>11 DEF OnGrid, p
<1> QED
  BY <1>2, <1>3
-----------------------------------------------------------------------------
(* Type correctness.                                                       *)

\* One call of _enqueue_schedule_run().
FiringRec ==
  [pc : {"idle", "read", "insert", "ask", "stamp", "clear"}, next : Times]

\* One call of sync_jobs().
SyncRec ==
  [pc : {"idle", "remove", "visit", "check", "insert", "stamp", "add", "clear"},
   doomed : [Schedules -> Times], todo : Seq(Schedules),
   seen : [Schedules -> Times], now : Nat]

LEMMA ClockIsNat == TriggerTypeOK => clock \in Nat
BY ScheduleConstants DEF TriggerTypeOK

LEMMA SyncTyped == TriggerTypeOK => sync \in [Syncers -> SyncRec]
BY DEF TriggerTypeOK, SyncRec

LEMMA FiringTyped == TriggerTypeOK => firing \in [Schedules -> FiringRec]
BY DEF TriggerTypeOK, FiringRec

\* Assigning fields of one call keeps the table typed.
LEMMA PcTyped ==
  ASSUME NEW f \in [Syncers -> SyncRec], NEW t \in Syncers,
         NEW pc \in {"idle", "remove", "visit", "check", "insert", "stamp", "add", "clear"}
  PROVE  [f EXCEPT ![t].pc = pc] \in [Syncers -> SyncRec]
<1>1. f[t] \in SyncRec
  OBVIOUS
<1>2. [f[t] EXCEPT !.pc = pc] \in SyncRec
  BY <1>1 DEF SyncRec
<1> QED
  BY <1>1, <1>2

LEMMA DoomedTyped ==
  ASSUME NEW f \in [Syncers -> SyncRec], NEW t \in Syncers,
         NEW d \in [Schedules -> Times]
  PROVE  [f EXCEPT ![t].doomed = d] \in [Syncers -> SyncRec]
<1>1. f[t] \in SyncRec
  OBVIOUS
<1>2. [f[t] EXCEPT !.doomed = d] \in SyncRec
  BY <1>1 DEF SyncRec
<1> QED
  BY <1>1, <1>2

LEMMA PcDoomedTyped ==
  ASSUME NEW f \in [Syncers -> SyncRec], NEW t \in Syncers,
         NEW pc \in {"idle", "remove", "visit", "check", "insert", "stamp", "add", "clear"},
         NEW d \in [Schedules -> Times]
  PROVE  [f EXCEPT ![t].pc = pc, ![t].doomed = d] \in [Syncers -> SyncRec]
<1>1. f[t] \in SyncRec
  OBVIOUS
<1>2. [f[t] EXCEPT !.pc = pc, !.doomed = d] \in SyncRec
  BY <1>1 DEF SyncRec
<1> QED
  BY <1>1, <1>2

LEMMA PcTodoTyped ==
  ASSUME NEW f \in [Syncers -> SyncRec], NEW t \in Syncers,
         NEW pc \in {"idle", "remove", "visit", "check", "insert", "stamp", "add", "clear"},
         NEW todo \in Seq(Schedules)
  PROVE  [f EXCEPT ![t].pc = pc, ![t].todo = todo] \in [Syncers -> SyncRec]
<1>1. f[t] \in SyncRec
  OBVIOUS
<1>2. [f[t] EXCEPT !.pc = pc, !.todo = todo] \in SyncRec
  BY <1>1 DEF SyncRec
<1> QED
  BY <1>1, <1>2

LEMMA NoSyncTyped == NoSync \in SyncRec
BY DEF NoSync, SyncRec, Times

LEMMA PaidTyped ==
  ASSUME TriggerTypeOK, NEW s \in Schedules, Pay(s)
  PROVE  due' \in [Schedules -> Times]
BY FirstSlotIsLater DEF Pay, TriggerTypeOK, Times

LEMMA BeginSyncTyped ==
  ASSUME TriggerTypeOK, NEW t \in Syncers, BeginSync(t)
  PROVE  sync' \in [Syncers -> SyncRec]
<1> DEFINE d == IF t \in Clis THEN NoSync.doomed ELSE job
<1>1. d \in [Schedules -> Times]
  BY DEF NoSync, Times, TriggerTypeOK
<1>2. sync' = [sync EXCEPT ![t].pc = "remove", ![t].doomed = d]
  BY DEF BeginSync
<1> HIDE DEF d
<1> QED
  BY <1>1, <1>2, SyncTyped, PcDoomedTyped

LEMMA TypeInit == TriggerInit => TriggerTypeOK /\ AtTrigger
<1> SUFFICES ASSUME TriggerInit PROVE TriggerTypeOK /\ AtTrigger
  OBVIOUS
<1>1. sync \in [Syncers -> SyncRec]
  BY NoSyncTyped DEF TriggerInit
<1>2. TriggerTypeOK
  <2>1. clock \in 0 .. MaxClock /\ stops \in 0 .. MaxStops
    BY ScheduleConstants DEF TriggerInit
  <2>2. enabled \in [Workflows -> BOOLEAN] /\ aborted \in BOOLEAN
    BY DEF TriggerInit
  <2>3. /\ nextAt \in [Schedules -> Times] /\ job \in [Schedules -> Times]
        /\ due \in [Schedules -> Times] /\ service \in {"down", "starting", "up"}
    BY DEF TriggerInit, Times
  <2>4. firing \in [Schedules -> [pc : {"idle", "read", "insert", "ask", "stamp",
                                      "clear"}, next : Times]]
    BY DEF TriggerInit, NoFiring, Times
  <2> QED
    BY <1>1, <2>1, <2>2, <2>3, <2>4 DEF TriggerTypeOK, SyncRec
<1>3. AtTrigger
  BY DEF TriggerInit, AtTrigger, NoSync
<1> QED
  BY <1>2, <1>3

LEMMA TriggerTypeStep == TriggerTypeOK /\ AtTrigger /\ [TriggerNext]_triggerVars => TriggerTypeOK'
<1> SUFFICES ASSUME TriggerTypeOK, AtTrigger, [TriggerNext]_triggerVars
             PROVE  TriggerTypeOK'
  OBVIOUS
<1>1. ASSUME NEW s \in Schedules, Fire(s) \/ Misfire(s) PROVE TriggerTypeOK'
  <2>1. job[s] \in Nat /\ clock \in Nat
    BY <1>1, ScheduleConstants DEF Fire, Misfire, IsPast, TriggerTypeOK, Times
  <2>2. SlotAfter(s, job[s], clock) \in Times
    BY <2>1, SlotAfterIsLater DEF Times
  <2>3. job' \in [Schedules -> Times]
    BY <1>1, <2>2 DEF Fire, Misfire, TriggerTypeOK
  <2>4. firing' \in [Schedules -> FiringRec]
    <3>1. [firing[s] EXCEPT !.pc = "read"] \in FiringRec
      BY FiringTyped DEF FiringRec
    <3>2. firing' = firing \/ firing' = [firing EXCEPT ![s].pc = "read"]
      BY <1>1 DEF Fire, Misfire
    <3> QED
      BY <3>1, <3>2, FiringTyped
  <2>5. UNCHANGED <<clock, enabled, nextAt, sync, serviceVars, due>>
    BY <1>1 DEF Fire, Misfire
  <2> QED
    BY <2>3, <2>4, <2>5 DEF TriggerTypeOK, FiringRec, serviceVars
<1>2. ASSUME NEW s \in Schedules, FireRead(s) PROVE TriggerTypeOK'
  <2>1. PICK pc \in {"insert", "clear"} : firing' = [firing EXCEPT ![s].pc = pc]
    BY <1>2 DEF FireRead
  <2>2. [firing[s] EXCEPT !.pc = pc] \in FiringRec
    BY FiringTyped DEF FiringRec
  <2>3. firing' \in [Schedules -> FiringRec]
    BY <2>1, <2>2, FiringTyped
  <2> QED
    BY <1>2, <2>3 DEF FireRead, TriggerTypeOK, FiringRec, serviceVars
<1>3. ASSUME NEW s \in Schedules, FireInsert(s) PROVE TriggerTypeOK'
  BY <1>3, PaidTyped DEF FireInsert, TriggerTypeOK, serviceVars
<1>4. ASSUME NEW s \in Schedules, FireAsk(s) PROVE TriggerTypeOK'
  BY <1>4 DEF FireAsk, TriggerTypeOK, serviceVars
<1>5. ASSUME NEW s \in Schedules, FireStamp(s) PROVE TriggerTypeOK'
  BY <1>5 DEF FireStamp, NoFiring, Times, TriggerTypeOK, serviceVars
<1>6. ASSUME NEW t \in Syncers, RemoveJob(t) PROVE TriggerTypeOK'
  <2>1. PICK s \in Schedules : /\ job' = [job EXCEPT ![s] = Never]
                               /\ sync' = [sync EXCEPT ![t].doomed[s] = Never]
                               /\ UNCHANGED <<clock, enabled, nextAt, firing, serviceVars, due>>
    BY <1>6 DEF RemoveJob
  <2> DEFINE d == [sync[t].doomed EXCEPT ![s] = Never]
  <2>2. d \in [Schedules -> Times] /\ sync' = [sync EXCEPT ![t].doomed = d]
    BY <2>1 DEF TriggerTypeOK, Times
  <2> HIDE DEF d
  <2>3. sync' \in [Syncers -> SyncRec]
    BY <2>2, SyncTyped, DoomedTyped
  <2>4. job' \in [Schedules -> Times]
    BY <2>1 DEF TriggerTypeOK, Times
  <2> QED
    BY <2>1, <2>3, <2>4 DEF TriggerTypeOK, SyncRec, serviceVars
<1>7. ASSUME NEW t \in Syncers, AbortSync(t) PROVE TriggerTypeOK'
  <2>1. sync' \in [Syncers -> SyncRec]
    BY <1>7, NoSyncTyped DEF AbortSync, TriggerTypeOK, SyncRec
  <2>2. job' \in [Schedules -> Times] /\ service' \in {"down", "starting", "up"}
    BY <1>7 DEF AbortSync, Times, TriggerTypeOK
  <2> QED
    BY <1>7, <2>1, <2>2 DEF AbortSync, TriggerTypeOK, SyncRec
<1>8. ASSUME NEW t \in Syncers, ReadStates(t) PROVE TriggerTypeOK'
  <2>1. clock \in Nat /\ Order \in Seq(Schedules)
    BY ClockIsNat, ScheduleConstants
  <2>2. nextAt \in [Schedules -> Times]
    BY DEF TriggerTypeOK
  <2>3. sync' = [sync EXCEPT ![t].pc = "visit", ![t].todo = Order,
                             ![t].seen = nextAt, ![t].now = clock]
    BY <1>8 DEF ReadStates
  <2> DEFINE r == [sync[t] EXCEPT !.pc = "visit", !.todo = Order,
                                   !.seen = nextAt, !.now = clock]
  <2>4. sync[t] \in SyncRec
    BY DEF TriggerTypeOK, SyncRec
  <2>5. r \in SyncRec
    BY <2>1, <2>2, <2>4 DEF SyncRec
  <2>6. sync' = [sync EXCEPT ![t] = r]
    BY <2>3, <2>4 DEF SyncRec, TriggerTypeOK
  <2> HIDE DEF r
  <2>7. sync' \in [Syncers -> SyncRec]
    BY <2>5, <2>6 DEF TriggerTypeOK, SyncRec
  <2> QED
    BY <1>8, <2>7 DEF ReadStates, TriggerTypeOK, SyncRec, serviceVars
<1>9. ASSUME NEW t \in Syncers, Visit(t) PROVE TriggerTypeOK'
  <2>1. PICK pc \in {"clear", "check", "stamp"} : sync' = [sync EXCEPT ![t].pc = pc]
    BY <1>9 DEF Visit
  <2>2. sync' \in [Syncers -> SyncRec]
    BY <2>1, SyncTyped, PcTyped
  <2> QED
    BY <1>9, <2>2 DEF Visit, TriggerTypeOK, SyncRec, serviceVars
<1>10. ASSUME NEW t \in Syncers, ClearState(t) PROVE TriggerTypeOK'
  <2>1. Tail(sync[t].todo) \in Seq(Schedules) /\ Head(sync[t].todo) \in Schedules
    BY <1>10 DEF ClearState, TriggerTypeOK, AtTrigger
  <2>2. sync' \in [Syncers -> SyncRec]
    BY <1>10, <2>1, SyncTyped, PcTodoTyped DEF ClearState, TriggerTypeOK
  <2> QED
    BY <1>10, <2>1, <2>2 DEF ClearState, TriggerTypeOK, SyncRec, Times, serviceVars
<1>11. ASSUME NEW t \in Syncers, CheckEnabled(t) PROVE TriggerTypeOK'
  <2>1. sync' \in [Syncers -> SyncRec]
    BY <1>11, SyncTyped, PcTyped DEF CheckEnabled
  <2> QED
    BY <1>11, <2>1 DEF CheckEnabled, TriggerTypeOK, SyncRec, serviceVars
<1>12. ASSUME NEW t \in Syncers, ReconcileRun(t) PROVE TriggerTypeOK'
  <2>1. Head(sync[t].todo) \in Schedules
    BY <1>12 DEF ReconcileRun, TriggerTypeOK, AtTrigger
  <2>2. due' \in [Schedules -> Times]
    BY <1>12, <2>1, PaidTyped DEF ReconcileRun
  <2>3. sync' \in [Syncers -> SyncRec]
    BY <1>12, SyncTyped, PcTyped DEF ReconcileRun, TriggerTypeOK
  <2> QED
    BY <1>12, <2>2, <2>3 DEF ReconcileRun, TriggerTypeOK, SyncRec, serviceVars
<1>13. ASSUME NEW t \in Syncers, StampState(t) PROVE TriggerTypeOK'
  <2> DEFINE s == Head(sync[t].todo)
             slot == FirstSlot(s, sync[t].now)
  <2>1. s \in Schedules /\ sync[t].now \in Nat
    BY <1>13 DEF StampState, TriggerTypeOK, AtTrigger
  <2>2. slot \in Times
    BY <2>1, FirstSlotIsLater DEF Times
  <2>3. /\ nextAt' = [nextAt EXCEPT ![s] = slot]
        /\ due' = [due EXCEPT ![s] = IF due[s] = Never THEN slot ELSE due[s]]
    BY <1>13 DEF StampState
  <2> HIDE DEF s, slot
  <2>4. nextAt' \in [Schedules -> Times] /\ due' \in [Schedules -> Times]
    BY <2>1, <2>2, <2>3 DEF TriggerTypeOK
  <2>5. sync' \in [Syncers -> SyncRec]
    BY <1>13, SyncTyped, PcTyped DEF StampState, TriggerTypeOK
  <2> QED
    BY <1>13, <2>4, <2>5 DEF StampState, TriggerTypeOK, SyncRec, serviceVars
<1>14. ASSUME NEW t \in Syncers, AddJob(t) PROVE TriggerTypeOK'
  <2> DEFINE s == Head(sync[t].todo)
             slot == SlotAfter(s, FirstSlot(s, sync[t].now), clock)
  <2>1. s \in Schedules /\ sync[t].now \in Nat /\ Tail(sync[t].todo) \in Seq(Schedules)
    BY <1>14 DEF AddJob, TriggerTypeOK, AtTrigger
  <2>2. slot \in Times
    BY <2>1, FirstSlotIsLater, SlotAfterIsLater, ClockIsNat DEF Times
  <2>3. job' = IF t \in Clis THEN job ELSE [job EXCEPT ![s] = slot]
    BY <1>14 DEF AddJob
  <2> HIDE DEF s, slot
  <2>4. job' \in [Schedules -> Times]
    BY <2>1, <2>2, <2>3 DEF TriggerTypeOK
  <2>5. sync' \in [Syncers -> SyncRec]
    BY <1>14, <2>1, SyncTyped, PcTodoTyped DEF AddJob, TriggerTypeOK
  <2> QED
    BY <1>14, <2>4, <2>5 DEF AddJob, TriggerTypeOK, SyncRec, serviceVars
<1>15. ASSUME NEW t \in Syncers, EndSync(t) PROVE TriggerTypeOK'
  <2>1. sync' \in [Syncers -> SyncRec]
    BY <1>15, NoSyncTyped DEF EndSync, TriggerTypeOK, SyncRec
  <2>2. ASSUME NEW s \in Schedules, job[s] # Never
        PROVE  SlotAfter(s, job[s], clock) \in Times
    <3>1. job[s] \in Nat
      BY <2>2 DEF TriggerTypeOK, Times
    <3> QED
      BY <3>1, ClockIsNat, SlotAfterIsLater DEF Times
  <2>3. job' \in [Schedules -> Times] /\ service' \in {"down", "starting", "up"}
    BY <1>15, <2>2 DEF EndSync, Times, TriggerTypeOK
  <2> QED
    BY <1>15, <2>1, <2>3 DEF EndSync, TriggerTypeOK, SyncRec
<1>16. ASSUME NEW t \in Syncers, NEW w \in Workflows, NEW b \in BOOLEAN, SetEnabled(t, w, b)
       PROVE  TriggerTypeOK'
  <2>1. sync' \in [Syncers -> SyncRec]
    BY <1>16, BeginSyncTyped DEF SetEnabled
  <2>2. due' \in [Schedules -> Times] /\ enabled' \in [Workflows -> BOOLEAN]
    BY <1>16 DEF SetEnabled, TriggerTypeOK, Times
  <2> QED
    BY <1>16, <2>1, <2>2 DEF SetEnabled, TriggerTypeOK, SyncRec, serviceVars
<1>17. CASE Start
  <2>1. sync' \in [Syncers -> SyncRec]
    BY <1>17, BeginSyncTyped DEF Start, Syncers
  <2> QED
    BY <1>17, <2>1 DEF Start, TriggerTypeOK, SyncRec
<1>18. CASE ServiceDown
  <2>1. sync' \in [Syncers -> SyncRec]
    BY <1>18, NoSyncTyped DEF ServiceDown, TriggerTypeOK, SyncRec
  <2>2. stops' \in 0 .. MaxStops
    BY <1>18, ScheduleConstants DEF ServiceDown, TriggerTypeOK
  <2> QED
    BY <1>18, <2>1, <2>2 DEF ServiceDown, NoFiring, Times, TriggerTypeOK, SyncRec
<1>19. CASE Tick
  BY <1>19, ScheduleConstants DEF Tick, TriggerTypeOK, serviceVars
<1>20. CASE UNCHANGED triggerVars
  BY <1>20 DEF triggerVars, TriggerTypeOK, serviceVars
<1> QED
  BY <1>1, <1>2, <1>3, <1>4, <1>5, <1>6, <1>7, <1>8, <1>9, <1>10, <1>11, <1>12,
     <1>13, <1>14, <1>15, <1>16, <1>17, <1>18, <1>19, <1>20
  DEF TriggerNext

LEMMA AtTriggerStep == TriggerTypeOK /\ AtTrigger /\ [TriggerNext]_triggerVars => AtTrigger'
<1> SUFFICES ASSUME TriggerTypeOK, AtTrigger, [TriggerNext]_triggerVars
             PROVE  AtTrigger'
  OBVIOUS
<1>1. ASSUME NEW s \in Schedules, Fire(s) PROVE AtTrigger'
  BY <1>1 DEF Fire, TriggerTypeOK, AtTrigger, serviceVars
<1>2. ASSUME NEW s \in Schedules, Misfire(s) PROVE AtTrigger'
  BY <1>2 DEF Misfire, TriggerTypeOK, AtTrigger, serviceVars
<1>3. ASSUME NEW s \in Schedules, FireRead(s) PROVE AtTrigger'
  BY <1>3 DEF FireRead, TriggerTypeOK, AtTrigger, serviceVars
<1>4. ASSUME NEW s \in Schedules, FireInsert(s) PROVE AtTrigger'
  BY <1>4 DEF FireInsert, TriggerTypeOK, AtTrigger, serviceVars
<1>5. ASSUME NEW s \in Schedules, FireAsk(s) PROVE AtTrigger'
  BY <1>5 DEF FireAsk, TriggerTypeOK, AtTrigger, serviceVars
<1>6. ASSUME NEW s \in Schedules, FireStamp(s) PROVE AtTrigger'
  BY <1>6 DEF FireStamp, TriggerTypeOK, AtTrigger, serviceVars
<1>7. ASSUME NEW t \in Syncers, RemoveJob(t) PROVE AtTrigger'
  BY <1>7 DEF RemoveJob, TriggerTypeOK, AtTrigger, serviceVars
<1>8. ASSUME NEW t \in Syncers, AbortSync(t) PROVE AtTrigger'
  BY <1>8 DEF AbortSync, NoSync, TriggerTypeOK, AtTrigger, serviceVars
<1>9. ASSUME NEW t \in Syncers, ReadStates(t) PROVE AtTrigger'
  BY <1>9 DEF ReadStates, TriggerTypeOK, AtTrigger, serviceVars
<1>10. ASSUME NEW t \in Syncers, Visit(t) PROVE AtTrigger'
  BY <1>10 DEF Visit, TriggerTypeOK, AtTrigger, serviceVars
<1>11. ASSUME NEW t \in Syncers, ClearState(t) PROVE AtTrigger'
  BY <1>11 DEF ClearState, TriggerTypeOK, AtTrigger, serviceVars
<1>12. ASSUME NEW t \in Syncers, CheckEnabled(t) PROVE AtTrigger'
  BY <1>12 DEF CheckEnabled, TriggerTypeOK, AtTrigger, serviceVars
<1>13. ASSUME NEW t \in Syncers, ReconcileRun(t) PROVE AtTrigger'
  BY <1>13 DEF ReconcileRun, TriggerTypeOK, AtTrigger, serviceVars
<1>14. ASSUME NEW t \in Syncers, StampState(t) PROVE AtTrigger'
  BY <1>14 DEF StampState, TriggerTypeOK, AtTrigger, serviceVars
<1>15. ASSUME NEW t \in Syncers, AddJob(t) PROVE AtTrigger'
  BY <1>15 DEF AddJob, TriggerTypeOK, AtTrigger, serviceVars
<1>16. ASSUME NEW t \in Syncers, EndSync(t) PROVE AtTrigger'
  BY <1>16 DEF EndSync, NoSync, TriggerTypeOK, AtTrigger, serviceVars
<1>17. ASSUME NEW t \in Syncers, NEW w \in Workflows, NEW b \in BOOLEAN, SetEnabled(t, w, b)
      PROVE  AtTrigger'
  BY <1>17 DEF SetEnabled, BeginSync, NoSync, TriggerTypeOK, AtTrigger, serviceVars
<1>18. CASE Start
  BY <1>18 DEF Start, BeginSync, NoSync, TriggerTypeOK, AtTrigger, serviceVars
<1>19. CASE ServiceDown
  BY <1>19 DEF ServiceDown, NoSync, TriggerTypeOK, AtTrigger, serviceVars
<1>20. CASE Tick
  BY <1>20 DEF Tick, TriggerTypeOK, AtTrigger, serviceVars
<1>21. CASE UNCHANGED triggerVars
  BY <1>21 DEF triggerVars, TriggerTypeOK, AtTrigger, serviceVars
<1> QED
  BY <1>1, <1>2, <1>3, <1>4, <1>5, <1>6, <1>7, <1>8, <1>9, <1>10, <1>11, <1>12, <1>13, <1>14, <1>15, <1>16, <1>17, <1>18, <1>19, <1>20, <1>21
  DEF TriggerNext

LEMMA AlwaysTyped == TriggerSpec => [](TriggerTypeOK /\ AtTrigger)
BY TypeInit, TriggerTypeStep, AtTriggerStep, PTL DEF TriggerSpec

\* Every reachable state is well typed, whoever calls sync_jobs().
THEOREM TriggerTypeCorrect == TriggerSpec => []TriggerTypeOK
BY AlwaysTyped, PTL
-----------------------------------------------------------------------------
(* A service whose workflows nobody enables or disables.                   *)

\* No API thread and no CLI process: the main thread is the only caller of
\* sync_jobs().
Alone == Apis = {} /\ Clis = {}

\* What is left of Next: no job is removed and no call of sync_jobs() aborts.
LEMMA AloneNext ==
  ASSUME Alone, TriggerTypeOK, AtTrigger, Phases, [TriggerNext]_triggerVars
  PROVE  \/ \E s \in Schedules : \/ Fire(s) \/ Misfire(s) \/ FireRead(s)
                                 \/ FireInsert(s) \/ FireAsk(s) \/ FireStamp(s)
         \/ ReadStates(Main) \/ Visit(Main) \/ CheckEnabled(Main) \/ ReconcileRun(Main)
         \/ StampState(Main) \/ AddJob(Main) \/ EndSync(Main)
         \/ Start \/ ServiceDown \/ Tick \/ UNCHANGED triggerVars
<1>1. Syncers = {Main}
  BY DEF Alone, Syncers
<1>2. ~RemoveJob(Main)
  BY DEF RemoveJob, NextDoomed, Doomed, Phases, MainSync
<1>3. ~AbortSync(Main)
  <2>1. sync[Main].pc = "check" => IsEnabled(Head(sync[Main].todo))
    <3>1. sync[Main].pc = "check" => Head(sync[Main].todo) \in Schedules
      BY <1>1 DEF TriggerTypeOK, AtTrigger
    <3> QED
      BY <3>1, ScheduleConstants DEF Phases, IsEnabled
  <2> QED
    BY <2>1 DEF AbortSync, NextDoomed, Doomed, Phases, MainSync
<1>4. ~ClearState(Main)
  BY DEF ClearState, Phases, MainSync
<1>5. \A w \in Workflows, b \in BOOLEAN : ~SetEnabled(Main, w, b)
  BY DEF SetEnabled
<1> QED
  BY <1>1, <1>2, <1>3, <1>4, <1>5 DEF TriggerNext

LEMMA PhasesInit == TriggerInit => Phases
BY DEF TriggerInit, Phases, MainSync, NoSync, NoFiring, Syncers

LEMMA PhasesStep ==
  ASSUME Alone, TriggerTypeOK, AtTrigger, Phases, [TriggerNext]_triggerVars
  PROVE  Phases'
<1> USE DEF Alone, Syncers
<1>1. ASSUME NEW s \in Schedules, Fire(s) \/ Misfire(s) PROVE Phases'
  BY <1>1 DEF Fire, Misfire, Phases, MainSync, TriggerTypeOK, serviceVars
<1>2. ASSUME NEW s \in Schedules, FireRead(s) PROVE Phases'
  <2>1. IsEnabled(s)
    BY ScheduleConstants DEF Phases, IsEnabled
  <2> QED
    BY <1>2, <2>1 DEF FireRead, Phases, MainSync, TriggerTypeOK, serviceVars
<1>3. ASSUME NEW s \in Schedules, FireInsert(s) \/ FireAsk(s) \/ FireStamp(s) PROVE Phases'
  <2>1. /\ UNCHANGED <<clock, enabled, job, sync, service>>
        /\ \E r \in {[firing[s] EXCEPT !.pc = "ask"], [pc |-> "stamp", next |-> job[s]], NoFiring} :
             firing' = [firing EXCEPT ![s] = r]
        /\ firing[s].pc # "idle"
    BY <1>3 DEF FireInsert, FireAsk, FireStamp, TriggerTypeOK, serviceVars
  <2> QED
    BY <2>1 DEF NoFiring, Phases, MainSync, TriggerTypeOK
<1>4. CASE ReadStates(Main)
  BY <1>4, ClockIsNat DEF ReadStates, Phases, MainSync, TriggerTypeOK, serviceVars
<1>5. CASE Visit(Main)
  <2>1. IsEnabled(Head(sync[Main].todo))
    <3>1. Head(sync[Main].todo) \in Schedules
      BY <1>5 DEF Visit, TriggerTypeOK
    <3> QED
      BY <3>1, ScheduleConstants DEF Phases, IsEnabled
  <2>2. PICK pc \in {"check", "stamp"} : sync' = [sync EXCEPT ![Main].pc = pc]
    BY <1>5, <2>1 DEF Visit
  <2> QED
    BY <1>5, <2>2 DEF Visit, Phases, MainSync, TriggerTypeOK, serviceVars
<1>6. CASE CheckEnabled(Main) \/ ReconcileRun(Main) \/ StampState(Main)
  BY <1>6 DEF CheckEnabled, ReconcileRun, StampState, Phases, MainSync, TriggerTypeOK, serviceVars
<1>7. CASE AddJob(Main)
  BY <1>7 DEF AddJob, Phases, MainSync, TriggerTypeOK, serviceVars
<1>8. CASE EndSync(Main)
  BY <1>8, ClockIsNat DEF EndSync, NoSync, Phases, MainSync, TriggerTypeOK
<1>9. CASE Start
  BY <1>9 DEF Start, BeginSync, Phases, MainSync, TriggerTypeOK
<1>10. CASE ServiceDown
  BY <1>10, ClockIsNat DEF ServiceDown, NoSync, NoFiring, Phases, MainSync, TriggerTypeOK
<1>11. CASE Tick
  BY <1>11, ClockIsNat DEF Tick, Phases, MainSync, TriggerTypeOK, serviceVars
<1>12. CASE UNCHANGED triggerVars
  BY <1>12 DEF triggerVars, Phases, MainSync
<1> QED
  BY <1>1, <1>2, <1>3, <1>4, <1>5, <1>6, <1>7, <1>8, <1>9, <1>10, <1>11, <1>12, AloneNext

-----------------------------------------------------------------------------
(* The job and its record.                                                 *)

LEMMA JobInit == TriggerInit => \A s \in Schedules : JobFollowsRecord(s)
BY DEF TriggerInit, JobFollowsRecord, InLoop, MainSync, NoSync, NoFiring, Syncers

LEMMA JobStep ==
  ASSUME Alone, TriggerTypeOK, AtTrigger, Phases, [TriggerNext]_triggerVars,
         NEW s \in Schedules, JobFollowsRecord(s)
  PROVE  JobFollowsRecord(s)'
<1>0. /\ clock \in Nat /\ job[s] \in Times /\ nextAt[s] \in Times
      /\ MainSync \in SyncRec /\ MainSync.now \in Nat /\ Main \in Syncers
      /\ \A t \in Nat : FirstSlot(s, t) \in Nat
      /\ \A slot \in Nat : /\ SlotAfter(s, slot, clock) \in Nat
                           /\ clock < SlotAfter(s, slot, clock)
                           /\ slot <= SlotAfter(s, slot, clock)
      /\ Never \notin Nat
  BY ClockIsNat, FirstSlotIsLater, SlotAfterIsLater, ScheduleConstants
  DEF TriggerTypeOK, SyncRec, Syncers, MainSync
<1>1. ASSUME NEW r \in Schedules, Fire(r) PROVE JobFollowsRecord(s)'
  BY <1>0, <1>1 DEF Fire, IsPast, Times, Phases, JobFollowsRecord, InLoop, MainSync, TriggerTypeOK, serviceVars
<1>2. ASSUME NEW r \in Schedules, Misfire(r) PROVE JobFollowsRecord(s)'
  <2>1. MainSync.pc = "idle" /\ UNCHANGED <<clock, nextAt, firing, sync>>
    BY <1>2 DEF Misfire, Phases
  <2>2. CASE r = s
    <3>1. job[s] \in Nat /\ job[s] <= clock /\ job'[s] = SlotAfter(s, job[s], clock)
      BY <1>0, <1>2, <2>2 DEF Misfire, IsPast, TriggerTypeOK, Times
    <3>2. firing[s].pc = "idle"
      BY <1>0, <3>1 DEF JobFollowsRecord
    <3> QED
      BY <1>0, <2>1, <3>1, <3>2 DEF JobFollowsRecord, InLoop, MainSync, Times
  <2>3. CASE r # s
    <3>1. job'[s] = job[s]
      BY <1>2, <2>3 DEF Misfire, TriggerTypeOK
    <3> QED
      BY <2>1, <3>1 DEF JobFollowsRecord, InLoop, MainSync
  <2> QED
    BY <2>2, <2>3
<1>3. ASSUME NEW r \in Schedules, FireRead(r) PROVE JobFollowsRecord(s)'
  BY <1>0, <1>3 DEF FireRead, Phases, JobFollowsRecord, InLoop, MainSync, TriggerTypeOK, serviceVars
<1>4. ASSUME NEW r \in Schedules, FireInsert(r) PROVE JobFollowsRecord(s)'
  BY <1>0, <1>4 DEF FireInsert, Phases, JobFollowsRecord, InLoop, MainSync, TriggerTypeOK, serviceVars
<1>5. ASSUME NEW r \in Schedules, FireAsk(r) PROVE JobFollowsRecord(s)'
  BY <1>0, <1>5 DEF FireAsk, Phases, JobFollowsRecord, InLoop, MainSync, TriggerTypeOK, serviceVars
<1>6. ASSUME NEW r \in Schedules, FireStamp(r) PROVE JobFollowsRecord(s)'
  <2>1. MainSync.pc = "idle" /\ UNCHANGED <<clock, job, sync>> /\ firing[r].pc = "stamp"
    BY <1>6 DEF FireStamp, Phases
  <2>2. CASE r = s
    <3>1. nextAt'[s] = job[s] /\ job[s] \in Nat /\ firing'[s].pc = "idle"
      BY <1>0, <1>6, <2>1, <2>2 DEF FireStamp, NoFiring, JobFollowsRecord, TriggerTypeOK, Times
    <3> QED
      BY <1>0, <2>1, <3>1 DEF JobFollowsRecord, InLoop, MainSync
  <2>3. CASE r # s
    <3>1. nextAt'[s] = nextAt[s] /\ firing'[s] = firing[s]
      BY <1>6, <2>3 DEF FireStamp, TriggerTypeOK
    <3> QED
      BY <2>1, <3>1 DEF JobFollowsRecord, InLoop, MainSync
  <2> QED
    BY <2>2, <2>3
<1>7. CASE ReadStates(Main)
  BY <1>0, <1>7 DEF ReadStates, Phases, JobFollowsRecord, InLoop, MainSync, TriggerTypeOK, serviceVars
<1>8. CASE Visit(Main)
  BY <1>0, <1>8 DEF Visit, Phases, JobFollowsRecord, InLoop, MainSync, TriggerTypeOK, serviceVars
<1>9. CASE CheckEnabled(Main) \/ ReconcileRun(Main)
  <2>1. /\ UNCHANGED <<clock, nextAt, job, firing>>
        /\ MainSync'.pc # "add" /\ MainSync'.now = MainSync.now /\ InLoop
    BY <1>9 DEF CheckEnabled, ReconcileRun, InLoop, MainSync, TriggerTypeOK, Syncers
  <2> QED
    BY <2>1 DEF JobFollowsRecord, MainSync
<1>10. CASE StampState(Main)
  BY <1>0, <1>10 DEF StampState, Phases, JobFollowsRecord, InLoop, MainSync, TriggerTypeOK, serviceVars
<1>11. CASE AddJob(Main)
  BY <1>0, <1>11 DEF AddJob, Phases, JobFollowsRecord, InLoop, MainSync, Times, TriggerTypeOK, serviceVars
<1>12. CASE EndSync(Main)
  <2>1. /\ UNCHANGED <<clock, nextAt, firing>> /\ firing[s].pc = "idle"
        /\ MainSync'.pc = "idle"
    BY <1>0, <1>12 DEF EndSync, NoSync, Phases, MainSync, TriggerTypeOK
  <2>2. job'[s] = IF job[s] = Never THEN Never ELSE SlotAfter(s, job[s], clock)
    BY <1>12 DEF EndSync
  <2> QED
    BY <1>0, <2>1, <2>2 DEF JobFollowsRecord, InLoop, MainSync, Times
<1>13. CASE Start
  BY <1>0, <1>13 DEF Start, BeginSync, Phases, JobFollowsRecord, InLoop, MainSync, TriggerTypeOK
<1>14. CASE ServiceDown
  <2>1. /\ MainSync'.pc = "idle" /\ job'[s] = Never /\ firing'[s].pc = "idle"
    BY <1>0, <1>14 DEF ServiceDown, Alone, NoSync, NoFiring, MainSync
  <2> QED
    BY <2>1 DEF JobFollowsRecord, InLoop, MainSync
<1>15. CASE Tick
  <2>1. /\ UNCHANGED <<nextAt, job, firing, sync>> /\ clock' = clock + 1
        /\ firing[s].pc # "idle" => ~IsPast(job[s], clock + 1)
    BY <1>15 DEF Tick
  <2> QED
    BY <1>0, <2>1 DEF IsPast, Times, JobFollowsRecord, InLoop, MainSync
<1>16. CASE UNCHANGED triggerVars
  BY <1>16 DEF triggerVars, JobFollowsRecord, InLoop, MainSync
<1> QED
  BY <1>1, <1>2, <1>3, <1>4, <1>5, <1>6, <1>7, <1>8, <1>9, <1>10, <1>11, <1>12,
     <1>13, <1>14, <1>15, <1>16, AloneNext
-----------------------------------------------------------------------------
(* The record and the debt.                                                *)

LEMMA DebtInit == TriggerInit => \A s \in Crons : RecordCoversDebt(s)
BY DEF TriggerInit, Crons, RecordCoversDebt, InLoop, MainSync, NoSync, NoFiring, Syncers

LEMMA DebtStep ==
  ASSUME Alone, TriggerTypeOK, AtTrigger, Phases, [TriggerNext]_triggerVars,
         NEW s \in Crons, JobFollowsRecord(s), RecordCoversDebt(s)
  PROVE  RecordCoversDebt(s)'
<1> DEFINE first == FirstSlot(s, clock)
<1>a. s \in Schedules \ Intervals /\ WorkflowOf[s] \in Coalesce
  BY DEF Crons
<1>b. /\ clock \in Nat /\ job[s] \in Times /\ nextAt[s] \in Times /\ due[s] \in Times
      /\ MainSync \in SyncRec /\ MainSync.now \in Nat /\ MainSync.now <= clock
      /\ Main \in Syncers /\ Never \notin Nat
  BY <1>a, ClockIsNat, ScheduleConstants
  DEF TriggerTypeOK, SyncRec, Syncers, MainSync, Phases
<1>c. /\ first \in Nat /\ OnGrid(s, first) /\ clock < first
      /\ FirstSlot(s, MainSync.now) \in Nat /\ FirstSlot(s, MainSync.now) <= first
      /\ OnGrid(s, FirstSlot(s, MainSync.now))
  BY <1>a, <1>b, FirstSlotIsLater, FirstSlotIsOnGrid, FirstSlotIsMonotone
<1>d. ASSUME NEW slot \in Nat, OnGrid(s, slot), slot <= first
      PROVE  LET n == SlotAfter(s, slot, clock) IN n \in Nat /\ OnGrid(s, n) /\ n <= first
  BY <1>a, <1>b, <1>d, SlotAfterKeepsGrid, SlotAfterIsLater
<1> HIDE DEF first
<1>1. ASSUME NEW r \in Schedules, Fire(r) \/ Misfire(r) PROVE RecordCoversDebt(s)'
  <2>1. MainSync.pc = "idle" /\ UNCHANGED <<clock, nextAt, sync, due>>
    BY <1>1 DEF Fire, Misfire, Phases
  <2>2. CASE r = s
    <3>1. /\ job[s] \in Nat /\ job[s] <= clock
          /\ job'[s] = SlotAfter(s, job[s], clock)
      BY <1>1, <1>b, <2>2 DEF Fire, Misfire, IsPast, TriggerTypeOK, Times
    <3>2. firing'[s].pc \in {"idle", "read"}
      BY <1>1, <1>b, <2>2, <3>1 DEF Fire, Misfire, JobFollowsRecord, TriggerTypeOK
    <3>3. OnGrid(s, job'[s]) /\ job'[s] <= first
      BY <1>b, <1>d, <3>1 DEF RecordCoversDebt, first
    <3> QED
      BY <1>b, <2>1, <3>2, <3>3 DEF RecordCoversDebt, InLoop, MainSync, first
  <2>3. CASE r # s
    <3>1. job'[s] = job[s] /\ firing'[s] = firing[s]
      BY <1>1, <1>a, <2>3 DEF Fire, Misfire, TriggerTypeOK
    <3> QED
      BY <2>1, <3>1 DEF RecordCoversDebt, InLoop, MainSync
  <2> QED
    BY <2>2, <2>3
<1>2. ASSUME NEW r \in Schedules, FireRead(r) \/ FireAsk(r) PROVE RecordCoversDebt(s)'
  <2>1. UNCHANGED <<clock, nextAt, job, sync, due>>
    BY <1>2 DEF FireRead, FireAsk
  <2>2. CASE FireRead(r)
    <3>1. firing'[s].pc \in {"ask", "stamp"} => firing[s].pc \in {"ask", "stamp"}
      BY <1>a, <2>2 DEF FireRead, TriggerTypeOK
    <3> QED
      BY <2>1, <3>1 DEF RecordCoversDebt, InLoop, MainSync
  <2>3. CASE FireAsk(r)
    <3>1. firing'[s].pc \in {"ask", "stamp"} => firing[s].pc \in {"ask", "stamp"}
      BY <1>a, <2>3 DEF FireAsk, TriggerTypeOK
    <3> QED
      BY <2>1, <3>1 DEF RecordCoversDebt, InLoop, MainSync
  <2> QED
    BY <1>2, <2>2, <2>3
<1>3. ASSUME NEW r \in Schedules, FireInsert(r) PROVE RecordCoversDebt(s)'
  <2>1. MainSync.pc = "idle" /\ UNCHANGED <<clock, nextAt, job, sync>>
    BY <1>3 DEF FireInsert, Phases
  <2>2. CASE r = s
    <3>1. due'[s] = IF due[s] = Never THEN Never ELSE first
      BY <1>3, <2>2 DEF FireInsert, Pay, TriggerTypeOK, first
    <3>2. job[s] \in Nat
      BY <1>3, <1>b, <2>2 DEF FireInsert, JobFollowsRecord, Times
    <3> QED
      BY <1>b, <1>c, <2>1, <3>1, <3>2 DEF RecordCoversDebt, JobFollowsRecord, InLoop, MainSync, Times, first
  <2>3. CASE r # s
    <3>1. due'[s] = due[s] /\ firing'[s] = firing[s]
      BY <1>3, <1>a, <2>3 DEF FireInsert, Pay, TriggerTypeOK
    <3> QED
      BY <2>1, <3>1 DEF RecordCoversDebt, InLoop, MainSync
  <2> QED
    BY <2>2, <2>3
<1>4. ASSUME NEW r \in Schedules, FireStamp(r) PROVE RecordCoversDebt(s)'
  <2>1. MainSync.pc = "idle" /\ UNCHANGED <<clock, job, due, sync>> /\ firing[r].pc = "stamp"
    BY <1>4 DEF FireStamp, Phases
  <2>2. CASE r = s
    <3>1. nextAt'[s] = job[s] /\ job[s] \in Nat /\ firing'[s].pc = "idle"
      BY <1>b, <1>4, <2>1, <2>2 DEF FireStamp, NoFiring, JobFollowsRecord, TriggerTypeOK, Times
    <3> QED
      BY <1>b, <2>1, <2>2, <3>1 DEF RecordCoversDebt, InLoop, MainSync
  <2>3. CASE r # s
    <3>1. nextAt'[s] = nextAt[s] /\ firing'[s] = firing[s]
      BY <1>4, <1>a, <2>3 DEF FireStamp, TriggerTypeOK
    <3> QED
      BY <2>1, <3>1 DEF RecordCoversDebt, InLoop, MainSync
  <2> QED
    BY <2>2, <2>3
<1>5. CASE ReadStates(Main)
  <2>1. /\ UNCHANGED <<clock, nextAt, job, firing, due>>
        /\ MainSync'.pc = "visit" /\ MainSync'.seen = nextAt /\ MainSync'.now = clock
    BY <1>b, <1>5 DEF ReadStates, MainSync, TriggerTypeOK
  <2>2. ~IsPast(nextAt[s], clock) /\ due[s] # Never => first <= due[s]
    BY <1>a, <1>b, FirstSlotIsNext DEF RecordCoversDebt, IsPast, Times, first
  <2> QED
    BY <2>1, <2>2 DEF RecordCoversDebt, InLoop, MainSync, first
<1>6. CASE Visit(Main)
  <2>1. /\ UNCHANGED <<clock, nextAt, job, firing, due>> /\ InLoop
        /\ MainSync'.seen = MainSync.seen /\ MainSync'.now = MainSync.now
        /\ MainSync'.todo = MainSync.todo
    BY <1>b, <1>6 DEF Visit, MainSync, InLoop, TriggerTypeOK
  <2>2. MainSync'.pc = "stamp" /\ s = Head(MainSync.todo)
          => ~IsPast(MainSync.seen[s], MainSync.now)
    BY <1>a, <1>b, <1>6 DEF Visit, MainSync, TriggerTypeOK
  <2> QED
    BY <2>1, <2>2 DEF RecordCoversDebt, MainSync
<1>7. CASE CheckEnabled(Main)
  <2>1. /\ UNCHANGED <<clock, nextAt, job, firing, due>> /\ InLoop
        /\ MainSync'.seen = MainSync.seen /\ MainSync'.now = MainSync.now
        /\ MainSync'.pc = "insert"
    BY <1>b, <1>7 DEF CheckEnabled, MainSync, InLoop, TriggerTypeOK
  <2> QED
    BY <2>1 DEF RecordCoversDebt, MainSync
<1>8. CASE ReconcileRun(Main)
  <2> DEFINE r == Head(MainSync.todo)
  <2>1. /\ UNCHANGED <<clock, nextAt, job, firing>> /\ InLoop
        /\ MainSync'.seen = MainSync.seen /\ MainSync'.now = MainSync.now
        /\ MainSync'.todo = MainSync.todo
        /\ firing[s].pc = "idle"
    BY <1>a, <1>b, <1>8 DEF ReconcileRun, MainSync, InLoop, Phases, TriggerTypeOK
  <2>2. r = s => due'[s] = IF due[s] = Never THEN Never ELSE first
    BY <1>a, <1>8 DEF ReconcileRun, Pay, MainSync, TriggerTypeOK, first
  <2>3. r # s => due'[s] = due[s]
    BY <1>a, <1>8 DEF ReconcileRun, Pay, MainSync, TriggerTypeOK
  <2>4. CASE r = s
    BY <1>b, <1>c, <2>1, <2>2, <2>4 DEF RecordCoversDebt, MainSync, Times, first
  <2>5. CASE r # s
    BY <2>1, <2>3, <2>5 DEF RecordCoversDebt, MainSync
  <2> QED
    BY <2>4, <2>5
<1>9. CASE StampState(Main)
  <2> DEFINE r == Head(MainSync.todo)
             slot == FirstSlot(s, MainSync.now)
  <2>1. /\ UNCHANGED <<clock, job, firing>> /\ InLoop /\ MainSync.pc = "stamp"
        /\ MainSync'.seen = MainSync.seen /\ MainSync'.now = MainSync.now
        /\ MainSync'.pc = "add" /\ firing[s].pc = "idle"
    BY <1>a, <1>b, <1>9 DEF StampState, MainSync, InLoop, Phases, TriggerTypeOK
  <2>2. r = s => /\ nextAt'[s] = slot
                 /\ due'[s] = IF due[s] = Never THEN slot ELSE due[s]
    BY <1>a, <1>9 DEF StampState, MainSync, TriggerTypeOK
  <2>3. r # s => nextAt'[s] = nextAt[s] /\ due'[s] = due[s]
    BY <1>a, <1>9 DEF StampState, MainSync, TriggerTypeOK
  <2>4. CASE r = s
    BY <1>b, <1>c, <2>1, <2>2, <2>4 DEF RecordCoversDebt, MainSync, Times, first
  <2>5. CASE r # s
    BY <2>1, <2>3, <2>5 DEF RecordCoversDebt, MainSync
  <2> QED
    BY <2>4, <2>5
<1>10. CASE AddJob(Main)
  <2> DEFINE r == Head(MainSync.todo)
  <2>1. /\ UNCHANGED <<clock, nextAt, firing, due>> /\ InLoop /\ MainSync'.pc = "visit"
        /\ MainSync'.seen = MainSync.seen /\ MainSync'.now = MainSync.now
        /\ firing[s].pc = "idle"
    BY <1>a, <1>b, <1>10 DEF AddJob, MainSync, InLoop, Phases, TriggerTypeOK
  <2>2. job'[s] = IF r = s THEN SlotAfter(s, FirstSlot(s, MainSync.now), clock) ELSE job[s]
    BY <1>a, <1>10 DEF AddJob, Alone, MainSync, TriggerTypeOK
  <2>3. job'[s] # Never => OnGrid(s, job'[s]) /\ job'[s] <= first
    BY <1>c, <1>d, <2>2 DEF RecordCoversDebt, first
  <2> QED
    BY <2>1, <2>3 DEF RecordCoversDebt, MainSync, first
<1>11. CASE EndSync(Main)
  <2>1. /\ UNCHANGED <<clock, nextAt, firing, due>> /\ MainSync'.pc = "idle"
        /\ firing[s].pc = "idle"
    BY <1>a, <1>b, <1>11 DEF EndSync, NoSync, MainSync, Phases, TriggerTypeOK
  <2>2. job'[s] = IF job[s] = Never THEN Never ELSE SlotAfter(s, job[s], clock)
    BY <1>a, <1>11 DEF EndSync
  <2>3. job'[s] # Never => OnGrid(s, job'[s]) /\ job'[s] <= first
    BY <1>b, <1>d, <2>2 DEF RecordCoversDebt, Times, first
  <2> QED
    BY <2>1, <2>3 DEF RecordCoversDebt, InLoop, MainSync, first
<1>12. CASE Start
  <2>1. UNCHANGED <<clock, nextAt, job, firing, due>> /\ MainSync'.pc = "remove"
    BY <1>b, <1>12 DEF Start, BeginSync, MainSync, TriggerTypeOK
  <2> QED
    BY <2>1 DEF RecordCoversDebt, InLoop, MainSync
<1>13. CASE ServiceDown
  <2>1. /\ UNCHANGED <<clock, nextAt, due>> /\ MainSync'.pc = "idle"
        /\ job'[s] = Never /\ firing'[s].pc = "idle"
    BY <1>a, <1>b, <1>13 DEF ServiceDown, Alone, NoSync, NoFiring, MainSync
  <2> QED
    BY <2>1 DEF RecordCoversDebt, InLoop, MainSync
<1>14. CASE Tick
  <2>1. clock' \in Nat /\ clock <= clock' /\ UNCHANGED <<nextAt, job, firing, sync, due>>
    BY <1>b, <1>14 DEF Tick
  <2>2. FirstSlot(s, clock') \in Nat /\ first <= FirstSlot(s, clock')
    BY <1>a, <1>b, <2>1, FirstSlotIsLater, FirstSlotIsMonotone DEF first
  <2> QED
    BY <1>b, <1>c, <2>1, <2>2 DEF RecordCoversDebt, InLoop, MainSync, Times, first
<1>15. CASE UNCHANGED triggerVars
  BY <1>15 DEF triggerVars, RecordCoversDebt, InLoop, MainSync
<1> QED
  BY <1>1, <1>2, <1>3, <1>4, <1>5, <1>6, <1>7, <1>8, <1>9, <1>10, <1>11, <1>12,
     <1>13, <1>14, <1>15, AloneNext
-----------------------------------------------------------------------------
LEMMA AloneInvariant == Alone /\ TriggerSpec => []TriggerInv
<1>1. TriggerInit => TriggerInv
  BY TypeInit, PhasesInit, JobInit, DebtInit DEF TriggerInv, TInv
<1>2. Alone /\ TriggerInv /\ [TriggerNext]_triggerVars => TriggerInv'
  <2> SUFFICES ASSUME Alone, TriggerInv, [TriggerNext]_triggerVars PROVE TriggerInv'
    OBVIOUS
  <2>1. TriggerTypeOK /\ AtTrigger /\ Phases
    BY DEF TriggerInv, TInv
  <2>2. TInv'
    BY <2>1, TriggerTypeStep, AtTriggerStep DEF TInv
  <2>3. Phases'
    BY <2>1, PhasesStep
  <2>4. \A s \in Schedules : JobFollowsRecord(s)'
    BY <2>1, JobStep DEF TriggerInv
  <2>5. \A s \in Crons : RecordCoversDebt(s)'
    BY <2>1, DebtStep DEF TriggerInv, Crons
  <2> QED
    BY <2>2, <2>3, <2>4, <2>5 DEF TriggerInv, Crons
<1>3. Alone => [](Alone)
  BY DEF Alone
<1> QED
  BY <1>1, <1>2, <1>3, PTL DEF TriggerSpec

\* As long as nobody enables or disables a workflow, a restart of the service at
\* any step finds every slot it owes to a coalescing cron schedule in the
\* database.
THEOREM NoSlotIsForgotten == Alone /\ TriggerSpec => []SlotIsRemembered
<1>1. TriggerTypeOK /\ TriggerInv => SlotIsRemembered
  BY ScheduleConstants, ClockIsNat
  DEF TriggerInv, Crons, RecordCoversDebt, SlotIsRemembered, Owed, IsPast, TriggerTypeOK, Times
<1> QED
  BY <1>1, AloneInvariant, TriggerTypeCorrect, PTL

\* Nor does the database ever name a later run than the one the scheduler has.
THEOREM RecordNeverAhead == Alone /\ TriggerSpec => []RecordIsNotAhead
<1>1. TriggerInv => RecordIsNotAhead
  BY DEF TriggerInv, JobFollowsRecord, RecordIsNotAhead
<1> QED
  BY <1>1, AloneInvariant, PTL
-----------------------------------------------------------------------------
(* Callers within the service: the main thread and any number of API       *)
(* threads.  A CLI process is out: its scheduler never runs.               *)

WithinService == Clis = {}

\* Where a call of sync_jobs() has still to come by a trigger; one that found
\* its workflow disabled (clear) will not register it.
IsAhead(t, s) ==
  \/ sync[t].pc = "remove"
  \/ /\ sync[t].pc # "idle"
     /\ \E i \in 1 .. Len(sync[t].todo) :
          sync[t].todo[i] = s /\ (sync[t].pc = "clear" => i # 1)

\* A trigger of an enabled workflow has a job or is still ahead of some call.
JobsAreComing ==
  service # "down" /\ ~aborted =>
    \A s \in Schedules : IsEnabled(s) /\ job[s] = Never => \E t \in Syncers : IsAhead(t, s)

\* What start() has done at the trigger where it is, and at those it is done with.
Registered(s) == job[s] # Never /\ nextAt[s] # Never /\ nextAt[s] <= job[s]
StartProceeds ==
  /\ service = "starting" <=> MainSync.pc # "idle"
  /\ service # "up" => /\ \A t \in Apis : sync[t].pc = "idle"
                       /\ \A s \in Schedules : firing[s].pc = "idle"
  /\ service = "down" \/ MainSync.pc = "remove" => \A s \in Schedules : job[s] = Never
  /\ InLoop /\ MainSync.pc # "visit" => IsEnabled(Head(MainSync.todo))
  /\ MainSync.pc = "clear" => ~IsEnabled(Head(MainSync.todo))
  /\ MainSync.pc = "add" =>
       nextAt[Head(MainSync.todo)] = FirstSlot(Head(MainSync.todo), MainSync.now)
  /\ InLoop \/ MainSync.pc = "clear" =>
       \A s \in Schedules :
         /\ ~IsEnabled(s) => job[s] = Never
         /\ IsEnabled(s) =>
              Registered(s) \/ \E i \in 1 .. Len(MainSync.todo) : MainSync.todo[i] = s
-----------------------------------------------------------------------------
LEMMA ComingStep ==
  ASSUME WithinService, TriggerTypeOK, AtTrigger, StartProceeds, JobsAreComing,
         [TriggerNext]_triggerVars
  PROVE  JobsAreComing'
<1> SUFFICES ASSUME service' # "down", ~aborted', NEW s \in Schedules, IsEnabled(s)', job'[s] = Never
             PROVE  \E t \in Syncers : IsAhead(t, s)'
  BY DEF JobsAreComing
<1>a. /\ sync \in [Syncers -> SyncRec] /\ job \in [Schedules -> Times] /\ clock \in Nat
      /\ Never \notin Nat /\ Main \in Syncers
  BY SyncTyped, ClockIsNat, ScheduleConstants DEF TriggerTypeOK, Syncers
<1>b. ASSUME service # "down", ~aborted, IsEnabled(s), job[s] = Never
      PROVE  \E t \in Syncers : IsAhead(t, s)
  BY <1>b DEF JobsAreComing
\* The caller that has s ahead still has it there.
<1>c. ASSUME NEW u \in Syncers, service # "down", ~aborted, IsEnabled(s), job[s] = Never,
             \A t \in Syncers \ {u} : sync'[t] = sync[t],
             IsAhead(u, s) => IsAhead(u, s)'
      PROVE  \E t \in Syncers : IsAhead(t, s)'
  <2>1. PICK t \in Syncers : IsAhead(t, s)
    BY <1>b, <1>c
  <2>2. CASE t = u
    BY <1>c, <2>1, <2>2
  <2>3. CASE t # u
    <3>1. sync'[t] = sync[t]
      BY <1>c, <2>3
    <3> QED
      BY <2>1, <3>1 DEF IsAhead
  <2> QED
    BY <2>2, <2>3
<1>1. ASSUME NEW r \in Schedules, Fire(r) \/ Misfire(r) PROVE \E t \in Syncers : IsAhead(t, s)'
  <2>1. job[r] \in Nat
    BY <1>a, <1>1 DEF Fire, Misfire, IsPast, Times
  <2>2. SlotAfter(r, job[r], clock) \in Nat /\ job' = [job EXCEPT ![r] = SlotAfter(r, job[r], clock)]
    BY <1>a, <1>1, <2>1, SlotAfterIsLater DEF Fire, Misfire
  <2>3. job[s] = Never
    BY <1>a, <2>2
  <2>4. service # "down" /\ ~aborted /\ IsEnabled(s) /\ UNCHANGED sync
    BY <1>1 DEF Fire, Misfire, serviceVars, IsEnabled
  <2> QED
    BY <1>b, <2>3, <2>4 DEF IsAhead
<1>2. ASSUME NEW r \in Schedules, FireRead(r) \/ FireInsert(r) \/ FireAsk(r) \/ FireStamp(r)
      PROVE  \E t \in Syncers : IsAhead(t, s)'
  <2>1. UNCHANGED <<job, sync, service, aborted, enabled>>
    BY <1>2 DEF FireRead, FireInsert, FireAsk, FireStamp, serviceVars
  <2> QED
    BY <1>b, <2>1 DEF IsAhead, IsEnabled
<1>3. ASSUME NEW u \in Syncers, RemoveJob(u) PROVE \E t \in Syncers : IsAhead(t, s)'
  <2>1. PICK r \in Schedules : sync' = [sync EXCEPT ![u].doomed[r] = Never] /\ sync[u].pc = "remove"
    BY <1>3 DEF RemoveJob
  <2>2. sync'[u].pc = "remove"
    BY <1>a, <2>1 DEF SyncRec
  <2> QED
    BY <2>2 DEF IsAhead
<1>4. ASSUME NEW u \in Syncers, AbortSync(u) PROVE FALSE
  BY <1>4 DEF AbortSync
<1>5. ASSUME NEW u \in Syncers, ReadStates(u) PROVE \E t \in Syncers : IsAhead(t, s)'
  <2>1. /\ UNCHANGED <<job, service, aborted, enabled>> /\ sync[u].pc = "remove"
        /\ sync' = [sync EXCEPT ![u].pc = "visit", ![u].todo = Order, ![u].seen = nextAt, ![u].now = clock]
    BY <1>5 DEF ReadStates, serviceVars
  <2>2. sync'[u].pc = "visit" /\ sync'[u].todo = Order /\ \A t \in Syncers \ {u} : sync'[t] = sync[t]
    BY <1>a, <2>1 DEF SyncRec
  <2>3. IsAhead(u, s)'
    BY <2>2, ScheduleConstants DEF IsAhead
  <2> QED
    BY <2>3
<1>6. ASSUME NEW u \in Syncers, Visit(u) PROVE \E t \in Syncers : IsAhead(t, s)'
  <2>1. /\ UNCHANGED <<job, service, aborted, enabled>> /\ sync[u].pc = "visit"
        /\ sync[u].todo # <<>>
        /\ sync' = [sync EXCEPT ![u].pc = sync'[u].pc]
        /\ sync'[u].pc \in {"clear", "check", "stamp"}
        /\ sync'[u].pc = "clear" => ~IsEnabled(Head(sync[u].todo))
    BY <1>6, <1>a DEF Visit, serviceVars, SyncRec
  <2>2. sync'[u].todo = sync[u].todo /\ \A t \in Syncers \ {u} : sync'[t] = sync[t]
    BY <1>a, <2>1 DEF SyncRec
  <2>3. sync[u].todo \in Seq(Schedules) /\ Head(sync[u].todo) = sync[u].todo[1]
    BY <1>a, <2>1 DEF SyncRec
  <2>4. IsEnabled(s) /\ job[s] = Never /\ service # "down" /\ ~aborted
    BY <2>1 DEF IsEnabled
  <2>5. IsAhead(u, s) => IsAhead(u, s)'
    BY <2>1, <2>2, <2>3, <2>4 DEF IsAhead
  <2> QED
    BY <1>c, <2>2, <2>4, <2>5
<1>7. ASSUME NEW u \in Syncers, CheckEnabled(u) \/ ReconcileRun(u) \/ StampState(u)
      PROVE  \E t \in Syncers : IsAhead(t, s)'
  <2>1. /\ UNCHANGED <<job, service, aborted, enabled>>
        /\ \E pc \in {"insert", "stamp", "add"} : sync' = [sync EXCEPT ![u].pc = pc]
        /\ sync[u].pc \in {"check", "insert", "stamp"}
    BY <1>7 DEF CheckEnabled, ReconcileRun, StampState, serviceVars
  <2>2. sync'[u].todo = sync[u].todo /\ sync'[u].pc \in {"insert", "stamp", "add"}
        /\ \A t \in Syncers \ {u} : sync'[t] = sync[t]
    BY <1>a, <2>1 DEF SyncRec
  <2>3. IsAhead(u, s) => IsAhead(u, s)'
    BY <2>1, <2>2 DEF IsAhead
  <2> QED
    BY <1>c, <2>1, <2>2, <2>3 DEF IsEnabled
<1>8. ASSUME NEW u \in Syncers, ClearState(u) \/ AddJob(u) PROVE \E t \in Syncers : IsAhead(t, s)'
  <2>1. /\ UNCHANGED <<service, aborted, enabled>> /\ sync[u].pc \in {"clear", "add"}
        /\ sync' = [sync EXCEPT ![u].pc = "visit", ![u].todo = Tail(sync[u].todo)]
    BY <1>8 DEF ClearState, AddJob, serviceVars
  <2>2. /\ sync[u].todo \in Seq(Schedules) /\ sync[u].todo # <<>> /\ sync[u].now \in Nat
        /\ sync'[u].pc = "visit" /\ sync'[u].todo = Tail(sync[u].todo)
        /\ \A t \in Syncers \ {u} : sync'[t] = sync[t]
    BY <1>a, <2>1 DEF SyncRec, AtTrigger
  <2> DEFINE head == sync[u].todo[1]
             slot == SlotAfter(head, FirstSlot(head, sync[u].now), clock)
  <2>3. head \in Schedules /\ head = Head(sync[u].todo)
    BY <2>2
  <2>4. slot \in Nat
    BY <1>a, <2>2, <2>3, FirstSlotIsLater, SlotAfterIsLater
  <2>5. \/ sync[u].pc = "clear" /\ job' = job
        \/ sync[u].pc = "add" /\ job' = [job EXCEPT ![head] = slot]
    BY <1>8, <2>3 DEF ClearState, AddJob, WithinService
  <2> HIDE DEF slot, head
  <2>6. job[s] = Never /\ (sync[u].pc = "add" => s # head)
    BY <1>a, <2>3, <2>4, <2>5
  <2>7. ASSUME NEW i \in 1 .. Len(sync[u].todo), i # 1, sync[u].todo[i] = s
        PROVE  i - 1 \in 1 .. Len(Tail(sync[u].todo)) /\ Tail(sync[u].todo)[i - 1] = s
    BY <2>2, <2>7
  <2>8. IsAhead(u, s) => IsAhead(u, s)'
    BY <2>1, <2>2, <2>6, <2>7 DEF IsAhead, head
  <2> QED
    BY <1>c, <2>1, <2>2, <2>6, <2>8 DEF IsEnabled
<1>9. ASSUME NEW u \in Syncers, EndSync(u) PROVE \E t \in Syncers : IsAhead(t, s)'
  <2>1. /\ UNCHANGED <<aborted, enabled>> /\ sync[u].pc = "visit" /\ sync[u].todo = <<>>
        /\ sync' = [sync EXCEPT ![u] = NoSync]
        /\ u = Main \/ UNCHANGED <<service, job>>
    BY <1>9 DEF EndSync
  <2>2. \A t \in Syncers \ {u} : sync'[t] = sync[t]
    BY <1>a, <2>1
  <2>3. ~IsAhead(u, s)
    BY <2>1 DEF IsAhead
  <2>4. CASE u # Main
    BY <1>c, <2>1, <2>2, <2>3, <2>4 DEF IsEnabled
  <2>5. CASE u = Main
    <3>1. job' = [r \in Schedules |-> IF job[r] = Never THEN Never ELSE SlotAfter(r, job[r], clock)]
      BY <1>9, <2>5 DEF EndSync
    <3>2. job[s] = Never
      <4> SUFFICES ASSUME job[s] # Never PROVE FALSE
        OBVIOUS
      <4>1. job[s] \in Nat
        BY <1>a DEF Times
      <4> QED
        BY <1>a, <3>1, <4>1, SlotAfterIsLater
    <3>3. service # "down"
      BY <1>a, <2>1, <2>5 DEF StartProceeds, MainSync
    <3> QED
      BY <1>c, <2>1, <2>2, <2>3, <3>2, <3>3 DEF IsEnabled
  <2> QED
    BY <2>4, <2>5
<1>10. ASSUME NEW u \in Syncers, NEW w \in Workflows, NEW b \in BOOLEAN, SetEnabled(u, w, b)
       PROVE  \E t \in Syncers : IsAhead(t, s)'
  <2>1. sync'[u].pc = "remove"
    BY <1>10, <1>a DEF SetEnabled, BeginSync, SyncRec
  <2> QED
    BY <2>1 DEF IsAhead
<1>11. CASE Start
  <2>1. sync'[Main].pc = "remove"
    BY <1>11, <1>a DEF Start, BeginSync, SyncRec
  <2> QED
    BY <1>a, <2>1 DEF IsAhead
<1>12. CASE ServiceDown
  BY <1>12 DEF ServiceDown
<1>13. CASE Tick \/ UNCHANGED triggerVars
  <2>1. UNCHANGED <<job, sync, service, aborted, enabled>>
    BY <1>13 DEF Tick, triggerVars, serviceVars
  <2> QED
    BY <1>b, <2>1 DEF IsAhead, IsEnabled
<1> QED
  BY <1>1, <1>2, <1>3, <1>4, <1>5, <1>6, <1>7, <1>8, <1>9, <1>10, <1>11, <1>12, <1>13 DEF TriggerNext

\* Only the main thread is at work before the service is up, so what it has done
\* stays done: no API thread changes "enabled" under it, no trigger fires.
LEMMA ProceedsStep ==
  ASSUME WithinService, TriggerTypeOK, AtTrigger, StartProceeds, [TriggerNext]_triggerVars
  PROVE  StartProceeds'
<1>a. /\ sync \in [Syncers -> SyncRec] /\ job \in [Schedules -> Times]
      /\ nextAt \in [Schedules -> Times] /\ clock \in Nat
      /\ Never \notin Nat /\ Main \in Syncers /\ Syncers = {Main} \cup Apis /\ Main \notin Apis
  BY SyncTyped, ClockIsNat, ScheduleConstants DEF TriggerTypeOK, Syncers, WithinService
<1>b. ASSUME service' = "up", MainSync'.pc = "idle"
      PROVE  StartProceeds'
  BY <1>b DEF StartProceeds, InLoop, MainSync
<1>c. ASSUME service' = "down", \A t \in Syncers : sync'[t].pc = "idle",
             \A s \in Schedules : firing'[s].pc = "idle" /\ job'[s] = Never
      PROVE  StartProceeds'
  BY <1>a, <1>c DEF StartProceeds, InLoop, MainSync
<1>d. NoSync.pc = "idle" /\ NoFiring.pc = "idle"
  BY DEF NoSync, NoFiring
<1>1. CASE ServiceDown
  <2>1. /\ service' = "down" /\ \A s \in Schedules : firing'[s].pc = "idle" /\ job'[s] = Never
        /\ \A t \in Syncers : sync'[t] = NoSync
    BY <1>1, <1>a, <1>d DEF ServiceDown, WithinService
  <2> QED
    BY <1>c, <1>d, <2>1
<1>2. CASE /\ UNCHANGED <<enabled, nextAt, job, sync, service>>
           /\ ((\A s \in Schedules : firing[s].pc = "idle")
                 => \A s \in Schedules : firing'[s].pc = "idle")
  BY <1>2 DEF StartProceeds, InLoop, MainSync, Registered, IsEnabled
<1>3. CASE service = "up" /\ ~ServiceDown
  <2>1. MainSync.pc = "idle"
    BY <1>3 DEF StartProceeds
  <2>2. ASSUME NEW s \in Schedules, Fire(s) \/ Misfire(s) \/ FireRead(s) \/ FireInsert(s)
                                    \/ FireAsk(s) \/ FireStamp(s)
        PROVE  service' = "up" /\ MainSync' = MainSync
    BY <1>3, <2>2 DEF Fire, Misfire, FireRead, FireInsert, FireAsk, FireStamp, serviceVars, MainSync
  <2>3. ASSUME NEW t \in Syncers, \/ RemoveJob(t) \/ AbortSync(t) \/ ReadStates(t) \/ Visit(t)
                                  \/ ClearState(t) \/ CheckEnabled(t) \/ ReconcileRun(t)
                                  \/ StampState(t) \/ AddJob(t) \/ EndSync(t)
        PROVE  service' = "up" /\ MainSync' = MainSync
    <3>1. t # Main
      BY <2>1, <2>3 DEF MainSync, RemoveJob, AbortSync, ReadStates, Visit, ClearState,
                        CheckEnabled, ReconcileRun, StampState, AddJob, EndSync
    <3>2. service' = service
      BY <2>3, <3>1 DEF serviceVars, RemoveJob, AbortSync, ReadStates, Visit, ClearState,
                        CheckEnabled, ReconcileRun, StampState, AddJob, EndSync
    <3>3. sync'[Main] = sync[Main]
      <4>1. CASE RemoveJob(t) \/ AbortSync(t) \/ ReadStates(t)
        BY <1>a, <3>1, <4>1 DEF RemoveJob, AbortSync, ReadStates
      <4>2. CASE Visit(t) \/ ClearState(t) \/ CheckEnabled(t) \/ ReconcileRun(t)
        BY <1>a, <3>1, <4>2 DEF Visit, ClearState, CheckEnabled, ReconcileRun
      <4>3. CASE StampState(t) \/ AddJob(t) \/ EndSync(t)
        BY <1>a, <3>1, <4>3 DEF StampState, AddJob, EndSync
      <4> QED
        BY <2>3, <4>1, <4>2, <4>3
    <3> QED
      BY <1>3, <3>2, <3>3 DEF MainSync
  <2>4. ASSUME NEW t \in Syncers, NEW w \in Workflows, NEW b \in BOOLEAN, SetEnabled(t, w, b)
        PROVE  service' = "up" /\ MainSync' = MainSync
    BY <1>3, <1>a, <2>4 DEF SetEnabled, BeginSync, serviceVars, MainSync
  <2>5. ASSUME Tick \/ UNCHANGED triggerVars
        PROVE  service' = "up" /\ MainSync' = MainSync
    BY <1>3, <2>5 DEF Tick, triggerVars, serviceVars, MainSync
  <2>6. ~Start
    BY <1>3 DEF Start
  <2> QED
    BY <1>3, <1>b, <2>1, <2>2, <2>3, <2>4, <2>5, <2>6 DEF TriggerNext
<1>4. ASSUME service # "up"
      PROVE  \/ Start \/ ServiceDown \/ Tick \/ UNCHANGED triggerVars
             \/ RemoveJob(Main) \/ AbortSync(Main) \/ ReadStates(Main) \/ Visit(Main)
             \/ ClearState(Main) \/ CheckEnabled(Main) \/ ReconcileRun(Main)
             \/ StampState(Main) \/ AddJob(Main) \/ EndSync(Main)
  <2>1. \A t \in Syncers : t # Main => t \in Apis /\ sync[t].pc = "idle"
    BY <1>4, <1>a DEF StartProceeds
  <2>2. \A s \in Schedules : firing[s].pc = "idle"
    BY <1>4 DEF StartProceeds
  <2>3. ~\E s \in Schedules : \/ Fire(s) \/ Misfire(s) \/ FireRead(s) \/ FireInsert(s)
                              \/ FireAsk(s) \/ FireStamp(s)
    BY <1>4, <2>2 DEF Fire, Misfire, FireRead, FireInsert, FireAsk, FireStamp
  <2>4. ~\E t \in Syncers, w \in Workflows, b \in BOOLEAN : SetEnabled(t, w, b)
    BY <1>4, <2>1 DEF SetEnabled
  <2>5. ASSUME NEW t \in Syncers, \/ RemoveJob(t) \/ AbortSync(t) \/ ReadStates(t) \/ Visit(t)
                                  \/ ClearState(t) \/ CheckEnabled(t) \/ ReconcileRun(t)
                                  \/ StampState(t) \/ AddJob(t) \/ EndSync(t)
        PROVE  \/ RemoveJob(Main) \/ AbortSync(Main) \/ ReadStates(Main) \/ Visit(Main)
               \/ ClearState(Main) \/ CheckEnabled(Main) \/ ReconcileRun(Main)
               \/ StampState(Main) \/ AddJob(Main) \/ EndSync(Main)
    <3>1. t = Main
      BY <2>1, <2>5 DEF RemoveJob, AbortSync, ReadStates, Visit, ClearState,
                        CheckEnabled, ReconcileRun, StampState, AddJob, EndSync
    <3> QED
      BY <2>5, <3>1
  <2> QED
    BY <2>3, <2>4, <2>5 DEF TriggerNext
<1>5. CASE service = "down" /\ Start
  <2>1. /\ MainSync'.pc = "remove" /\ service' = "starting"
        /\ \A t \in Apis : sync'[t] = sync[t]
        /\ UNCHANGED <<job, firing>>
    BY <1>a, <1>5 DEF Start, BeginSync, MainSync, SyncRec
  <2> QED
    BY <1>5, <2>1 DEF StartProceeds, InLoop, MainSync
<1>6. CASE Tick \/ UNCHANGED triggerVars
  BY <1>2, <1>6 DEF Tick, triggerVars, serviceVars
\* start() works on its list.
<1> DEFINE todo == MainSync.todo
           head == Head(todo)
<1>7. ASSUME NEW pc \in {"visit", "check", "insert", "stamp", "add", "clear"},
             sync' = [sync EXCEPT ![Main].pc = pc]
      PROVE  MainSync'.pc = pc /\ MainSync'.todo = todo /\ MainSync'.now = MainSync.now
             /\ \A t \in Apis : sync'[t] = sync[t]
  BY <1>a, <1>7 DEF MainSync, SyncRec
<1>8. CASE service # "up" /\ RemoveJob(Main)
  <2>1. PICK r \in Schedules : /\ sync' = [sync EXCEPT ![Main].doomed[r] = Never] /\ job[r] # Never
                               /\ MainSync.pc = "remove"
    BY <1>8 DEF RemoveJob, MainSync
  <2> QED
    BY <2>1 DEF StartProceeds
<1>9. CASE service # "up" /\ AbortSync(Main)
  <2>1. /\ service' = "down" /\ sync' = [sync EXCEPT ![Main] = NoSync]
        /\ job' = [s \in Schedules |-> Never] /\ UNCHANGED firing
    BY <1>9 DEF AbortSync
  <2>2. \A t \in Syncers : sync'[t] = IF t = Main THEN NoSync ELSE sync[t]
    BY <1>a, <2>1
  <2>3. \A t \in Syncers : sync'[t].pc = "idle"
    BY <1>9, <1>a, <1>d, <2>2 DEF StartProceeds
  <2> QED
    BY <1>9, <1>c, <2>1, <2>3 DEF StartProceeds
<1>10. CASE service # "up" /\ ReadStates(Main)
  <2>1. /\ UNCHANGED <<enabled, job, firing, service>> /\ MainSync.pc = "remove"
        /\ MainSync'.pc = "visit" /\ MainSync'.todo = Order
        /\ \A t \in Apis : sync'[t] = sync[t]
    BY <1>10, <1>a DEF ReadStates, MainSync, serviceVars, SyncRec
  <2> QED
    BY <1>10, <2>1, ScheduleConstants DEF StartProceeds, InLoop, MainSync, IsEnabled
<1>11. CASE service # "up" /\ Visit(Main)
  <2>1. /\ UNCHANGED <<enabled, nextAt, job, firing, service>> /\ MainSync.pc = "visit"
        /\ sync' = [sync EXCEPT ![Main].pc = sync'[Main].pc]
        /\ sync'[Main].pc \in {"clear", "check", "stamp"}
        /\ sync'[Main].pc = "clear" <=> ~IsEnabled(head)
    BY <1>11, <1>a DEF Visit, serviceVars, SyncRec, MainSync
  <2>2. MainSync'.pc = sync'[Main].pc /\ MainSync'.todo = todo /\ \A t \in Apis : sync'[t] = sync[t]
    BY <2>1, <1>7 DEF MainSync
  <2> QED
    BY <1>11, <2>1, <2>2 DEF StartProceeds, InLoop, MainSync, IsEnabled, Registered
<1>12. CASE service # "up" /\ (CheckEnabled(Main) \/ ReconcileRun(Main))
  <2>1. /\ UNCHANGED <<enabled, nextAt, job, firing, service>> /\ MainSync.pc \in {"check", "insert"}
        /\ \E pc \in {"insert", "stamp"} : sync' = [sync EXCEPT ![Main].pc = pc]
    BY <1>12 DEF CheckEnabled, ReconcileRun, serviceVars, MainSync
  <2>2. MainSync'.pc \in {"insert", "stamp"} /\ MainSync'.todo = todo /\ \A t \in Apis : sync'[t] = sync[t]
    BY <2>1, <1>7
  <2> QED
    BY <1>12, <2>1, <2>2 DEF StartProceeds, InLoop, MainSync, IsEnabled, Registered
<1>13. CASE service # "up" /\ StampState(Main)
  <2> DEFINE slot == FirstSlot(head, MainSync.now)
  <2>1. /\ UNCHANGED <<enabled, job, firing, service>> /\ MainSync.pc = "stamp"
        /\ sync' = [sync EXCEPT ![Main].pc = "add"]
        /\ nextAt' = [nextAt EXCEPT ![head] = slot]
    BY <1>13 DEF StampState, serviceVars, MainSync
  <2>2. MainSync'.pc = "add" /\ MainSync'.todo = todo /\ MainSync'.now = MainSync.now
        /\ \A t \in Apis : sync'[t] = sync[t]
    BY <2>1, <1>7
  <2>3. todo # <<>> /\ todo \in Seq(Schedules) /\ MainSync.now \in Nat
    BY <1>a, <2>1 DEF AtTrigger, MainSync, SyncRec
  <2>4. head \in Schedules /\ head = todo[1] /\ 1 \in 1 .. Len(todo)
    BY <2>3
  <2>5. nextAt'[head] = slot
    BY <1>a, <2>1, <2>4
  <2>6. \A s \in Schedules : Registered(s) /\ s # head => Registered(s)'
    BY <1>a, <2>1 DEF Registered
  <2>7. IsEnabled(head)
    BY <2>1 DEF StartProceeds, InLoop
  <2> HIDE DEF head, todo, slot
  <2>8. \A s \in Schedules :
          /\ ~IsEnabled(s)' => job'[s] = Never
          /\ IsEnabled(s)' => Registered(s)' \/ \E i \in 1 .. Len(MainSync'.todo) : MainSync'.todo[i] = s
    BY <2>1, <2>2, <2>4, <2>6 DEF StartProceeds, InLoop, IsEnabled, todo
  <2>9. MainSync'.pc = "add" => nextAt'[Head(MainSync'.todo)] = FirstSlot(Head(MainSync'.todo), MainSync'.now)
    BY <2>2, <2>5 DEF head, slot, todo
  <2>10. enabled'[WorkflowOf[Head(MainSync'.todo)]]
    BY <2>1, <2>2, <2>7 DEF head, todo, IsEnabled
  <2>11. service = "starting" /\ service' = "starting"
    BY <1>13, <2>1 DEF StartProceeds
  <2> QED
    BY <2>1, <2>2, <2>8, <2>9, <2>10, <2>11 DEF StartProceeds, IsEnabled, MainSync
<1>14. CASE service # "up" /\ (ClearState(Main) \/ AddJob(Main))
  <2> DEFINE slot == SlotAfter(head, FirstSlot(head, MainSync.now), clock)
  <2>1. /\ UNCHANGED <<enabled, firing, service>> /\ MainSync.pc \in {"clear", "add"}
        /\ sync' = [sync EXCEPT ![Main].pc = "visit", ![Main].todo = Tail(sync[Main].todo)]
    BY <1>14 DEF ClearState, AddJob, serviceVars, MainSync
  <2>2. /\ todo # <<>> /\ todo \in Seq(Schedules) /\ MainSync.now \in Nat
        /\ MainSync'.pc = "visit" /\ MainSync'.todo = Tail(todo)
        /\ \A t \in Apis : sync'[t] = sync[t]
    BY <1>a, <2>1 DEF AtTrigger, MainSync, SyncRec
  <2>3. head \in Schedules /\ head = todo[1]
    BY <2>2
  <2>4. FirstSlot(head, MainSync.now) \in Nat /\ slot \in Nat /\ FirstSlot(head, MainSync.now) <= slot
    BY <1>a, <2>2, <2>3, FirstSlotIsLater, SlotAfterIsLater
  <2>5. \/ /\ MainSync.pc = "clear" /\ UNCHANGED job /\ nextAt' = [nextAt EXCEPT ![head] = Never]
        \/ /\ MainSync.pc = "add" /\ UNCHANGED nextAt /\ job' = [job EXCEPT ![head] = slot]
    BY <1>14 DEF ClearState, AddJob, WithinService, MainSync
  <2>6. \A s \in Schedules : (\E i \in 1 .. Len(todo) : todo[i] = s) /\ s # head
          => \E i \in 1 .. Len(Tail(todo)) : Tail(todo)[i] = s
    <3> SUFFICES ASSUME NEW i \in 1 .. Len(todo), todo[i] # head
                 PROVE  i - 1 \in 1 .. Len(Tail(todo)) /\ Tail(todo)[i - 1] = todo[i]
      OBVIOUS
    <3>1. i # 1
      BY <2>3
    <3> QED
      BY <2>2, <3>1
  <2> HIDE DEF slot, head
  <2>7. \A s \in Schedules : s # head => job'[s] = job[s] /\ nextAt'[s] = nextAt[s]
    BY <1>a, <2>5
  <2>8. /\ IsEnabled(head) => job'[head] # Never /\ nextAt'[head] # Never /\ nextAt'[head] <= job'[head]
        /\ ~IsEnabled(head) => job'[head] = Never
    <3>1. CASE MainSync.pc = "clear"
      BY <1>a, <2>3, <2>5, <3>1 DEF StartProceeds, head
    <3>2. CASE MainSync.pc = "add"
      <4>1. IsEnabled(head) /\ nextAt[head] = FirstSlot(head, MainSync.now)
        BY <3>2 DEF StartProceeds, InLoop, head
      <4> QED
        BY <1>a, <2>3, <2>4, <2>5, <3>2, <4>1
    <3> QED
      BY <2>1, <3>1, <3>2
  <2>9. \A s \in Schedules :
          /\ ~IsEnabled(s) => job'[s] = Never
          /\ IsEnabled(s) => Registered(s)' \/ \E i \in 1 .. Len(Tail(todo)) : Tail(todo)[i] = s
    <3> SUFFICES ASSUME NEW s \in Schedules
                 PROVE  /\ ~IsEnabled(s) => job'[s] = Never
                        /\ IsEnabled(s) => Registered(s)' \/ \E i \in 1 .. Len(Tail(todo)) : Tail(todo)[i] = s
      OBVIOUS
    <3>1. CASE s = head
      BY <2>8, <3>1 DEF Registered
    <3>2. CASE s # head
      BY <2>1, <2>6, <2>7, <3>2 DEF StartProceeds, InLoop, Registered
    <3> QED
      BY <3>1, <3>2
  <2>10. service = "starting" /\ service' = "starting"
    BY <1>14, <2>1 DEF StartProceeds
  <2>11. \A s \in Schedules :
           /\ ~IsEnabled(s)' => job'[s] = Never
           /\ IsEnabled(s)' => Registered(s)' \/ \E i \in 1 .. Len(MainSync'.todo) : MainSync'.todo[i] = s
    BY <2>1, <2>2, <2>9 DEF IsEnabled
  <2> QED
    BY <2>1, <2>2, <2>10, <2>11 DEF StartProceeds, InLoop, MainSync
<1>15. CASE service # "up" /\ EndSync(Main)
  <2>1. service' = "up" /\ sync' = [sync EXCEPT ![Main] = NoSync]
    BY <1>15 DEF EndSync
  <2>2. sync'[Main] = NoSync
    BY <1>a, <2>1
  <2> QED
    BY <1>b, <1>d, <2>1, <2>2 DEF MainSync
<1>16. CASE service # "up"
  <2>1. Start => service = "down"
    BY DEF Start
  <2> QED
    BY <1>16, <1>1, <1>4, <1>5, <1>6, <1>8, <1>9, <1>10, <1>11, <1>12, <1>13, <1>14, <1>15, <2>1
<1> QED
  BY <1>1, <1>3, <1>16

LEMMA WithinInit == TriggerInit => JobsAreComing /\ StartProceeds
BY DEF TriggerInit, JobsAreComing, StartProceeds, InLoop, MainSync, NoSync, NoFiring, Syncers

LEMMA WithinInvariant == WithinService /\ TriggerSpec => [](TInv /\ JobsAreComing /\ StartProceeds)
<1>1. WithinService /\ TInv /\ JobsAreComing /\ StartProceeds /\ [TriggerNext]_triggerVars
        => TInv' /\ JobsAreComing' /\ StartProceeds'
  BY TriggerTypeStep, AtTriggerStep, ComingStep, ProceedsStep DEF TInv
<1>2. TriggerInit => TInv /\ JobsAreComing /\ StartProceeds
  BY TypeInit, WithinInit DEF TInv
<1>3. WithinService => [](WithinService)
  BY DEF WithinService
<1> QED
  BY <1>1, <1>2, <1>3, PTL DEF TriggerSpec

\* However many API threads enable and disable workflows at once: as long as
\* none of their calls died of a JobLookupError, every trigger of an enabled
\* workflow has its job once they are through.
THEOREM OverlapsAreHarmless == WithinService /\ TriggerSpec => []OverlapsRegister
<1>1. TInv /\ JobsAreComing /\ StartProceeds => OverlapsRegister
  BY DEF JobsAreComing, OverlapsRegister, EnabledHasJob, Quiet, IsAhead
<1> QED
  BY <1>1, WithinInvariant, PTL

\* And a start that comes through has registered exactly the enabled workflows,
\* none after its recorded slot, whatever the calls before it left behind.
THEOREM RestartsHeal == WithinService /\ TriggerSpec => RestartHeals
<1> DEFINE Healed(s) == /\ IsEnabled(s) <=> job'[s] # Never
                        /\ IsEnabled(s) => nextAt[s] # Never /\ nextAt[s] <= job'[s]
           Step == (service = "starting" /\ service' = "up") => \A s \in Schedules : Healed(s)
<1>1. WithinService /\ TInv /\ StartProceeds /\ [TriggerNext]_triggerVars => [Step]_triggerVars
  <2> SUFFICES ASSUME WithinService, TInv, StartProceeds, TriggerNext,
                      service = "starting", service' = "up", NEW s \in Schedules
               PROVE  Healed(s)
    OBVIOUS
  <2>a. /\ job \in [Schedules -> Times] /\ nextAt \in [Schedules -> Times] /\ clock \in Nat
        /\ Never \notin Nat
    BY ClockIsNat, ScheduleConstants DEF TInv, TriggerTypeOK
  <2>1. EndSync(Main)
    <3>1. ASSUME NEW r \in Schedules PROVE ~(Fire(r) \/ Misfire(r) \/ FireRead(r) \/ FireInsert(r)
                                             \/ FireAsk(r) \/ FireStamp(r))
      BY <3>1 DEF Fire, Misfire, FireRead, FireInsert, FireAsk, FireStamp, serviceVars
    <3>2. ASSUME NEW t \in Syncers
          PROVE  ~(RemoveJob(t) \/ AbortSync(t) \/ ReadStates(t) \/ Visit(t) \/ ClearState(t)
                   \/ CheckEnabled(t) \/ ReconcileRun(t) \/ StampState(t) \/ AddJob(t))
      BY <3>2 DEF RemoveJob, AbortSync, ReadStates, Visit, ClearState, CheckEnabled,
                  ReconcileRun, StampState, AddJob, serviceVars
    <3>3. ASSUME NEW t \in Syncers, t # Main PROVE ~EndSync(t)
      BY <3>3 DEF EndSync
    <3>4. ASSUME NEW t \in Syncers, NEW w \in Workflows, NEW b \in BOOLEAN PROVE ~SetEnabled(t, w, b)
      BY <3>4 DEF SetEnabled, serviceVars
    <3>5. ~Start /\ ~ServiceDown /\ ~Tick
      BY DEF Start, ServiceDown, Tick, serviceVars
    <3> QED
      BY <3>1, <3>2, <3>3, <3>4, <3>5 DEF TriggerNext
  <2>2. /\ MainSync.pc = "visit" /\ MainSync.todo = <<>>
        /\ job' = [r \in Schedules |-> IF job[r] = Never THEN Never ELSE SlotAfter(r, job[r], clock)]
    BY <2>1 DEF EndSync, MainSync
  <2>3. /\ ~IsEnabled(s) => job[s] = Never
        /\ IsEnabled(s) => job[s] # Never /\ nextAt[s] # Never /\ nextAt[s] <= job[s]
    BY <2>2 DEF StartProceeds, InLoop, Registered
  <2>4. job[s] # Never => job'[s] \in Nat /\ job[s] \in Nat /\ job[s] <= job'[s]
    BY <2>a, <2>2, SlotAfterIsLater DEF Times
  <2>5. job[s] = Never => job'[s] = Never
    BY <2>2
  <2>6. nextAt[s] # Never => nextAt[s] \in Nat
    BY <2>a DEF Times
  <2> QED
    BY <2>a, <2>3, <2>4, <2>5, <2>6
<1>2. WithinService => [](WithinService)
  BY DEF WithinService
<1>3. WithinService /\ TriggerSpec => [][Step]_triggerVars
  BY <1>1, <1>2, WithinInvariant, PTL DEF TriggerSpec
<1> QED
  BY <1>3 DEF RestartHeals
===============================================================================
