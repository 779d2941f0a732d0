---------------------------- MODULE RunDispatcher ----------------------------
(***************************************************************************)
(* The run queue of the pipelines service: run_dispatcher.py over          *)
(* run_repository.py and the lock table, with service.start()/stop().      *)
(*                                                                         *)
(* Actors: the dispatcher thread (variable at), one worker thread with a   *)
(* heartbeat thread per started run (workers), API threads and CLI         *)
(* processes that enqueue and cancel (cancels), and the service process    *)
(* itself, which stops, crashes and restarts (service).  Each repository   *)
(* method is one transaction and one action; what happens between two      *)
(* transactions of the same caller is an interleaving point.               *)
(*                                                                         *)
(* The steps inside a run are StepExecution's subject, when the clock      *)
(* lets a lease lapse is WorkflowLocks'.                                   *)
(***************************************************************************)
EXTENDS Naturals, FiniteSets

CONSTANTS
  Runs,               \* run ids
  LockKeys,           \* lock keys of the registered workflows
  LockKeyOf,          \* [Runs -> LockKeys \cup {NoKey}]
  NoKey,              \* the run's workflow is not in the registry
  NoRun,
  MaxConcurrentRuns,  \* max(1, config.max_concurrent_runs)
  HeartbeatsKeepUp,   \* no lease lapses while its heartbeat thread lives
  Faults,             \* repository calls and thread starts may raise
  MaxRestarts         \* bounds the model: how often the service goes down

ASSUME DispatcherConstants ==
  /\ IsFiniteSet(Runs) /\ NoRun \notin Runs
  /\ NoKey \notin LockKeys
  /\ LockKeyOf \in [Runs -> LockKeys \cup {NoKey}]
  /\ MaxConcurrentRuns \in Nat \ {0}
  /\ HeartbeatsKeepUp \in BOOLEAN /\ Faults \in BOOLEAN
  /\ MaxRestarts \in Nat

VARIABLES
  status,    \* workflow_runs.status, "absent" before the INSERT
  stamped,   \* runs whose caller has read queued_at off the clock, and not written it
  ahead,     \* per queued or stamped run, those of them with an earlier time
  holder,    \* workflow_locks: the run each row names
  live,      \* workflow_locks: the keys whose row has not expired
  at,        \* where the dispatcher thread is
  hand,      \* the run it has leased from the queue and not passed on
  blocked,   \* blocked_run_ids of the current pass
  workers,   \* _worker_threads: the stage of each run's worker thread
  cancels,   \* cancel_run() calls that have read status QUEUED
  service,   \* the process: up, stopping (_stop_event set) or down
  restarts   \* how often it went down

INSTANCE LeaseTable WITH Leases <- Runs, NoLease <- NoRun

locks       == <<holder, live>>
queueVars   == <<status, stamped, ahead>>
threadVars  == <<at, hand, blocked>>
serviceVars == <<service, restarts>>
vars == <<status, stamped, ahead, holder, live, at, hand, blocked, workers, cancels,
          service, restarts>>

Terminal == {"succeeded", "failed", "canceled"}
Statuses == {"absent", "queued", "running"} \cup Terminal
InHand   == {"leased", "refused", "requeuing", "acquired"}
Stages   == {"none", "running", "finishing", "exiting"}

Queued  == {r \in Runs : status[r] = "queued"}
Busy    == {r \in Runs : workers[r] # "none"}
Working == {r \in Runs : workers[r] = "running"}

\* A heartbeat thread, or a dispatcher about to start one, stands behind r.
KeptAlive(r) == r \in Working \/ (at = "acquired" /\ hand = r)

TypeOK ==
  /\ status \in [Runs -> Statuses]
  /\ stamped \in SUBSET Runs /\ ahead \in [Runs -> SUBSET Runs]
  /\ LocksOK
  /\ at \in {"polling", "scanning"} \cup InHand
  /\ hand \in Runs \cup {NoRun}
  /\ blocked \in SUBSET Runs
  /\ workers \in [Runs -> Stages]
  /\ cancels \in SUBSET Runs
  /\ service \in {"up", "stopping", "down"}
  /\ restarts \in 0 .. MaxRestarts
-----------------------------------------------------------------------------
(* Rows of workflow_runs.                                                  *)

\* now = utc_now(), before the mutex is waited for: behind whoever has read the
\* clock already, queued or not yet (no two readings are the same instant).
ReadClock(r) ==
  /\ stamped' = stamped \cup {r}
  /\ ahead' = [ahead EXCEPT ![r] = (Queued \cup stamped) \ {r}]
  /\ UNCHANGED status

\* The INSERT or UPDATE with that time: among the queued runs there may be some
\* that read the clock later and came first.
TakePlace(r) ==
  /\ status' = [status EXCEPT ![r] = "queued"]
  /\ stamped' = stamped \ {r}
  /\ UNCHANGED ahead

\* Nobody queues behind r any more.
LeaveLine(r) ==
  /\ stamped' = stamped \ {r}
  /\ ahead' = [q \in Runs |-> IF q = r THEN {} ELSE ahead[q] \ {r}]

\* Any other status; a time that was read is still going to be written.
SetStatus(r, s) ==
  /\ status' = [status EXCEPT ![r] = s]
  /\ IF r \in stamped THEN UNCHANGED <<stamped, ahead>> ELSE LeaveLine(r)

\* The oldest queued run whose id is not excluded.
NextQueued(r) ==
  /\ r \in Queued \ blocked
  /\ ahead[r] \cap (Queued \ blocked) = {}
-----------------------------------------------------------------------------
Init ==
  /\ status = [r \in Runs |-> "absent"]
  /\ stamped = {} /\ ahead = [r \in Runs |-> {}]
  /\ TableInit
  /\ at = "polling" /\ hand = NoRun /\ blocked = {}
  /\ workers = [r \in Runs |-> "none"]
  /\ cancels = {}
  /\ service = "down" /\ restarts = 0

(* API threads, CLI processes and the scheduler.                           *)

\* trigger_workflow, retry_run, a schedule tick or an ingest event: enqueue_run
\* reads the clock ...
EnqueueReads(r) ==
  /\ status[r] = "absent" /\ r \notin stamped
  /\ ReadClock(r)
  /\ UNCHANGED <<locks, threadVars, workers, cancels, serviceVars>>

\* ... and inserts the row,
Enqueue(r) ==
  /\ status[r] = "absent" /\ r \in stamped
  /\ TakePlace(r)
  /\ UNCHANGED <<locks, threadVars, workers, cancels, serviceVars>>

\* unless that raises or its process ends first.
EnqueueFails(r) ==
  /\ status[r] = "absent" /\ r \in stamped
  /\ LeaveLine(r)
  /\ UNCHANGED <<status, locks, threadVars, workers, cancels, serviceVars>>

\* cancel_run(): get_run, which finds the run queued ...
CancelRead(r) ==
  /\ status[r] = "queued" /\ r \notin cancels
  /\ cancels' = cancels \cup {r}
  /\ UNCHANGED <<queueVars, locks, threadVars, workers, serviceVars>>

\* ... then update_run_result(CANCELED), whatever the status is by now.
CancelWrite(r) ==
  /\ r \in cancels
  /\ SetStatus(r, "canceled")
  /\ cancels' = cancels \ {r}
  /\ UNCHANGED <<locks, threadVars, workers, serviceVars>>
-----------------------------------------------------------------------------
(* The dispatcher thread: run_forever and _dispatch_available_runs.        *)

BeginPass ==
  /\ at = "polling" /\ service = "up"
  /\ at' = "scanning"
  /\ UNCHANGED <<queueVars, locks, hand, blocked, workers, cancels, serviceVars>>

\* No slot, no queued run that is not blocked, _stop_event, or the lease
\* transaction raised: wait a poll.
PassEnds ==
  /\ at = "scanning"
  /\ \/ Cardinality(Busy) >= MaxConcurrentRuns
     \/ Queued \subseteq blocked
     \/ service = "stopping"
     \/ Faults
  /\ at' = "polling" /\ blocked' = {}
  /\ UNCHANGED <<queueVars, locks, hand, workers, cancels, serviceVars>>

\* Mutant: one slot too many.
LeaseNext_OffByOne(r) ==
  /\ at = "scanning" /\ service = "up"
  /\ Cardinality(Busy) <= MaxConcurrentRuns
  /\ NextQueued(r)
  /\ SetStatus(r, "running")
  /\ at' = "leased" /\ hand' = r
  /\ UNCHANGED <<locks, blocked, workers, cancels, serviceVars>>

\* lease_next_queued_run(excluded_run_ids=blocked_run_ids)
LeaseNext(r) ==
  /\ at = "scanning" /\ service = "up"
  /\ Cardinality(Busy) < MaxConcurrentRuns
  /\ NextQueued(r)
  /\ SetStatus(r, "running")
  /\ at' = "leased" /\ hand' = r
  /\ UNCHANGED <<locks, blocked, workers, cancels, serviceVars>>

\* _fail_unknown_workflow_run, then "return True": the caller's use of the
\* result raises, run_forever logs it and waits a poll; the pass is over.
FailUnknown ==
  /\ at = "leased" /\ LockKeyOf[hand] = NoKey
  /\ SetStatus(hand, "failed")
  /\ at' = "polling" /\ hand' = NoRun /\ blocked' = {}
  /\ UNCHANGED <<locks, workers, cancels, serviceVars>>

AcquireLock ==
  /\ at = "leased" /\ LockKeyOf[hand] # NoKey
  /\ \E fresh \in BOOLEAN :
       /\ HeartbeatsKeepUp => fresh
       /\ Acquire(LockKeyOf[hand], hand, fresh)
  /\ at' = "acquired"
  /\ UNCHANGED <<queueVars, hand, blocked, workers, cancels, serviceVars>>

LockUnavailable ==
  /\ at = "leased" /\ LockKeyOf[hand] # NoKey
  /\ LockKeyOf[hand] \in live
  /\ at' = "refused"
  /\ UNCHANGED <<queueVars, locks, hand, blocked, workers, cancels, serviceVars>>

\* requeue_run(): now_text = utc_now() ...
RequeueReads ==
  /\ at = "refused" /\ at' = "requeuing"
  /\ ReadClock(hand)
  /\ UNCHANGED <<locks, hand, blocked, workers, cancels, serviceVars>>

\* Mutants: the row keeps status running; the pass ends and queued_at is kept, so
\* the run blocks the line; the run is not put into blocked_run_ids.
Requeue_KeepsStatus ==
  /\ at = "requeuing"
  /\ LeaveLine(hand)
  /\ blocked' = blocked \cup {hand}
  /\ at' = "scanning" /\ hand' = NoRun
  /\ UNCHANGED <<status, locks, workers, cancels, serviceVars>>

Requeue_BlocksLine ==
  /\ at = "requeuing"
  /\ status' = [status EXCEPT ![hand] = "queued"]
  /\ stamped' = stamped \ {hand}
  /\ ahead' = [r \in Runs |->
       IF r = hand THEN {} ELSE IF r \in Queued \cup stamped THEN ahead[r] \cup {hand} ELSE {}]
  /\ at' = "polling" /\ hand' = NoRun /\ blocked' = {}
  /\ UNCHANGED <<locks, workers, cancels, serviceVars>>

Requeue_Forgets ==
  /\ at = "requeuing"
  /\ TakePlace(hand)
  /\ at' = "scanning" /\ hand' = NoRun
  /\ UNCHANGED <<locks, blocked, workers, cancels, serviceVars>>

\* ... and its UPDATE, unconditional; the pass goes on without the run.
Requeue ==
  /\ at = "requeuing"
  /\ TakePlace(hand)
  /\ blocked' = blocked \cup {hand}
  /\ at' = "scanning" /\ hand' = NoRun
  /\ UNCHANGED <<locks, workers, cancels, serviceVars>>

SpawnWorker ==
  /\ at = "acquired"
  /\ workers' = [workers EXCEPT ![hand] = "running"]
  /\ at' = "scanning" /\ hand' = NoRun /\ blocked' = {}
  /\ UNCHANGED <<queueVars, locks, cancels, serviceVars>>

\* acquire, requeue_run or Thread.start raises; the run is marked failed, or
\* keeps its status when that raises too (requeue_run raises before its UPDATE,
\* or after it, in get_run).  A lock already taken is kept.
DispatchFault ==
  /\ Faults /\ at \in InHand
  /\ \/ status' = [status EXCEPT ![hand] = "failed"] /\ LeaveLine(hand)
     \/ UNCHANGED status /\ LeaveLine(hand)
     \/ at = "requeuing" /\ TakePlace(hand)
  /\ at' = "scanning" /\ hand' = NoRun /\ blocked' = {}
  /\ UNCHANGED <<locks, workers, cancels, serviceVars>>
-----------------------------------------------------------------------------
(* Worker and heartbeat threads: _execute_run_in_worker.                   *)

\* _execute_run ends with update_run_result(SUCCEEDED or FAILED).
FinishRun(r) ==
  /\ workers[r] = "running"
  /\ \E s \in {"succeeded", "failed"} : SetStatus(r, s)
  /\ workers' = [workers EXCEPT ![r] = "finishing"]
  /\ UNCHANGED <<locks, threadVars, cancels, serviceVars>>

\* The result cannot be persisted and neither can the failure.
LoseResult(r) ==
  /\ Faults /\ workers[r] = "running"
  /\ workers' = [workers EXCEPT ![r] = "finishing"]
  /\ UNCHANGED <<queueVars, locks, threadVars, cancels, serviceVars>>

\* update_run_result() committed the result, then raised in get_run: _execute_run
\* takes that for a crash of the run and marks it failed.
RetractResult(r) ==
  /\ Faults /\ workers[r] = "finishing"
  /\ status[r] \in {"succeeded", "failed", "canceled"}
  /\ SetStatus(r, "failed")
  /\ UNCHANGED <<locks, threadVars, workers, cancels, serviceVars>>

\* lock_manager.release(lease); an exception is logged and the row stays.
ReleaseLock(r) ==
  /\ workers[r] = "finishing"
  /\ Release(LockKeyOf[r], r) \/ (Faults /\ UNCHANGED locks)
  /\ workers' = [workers EXCEPT ![r] = "exiting"]
  /\ UNCHANGED <<queueVars, threadVars, cancels, serviceVars>>

WorkerExits(r) ==
  /\ workers[r] = "exiting"
  /\ workers' = [workers EXCEPT ![r] = "none"]
  /\ UNCHANGED <<queueVars, locks, threadVars, cancels, serviceVars>>

\* _heartbeat_loop: one lock_manager.heartbeat(lease).
Heartbeat(r) ==
  /\ workers[r] = "running"
  /\ Renew(LockKeyOf[r], r, TRUE)
  /\ UNCHANGED <<queueVars, threadVars, workers, cancels, serviceVars>>

\* A lease runs out.
LeaseLapses(k) ==
  /\ k \in live
  /\ HeartbeatsKeepUp => ~KeptAlive(holder[k])
  /\ Lapse({k})
  /\ UNCHANGED <<queueVars, threadVars, workers, cancels, serviceVars>>
-----------------------------------------------------------------------------
(* The service process.                                                    *)

\* Mutants: every row that is not queued is failed; running rows are requeued.
Start_FailsAll ==
  /\ service = "down"
  /\ status' = [r \in Runs |->
                  IF status[r] \in {"absent", "queued"} THEN status[r] ELSE "failed"]
  /\ Sweep(LockKeys \ live)
  /\ service' = "up"
  /\ UNCHANGED <<stamped, ahead, threadVars, workers, cancels, restarts>>

Start_Requeues ==
  /\ service = "down"
  /\ status' = [r \in Runs |->
                  IF status[r] = "running" THEN "queued" ELSE status[r]]
  /\ Sweep(LockKeys \ live)
  /\ service' = "up"
  /\ UNCHANGED <<stamped, ahead, threadVars, workers, cancels, restarts>>

\* start(): mark_stale_running_runs_failed, cleanup_stale_locks, dispatcher.
Start ==
  /\ service = "down"
  /\ status' = [r \in Runs |->
                  IF status[r] = "running" THEN "failed" ELSE status[r]]
  /\ Sweep(LockKeys \ live)
  /\ service' = "up"
  /\ UNCHANGED <<stamped, ahead, threadVars, workers, cancels, restarts>>

\* stop(): sets _stop_event, then waits a while for the threads.
Stop ==
  /\ service = "up" /\ restarts < MaxRestarts
  /\ service' = "stopping"
  /\ UNCHANGED <<queueVars, locks, threadVars, workers, cancels, restarts>>

\* The process ends, after stop() or by a crash, and its threads with it (an API
\* thread that was to insert a row is EnqueueFails); its step processes die too
\* (systemd kills the service's control group).
GoDown ==
  /\ service # "down" /\ restarts < MaxRestarts
  /\ service' = "down" /\ restarts' = restarts + 1
  /\ at' = "polling" /\ hand' = NoRun /\ blocked' = {}
  /\ workers' = [r \in Runs |-> "none"]
  /\ LeaveLine(hand)
  /\ UNCHANGED <<status, locks, cancels>>

-----------------------------------------------------------------------------
Dispatch ==
  \/ BeginPass \/ PassEnds
  \/ \E r \in Runs : LeaseNext(r)
  \/ FailUnknown \/ AcquireLock \/ LockUnavailable \/ RequeueReads \/ Requeue \/ SpawnWorker

Worker(r) == FinishRun(r) \/ ReleaseLock(r) \/ WorkerExits(r)

Next ==
  \/ \E r \in Runs : EnqueueReads(r) \/ Enqueue(r) \/ EnqueueFails(r)
  \/ \E r \in Runs : CancelRead(r) \/ CancelWrite(r)
  \/ Dispatch \/ DispatchFault
  \/ \E r \in Runs : Worker(r) \/ LoseResult(r) \/ RetractResult(r) \/ Heartbeat(r)
  \/ \E k \in LockKeys : LeaseLapses(k)
  \/ Start \/ Stop \/ GoDown

Spec == Init /\ [][Next]_vars

\* The dispatcher and worker threads are never starved, steps end (each has a
\* timeout), leases that nobody renews run out, and systemd restarts the
\* service (Restart=always).
Fairness(Hung) ==
  /\ WF_vars(Dispatch)
  /\ \A r \in Runs \ Hung : WF_vars(Worker(r))
  /\ \A k \in LockKeys : WF_vars(LeaseLapses(k))
  /\ WF_vars(Start)
  /\ WF_vars(service = "stopping" /\ GoDown)

FairSpec == Spec /\ Fairness({})
-----------------------------------------------------------------------------
(* Safety.                                                                 *)

\* _available_slots: worker threads never outnumber max_concurrent_runs, the
\* one about to be started included, although slots are counted long before.
SlotBound ==
  Cardinality(Busy) + (IF at \in InHand THEN 1 ELSE 0) <= MaxConcurrentRuns

\* Workflows with the same lock_key are never executed at the same time.
OneWorkerPerLockKey ==
  \A r, s \in Working : LockKeyOf[r] = LockKeyOf[s] => r = s

\* A worker's lease names its run from Thread.start to the end of its steps, so
\* nothing another run, a sweep or a restart does has taken it over.
WorkersHoldTheirLock ==
  \A r \in Runs : KeptAlive(r) =>
    holder[LockKeyOf[r]] = r /\ LockKeyOf[r] \in live

\* While the service runs, a row in status running is being dealt with: no
\* interleaving of dispatch, requeue, cancel and stop strands a run.
RunningIsOwned ==
  (service # "down" /\ ~Faults) =>
    \A r \in Runs : status[r] = "running" => (hand = r \/ r \in Working)

\* A recorded result changes in two ways only: a cancel_run() that had read the
\* run as queued, or the run's own worker, before it releases its lock, marking
\* it failed.  No requeue, restart or other worker touches it.
SettledIsKept ==
  [][\A r \in Runs :
       (status[r] \in {"succeeded", "failed"} /\ status'[r] # status[r])
       => \/ r \in cancels /\ status'[r] = "canceled"
          \/ workers[r] = "finishing" /\ status'[r] = "failed"]_vars

\* The queue with its threads and restarts implements the job server: a run is
\* started at most once, within the slots and - as long as leases are renewed
\* in time - alone on its lock key.
Phase(r) ==
  IF status[r] = "absent" THEN "absent"
  ELSE IF r \in Working THEN "active"
  ELSE IF r \in Queued \/ hand = r THEN "pending"
  ELSE "closed"

Phases == [r \in Runs |-> Phase(r)]
Server == INSTANCE JobServer WITH phase <- Phases, Exclusive <- HeartbeatsKeepUp
ImplementsJobServer == Server!ServerSpec

\* The run state machine of the architecture document: CANCELED is final.
CanceledIsFinal ==
  [][\A r \in Runs : status[r] = "canceled" => status'[r] = "canceled"]_vars

-----------------------------------------------------------------------------
(* Liveness.                                                               *)

\* A pass does not spin on runs that wait for a lock (blocked_run_ids).
PassTerminates == at # "polling" ~> at = "polling"
=============================================================================
