--------------------------- MODULE ScheduleTrigger ---------------------------
(***************************************************************************)
(* apscheduler_app.py: how cron and interval triggers put runs on the      *)
(* queue, how enabling and disabling a workflow re-registers the jobs, and *)
(* what a restart does about the slots it slept through.                   *)
(*                                                                         *)
(* Actors: APScheduler's thread and its pool (firing), and the callers of  *)
(* sync_jobs() (sync): the main thread at startup, API threads in          *)
(* set_workflow_enabled, and CLI processes, which share the database but   *)
(* have a scheduler of their own that is never started.  Nothing in the    *)
(* code orders these against each other.                                   *)
(*                                                                         *)
(* A clock value is the stretch of time just after that instant, so slots  *)
(* are never equal to "now".  last_scheduled_at is left out: no code reads *)
(* it back except to display it.                                           *)
(***************************************************************************)
EXTENDS Naturals, Sequences, FiniteSets

CONSTANTS
  Schedules,   \* schedule ids (workflow_id:index)
  Workflows,
  WorkflowOf,  \* [Schedules -> Workflows]
  Order,       \* the schedules in registry order
  Intervals,   \* the schedules with an INTERVAL trigger; the others are CRON
  Period,      \* [Schedules -> Nat]: distance of two slots
  Coalesce,    \* the workflows with misfire_policy COALESCE_LATEST
  Grace,       \* misfire_grace_time
  Stalls,      \* whether slots may pass while a sync_jobs() is under way
  Main,        \* the thread that runs start()
  Apis,        \* API threads that enable and disable workflows
  Clis,        \* CLI processes that do
  MaxClock,    \* bounds the model: time stops there
  MaxStops,    \* bounds the model: how often the service goes down
  Never        \* NULL, or no job

Syncers == {Main} \cup Apis \cup Clis

ASSUME ScheduleConstants ==
  /\ WorkflowOf \in [Schedules -> Workflows]
  /\ Intervals \subseteq Schedules /\ Coalesce \subseteq Workflows
  /\ Period \in [Schedules -> Nat \ {0}]
  /\ Order \in Seq(Schedules) /\ \A s \in Schedules : \E i \in 1 .. Len(Order) : Order[i] = s
  /\ MaxClock \in Nat /\ MaxStops \in Nat /\ Grace \in Nat /\ Stalls \in BOOLEAN
  /\ Never \notin Nat
  /\ Main \notin Apis \cup Clis /\ Apis \cap Clis = {}

VARIABLES
  clock,
  enabled,   \* workflow_definitions.enabled
  nextAt,    \* workflow_schedules.next_run_at
  job,       \* next_run_time of the scheduler's job, per schedule
  firing,    \* _enqueue_schedule_run() calls: where each is, what get_job said
  sync,      \* sync_jobs() calls
  service,   \* down, starting (start() runs), up
  stops,
  due,       \* history: the instant the trigger owes a run next, once scheduled
  aborted    \* history: a sync_jobs() raised since the service last started

serviceVars == <<service, stops, aborted>>
triggerVars == <<clock, enabled, nextAt, job, firing, sync, service, stops, due,
                aborted>>

Times == Nat \cup {Never}
NoFiring == [pc |-> "idle", next |-> Never]
NoSync == [pc |-> "idle", doomed |-> [s \in Schedules |-> Never], todo |-> <<>>,
           seen |-> [s \in Schedules |-> Never], now |-> 0]

IsEnabled(s) == enabled[WorkflowOf[s]]
IsPast(t, now) == t # Never /\ t <= now

TriggerTypeOK ==
  /\ clock \in 0 .. MaxClock
  /\ enabled \in [Workflows -> BOOLEAN]
  /\ nextAt \in [Schedules -> Times] /\ job \in [Schedules -> Times]
  /\ firing \in [Schedules -> [pc : {"idle", "read", "insert", "ask", "stamp",
                                     "clear"}, next : Times]]
  /\ sync \in [Syncers ->
       [pc : {"idle", "remove", "visit", "check", "insert", "stamp", "add",
              "clear"},
        doomed : [Schedules -> Times], todo : Seq(Schedules),
        seen : [Schedules -> Times], now : Nat]]
  /\ service \in {"down", "starting", "up"}
  /\ stops \in 0 .. MaxStops
  /\ due \in [Schedules -> Times]
  /\ aborted \in BOOLEAN
-----------------------------------------------------------------------------
(* Triggers.                                                               *)

\* trigger.get_next_fire_time(None, t), the trigger being built at t.
FirstSlot(s, t) ==
  IF s \in Intervals THEN t + Period[s]
  ELSE (t \div Period[s] + 1) * Period[s]

\* The first slot after t of the series that slot belongs to.
SlotAfter(s, slot, t) ==
  IF slot > t THEN slot
  ELSE slot + ((t - slot) \div Period[s] + 1) * Period[s]

\* A run of s joins workflow_runs: what was owed is paid.
Pay(s) ==
  due' = [due EXCEPT ![s] = IF due[s] = Never THEN Never ELSE FirstSlot(s, clock)]
-----------------------------------------------------------------------------
TriggerInit ==
  /\ clock = 0
  /\ enabled = [w \in Workflows |-> TRUE]
  /\ nextAt = [s \in Schedules |-> Never]
  /\ job = [s \in Schedules |-> Never]
  /\ firing = [s \in Schedules |-> NoFiring]
  /\ sync = [t \in Syncers |-> NoSync]
  /\ service = "down" /\ stops = 0
  /\ due = [s \in Schedules |-> Never]
  /\ aborted = FALSE

(* APScheduler.                                                            *)

\* Mutant: next_run_at is advanced before the run is on the queue.
Fire_StampsFirst(s) ==
  /\ service = "up" /\ IsPast(job[s], clock) /\ clock - job[s] <= Grace
  /\ firing[s].pc = "idle"
  /\ firing' = [firing EXCEPT ![s].pc = "read"]
  /\ job' = [job EXCEPT ![s] = SlotAfter(s, job[s], clock)]
  /\ nextAt' = [nextAt EXCEPT ![s] = SlotAfter(s, job[s], clock)]
  /\ UNCHANGED <<clock, enabled, sync, serviceVars, due>>

\* The scheduler thread submits _enqueue_schedule_run and advances the job.
Fire(s) ==
  /\ service = "up" /\ IsPast(job[s], clock) /\ clock - job[s] <= Grace
  /\ firing[s].pc = "idle"
  /\ firing' = [firing EXCEPT ![s].pc = "read"]
  /\ job' = [job EXCEPT ![s] = SlotAfter(s, job[s], clock)]
  /\ UNCHANGED <<clock, enabled, nextAt, sync, serviceVars, due>>

\* Too late for misfire_grace_time: the job advances and nothing is called.
Misfire(s) ==
  /\ service = "up" /\ IsPast(job[s], clock) /\ clock - job[s] > Grace
  /\ job' = [job EXCEPT ![s] = SlotAfter(s, job[s], clock)]
  /\ UNCHANGED <<clock, enabled, nextAt, firing, sync, serviceVars, due>>

\* enqueue_run() reads whether the workflow is enabled ...
FireRead(s) ==
  /\ firing[s].pc = "read"
  /\ firing' = [firing EXCEPT ![s].pc = IF IsEnabled(s) THEN "insert" ELSE "clear"]
  /\ UNCHANGED <<clock, enabled, nextAt, job, sync, serviceVars, due>>

\* ... and inserts the run in another transaction.
FireInsert(s) ==
  /\ firing[s].pc = "insert"
  /\ Pay(s)
  /\ firing' = [firing EXCEPT ![s].pc = "ask"]
  /\ UNCHANGED <<clock, enabled, nextAt, job, sync, serviceVars>>

\* self._scheduler.get_job(schedule_id)
FireAsk(s) ==
  /\ firing[s].pc = "ask"
  /\ firing' = [firing EXCEPT ![s] = [pc |-> "stamp", next |-> job[s]]]
  /\ UNCHANGED <<clock, enabled, nextAt, job, sync, serviceVars, due>>

\* update_schedule_state(next_run_at=job.next_run_time if job else None), or
\* None after WorkflowDisabledError.
FireStamp(s) ==
  /\ firing[s].pc \in {"stamp", "clear"}
  /\ nextAt' = [nextAt EXCEPT ![s] = firing[s].next]
  /\ firing' = [firing EXCEPT ![s] = NoFiring]
  /\ UNCHANGED <<clock, enabled, job, sync, serviceVars, due>>
-----------------------------------------------------------------------------
(* sync_jobs().                                                            *)

\* A CLI process has no jobs yet in its own scheduler; register_workflows
\* leaves enabled and next_run_at of known rows alone.
BeginSync(t) ==
  sync' = [sync EXCEPT ![t].pc = "remove",
             ![t].doomed = IF t \in Clis THEN NoSync.doomed ELSE job]

\* set_workflow_enabled() from the API or the CLI: UPDATE, then sync_jobs().
SetEnabled(t, w, b) ==
  /\ t # Main /\ (t \in Apis => service = "up")
  /\ sync[t].pc = "idle"
  /\ enabled' = [enabled EXCEPT ![w] = b]
  /\ due' = [s \in Schedules |-> IF WorkflowOf[s] = w THEN Never ELSE due[s]]
  /\ BeginSync(t)
  /\ UNCHANGED <<clock, nextAt, job, firing, serviceVars>>

\* service.start() reaches scheduler.start().
Start ==
  /\ service = "down"
  /\ service' = "starting" /\ aborted' = FALSE
  /\ BeginSync(Main)
  /\ UNCHANGED <<clock, enabled, nextAt, job, firing, stops, due>>

\* get_jobs() sorts by next_run_time, then by id.
Rank(s) == CHOOSE i \in DOMAIN Order : Order[i] = s
Doomed(t) == {s \in Schedules : sync[t].doomed[s] # Never}
NextDoomed(t, s) ==
  /\ s \in Doomed(t)
  /\ \A r \in Doomed(t) \ {s} :
       \/ sync[t].doomed[s] < sync[t].doomed[r]
       \/ sync[t].doomed[s] = sync[t].doomed[r] /\ Rank(s) < Rank(r)

RemoveJob(t) ==
  \E s \in Schedules :
    /\ sync[t].pc = "remove" /\ NextDoomed(t, s) /\ job[s] # Never
    /\ job' = [job EXCEPT ![s] = Never]
    /\ sync' = [sync EXCEPT ![t].doomed[s] = Never]
    /\ UNCHANGED <<clock, enabled, nextAt, firing, serviceVars, due>>

\* remove_job() raises JobLookupError when another sync has removed the job, or
\* enqueue_run() raises WorkflowDisabledError: the call ends there.  At startup
\* that ends the service.
AbortSync(t) ==
  /\ \/ /\ sync[t].pc = "remove"
        /\ \E s \in Schedules : NextDoomed(t, s) /\ job[s] = Never
     \/ sync[t].pc = "check" /\ ~IsEnabled(Head(sync[t].todo))
  /\ sync' = [sync EXCEPT ![t] = NoSync]
  /\ aborted' = TRUE
  /\ IF t = Main
     THEN /\ service' = "down"
          /\ job' = [s \in Schedules |-> Never]
     ELSE UNCHANGED <<service, job>>
  /\ UNCHANGED <<clock, enabled, nextAt, firing, stops, due>>

\* get_schedule_states() and now, before the loop over the triggers.
ReadStates(t) ==
  /\ sync[t].pc = "remove" /\ Doomed(t) = {}
  /\ sync' = [sync EXCEPT ![t].pc = "visit", ![t].todo = Order,
                          ![t].seen = nextAt, ![t].now = clock]
  /\ UNCHANGED <<clock, enabled, nextAt, job, firing, serviceVars, due>>

\* Mutant: disabled workflows are not skipped.
Visit_NoSkip(t) ==
  LET s == Head(sync[t].todo)
      missed == /\ IsPast(sync[t].seen[s], sync[t].now)
                /\ WorkflowOf[s] \in Coalesce
  IN
  /\ sync[t].pc = "visit" /\ sync[t].todo # <<>>
  /\ sync' = [sync EXCEPT ![t].pc = IF missed THEN "check" ELSE "stamp"]
  /\ UNCHANGED <<clock, enabled, nextAt, job, firing, serviceVars, due>>

\* get_workflow() for the next trigger; a missed slot is enqueued first.
Visit(t) ==
  LET s == Head(sync[t].todo)
      missed == /\ IsPast(sync[t].seen[s], sync[t].now)
                /\ WorkflowOf[s] \in Coalesce
  IN
  /\ sync[t].pc = "visit" /\ sync[t].todo # <<>>
  /\ sync' = [sync EXCEPT ![t].pc = IF ~IsEnabled(s) THEN "clear"
                                    ELSE IF missed THEN "check" ELSE "stamp"]
  /\ UNCHANGED <<clock, enabled, nextAt, job, firing, serviceVars, due>>

\* A disabled workflow: next_run_at = NULL, no job.
ClearState(t) ==
  /\ sync[t].pc = "clear"
  /\ nextAt' = [nextAt EXCEPT ![Head(sync[t].todo)] = Never]
  /\ sync' = [sync EXCEPT ![t].pc = "visit", ![t].todo = Tail(sync[t].todo)]
  /\ UNCHANGED <<clock, enabled, job, firing, serviceVars, due>>

\* enqueue_run(RECONCILE), first transaction.
CheckEnabled(t) ==
  /\ sync[t].pc = "check" /\ IsEnabled(Head(sync[t].todo))
  /\ sync' = [sync EXCEPT ![t].pc = "insert"]
  /\ UNCHANGED <<clock, enabled, nextAt, job, firing, serviceVars, due>>

\* Mutant: "continue" after the reconcile run, without a job.
ReconcileRun_Continues(t) ==
  LET s == Head(sync[t].todo) IN
  /\ sync[t].pc = "insert"
  /\ Pay(s)
  /\ sync' = [sync EXCEPT ![t].pc = "visit", ![t].todo = Tail(sync[t].todo)]
  /\ UNCHANGED <<clock, enabled, nextAt, job, firing, serviceVars>>

\* enqueue_run(RECONCILE), second transaction.
ReconcileRun(t) ==
  LET s == Head(sync[t].todo) IN
  /\ sync[t].pc = "insert"
  /\ Pay(s)
  /\ sync' = [sync EXCEPT ![t].pc = "stamp"]
  /\ UNCHANGED <<clock, enabled, nextAt, job, firing, serviceVars>>

\* update_schedule_state(next_run_at=the trigger's first slot after now)
StampState(t) ==
  LET s == Head(sync[t].todo)
      slot == FirstSlot(s, sync[t].now)
  IN
  /\ sync[t].pc = "stamp"
  /\ nextAt' = [nextAt EXCEPT ![s] = slot]
  /\ due' = [due EXCEPT ![s] = IF due[s] = Never THEN slot ELSE due[s]]
  /\ sync' = [sync EXCEPT ![t].pc = "add"]
  /\ UNCHANGED <<clock, enabled, job, firing, serviceVars>>

\* add_job(): the scheduler computes the job's first slot by its own clock.
AddJob(t) ==
  LET s == Head(sync[t].todo) IN
  /\ sync[t].pc = "add"
  /\ job' = IF t \in Clis THEN job
            ELSE [job EXCEPT ![s] =
                    SlotAfter(s, FirstSlot(s, sync[t].now), clock)]
  /\ sync' = [sync EXCEPT ![t].pc = "visit", ![t].todo = Tail(sync[t].todo)]
  /\ UNCHANGED <<clock, enabled, nextAt, firing, serviceVars, due>>

\* The loop is over; at startup the scheduler starts and computes the slots of
\* the pending jobs.
EndSync(t) ==
  /\ sync[t].pc = "visit" /\ sync[t].todo = <<>>
  /\ sync' = [sync EXCEPT ![t] = NoSync]
  /\ IF t = Main
     THEN /\ service' = "up"
          /\ job' = [s \in Schedules |->
               IF job[s] = Never THEN Never ELSE SlotAfter(s, job[s], clock)]
     ELSE UNCHANGED <<service, job>>
  /\ UNCHANGED <<clock, enabled, nextAt, firing, stops, due,
                 aborted>>
-----------------------------------------------------------------------------
\* The service stops or crashes: jobs and threads are gone, CLIs are not.
ServiceDown ==
  /\ service # "down" /\ stops < MaxStops
  /\ service' = "down" /\ stops' = stops + 1
  /\ job' = [s \in Schedules |-> Never]
  /\ firing' = [s \in Schedules |-> NoFiring]
  /\ sync' = [t \in Syncers |-> IF t \in Clis THEN sync[t] ELSE NoSync]
  /\ UNCHANGED <<clock, enabled, nextAt, due, aborted>>

\* Time passes.  A firing (three short transactions) is over before its job is
\* due again, so max_instances=1 never skips one.
Tick ==
  /\ clock < MaxClock
  /\ \A s \in Schedules : firing[s].pc # "idle" => ~IsPast(job[s], clock + 1)
  /\ ~Stalls => \A t \in Syncers : sync[t].pc = "idle"
  /\ clock' = clock + 1
  /\ UNCHANGED <<enabled, nextAt, job, firing, sync, serviceVars, due>>

TriggerNext ==
  \/ \E s \in Schedules :
       \/ Fire(s) \/ Misfire(s) \/ FireRead(s) \/ FireInsert(s)
       \/ FireAsk(s) \/ FireStamp(s)
  \/ \E t \in Syncers :
       \/ RemoveJob(t) \/ AbortSync(t) \/ ReadStates(t) \/ Visit(t)
       \/ ClearState(t) \/ CheckEnabled(t) \/ ReconcileRun(t) \/ StampState(t)
       \/ AddJob(t) \/ EndSync(t)
  \/ \E t \in Syncers, w \in Workflows, b \in BOOLEAN : SetEnabled(t, w, b)
  \/ Start \/ ServiceDown \/ Tick

TriggerSpec == TriggerInit /\ [][TriggerNext]_triggerVars
-----------------------------------------------------------------------------
Owed(s) == IsEnabled(s) /\ IsPast(due[s], clock)
Quiet == /\ service = "up"
         /\ \A t \in Syncers : sync[t].pc = "idle"
         /\ \A s \in Schedules : firing[s].pc = "idle"

\* A run that a coalescing cron schedule owes is on record in the database:
\* next_run_at is a past instant, so a restart at any moment enqueues it.  A
\* crash between a fire, its INSERT and its update, or inside sync_jobs(), loses
\* no slot.
SlotIsRemembered ==
  \A s \in Schedules \ Intervals :
    (Owed(s) /\ WorkflowOf[s] \in Coalesce) => IsPast(nextAt[s], clock)

\* What the database says about the next run is never later than what the
\* scheduler will do: a slot in between would be lost to a restart.
RecordIsNotAhead ==
  Quiet => \A s \in Schedules :
    job[s] # Never => nextAt[s] # Never /\ nextAt[s] <= job[s]

\* Whenever no call is under way, each trigger of an enabled workflow has a job.
\* It fails after a CLI process has enabled a workflow: its sync_jobs() fills a
\* scheduler that is never started.
EnabledHasJob ==
  Quiet => \A s \in Schedules : IsEnabled(s) => job[s] # Never

\* Within the service it holds however calls of sync_jobs() overlap, as long as
\* none of them dies halfway of a JobLookupError: no enable is forgotten because
\* another thread had read the workflow as disabled or removed its job.
OverlapsRegister == ~aborted => EnabledHasJob

\* Whatever overlapping calls left behind (jobs missing, jobs of disabled
\* workflows, next_run_at NULL), a restart puts right: when start() is through,
\* exactly the enabled workflows have jobs, none before its recorded slot.
RestartHeals ==
  [][(service = "starting" /\ service' = "up") =>
       \A s \in Schedules :
         /\ IsEnabled(s) <=> job'[s] # Never
         /\ IsEnabled(s) => nextAt[s] # Never /\ nextAt[s] <= job'[s]]_triggerVars
=============================================================================
