---------------------------- MODULE WorkflowLocks ----------------------------
(***************************************************************************)
(* lock_manager.py with its clock.  Every method reads the clock first and *)
(* runs its transaction afterwards, under a mutex that other methods may   *)
(* hold for a while: the reading it uses can be old.  A holder renews its  *)
(* lease from a heartbeat thread that waits HeartbeatEvery between beats;  *)
(* a beat may fail (the exception is logged and swallowed), the holder may *)
(* die, and any process may sweep the expired rows.                        *)
(*                                                                         *)
(* The defaults of config.py are chosen for clients that are on time: they *)
(* commit within MaxDelay of their clock reading and skip no beat.  Nothing*)
(* makes them be on time; late records who is not.                         *)
(***************************************************************************)
EXTENDS Integers

CONSTANTS
  LockKeys, Leases, NoLease,
  LockKeyOf,       \* [Leases -> LockKeys]: the key each lease is for
  LeaseSeconds,    \* config.lock_lease_seconds
  HeartbeatEvery,  \* config.lock_heartbeat_seconds
  MaxDelay,        \* the delay from reading to commit the defaults allow for
  MaxClock         \* bounds the model: time stops there

ASSUME LocksConstants ==
  /\ NoLease \notin Leases
  /\ LockKeyOf \in [Leases -> LockKeys]
  /\ LeaseSeconds \in Nat /\ HeartbeatEvery \in Nat /\ MaxDelay \in Nat
  /\ MaxClock \in Nat

\* What makes a lease long enough for its heartbeat (300 s against 30 s).
ASSUME LeaseCoversHeartbeat == HeartbeatEvery + 2 * MaxDelay <= LeaseSeconds

VARIABLES
  clock,    \* the wall clock _utc_now() reads
  rows,     \* workflow_locks: lock key -> lease and lease_expires_at
  stage,    \* where each lease's client is
  since,    \* acquiring, beating: the reading in use; holding: when it began; else 0
  sweeping, \* the reading of a cleanup_stale_locks() under way, or -1
  late      \* history: the leases in use that missed a deadline or a beat

vars == <<clock, rows, stage, since, sweeping, late>>

Stages ==
  {"idle", "acquiring", "holding", "beating", "stopping", "gone"}
Absent == [lease |-> NoLease, expires |-> -1]

\* A run executes its steps while its heartbeat thread lives.
Executing(l) == stage[l] \in {"holding", "beating"}

Expired(k, now) == rows[k].expires < now

TypeOK ==
  /\ clock \in 0 .. MaxClock
  /\ rows \in [LockKeys -> [lease : Leases \cup {NoLease}, expires : Int]]
  /\ stage \in [Leases -> Stages]
  /\ since \in [Leases -> Nat]
  /\ sweeping \in Nat \cup {-1}
  /\ late \in SUBSET Leases
-----------------------------------------------------------------------------
Init ==
  /\ clock = 0
  /\ rows = [k \in LockKeys |-> Absent]
  /\ stage = [l \in Leases |-> "idle"]
  /\ since = [l \in Leases |-> 0]
  /\ sweeping = -1
  /\ late = {}

\* acquire(), first half: now = _utc_now().
BeginAcquire(l) ==
  /\ stage[l] = "idle"
  /\ stage' = [stage EXCEPT ![l] = "acquiring"]
  /\ since' = [since EXCEPT ![l] = clock]
  /\ UNCHANGED <<clock, rows, sweeping, late>>

\* Mutant: the expiry is not looked at.
CommitAcquire_Steals(l) ==
  LET k == LockKeyOf[l] IN
  /\ stage[l] = "acquiring"
  /\ rows' = [rows EXCEPT ![k] =
                [lease |-> l, expires |-> since[l] + LeaseSeconds]]
  /\ stage' = [stage EXCEPT ![l] = "holding"]
  /\ since' = [since EXCEPT ![l] = clock]
  /\ UNCHANGED <<clock, sweeping, late>>

\* acquire(), second half: no row, or one that expired before the reading.
CommitAcquire(l) ==
  LET k == LockKeyOf[l] IN
  /\ stage[l] = "acquiring"
  /\ rows[k].lease = NoLease \/ Expired(k, since[l])
  /\ rows' = [rows EXCEPT ![k] =
                [lease |-> l, expires |-> since[l] + LeaseSeconds]]
  /\ stage' = [stage EXCEPT ![l] = "holding"]
  /\ since' = [since EXCEPT ![l] = clock]
  /\ UNCHANGED <<clock, sweeping, late>>

\* acquire() raises WorkflowLockUnavailableError; the caller requeues the run.
RefuseAcquire(l) ==
  LET k == LockKeyOf[l] IN
  /\ stage[l] = "acquiring"
  /\ rows[k].lease # NoLease /\ ~Expired(k, since[l])
  /\ stage' = [stage EXCEPT ![l] = "idle"]
  /\ since' = [since EXCEPT ![l] = 0]
  /\ late' = late \ {l}
  /\ UNCHANGED <<clock, rows, sweeping>>

\* The heartbeat thread wakes up and heartbeat() reads the clock.
BeginBeat(l) ==
  /\ stage[l] = "holding"
  /\ clock >= since[l] + HeartbeatEvery
  /\ stage' = [stage EXCEPT ![l] = "beating"]
  /\ since' = [since EXCEPT ![l] = clock]
  /\ UNCHANGED <<clock, rows, sweeping, late>>

\* heartbeat() extends the row if it still names this lease; 0 rows is no error.
CommitBeat(l) ==
  LET k   == LockKeyOf[l]
      new == [lease |-> l, expires |-> since[l] + LeaseSeconds]
  IN
  /\ stage[l] = "beating"
  /\ rows' = IF rows[k].lease = l THEN [rows EXCEPT ![k] = new] ELSE rows
  /\ stage' = [stage EXCEPT ![l] = "holding"]
  /\ since' = [since EXCEPT ![l] = clock]
  /\ UNCHANGED <<clock, sweeping, late>>

\* heartbeat() raises: _heartbeat_loop logs a warning and waits for the next.
FailBeat(l) ==
  /\ stage[l] = "beating"
  /\ stage' = [stage EXCEPT ![l] = "holding"]
  /\ since' = [since EXCEPT ![l] = clock]
  /\ late' = late \cup {l}
  /\ UNCHANGED <<clock, rows, sweeping>>

\* The run is over: the heartbeat thread is stopped, then release() is called.
StopBeats(l) ==
  /\ stage[l] = "holding"
  /\ stage' = [stage EXCEPT ![l] = "stopping"]
  /\ since' = [since EXCEPT ![l] = 0]
  /\ late' = late \ {l}
  /\ UNCHANGED <<clock, rows, sweeping>>

\* release() deletes the row only if it still names this lease.
CommitRelease(l) ==
  LET k == LockKeyOf[l] IN
  /\ stage[l] = "stopping"
  /\ rows' = IF rows[k].lease = l THEN [rows EXCEPT ![k] = Absent] ELSE rows
  /\ stage' = [stage EXCEPT ![l] = "gone"]
  /\ UNCHANGED <<clock, since, sweeping, late>>

\* The process dies, or release() raises: the row outlives its holder.
Die(l) ==
  /\ stage[l] \notin {"idle", "gone"}
  /\ stage' = [stage EXCEPT ![l] = "gone"]
  /\ since' = [since EXCEPT ![l] = 0]
  /\ late' = late \ {l}
  /\ UNCHANGED <<clock, rows, sweeping>>

\* cleanup_stale_locks(): the reading, then the DELETE of what it finds expired.
BeginSweep ==
  /\ sweeping = -1
  /\ sweeping' = clock
  /\ UNCHANGED <<clock, rows, stage, since, late>>

CommitSweep ==
  /\ sweeping # -1
  /\ rows' = [k \in LockKeys |-> IF Expired(k, sweeping) THEN Absent ELSE rows[k]]
  /\ sweeping' = -1
  /\ UNCHANGED <<clock, stage, since, late>>

\* The clients whose deadline is now: another tick makes them late.
Due ==
  {l \in Leases :
     \/ stage[l] \in {"acquiring", "beating"} /\ clock >= since[l] + MaxDelay
     \/ stage[l] = "holding" /\ clock >= since[l] + HeartbeatEvery}

Tick ==
  /\ clock < MaxClock
  /\ clock' = clock + 1
  /\ late' = late \cup Due
  /\ UNCHANGED <<rows, stage, since, sweeping>>

Next ==
  \/ \E l \in Leases :
       \/ BeginAcquire(l) \/ CommitAcquire(l) \/ RefuseAcquire(l)
       \/ BeginBeat(l) \/ CommitBeat(l) \/ FailBeat(l)
       \/ StopBeats(l) \/ CommitRelease(l) \/ Die(l)
  \/ BeginSweep \/ CommitSweep
  \/ Tick

Spec == Init /\ [][Next]_vars
-----------------------------------------------------------------------------
\* Of two runs of one lock key that execute at the same time, one was late: it
\* missed a deadline of its heartbeat (lock_manager.acquire/heartbeat and
\* _heartbeat_loop; nothing tells such a run that its lease is gone).
MutualExclusion ==
  \A l, m \in Leases :
    (Executing(l) /\ Executing(m) /\ LockKeyOf[l] = LockKeyOf[m] /\ l # m)
      => l \in late \/ m \in late

\* A live row is only ever removed or replaced by its own holder's release(),
\* however old the clock readings of acquire() and cleanup_stale_locks() are.
LiveRowIsSafe ==
  [][\A k \in LockKeys :
       (rows[k].lease # NoLease /\ rows[k].expires >= clock
          /\ rows'[k].lease # rows[k].lease)
       => stage[rows[k].lease] = "stopping"]_vars

\* heartbeat() never brings the expiry of a lease forward, though the reading
\* it commits may be old.
LeaseOnlyExtended ==
  [][\A k \in LockKeys :
       (rows[k].lease # NoLease /\ rows'[k].lease = rows[k].lease)
       => rows'[k].expires >= rows[k].expires]_vars

\* The timed lock manager implements the lease table the dispatcher relies on:
\* a row is live while its expiry is not past.
Holder == [k \in LockKeys |-> rows[k].lease]
Live   == {k \in LockKeys : rows[k].expires >= clock}
Table  == INSTANCE LeaseTable WITH holder <- Holder, live <- Live
ImplementsLeaseTable == Table!TableSpec
=============================================================================
