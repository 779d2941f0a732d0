------------------------- MODULE RunDispatcherProofs -------------------------
(***************************************************************************)
(* The safety of the run queue for every set of runs, every registry and   *)
(* every number of slots, by one inductive invariant.                      *)
(***************************************************************************)
EXTENDS RunDispatcher, FiniteSetTheorems, TLAPS

\* The dispatcher holds a run exactly between leasing it and passing it on; the
\* run has no thread yet, and once its lock was asked for, it has a lock key.
HandIsApart ==
  /\ (at \in InHand) <=> (hand \in Runs)
  /\ at \in InHand => workers[hand] = "none"
  /\ at \in {"refused", "requeuing", "acquired"} => LockKeyOf[hand] \in LockKeys

\* What a run that is in hand or executing can be in the table: running, or
\* canceled behind the dispatcher's back.
AttendedStatus ==
  \A r \in Runs :
    /\ (hand = r \/ workers[r] = "running") => status[r] \in {"running", "canceled"}
    /\ workers[r] # "none" => /\ status[r] \notin {"absent", "queued"}
                              /\ LockKeyOf[r] \in LockKeys

\* Nobody cancels a run that does not exist.
CancelsExist == \A r \in cancels : status[r] # "absent"

\* A service that is down has no threads.
DownIsIdle ==
  service = "down" => at = "polling" /\ \A r \in Runs : workers[r] = "none"

LocksAreHeld == HeartbeatsKeepUp => WorkersHoldTheirLock

IInv ==
  /\ TypeOK
  /\ HandIsApart
  /\ AttendedStatus
  /\ CancelsExist
  /\ DownIsIdle
  /\ SlotBound
  /\ LocksAreHeld
  /\ RunningIsOwned
-----------------------------------------------------------------------------
(* What the pieces of the actions do to the variables they share.          *)

LEMMA StatusUpdates ==
  ASSUME TypeOK, NEW r \in Runs
  PROVE  /\ ReadClock(r) \/ TakePlace(r) \/ LeaveLine(r) \/ (\E s : SetStatus(r, s)) =>
              stamped' \in SUBSET Runs /\ ahead' \in [Runs -> SUBSET Runs]
         /\ TakePlace(r) => status' \in [Runs -> Statuses]
         /\ \A s \in Statuses : SetStatus(r, s) => status' \in [Runs -> Statuses]
  BY DEF TypeOK, ReadClock, TakePlace, LeaveLine, SetStatus, Queued, Statuses

LEMMA TableUpdates ==
  ASSUME LocksOK, NEW k \in LockKeys, NEW r \in Runs
  PROVE  /\ \A b \in BOOLEAN : Acquire(k, r, b) => LocksOK'
         /\ \A b \in BOOLEAN : Renew(k, r, b) => LocksOK'
         /\ Release(k, r) => LocksOK'
         /\ \A S \in SUBSET LockKeys : Lapse(S) \/ Sweep(S) => LocksOK'
  BY DEF LocksOK, Acquire, Renew, Stamp, Release, Lapse, Sweep

LEMMA InitIInv == Init => IInv
  <1> SUFFICES ASSUME Init PROVE IInv
    OBVIOUS
  <1> USE DispatcherConstants DEF Init
  <1>1. TypeOK
    BY DEF TypeOK, TableInit, LocksOK, Statuses, Stages, InHand
  <1>2. HandIsApart /\ AttendedStatus /\ CancelsExist /\ DownIsIdle
    BY DEF HandIsApart, AttendedStatus, CancelsExist, DownIsIdle, InHand
  <1>3. SlotBound
    <2>1. Busy = {} /\ at \notin InHand
      BY DEF Busy, InHand
    <2> QED
      BY <2>1, FS_EmptySet DEF SlotBound
  <1>4. LocksAreHeld /\ RunningIsOwned
    BY DEF LocksAreHeld, WorkersHoldTheirLock, KeptAlive, Working, RunningIsOwned
  <1> QED
    BY <1>1, <1>2, <1>3, <1>4 DEF IInv

LEMMA TypeStep == TypeOK /\ HandIsApart /\ AttendedStatus /\ [Next]_vars => TypeOK'
  <1> SUFFICES ASSUME TypeOK, HandIsApart, AttendedStatus, [Next]_vars
               PROVE  TypeOK'
    OBVIOUS
  <1> USE DEF TypeOK, locks, queueVars, threadVars, serviceVars
  <1>1. ASSUME NEW r \in Runs, EnqueueReads(r) \/ Enqueue(r) \/ EnqueueFails(r) PROVE TypeOK'
    BY <1>1, StatusUpdates DEF EnqueueReads, Enqueue, EnqueueFails, ReadClock, LocksOK
  <1>2. ASSUME NEW r \in Runs, CancelRead(r) PROVE TypeOK'
    BY <1>2 DEF CancelRead, LocksOK
  <1>3. ASSUME NEW r \in Runs, CancelWrite(r) PROVE TypeOK'
    BY <1>3, StatusUpdates DEF CancelWrite, LocksOK, Statuses, Terminal
  <1>4. CASE BeginPass \/ PassEnds
    BY <1>4 DEF BeginPass, PassEnds, LocksOK
  <1>5. ASSUME NEW r \in Runs, LeaseNext(r) PROVE TypeOK'
    BY <1>5, StatusUpdates DEF LeaseNext, LocksOK, Statuses, InHand
  <1>6. CASE FailUnknown
    BY <1>6, StatusUpdates
       DEF FailUnknown, HandIsApart, LocksOK, Statuses, Terminal, InHand
  <1>7. CASE AcquireLock
    <2>1. hand \in Runs /\ LockKeyOf[hand] \in LockKeys
      BY <1>7, DispatcherConstants DEF AcquireLock, HandIsApart, InHand
    <2> QED
      BY <1>7, <2>1, TableUpdates DEF AcquireLock, InHand
  <1>8. CASE LockUnavailable
    BY <1>8 DEF LockUnavailable, LocksOK, InHand
  <1>9. CASE RequeueReads \/ Requeue
    BY <1>9, StatusUpdates DEF RequeueReads, Requeue, ReadClock, HandIsApart, LocksOK, InHand
  <1>10. CASE SpawnWorker
    BY <1>10 DEF SpawnWorker, LocksOK, Stages, InHand
  <1>11. CASE DispatchFault
    BY <1>11, StatusUpdates
       DEF DispatchFault, HandIsApart, LocksOK, Statuses, Terminal
  <1>12. ASSUME NEW r \in Runs, FinishRun(r) PROVE TypeOK'
    BY <1>12, StatusUpdates DEF FinishRun, LocksOK, Statuses, Terminal, Stages
  <1>21. ASSUME NEW r \in Runs, RetractResult(r) PROVE TypeOK'
    BY <1>21, StatusUpdates DEF RetractResult, LocksOK, Statuses, Terminal
  <1>13. ASSUME NEW r \in Runs, LoseResult(r) \/ WorkerExits(r) PROVE TypeOK'
    BY <1>13 DEF LoseResult, WorkerExits, LocksOK, Stages
  <1>14. ASSUME NEW r \in Runs, ReleaseLock(r) PROVE TypeOK'
    <2>1. LockKeyOf[r] \in LockKeys
      BY <1>14 DEF ReleaseLock, AttendedStatus
    <2>2. LocksOK'
      BY <1>14, <2>1, TableUpdates DEF ReleaseLock, LocksOK
    <2> QED
      BY <1>14, <2>2 DEF ReleaseLock, Stages
  <1>15. ASSUME NEW r \in Runs, Heartbeat(r) PROVE TypeOK'
    <2>1. LockKeyOf[r] \in LockKeys
      BY <1>15 DEF Heartbeat, AttendedStatus
    <2> QED
      BY <1>15, <2>1, TableUpdates DEF Heartbeat
  <1>16. ASSUME NEW k \in LockKeys, LeaseLapses(k) PROVE TypeOK'
    BY <1>16 DEF LeaseLapses, Lapse, LocksOK
  <1>17. CASE Start
    BY <1>17 DEF Start, Sweep, LocksOK, Statuses, Terminal
  <1>18. CASE Stop
    BY <1>18 DEF Stop, LocksOK
  <1>19. CASE GoDown
    BY <1>19, DispatcherConstants DEF GoDown, LeaveLine, LocksOK, Stages
  <1>20. CASE UNCHANGED vars
    BY <1>20 DEF vars, LocksOK
  <1> QED
    BY <1>1, <1>2, <1>3, <1>4, <1>5, <1>6, <1>7, <1>8, <1>9, <1>10, <1>11, <1>12,
       <1>13, <1>14, <1>15, <1>16, <1>17, <1>18, <1>19, <1>20, <1>21
       DEF Next, Dispatch, Worker
-----------------------------------------------------------------------------
(* The control state: who holds which run, in which status.                *)

Control == HandIsApart /\ AttendedStatus /\ CancelsExist /\ DownIsIdle

LEMMA ControlStep == TypeOK /\ Control /\ [Next]_vars => Control'
  <1> SUFFICES ASSUME TypeOK, Control, [Next]_vars PROVE Control'
    OBVIOUS
  <1> USE DispatcherConstants
      DEF TypeOK, Control, HandIsApart, AttendedStatus, CancelsExist, DownIsIdle,
          locks, queueVars, threadVars, serviceVars, InHand
  <1>1. ASSUME NEW r \in Runs, EnqueueReads(r) \/ Enqueue(r) \/ EnqueueFails(r) PROVE Control'
    BY <1>1 DEF EnqueueReads, Enqueue, EnqueueFails, ReadClock, TakePlace
  <1>2. ASSUME NEW r \in Runs, CancelRead(r) PROVE Control'
    BY <1>2 DEF CancelRead
  <1>3. ASSUME NEW r \in Runs, CancelWrite(r) PROVE Control'
    BY <1>3 DEF CancelWrite, SetStatus
  <1>4. CASE BeginPass \/ PassEnds
    BY <1>4 DEF BeginPass, PassEnds
  <1>5. ASSUME NEW r \in Runs, LeaseNext(r) PROVE Control'
    BY <1>5 DEF LeaseNext, SetStatus, NextQueued, Queued
  <1>6. CASE FailUnknown
    BY <1>6 DEF FailUnknown, SetStatus
  <1>7. CASE AcquireLock
    BY <1>7 DEF AcquireLock
  <1>8. CASE LockUnavailable
    BY <1>8 DEF LockUnavailable
  <1>9. CASE RequeueReads \/ Requeue
    BY <1>9 DEF RequeueReads, Requeue, ReadClock, TakePlace
  <1>10. CASE SpawnWorker
    BY <1>10 DEF SpawnWorker
  <1>11. CASE DispatchFault
    BY <1>11 DEF DispatchFault, TakePlace
  <1>12. ASSUME NEW r \in Runs, FinishRun(r) PROVE Control'
    BY <1>12 DEF FinishRun, SetStatus
  <1>21. ASSUME NEW r \in Runs, RetractResult(r) PROVE Control'
    BY <1>21 DEF RetractResult, SetStatus
  <1>13. ASSUME NEW r \in Runs, LoseResult(r) \/ WorkerExits(r) PROVE Control'
    BY <1>13 DEF LoseResult, WorkerExits
  <1>14. ASSUME NEW r \in Runs, ReleaseLock(r) PROVE Control'
    BY <1>14 DEF ReleaseLock
  <1>15. ASSUME NEW r \in Runs, Heartbeat(r) PROVE Control'
    BY <1>15 DEF Heartbeat
  <1>16. ASSUME NEW k \in LockKeys, LeaseLapses(k) PROVE Control'
    BY <1>16 DEF LeaseLapses
  <1>17. CASE Start
    BY <1>17 DEF Start
  <1>18. CASE Stop
    BY <1>18 DEF Stop
  <1>19. CASE GoDown
    BY <1>19 DEF GoDown
  <1>20. CASE UNCHANGED vars
    BY <1>20 DEF vars
  <1> QED
    BY <1>1, <1>2, <1>3, <1>4, <1>5, <1>6, <1>7, <1>8, <1>9, <1>10, <1>11, <1>12,
       <1>13, <1>14, <1>15, <1>16, <1>17, <1>18, <1>19, <1>20, <1>21
       DEF Next, Dispatch, Worker
-----------------------------------------------------------------------------
(* Slots: counted by the dispatcher before it leases, used much later.     *)

LEMMA BusyCounts ==
  /\ Cardinality(Busy) \in Nat
  /\ Busy' \subseteq Busy => Cardinality(Busy') <= Cardinality(Busy)
  /\ \A r \in Runs : Busy' = Busy \cup {r}
       => Cardinality(Busy') <= Cardinality(Busy) + 1
  <1>1. IsFiniteSet(Busy) /\ Busy \subseteq Runs
    BY DispatcherConstants, FS_Subset DEF Busy
  <1>2. Cardinality(Busy) \in Nat
    BY <1>1, FS_CardinalityType
  <1>3. Busy' \subseteq Busy => Cardinality(Busy') <= Cardinality(Busy)
    BY <1>1, FS_Subset
  <1>4. ASSUME NEW r \in Runs, Busy' = Busy \cup {r}
        PROVE  Cardinality(Busy') <= Cardinality(Busy) + 1
    <2>1. Cardinality(Busy \cup {r}) =
            IF r \in Busy THEN Cardinality(Busy) ELSE Cardinality(Busy) + 1
      BY <1>1, FS_AddElement
    <2> QED
      BY <1>2, <1>4, <2>1
  <1> QED
    BY <1>2, <1>3, <1>4

LEMMA SlotStep == TypeOK /\ Control /\ SlotBound /\ [Next]_vars => SlotBound'
  <1> SUFFICES ASSUME TypeOK, Control, SlotBound, [Next]_vars PROVE SlotBound'
    OBVIOUS
  <1>0. MaxConcurrentRuns \in Nat /\ Cardinality(Busy) \in Nat
    BY DispatcherConstants, BusyCounts
  <1>1. ASSUME NEW r \in Runs, LeaseNext(r) PROVE SlotBound'
    <2>1. Busy' = Busy
      BY <1>1 DEF LeaseNext, Busy
    <2> QED
      BY <1>0, <1>1, <2>1 DEF LeaseNext, SlotBound, InHand
  <1>2. CASE SpawnWorker
    <2>1. hand \in Runs /\ Busy' = Busy \cup {hand}
      BY <1>2 DEF SpawnWorker, Busy, Control, HandIsApart, TypeOK, InHand
    <2>2. Cardinality(Busy') <= Cardinality(Busy) + 1 /\ Cardinality(Busy') \in Nat
      BY <2>1, <1>0, BusyCounts, FS_AddElement, FS_CardinalityType, FS_Subset,
         DispatcherConstants DEF Busy
    <2> QED
      BY <1>0, <1>2, <2>2 DEF SpawnWorker, SlotBound, InHand
  <1>3. ASSUME Busy' \subseteq Busy, at' \in InHand => at \in InHand
        PROVE  SlotBound'
    <2>1. Cardinality(Busy') <= Cardinality(Busy)
      BY <1>3, BusyCounts
    <2>2. Cardinality(Busy') \in Nat
      BY <1>3, DispatcherConstants, FS_Subset, FS_CardinalityType DEF Busy
    <2> QED
      BY <1>0, <1>3, <2>1, <2>2 DEF SlotBound
  <1>4. CASE Dispatch \/ DispatchFault
    BY <1>1, <1>2, <1>3, <1>4
       DEF Dispatch, BeginPass, PassEnds, FailUnknown, AcquireLock,
           LockUnavailable, RequeueReads, Requeue, DispatchFault, Busy, InHand, threadVars
  <1>5. ASSUME NEW r \in Runs,
               \/ FinishRun(r) \/ ReleaseLock(r) \/ WorkerExits(r)
               \/ LoseResult(r) \/ RetractResult(r) \/ Heartbeat(r)
        PROVE  SlotBound'
    BY <1>3, <1>5 DEF FinishRun, ReleaseLock, WorkerExits, LoseResult, RetractResult,
                      Heartbeat, Busy, threadVars, TypeOK
  <1>6. ASSUME NEW r \in Runs, EnqueueReads(r) \/ Enqueue(r) \/ EnqueueFails(r) \/ CancelRead(r) \/ CancelWrite(r)
        PROVE  SlotBound'
    BY <1>3, <1>6 DEF EnqueueReads, Enqueue, EnqueueFails, CancelRead, CancelWrite, Busy, threadVars
  <1>7. ASSUME NEW k \in LockKeys, LeaseLapses(k) PROVE SlotBound'
    BY <1>3, <1>7 DEF LeaseLapses, Busy, threadVars
  <1>8. CASE Start \/ Stop \/ GoDown
    BY <1>3, <1>8 DEF Start, Stop, GoDown, Busy, threadVars, InHand
  <1>9. CASE UNCHANGED vars
    BY <1>3, <1>9 DEF vars, Busy
  <1> QED
    BY <1>4, <1>5, <1>6, <1>7, <1>8, <1>9 DEF Next, Worker
-----------------------------------------------------------------------------
(* Leases: what keeps the row of a working run from being taken over.      *)

LEMMA LockStep ==
  TypeOK /\ Control /\ LocksAreHeld /\ [Next]_vars => LocksAreHeld'
  <1> SUFFICES ASSUME TypeOK, Control, [Next]_vars, HeartbeatsKeepUp,
                      WorkersHoldTheirLock
               PROVE  WorkersHoldTheirLock'
    BY DEF LocksAreHeld
  <1> USE DEF TypeOK, LocksOK, Control, HandIsApart, AttendedStatus,
              WorkersHoldTheirLock, KeptAlive, Working, InHand,
              locks, queueVars, threadVars, serviceVars
  <1>1. ASSUME NEW r \in Runs, EnqueueReads(r) \/ Enqueue(r) \/ EnqueueFails(r) \/ CancelRead(r) \/ CancelWrite(r)
        PROVE  WorkersHoldTheirLock'
    BY <1>1 DEF EnqueueReads, Enqueue, EnqueueFails, CancelRead, CancelWrite
  <1>2. CASE BeginPass \/ PassEnds \/ FailUnknown \/ LockUnavailable \/ RequeueReads \/ Requeue
               \/ DispatchFault
    BY <1>2 DEF BeginPass, PassEnds, FailUnknown, LockUnavailable, RequeueReads, Requeue,
                DispatchFault
  <1>3. ASSUME NEW r \in Runs, LeaseNext(r) PROVE WorkersHoldTheirLock'
    BY <1>3 DEF LeaseNext
  <1>4. CASE AcquireLock
    BY <1>4, DispatcherConstants DEF AcquireLock, Acquire, Stamp
  <1>5. CASE SpawnWorker
    BY <1>5 DEF SpawnWorker
  <1>6. ASSUME NEW r \in Runs,
               FinishRun(r) \/ LoseResult(r) \/ RetractResult(r) \/ WorkerExits(r)
        PROVE  WorkersHoldTheirLock'
    BY <1>6 DEF FinishRun, LoseResult, RetractResult, WorkerExits
  <1>7. ASSUME NEW r \in Runs, ReleaseLock(r) PROVE WorkersHoldTheirLock'
    BY <1>7 DEF ReleaseLock, Release
  <1>8. ASSUME NEW r \in Runs, Heartbeat(r) PROVE WorkersHoldTheirLock'
    BY <1>8 DEF Heartbeat, Renew, Stamp
  <1>9. ASSUME NEW k \in LockKeys, LeaseLapses(k) PROVE WorkersHoldTheirLock'
    BY <1>9 DEF LeaseLapses, Lapse
  <1>10. CASE Start
    BY <1>10 DEF Start, Sweep
  <1>11. CASE Stop \/ GoDown
    BY <1>11 DEF Stop, GoDown
  <1>12. CASE UNCHANGED vars
    BY <1>12 DEF vars
  <1> QED
    BY <1>1, <1>2, <1>3, <1>4, <1>5, <1>6, <1>7, <1>8, <1>9, <1>10, <1>11, <1>12
       DEF Next, Dispatch, Worker
-----------------------------------------------------------------------------
(* Rows in status running.                                                 *)

LEMMA OwnedStep ==
  TypeOK /\ Control /\ RunningIsOwned /\ [Next]_vars => RunningIsOwned'
  <1> SUFFICES ASSUME TypeOK, Control, RunningIsOwned, [Next]_vars, ~Faults,
                      service' # "down"
               PROVE  \A r \in Runs : status'[r] = "running"
                                        => (hand' = r \/ workers'[r] = "running")
    BY DEF RunningIsOwned, Working
  <1> USE DEF TypeOK, Control, HandIsApart, AttendedStatus, DownIsIdle,
              RunningIsOwned, Working, InHand, queueVars, threadVars, serviceVars
  <1>1. ASSUME NEW q \in Runs, EnqueueReads(q) \/ Enqueue(q) \/ EnqueueFails(q) \/ CancelWrite(q)
        PROVE  \A r \in Runs : status'[r] = "running"
                                 => (hand' = r \/ workers'[r] = "running")
    BY <1>1 DEF EnqueueReads, Enqueue, EnqueueFails, ReadClock, TakePlace, CancelWrite, SetStatus
  <1>2. ASSUME NEW q \in Runs, LeaseNext(q)
        PROVE  \A r \in Runs : status'[r] = "running"
                                 => (hand' = r \/ workers'[r] = "running")
    BY <1>2 DEF LeaseNext, SetStatus
  <1>3. CASE FailUnknown \/ RequeueReads \/ Requeue \/ SpawnWorker
    BY <1>3 DEF FailUnknown, RequeueReads, Requeue, ReadClock, TakePlace, SpawnWorker, SetStatus
  <1>4. CASE BeginPass \/ PassEnds \/ AcquireLock \/ LockUnavailable
    BY <1>4 DEF BeginPass, PassEnds, AcquireLock, LockUnavailable
  <1>5. ASSUME NEW q \in Runs, FinishRun(q)
        PROVE  \A r \in Runs : status'[r] = "running"
                                 => (hand' = r \/ workers'[r] = "running")
    BY <1>5 DEF FinishRun, SetStatus
  <1>6. ASSUME NEW q \in Runs,
               ReleaseLock(q) \/ WorkerExits(q) \/ Heartbeat(q) \/ CancelRead(q)
        PROVE  \A r \in Runs : status'[r] = "running"
                                 => (hand' = r \/ workers'[r] = "running")
    BY <1>6 DEF ReleaseLock, WorkerExits, Heartbeat, CancelRead
  <1>7. ASSUME NEW k \in LockKeys, LeaseLapses(k)
        PROVE  \A r \in Runs : status'[r] = "running"
                                 => (hand' = r \/ workers'[r] = "running")
    BY <1>7 DEF LeaseLapses
  <1>8. CASE Start
    BY <1>8 DEF Start
  <1>9. CASE Stop \/ GoDown \/ UNCHANGED vars
    BY <1>9 DEF Stop, GoDown, vars
  <1>10. ~DispatchFault /\ \A r \in Runs : ~LoseResult(r) /\ ~RetractResult(r)
    BY DEF DispatchFault, LoseResult, RetractResult
  <1> QED
    BY <1>1, <1>2, <1>3, <1>4, <1>5, <1>6, <1>7, <1>8, <1>9, <1>10
       DEF Next, Dispatch, Worker
-----------------------------------------------------------------------------
(* The theorems.                                                           *)

\* IInv holds in every reachable state.
THEOREM Invariance == Spec => []IInv
  <1>1. IInv /\ [Next]_vars => IInv'
    BY TypeStep, ControlStep, SlotStep, LockStep, OwnedStep DEF IInv, Control
  <1> QED
    BY InitIInv, <1>1, PTL DEF Spec

\* Every variable keeps to its range, whatever the number of runs and slots.
THEOREM TypeCorrect == Spec => []TypeOK
  BY Invariance, PTL DEF IInv

\* max_concurrent_runs is never exceeded, not even by the run the dispatcher is
\* about to start (_available_slots).
THEOREM SlotsAreRespected == Spec => []SlotBound
  BY Invariance, PTL DEF IInv

\* As long as heartbeats keep up, two workers never share a lock key.
THEOREM Exclusion == HeartbeatsKeepUp => (Spec => []OneWorkerPerLockKey)
  <1> SUFFICES ASSUME HeartbeatsKeepUp PROVE Spec => []OneWorkerPerLockKey
    OBVIOUS
  <1>1. IInv => OneWorkerPerLockKey
    BY DEF IInv, LocksAreHeld, WorkersHoldTheirLock, OneWorkerPerLockKey,
           KeptAlive, Working
  <1> QED
    BY Invariance, <1>1, PTL

\* The same for the lease itself: it names its run for as long as the run works.
THEOREM LeasesAreKept == HeartbeatsKeepUp => (Spec => []WorkersHoldTheirLock)
  <1> SUFFICES ASSUME HeartbeatsKeepUp PROVE Spec => []WorkersHoldTheirLock
    OBVIOUS
  <1>1. IInv => WorkersHoldTheirLock
    BY DEF IInv, LocksAreHeld
  <1> QED
    BY Invariance, <1>1, PTL

\* No interleaving without faults strands a row in status running.
THEOREM NothingIsStranded == Spec => []RunningIsOwned
  BY Invariance, PTL DEF IInv

\* A recorded result is overwritten by a late cancel_run(), or by its own worker
\* before it lets go of the lock, and by nothing else.
THEOREM ResultsAreKept == Spec => SettledIsKept
  <1> DEFINE Kept == \A r \in Runs :
        (status[r] \in {"succeeded", "failed"} /\ status'[r] # status[r])
          => \/ r \in cancels /\ status'[r] = "canceled"
             \/ workers[r] = "finishing" /\ status'[r] = "failed"
  <1>1. IInv /\ [Next]_vars => [Kept]_vars
    <2> SUFFICES ASSUME IInv, [Next]_vars PROVE Kept
      OBVIOUS
    <2> USE DEF IInv, TypeOK, HandIsApart, AttendedStatus, InHand, queueVars
    <2>1. ASSUME NEW q \in Runs, Enqueue(q) \/ CancelWrite(q) PROVE Kept
      BY <2>1 DEF Enqueue, TakePlace, CancelWrite, SetStatus
    <2>2. ASSUME NEW q \in Runs, LeaseNext(q) PROVE Kept
      BY <2>2 DEF LeaseNext, NextQueued, Queued, SetStatus
    <2>3. CASE FailUnknown \/ Requeue \/ DispatchFault
      BY <2>3 DEF FailUnknown, Requeue, TakePlace, DispatchFault, SetStatus
    <2>4. ASSUME NEW q \in Runs, FinishRun(q) \/ RetractResult(q) PROVE Kept
      BY <2>4 DEF FinishRun, RetractResult, SetStatus
    <2>5. CASE Start
      BY <2>5 DEF Start
    <2>6. ASSUME status' = status PROVE Kept
      BY <2>6
    <2> HIDE DEF Kept, IInv, TypeOK, HandIsApart, AttendedStatus, InHand
    <2> QED
      BY <2>1, <2>2, <2>3, <2>4, <2>5, <2>6
         DEF Next, Dispatch, Worker, CancelRead, EnqueueReads, EnqueueFails, ReadClock, BeginPass,
             PassEnds, AcquireLock, LockUnavailable, RequeueReads, SpawnWorker, LoseResult, ReleaseLock, WorkerExits,
             Heartbeat, LeaseLapses, Stop, GoDown, vars, queueVars
  <1> QED
    BY Invariance, <1>1, PTL DEF Spec, SettledIsKept
-----------------------------------------------------------------------------
(* Refinement of JobServer.                                                *)

LEMMA PhaseOf ==
  ASSUME TypeOK, Control, NEW r \in Runs
  PROVE  /\ Phases[r] = "absent" <=> status[r] = "absent"
         /\ Phases[r] = "active" <=> workers[r] = "running"
         /\ Phases[r] = "pending" <=> status[r] = "queued" \/ hand = r
         /\ Phases[r] \in {"absent", "pending", "active", "closed"}
  BY DEF TypeOK, Control, HandIsApart, AttendedStatus, Phases, Phase, Working,
         Queued, InHand

LEMMA InitRefines == Init => Server!ServerInit
  BY DEF Init, Server!ServerInit, Phases, Phase

\* A step after which nothing is absent or active that was not before, and
\* nothing pending, closes the runs that are closed after it.
LEMMA Closing ==
  ASSUME TypeOK, Control, TypeOK', Control',
         \A r \in Runs : \/ Phases'[r] = Phases[r]
                         \/ /\ Phases[r] \in {"pending", "active"}
                            /\ Phases'[r] = "closed"
  PROVE  Server!ServerNext
  <1> DEFINE S == {r \in Runs : Phases'[r] # Phases[r]}
  <1>1. S \in SUBSET Runs
    OBVIOUS
  <1>2. /\ Phases = [r \in Runs |-> Phases[r]]
        /\ Phases' = [r \in Runs |-> Phases'[r]]
    BY DEF Phases
  <1>3. Server!Close(S)
    BY <1>2 DEF Server!Close
  <1> HIDE DEF S
  <1> QED
    BY <1>1, <1>3 DEF Server!ServerNext

LEMMA Starting ==
  ASSUME IInv, IInv', SpawnWorker
  PROVE  Server!Activate(hand)
  <1> USE DEF IInv, Control
  <1>1. /\ hand \in Runs /\ at = "acquired"
        /\ hand' = NoRun /\ status' = status
        /\ workers' = [workers EXCEPT ![hand] = "running"]
    BY DEF SpawnWorker, HandIsApart, InHand, queueVars
  <1>2. Phases' = [Phases EXCEPT ![hand] = "active"]
    <2>1. workers \in [Runs -> Stages] /\ NoRun \notin Runs
      BY DispatcherConstants DEF TypeOK
    <2>2. ASSUME NEW r \in Runs, r # hand PROVE Phases'[r] = Phases[r]
      BY <1>1, <2>1, <2>2 DEF Phases, Phase, Working, Queued
    <2>3. Phases'[hand] = "active"
      BY <1>1, <2>1, PhaseOf DEF Phases, Phase, Working, AttendedStatus
    <2> QED
      BY <1>1, <2>2, <2>3 DEF Phases
  <1>3. Phases[hand] = "pending"
    BY <1>1, PhaseOf
  <1>4. Cardinality(Server!Active) < MaxConcurrentRuns
    <2>1. Server!Active \subseteq Busy
      BY PhaseOf DEF Server!Active, Busy
    <2>2. IsFiniteSet(Busy)
      BY DispatcherConstants, FS_Subset DEF Busy
    <2>3. /\ Cardinality(Server!Active) <= Cardinality(Busy)
          /\ Cardinality(Server!Active) \in Nat
      BY <2>1, <2>2, FS_Subset, FS_CardinalityType
    <2> QED
      BY <1>1, <2>3, BusyCounts, DispatcherConstants DEF SlotBound, InHand
  <1>5. HeartbeatsKeepUp =>
          \A s \in Server!Active : LockKeyOf[s] # LockKeyOf[hand]
    <2> SUFFICES ASSUME HeartbeatsKeepUp, NEW s \in Runs, workers[s] = "running"
                 PROVE  LockKeyOf[s] # LockKeyOf[hand]
      BY PhaseOf DEF Server!Active
    <2>1. holder[LockKeyOf[s]] = s /\ holder[LockKeyOf[hand]] = hand
      BY <1>1 DEF LocksAreHeld, WorkersHoldTheirLock, KeptAlive, Working
    <2> QED
      BY <1>1, <2>1 DEF HandIsApart, InHand
  <1>6. Server!Cardinality(Server!Active) = Cardinality(Server!Active)
    BY DEF Server!Cardinality, Cardinality
  <1> QED
    BY <1>2, <1>3, <1>4, <1>5, <1>6 DEF Server!Activate

LEMMA Submitting ==
  ASSUME IInv, IInv', NEW q \in Runs, Enqueue(q)
  PROVE  Server!Submit(q)
  <1> USE DEF IInv, Control
  <1>1. /\ status[q] = "absent" /\ status' = [status EXCEPT ![q] = "queued"]
        /\ workers' = workers /\ hand' = hand
    BY DEF Enqueue, TakePlace, threadVars
  <1>2. ASSUME NEW r \in Runs, r # q PROVE Phases'[r] = Phases[r]
    BY <1>1, <1>2 DEF Phases, Phase, Working, Queued, TypeOK
  <1>3. Phases[q] = "absent"
    BY <1>1, PhaseOf
  <1>4. Phases'[q] = "pending"
    BY <1>1 DEF Phases, Phase, Working, Queued, TypeOK, AttendedStatus
  <1>5. Phases' = [Phases EXCEPT ![q] = "pending"]
    BY <1>2, <1>4 DEF Phases
  <1> QED
    BY <1>3, <1>5 DEF Server!Submit

LEMMA StepRefines ==
  ASSUME IInv, IInv', [Next]_vars
  PROVE  Server!ServerNext \/ UNCHANGED Phases
  <1> DEFINE Closed(r) == /\ Phases[r] \in {"pending", "active"}
                          /\ Phases'[r] = "closed"
             Goal == \A r \in Runs : Phases'[r] = Phases[r] \/ Closed(r)
  <1> USE DispatcherConstants DEF IInv, Control
  <1>1. Goal => Server!ServerNext
    BY Closing
  <1>2. ASSUME status' = status, hand' = hand,
               \A r \in Runs : workers'[r] = "running" <=> workers[r] = "running"
        PROVE  UNCHANGED Phases
    BY <1>2 DEF Phases, Phase, Working, Queued
  <1> HIDE DEF IInv, Control, Goal
  <1>3. ASSUME NEW q \in Runs, Enqueue(q) PROVE Server!ServerNext
    BY <1>3, Submitting DEF Server!ServerNext
  <1>4. ASSUME NEW q \in Runs, CancelWrite(q) PROVE Goal
    BY <1>4 DEF Goal, IInv, TypeOK, CancelWrite, SetStatus, CancelsExist, threadVars,
                Phases, Phase, Working, Queued
  <1>5. ASSUME NEW q \in Runs, LeaseNext(q) PROVE Goal
    BY <1>5 DEF Goal, IInv, TypeOK, LeaseNext, NextQueued, SetStatus, HandIsApart,
                InHand, AttendedStatus, Phases, Phase, Working, Queued
  <1>6. CASE FailUnknown \/ DispatchFault
    <2>1. Goal
      BY <1>6 DEF Goal, IInv, TypeOK, FailUnknown, DispatchFault, SetStatus, TakePlace,
                  HandIsApart, InHand, AttendedStatus, queueVars, Phases, Phase,
                  Working, Queued
    <2> QED
      BY <1>1, <2>1
  <1>7. CASE Requeue
    <2>1. Goal
      BY <1>7 DEF Goal, IInv, TypeOK, Requeue, TakePlace, HandIsApart, InHand,
                  AttendedStatus, Phases, Phase, Working, Queued
    <2> QED
      BY <1>1, <2>1
  <1>8. CASE SpawnWorker
    <2>1. hand \in Runs
      BY <1>8 DEF IInv, SpawnWorker, HandIsApart, InHand
    <2> QED
      BY <1>8, <2>1, Starting DEF Server!ServerNext
  <1>9. ASSUME NEW q \in Runs, FinishRun(q) \/ LoseResult(q) \/ RetractResult(q)
        PROVE  Goal
    BY <1>9 DEF Goal, IInv, TypeOK, FinishRun, LoseResult, RetractResult, SetStatus, HandIsApart,
                InHand, AttendedStatus, queueVars, threadVars, Phases, Phase,
                Working, Queued
  <1>10. CASE Start
    BY <1>10 DEF IInv, TypeOK, Start, DownIsIdle, HandIsApart, AttendedStatus,
                 InHand, threadVars, Phases, Phase, Working, Queued
  <1>11. CASE GoDown
    <2>1. Goal
      BY <1>11 DEF Goal, IInv, TypeOK, GoDown, HandIsApart, AttendedStatus, InHand,
                   queueVars, Phases, Phase, Working, Queued
    <2> QED
      BY <1>1, <2>1
  <1>12. ASSUME NEW q \in Runs,
                \/ EnqueueReads(q) \/ EnqueueFails(q)
                \/ CancelRead(q) \/ ReleaseLock(q) \/ WorkerExits(q) \/ Heartbeat(q)
         PROVE  UNCHANGED Phases
    BY <1>2, <1>12 DEF EnqueueReads, EnqueueFails, ReadClock, CancelRead, ReleaseLock, WorkerExits, Heartbeat, IInv, TypeOK,
                       queueVars, threadVars
  <1>13. CASE \/ BeginPass \/ PassEnds \/ AcquireLock \/ LockUnavailable \/ RequeueReads
              \/ Stop \/ UNCHANGED vars
    BY <1>2, <1>13 DEF BeginPass, PassEnds, AcquireLock, LockUnavailable, RequeueReads, ReadClock,
                       Stop, vars, queueVars, threadVars
  <1>14. ASSUME NEW k \in LockKeys, LeaseLapses(k) PROVE UNCHANGED Phases
    BY <1>2, <1>14 DEF LeaseLapses, queueVars, threadVars
  <1> QED
    BY <1>1, <1>3, <1>4, <1>5, <1>6, <1>7, <1>8, <1>9, <1>10, <1>11, <1>12, <1>13,
       <1>14 DEF Next, Dispatch, Worker

\* The queue, its threads, cancellation and restarts implement the job server:
\* a run is started at most once, within the slots and alone on its lock key.
THEOREM RefinesJobServer == Spec => ImplementsJobServer
  <1>1. IInv /\ IInv' /\ [Next]_vars => [Server!ServerNext]_Phases
    BY StepRefines
  <1> QED
    BY Invariance, InitRefines, <1>1, PTL
       DEF Spec, ImplementsJobServer, Server!ServerSpec
-----------------------------------------------------------------------------
(* Why a pass of the dispatcher ends (PassTerminates, beside fairness).    *)

\* The runs a pass may yet take up: the queued ones, those still to come, and
\* the one in hand, which may go back to the queue.
Waiting == {r \in Runs : status[r] \in {"absent", "queued"} \/ r = hand}

\* A run that was refused its lock is not leased again in the same pass.
HandIsNew == at \in InHand => hand \notin blocked

\* While a pass goes on, no run comes to wait for it; as long as none has left,
\* none that was refused is forgotten; and with each return to the queue one
\* has left or one more was refused.
GetsThrough ==
  at # "polling" /\ at' # "polling" =>
    /\ Waiting' \subseteq Waiting
    /\ Waiting' = Waiting => blocked \subseteq blocked'
    /\ at # "scanning" /\ at' = "scanning" => Waiting' # Waiting \/ blocked' # blocked

LEMMA NewIsKept == IInv /\ HandIsNew /\ [Next]_vars => HandIsNew'
  <1> SUFFICES ASSUME IInv, HandIsNew, [Next]_vars PROVE HandIsNew'
    OBVIOUS
  <1> USE DEF HandIsNew, InHand
  <1>1. CASE UNCHANGED threadVars
    BY <1>1 DEF threadVars
  <1>2. CASE BeginPass \/ PassEnds \/ FailUnknown \/ Requeue \/ SpawnWorker \/ DispatchFault \/ GoDown
    BY <1>2 DEF BeginPass, PassEnds, FailUnknown, Requeue, SpawnWorker, DispatchFault, GoDown
  <1>3. ASSUME NEW r \in Runs, LeaseNext(r) PROVE HandIsNew'
    BY <1>3 DEF LeaseNext, NextQueued
  <1>4. CASE AcquireLock \/ LockUnavailable \/ RequeueReads
    BY <1>4 DEF AcquireLock, LockUnavailable, RequeueReads
  <1> QED
    BY <1>1, <1>2, <1>3, <1>4 DEF Next, Dispatch, Worker, vars, threadVars, EnqueueReads, Enqueue,
       EnqueueFails, CancelRead,
       CancelWrite, FinishRun, ReleaseLock, WorkerExits, LoseResult, RetractResult, Heartbeat,
       LeaseLapses, Start, Stop

LEMMA PassProceeds == IInv /\ HandIsNew /\ ~Faults /\ [Next]_vars => GetsThrough
  <1> SUFFICES ASSUME IInv, HandIsNew, ~Faults, [Next]_vars, at # "polling", at' # "polling"
               PROVE  /\ Waiting' \subseteq Waiting
                      /\ Waiting' = Waiting => blocked \subseteq blocked'
                      /\ at # "scanning" /\ at' = "scanning" => Waiting' # Waiting \/ blocked' # blocked
    BY DEF GetsThrough
  <1> DEFINE Goal == /\ Waiting' \subseteq Waiting
                     /\ Waiting' = Waiting => blocked \subseteq blocked'
                     /\ at # "scanning" /\ at' = "scanning" => Waiting' # Waiting \/ blocked' # blocked
  <1>1. /\ status \in [Runs -> Statuses] /\ NoRun \notin Runs
        /\ at \in InHand <=> hand \in Runs
        /\ \A r \in Runs : hand = r \/ workers[r] = "running" => status[r] \in {"running", "canceled"}
        /\ \A r \in Runs : workers[r] # "none" => status[r] \notin {"absent", "queued"}
        /\ hand \in Runs => hand \notin blocked
    BY DispatcherConstants DEF IInv, TypeOK, HandIsApart, AttendedStatus, HandIsNew
  <1>2. ASSUME NEW r \in Runs, Enqueue(r) PROVE Goal
    BY <1>1, <1>2 DEF Enqueue, TakePlace, Waiting, threadVars
  <1>3. ASSUME NEW r \in Runs, CancelWrite(r) PROVE Goal
    BY <1>1, <1>3 DEF CancelWrite, SetStatus, Waiting, threadVars
  <1>4. ASSUME NEW r \in Runs, LeaseNext(r) PROVE Goal
    BY <1>1, <1>4 DEF LeaseNext, NextQueued, SetStatus, Waiting, Queued, InHand
  <1>5. CASE AcquireLock \/ LockUnavailable \/ RequeueReads
    BY <1>1, <1>5 DEF AcquireLock, LockUnavailable, RequeueReads, ReadClock, Waiting, queueVars
  <1>6. CASE Requeue
    <2>1. /\ hand \in Runs /\ hand' = NoRun /\ blocked' = blocked \cup {hand}
          /\ status' = [status EXCEPT ![hand] = "queued"]
      BY <1>1, <1>6 DEF Requeue, TakePlace, InHand
    <2>2. Waiting' = Waiting
      BY <1>1, <2>1 DEF Waiting
    <2> QED BY <1>1, <2>1, <2>2
  <1>7. CASE SpawnWorker
    <2>1. hand \in Runs /\ hand' = NoRun /\ status' = status
      BY <1>1, <1>7 DEF SpawnWorker, InHand, queueVars
    <2>2. Waiting' \subseteq Waiting /\ hand \in Waiting /\ hand \notin Waiting'
      BY <1>1, <2>1 DEF Waiting
    <2> QED BY <2>2
  <1>8. ASSUME NEW r \in Runs, FinishRun(r) PROVE Goal
    BY <1>1, <1>8 DEF FinishRun, SetStatus, Waiting, threadVars
  <1>9. CASE BeginPass \/ PassEnds \/ FailUnknown \/ DispatchFault \/ GoDown
    BY <1>9 DEF BeginPass, PassEnds, FailUnknown, DispatchFault, GoDown
  <1>10. CASE Start
    BY <1>10 DEF Start, IInv, DownIsIdle
  <1>11. CASE UNCHANGED <<status, threadVars>>
    BY <1>11 DEF threadVars, Waiting
  <1>12. ASSUME NEW r \in Runs, RetractResult(r) \/ LoseResult(r) PROVE FALSE
    BY <1>12 DEF RetractResult, LoseResult
  <1> QED
    BY <1>2, <1>3, <1>4, <1>5, <1>6, <1>7, <1>8, <1>9, <1>10, <1>11, <1>12 DEF Next, Dispatch,
       Worker, vars, queueVars, threadVars, EnqueueReads, EnqueueFails, ReadClock, CancelRead,
       ReleaseLock, WorkerExits, Heartbeat, LeaseLapses, Stop

\* A pass cannot spin on runs that wait for a lock (blocked_run_ids): where no
\* repository call raises, each round of it leaves fewer runs to take up, so
\* that a dispatcher thread that is not starved comes to the end of its pass.
THEOREM PassesGetThrough == ~Faults /\ Spec => [][GetsThrough]_vars
  <1>1. Init => HandIsNew
    BY DEF Init, HandIsNew, InHand
  <1>2. IInv /\ HandIsNew /\ [Next]_vars => HandIsNew'
    BY NewIsKept
  <1>3. ~Faults /\ IInv /\ HandIsNew /\ [Next]_vars => [GetsThrough]_vars
    BY PassProceeds
  <1>4. CASE ~Faults
    <2>1. IInv /\ HandIsNew /\ [Next]_vars => [GetsThrough]_vars
      BY <1>3, <1>4
    <2> QED
      BY Invariance, <1>1, <1>2, <2>1, PTL DEF Spec
  <1> QED
    BY <1>4
-----------------------------------------------------------------------------
(* The order of the queue.                                                 *)

InLine == Queued \cup stamped

\* Who has read the clock stands in one order, whether written or not: of two
\* runs in line one is ahead of the other. Whose time is read and not written
\* has no row yet, or is the run the dispatcher is about to put back.
LineIsOrdered ==
  /\ \A r \in Runs : ahead[r] \subseteq InLine \ {r}
  /\ \A r, q \in InLine : r # q => (q \in ahead[r] <=> r \notin ahead[q])
  /\ \A r \in stamped : status[r] = "absent" \/ (at = "requeuing" /\ hand = r)
  /\ at = "requeuing" => hand \in stamped

\* The queue is first in, first out by the time each caller has read: from then
\* on nobody gets ahead of a run, and whoever is leased before one that waits
\* for no lock has read an earlier time. A run written later may have read an
\* earlier time, and is then before runs that were written first.
NobodyOvertakes ==
  [][\A r \in Runs :
       /\ r \in InLine /\ r \in InLine' => ahead'[r] \subseteq ahead[r]
       /\ \A q \in Runs \ {r} :
            r \in Queued \ blocked /\ status[q] = "queued" /\ status'[q] = "running" => q \in ahead[r]]_vars


\* What a step does to the line: a run comes to its end, or leaves it.
Comes(r) == r \notin InLine /\ ReadClock(r)
Goes(r) ==
  /\ InLine' = InLine \ {r}
  /\ ahead' = [q \in Runs |-> IF q = r THEN {} ELSE ahead[q] \ {r}]
Stays == InLine' = InLine /\ ahead' = ahead

LEMMA StatusMoves ==
  ASSUME TypeOK, NEW r \in Runs, NEW s \in Statuses \ {"queued"}, SetStatus(r, s)
  PROVE  Stays \/ Goes(r)
  <1>1. Queued' = Queued \ {r}
    BY DEF SetStatus, Queued, TypeOK
  <1>2. CASE r \in stamped
    BY <1>1, <1>2 DEF SetStatus, Stays, InLine
  <1>3. CASE r \notin stamped
    BY <1>1, <1>3 DEF SetStatus, LeaveLine, Goes, InLine
  <1> QED BY <1>2, <1>3

LEMMA PlaceIsTaken ==
  ASSUME TypeOK, NEW r \in stamped, TakePlace(r)
  PROVE  Stays
  <1>1. Queued' = Queued \cup {r} /\ stamped' = stamped \ {r}
    BY DEF TakePlace, Queued, TypeOK
  <1> QED BY <1>1 DEF TakePlace, Stays, InLine

LEMMA LineIsLeft ==
  ASSUME TypeOK, NEW r \in Runs, LeaveLine(r), Queued' = Queued, r \notin Queued
  PROVE  Goes(r)
  BY DEF LeaveLine, Goes, InLine

\* What the steps need to know of the run in hand.
LEMMA HandInLine ==
  ASSUME IInv, at \in InHand
  PROVE  hand \in Runs /\ status[hand] \in {"running", "canceled"} /\ hand \notin Queued
  BY DEF IInv, HandIsApart, AttendedStatus, Queued

LEMMA LineMoves ==
  ASSUME IInv, LineIsOrdered, [Next]_vars
  PROVE  Stays \/ \E r \in Runs : Comes(r) \/ Goes(r)
  <1>0. TypeOK /\ status \in [Runs -> Statuses]
    BY DEF IInv, TypeOK
  <1>1. CASE UNCHANGED queueVars
    BY <1>1 DEF queueVars, Stays, InLine, Queued
  <1>2. ASSUME NEW r \in Runs, EnqueueReads(r) PROVE Comes(r)
    BY <1>2, <1>0 DEF EnqueueReads, Comes, InLine, Queued, LineIsOrdered
  <1>3. ASSUME NEW r \in Runs, Enqueue(r) PROVE Stays
    BY <1>0, <1>3, PlaceIsTaken DEF Enqueue
  <1>4. ASSUME NEW r \in Runs, EnqueueFails(r) PROVE Goes(r)
    BY <1>0, <1>4, LineIsLeft DEF EnqueueFails, Queued
  <1>5. ASSUME NEW r \in Runs, CancelWrite(r) \/ LeaseNext(r) \/ FinishRun(r) \/ RetractResult(r)
        PROVE  Stays \/ Goes(r)
    <2>1. PICK s \in Statuses \ {"queued"} : SetStatus(r, s)
      BY <1>5 DEF CancelWrite, LeaseNext, FinishRun, RetractResult, Statuses, Terminal
    <2> QED BY <1>0, <2>1, StatusMoves
  <1>6. CASE FailUnknown
    <2>1. hand \in Runs /\ SetStatus(hand, "failed") /\ "failed" \in Statuses \ {"queued"}
      BY <1>6, HandInLine DEF FailUnknown, InHand, Statuses, Terminal
    <2> QED BY <1>0, <2>1, StatusMoves
  <1>7. CASE RequeueReads
    <2>1. hand \in Runs /\ hand \notin Queued /\ status[hand] # "absent" /\ at = "refused"
      BY <1>7, HandInLine DEF RequeueReads, InHand
    <2>2. hand \notin InLine
      BY <2>1 DEF LineIsOrdered, InLine
    <2> QED BY <1>7, <2>1, <2>2 DEF RequeueReads, Comes
  <1>8. CASE Requeue
    BY <1>0, <1>8, PlaceIsTaken DEF Requeue, LineIsOrdered
  <1>9. CASE DispatchFault
    <2>1. hand \in Runs /\ hand \notin Queued
      BY <1>9, HandInLine DEF DispatchFault
    <2>2. CASE at = "requeuing" /\ TakePlace(hand)
      BY <1>0, <2>2, PlaceIsTaken DEF LineIsOrdered
    <2>3. CASE (status' = [status EXCEPT ![hand] = "failed"] \/ UNCHANGED status) /\ LeaveLine(hand)
      <3>1. Queued' = Queued
        BY <1>0, <2>1, <2>3 DEF Queued
      <3> QED BY <1>0, <2>1, <2>3, <3>1, LineIsLeft
    <2> QED BY <1>9, <2>2, <2>3 DEF DispatchFault
  <1>10. CASE GoDown
    <2>1. Queued' = Queued /\ LeaveLine(hand)
      BY <1>10 DEF GoDown, Queued
    <2>2. CASE hand \in Runs
      <3>1. at \in InHand
        BY <2>2 DEF IInv, HandIsApart
      <3> QED BY <1>0, <2>1, <2>2, <3>1, HandInLine, LineIsLeft
    <2>3. CASE hand \notin Runs
      <3>1. stamped' = stamped /\ ahead' = ahead
        BY <1>0, <2>1, <2>3 DEF LeaveLine, TypeOK
      <3> QED BY <2>1, <3>1 DEF Stays, InLine
    <2> QED BY <2>2, <2>3
  <1>11. CASE Start
    <2>1. Queued' = Queued /\ stamped' = stamped /\ ahead' = ahead
      BY <1>11, <1>0 DEF Start, Queued
    <2> QED BY <2>1 DEF Stays, InLine
  <1> QED
    BY <1>1, <1>2, <1>3, <1>4, <1>5, <1>6, <1>7, <1>8, <1>9, <1>10, <1>11
       DEF Next, Dispatch, Worker, CancelRead, BeginPass, PassEnds, AcquireLock, LockUnavailable,
           SpawnWorker, LoseResult, ReleaseLock, WorkerExits, Heartbeat, LeaseLapses, Stop, vars, queueVars

LEMMA LineStep == IInv /\ LineIsOrdered /\ [Next]_vars => LineIsOrdered'
  <1> SUFFICES ASSUME IInv, LineIsOrdered, [Next]_vars PROVE LineIsOrdered'
    OBVIOUS
  <1>0. /\ status \in [Runs -> Statuses] /\ stamped \subseteq Runs /\ ahead \in [Runs -> SUBSET Runs]
        /\ InLine \subseteq Runs
    BY DEF IInv, TypeOK, InLine, Queued
  <1>1. /\ \A r \in Runs : ahead'[r] \subseteq InLine' \ {r}
        /\ \A r, q \in InLine' : r # q => (q \in ahead'[r] <=> r \notin ahead'[q])
    <2>1. CASE Stays
      BY <2>1 DEF Stays, LineIsOrdered
    <2>2. ASSUME NEW r \in Runs, Comes(r)
          PROVE  /\ InLine' = InLine \cup {r} /\ ahead'[r] = InLine
                 /\ \A q \in Runs : q # r => ahead'[q] = ahead[q]
      BY <1>0, <2>2 DEF Comes, ReadClock, InLine, Queued
    <2>3. ASSUME NEW r \in Runs, Comes(r)
          PROVE  /\ \A p \in Runs : ahead'[p] \subseteq InLine' \ {p}
                 /\ \A p, q \in InLine' : p # q => (q \in ahead'[p] <=> p \notin ahead'[q])
      BY <1>0, <2>2, <2>3 DEF Comes, LineIsOrdered
    <2>4. ASSUME NEW r \in Runs, Goes(r)
          PROVE  /\ \A p \in Runs : ahead'[p] \subseteq InLine' \ {p}
                 /\ \A p, q \in InLine' : p # q => (q \in ahead'[p] <=> p \notin ahead'[q])
      BY <1>0, <2>4 DEF Goes, LineIsOrdered
    <2> QED BY <2>1, <2>3, <2>4, LineMoves
  <1>2. /\ \A r \in stamped' : status'[r] = "absent" \/ (at' = "requeuing" /\ hand' = r)
        /\ at' = "requeuing" => hand' \in stamped'
    <2> DEFINE Goal == /\ \A r \in stamped' : status'[r] = "absent" \/ (at' = "requeuing" /\ hand' = r)
                       /\ at' = "requeuing" => hand' \in stamped'
    <2>0. /\ \A r \in stamped : status[r] = "absent" \/ (at = "requeuing" /\ hand = r)
          /\ at = "requeuing" => hand \in stamped
      BY DEF LineIsOrdered
    <2>1. CASE UNCHANGED <<status, stamped, at, hand>>
      BY <2>0, <2>1
    <2>2. ASSUME NEW r \in Runs, EnqueueReads(r) \/ Enqueue(r) \/ EnqueueFails(r) PROVE Goal
      <3>1. /\ at' = at /\ hand' = hand
            /\ \A q \in stamped' : status'[q] = "absent" \/ (q \in stamped /\ status'[q] = status[q])
        BY <1>0, <2>0, <2>2 DEF EnqueueReads, Enqueue, EnqueueFails, ReadClock, TakePlace, LeaveLine, threadVars
      <3>2. at = "requeuing" => status[hand] # "absent"
        BY HandInLine DEF InHand
      <3>3. at = "requeuing" => hand \in stamped'
        BY <2>0, <2>2, <3>2 DEF EnqueueReads, Enqueue, EnqueueFails, ReadClock, TakePlace, LeaveLine
      <3> QED BY <2>0, <3>1, <3>3
    <2>3. ASSUME NEW r \in Runs, CancelWrite(r) \/ FinishRun(r) \/ RetractResult(r) PROVE Goal
      <3>1. status[r] # "absent" /\ at' = at /\ hand' = hand
        BY <2>3 DEF IInv, CancelsExist, AttendedStatus, CancelWrite, FinishRun, RetractResult, threadVars
      <3>2. stamped' = stamped /\ \A q \in Runs : q # r => status'[q] = status[q]
        BY <1>0, <2>3 DEF CancelWrite, FinishRun, RetractResult, SetStatus, LeaveLine
      <3> QED BY <1>0, <2>0, <3>1, <3>2
    <2>4. ASSUME NEW r \in Runs, LeaseNext(r) PROVE Goal
      <3>1. /\ at = "scanning" /\ at' = "leased" /\ status[r] = "queued"
            /\ stamped' = stamped /\ \A q \in Runs : q # r => status'[q] = status[q]
        BY <1>0, <2>4 DEF LeaseNext, NextQueued, Queued, SetStatus, LeaveLine
      <3> QED BY <1>0, <2>0, <3>1
    <2>5. CASE FailUnknown \/ RequeueReads \/ Requeue \/ DispatchFault
      <3>1. hand \in Runs /\ status[hand] # "absent"
        BY <2>5, HandInLine DEF FailUnknown, RequeueReads, Requeue, DispatchFault, InHand
      <3>2. CASE FailUnknown
        BY <1>0, <2>0, <3>1, <3>2 DEF FailUnknown, SetStatus, LeaveLine
      <3>3. CASE RequeueReads
        BY <2>0, <3>3 DEF RequeueReads, ReadClock
      <3>4. CASE Requeue \/ DispatchFault
        BY <1>0, <2>0, <3>1, <3>4 DEF Requeue, DispatchFault, TakePlace, LeaveLine
      <3> QED BY <2>5, <3>2, <3>3, <3>4
    <2>6. CASE GoDown
      BY <2>0, <2>6 DEF GoDown, LeaveLine
    <2>7. CASE Start
      <3>1. at = "polling" /\ at' = at /\ hand' = hand /\ stamped' = stamped
        BY <2>7 DEF Start, IInv, DownIsIdle, threadVars
      <3>2. \A r \in Runs : status[r] = "absent" => status'[r] = "absent"
        BY <2>7 DEF Start
      <3> QED BY <1>0, <2>0, <3>1, <3>2
    <2>8. CASE BeginPass \/ PassEnds \/ AcquireLock \/ LockUnavailable \/ SpawnWorker
      BY <2>0, <2>8 DEF BeginPass, PassEnds, AcquireLock, LockUnavailable, SpawnWorker, queueVars
    <2> QED
      BY <2>1, <2>2, <2>3, <2>4, <2>5, <2>6, <2>7, <2>8
         DEF Next, Dispatch, Worker, CancelRead, LoseResult, ReleaseLock, WorkerExits, Heartbeat, LeaseLapses,
             Stop, vars, queueVars, threadVars
  <1> QED BY <1>1, <1>2 DEF LineIsOrdered

\* Only the dispatcher takes a run out of the queue to run it.
LEMMA LeasedByLease ==
  ASSUME IInv, [Next]_vars, NEW q \in Runs, status[q] = "queued", status'[q] = "running"
  PROVE  LeaseNext(q)
  <1>0. status \in [Runs -> Statuses]
    BY DEF IInv, TypeOK
  <1>1. CASE UNCHANGED status
    BY <1>1
  <1>2. ASSUME NEW r \in Runs, NEW s \in {"queued", "succeeded", "failed", "canceled"},
               status' = [status EXCEPT ![r] = s]
        PROVE  FALSE
    BY <1>0, <1>2
  <1>3. ASSUME NEW r \in Runs, LeaseNext(r) PROVE r = q
    BY <1>0, <1>3 DEF LeaseNext, SetStatus
  <1>4. CASE FailUnknown \/ Requeue \/ DispatchFault
    <2>1. hand \in Runs
      BY <1>4, HandInLine DEF FailUnknown, Requeue, DispatchFault, InHand
    <2> QED BY <1>1, <1>2, <1>4, <2>1 DEF FailUnknown, Requeue, DispatchFault, SetStatus, TakePlace
  <1>5. ASSUME NEW r \in Runs, Enqueue(r) \/ CancelWrite(r) \/ FinishRun(r) \/ RetractResult(r) PROVE FALSE
    BY <1>2, <1>5 DEF Enqueue, CancelWrite, FinishRun, RetractResult, SetStatus, TakePlace
  <1>6. CASE Start
    BY <1>0, <1>6 DEF Start
  <1> QED
    BY <1>1, <1>3, <1>4, <1>5, <1>6
       DEF Next, Dispatch, Worker, EnqueueReads, EnqueueFails, RequeueReads, ReadClock, CancelRead, BeginPass, PassEnds,
           AcquireLock, LockUnavailable, SpawnWorker, LoseResult, ReleaseLock, WorkerExits, Heartbeat, LeaseLapses,
           Stop, GoDown, vars, queueVars

\* For any runs, callers, requeues, cancellations and restarts (ORDER BY
\* queued_at in lease_next_queued_run, with the times of enqueue_run and
\* requeue_run).
THEOREM QueueIsFair == Spec => NobodyOvertakes
  <1> DEFINE Fair == \A r \in Runs :
        /\ r \in InLine /\ r \in InLine' => ahead'[r] \subseteq ahead[r]
        /\ \A q \in Runs \ {r} :
             r \in Queued \ blocked /\ status[q] = "queued" /\ status'[q] = "running" => q \in ahead[r]
  <1>1. Init => LineIsOrdered
    BY DEF Init, LineIsOrdered, InLine, Queued
  <1>2. IInv /\ LineIsOrdered /\ [Next]_vars => LineIsOrdered'
    BY LineStep
  <1>3. ASSUME IInv, LineIsOrdered, [Next]_vars PROVE [Fair]_vars
    <2>0. ahead \in [Runs -> SUBSET Runs]
      BY <1>3 DEF IInv, TypeOK
    <2>1. ASSUME NEW r \in InLine, NEW p \in Runs, Comes(p) \/ Goes(p), r \in Runs PROVE ahead'[r] \subseteq ahead[r]
      BY <2>0, <2>1 DEF Comes, Goes, ReadClock
    <2>2. ASSUME NEW r \in Runs, r \in InLine PROVE ahead'[r] \subseteq ahead[r]
      BY <1>3, <2>1, <2>2, LineMoves DEF Stays
    <2>3. ASSUME NEW r \in Queued \ blocked, NEW q \in Runs \ {r}, status[q] = "queued", status'[q] = "running"
          PROVE  q \in ahead[r]
      <3>1. LeaseNext(q)
        BY <1>3, <2>3, LeasedByLease
      <3>2. q \in Queued /\ ahead[q] \cap (Queued \ blocked) = {}
        BY <3>1 DEF LeaseNext, NextQueued
      <3> QED BY <1>3, <2>3, <3>2 DEF LineIsOrdered, InLine
    <2> QED BY <2>2, <2>3
  <1> QED
    BY Invariance, <1>1, <1>2, <1>3, PTL DEF Spec, NobodyOvertakes

===============================================================================
