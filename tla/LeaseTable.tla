----------------------------- MODULE LeaseTable -----------------------------
(***************************************************************************)
(* What the table workflow_locks promises to the dispatcher, without time: *)
(* a lock key has at most one row, a row that is live cannot be taken, a   *)
(* row that has lapsed can be taken over or swept, and a heartbeat or a    *)
(* release touches only a row that still names its own lease.              *)
(*                                                                         *)
(* WorkflowLocks refines this module with the clock of lock_manager.py;    *)
(* RunDispatcher is built on it.                                           *)
(***************************************************************************)
EXTENDS Naturals

CONSTANTS
  LockKeys,  \* the lock keys of the registered workflows
  Leases,    \* the identities a row can name: (run_id, lease_owner)
  NoLease    \* no row for this key

VARIABLES
  holder,  \* [LockKeys -> Leases \cup {NoLease}]: the lease the row names
  live     \* the keys whose row has not expired

LocksOK ==
  /\ holder \in [LockKeys -> Leases \cup {NoLease}]
  /\ live \in SUBSET LockKeys

\* The row of k is written; it may be past its expiry already when its writer
\* was slow (fresh is FALSE then).
Stamp(k, fresh) == live' = IF fresh THEN live \cup {k} ELSE live \ {k}

\* Mutants: a live row is taken over; a row of another lease is deleted.
Acquire_Steals(k, l, fresh) ==
  /\ holder' = [holder EXCEPT ![k] = l]
  /\ Stamp(k, fresh)

Release_AnyHolder(k, l) ==
  /\ holder' = [holder EXCEPT ![k] = NoLease]
  /\ live' = live \ {k}

\* acquire(): allowed unless a live row is there; it overwrites a lapsed row.
Acquire(k, l, fresh) ==
  /\ k \notin live
  /\ holder' = [holder EXCEPT ![k] = l]
  /\ Stamp(k, fresh)

\* heartbeat(): UPDATE ... WHERE lock_key, run_id and lease_owner match.
Renew(k, l, fresh) ==
  /\ holder[k] = l
  /\ Stamp(k, fresh)
  /\ UNCHANGED holder

\* release(): DELETE ... WHERE lock_key, run_id and lease_owner match.
Release(k, l) ==
  IF holder[k] = l
  THEN /\ holder' = [holder EXCEPT ![k] = NoLease]
       /\ live' = live \ {k}
  ELSE UNCHANGED <<holder, live>>

\* The leases of the rows in S run out.
Lapse(S) ==
  /\ live' = live \ S
  /\ UNCHANGED holder

\* cleanup_stale_locks(): removes rows that have lapsed, never a live one.
Sweep(S) ==
  /\ S \cap live = {}
  /\ holder' = [k \in LockKeys |-> IF k \in S THEN NoLease ELSE holder[k]]
  /\ UNCHANGED live

TableInit ==
  /\ holder = [k \in LockKeys |-> NoLease]
  /\ live = {}

TableNext ==
  \/ \E k \in LockKeys, l \in Leases, b \in BOOLEAN :
       Acquire(k, l, b) \/ Renew(k, l, b)
  \/ \E k \in LockKeys, l \in Leases : Release(k, l)
  \/ \E S \in SUBSET LockKeys : Lapse(S) \/ Sweep(S)

TableSpec == TableInit /\ [][TableNext]_<<holder, live>>
=============================================================================
