------------------------------ MODULE JobServer ------------------------------
(***************************************************************************)
(* What the run queue promises its users, without queue, locks, threads or *)
(* crashes: a submitted run is started at most once, never more than       *)
(* MaxConcurrentRuns are active, and - when leases are kept alive - two    *)
(* active runs never share a lock key.  A closed run stays closed: neither *)
(* a requeue, a late cancel nor a restart brings it back.                  *)
(***************************************************************************)
EXTENDS Naturals, FiniteSets

CONSTANTS
  Runs,               \* run ids
  LockKeyOf,          \* [Runs -> lock keys]
  MaxConcurrentRuns,  \* config.max_concurrent_runs
  Exclusive           \* whether active runs exclude each other by lock key

VARIABLE phase  \* [Runs -> {"absent", "pending", "active", "closed"}]

Active == {r \in Runs : phase[r] = "active"}

ServerInit == phase = [r \in Runs |-> "absent"]

Submit(r) ==
  /\ phase[r] = "absent"
  /\ phase' = [phase EXCEPT ![r] = "pending"]

Activate(r) ==
  /\ phase[r] = "pending"
  /\ Cardinality(Active) < MaxConcurrentRuns
  /\ Exclusive => \A s \in Active : LockKeyOf[s] # LockKeyOf[r]
  /\ phase' = [phase EXCEPT ![r] = "active"]

\* Runs finish, are canceled or rejected, or go down with the service.
Close(S) ==
  /\ \A r \in S : phase[r] \in {"pending", "active"}
  /\ phase' = [r \in Runs |-> IF r \in S THEN "closed" ELSE phase[r]]

ServerNext ==
  \/ \E r \in Runs : Submit(r) \/ Activate(r)
  \/ \E S \in SUBSET Runs : Close(S)

ServerSpec == ServerInit /\ [][ServerNext]_phase
=============================================================================
