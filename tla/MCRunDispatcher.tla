--------------------------- MODULE MCRunDispatcher ---------------------------
(***************************************************************************)
(* RunDispatcher for TLC.  r1 and r2 belong to workflows with the same     *)
(* lock key, r3 has a lock key of its own and the workflow of r4 has left  *)
(* the registry.                                                           *)
(***************************************************************************)
EXTENDS RunDispatcher, TLC

CONSTANTS r1, r2, r3, r4, shared, own

MCLockKeys == {shared, own}
MCLockKeyOf ==
  [r \in Runs |-> CASE r = r3 -> own [] r = r4 -> NoKey [] OTHER -> shared]
\* r1 and r2 are interchangeable when no worker hangs.
Twins == Permutations({r1, r2})

\* A step of r1 that never returns (r1's worker is not fair).
HungSpec == Spec /\ Fairness({r1})

\* Every queued run reaches a final status, across lock waits and restarts; a
\* run that never ends holds up only the runs that wait for its lock key.
QueuedIsSettled ==
  \A r \in Runs :
    \/ status[r] = "queued" ~> status[r] \in Terminal
    \/ LockKeyOf[r] = LockKeyOf[r1] /\ <>[](r1 \in Working)
=============================================================================
