--------------------------- MODULE MCWorkflowLocks ---------------------------
(***************************************************************************)
(* For TLC: the lock table with two or three runs that share one lock key  *)
(* ("locks"), and what the keys of the workflow registry are for: the      *)
(* compaction of the browser's history, which two workflows run            *)
(* ("history"), and the ingest runs of the other sources ("sources").      *)
(* Rows of different keys never meet in the code, so one key is enough.    *)
(* The scenes share nothing but the key, and the others rely on the first: *)
(* they have one compactor, one run.                                       *)
(***************************************************************************)
EXTENDS WorkflowLocks, HistoryIngest, SourceIngest, TLC

CONSTANT shared

VARIABLE scene

MCLockKeys  == {shared}
MCLockKeyOf == [l \in Leases |-> shared]
MCMonthOf   == [t \in 1 .. MaxNow |-> IF t < MaxNow THEN 1 ELSE 2]
Symmetry    == Permutations(Leases) \cup Permutations(Syncs) \cup Permutations(Repos)

LocksStep   == scene = "locks" /\ Next /\ UNCHANGED <<historyVars, ingestVars, scene>>
HistoryStep == scene = "history" /\ HistoryNext /\ UNCHANGED <<vars, ingestVars, scene>>
SourceStep  == scene = "sources" /\ IngestNext /\ UNCHANGED <<vars, historyVars, scene>>

ScenesInit ==
  /\ scene \in {"locks", "history", "sources"}
  /\ Init /\ HistoryInit /\ IngestInit
  /\ scene # "sources" => source = "github"
ScenesNext == LocksStep \/ HistoryStep \/ SourceStep
ScenesSpec == ScenesInit /\ [][ScenesNext]_<<vars, historyVars, ingestVars, scene>>
=============================================================================
