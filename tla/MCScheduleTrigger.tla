-------------------------- MODULE MCScheduleTrigger --------------------------
(***************************************************************************)
(* ScheduleTrigger for TLC: two schedules, of one workflow or of two, with *)
(* slots 2 and 3 apart, so that they come due apart and together.          *)
(***************************************************************************)
EXTENDS ScheduleTrigger, TLC

CONSTANTS s1, s2, w1, w2

MCSchedules == {s1, s2}
MCOrder     == <<s1, s2>>
MCPeriod    == [s \in MCSchedules |-> IF s = s1 THEN 2 ELSE 3]
OneEach     == [s \in MCSchedules |-> IF s = s1 THEN w1 ELSE w2]
Callers     == Permutations(Apis)
Shared      == [s \in MCSchedules |-> w1]
=============================================================================
