------------------------------ MODULE MCRestart -------------------------------
(***************************************************************************)
(* What a stop of the service at any point leaves behind, in one run for   *)
(* TLC: the steps of a workflow run where every repository call may raise  *)
(* ("faults") and where none does ("calm"), and the cron triggers          *)
(* ("cron"). The parts share nothing but the database file, of which each  *)
(* has rows of its own, so that they are looked at one at a time.          *)
(***************************************************************************)
EXTENDS MCStepExecution, ScheduleTrigger

CONSTANTS s1, s2, w1, w2

VARIABLE scene

Calm == INSTANCE StepExecution WITH Faults <- FALSE, MaxRestarts <- 1

\* Two cron schedules of two workflows, with slots 2 and 3 apart.
MCSchedules == {s1, s2}
MCOrder == <<s1, s2>>
MCWorkflowOf == [s \in MCSchedules |-> IF s = s1 THEN w1 ELSE w2]
MCPeriod == [s \in MCSchedules |-> IF s = s1 THEN 2 ELSE 3]

RestartInit ==
  /\ scene \in {"faults", "calm", "cron"}
  /\ Init /\ TriggerInit

FaultyStep == scene = "faults" /\ Next /\ UNCHANGED <<triggerVars, scene>>
CalmStep   == scene = "calm" /\ Calm!Next /\ UNCHANGED <<triggerVars, scene>>
CronStep   == scene = "cron" /\ TriggerNext /\ UNCHANGED <<vars, scene>>
RestartNext == FaultyStep \/ CalmStep \/ CronStep

\* The fairness of FairSpec, for the scene without repository faults.
RestartSpec == /\ RestartInit /\ [][RestartNext]_<<vars, triggerVars, scene>>
               /\ WF_vars(scene = "calm" /\ Calm!Thread)

\* RunSettles is promised when no repository call raises.
CalmRunsSettle == scene = "calm" => RunSettles
===============================================================================
