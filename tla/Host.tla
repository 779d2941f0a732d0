--------------------------------- MODULE Host ---------------------------------
(***************************************************************************)
(* The host process of egopulse and the service around it: main.rs and     *)
(* runtime.rs, which start the enabled channels and stop the process when  *)
(* one of them ends, and gateway.rs, whose commands write a systemd unit   *)
(* and have the service manager start, restart and remove it.              *)
(*                                                                         *)
(* A command is the list of what it has yet to do; the first failure ends  *)
(* it. A unit's text is known by the executable and the configuration it   *)
(* was rendered for; two renderings for the same two are equal.            *)
(***************************************************************************)
EXTENDS Naturals, Sequences

CONSTANTS
  HostChannels, \* the channels that may be enabled; "web" is one of them
  HostExes,     \* paths where an executable of egopulse may be
  HostFiles,    \* paths of configuration files
  NoUnit,
  CutUnit,      \* a unit's text that breaks off before it says what to run
  MaxEvents     \* bound: commands, signals and reboots in all

VARIABLES
  unit,     \* ~/.config/systemd/user/egopulse.service
  manager,  \* what systemd knows: the unit it has loaded, whether it is
            \* enabled, whether the service shall run, and (history) whether
            \* it was so while no unit was there
  binary,   \* how often the executable at each path was replaced
  service,  \* the host process and what it was started from
  tasks,    \* the task of each channel
  report,   \* status.json: written by this process, by an earlier one, or cut
  command,  \* the gateway command in progress: [action, todo, asked, outcome]
  events

(* What a unit has the service run: an executable with a configuration.    *)
HostUnits == [exe : HostExes, file : HostFiles]

ASSUME HostConstants == NoUnit \notin HostUnits /\ CutUnit \notin HostUnits \cup {NoUnit}

hostVars == <<unit, manager, binary, service, tasks, report, command, events>>

Units == HostUnits \cup {NoUnit, CutUnit}
NoTasks == [c \in HostChannels |-> "off"]
NotRunning == [at |-> "down", unit |-> NoUnit, binary |-> 0]
NoCommand == [action |-> "none", todo |-> <<>>, asked |-> NoUnit, outcome |-> "none"]

HostInit ==
  /\ unit = NoUnit
  /\ manager = [loaded |-> NoUnit, enabled |-> FALSE, wanted |-> FALSE, orphan |-> FALSE]
  /\ binary = [e \in HostExes |-> 0] /\ service = NotRunning /\ tasks = NoTasks /\ report = "none"
  /\ command = NoCommand /\ events = 0

Event == events < MaxEvents /\ events' = events + 1

-------------------------------------------------------------------------------
(* The process.                                                            *)

(* It is gone, with all of its tasks.                                      *)
Exit ==
  /\ service' = NotRunning /\ tasks' = NoTasks
  /\ report' = IF report = "own" THEN "stale" ELSE report

(* The manager starts what the unit it has loaded names, if it names it.   *)
CanLaunch == manager.loaded \in HostUnits
Launched == [at |-> "starting", unit |-> manager.loaded, binary |-> binary[manager.loaded.exe]]

(* Restart=always: the service is started again as long as it is wanted.   *)
AutoRestart ==
  /\ service.at = "down" /\ manager.wanted /\ CanLaunch
  /\ service' = Launched
  /\ UNCHANGED <<unit, manager, binary, tasks, report, command, events>>

(* run_foreground, build_app_state_with_path: the configuration cannot be  *)
(* read, the database cannot be opened, or no channel can be started.      *)
StartFails ==
  /\ service.at = "starting"
  /\ Exit
  /\ UNCHANGED <<unit, manager, binary, command, events>>

(* write_startup_status: a failure is logged and passed over.              *)
WriteStatus == \E written \in {"own", report} : report' = written

(* start_channels: a task for each enabled channel that has what it needs. *)
StartChannels ==
  /\ service.at = "starting"
  /\ WriteStatus
  /\ \E enabled \in SUBSET HostChannels \ {{}} :
       tasks' = [c \in HostChannels |-> IF c \in enabled THEN "serving" ELSE "off"]
  /\ service' = [service EXCEPT !.at = "watching"]
  /\ UNCHANGED <<unit, manager, binary, command, events>>

(* write_status is no atomic write.                                        *)
DieInStatus ==
  /\ service.at = "starting" /\ Event
  /\ service' = NotRunning /\ report' = "cut"
  /\ UNCHANGED <<unit, manager, binary, tasks, command>>

(* A channel's task returns: it failed to start, lost its connection or    *)
(* panicked, or it has finished what a signal told it to.                  *)
ChannelEnds(c) ==
  /\ tasks[c] \in {"serving", "draining"}
  /\ tasks' = [tasks EXCEPT ![c] = "ended"]
  /\ UNCHANGED <<unit, manager, binary, service, report, command, events>>

(* The loop of start_channels finds a task that has ended.                 *)
Notice ==
  /\ service.at = "watching"
  /\ \E c \in HostChannels :
       /\ tasks[c] = "ended"
       /\ tasks' = [tasks EXCEPT ![c] = "off"]
  /\ service' = [service EXCEPT !.at = "closing"]
  /\ UNCHANGED <<unit, manager, binary, report, command, events>>

(* Mutant: a task that does not stop by itself is waited for.              *)
CloseTask_Waits(c) ==
  /\ service.at = "closing" /\ tasks[c] = "ended"
  /\ tasks' = [tasks EXCEPT ![c] = "off"]
  /\ UNCHANGED <<unit, manager, binary, service, report, command, events>>

(* shutdown_channel_tasks: it is given ten seconds and then aborted.       *)
CloseTask(c) ==
  /\ service.at = "closing" /\ tasks[c] # "off"
  /\ tasks' = [tasks EXCEPT ![c] = "off"]
  /\ UNCHANGED <<unit, manager, binary, service, report, command, events>>

Return ==
  /\ service.at = "closing" /\ tasks = NoTasks
  /\ Exit
  /\ UNCHANGED <<unit, manager, binary, command, events>>

(* Ctrl-C: every channel hears it. The supervisor hears it unless it is    *)
(* just between two rounds of its loop; before it listens the signal kills.*)
Interrupt ==
  /\ service.at \in {"starting", "watching"} /\ Event
  /\ IF service.at = "starting" THEN Exit
     ELSE /\ tasks' = [c \in HostChannels |-> IF tasks[c] = "serving" THEN "draining" ELSE tasks[c]]
          /\ \E at \in {"watching", "closing"} : service' = [service EXCEPT !.at = at]
          /\ UNCHANGED report
  /\ UNCHANGED <<unit, manager, binary, command>>

(* SIGTERM: only the web server's task listens for it (run_server). It     *)
(* lets its open connections end; without that task the process is killed. *)
Terminated ==
  IF tasks["web"] = "off" /\ service.at # "closing" THEN Exit
  ELSE /\ tasks' = [tasks EXCEPT !["web"] = IF @ = "serving" THEN "draining" ELSE @]
       /\ UNCHANGED <<service, report>>

(* The process is killed from outside, or runs out of memory.              *)
Die ==
  /\ service.at # "down" /\ Event
  /\ Exit
  /\ UNCHANGED <<unit, manager, binary, command>>

(* TimeoutStopSec: a service that was told to stop is killed.              *)
StopTimesOut ==
  /\ service.at # "down" /\ ~manager.wanted
  /\ command.todo # <<>> /\ Head(command.todo) = "stopped"
  /\ Exit
  /\ UNCHANGED <<unit, manager, binary, command, events>>

Doing(step) == command.todo # <<>> /\ Head(command.todo) = step

(* fs::write empties the file and fills it: where it breaks off the unit   *)
(* is as before, cut, or has all that matters of the new one.              *)
BrokenOff == IF Doing("write") THEN {unit, CutUnit, command.asked} ELSE {unit}

(* The machine restarts: an enabled unit is started with it.               *)
Reboot ==
  /\ Event
  /\ Exit
  /\ unit' \in BrokenOff
  /\ manager' = [manager EXCEPT !.loaded = unit', !.orphan = FALSE,
                                  !.wanted = manager.enabled /\ unit' \in HostUnits]
  /\ command' = NoCommand
  /\ UNCHANGED binary

-------------------------------------------------------------------------------
(* The commands.                                                           *)

(* run_gateway, run_update. What has a question mark may fail unnoticed.   *)
Todo(action) ==
  CASE action = "install"   -> <<"session", "config", "write", "reload", "apply">>
    [] action = "start"     -> <<"session", "start">>
    [] action = "stop"      -> <<"session", "stop">>
    [] action = "restart"   -> <<"session", "restart">>
    [] action = "uninstall" -> <<"session", "disable?", "reload?", "remove", "reload">>
    [] action = "status"    -> <<"session", "show">>
    [] action = "update"    -> <<"replace", "installed?", "session", "restart">>

Actions == {"install", "start", "stop", "restart", "uninstall", "status", "update"}

GiveCommand ==
  /\ command.todo = <<>> /\ Event
  /\ \E action \in Actions, asked \in HostUnits :
       command' = [action |-> action, todo |-> Todo(action), asked |-> asked, outcome |-> "none"]
  /\ UNCHANGED <<unit, manager, binary, service, tasks, report>>

(* The step at the head is done and `todo` comes next.                     *)
GoOn(todo) ==
  command' = [command EXCEPT !.todo = todo, !.outcome = IF todo = <<>> THEN "ok" ELSE "none"]
Rest == Tail(command.todo)

(* Any step may fail, and has then changed nothing but a unit it wrote;    *)
(* where the failure is ignored the command goes on.                       *)
StepFails ==
  /\ command.todo # <<>>
  /\ Head(command.todo) \notin {"stopped", "installed?"}
  /\ IF Head(command.todo) \in {"disable?", "reload?"} THEN GoOn(Rest)
     ELSE command' = [command EXCEPT !.todo = <<>>, !.outcome = "failed"]
  /\ unit' \in BrokenOff
  /\ UNCHANGED <<manager, binary, service, tasks, report, events>>

(* ensure_user_session, the existence of the configuration, the display.   *)
PassStep ==
  /\ \/ Doing("session") \/ Doing("config")
     \/ Doing("show") /\ service.at # "down"
  /\ GoOn(Rest)
  /\ UNCHANGED <<unit, manager, binary, service, tasks, report, events>>

(* The unit names the executable that installs (current_exe) and the       *)
(* configuration. already_installed is asked before it is written, of any  *)
(* file: the service is enabled and started, or only restarted.            *)
WriteUnit ==
  /\ Doing("write")
  /\ unit' = command.asked
  /\ GoOn(<<"reload", IF unit # NoUnit THEN "restart" ELSE "enable">>)
  /\ UNCHANGED <<manager, binary, service, tasks, report, events>>

(* Mutant: the manager is not told of the unit it has loaded before.       *)
DaemonReload_New ==
  /\ Doing("reload") \/ Doing("reload?")
  /\ manager' = [manager EXCEPT !.loaded = IF @ = NoUnit \/ unit = NoUnit THEN unit ELSE @]
  /\ GoOn(Rest)
  /\ UNCHANGED <<unit, binary, service, tasks, report, events>>

DaemonReload ==
  /\ Doing("reload") \/ Doing("reload?")
  /\ manager' = [manager EXCEPT !.loaded = unit]
  /\ GoOn(Rest)
  /\ UNCHANGED <<unit, binary, service, tasks, report, events>>

RemoveUnit ==
  /\ Doing("remove")
  /\ unit' = NoUnit
  /\ manager' = [manager EXCEPT !.orphan = @ \/ manager.wanted]
  /\ GoOn(Rest)
  /\ UNCHANGED <<binary, service, tasks, report, events>>

(* systemctl start: a service that runs already is left alone.             *)
Start ==
  /\ Doing("start") \/ Doing("enable")
  /\ CanLaunch
  /\ manager' = [manager EXCEPT !.wanted = TRUE, !.enabled = @ \/ Doing("enable"),
                                !.orphan = @ \/ unit = NoUnit]
  /\ service' = IF service.at = "down" THEN Launched ELSE service
  /\ GoOn(Rest)
  /\ UNCHANGED <<unit, binary, tasks, report, events>>

(* systemctl stop, restart, disable --now: SIGTERM, and wait for the end.  *)
Stop ==
  /\ \E step \in {"stop", "restart", "disable?"} :
       /\ Doing(step)
       /\ step = "restart" => CanLaunch
       /\ GoOn((IF step = "restart" THEN <<"stopped", "start">> ELSE <<"stopped">>) \o Rest)
       /\ manager' = [manager EXCEPT !.wanted = FALSE, !.orphan = FALSE,
                                     !.enabled = @ /\ step # "disable?"]
  /\ IF service.at = "down" THEN UNCHANGED <<service, tasks, report>> ELSE Terminated
  /\ UNCHANGED <<unit, binary, events>>

Stopped ==
  /\ Doing("stopped") /\ service.at = "down"
  /\ GoOn(Rest)
  /\ UNCHANGED <<unit, manager, binary, service, tasks, report, events>>

(* The install script puts the newest binary into the directory it finds   *)
(* (detect_install_dir), which need not be where the unit looks for it;    *)
(* restart_service has nothing to do where no unit is installed.           *)
Replace ==
  /\ Doing("replace")
  /\ \E exe \in HostExes : binary' = [binary EXCEPT ![exe] = @ + 1]
  /\ GoOn(Rest)
  /\ UNCHANGED <<unit, manager, service, tasks, report, events>>

IsInstalled ==
  /\ Doing("installed?")
  /\ GoOn(IF unit = NoUnit THEN <<>> ELSE Rest)
  /\ UNCHANGED <<unit, manager, binary, service, tasks, report, events>>

CommandStep ==
  \/ StepFails \/ PassStep \/ WriteUnit \/ DaemonReload \/ RemoveUnit
  \/ Start \/ Stop \/ Stopped \/ Replace \/ IsInstalled

Supervise == Notice \/ Return \/ \E c \in HostChannels : CloseTask(c)

HostNext ==
  \/ AutoRestart \/ StartFails \/ StartChannels \/ DieInStatus
  \/ \E c \in HostChannels : ChannelEnds(c)
  \/ Supervise \/ Interrupt \/ Die \/ StopTimesOut \/ Reboot
  \/ GiveCommand \/ CommandStep

(* The supervisor wakes every two seconds and waits ten for a task.        *)
HostFairness == WF_hostVars(Supervise)
HostSpec == HostInit /\ [][HostNext]_hostVars /\ HostFairness

-------------------------------------------------------------------------------
(* After an install that reported success the service runs the executable  *)
(* that installed with the configuration asked for, also when an earlier   *)
(* install broke off in the middle of the unit, the process has failed     *)
(* since, or it was slow to stop. After an update it runs what is now at   *)
(* the executable of its unit: the new binary if the script has put it     *)
(* there. An update into another directory reports success too, and the    *)
(* service goes on with the old binary; that much is not claimed.          *)
(* A process that runs without a unit is excepted: it has outlived an      *)
(* uninstall (whose failing disable is passed over), or a manager that was *)
(* not told of the uninstall has started it again. The next install finds  *)
(* it running and leaves it.                                               *)
InstallTakesEffect ==
  command.outcome = "ok" /\ service.at # "down" /\ ~manager.orphan =>
    /\ command.action = "install" => service.unit = command.asked
    /\ command.action = "update" /\ unit # NoUnit => service.binary = binary[service.unit.exe]

(* A channel that ends takes the process down within bounded time, whoever *)
(* else still serves, drains its connections or missed a signal.           *)
FailureIsNoticed ==
  \A c \in HostChannels : tasks[c] = "ended" ~> service.at = "down"

===============================================================================
