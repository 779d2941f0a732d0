------------------------------ MODULE WebStreams ------------------------------
(***************************************************************************)
(* The web server's live side: the hub of runs and the two transports that *)
(* read from it, SSE and the WebSocket gateway. web.rs, web/stream.rs,     *)
(* web/sse.rs and web/ws.rs.                                               *)
(*                                                                         *)
(* A run's events go through an unbounded queue and a forwarder that keep  *)
(* their order, and are published under the hub's mutex, one step each. A  *)
(* subscription takes, in one step, what the history still holds and a     *)
(* receiver of a broadcast channel; the receiver then reads on its own,    *)
(* and is moved forward when it lags. The text of an event is left out.    *)
(***************************************************************************)
EXTENDS Naturals, Sequences, FiniteSets

CONSTANTS
  Runs,          \* run ids
  Pages,         \* browser pages that read a run over SSE
  Sockets,       \* WebSocket clients
  NoRun,
  HistoryLimit,  \* RUN_HISTORY_LIMIT
  Capacity,      \* capacity of a run's broadcast channel
  MaxSockets,    \* MAX_WS_CONNECTIONS
  MaxDeltas,     \* bounds the model: events of a turn between first and last
  MaxDrops       \* bounds the model: how often a page loses its stream

ASSUME WebConstants ==
  /\ {HistoryLimit, Capacity, MaxSockets} \subseteq Nat \ {0}
  /\ {MaxDeltas, MaxDrops} \subseteq Nat
  /\ NoRun \notin Runs /\ Pages \cap Sockets = {}
  /\ IsFiniteSet(Runs \cup Pages \cup Sockets)

Readers == Pages \cup Sockets
Terminal == {"done", "error"}
Kinds == {"status", "delta"} \cup Terminal   \* tool_start, tool_result: like status

VARIABLES
  run,      \* the turn behind each run, and whether the hub still lists it
  log,      \* the kinds of the events a run has published; ids count from 1
  reader,   \* each reader's receiver and what is left of its replay
  seen,     \* the ids a page was sent, over all its connections
  drops,    \* how often a page lost its connection
  socket,   \* each socket's connection task
  frames,   \* what a socket was sent about its runs
  active    \* active_ws_connections

vars == <<run, log, reader, seen, drops, socket, frames, active>>
hub == <<run, log>>
pages == <<seen, drops>>
gateway == <<socket, frames, active>>

Off == [at |-> "off", run |-> NoRun, replay |-> <<>>, next |-> 1, done |-> FALSE]
Fresh == [at |-> "new", connected |-> FALSE, busy |-> FALSE, writer |-> TRUE]

IsDone(r) == log[r] # <<>> /\ log[r][Len(log[r])] \in Terminal
Oldest(r, limit) ==   \* the first id still kept
  IF Len(log[r]) > limit THEN Len(log[r]) - limit + 1 ELSE 1

TypeOK ==
  /\ run \in [Runs -> [turn: {"none", "starting", "running", "over"}, listed: BOOLEAN]]
  /\ log \in [Runs -> Seq(Kinds)]
  /\ reader \in [Readers -> [at: {"off", "subscribing", "reading", "ended"}, run: Runs \cup {NoRun},
                             replay: Seq(Nat), next: Nat, done: BOOLEAN]]
  /\ seen \in [Pages -> Seq(Nat)] /\ drops \in [Pages -> 0 .. MaxDrops]
  /\ socket \in [Sockets -> [at: {"new", "upgrading", "open", "closing", "closed"},
                             connected: BOOLEAN, busy: BOOLEAN, writer: BOOLEAN]]
  /\ frames \in [Sockets -> Seq([kind: {"ack", "delta"} \cup Terminal, run: Runs])]
  /\ active \in Nat

Init ==
  /\ run = [r \in Runs |-> [turn |-> "none", listed |-> FALSE]]
  /\ log = [r \in Runs |-> <<>>]
  /\ reader = [k \in Readers |-> Off]
  /\ seen = [p \in Pages |-> <<>>] /\ drops = [p \in Pages |-> 0]
  /\ socket = [s \in Sockets |-> Fresh]
  /\ frames = [s \in Sockets |-> <<>>]
  /\ active = 0

-------------------------------------------------------------------------------
(* Runs.                                                                   *)

(* start_stream_run: a command is handled before the answer is given, and  *)
(* its one event ends its run ("refused": its chat could not be resolved). *)
(* A chat message spawns a turn.                                           *)
StartRun(r, message) ==
  /\ run[r].turn = "none"
  /\ run' = [run EXCEPT ![r] = [turn   |-> IF message = "chat" THEN "starting" ELSE "over",
                                listed |-> TRUE]]
  /\ log' = [log EXCEPT ![r] = IF message = "chat" THEN <<>>
                               ELSE IF message = "command" THEN <<"done">> ELSE <<"error">>]

SendOverHttp(r) ==
  /\ \E message \in {"chat", "command", "refused"} : StartRun(r, message)
  /\ UNCHANGED <<reader, pages, gateway>>

Publish(r, kind) == log' = [log EXCEPT ![r] = Append(@, kind)]

(* The task of a turn says that it runs, then what the agent loop emits.   *)
TurnEvent(r) ==
  /\ \/ /\ run[r].turn = "starting"
        /\ Publish(r, "status")
        /\ run' = [run EXCEPT ![r].turn = "running"]
     \/ /\ run[r].turn = "running" /\ Len(log[r]) <= MaxDeltas
        /\ \E kind \in {"status", "delta"} : Publish(r, kind)
        /\ UNCHANGED run
  /\ UNCHANGED <<reader, pages, gateway>>

(* Its reply or its error is the last event.                               *)
EndTurn(r) ==
  /\ run[r].turn = "running"
  /\ \E kind \in Terminal : Publish(r, kind)
  /\ run' = [run EXCEPT ![r].turn = "over"]
  /\ UNCHANGED <<reader, pages, gateway>>

(* remove_later, RUN_TTL_SECONDS after the end: the broadcast sender is    *)
(* dropped with the entry, the receivers keep what it had sent.            *)
RemoveRun(r) ==
  /\ run[r].turn = "over" /\ run[r].listed
  /\ run' = [run EXCEPT ![r].listed = FALSE]
  /\ UNCHANGED <<log, reader, pages, gateway>>

-------------------------------------------------------------------------------
(* Reading a run.                                                          *)

(* The ids the history still holds, after the last one a client has seen.  *)
ReplayAfter(r, last) ==
  LET kept == Oldest(r, HistoryLimit)
      first == IF last < kept THEN kept ELSE last + 1
  IN [i \in 1 .. (Len(log[r]) + 1 - first) |-> first + i - 1]

(* Mutant: the receiver is made before the history is copied, and what is  *)
(* published in between arrives twice.                                     *)
Subscription_Twice(r, last) ==
  [at |-> "reading", run |-> r, replay |-> ReplayAfter(r, last), done |-> IsDone(r),
   next |-> IF log[r] = <<>> THEN 1 ELSE Len(log[r])]

(* subscribe_with_replay: the history after the last event the client has  *)
(* seen, and a receiver of whatever comes after.                           *)
Subscription(r, last) ==
  [at |-> "reading", run |-> r, replay |-> ReplayAfter(r, last), done |-> IsDone(r),
   next |-> Len(log[r]) + 1]

Reading(k) == reader[k].at = "reading"
End(k) == reader' = [reader EXCEPT ![k] = [Off EXCEPT !.at = "ended", !.run = reader[k].run]]

(* What reader k is given next: at most one event.                         *)
Incoming(k) ==
  LET v == reader[k] IN
  IF ~Reading(k) THEN {}
  ELSE IF v.replay # <<>> THEN {Head(v.replay)}
  ELSE IF v.done THEN {}
  ELSE {v.next} \cap (Oldest(v.run, Capacity) .. Len(log[v.run]))

(* It stops reading with it or goes on.                                    *)
Take(k, stops) ==
  LET v == reader[k] IN
  IF stops THEN End(k)
  ELSE reader' = [reader EXCEPT ![k] =
         IF v.replay # <<>> THEN [v EXCEPT !.replay = Tail(@)] ELSE [v EXCEPT !.next = @ + 1]]

KindOf(k, id) == log[reader[k].run][id]

(* Mutant: a receiver that lagged stops reading.                           *)
Lag_Ends(k) ==
  LET v == reader[k] IN
  /\ Reading(k) /\ v.replay = <<>> /\ ~v.done
  /\ v.next < Oldest(v.run, Capacity)
  /\ End(k)
  /\ UNCHANGED <<run, log, seen, drops, socket, frames, active>>

(* RecvError::Lagged: the receiver goes on with the oldest event the       *)
(* channel still holds; nobody is told.                                    *)
Lag(k) ==
  LET v == reader[k] IN
  /\ Reading(k) /\ v.replay = <<>> /\ ~v.done
  /\ v.next < Oldest(v.run, Capacity)
  /\ reader' = [reader EXCEPT ![k].next = Oldest(v.run, Capacity)]
  /\ UNCHANGED <<run, log, seen, drops, socket, frames, active>>

(* The run was over when it was subscribed to, or its sender is gone.      *)
NothingLeft(k) ==
  LET v == reader[k] IN
  /\ Reading(k) /\ v.replay = <<>>
  /\ v.done \/ (v.next > Len(log[v.run]) /\ ~run[v.run].listed)

-------------------------------------------------------------------------------
(* Pages: api_stream.                                                      *)

LastSeen(p) == IF seen[p] = <<>> THEN 0 ELSE seen[p][Len(seen[p])]

(* A page stays with one run and comes back with the id it saw last. A run *)
(* that is not listed is a 404.                                            *)
OpenStream(p, r) ==
  /\ reader[p].at = "off" /\ reader[p].run \in {NoRun, r}
  /\ run[r].listed
  /\ reader' = [reader EXCEPT ![p] = Subscription(r, LastSeen(p))]
  /\ UNCHANGED <<hub, pages, gateway>>

ReadStream(p) ==
  \/ /\ \E id \in Incoming(p) :
          /\ Take(p, KindOf(p, id) \in Terminal)
          /\ seen' = [seen EXCEPT ![p] = Append(@, id)]
     /\ UNCHANGED <<hub, drops, gateway>>
  \/ /\ NothingLeft(p) /\ End(p)
     /\ UNCHANGED <<hub, pages, gateway>>

(* The connection is lost, and with it what was not read yet.              *)
DropStream(p) ==
  /\ Reading(p) /\ drops[p] < MaxDrops
  /\ reader' = [reader EXCEPT ![p] = [Off EXCEPT !.run = reader[p].run]]
  /\ drops' = [drops EXCEPT ![p] = @ + 1]
  /\ UNCHANGED <<hub, seen, gateway>>

-------------------------------------------------------------------------------
(* Sockets: ws_handler and handle_socket.                                  *)

SetSocket(s, next) == socket' = [socket EXCEPT ![s] = next]
Send(s, kind, r) == frames' = [frames EXCEPT ![s] = Append(@, [kind |-> kind, run |-> r])]

(* A place is taken, if there is one and the origin is allowed.            *)
Upgrade(s) ==
  /\ socket[s] = Fresh
  /\ active < MaxSockets
  /\ active' = active + 1
  /\ SetSocket(s, [Fresh EXCEPT !.at = "upgrading"])
  /\ UNCHANGED <<hub, reader, pages, frames>>

(* The permit that gives the place back is made when the upgraded socket   *)
(* is handled: the place of an upgrade that never completes stays taken.   *)
UpgradeOutcome(s) ==
  /\ socket[s].at = "upgrading"
  /\ \E at \in {"open", "closed"} : SetSocket(s, [Fresh EXCEPT !.at = at])
  /\ UNCHANGED <<hub, reader, pages, frames, active>>

(* A "connect" with valid parameters, a protocol range around 1 and the    *)
(* token; any other is answered by an error and changes nothing.           *)
Connect(s) ==
  /\ socket[s].at = "open" /\ ~socket[s].connected
  /\ SetSocket(s, [socket[s] EXCEPT !.connected = TRUE])
  /\ UNCHANGED <<hub, reader, pages, frames, active>>

(* Mutant: the permit of the connection is not asked for.                  *)
ChatSend_NotHeld(s, r) ==
  /\ socket[s].at = "open" /\ socket[s].connected
  /\ \E message \in {"chat", "command", "refused"} : StartRun(r, message)
  /\ SetSocket(s, [socket[s] EXCEPT !.busy = TRUE])
  /\ reader' = [reader EXCEPT ![s] = [Off EXCEPT !.at = "subscribing", !.run = r]]
  /\ Send(s, "ack", r)
  /\ UNCHANGED <<pages, active>>

(* A "chat.send" on a connected socket without a run of its own: the run   *)
(* is acknowledged and a task spawned that keeps the permit. An empty      *)
(* message, a busy or an unconnected socket gets an error.                 *)
ChatSend(s, r) ==
  /\ socket[s].at = "open" /\ socket[s].connected /\ ~socket[s].busy
  /\ \E message \in {"chat", "command", "refused"} : StartRun(r, message)
  /\ SetSocket(s, [socket[s] EXCEPT !.busy = TRUE])
  /\ reader' = [reader EXCEPT ![s] = [Off EXCEPT !.at = "subscribing", !.run = r]]
  /\ Send(s, "ack", r)
  /\ UNCHANGED <<pages, active>>

(* The task subscribes when it gets to run: by then the run may have       *)
(* published, ended or even been removed.                                  *)
SubscribeSocket(s) ==
  /\ reader[s].at = "subscribing"
  /\ IF run[reader[s].run].listed
     THEN /\ reader' = [reader EXCEPT ![s] = Subscription(reader[s].run, 0)]
          /\ UNCHANGED socket
     ELSE End(s) /\ SetSocket(s, [socket[s] EXCEPT !.busy = FALSE])
  /\ UNCHANGED <<hub, pages, frames, active>>

(* forward_run_event passes text and the end on, and stops at the end or   *)
(* when the writer is gone; the permit goes back with the task.            *)
ReadSocket(s) ==
  \/ /\ \E id \in Incoming(s) :
          LET kind  == KindOf(s, id)
              stops == kind \in Terminal \/ (kind = "delta" /\ ~socket[s].writer) IN
          /\ Take(s, stops)
          /\ SetSocket(s, [socket[s] EXCEPT !.busy = ~stops])
          /\ IF kind # "status" /\ socket[s].writer
             THEN Send(s, kind, reader[s].run) ELSE UNCHANGED frames
     /\ UNCHANGED <<hub, pages, active>>
  \/ /\ NothingLeft(s) /\ End(s)
     /\ SetSocket(s, [socket[s] EXCEPT !.busy = FALSE])
     /\ UNCHANGED <<hub, pages, frames, active>>

(* The client goes away, or says nothing for CONNECT_TIMEOUT before it     *)
(* connects: the receive loop ends.                                        *)
CloseSocket(s) ==
  /\ socket[s].at = "open"
  /\ SetSocket(s, [socket[s] EXCEPT !.at = "closing"])
  /\ UNCHANGED <<hub, reader, pages, frames, active>>

(* The writer's next send on the closed connection fails.                  *)
WriterFails(s) ==
  /\ socket[s].at = "closing" /\ socket[s].writer
  /\ frames[s] # <<>>
  /\ SetSocket(s, [socket[s] EXCEPT !.writer = FALSE])
  /\ UNCHANGED <<hub, reader, pages, frames, active>>

(* The writer is awaited before the connection gives its place back: it    *)
(* ends when it fails or when the run's task has dropped its sender.       *)
ReleaseSocket(s) ==
  /\ socket[s].at = "closing"
  /\ ~socket[s].writer \/ ~socket[s].busy
  /\ active' = active - 1
  /\ SetSocket(s, [socket[s] EXCEPT !.at = "closed"])
  /\ UNCHANGED <<hub, reader, pages, frames>>

-------------------------------------------------------------------------------
RunStep(r) == TurnEvent(r) \/ EndTurn(r)
PageStep(p) == ReadStream(p) \/ Lag(p)
SocketStep(s) == SubscribeSocket(s) \/ ReadSocket(s) \/ Lag(s)

Next ==
  \/ \E r \in Runs : SendOverHttp(r) \/ RunStep(r) \/ RemoveRun(r)
  \/ \E p \in Pages : PageStep(p) \/ DropStream(p) \/ \E r \in Runs : OpenStream(p, r)
  \/ \E s \in Sockets :
       \/ Upgrade(s) \/ UpgradeOutcome(s) \/ Connect(s) \/ \E r \in Runs : ChatSend(s, r)
       \/ SocketStep(s) \/ CloseSocket(s) \/ WriterFails(s) \/ ReleaseSocket(s)

Spec == Init /\ [][Next]_vars

-------------------------------------------------------------------------------
(* Over all its connections a page sees every event of its run once and in *)
(* order, from the first one on: the replay and the receiver of            *)
(* subscribe_with_replay neither overlap nor leave a gap. A run longer     *)
(* than the history and the channel may lose events, never repeat them.    *)
PageSeesInOrder ==
  \A p \in Pages : LET r == reader[p].run IN
    IF r # NoRun /\ Len(log[r]) <= HistoryLimit /\ Len(log[r]) <= Capacity
    THEN seen[p] = [i \in 1 .. Len(seen[p]) |-> i]
    ELSE \A i, j \in DOMAIN seen[p] : i < j => seen[p][i] < seen[p][j]

(* A stream the server ends has told the page how the run ended, also when *)
(* it lagged, came back late or the run was removed under it.              *)
StreamEndsWithTheEnd ==
  \A p \in Pages : reader[p].at = "ended" =>
    /\ IsDone(reader[p].run)
    /\ LastSeen(p) = Len(log[reader[p].run])

(* On a socket the events of two runs never mix: between an answer to      *)
(* chat.send and the end of that run there is nothing of another run       *)
(* (MAX_IN_FLIGHT_CHAT_SENDS_PER_CONNECTION).                              *)
RunsDoNotMix ==
  \A s \in Sockets : \A i \in DOMAIN frames[s] : LET f == frames[s][i] IN
    /\ f.kind = "ack" => i = 1 \/ frames[s][i - 1].kind \in Terminal \cup {"ack"}
    /\ f.kind # "ack" => i > 1 /\ frames[s][i - 1].run = f.run
                              /\ frames[s][i - 1].kind \notin Terminal

(* No more sockets are handled at once than MAX_WS_CONNECTIONS, whatever   *)
(* order upgrades, failures and closings come in.                          *)
SocketsAreBounded ==
  Cardinality({s \in Sockets : socket[s].at \in {"upgrading", "open", "closing"}}) <= MaxSockets

(* Both, for every socket.                                                 *)
SocketsHold == RunsDoNotMix /\ SocketsAreBounded

===============================================================================
