----------------------------- MODULE SessionTurns -----------------------------
(***************************************************************************)
(* One chat of EgoPulse: the user turns that run against it, at once when  *)
(* two surfaces or two browser tabs share the session, and the /new and    *)
(* /compact commands. agent_loop/turn.rs and session.rs over the sessions  *)
(* and messages tables of storage.rs.                                      *)
(*                                                                         *)
(* Every method of Database holds the connection's mutex and is one step;  *)
(* between two of them a turn awaits a model or a tool and anything else   *)
(* may happen. What is said is a phase <<t, k>>: the question of turn t    *)
(* (k = 0) or the k-th assistant message of t. The calls of one round of   *)
(* tools are one call with one result. The model's text is not looked at:  *)
(* a corrective retry (runtime guard) changes nothing that is kept.        *)
(***************************************************************************)
EXTENDS Naturals, Sequences, FiniteSets, FiniteSetsExt, SequencesExt

CONSTANTS
  Surface,      \* where the commands are typed
  Turns,        \* calls of process_turn on the chat
  Compactors,   \* /compact commands on the chat
  MaxSession,   \* max_session_messages
  KeepRecent,   \* compact_keep_recent
  MaxHistory,   \* max_history_messages
  MaxRounds,    \* MAX_TOOL_ITERATIONS
  MaxClears     \* bounds the model: how often /new is given

Surfaces == {"cli", "tui", "web", "discord", "telegram"}

ASSUME SessionConstants ==
  /\ Surface \in Surfaces
  /\ {MaxSession, KeepRecent, MaxHistory, MaxRounds} \subseteq Nat \ {0}
  /\ MaxClears \in Nat
  /\ Turns \cap Compactors = {} /\ IsFiniteSet(Turns \cup Compactors)

Tasks == Turns \cup Compactors
Phase == Turns \X (0 .. MaxRounds)

(* A call is an assistant message that carries tool calls. A summary is a  *)
(* user message that says what the messages it replaces said.              *)
Message == [role: {"user", "assistant", "call", "tool"}, says: SUBSET Phase]
ByAssistant == {"assistant", "call"}

VARIABLES
  session,  \* the chat's row of sessions; version 0 is no row
  log,      \* the chat's rows of messages, a set: read by their timestamps
  task,     \* the local state of every turn and command
  clears,   \* how often /new was given
  cut,      \* since the last /new messages may have been dropped: a summary
            \* failed, or /compact replaced the row
  torn      \* a crash came between the two deletes of /new

vars == <<session, log, task, clears, cut, torn>>

NoSession == [messages |-> <<>>, version |-> 0]
Idle == [at |-> "idle", messages |-> <<>>, seen |-> 0, attempt |-> 0, round |-> 0,
         lossy |-> FALSE, stamp |-> 0, cleared |-> FALSE]

(* The phases a sequence of messages tells of; a tool result is not one.   *)
Said(messages) ==
  UNION {messages[i].says : i \in {j \in DOMAIN messages : messages[j].role # "tool"}}
Logged == {r.phase : r \in log}

(* Of a session's updated_at only equality matters, of a message's         *)
(* timestamp only the order; both are readings of the clock.               *)
FreshVersion ==
  CHOOSE v \in 1 .. (Cardinality(Tasks) + 2) :
    v \notin {session.version} \cup {task[t].seen : t \in Tasks}
Now ==
  Max({0} \cup {r.stamp : r \in log} \cup {task[t].stamp : t \in Tasks}) + 1

Active(t) == task[t].at \notin {"idle", "answered", "failed"}
Become(t, next) == task' = [task EXCEPT ![t] = next]
Ended(outcome) == [Idle EXCEPT !.at = outcome]

Init ==
  /\ session = NoSession /\ log = {}
  /\ clears = 0
  /\ task = [t \in Tasks |-> Idle]
  /\ cut = FALSE /\ torn = FALSE

-------------------------------------------------------------------------------
(* Loading and compacting.                                                 *)

(* Without a row the last MaxHistory messages of the log stand in for it,  *)
(* as plain text, in the order of their timestamps.                        *)
Rank(row) == Cardinality({r \in log : r.stamp <= row.stamp})
RowAt(n) == CHOOSE row \in log : Rank(row) = n

Recent ==
  LET skipped == IF Cardinality(log) > MaxHistory THEN Cardinality(log) - MaxHistory ELSE 0 IN
  [i \in 1 .. (Cardinality(log) - skipped) |->
     LET phase == RowAt(skipped + i).phase IN
     [role |-> IF phase[2] = 0 THEN "user" ELSE "assistant", says |-> {phase}]]

Loaded == IF session = NoSession THEN Recent ELSE session.messages

(* append_compacted_message, from one message to the next: neighbours of   *)
(* one role become one message, unless they carry tool calls or results.   *)
(* Group numbers the message that takes the i-th in.                       *)
CanMerge(left, right) == left.role = right.role /\ left.role \in {"user", "assistant"}
Starts(messages) == {i \in DOMAIN messages : i = 1 \/ ~CanMerge(messages[i - 1], messages[i])}
Group(messages, i) == Cardinality({j \in Starts(messages) : j <= i})

Merged(messages) ==
  [n \in 1 .. Cardinality(Starts(messages)) |->
     LET group == {i \in DOMAIN messages : Group(messages, i) = n} IN
     [role |-> messages[CHOOSE i \in group : TRUE].role, says |-> UNION {messages[i].says : i \in group}]]

WithoutTrailingReply(messages) ==
  IF Last(messages).role \in ByAssistant THEN Front(messages) ELSE messages

(* The model summarised what is old: summary, acknowledgement unless the   *)
(* recent messages start with the assistant, recent messages.              *)
Summarised(old, recent) ==
  LET summary == [role |-> "user", says |-> Said(old)]
      ack     == [role |-> "assistant", says |-> {}]
      opening == IF recent[1].role \in ByAssistant THEN <<summary>> ELSE <<summary, ack>>
  IN WithoutTrailingReply(Merged(opening \o recent))

(* summarize_and_compact: what it may return, and whether anything was     *)
(* dropped because the model failed, was late or said nothing.             *)
Compactions(messages) ==
  LET split == Len(messages) - KeepRecent IN
  IF split <= 0 THEN {[messages |-> messages, lossy |-> FALSE]}
  ELSE LET old    == SubSeq(messages, 1, split)
           recent == SubSeq(messages, split + 1, Len(messages))
       IN {[messages |-> Summarised(old, recent), lossy |-> FALSE],
           [messages |-> recent, lossy |-> TRUE]}

Candidates(t) ==
  LET messages == Append(Loaded, [role |-> "user", says |-> {<<t, 0>>}]) IN
  IF Len(messages) <= MaxSession THEN {[messages |-> messages, lossy |-> FALSE]}
  ELSE Compactions(messages)

-------------------------------------------------------------------------------
(* The question of a turn.                                                 *)

(* load_messages_for_turn, the message's timestamp, maybe_compact_messages.*)
BeginTurn(t) ==
  /\ task[t].at = "idle"
  /\ \E c \in Candidates(t) :
       Become(t, [task[t] EXCEPT !.at = "question", !.messages = c.messages, !.lossy = c.lossy,
                                 !.seen = session.version, !.stamp = Now])
  /\ UNCHANGED <<session, log, clears, cut, torn>>

(* Mutant: the retry persists what it reloaded and forgets the question.   *)
ReloadQuestion_Forgets(t) ==
  /\ task[t].at = "retry"
  /\ Become(t, [task[t] EXCEPT !.at = "question", !.messages = Loaded,
                               !.seen = session.version, !.attempt = 1])
  /\ UNCHANGED <<session, log, clears, cut, torn>>

(* After a conflict all of it is done again, but the timestamp stays.      *)
ReloadQuestion(t) ==
  /\ task[t].at = "retry"
  /\ \E c \in Candidates(t) :
       Become(t, [task[t] EXCEPT !.at = "question", !.messages = c.messages, !.lossy = c.lossy,
                                 !.seen = session.version, !.attempt = 1])
  /\ UNCHANGED <<session, log, clears, cut, torn>>

(* Mutant: a turn that found no row inserts or overwrites.                 *)
IsCurrent_Upsert(t) == task[t].seen \in {0, session.version}

IsCurrent(t) == task[t].seen = session.version

(* store_message_with_session: the row of messages and the row of sessions *)
(* in one transaction.                                                     *)
Store(t, next) ==
  /\ IsCurrent(t)
  /\ session' = [messages |-> task[t].messages, version |-> FreshVersion]
  /\ log' = log \cup {[phase |-> <<t, task[t].round>>, stamp |-> task[t].stamp]}
  /\ cut' = (cut \/ task[t].lossy)
  /\ Become(t, IF next = "answered" THEN Ended(next)
               ELSE [task[t] EXCEPT !.at = next, !.seen = FreshVersion, !.attempt = 0, !.lossy = FALSE])
  /\ UNCHANGED <<clears, torn>>

(* The transaction is rolled back; the second conflict is an error.        *)
Conflict(t, again) ==
  /\ ~IsCurrent(t)
  /\ Become(t, IF task[t].attempt = 0 THEN [task[t] EXCEPT !.at = again] ELSE Ended("failed"))
  /\ UNCHANGED <<session, log, clears, cut, torn>>

PersistQuestion(t) ==
  /\ task[t].at = "question"
  /\ Store(t, "ask") \/ Conflict(t, "retry")

-------------------------------------------------------------------------------
(* Rounds of the model and its tools.                                      *)

(* The model answers with text or with tool calls.                         *)
Answer(t, role) ==
  LET k == task[t].round + 1 IN
  /\ task[t].at = "ask"
  /\ Become(t, [task[t] EXCEPT !.at = "phase", !.round = k, !.stamp = Now,
                  !.messages = Append(@, [role |-> role, says |-> {<<t, k>>}])])
  /\ UNCHANGED <<session, log, clears, cut, torn>>

Reply(t) == Answer(t, "assistant")
CallTools(t) == Answer(t, "call")

(* persist_phase: where the turn goes on depends on what it has just said. *)
PersistPhase(t) ==
  /\ task[t].at = "phase"
  /\ \/ Store(t, IF Last(task[t].messages).role = "call" THEN "tools" ELSE "answered")
     \/ Conflict(t, "rebase")

(* Mutant: all the turn's messages are put at the end of the snapshot.     *)
RebasePhase_Repeats(t) ==
  /\ task[t].at = "rebase"
  /\ Become(t, [task[t] EXCEPT !.at = "phase", !.attempt = 1, !.seen = session.version,
                               !.messages = Loaded \o task[t].messages])
  /\ UNCHANGED <<session, log, clears, cut, torn>>

(* The latest snapshot with this phase's message alone at its end: tool    *)
(* results of earlier rounds that were not persisted yet are gone.         *)
RebasePhase(t) ==
  /\ task[t].at = "rebase"
  /\ Become(t, [task[t] EXCEPT !.at = "phase", !.attempt = 1, !.seen = session.version,
                               !.messages = Append(Loaded, Last(task[t].messages))])
  /\ UNCHANGED <<session, log, clears, cut, torn>>

(* The result joins the turn's own messages and is persisted by the next   *)
(* phase. After the last round the turn gives up.                          *)
ExecuteTools(t) ==
  /\ task[t].at = "tools"
  /\ Become(t, IF task[t].round = MaxRounds THEN Ended("failed")
               ELSE [task[t] EXCEPT !.at = "ask", !.messages =
                       Append(@, [role |-> "tool", says |-> {<<t, task[t].round>>}])])
  /\ UNCHANGED <<session, log, clears, cut, torn>>

(* The model, a tool's bookkeeping or the database returns an error.       *)
FailTurn(t) ==
  /\ Active(t)
  /\ Become(t, Ended("failed"))
  /\ UNCHANGED <<session, log, clears, cut, torn>>

-------------------------------------------------------------------------------
(* Commands and crashes.                                                   *)

(* A turn looks its chat up by "channel:thread". A command does on the     *)
(* terminal surfaces; on the others it looks up the bare thread, another   *)
(* row of chats, which no turn ever fills.                                 *)
CommandReachesChat == Surface \in {"cli", "tui"}

HandleNew ==
  /\ clears < MaxClears
  /\ clears' = clears + 1
  /\ IF CommandReachesChat
     THEN /\ session' = NoSession /\ log' = {}
          /\ task' = [t \in Tasks |-> [task[t] EXCEPT !.cleared = @ \/ Active(t)]]
          /\ cut' = FALSE
     ELSE UNCHANGED <<session, log, task, cut>>
  /\ UNCHANGED torn

BeginCompact(c) ==
  /\ CommandReachesChat
  /\ task[c].at = "idle"
  /\ Loaded # <<>>
  /\ \E r \in Compactions(Loaded) :
       Become(c, [task[c] EXCEPT !.at = "replace", !.messages = r.messages, !.seen = session.version])
  /\ UNCHANGED <<session, log, clears, cut, torn>>

(* save_session: an upsert that looks at no version.                       *)
SaveCompacted(c) ==
  /\ task[c].at = "replace"
  /\ session' = [messages |-> task[c].messages, version |-> FreshVersion]
  /\ cut' = TRUE
  /\ Become(c, Ended("answered"))
  /\ UNCHANGED <<log, clears, torn>>

(* The process goes down: every turn and command in progress is lost.      *)
Killed == [t \in Tasks |-> IF Active(t) THEN Ended("failed") ELSE task[t]]

Crash ==
  /\ \E t \in Tasks : Active(t)
  /\ task' = Killed
  /\ UNCHANGED <<session, log, clears, cut, torn>>

(* The two deletes of clear_session commit one by one.                     *)
CrashInNew ==
  /\ CommandReachesChat /\ clears < MaxClears
  /\ session # NoSession
  /\ clears' = clears + 1
  /\ session' = NoSession
  /\ task' = Killed
  /\ torn' = TRUE
  /\ UNCHANGED <<log, cut>>

-------------------------------------------------------------------------------
TurnStep(t) ==
  \/ BeginTurn(t) \/ ReloadQuestion(t) \/ PersistQuestion(t)
  \/ Reply(t) \/ CallTools(t) \/ PersistPhase(t) \/ RebasePhase(t) \/ ExecuteTools(t)
  \/ FailTurn(t)

Next ==
  \/ \E t \in Turns : TurnStep(t)
  \/ \E c \in Compactors : BeginCompact(c) \/ SaveCompacted(c)
  \/ HandleNew \/ Crash \/ CrashInNew

Spec == Init /\ [][Next]_vars

-------------------------------------------------------------------------------
(* Whatever turns, conflicts, crashes and /new interleave: the snapshot    *)
(* the next turn starts from tells of exactly what the history lists       *)
(* (persist_phase reloads after a conflict, clear_session deletes both).   *)
(* A turn's compaction whose summary failed may tell of less, never of     *)
(* more; /compact, which replaces the row unseen, may do anything.         *)
SnapshotMatchesLog ==
  ~torn =>
    /\ ~cut => Said(session.messages) = Logged
    /\ (\A c \in Compactors : task[c].at # "answered") => Said(session.messages) \subseteq Logged

(* No message is repeated by a retry, and a turn's question, calls and     *)
(* reply keep their order in the snapshot, also after a reload put another *)
(* turn's messages between them.                                           *)
InOrder(messages) ==
  \A i, j \in DOMAIN messages :
    i < j /\ messages[i].role # "tool" /\ messages[j].role # "tool" =>
      \A p \in messages[i].says, q \in messages[j].says : p[1] = q[1] => p[2] < q[2]
PhasesInOrder == InOrder(session.messages)

(* The snapshot a turn starts from is the history, in its order: of what   *)
(* was said, nothing more or less, once, each turn's messages in order.    *)
SnapshotTellsTheLog == SnapshotMatchesLog /\ PhasesInOrder

(* Whatever a turn asks the model contains its user's question, also after *)
(* it took over a snapshot other turns have written: unless it was cleared *)
(* by /new or cut by a compaction in between.                              *)
QuestionIsAsked ==
  \A t \in Turns :
    task[t].at = "ask" /\ ~task[t].cleared /\ ~cut => <<t, 0>> \in Said(task[t].messages)

(* After /new the next message starts a new session.                       *)
NewStartsAfresh == [][clears' > clears => session' = NoSession]_vars
===============================================================================
