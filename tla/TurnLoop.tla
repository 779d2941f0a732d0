------------------------------- MODULE TurnLoop -------------------------------
(***************************************************************************)
(* Inside one turn of EgoPulse: the rounds of model and tools between the  *)
(* question and the answer, with what they leave in the session's snapshot *)
(* and in the tool_calls table. agent_loop/turn.rs (process_turn_inner),   *)
(* guards.rs, session.rs and storage.rs. SessionTurns has the log, the     *)
(* compaction and several turns of one chat at once; here a turn runs      *)
(* alone, and what else happens to its session is Elsewhere and Clear.     *)
(*                                                                         *)
(* Of a text only what the loop tells apart is kept: nothing to show, a    *)
(* declaration of intent, or a reply; of a tool's output, which of two     *)
(* payloads it is.                                                         *)
(***************************************************************************)
EXTENDS Naturals, Sequences, Functions

CONSTANTS
  CallIds,        \* the ids the model gives to its calls
  MaxCalls,       \* bounds the calls of one reply
  MaxIterations,  \* MAX_TOOL_ITERATIONS
  MaxTurns,       \* bounds the model: questions asked
  MaxElsewhere    \* bounds the model: changes of the session by others

Texts == {"empty", "declares", "says"}
NoCall == [none |-> TRUE]
NoRetry == <<>>

VARIABLES
  loop,       \* the turn under way
  snapshot,   \* the session's row: messages and version (0: no row)
  calls,      \* the rows of tool_calls: the output of an id, 0 while pending
  request,    \* the messages the model is asked with; <<>> when it is not
  elsewhere,  \* changes made by others so far
  asked       \* questions so far

loopVars == <<loop, snapshot, calls, request, elsewhere, asked>>

Said(role, text) == [role |-> role, text |-> text, calls |-> <<>>, answers |-> NoCall, output |-> 0]
Calling(ids) == [Said("assistant", "says") EXCEPT !.calls = ids]
Result(id, output) == [Said("tool", "says") EXCEPT !.answers = id, !.output = output]
Guard == Said("user", "guard")

(* retried: which of the two corrections was already asked for.            *)
NoLoop == [at |-> "idle", iteration |-> 0, messages |-> <<>>, seen |-> 0, retried |-> {},
           retry |-> NoRetry, phase |-> Guard, again |-> FALSE, todo |-> <<>>]

LoopInit ==
  /\ loop = NoLoop /\ snapshot = [messages |-> <<>>, version |-> 0]
  /\ calls = [id \in {} |-> 0] /\ request = <<>>
  /\ elsewhere = 0 /\ asked = 0

(* updated_at is a reading of the clock, of which only equality matters.   *)
Clock == CHOOSE v \in 1 .. 3 : v \notin {snapshot.version, loop.seen}
Outputs == {1, 2}

-------------------------------------------------------------------------------
(* The question and the requests.                                          *)

Ask ==
  /\ loop.at = "idle" /\ asked < MaxTurns
  /\ asked' = asked + 1
  /\ snapshot' = [messages |-> Append(snapshot.messages, Said("user", "says")),
                  version  |-> Clock]
  /\ loop' = [NoLoop EXCEPT !.at = "send", !.iteration = 1,
                            !.messages = snapshot'.messages, !.seen = Clock]
  /\ UNCHANGED <<calls, request, elsewhere>>

SendRequest ==
  /\ loop.at = "send"
  /\ request' = IF loop.retry # NoRetry THEN loop.retry ELSE loop.messages
  /\ loop' = [loop EXCEPT !.at = "await", !.retry = NoRetry]
  /\ UNCHANGED <<snapshot, calls, elsewhere, asked>>

(* The turn is over; the loop's variables go with it.                      *)
Over == loop' = NoLoop

NextIteration(l) ==
  IF l.iteration = MaxIterations THEN NoLoop
  ELSE [l EXCEPT !.at = "send", !.iteration = @ + 1]

-------------------------------------------------------------------------------
(* What the model answered.                                                *)

(* runtime_guard_messages: the rejected reply and the correction go to the *)
(* model once, and nowhere else.                                           *)
Retry(kind, text) ==
  loop' = NextIteration([loop EXCEPT
            !.retried = @ \cup {kind},
            !.retry = loop.messages \o <<Said("assistant", text), Guard>>])

Finish(text) ==
  LET reply == Said("assistant", text) IN
  loop' = [loop EXCEPT !.at = "store", !.phase = reply, !.messages = Append(@, reply)]

(* evaluate_end_turn: a reply without calls.                               *)
EvaluateEndTurn(text) ==
  IF text = "empty" THEN IF "empty" \in loop.retried THEN Over ELSE Retry("empty", text)
  ELSE IF text = "declares" /\ "declares" \notin loop.retried THEN Retry("declares", text)
  ELSE Finish(text)

(* evaluate_malformed_response: none of the calls had an id and a name.    *)
EvaluateMalformed(text) ==
  IF text = "empty" THEN Over
  ELSE IF text = "declares" /\ "declares" \notin loop.retried THEN Retry("declares", text)
  ELSE Finish(text)

StartTools(ids) ==
  LET message == Calling(ids) IN
  loop' = [loop EXCEPT !.at = "store", !.phase = message, !.todo = ids,
                       !.messages = Append(@, message), !.retried = {}]

(* filter_valid_tool_calls has dropped what is malformed.                  *)
IdLists == UNION {[1 .. n -> CallIds] : n \in 1 .. MaxCalls}

ReplyArrives ==
  /\ loop.at = "await"
  /\ \/ \E text \in Texts : EvaluateEndTurn(text)
     \/ \E text \in Texts : EvaluateMalformed(text)
     \/ \E ids \in IdLists : StartTools(ids)
  /\ request' = <<>>
  /\ UNCHANGED <<snapshot, calls, elsewhere, asked>>

-------------------------------------------------------------------------------
(* persist_phase: the snapshot with the phase's message, if it is still    *)
(* the one the turn has seen; otherwise once more on the current one.      *)

Stored(messages) ==
  /\ snapshot' = [messages |-> messages, version |-> Clock]
  /\ loop' = IF loop.todo = <<>> THEN NoLoop
             ELSE [loop EXCEPT !.at = "insert", !.messages = messages,
                               !.seen = Clock, !.again = FALSE]

PersistPhase ==
  /\ loop.at = "store"
  /\ IF snapshot.version = loop.seen THEN Stored(loop.messages)
     ELSE /\ loop' = IF loop.again THEN NoLoop ELSE [loop EXCEPT !.at = "reload"]
          /\ UNCHANGED snapshot
  /\ UNCHANGED <<calls, request, elsewhere, asked>>

(* Mutant of Rebased: the current snapshot is taken as it is.              *)
Rebased_Without == snapshot.messages

(* Only the message of this phase is put on the snapshot that is there.    *)
Rebased == Append(snapshot.messages, loop.phase)

Reload ==
  /\ loop.at = "reload"
  /\ loop' = [loop EXCEPT !.at = "store", !.again = TRUE,
                          !.messages = Rebased, !.seen = snapshot.version]
  /\ UNCHANGED <<snapshot, calls, request, elsewhere, asked>>

-------------------------------------------------------------------------------
(* execute_tool_call, one call after the other.                            *)

(* Mutant of InsertCall: the row of an id used before is replaced.         *)
InsertCall_Replaces ==
  /\ loop.at = "insert"
  /\ LET id == Head(loop.todo) IN
     calls' = [i \in DOMAIN calls \cup {id} |-> IF i = id THEN 0 ELSE calls[i]]
  /\ loop' = [loop EXCEPT !.at = "run"]
  /\ UNCHANGED <<snapshot, request, elsewhere, asked>>

(* id is the table's key: an id that was used before, in whatever chat,    *)
(* fails the turn.                                                         *)
InsertCall ==
  /\ loop.at = "insert"
  /\ LET id == Head(loop.todo) IN
     IF id \in DOMAIN calls THEN Over /\ UNCHANGED calls
     ELSE /\ calls' = [i \in DOMAIN calls \cup {id} |-> IF i = id THEN 0 ELSE calls[i]]
          /\ loop' = [loop EXCEPT !.at = "run"]
  /\ UNCHANGED <<snapshot, request, elsewhere, asked>>

(* The tool has returned, with success or not, and its row is completed.   *)
RunCall ==
  /\ loop.at = "run"
  /\ \E output \in Outputs :
     LET id   == Head(loop.todo)
         done == [loop EXCEPT !.messages = Append(@, Result(id, output)), !.todo = Tail(@)] IN
     /\ calls' = [calls EXCEPT ![id] = output]
     /\ loop' = IF done.todo = <<>> THEN NextIteration(done) ELSE [done EXCEPT !.at = "insert"]
  /\ UNCHANGED <<snapshot, request, elsewhere, asked>>

-------------------------------------------------------------------------------
(* What else happens.                                                      *)

(* The model or the database fails, Ctrl-C drops the turn, the process     *)
(* dies: what is stored stays as it is.                                    *)
Abandon ==
  /\ loop.at # "idle"
  /\ Over
  /\ request' = <<>>
  /\ UNCHANGED <<snapshot, calls, elsewhere, asked>>

(* Another turn of the chat stored a question.                             *)
Elsewhere ==
  /\ elsewhere < MaxElsewhere
  /\ elsewhere' = elsewhere + 1
  /\ snapshot' = [messages |-> Append(snapshot.messages, Said("user", "says")),
                  version  |-> Clock]
  /\ UNCHANGED <<loop, calls, request, asked>>

(* /new: clear_session. The rows of tool_calls stay.                       *)
Clear ==
  /\ elsewhere < MaxElsewhere
  /\ elsewhere' = elsewhere + 1
  /\ snapshot' = [messages |-> <<>>, version |-> 0]
  /\ UNCHANGED <<loop, calls, request, asked>>

LoopNext ==
  \/ Ask \/ SendRequest \/ ReplyArrives \/ PersistPhase \/ Reload \/ InsertCall \/ RunCall
  \/ Abandon \/ Elsewhere \/ Clear

LoopSpec == LoopInit /\ [][LoopNext]_loopVars

-------------------------------------------------------------------------------
(* Properties.                                                             *)

(* However the session changed under a turn, a tool result that is sent    *)
(* to the model comes right after the message that made the call, with     *)
(* only other results between them: the providers refuse anything else     *)
(* (messages.rs turns every result into an answer to its call).            *)
ResultsFollowTheirCall ==
  \A i \in DOMAIN request : request[i].role = "tool" =>
    \E j \in 1 .. (i - 1) :
      /\ request[i].answers \in Range(request[j].calls)
      /\ \A k \in (j + 1) .. (i - 1) : request[k].role = "tool"

(* The row of a call in tool_calls says what the model was told: a result  *)
(* in the turn's messages or in the stored session is the row's output,    *)
(* also when the model uses an id again, in this turn or a later one.      *)
RowsTellTheResult ==
  \A m \in Range(loop.messages) \cup Range(snapshot.messages) :
    m.role = "tool" => m.answers \in DOMAIN calls /\ calls[m.answers] = m.output

(* A correction is for the model alone: neither the reply that was         *)
(* rejected as empty nor the guard's text is ever stored, and the next     *)
(* request no longer carries them.                                         *)
CorrectionsAreForgotten ==
  \A m \in Range(loop.messages) \cup Range(snapshot.messages) :
    m # Guard /\ m # Said("assistant", "empty")

(* Results follow their calls, rows tell them, corrections are not stored. *)
TurnKeepsItsResults == ResultsFollowTheirCall /\ RowsTellTheResult /\ CorrectionsAreForgotten

===============================================================================
