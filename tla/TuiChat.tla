-------------------------------- MODULE TuiChat --------------------------------
(***************************************************************************)
(* The terminal interface of egopulse, channels/tui.rs: the list of        *)
(* sessions, the chat with its line editor and its history of inputs, and  *)
(* the one turn at a time that runs in the background while the user goes  *)
(* on typing. Drawing is left out.                                         *)
(***************************************************************************)
EXTENDS Naturals, FiniteSets, Sequences, SequencesExt, FiniteSetsExt

CONSTANTS
  Typed,        \* characters; "/" and a blank may be among them
  HistoryCap,   \* inputs that are remembered
  MaxInput,     \* bound: characters of an input
  MaxSends,     \* bound: inputs that are sent
  MaxListed,    \* bound: sessions there may be
  OthersSay,    \* what others may say in a session, each as a list of messages
  MaxStored     \* bound: messages of a session to which others still add

(* push_input_history keeps 50; <<"none">> is no input.                    *)
ASSUME TuiConstants ==
  /\ HistoryCap \in Nat \ {0}
  /\ "none" \notin Typed /\ MaxListed \in Nat
  /\ OthersSay \subseteq Seq([role : {"user", "assistant"}, text : Seq(Typed)])

VARIABLES
  list,     \* the browser: how many sessions it shows, which is selected
  sessions, \* the messages stored for every session
  view,     \* "browser", "chat" or "left"
  chat,     \* the chat that is open
  turns,    \* turns of the background: the prompt, and how far each has come
  sends     \* inputs sent

tuiVars == <<list, sessions, view, chat, turns, sends>>

stored == Len(sessions)

(* index 0 and draft <<"none">> stand for None. History: `kept` is what    *)
(* the user was typing when the walk through the inputs began, `loaded`    *)
(* what was on the screen when the chat was opened.                        *)
NoDraft == <<"none">>
ChatOf(session, messages) ==
  [session |-> session, input |-> <<>>, cursor |-> 0, history |-> <<>>, index |-> 0, draft |-> NoDraft,
   messages |-> messages, pending |-> 0, kept |-> NoDraft, loaded |-> messages]
BlankChat == ChatOf(0, <<>>)

TuiInit ==
  /\ sessions \in UNION {[1 .. n -> OthersSay] : n \in 0 .. MaxListed}
  /\ list = [shown |-> stored, selected |-> 0]
  /\ view = "browser" /\ chat = BlankChat /\ turns = <<>> /\ sends = 0

-------------------------------------------------------------------------------
(* The browser.                                                            *)

(* move_selection, select_first, select_last: keys that move the selection.*)
Clamp(n) == IF list.shown = 0 THEN 0 ELSE Min({n, list.shown - 1})
Move ==
  /\ view = "browser"
  /\ \E to \in {Clamp(list.selected + 1), Clamp(list.selected + 5), 0, Clamp(MaxListed),
                IF list.selected = 0 THEN 0 ELSE list.selected - 1,
                IF list.selected < 5 THEN 0 ELSE list.selected - 5} :
       list' = [list EXCEPT !.selected = to]
  /\ UNCHANGED <<sessions, view, chat, turns, sends>>

Refreshed == [shown |-> stored, selected |-> IF stored = 0 THEN 0 ELSE Min({list.selected, stored - 1})]

Refresh ==
  /\ view = "browser" /\ list' = Refreshed
  /\ UNCHANGED <<sessions, view, chat, turns, sends>>

(* Other surfaces open sessions, talk in them and clear them with /new.    *)
OthersTalk ==
  /\ \/ stored < MaxListed /\ \E words \in OthersSay : sessions' = Append(sessions, words)
     \/ \E s \in DOMAIN sessions, words \in OthersSay :
          Len(sessions[s]) < MaxStored /\ sessions' = [sessions EXCEPT ![s] = @ \o words]
     \/ \E s \in DOMAIN sessions : sessions' = [sessions EXCEPT ![s] = <<>>]
  /\ UNCHANGED <<list, view, chat, turns, sends>>

(* open_session, and open_new_session, which stores the new one: what is   *)
(* stored is shown, the line editor starts empty. Which entry of the list  *)
(* is which session is left open; one whose title is not the end of its    *)
(* key opens another session than it names, or a new one.                  *)
OpenChat ==
  /\ view = "browser" /\ view' = "chat"
  /\ \/ /\ list.selected < list.shown
        /\ \E s \in DOMAIN sessions : chat' = ChatOf(s, sessions[s])
        /\ UNCHANGED sessions
     \/ /\ stored < MaxListed
        /\ sessions' = Append(sessions, <<>>) /\ chat' = ChatOf(stored + 1, <<>>)
  /\ UNCHANGED <<list, turns, sends>>

Leave ==
  /\ view # "left" /\ view' = "left" /\ chat' = BlankChat /\ turns' = <<>>
  /\ UNCHANGED <<list, sessions, sends>>

-------------------------------------------------------------------------------
(* The line editor.                                                        *)
Editing(next) ==
  /\ view = "chat" /\ chat' = next
  /\ UNCHANGED <<list, sessions, view, turns, sends>>

Input(c) ==
  /\ Len(chat.input) < MaxInput
  /\ Editing([chat EXCEPT !.input = InsertAt(@, chat.cursor + 1, c), !.cursor = @ + 1,
                          !.index = 0, !.draft = NoDraft, !.kept = NoDraft])

Backspace ==
  /\ chat.cursor > 0
  /\ Editing([chat EXCEPT !.input = RemoveAt(@, chat.cursor), !.cursor = @ - 1])

Delete ==
  /\ chat.cursor < Len(chat.input)
  /\ Editing([chat EXCEPT !.input = RemoveAt(@, chat.cursor + 1)])

Left == chat.cursor > 0 /\ Editing([chat EXCEPT !.cursor = @ - 1])
Right == chat.cursor < Len(chat.input) /\ Editing([chat EXCEPT !.cursor = @ + 1])

(* Mutant: every step through the history remembers what it leaves.        *)
UpArrow_Overwrites ==
  LET next == IF chat.index # 0 THEN Max({chat.index - 1, 1}) ELSE Len(chat.history) IN
  IF chat.cursor > 0 THEN Editing([chat EXCEPT !.cursor = 0])
  ELSE /\ chat.history # <<>>
       /\ Editing([chat EXCEPT !.input = chat.history[next], !.cursor = 0, !.index = next,
                               !.kept = IF chat.index = 0 THEN chat.input ELSE @, !.draft = chat.input])

(* handle_up_arrow: to the start of the line first, then to the inputs.    *)
UpArrow ==
  LET next == IF chat.index # 0 THEN Max({chat.index - 1, 1}) ELSE Len(chat.history) IN
  IF chat.cursor > 0 THEN Editing([chat EXCEPT !.cursor = 0])
  ELSE /\ chat.history # <<>>
       /\ Editing([chat EXCEPT !.input = chat.history[next], !.cursor = 0, !.index = next,
                               !.kept = IF chat.index = 0 THEN chat.input ELSE @,
                               !.draft = IF chat.index = 0 THEN chat.input ELSE @])

(* handle_down_arrow; outside of the history the key scrolls.              *)
DownArrow ==
  /\ chat.index # 0
  /\ IF chat.index < Len(chat.history)
     THEN Editing([chat EXCEPT !.input = chat.history[chat.index + 1], !.cursor = 0, !.index = @ + 1])
     ELSE LET draft == IF chat.draft = NoDraft THEN <<>> ELSE chat.draft IN
          Editing([chat EXCEPT !.input = draft, !.cursor = Len(draft), !.index = 0, !.draft = NoDraft, !.kept = NoDraft])

-------------------------------------------------------------------------------
(* Sending.                                                                *)
(* is_slash_command; a mention in front, which it strips, is left out.      *)
IsCommand(input) == Len(input) > 1 /\ input[1] = "/" /\ input[2] # "/"
Show(messages, role, text) == Append(messages, [role |-> role, text |-> text])

(* push_input_history                                                      *)
Remember(history, input) ==
  IF history # <<>> /\ Last(history) = input THEN history
  ELSE LET all == Append(history, input) IN
       SubSeq(all, Max({Len(all) - HistoryCap, 0}) + 1, Len(all))

(* trim: an input of blanks is nothing to send.                            *)
Trimmed(input) ==
  LET leading == {i \in DOMAIN input : \A j \in 1 .. i : input[j] = " "}
      trailing == {i \in DOMAIN input : \A j \in i .. Len(input) : input[j] = " "}
  IN SubSeq(input, Cardinality(leading) + 1, Len(input) - Cardinality(trailing))

(* Enter. While a turn is running nothing is sent.                         *)
LineTaken(prompt) ==
  [chat EXCEPT !.history = Remember(@, prompt), !.input = <<>>, !.cursor = 0, !.index = 0,
               !.draft = NoDraft, !.kept = NoDraft, !.messages = Show(@, "user", prompt)]

Entered(prompt) ==
  /\ prompt = Trimmed(chat.input) /\ prompt # <<>>
  /\ view = "chat" /\ chat.pending = 0
  /\ sends < MaxSends /\ sends' = sends + 1
  /\ UNCHANGED <<list, view>>

(* A command is answered in the loop itself, and shows its answer if it is *)
(* known. It may be /new, which clears what is stored and not the screen;  *)
(* in a session of another channel it takes a chat of its own, and makes   *)
(* the row.                                                                *)
EnterCommand ==
  LET prompt == Trimmed(chat.input) IN
  /\ Entered(prompt) /\ IsCommand(prompt)
  /\ \/ chat' = LineTaken(prompt)
     \/ chat' = [LineTaken(prompt) EXCEPT !.messages = Show(@, "assistant", prompt)]
  /\ \/ UNCHANGED sessions
     \/ sessions' = [sessions EXCEPT ![chat.session] = <<>>]
     \/ stored < MaxListed /\ sessions' = Append(sessions, <<>>)
  /\ UNCHANGED turns

(* start_send: anything else becomes a turn of its own task.               *)
EnterTurn ==
  LET prompt == Trimmed(chat.input) IN
  /\ Entered(prompt) /\ ~IsCommand(prompt)
  /\ turns' = Append(turns, [prompt |-> prompt, end |-> "sent"])
  /\ chat' = [LineTaken(prompt) EXCEPT !.pending = Len(turns) + 1]
  /\ UNCHANGED sessions

(* A turn stores its question and, if it comes to one, its answer; it may  *)
(* fail before and after the question is stored.                           *)
TurnStores ==
  \E t \in DOMAIN turns :
    /\ turns[t].end = "sent" /\ turns' = [turns EXCEPT ![t].end = "stored"]
    /\ sessions' = [sessions EXCEPT ![chat.session] = Show(@, "user", turns[t].prompt)]
    /\ UNCHANGED <<list, view, chat, sends>>

TurnEnds ==
  \E t \in DOMAIN turns :
    /\ \/ /\ turns[t].end = "stored" /\ turns' = [turns EXCEPT ![t].end = "ok"]
          /\ sessions' = [sessions EXCEPT ![chat.session] = Show(@, "assistant", turns[t].prompt)]
       \/ /\ turns[t].end \in {"sent", "stored"} /\ turns' = [turns EXCEPT ![t].end = "error"]
          /\ UNCHANGED sessions
    /\ UNCHANGED <<list, view, chat, sends>>

(* poll_pending_send: an answer is shown and the list is read again; after *)
(* an error the question is taken off the screen, whether it is stored or  *)
(* not, and put back into the line editor if that is empty.                *)
Poll ==
  /\ view = "chat" /\ chat.pending # 0
  /\ LET turn == turns[chat.pending]
         idle == [chat EXCEPT !.pending = 0]
         isLast == chat.messages # <<>> /\ Last(chat.messages) = [role |-> "user", text |-> turn.prompt]
     IN \/ /\ turn.end = "ok"
           /\ chat' = [idle EXCEPT !.messages = Show(@, "assistant", turn.prompt)]
           /\ list' \in {Refreshed, list}
        \/ /\ turn.end = "error"
           /\ chat' = [idle EXCEPT
                !.messages = IF isLast THEN Front(@) ELSE @,
                !.input = IF @ = <<>> THEN turn.prompt ELSE @,
                !.cursor = IF chat.input = <<>> THEN Len(turn.prompt) ELSE @]
           /\ UNCHANGED list
  /\ UNCHANGED <<sessions, view, turns, sends>>

(* Esc: back to the browser, unless a turn is running.                     *)
Escape ==
  /\ view = "chat" /\ chat.pending = 0
  /\ view' = "browser" /\ list' = Refreshed
  /\ UNCHANGED <<sessions, chat, turns, sends>>

TuiNext ==
  \/ Move \/ Refresh \/ OthersTalk \/ OpenChat \/ Leave \/ Escape
  \/ \E c \in Typed : Input(c)
  \/ Backspace \/ Delete \/ Left \/ Right \/ UpArrow \/ DownArrow
  \/ EnterCommand \/ EnterTurn \/ TurnStores \/ TurnEnds \/ Poll

TuiSpec == TuiInit /\ [][TuiNext]_tuiVars

-------------------------------------------------------------------------------
(* What was being typed when the user went to look at earlier inputs comes *)
(* back at the end of the walk, however it went and whatever failed in the *)
(* meantime; only typing and sending end the walk elsewhere.               *)
DraftComesBack ==
  [][ view = "chat" /\ view' = "chat" /\ chat.index # 0 /\ chat'.index = 0 /\ sends' = sends
        => chat'.input = chat.kept \/ Len(chat'.input) = Len(chat.input) + 1 ]_tuiVars

(* An input sent is never lost to the user: while its turn runs, and after *)
(* it failed as long as nothing else was sent from its chat, it is in the  *)
(* line editor or the last of the history, whatever was typed meanwhile.   *)
PromptIsRecallable ==
  \A t \in DOMAIN turns :
    /\ view = "chat" /\ t = Len(turns)
    /\ \/ chat.pending = t
       \/ turns[t].end = "error" /\ sends = t /\ chat.history # <<>>
    => \/ chat.input = turns[t].prompt
       \/ chat.history # <<>> /\ Last(chat.history) = turns[t].prompt

(* The answer to every turn finds its chat still open: no turn runs that   *)
(* the chat on the screen is not waiting for. What was loaded stays on the *)
(* screen (the question a failed turn takes away is its own, never one     *)
(* like it from before), and of what came since every input that is not    *)
(* the last has been answered or was a command. Among what was loaded      *)
(* there may be questions without an answer: a turn that fails takes its   *)
(* question off the screen and not out of the store.                       *)
Running(turn) == turn.end \in {"sent", "stored"}

TurnsAreAwaited ==
  /\ \A t \in DOMAIN turns : Running(turns[t]) /\ view # "left" => view = "chat" /\ chat.pending = t
  /\ IsPrefix(chat.loaded, chat.messages)
  /\ \A i \in Len(chat.loaded) + 1 .. Len(chat.messages) - 1 :
       chat.messages[i].role = "user" /\ ~IsCommand(chat.messages[i].text)
         => chat.messages[i + 1] = [role |-> "assistant", text |-> chat.messages[i].text]

(* An input is recallable while its turn may fail, a draft comes back, and *)
(* no turn runs that nobody waits for.                                     *)
NothingTypedIsLost == [](PromptIsRecallable /\ TurnsAreAwaited) /\ DraftComesBack
===============================================================================
