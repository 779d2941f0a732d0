----------------------------- MODULE WebRequests ------------------------------
(***************************************************************************)
(* How the web API and the turns name a conversation: the chats table of   *)
(* storage.rs, the session keys of web.rs, web/stream.rs, web/sessions.rs. *)
(*                                                                         *)
(* A text that names something is a sequence of channel prefixes ("web:"), *)
(* then "chat:" with a number or a name; blanks around it are trimmed by   *)
(* the code and left out. Every method of Database is one step.            *)
(***************************************************************************)
EXTENDS Naturals, Sequences

CONSTANTS
  SentKeys, \* what a client may send as session_key
  Threads,  \* threads of the other channel
  MaxChats, \* bounds the model: rows of chats
  MaxSaid   \* bounds the model: messages per chat

Surfaces == {"web", "discord"}
KeyNames == {"", "main"} \cup {key.name : key \in SentKeys \cup Threads}
SessionKeys == [prefix : Seq(Surfaces), chat : Nat, name : KeyNames]

ASSUME RequestConstants == SentKeys \cup Threads \subseteq SessionKeys

Empty == [prefix |-> <<>>, chat |-> 0, name |-> ""]
Named(name) == [Empty EXCEPT !.name = name]
ChatKey(id) == [Empty EXCEPT !.chat = id]
With(channel, text) == [text EXCEPT !.prefix = <<channel>> \o @]
Strip(channel, text) ==
  IF text.prefix # <<>> /\ Head(text.prefix) = channel
  THEN [text EXCEPT !.prefix = Tail(@)] ELSE text

VARIABLES
  chats,  \* rows of chats: chat_id is the index
  said    \* messages per chat

requestVars == <<chats, said>>

NoTitle == Empty

RequestInit == chats = <<>> /\ said = <<>>

-------------------------------------------------------------------------------
(* Storage.                                                                *)

(* resolve_chat_id: at most one row has this channel and external id.      *)
ResolveChat(channel, external) ==
  {id \in DOMAIN chats : chats[id].channel = channel /\ chats[id].external = external}

(* resolve_or_create_chat_id, and what is then stored for the chat: an     *)
(* existing row keeps its title unless one is given.                       *)
Touch(channel, external, title, messages) ==
  IF ResolveChat(channel, external) = {}
  THEN /\ Len(chats) < MaxChats
       /\ chats' = Append(chats, [channel |-> channel, external |-> external, title |-> title])
       /\ said' = Append(said, messages)
  ELSE \E id \in ResolveChat(channel, external) :
       /\ said[id] + messages <= MaxSaid
       /\ chats' = [chats EXCEPT ![id].title = IF title = NoTitle THEN @ ELSE title]
       /\ said' = [said EXCEPT ![id] = @ + messages]

(* logical_session_thread                                                  *)
LogicalThread(row) ==
  IF row.title # NoTitle THEN row.title
  ELSE IF Strip(row.channel, row.external) = Empty THEN row.external
  ELSE Strip(row.channel, row.external)

-------------------------------------------------------------------------------
(* Keys.                                                                   *)

(* web_session_key                                                         *)
Main == Named("main")
WebSessionKey(raw) == IF Strip("web", raw) = Empty THEN Main ELSE Strip("web", raw)

(* parse_chat_id_from_session_key                                          *)
IsChatKey(key) == key.prefix = <<>> /\ key.chat > 0

(* Mutant: the chat a key names is looked up, but its channel is not.      *)
Context_Web(key) ==
  IF IsChatKey(key) /\ key.chat \in DOMAIN chats
  THEN [channel |-> "web", thread |-> Strip("web", chats[key.chat].external)]
  ELSE [channel |-> "web", thread |-> WebSessionKey(key)]

(* start_stream_run: the conversation a message is for.                    *)
Context(key) ==
  IF IsChatKey(key) /\ key.chat \in DOMAIN chats
  THEN [channel |-> chats[key.chat].channel,
        thread  |-> Strip(chats[key.chat].channel, chats[key.chat].external)]
  ELSE [channel |-> "web", thread |-> WebSessionKey(key)]

(* list_sessions: the key a session is listed with.                        *)
ListedKey(id) ==
  IF chats[id].channel = "web" THEN WebSessionKey(LogicalThread(chats[id])) ELSE ChatKey(id)

(* get_history: the chat whose messages are shown, or none.                *)
HistoryOf(key) ==
  IF IsChatKey(key) THEN {key.chat} \cap DOMAIN chats
  ELSE ResolveChat("web", With("web", WebSessionKey(WebSessionKey(key))))

-------------------------------------------------------------------------------
(* A turn of context c: resolve_chat_id by session_key(), the question.    *)
Turn(c) == Touch(c.channel, With(c.channel, c.thread), c.thread, 1)

SendMessage(key) == Turn(Context(key))

(* A command looks its chat up by the bare thread and stores nothing.      *)
SendCommand(key) == Touch(Context(key).channel, Context(key).thread, NoTitle, 0)

ChannelTurn(thread) == Turn([channel |-> "discord", thread |-> thread])
ChannelCommand(thread) == Touch("discord", thread, NoTitle, 0)

RequestNext ==
  \/ \E key \in SentKeys \cup {ListedKey(id) : id \in DOMAIN chats} : SendMessage(key) \/ SendCommand(key)
  \/ \E thread \in Threads : ChannelTurn(thread) \/ ChannelCommand(thread)

RequestSpec == RequestInit /\ [][RequestNext]_requestVars

-------------------------------------------------------------------------------
(* A session with messages, opened by the key it is listed with, shows its *)
(* own messages, and what is sent to it is stored with them: list_sessions,*)
(* get_history and start_stream_run agree on what a key means, whichever   *)
(* channel the session is of and whatever commands left behind. (A thread  *)
(* that is itself called "chat:<n>" or "web:..." is not found again.)      *)
ListedSessionsOpen ==
  \A id \in DOMAIN chats :
    LET key == ListedKey(id)
        c   == Context(key) IN
    said[id] > 0 /\ LogicalThread(chats[id]).prefix = <<>> /\ LogicalThread(chats[id]).chat = 0 =>
      /\ HistoryOf(key) = {id}
      /\ ResolveChat(c.channel, With(c.channel, c.thread)) = {id}
===============================================================================
