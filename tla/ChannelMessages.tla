---------------------------- MODULE ChannelMessages ----------------------------
(***************************************************************************)
(* Messages of one chat on Discord, on Telegram or at the command line:    *)
(* which are for EgoPulse, which are commands and which are turns, and how *)
(* the reply is cut into chunks and posted. channels/discord.rs,           *)
(* telegram.rs and cli.rs, text.rs, channel_adapter.rs and the entry of    *)
(* slash_commands.rs. Handlers of different messages run at once.          *)
(*                                                                         *)
(* An incoming text is a sequence of tokens ("<@" opens a mention that ">" *)
(* closes); a reply is a sequence of characters, of which Wide takes more  *)
(* bytes than one.                                                         *)
(***************************************************************************)
EXTENDS Naturals, Sequences, FiniteSets, SequencesExt, FiniteSetsExt

CONSTANTS
  Inbound,      \* messages, interactions and calls of send_text
  Origins,      \* where a message may come from
  Lines,        \* the texts that may come in
  Replies,      \* the texts commands and turns may answer with
  Drafts,       \* the texts send_text may be given
  Wide,         \* a character of WideBytes bytes
  WideBytes,
  MaxLength     \* the service's limit of a message, in bytes

ASSUME ChannelConstants ==
  /\ WideBytes \in Nat \ {0} /\ MaxLength \in Nat /\ WideBytes <= MaxLength
  /\ Replies \cup Drafts \subseteq Seq(STRING)

VARIABLES
  handler,   \* per message: where it is, where it is from, whether its command
             \* is known, the reply, the chunks left, the number of the next
  timeline   \* what the chat shows: <<message, number of the chunk>>

channelVars == <<handler, timeline>>

Unread == [at |-> "new", surface |-> "none", kind |-> "none", known |-> FALSE, reply |-> <<>>,
           todo |-> <<>>, next |-> 1, tries |-> 0]
ChannelInit == handler = [m \in Inbound |-> Unread] /\ timeline = <<>>

-------------------------------------------------------------------------------
(* split_text.                                                             *)
Bytes(text) == Len(text) + (WideBytes - 1) * Cardinality({k \in DOMAIN text : text[k] = Wide})

(* Mutant: the limit is taken for a number of characters.                  *)
Boundary_Characters(text) == Min({MaxLength, Len(text)})

(* floor_char_boundary: the longest prefix of whole characters that fits.  *)
Boundary(text) == Max({n \in 0 .. Len(text) : Bytes(SubSeq(text, 1, n)) <= MaxLength})

(* Before the last newline that fits, or at the boundary.                  *)
ChunkLength(text) ==
  LET newlines == {n \in 1 .. Boundary(text) : text[n] = "\n"} IN
  IF Bytes(text) <= MaxLength THEN Len(text)
  ELSE IF newlines # {} THEN Max(newlines) - 1 ELSE Boundary(text)

(* Where the rest begins behind a cut before n: a newline there is dropped. *)
Behind(text, n) == IF n <= Len(text) /\ text[n] = "\n" THEN n + 1 ELSE n

Split(text) ==
  LET chunks[from \in 1 .. Len(text) + 1] ==
        IF from > Len(text) THEN <<>>
        ELSE LET upto == from + ChunkLength(SubSeq(text, from, Len(text)))
             IN <<SubSeq(text, from, upto - 1)>> \o chunks[Behind(text, upto)]
  IN IF Bytes(text) <= MaxLength THEN <<text>> ELSE chunks[1]

-------------------------------------------------------------------------------
(* normalized_slash_command: where the command begins behind the mentions  *)
(* in front of it, 0 if the text is none.                                  *)
CommandAt(text) ==
  LET Next1(i, stop) == LET ends == {k \in i .. Len(text) : text[k] \in stop}
                        IN IF ends = {} THEN 0 ELSE Min(ends)
      at[i \in 1 .. Len(text) + 2] ==
        IF i > Len(text) THEN 0
        ELSE CASE text[i] = " "  -> at[i + 1]
               [] text[i] = "/"  -> i
               [] text[i] = "<@" -> IF Next1(i, {">"}) = 0 THEN 0 ELSE at[Next1(i, {">"}) + 1]
               [] text[i] = "@"  -> IF Next1(i + 1, {" ", "/"}) = 0 THEN 0 ELSE at[Next1(i + 1, {" ", "/"})]
               [] OTHER          -> 0
  IN at[1]

(* is_slash_command: neither "//..." nor a slash with nothing behind it.   *)
IsSlashCommand(text) ==
  LET at == CommandAt(text)
      rest == SubSeq(text, at + 1, Len(text))
  IN at # 0 /\ rest # <<>> /\ Head(rest) # "/" /\ \E i \in DOMAIN rest : rest[i] # " "

(* handle_slash_command knows the command by its first word.               *)
KnowsCommand(text) ==
  LET rest == SubSeq(text, CommandAt(text) + 1, Len(text)) IN
  rest # <<>> /\ Head(rest) = "status"

(* The conditions under which a handler returns without a word. On Discord *)
(* the list of channels and the mention count in guilds only, on Telegram  *)
(* the list of users counts in private chats only and the mention in       *)
(* groups; a broadcast channel is never answered.                          *)
IsIgnored(from, text) ==
  CASE from.surface = "discord" ->
         \/ from.bot \/ (from.group /\ (~from.listed \/ ~from.mentioned))
         \/ text = <<>> \/ (from.kind = "interaction" /\ CommandAt(text) = 0)
    [] from.surface = "telegram" ->
         \/ text = <<>> \/ from.kind = "broadcast"
         \/ IF from.group THEN ~from.mentioned ELSE ~from.listed
    [] from.surface = "cli" -> \A i \in DOMAIN text : text[i] = " "
    [] OTHER -> FALSE

Busy(surface) ==
  {m \in Inbound : handler[m].at \in {"command", "turn", "sending"} /\ handler[m].surface = surface}
Set(m, next) == handler' = [handler EXCEPT ![m] = next]

(* Discord's events are handled at once. Telegram's dispatcher takes the   *)
(* messages of a chat one by one, as the command line reads its lines.     *)
ReceiveMessage(m) ==
  /\ handler[m].at = "new"
  /\ \E from \in Origins, text \in Lines :
       /\ from.surface \notin {"discord", "adapter"} => Busy(from.surface) = {}
       /\ from.surface = "cli" => \A k \in Inbound : handler[k].at # "quit"
       /\ from.kind # "send"
       /\ LET mine == [Unread EXCEPT !.surface = from.surface, !.kind = from.kind] IN
          Set(m, IF IsIgnored(from, text) THEN [Unread EXCEPT !.at = "ignored"]
                 ELSE IF IsSlashCommand(text) \/ from.kind = "interaction"
                 THEN [mine EXCEPT !.at = "command", !.known = KnowsCommand(text)]
                 ELSE [mine EXCEPT !.at = "turn"])
  /\ UNCHANGED timeline

(* ChannelAdapter::send_text, for a chat whose id can be parsed.           *)
SendText(m) ==
  /\ handler[m].at = "new"
  /\ \E from \in Origins, reply \in Drafts :
       /\ from.kind = "send"
       /\ Set(m, [Unread EXCEPT !.surface = from.surface, !.kind = from.kind, !.reply = reply,
                  !.todo = Split(reply), !.at = "sending"])
  /\ UNCHANGED timeline

(* The reply goes out in chunks; an interaction's is one edit of what was  *)
(* deferred, whatever its length.                                          *)
Respond(m, reply) ==
  Set(m, [handler[m] EXCEPT !.known = FALSE, !.reply = reply, !.at = "sending",
            !.todo = IF handler[m].kind = "interaction" \/ handler[m].surface = "cli"
                     THEN <<reply>> ELSE Split(reply)])

(* The command's answer, "Unknown command." or that the chat's id could    *)
(* not be resolved. Before all this an interaction is deferred.            *)
AnswerCommand(m) ==
  /\ handler[m].at = "command"
  /\ \/ \E reply \in Replies \ {<<>>} : handler[m].known /\ Respond(m, reply)
     \/ Respond(m, <<"e">>)
     \/ handler[m].kind = "interaction" /\ Set(m, [handler[m] EXCEPT !.at = "failed"])
  /\ UNCHANGED timeline

(* process_turn: nothing is said to an empty reply, an error is told; at   *)
(* the command line it ends the chat.                                      *)
EndMessageTurn(m) ==
  /\ handler[m].at = "turn"
  /\ \/ \E reply \in Replies :
          IF reply = <<>> /\ handler[m].surface # "cli"
          THEN Set(m, [handler[m] EXCEPT !.at = "done"]) ELSE Respond(m, reply)
     \/ IF handler[m].surface = "cli" THEN Set(m, [handler[m] EXCEPT !.at = "quit"])
        ELSE Respond(m, <<"e">>)
  /\ UNCHANGED timeline

-------------------------------------------------------------------------------
(* One attempt to post the next chunk.                                     *)
Acceptable(chunk) == chunk # <<>> /\ Bytes(chunk) <= MaxLength

Post(m) == timeline' = Append(timeline, <<m, handler[m].next>>)
Advance(m) ==
  Set(m, [handler[m] EXCEPT !.todo = Tail(@), !.next = @ + 1, !.tries = 0,
            !.at = IF Len(handler[m].todo) = 1 THEN "done" ELSE "sending"])
Give(m) == Set(m, [handler[m] EXCEPT !.todo = <<>>, !.at = "failed"])
TryAgain(m) == Set(m, [handler[m] EXCEPT !.tries = @ + 1])

Delivered(m) ==
  /\ handler[m].at = "sending"
  /\ handler[m].surface = "cli" \/ Acceptable(Head(handler[m].todo))
  /\ Post(m) /\ Advance(m)

(* send_discord_response stops at the first chunk that fails, as send_text *)
(* does; send_telegram_response tries once more and goes on.               *)
AfterFailure(m) ==
  LET surface == handler[m].surface IN
  IF surface = "telegram" /\ handler[m].tries = 0 THEN TryAgain(m)
  ELSE IF surface = "telegram" THEN Advance(m) ELSE Give(m)

(* The service refuses the chunk, or its answer is lost: the chunk may     *)
(* stand in the chat and the request has failed all the same.              *)
PostFails(m) ==
  /\ handler[m].at = "sending" /\ handler[m].surface # "cli"
  /\ \/ UNCHANGED timeline
     \/ Acceptable(Head(handler[m].todo)) /\ Post(m)
  /\ AfterFailure(m)

(* send_text waits as long as the service says when it asks too often.     *)
RateLimited(m) ==
  /\ handler[m].at = "sending" /\ handler[m].surface = "adapter"
  /\ IF handler[m].tries < 3 THEN TryAgain(m) ELSE Give(m)
  /\ UNCHANGED timeline

Handle(m) == ReceiveMessage(m) \/ AnswerCommand(m) \/ EndMessageTurn(m)
PostChunk(m) == Delivered(m) \/ PostFails(m) \/ RateLimited(m)

ChannelNext == \E m \in Inbound : Handle(m) \/ SendText(m) \/ PostChunk(m)

ChannelSpec == ChannelInit /\ [][ChannelNext]_channelVars

-------------------------------------------------------------------------------
(* A reply is cut into pieces that fit, of whole characters, and together  *)
(* they are the reply but for the newline right behind a piece, wherever   *)
(* newlines and wide characters lie.                                       *)
IsReply(chunks, text) ==
  LET from[i \in 1 .. Len(chunks) + 1] ==
        IF i = 1 THEN 1
        ELSE LET end == from[i - 1] + Len(chunks[i - 1])
             IN IF end <= Len(text) /\ text[end] = "\n" THEN end + 1 ELSE end
  IN /\ \A i \in DOMAIN chunks :
          /\ Bytes(chunks[i]) <= MaxLength
          /\ chunks[i] = SubSeq(text, from[i], from[i] + Len(chunks[i]) - 1)
     /\ from[Len(chunks) + 1] = Len(text) + 1

ChunksAreTheReply ==
  \A m \in Inbound :
    handler[m].at = "sending" /\ handler[m].next = 1 => IsReply(Split(handler[m].reply), handler[m].reply)

(* Whatever is refused, delayed or lost, the reader of a Discord chat sees *)
(* a reply from its beginning without gaps and no part twice, also when    *)
(* two replies are posted at once; on Telegram parts may be missing or be  *)
(* repeated once, and never change places.                                 *)
RepliesKeepTheirOrder ==
  \A i \in DOMAIN timeline :
    LET m == timeline[i][1] IN
    IF handler[m].surface = "telegram"
    THEN /\ \A j \in 1 .. i : timeline[j][1] = m => timeline[j][2] <= timeline[i][2]
         /\ Cardinality({j \in 1 .. i : timeline[j] = timeline[i]}) <= 2
    ELSE timeline[i][2] = Cardinality({j \in 1 .. i : timeline[j][1] = m})

(* A reply arrives in pieces that make it up, in their order.              *)
RepliesArriveWhole == ChunksAreTheReply /\ RepliesKeepTheirOrder

===============================================================================
