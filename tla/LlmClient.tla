------------------------------ MODULE LlmClient -------------------------------
(***************************************************************************)
(* The LLM client of egopulse, llm/openai.rs over llm/messages.rs, sse.rs  *)
(* and responses.rs: which request a turn makes, the event stream of an    *)
(* answer as it comes in pieces, and what is made of an answer. A line of  *)
(* the stream is a sequence of pieces of text that begins with what it is; *)
(* a text of an answer is a sequence of pieces as well.                    *)
(***************************************************************************)
EXTENDS Naturals, Sequences, FiniteSets, SequencesExt, FiniteSetsExt, TextParts

CONSTANTS
  Streams,    \* what the provider may send: sequences of pieces
  Histories,  \* messages of a turn: [role, calls, answers, text, image]
  AnswerTexts \* texts of answers that are not streamed

ASSUME LlmConstants == Streams \cup AnswerTexts \subseteq Seq(STRING)

Data == "data:"  \* begins a data line; other lines do not concern the client
Done == "[DONE]" \* the data that ends a stream
Junk == "{"      \* data that is no delta
RawOpen == "[tool_use:"
Wrapper == "<invoke>" \* a tag that MiniMax puts around its raw calls
White == " "     \* white space

VARIABLES
  sentRequest, \* none, or what was sent: [route, items]
  wire,        \* what is still to come of the stream
  parser,      \* SseEventParser: the bytes and the data lines that are pending
  answer,      \* the text so far, and what became of the request
  piped,       \* pieces given to text_tx
  sent         \* the stream as the provider sent it

llmVars == <<sentRequest, wire, parser, answer, piped, sent>>

NoRequest == [route |-> "none", items |-> <<>>]
NoParser == [pending |-> <<>>, lines |-> <<>>]
NoAnswer == [is |-> "none", text |-> <<>>, calls |-> <<>>]

LlmInit ==
  /\ sentRequest = NoRequest /\ wire = <<>> /\ parser = NoParser
  /\ answer = NoAnswer /\ piped = <<>> /\ sent = <<>>

-------------------------------------------------------------------------------
(* Requests.                                                               *)

(* should_use_responses_api                                                *)
HasImages(history) == \E k \in DOMAIN history : history[k].image

(* translate_message_to_responses: the items a message becomes. An image   *)
(* of a tool's result is attached as a message of the user behind it.      *)
ResponsesItems(m) ==
  CASE m.role = "assistant" /\ m.calls # <<>> ->
         (IF m.text THEN << [kind |-> "message", of |-> "assistant"] >> ELSE <<>>)
           \o [k \in DOMAIN m.calls |-> [kind |-> "call", of |-> m.calls[k]]]
    [] m.role = "tool" ->
         << [kind |-> "output", of |-> m.answers] >>
           \o (IF m.image THEN << [kind |-> "attachment", of |-> m.answers] >> ELSE <<>>)
    [] OTHER -> << [kind |-> "message", of |-> m.role] >>

(* translate_message_to_openai: one message each, an image of a tool lost  *)
ChatItems(m) ==
  IF m.role = "assistant" /\ m.calls # <<>>
  THEN << [kind |-> "calls", of |-> m.calls] >>
  ELSE << [kind |-> IF m.role = "tool" THEN "output" ELSE "message",
           of |-> IF m.role = "tool" THEN m.answers ELSE m.role] >>

(* build_request_body, build_responses_request_body                        *)
Items(history) ==
  FoldLeft(LAMBDA done, m : done \o (IF HasImages(history) THEN ResponsesItems(m) ELSE ChatItems(m)),
           <<>>, history)

(* send_message, send_message_stream: it streams only without tools        *)
AskProvider(history, tools) ==
  /\ sentRequest = NoRequest
  /\ LET route == IF HasImages(history) THEN "responses" ELSE IF tools THEN "chat" ELSE "stream" IN
     /\ sentRequest' = [route |-> route, items |-> Items(history)]
     /\ \E stream \in Streams : sent' = IF route = "stream" THEN stream ELSE <<>>
  /\ wire' = sent'
  /\ UNCHANGED <<parser, answer, piped>>

-------------------------------------------------------------------------------
(* The event stream. A line ends at a newline, a carriage return before it *)
(* is dropped; an empty line ends an event.                                *)

WithoutReturn(raw) == IF raw # <<>> /\ Last(raw) = "\r" THEN Front(raw) ELSE raw

(* handle_line: the data lines then pending, and the events with the one   *)
(* the line ends                                                           *)
HandleLine(lines, line, events) ==
  CASE line = <<>> /\ lines # <<>> ->
         [pending |-> <<>>, lines |-> <<>>, events |-> Append(events, Joined(lines))]
    [] line # <<>> /\ Head(line) = Data ->
         [pending |-> <<>>, lines |-> Append(lines, Tail(line)), events |-> events]
    [] OTHER -> [pending |-> <<>>, lines |-> lines, events |-> events]

PushPiece(acc, piece) ==
  IF piece = "\n" THEN HandleLine(acc.lines, WithoutReturn(acc.pending), acc.events)
  ELSE [acc EXCEPT !.pending = Append(@, piece)]

Pushed(start, pieces) ==
  LET after[n \in 0 .. Len(pieces)] == IF n = 0 THEN start ELSE PushPiece(after[n - 1], pieces[n])
  IN after[Len(pieces)]

(* Mutant: what is left of the last chunk is not put before the next one.  *)
PushChunk_Fresh(state, chunk) ==
  Pushed([pending |-> <<>>, lines |-> state.lines, events |-> <<>>], chunk)

(* push_chunk                                                              *)
PushChunk(state, chunk) ==
  Pushed([pending |-> state.pending, lines |-> state.lines, events |-> <<>>], chunk)

(* finish: the pending line and the pending event                          *)
LastEvents(handled) ==
  handled.events \o (IF handled.lines = <<>> THEN <<>> ELSE <<Joined(handled.lines)>>)
FinishStream(state) ==
  LastEvents(IF state.pending = <<>> THEN [pending |-> <<>>, lines |-> state.lines, events |-> <<>>]
             ELSE HandleLine(state.lines, WithoutReturn(state.pending), <<>>))

IsDoneMark(event) == event = <<Done>>

IsDelta(event) == event # <<>> /\ Head(event) # Junk

(* process_openai_stream_event, stream_text_piece: events up to [DONE]     *)
HasDone(events) == \E k \in DOMAIN events : IsDoneMark(events[k])
BeforeDone(events) == Max({n \in 0 .. Len(events) : \A k \in 1 .. n : ~IsDoneMark(events[k])})
Deltas(events) ==
  Joined([k \in 1 .. BeforeDone(events) |-> IF IsDelta(events[k]) THEN events[k] ELSE <<>>])

(* str::trim                                                               *)
Trim(text) ==
  LET ink == {k \in DOMAIN text : text[k] # White}
  IN IF ink = {} THEN <<>> ELSE SubSeq(text, Min(ink), Max(ink))

(* the answer when the stream is over: it has to be done, and not blank    *)
StreamResult(text, done) ==
  [NoAnswer EXCEPT !.text = Trim(text), !.is = IF done /\ Trim(text) # <<>> THEN "ok" ELSE "error"]

(* process_openai_stream_event for the events of a chunk, or of the end    *)
TakeEvents(events, ended) ==
  /\ piped' = piped \o Deltas(events)
  /\ answer' = IF ended \/ HasDone(events) THEN StreamResult(answer.text \o Deltas(events), HasDone(events))
               ELSE [answer EXCEPT !.text = @ \o Deltas(events)]

(* The loop of send_message_stream over the chunks: it ends at [DONE]      *)
TakeChunk ==
  /\ sentRequest.route = "stream" /\ answer.is = "none" /\ wire # <<>>
  /\ \E n \in 1..Len(wire) : \E pushed \in {PushChunk(parser, SubSeq(wire, 1, n))} :
       /\ wire' = SubSeq(wire, n + 1, Len(wire))
       /\ parser' = [pending |-> pushed.pending, lines |-> pushed.lines]
       /\ TakeEvents(pushed.events, FALSE)
  /\ UNCHANGED <<sentRequest, sent>>

(* The connection ends in order: what is left in the parser counts         *)
EndStream ==
  /\ sentRequest.route = "stream" /\ answer.is = "none" /\ wire = <<>>
  /\ TakeEvents(FinishStream(parser), TRUE)
  /\ UNCHANGED <<sentRequest, wire, parser, sent>>

(* An error of the network or of the provider, or the timeout              *)
FailRequest ==
  /\ sentRequest # NoRequest /\ answer.is = "none"
  /\ answer' = [answer EXCEPT !.is = "error"]
  /\ UNCHANGED <<sentRequest, wire, parser, piped, sent>>

-------------------------------------------------------------------------------
(* Answers that are not streamed. Some providers write calls of tools into *)
(* the text: [tool_use: name(args)].                                       *)

(* strip_minimax_tool_wrappers: every tag becomes a space, one within an   *)
(* argument as well.                                                       *)
Unwrapped(text) == [k \in DOMAIN text |-> IF text[k] = Wrapper THEN White ELSE text[k]]

(* The scan of parse_raw_tool_use_block and find_raw_tool_use_end: one     *)
(* token of the arguments; quoted parens are not counted.                  *)
ScanToken(acc, token) ==
  LET opens == ~acc.quoted /\ token = "("
      closes == ~acc.quoted /\ token = ")" IN
  IF acc.closed # 0 THEN acc
  ELSE IF closes /\ acc.depth = 1 THEN [acc EXCEPT !.closed = acc.at]
  ELSE [acc EXCEPT !.at = @ + 1, !.quoted = @ # (token = "'"),
                   !.depth = IF opens THEN @ + 1 ELSE IF closes THEN @ - 1 ELSE @]

(* The paren behind an Open at i, and the one that closes it (0 without)   *)
ParenAfter(text, i) == i + SelectInSeq(SubSeq(text, i + 1, Len(text)), LAMBDA token : token = "(")
Closing(text, from) ==
  FoldLeft(ScanToken, [depth |-> 1, quoted |-> FALSE, closed |-> 0, at |-> from + 1],
           SubSeq(text, from + 1, Len(text))).closed

ArgsEnd(text, i) ==
  IF ParenAfter(text, i) = i THEN 0 ELSE Closing(text, ParenAfter(text, i))

(* A block is closed by a ], with nothing but white space before it behind *)
(* the arguments: the place of the ] (0 without)                           *)
BlockEnd(text, i) ==
  LET behind == {k \in ArgsEnd(text, i) + 1 .. Len(text) : text[k] # White}
  IN IF ArgsEnd(text, i) # 0 /\ behind # {} /\ text[Min(behind)] = "]" THEN Min(behind) ELSE 0

(* parse_raw_tool_use_block: it has a name before the paren                *)
CallName(text, i) == Trim(SubSeq(text, i + 1, ParenAfter(text, i) - 1))
IsCall(text, i) == text[i] = RawOpen /\ CallName(text, i) # <<>> /\ BlockEnd(text, i) # 0
CallArgs(text, i) == Trim(SubSeq(text, ParenAfter(text, i) + 1, ArgsEnd(text, i) - 1))

(* extract_raw_tool_use_blocks: the positions of the blocks that are calls *)
ScanBlock(text, acc, i) ==
  IF i >= acc.next /\ IsCall(text, i)
  THEN [next |-> BlockEnd(text, i) + 1, calls |-> Append(acc.calls, i)] ELSE acc
RawCalls(text) ==
  LET upTo[i \in 0 .. Len(text)] ==
        IF i = 0 THEN [next |-> 1, calls |-> <<>>] ELSE ScanBlock(text, upTo[i - 1], i)
  IN upTo[Len(text)].calls

(* strip_raw_tool_use_text: up to the first block without an end; what     *)
(* begins behind the block before it then comes twice.                     *)
StripToken(text, acc, i) ==
  IF i < acc.next THEN acc
  ELSE IF text[i] = RawOpen /\ ~acc.broken /\ BlockEnd(text, i) # 0
  THEN [acc EXCEPT !.next = BlockEnd(text, i) + 1]
  ELSE [acc EXCEPT !.broken = @ \/ text[i] = RawOpen, !.text = Append(@, text[i])]
Stripped(text) ==
  LET upTo[i \in 0 .. Len(text)] ==
        IF i = 0 THEN [next |-> 1, broken |-> FALSE, text |-> <<>>] ELSE StripToken(text, upTo[i - 1], i)
      last == upTo[Len(text)]
  IN Trim(last.text \o (IF last.broken THEN SubSeq(text, last.next, Len(text)) ELSE <<>>))

IsJson(args) == args \in {<<>>, <<"{}">>} \/ (Len(args) > 1 /\ Head(args) = "'" /\ Last(args) = "'"
                                               /\ "'" \notin ToSet(Tail(Front(args))))

(* rescue_raw_tool_calls: all of them, or none                             *)
Rescue(text) ==
  LET plain == Unwrapped(text)
      calls == RawCalls(plain) IN
  IF calls = <<>> \/ \E k \in DOMAIN calls : ~IsJson(CallArgs(plain, calls[k]))
  THEN [is |-> "ok", text |-> text, calls |-> <<>>]
  ELSE [is |-> "ok", text |-> Stripped(plain), calls |-> calls]

(* parse_openai_response, parse_responses_response: calls of the answer    *)
(* whose arguments are no JSON, or an answer of nothing, are errors.       *)
IfAnything(parsed) ==
  IF parsed.text = <<>> /\ parsed.calls = <<>> THEN [NoAnswer EXCEPT !.is = "error"] ELSE parsed
ParsedAnswer(text, calls, valid) ==
  CASE ~valid -> [NoAnswer EXCEPT !.is = "error"]
    [] valid /\ calls = <<>> -> IfAnything(Rescue(Trim(text)))
    [] OTHER -> [is |-> "ok", text |-> Trim(text), calls |-> calls]

(* Calls of tools that the provider tells apart from the text: none or one *)
OwnCalls == {<<>>, <<0>>}

(* The rest of send_message, and what send_message_stream then passes on   *)
TakeAnswer(text, calls, valid) ==
  /\ sentRequest.route \in {"chat", "responses"} /\ answer.is = "none"
  /\ answer' = ParsedAnswer(text, calls, valid)
  /\ piped' = IF answer'.is = "ok" THEN answer'.text ELSE <<>>
  /\ sent' = text
  /\ UNCHANGED <<sentRequest, wire, parser>>

LlmNext ==
  \/ \E history \in Histories, tools \in BOOLEAN : AskProvider(history, tools)
  \/ TakeChunk \/ EndStream \/ FailRequest
  \/ \E text \in AnswerTexts, calls \in OwnCalls, valid \in BOOLEAN : TakeAnswer(text, calls, valid)

LlmSpec == LlmInit /\ [][LlmNext]_llmVars

-------------------------------------------------------------------------------
(* The answer to a streamed request is that of the stream in one piece,    *)
(* however it was cut into chunks, between a carriage return and a newline *)
(* or within the end mark, but for white space at its ends; a stream cut   *)
(* short is never taken for an answer, nor is a blank one, and what was    *)
(* passed on is never more than what was sent.                             *)
AllEvents(whole) ==
  IF HasDone(whole.events) THEN whole.events ELSE whole.events \o FinishStream(whole)
InOnePiece(events) ==
  /\ IsPrefix(piped, Deltas(events))
  /\ answer.is = "ok" =>
       /\ HasDone(events) /\ piped = Deltas(events)
       /\ answer.text = Trim(Deltas(events)) /\ answer.text # <<>>
ChunksDoNotMatter ==
  sentRequest.route = "stream" => InOnePiece(AllEvents(PushChunk(NoParser, sent)))

(* Raw calls are rescued all or none: if the text has any that cannot be   *)
(* read, it is passed on as it came, tags and all, and otherwise the calls *)
(* are those of the text without its tags, and nothing of them is kept in  *)
(* the text when every block of it is a call. A tag that stood within an   *)
(* argument is a space in the argument rescued.                            *)
RescuedWhole(text, plain, found) ==
  /\ answer.calls = <<>> => answer.text = text
  /\ answer.calls # <<>> => ToSet(answer.calls) = found /\ \A i \in found : IsJson(CallArgs(plain, i))
  /\ answer.calls # <<>> /\ {i \in DOMAIN plain : plain[i] = RawOpen} = found => RawOpen \notin ToSet(answer.text)
RescueIsWhole ==
  answer.is = "ok" /\ sentRequest.route # "stream" /\ answer.calls # <<0>> =>
    RescuedWhole(Trim(sent), Unwrapped(Trim(sent)), ToSet(RawCalls(Unwrapped(Trim(sent)))))

(* Chunks make no difference to an answer, raw calls are rescued whole.    *)
AnswersAreWhole == ChunksDoNotMatter /\ RescueIsWhole

===============================================================================
