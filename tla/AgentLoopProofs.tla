--------------------------- MODULE AgentLoopProofs ---------------------------
(***************************************************************************)
(* What a turn sends to the model and leaves behind, for any ids of calls, *)
(* any number of rounds and questions, and whatever happens to the session *)
(* meanwhile; what the tools of its calls answer, for any programs, limits *)
(* and timeouts; what is made of the provider's streams and texts, however *)
(* they are cut into chunks; and how the reply comes into a chat, for any  *)
(* text and any number of replies at once. Each by one inductive invariant.*)
(***************************************************************************)
EXTENDS TurnLoop, ToolCalls, ChannelMessages, LlmClient, TextProofs, FiniteSetTheorems, SequenceTheorems, NaturalsInduction, TLAPS

Messages == [role: {"user", "assistant", "tool"}, text: Texts \cup {"guard"},
             calls: Seq(CallIds), answers: CallIds \cup {NoCall}, output: {0} \cup Outputs]

Places == {"idle", "send", "await", "store", "reload", "insert", "run"}

Loops == [at: Places, iteration: Nat, messages: Seq(Messages), seen: Nat,
          retried: SUBSET Texts, retry: Seq(Messages), phase: Messages,
          again: BOOLEAN, todo: Seq(CallIds)]

TypeOK ==
  /\ loop \in Loops
  /\ snapshot \in [messages: Seq(Messages), version: Nat]
  /\ request \in Seq(Messages)
  /\ DOMAIN calls \subseteq CallIds /\ calls \in [DOMAIN calls -> {0} \cup Outputs]

(* The message i of s made the call, and only results came since.          *)
Since(s, i, id, n) ==
  /\ id \in Range(s[i].calls)
  /\ \A k \in (i + 1) .. n : s[k].role = "tool"

(* ResultsFollowTheirCall of any sequence of messages.                     *)
Follow(s) ==
  \A i \in DOMAIN s : s[i].role = "tool" =>
    \E j \in 1 .. (i - 1) : Since(s, j, s[i].answers, i - 1)

(* The calls yet to run may be answered by a result appended to s.         *)
Awaits(s, todo) ==
  \E j \in 1 .. Len(s) :
    /\ Range(todo) \subseteq Range(s[j].calls)
    /\ \A k \in (j + 1) .. Len(s) : s[k].role = "tool"

ResultsInOrder ==
  /\ Follow(loop.messages) /\ Follow(snapshot.messages)
  /\ Follow(loop.retry) /\ Follow(request)
  /\ loop.at \in {"idle", "send", "await"} => loop.todo = <<>>
  /\ loop.at \in {"insert", "run"} => loop.todo # <<>> /\ Awaits(loop.messages, loop.todo)
  /\ loop.at \in {"store", "reload"} =>
       /\ loop.phase.role # "tool"
       /\ Range(loop.todo) \subseteq Range(loop.phase.calls)
  /\ loop.at = "store" =>
       /\ loop.messages # <<>>
       /\ loop.messages[Len(loop.messages)] = loop.phase

(* RowsTellTheResult of any sequence of messages; a result is an output,   *)
(* so the row of a call that is running answers no message.                *)
Told(s, rows) ==
  \A i \in DOMAIN s : s[i].role = "tool" =>
    /\ s[i].output \in Outputs
    /\ s[i].answers \in DOMAIN rows /\ rows[s[i].answers] = s[i].output

RowsInOrder ==
  /\ Told(loop.messages, calls) /\ Told(snapshot.messages, calls)
  /\ loop.at = "run" => Head(loop.todo) \in DOMAIN calls /\ calls[Head(loop.todo)] = 0

(* No correction is among the messages of s.                               *)
Proper(m) == m # Guard /\ m # Said("assistant", "empty")
Plain(s) == \A i \in DOMAIN s : Proper(s[i])

CorrectionsApart ==
  /\ Plain(loop.messages) /\ Plain(snapshot.messages)
  /\ loop.at \in {"store", "reload"} => Proper(loop.phase)

IInv == TypeOK /\ ResultsInOrder /\ RowsInOrder /\ CorrectionsApart
-----------------------------------------------------------------------------
(* Messages.                                                               *)

LEMMA SaidIsMessage ==
  ASSUME NEW role \in {"user", "assistant"}, NEW text \in Texts \cup {"guard"}
  PROVE  /\ Said(role, text) \in Messages
         /\ Said(role, text).role = role /\ Said(role, text).text = text
  BY DEF Said, Messages

LEMMA CallingIsMessage ==
  ASSUME NEW ids \in Seq(CallIds)
  PROVE  /\ Calling(ids) \in Messages /\ Calling(ids).calls = ids
         /\ Calling(ids).role = "assistant" /\ Calling(ids).text = "says"
  <1>1. Said("assistant", "says") \in Messages
    BY DEF Said, Messages, Texts
  <1>2. Said("assistant", "says").role = "assistant" /\ Said("assistant", "says").text = "says"
    BY DEF Said
  <1> QED
    BY <1>1, <1>2 DEF Calling, Messages

LEMMA ResultIsMessage ==
  ASSUME NEW id \in CallIds, NEW output \in Outputs
  PROVE  /\ Result(id, output) \in Messages
         /\ Result(id, output).role = "tool" /\ Result(id, output).text = "says"
         /\ Result(id, output).answers = id /\ Result(id, output).output = output
  <1>1. Said("tool", "says") \in Messages
    BY DEF Said, Messages, Texts
  <1>2. Said("tool", "says").role = "tool" /\ Said("tool", "says").text = "says"
    BY DEF Said
  <1>3. Result(id, output) = [[Said("tool", "says") EXCEPT !.answers = id] EXCEPT !.output = output]
    BY <1>1 DEF Result, Messages
  <1> QED
    BY <1>1, <1>2, <1>3 DEF Messages

LEMMA GuardIsMessage == Guard \in Messages /\ Guard.role = "user" /\ Guard.text = "guard"
  BY SaidIsMessage DEF Guard

LEMMA ProperMessages ==
  ASSUME NEW m, m.text # "guard", m.role = "assistant" => m.text # "empty"
  PROVE  Proper(m)
  BY GuardIsMessage, SaidIsMessage DEF Proper, Texts

(* Appending to the messages.                                              *)
LEMMA FollowEmpty == Follow(<<>>) /\ Plain(<<>>) /\ \A rows : Told(<<>>, rows)
  BY DEF Follow, Plain, Told

LEMMA FollowAppend ==
  ASSUME NEW s \in Seq(Messages), NEW m \in Messages, Follow(s),
         m.role = "tool" => \E j \in 1 .. Len(s) : Since(s, j, m.answers, Len(s))
  PROVE  Append(s, m) \in Seq(Messages) /\ Follow(Append(s, m))
  <1> DEFINE t == Append(s, m)
  <1>1. /\ t \in Seq(Messages) /\ Len(t) = Len(s) + 1 /\ Len(s) \in Nat
        /\ \A i \in 1 .. Len(s) : t[i] = s[i]
        /\ t[Len(s) + 1] = m
        /\ DOMAIN t = 1 .. (Len(s) + 1) /\ DOMAIN s = 1 .. Len(s)
    OBVIOUS
  <1> HIDE DEF t
  <1>2. ASSUME NEW i \in DOMAIN t, t[i].role = "tool"
        PROVE  \E j \in 1 .. (i - 1) : Since(t, j, t[i].answers, i - 1)
    <2>1. CASE i = Len(s) + 1
      <3>1. PICK j \in 1 .. Len(s) : Since(s, j, m.answers, Len(s))
        BY <1>1, <1>2, <2>1
      <3>2. Since(t, j, t[i].answers, i - 1)
        BY <1>1, <2>1, <3>1 DEF Since
      <3> QED
        BY <1>1, <2>1, <3>2
    <2>2. CASE i \in 1 .. Len(s)
      <3>1. PICK j \in 1 .. (i - 1) : Since(s, j, s[i].answers, i - 1)
        BY <1>1, <1>2, <2>2 DEF Follow
      <3>2. Since(t, j, t[i].answers, i - 1)
        BY <1>1, <2>2, <3>1 DEF Since
      <3> QED
        BY <3>2
    <2> QED
      BY <1>1, <2>1, <2>2
  <1> QED
    BY <1>1, <1>2 DEF Follow, t

LEMMA PlainAppend ==
  ASSUME NEW s \in Seq(Messages), NEW m \in Messages, Plain(s), Proper(m)
  PROVE  Plain(Append(s, m))
  BY DEF Plain

LEMMA ToldAppend ==
  ASSUME NEW s \in Seq(Messages), NEW m \in Messages, NEW rows, Told(s, rows), m.role # "tool"
  PROVE  Told(Append(s, m), rows)
  BY DEF Told

(* A message of the turn itself is appended.                               *)
LEMMA SpokenAppend ==
  ASSUME NEW s \in Seq(Messages), NEW m \in Messages, NEW rows,
         Follow(s), Told(s, rows), m.role # "tool"
  PROVE  /\ Append(s, m) \in Seq(Messages)
         /\ Append(s, m) # <<>> /\ Append(s, m)[Len(Append(s, m))] = m
         /\ Follow(Append(s, m)) /\ Told(Append(s, m), rows)
  <1>1. Append(s, m) \in Seq(Messages) /\ Follow(Append(s, m))
    BY FollowAppend
  <1>2. Told(Append(s, m), rows)
    BY ToldAppend
  <1>3. Len(Append(s, m)) = Len(s) + 1 /\ Len(s) \in Nat /\ Append(s, m)[Len(s) + 1] = m
    OBVIOUS
  <1>4. Append(s, m) # <<>>
    BY <1>3
  <1> QED
    BY <1>1, <1>2, <1>3, <1>4
-----------------------------------------------------------------------------
(* The steps.                                                              *)

LEMMA NoLoopHolds ==
  /\ NoLoop.at = "idle" /\ NoLoop.messages = <<>> /\ NoLoop.retry = <<>> /\ NoLoop.todo = <<>>
  /\ NoLoop \in Loops
  <1>1. "idle" \in Places /\ <<>> \in Seq(Messages) /\ <<>> \in Seq(CallIds)
    BY DEF Places
  <1> QED
    BY <1>1, GuardIsMessage DEF NoLoop, NoRetry, Loops

LEMMA InitHolds == LoopInit => IInv
  <1> SUFFICES ASSUME LoopInit PROVE IInv
    OBVIOUS
  <1>1. TypeOK
    BY NoLoopHolds DEF LoopInit, TypeOK
  <1> QED
    BY <1>1, FollowEmpty, NoLoopHolds
       DEF LoopInit, IInv, ResultsInOrder, RowsInOrder, CorrectionsApart

(* A turn that is over leaves no trace in the loop.                        *)
LEMMA OverHolds ==
  ASSUME IInv, loop' = NoLoop, snapshot' = snapshot, calls' = calls,
         request' = request \/ request' = <<>>
  PROVE  IInv'
  <1>1. TypeOK'
    <2>1. request' \in Seq(Messages)
      <3>1. <<>> \in Seq(Messages) /\ request \in Seq(Messages)
        BY DEF IInv, TypeOK
      <3> QED
        BY <3>1
    <2>2. loop' \in Loops
      BY NoLoopHolds
    <2> QED
      BY <2>1, <2>2 DEF IInv, TypeOK
  <1> QED
    BY <1>1, FollowEmpty, NoLoopHolds
       DEF IInv, ResultsInOrder, RowsInOrder, CorrectionsApart

(* A change of the session while the turn waits.                           *)
LEMMA SessionHolds ==
  ASSUME IInv, loop' = loop, calls' = calls, request' = request,
         snapshot' \in [messages: Seq(Messages), version: Nat],
         Follow(snapshot'.messages), Told(snapshot'.messages, calls), Plain(snapshot'.messages)
  PROVE  IInv'
  <1>1. TypeOK'
    BY DEF IInv, TypeOK
  <1> QED
    BY <1>1 DEF IInv, ResultsInOrder, RowsInOrder, CorrectionsApart

LEMMA ClockIsTime == Clock \in Nat
  <1>1. \E v \in 1 .. 3 : v \notin {snapshot.version, loop.seen}
    OBVIOUS
  <1> QED
    BY <1>1 DEF Clock

(* A question is put on the session's messages.                            *)
LEMMA Question ==
  ASSUME NEW s \in Seq(Messages), NEW rows, Follow(s), Told(s, rows), Plain(s)
  PROVE  /\ Append(s, Said("user", "says")) \in Seq(Messages)
         /\ Follow(Append(s, Said("user", "says")))
         /\ Told(Append(s, Said("user", "says")), rows)
         /\ Plain(Append(s, Said("user", "says")))
  <1> DEFINE m == Said("user", "says")
  <1>1. m \in Messages /\ m.role = "user" /\ m.text = "says"
    BY SaidIsMessage DEF Texts
  <1> HIDE DEF m
  <1>2. Proper(m)
    BY <1>1, ProperMessages
  <1>3. /\ Append(s, m) \in Seq(Messages) /\ Follow(Append(s, m))
        /\ Told(Append(s, m), rows) /\ Plain(Append(s, m))
    BY <1>1, <1>2, SpokenAppend, PlainAppend
  <1> QED
    BY <1>3 DEF m

LEMMA AskHolds == IInv /\ Ask => IInv'
  <1> SUFFICES ASSUME IInv, Ask PROVE IInv'
    OBVIOUS
  <1> DEFINE s == Append(snapshot.messages, Said("user", "says"))
  <1>1. snapshot.messages \in Seq(Messages) /\ Follow(snapshot.messages)
        /\ Told(snapshot.messages, calls) /\ Plain(snapshot.messages)
    BY DEF IInv, TypeOK, ResultsInOrder, RowsInOrder, CorrectionsApart
  <1>2. s \in Seq(Messages) /\ Follow(s) /\ Told(s, calls) /\ Plain(s)
    BY <1>1, Question
  <1>3. snapshot' = [messages |-> s, version |-> Clock] /\ calls' = calls /\ request' = request
    BY DEF Ask
  <1>4. loop' = [NoLoop EXCEPT !.at = "send", !.iteration = 1, !.messages = snapshot'.messages,
                               !.seen = Clock]
    BY DEF Ask
  <1> HIDE DEF s
  <1>5. /\ loop'.at = "send" /\ loop'.messages = s /\ loop'.retry = <<>> /\ loop'.todo = <<>>
        /\ loop' \in Loops
    BY <1>2, <1>3, <1>4, NoLoopHolds, ClockIsTime DEF Places, Loops
  <1>6. TypeOK'
    BY <1>2, <1>3, <1>5, ClockIsTime DEF IInv, TypeOK
  <1> QED
    BY <1>2, <1>3, <1>5, <1>6, FollowEmpty
       DEF IInv, ResultsInOrder, RowsInOrder, CorrectionsApart

LEMMA SendHolds == IInv /\ SendRequest => IInv'
  <1> SUFFICES ASSUME IInv, SendRequest PROVE IInv'
    OBVIOUS
  <1>1. loop' = [loop EXCEPT !.at = "await", !.retry = NoRetry] /\ loop.at = "send"
        /\ snapshot' = snapshot /\ calls' = calls
    BY DEF SendRequest
  <1>2. request' \in {loop.retry, loop.messages}
    BY DEF SendRequest
  <1>3. /\ loop'.at = "await" /\ loop'.messages = loop.messages /\ loop'.retry = <<>>
        /\ loop'.todo = loop.todo
    BY <1>1 DEF IInv, TypeOK, Loops, NoRetry
  <1>4. TypeOK'
    <2>1. loop' \in Loops
      <3>1. loop \in Loops /\ <<>> \in Seq(Messages) /\ "await" \in Places
        BY DEF IInv, TypeOK, Places
      <3> QED
        BY <1>1, <3>1 DEF Loops, NoRetry
    <2>2. request' \in Seq(Messages)
      BY <1>2 DEF IInv, TypeOK, Loops
    <2> QED
      BY <1>1, <2>1, <2>2 DEF IInv, TypeOK
  <1> QED
    BY <1>1, <1>2, <1>3, <1>4, FollowEmpty
       DEF IInv, ResultsInOrder, RowsInOrder, CorrectionsApart

(* The round is over and another one begins, or the turn gives up.         *)
LEMMA IterationHolds ==
  ASSUME IInv, NEW l \in Loops, loop' = NextIteration(l), snapshot' = snapshot,
         request' = request \/ request' = <<>>,
         DOMAIN calls' \subseteq CallIds /\ calls' \in [DOMAIN calls' -> {0} \cup Outputs],
         Follow(l.messages), Told(l.messages, calls'), Plain(l.messages),
         Follow(l.retry), l.todo = <<>>, Told(snapshot.messages, calls')
  PROVE  IInv'
  <1>1. request' \in Seq(Messages) /\ Follow(request')
    <2>1. <<>> \in Seq(Messages) /\ request \in Seq(Messages) /\ Follow(request) /\ Follow(<<>>)
      BY FollowEmpty DEF IInv, TypeOK, ResultsInOrder
    <2> QED
      BY <2>1
  <1>2. Follow(snapshot.messages) /\ Plain(snapshot.messages)
    BY DEF IInv, ResultsInOrder, CorrectionsApart
  <1>3. /\ loop' \in Loops /\ loop'.at \in {"idle", "send"} /\ loop'.todo = <<>>
        /\ Follow(loop'.messages) /\ Told(loop'.messages, calls') /\ Plain(loop'.messages)
        /\ Follow(loop'.retry)
    <2>1. CASE l.iteration = MaxIterations
      BY <2>1, NoLoopHolds, FollowEmpty DEF NextIteration
    <2>2. CASE l.iteration # MaxIterations
      <3>1. loop' = [l EXCEPT !.at = "send", !.iteration = l.iteration + 1]
        BY <2>2 DEF NextIteration, Loops
      <3>2. "send" \in Places /\ l.iteration + 1 \in Nat
        BY DEF Places, Loops
      <3> QED
        BY <3>1, <3>2 DEF Loops
    <2> QED
      BY <2>1, <2>2
  <1>4. TypeOK'
    BY <1>1, <1>3 DEF IInv, TypeOK
  <1> QED
    BY <1>1, <1>2, <1>3, <1>4 DEF IInv, ResultsInOrder, RowsInOrder, CorrectionsApart

(* A message of the model's that the turn keeps, with the calls in it.     *)
Kept(m, ids, retried) ==
  [loop EXCEPT !.at = "store", !.phase = m, !.todo = ids,
               !.messages = Append(loop.messages, m), !.retried = retried]

LEMMA KeptHolds ==
  ASSUME IInv, NEW m \in Messages, NEW ids \in Seq(CallIds), NEW retried \in SUBSET Texts,
         m.role # "tool", Proper(m), Range(ids) \subseteq Range(m.calls),
         loop' = Kept(m, ids, retried),
         snapshot' = snapshot, calls' = calls, request' = <<>>
  PROVE  IInv'
  <1>1. /\ loop \in Loops /\ loop.messages \in Seq(Messages) /\ Follow(loop.messages)
        /\ Told(loop.messages, calls) /\ Plain(loop.messages) /\ Follow(loop.retry)
        /\ Follow(snapshot.messages) /\ Told(snapshot.messages, calls) /\ Plain(snapshot.messages)
    BY DEF IInv, TypeOK, Loops, ResultsInOrder, RowsInOrder, CorrectionsApart
  <1> DEFINE s == Append(loop.messages, m)
  <1>2. /\ s \in Seq(Messages) /\ s # <<>> /\ s[Len(s)] = m
        /\ Follow(s) /\ Told(s, calls) /\ Plain(s)
    BY <1>1, SpokenAppend, PlainAppend
  <1>3. loop' = [loop EXCEPT !.at = "store", !.phase = m, !.todo = ids,
                             !.messages = s, !.retried = retried]
    BY DEF Kept
  <1> HIDE DEF s
  <1>4. /\ loop' \in Loops /\ loop'.at = "store" /\ loop'.messages = s /\ loop'.phase = m
        /\ loop'.todo = ids /\ loop'.retry = loop.retry
    BY <1>1, <1>2, <1>3 DEF Loops, Places
  <1>5. <<>> \in Seq(Messages)
    OBVIOUS
  <1>6. TypeOK'
    BY <1>4, <1>5 DEF IInv, TypeOK
  <1> QED
    BY <1>1, <1>2, <1>4, <1>6, FollowEmpty
       DEF IInv, ResultsInOrder, RowsInOrder, CorrectionsApart

LEMMA FinishHolds ==
  ASSUME IInv, loop.at = "await", NEW text \in Texts, text # "empty", Finish(text),
         snapshot' = snapshot, calls' = calls, request' = <<>>
  PROVE  IInv'
  <1> DEFINE m == Said("assistant", text)
  <1>1. m \in Messages /\ m.role = "assistant" /\ m.text = text
    BY SaidIsMessage
  <1>2. Proper(m)
    BY <1>1, ProperMessages DEF Texts
  <1>3. loop.todo = <<>> /\ loop \in Loops
    BY DEF IInv, ResultsInOrder, TypeOK
  <1>4. loop' = [loop EXCEPT !.at = "store", !.phase = m, !.messages = Append(loop.messages, m)]
    BY <1>3 DEF Finish, Loops
  <1> HIDE DEF m
  <1>5. loop' = Kept(m, <<>>, loop.retried)
    BY <1>3, <1>4 DEF Kept, Loops
  <1>6. Range(<<>>) \subseteq Range(m.calls) /\ loop.retried \in SUBSET Texts /\ <<>> \in Seq(CallIds)
    BY <1>3 DEF Range, Loops
  <1> QED
    BY <1>1, <1>2, <1>5, <1>6, KeptHolds

LEMMA StartHolds ==
  ASSUME IInv, NEW ids \in IdLists, StartTools(ids),
         snapshot' = snapshot, calls' = calls, request' = <<>>
  PROVE  IInv'
  <1> DEFINE m == Calling(ids)
  <1>1. ids \in Seq(CallIds)
    <2>1. PICK n \in 1 .. MaxCalls : ids \in [1 .. n -> CallIds]
      BY DEF IdLists
    <2> QED
      BY <2>1
  <1>2. m \in Messages /\ m.calls = ids /\ m.role = "assistant" /\ m.text = "says"
    BY <1>1, CallingIsMessage
  <1>3. Proper(m)
    BY <1>2, ProperMessages
  <1>4. loop \in Loops
    BY DEF IInv, TypeOK
  <1>5. loop' = Kept(m, ids, {})
    BY <1>4 DEF StartTools, Kept, Loops
  <1> HIDE DEF m
  <1> QED
    BY <1>1, <1>2, <1>3, <1>5, KeptHolds

(* What goes to the model once.                                            *)
LEMMA RetryHolds ==
  ASSUME IInv, loop.at = "await", NEW text \in Texts, NEW kind \in Texts, Retry(kind, text),
         snapshot' = snapshot, calls' = calls, request' = <<>>
  PROVE  IInv'
  <1> DEFINE a == Said("assistant", text)
             s == Append(Append(loop.messages, a), Guard)
             l == [loop EXCEPT !.retried = loop.retried \cup {kind}, !.retry = s]
  <1>1. /\ loop \in Loops /\ loop.messages \in Seq(Messages) /\ Follow(loop.messages)
        /\ Told(loop.messages, calls) /\ Plain(loop.messages) /\ loop.todo = <<>>
        /\ Told(snapshot.messages, calls)
    BY DEF IInv, TypeOK, Loops, ResultsInOrder, RowsInOrder, CorrectionsApart
  <1>2. a \in Messages /\ a.role = "assistant"
    BY SaidIsMessage
  <1> HIDE DEF a
  <1>3. Append(loop.messages, a) \in Seq(Messages) /\ Follow(Append(loop.messages, a))
    BY <1>1, <1>2, FollowAppend
  <1>4. s \in Seq(Messages) /\ Follow(s)
    BY <1>3, GuardIsMessage, FollowAppend
  <1>5. loop.messages \o <<a, Guard>> = s
    <2>1. Len(loop.messages) \in Nat
      BY <1>1
    <2>2. Len(s) = Len(loop.messages) + 2 /\ Len(loop.messages \o <<a, Guard>>) = Len(s)
      BY <1>1, <1>2, <1>3, <1>4, GuardIsMessage
    <2>3. ASSUME NEW i \in 1 .. Len(s)
          PROVE  s[i] = (loop.messages \o <<a, Guard>>)[i]
      BY <1>1, <1>2, <1>3, <2>1, <2>2, GuardIsMessage
    <2> QED
      BY <1>1, <1>2, <1>4, <2>2, <2>3, GuardIsMessage, SeqEqual
  <1>6. loop' = NextIteration(l)
    BY <1>1, <1>5 DEF Retry, a, Loops
  <1> HIDE DEF s
  <1>7. /\ l \in Loops /\ l.messages = loop.messages /\ l.todo = <<>> /\ l.retry = s
    BY <1>1, <1>4 DEF Loops
  <1>8. DOMAIN calls' \subseteq CallIds /\ calls' \in [DOMAIN calls' -> {0} \cup Outputs]
    BY DEF IInv, TypeOK
  <1> HIDE DEF l
  <1> QED
    BY <1>1, <1>4, <1>6, <1>7, <1>8, IterationHolds

LEMMA ReplyHolds == IInv /\ ReplyArrives => IInv'
  <1> SUFFICES ASSUME IInv, ReplyArrives PROVE IInv'
    OBVIOUS
  <1>1. loop.at = "await" /\ request' = <<>> /\ snapshot' = snapshot /\ calls' = calls
    BY DEF ReplyArrives
  <1>2. CASE \E text \in Texts : EvaluateEndTurn(text) \/ EvaluateMalformed(text)
    <2>1. PICK text \in Texts : EvaluateEndTurn(text) \/ EvaluateMalformed(text)
      BY <1>2
    <2>2. Over \/ (text # "empty" /\ Finish(text)) \/ \E kind \in Texts : Retry(kind, text)
      BY <2>1 DEF EvaluateEndTurn, EvaluateMalformed, Texts
    <2> QED
      BY <1>1, <2>2, OverHolds, FinishHolds, RetryHolds DEF Over
  <1>3. CASE \E ids \in IdLists : StartTools(ids)
    BY <1>1, <1>3, StartHolds
  <1> QED
    BY <1>2, <1>3 DEF ReplyArrives

LEMMA PersistHolds == IInv /\ PersistPhase => IInv'
  <1> SUFFICES ASSUME IInv, PersistPhase PROVE IInv'
    OBVIOUS
  <1>1. /\ loop.at = "store" /\ calls' = calls /\ request' = request
        /\ loop \in Loops /\ loop.messages \in Seq(Messages) /\ Follow(loop.messages)
        /\ Told(loop.messages, calls) /\ Plain(loop.messages) /\ Follow(loop.retry)
    BY DEF PersistPhase, IInv, TypeOK, Loops, ResultsInOrder, RowsInOrder, CorrectionsApart
  <1>2. CASE snapshot.version = loop.seen
    <2>1. /\ snapshot' = [messages |-> loop.messages, version |-> Clock]
          /\ loop' = IF loop.todo = <<>> THEN NoLoop
                     ELSE [loop EXCEPT !.at = "insert", !.messages = loop.messages,
                                       !.seen = Clock, !.again = FALSE]
      BY <1>1, <1>2 DEF PersistPhase, Stored, Loops
    <2>2. snapshot' \in [messages: Seq(Messages), version: Nat] /\ snapshot'.messages = loop.messages
      BY <1>1, <2>1, ClockIsTime
    <2>3. CASE loop.todo = <<>>
      <3>1. loop' = NoLoop
        BY <2>1, <2>3
      <3>2. TypeOK'
        BY <1>1, <2>2, <3>1, NoLoopHolds DEF IInv, TypeOK
      <3> QED
        BY <1>1, <2>2, <3>1, <3>2, NoLoopHolds, FollowEmpty
           DEF IInv, ResultsInOrder, RowsInOrder, CorrectionsApart
    <2>4. CASE loop.todo # <<>>
      <3>1. loop' = [loop EXCEPT !.at = "insert", !.messages = loop.messages,
                                 !.seen = Clock, !.again = FALSE]
        BY <2>1, <2>4
      <3>2. "insert" \in Places
        BY DEF Places
      <3>3. /\ loop' \in Loops /\ loop'.at = "insert" /\ loop'.messages = loop.messages
            /\ loop'.todo = loop.todo /\ loop'.retry = loop.retry
        BY <1>1, <3>1, <3>2, ClockIsTime DEF Loops
      <3>4. Awaits(loop.messages, loop.todo)
        <4>1. /\ loop.messages # <<>> /\ loop.messages[Len(loop.messages)] = loop.phase
              /\ Range(loop.todo) \subseteq Range(loop.phase.calls)
          BY <1>1 DEF IInv, ResultsInOrder
        <4>2. Len(loop.messages) \in 1 .. Len(loop.messages)
          BY <1>1, <4>1
        <4> QED
          BY <4>1, <4>2 DEF Awaits
      <3>5. TypeOK'
        BY <1>1, <2>2, <3>3 DEF IInv, TypeOK
      <3> QED
        BY <1>1, <2>2, <2>4, <3>3, <3>4, <3>5
           DEF IInv, ResultsInOrder, RowsInOrder, CorrectionsApart
    <2> QED
      BY <2>3, <2>4
  <1>3. CASE snapshot.version # loop.seen /\ loop.again
    BY <1>1, <1>3, OverHolds DEF PersistPhase
  <1>4. CASE snapshot.version # loop.seen /\ ~loop.again
    <2>1. loop' = [loop EXCEPT !.at = "reload"] /\ snapshot' = snapshot
      BY <1>1, <1>4 DEF PersistPhase
    <2>2. /\ loop' \in Loops /\ loop'.at = "reload" /\ loop'.messages = loop.messages
          /\ loop'.todo = loop.todo /\ loop'.retry = loop.retry /\ loop'.phase = loop.phase
      BY <1>1, <2>1 DEF Loops, Places
    <2>3. TypeOK'
      BY <1>1, <2>1, <2>2 DEF IInv, TypeOK
    <2> QED
      BY <1>1, <2>1, <2>2, <2>3 DEF IInv, ResultsInOrder, RowsInOrder, CorrectionsApart
  <1> QED
    BY <1>2, <1>3, <1>4

LEMMA ReloadHolds == IInv /\ Reload => IInv'
  <1> SUFFICES ASSUME IInv, Reload PROVE IInv'
    OBVIOUS
  <1> DEFINE s == Append(snapshot.messages, loop.phase)
  <1>1. /\ loop.at = "reload" /\ calls' = calls /\ request' = request /\ snapshot' = snapshot
        /\ loop \in Loops /\ loop.phase \in Messages /\ loop.phase.role # "tool"
        /\ Proper(loop.phase) /\ snapshot.version \in Nat
        /\ snapshot.messages \in Seq(Messages) /\ Follow(snapshot.messages)
        /\ Told(snapshot.messages, calls) /\ Plain(snapshot.messages) /\ Follow(loop.retry)
        /\ Range(loop.todo) \subseteq Range(loop.phase.calls)
    BY DEF Reload, IInv, TypeOK, Loops, ResultsInOrder, RowsInOrder, CorrectionsApart
  <1>2. /\ s \in Seq(Messages) /\ s # <<>> /\ s[Len(s)] = loop.phase
        /\ Follow(s) /\ Told(s, calls) /\ Plain(s)
    BY <1>1, SpokenAppend, PlainAppend
  <1>3. loop' = [loop EXCEPT !.at = "store", !.again = TRUE, !.messages = s, !.seen = snapshot.version]
    BY DEF Reload, Rebased
  <1> HIDE DEF s
  <1>4. /\ loop' \in Loops /\ loop'.at = "store" /\ loop'.messages = s
        /\ loop'.todo = loop.todo /\ loop'.retry = loop.retry /\ loop'.phase = loop.phase
    BY <1>1, <1>2, <1>3 DEF Loops, Places
  <1>5. TypeOK'
    BY <1>1, <1>4 DEF IInv, TypeOK
  <1> QED
    BY <1>1, <1>2, <1>4, <1>5 DEF IInv, ResultsInOrder, RowsInOrder, CorrectionsApart

LEMMA InsertHolds == IInv /\ InsertCall => IInv'
  <1> SUFFICES ASSUME IInv, InsertCall PROVE IInv'
    OBVIOUS
  <1> DEFINE id == Head(loop.todo)
  <1>1. /\ loop.at = "insert" /\ request' = request /\ snapshot' = snapshot
        /\ loop \in Loops /\ loop.todo \in Seq(CallIds) /\ loop.todo # <<>>
        /\ Told(loop.messages, calls) /\ Told(snapshot.messages, calls)
        /\ DOMAIN calls \subseteq CallIds /\ calls \in [DOMAIN calls -> {0} \cup Outputs]
    BY DEF InsertCall, IInv, TypeOK, Loops, ResultsInOrder, RowsInOrder
  <1>2. id \in CallIds
    BY <1>1
  <1>3. CASE id \in DOMAIN calls
    BY <1>1, <1>3, OverHolds DEF InsertCall, Over
  <1>4. CASE id \notin DOMAIN calls
    <2>1. /\ calls' = [i \in DOMAIN calls \cup {id} |-> IF i = id THEN 0 ELSE calls[i]]
          /\ loop' = [loop EXCEPT !.at = "run"]
      BY <1>1, <1>4 DEF InsertCall
    <2> HIDE DEF id
    <2>2. /\ DOMAIN calls' = DOMAIN calls \cup {id} /\ calls'[id] = 0
          /\ \A i \in DOMAIN calls : calls'[i] = calls[i]
          /\ calls' \in [DOMAIN calls' -> {0} \cup Outputs]
      BY <1>1, <1>4, <2>1
    <2>3. Told(loop.messages, calls') /\ Told(snapshot.messages, calls')
      BY <1>1, <2>2 DEF Told
    <2>4. /\ loop' \in Loops /\ loop'.at = "run" /\ loop'.messages = loop.messages
          /\ loop'.todo = loop.todo /\ loop'.retry = loop.retry
      BY <1>1, <2>1 DEF Loops, Places
    <2>5. TypeOK'
      BY <1>1, <1>2, <2>2, <2>4 DEF IInv, TypeOK
    <2>6. Head(loop'.todo) \in DOMAIN calls' /\ calls'[Head(loop'.todo)] = 0
      BY <2>2, <2>4 DEF id
    <2> QED
      BY <1>1, <2>3, <2>4, <2>5, <2>6 DEF IInv, ResultsInOrder, RowsInOrder, CorrectionsApart
  <1> QED
    BY <1>3, <1>4

(* The row of the call that is running answers no message yet.             *)
LEMMA ToldResult ==
  ASSUME NEW s \in Seq(Messages), NEW rows, NEW id \in DOMAIN rows, NEW output \in Outputs,
         rows \in [DOMAIN rows -> {0} \cup Outputs], rows[id] = 0, Told(s, rows)
  PROVE  /\ Told(s, [rows EXCEPT ![id] = output])
         /\ Told(Append(s, Result(id, output)), [rows EXCEPT ![id] = output])
  <1> DEFINE r == [rows EXCEPT ![id] = output]
             m == Result(id, output)
  <1>1. /\ DOMAIN r = DOMAIN rows /\ r[id] = output
        /\ \A i \in DOMAIN rows \ {id} : r[i] = rows[i]
    OBVIOUS
  <1>2. id \in DOMAIN r /\ 0 \notin Outputs
    BY <1>1 DEF Outputs
  <1>3. m.answers = id /\ m.output = output
    BY DEF Result, Said
  <1> HIDE DEF r, m
  <1>4. Told(s, r)
    BY <1>1, <1>2 DEF Told
  <1>5. /\ DOMAIN Append(s, m) = DOMAIN s \cup {Len(s) + 1}
        /\ \A i \in DOMAIN s : Append(s, m)[i] = s[i]
        /\ Append(s, m)[Len(s) + 1] = m
    OBVIOUS
  <1>6. Told(Append(s, m), r)
    BY <1>1, <1>2, <1>3, <1>4, <1>5 DEF Told
  <1> QED
    BY <1>4, <1>6 DEF r, m

LEMMA RunHolds == IInv /\ RunCall => IInv'
  <1> SUFFICES ASSUME IInv, RunCall PROVE IInv'
    OBVIOUS
  <1> DEFINE id == Head(loop.todo)
  <1>1. PICK output \in Outputs :
          /\ calls' = [calls EXCEPT ![id] = output]
          /\ LET done == [loop EXCEPT !.messages = Append(@, Result(id, output)), !.todo = Tail(@)] IN
             loop' = IF done.todo = <<>> THEN NextIteration(done) ELSE [done EXCEPT !.at = "insert"]
    BY DEF RunCall
  <1>2. /\ loop.at = "run" /\ request' = request /\ snapshot' = snapshot
        /\ loop \in Loops /\ loop.todo \in Seq(CallIds) /\ loop.todo # <<>>
        /\ loop.messages \in Seq(Messages) /\ Follow(loop.messages) /\ Follow(loop.retry)
        /\ Told(loop.messages, calls) /\ Plain(loop.messages)
        /\ snapshot.messages \in Seq(Messages)
        /\ Told(snapshot.messages, calls) /\ Awaits(loop.messages, loop.todo)
        /\ DOMAIN calls \subseteq CallIds /\ calls \in [DOMAIN calls -> {0} \cup Outputs]
        /\ id \in DOMAIN calls /\ calls[id] = 0
    BY DEF RunCall, IInv, TypeOK, Loops, ResultsInOrder, RowsInOrder, CorrectionsApart
  <1> DEFINE m == Result(id, output)
             s == Append(loop.messages, m)
             rest == Tail(loop.todo)
             done == [loop EXCEPT !.messages = s, !.todo = rest]
  <1>3. loop' = IF done.todo = <<>> THEN NextIteration(done) ELSE [done EXCEPT !.at = "insert"]
    BY <1>1, <1>2 DEF Loops
  <1>4. /\ rest \in Seq(CallIds) /\ Range(rest) \subseteq Range(loop.todo)
        /\ id \in CallIds /\ id \in Range(loop.todo)
    BY <1>2 DEF Range
  <1> HIDE DEF id, rest
  <1>5. m \in Messages /\ m.answers = id /\ m.role = "tool" /\ Proper(m)
    BY <1>4, ResultIsMessage, ProperMessages
  <1>6. Told(s, calls') /\ Told(snapshot.messages, calls')
    BY <1>1, <1>2, ToldResult
  <1> HIDE DEF m
  <1>7. PICK j \in 1 .. Len(loop.messages) :
          /\ Range(loop.todo) \subseteq Range(loop.messages[j].calls)
          /\ \A k \in (j + 1) .. Len(loop.messages) : loop.messages[k].role = "tool"
    BY <1>2 DEF Awaits
  <1>8. s \in Seq(Messages) /\ Follow(s)
    <2>1. Since(loop.messages, j, m.answers, Len(loop.messages))
      BY <1>4, <1>5, <1>7 DEF Since
    <2> QED
      BY <1>2, <1>5, <2>1, FollowAppend
  <1>9. Plain(s)
    BY <1>2, <1>5, PlainAppend
  <1>10. Awaits(s, rest)
    <2>1. /\ Len(s) = Len(loop.messages) + 1 /\ Len(loop.messages) \in Nat
          /\ \A i \in 1 .. Len(loop.messages) : s[i] = loop.messages[i]
          /\ s[Len(loop.messages) + 1] = m
      BY <1>2, <1>5
    <2> HIDE DEF s
    <2>2. j \in 1 .. Len(s) /\ Range(rest) \subseteq Range(s[j].calls)
      BY <1>4, <1>7, <2>1
    <2>3. \A k \in (j + 1) .. Len(s) : s[k].role = "tool"
      BY <1>5, <1>7, <2>1
    <2> QED
      BY <2>2, <2>3 DEF Awaits
  <1> HIDE DEF s
  <1>11. /\ done \in Loops /\ done.messages = s /\ done.todo = rest /\ done.retry = loop.retry
    BY <1>2, <1>4, <1>8 DEF Loops
  <1>12. DOMAIN calls' = DOMAIN calls /\ calls' \in [DOMAIN calls' -> {0} \cup Outputs]
    BY <1>1, <1>2
  <1> HIDE DEF done
  <1>13. CASE rest = <<>>
    <2>1. loop' = NextIteration(done)
      BY <1>3, <1>11, <1>13
    <2> QED
      BY <1>2, <1>6, <1>8, <1>9, <1>11, <1>12, <1>13, <2>1, IterationHolds
  <1>14. CASE rest # <<>>
    <2>1. loop' = [done EXCEPT !.at = "insert"]
      BY <1>3, <1>11, <1>14
    <2>2. /\ loop' \in Loops /\ loop'.at = "insert" /\ loop'.messages = s
          /\ loop'.todo = rest /\ loop'.retry = loop.retry
      BY <1>11, <2>1 DEF Loops, Places
    <2>3. TypeOK'
      BY <1>2, <1>12, <2>2 DEF IInv, TypeOK
    <2> QED
      BY <1>2, <1>6, <1>8, <1>9, <1>10, <1>14, <2>2, <2>3
         DEF IInv, ResultsInOrder, RowsInOrder, CorrectionsApart
  <1> QED
    BY <1>13, <1>14

LEMMA ElsewhereHolds == IInv /\ (Elsewhere \/ Clear) => IInv'
  <1> SUFFICES ASSUME IInv, Elsewhere \/ Clear PROVE IInv'
    OBVIOUS
  <1>1. /\ snapshot.messages \in Seq(Messages) /\ Follow(snapshot.messages)
        /\ Told(snapshot.messages, calls) /\ Plain(snapshot.messages)
    BY DEF IInv, TypeOK, ResultsInOrder, RowsInOrder, CorrectionsApart
  <1>2. loop' = loop /\ calls' = calls /\ request' = request
    BY DEF Elsewhere, Clear
  <1>3. CASE Elsewhere
    <2> DEFINE s == Append(snapshot.messages, Said("user", "says"))
    <2>1. s \in Seq(Messages) /\ Follow(s) /\ Told(s, calls) /\ Plain(s)
      BY <1>1, Question
    <2>2. snapshot' = [messages |-> s, version |-> Clock]
      BY <1>3 DEF Elsewhere
    <2> HIDE DEF s
    <2>3. snapshot' \in [messages: Seq(Messages), version: Nat] /\ snapshot'.messages = s
      BY <2>1, <2>2, ClockIsTime
    <2> QED
      BY <1>2, <2>1, <2>3, SessionHolds
  <1>4. CASE Clear
    <2>1. snapshot' = [messages |-> <<>>, version |-> 0]
      BY <1>4 DEF Clear
    <2>2. snapshot' \in [messages: Seq(Messages), version: Nat] /\ snapshot'.messages = <<>>
      BY <2>1
    <2> QED
      BY <1>2, <2>2, FollowEmpty, SessionHolds
  <1> QED
    BY <1>3, <1>4

LEMMA StepHolds == IInv /\ [LoopNext]_loopVars => IInv'
  <1> SUFFICES ASSUME IInv, [LoopNext]_loopVars PROVE IInv'
    OBVIOUS
  <1>1. CASE Abandon
    BY <1>1, OverHolds DEF Abandon, Over
  <1>2. CASE UNCHANGED loopVars
    BY <1>2 DEF loopVars, IInv, TypeOK, ResultsInOrder, RowsInOrder, CorrectionsApart
  <1> QED
    BY <1>1, <1>2, AskHolds, SendHolds, ReplyHolds, PersistHolds, ReloadHolds,
       InsertHolds, RunHolds, ElsewhereHolds DEF LoopNext
-----------------------------------------------------------------------------
(* The theorems.                                                           *)

THEOREM Invariance == LoopSpec => []IInv
  BY InitHolds, StepHolds, PTL DEF LoopSpec

(* Whatever another turn or /new does to the session, and however often    *)
(* the turn has to store its message again: a tool result is never sent to *)
(* the model apart from the message that made its call (persist_phase,     *)
(* execute_and_persist_tools).                                             *)
THEOREM ResultsKeepTheirPlace == LoopSpec => []ResultsFollowTheirCall
  <1>1. IInv => ResultsFollowTheirCall
    BY DEF IInv, ResultsInOrder, Follow, Since, ResultsFollowTheirCall
  <1> QED
    BY <1>1, Invariance, PTL

(* Whichever ids the model makes up or uses again: a result in the turn or *)
(* in the session is what the call's row in tool_calls says                *)
(* (store_pending_tool_call, update_tool_call_output).                     *)
THEOREM RowsKeepTheResult == LoopSpec => []RowsTellTheResult
  <1>1. IInv => RowsTellTheResult
    BY DEF IInv, RowsInOrder, Told, RowsTellTheResult, Range
  <1> QED
    BY <1>1, Invariance, PTL

(* The reply that was rejected and the guard's text reach neither the      *)
(* session nor a later request (runtime_guard_messages).                   *)
THEOREM CorrectionsPass == LoopSpec => []CorrectionsAreForgotten
  <1>1. IInv => CorrectionsAreForgotten
    BY DEF IInv, CorrectionsApart, Plain, Proper, CorrectionsAreForgotten, Range
  <1> QED
    BY <1>1, Invariance, PTL

(* What the run checks of a turn, in one: the three above.                 *)
THEOREM TurnsKeepTheirResults == LoopSpec => []TurnKeepsItsResults
  <1>1. ResultsFollowTheirCall /\ RowsTellTheResult /\ CorrectionsAreForgotten => TurnKeepsItsResults
    BY DEF TurnKeepsItsResults
  <1> QED
    BY <1>1, ResultsKeepTheirPlace, RowsKeepTheResult, CorrectionsPass, PTL
-------------------------------------------------------------------------------
(* Tools.                                                                  *)

(* Sums of lines are numbers: what the recursive function is, step by step. *)
LEMMA SumIsNumber ==
  ASSUME NEW s \in Seq(Nat)
  PROVE  Sum(s) \in Nat
  <1> DEFINE N == Len(s)
             Steps(g, n) == \A k \in 0 .. n : g[k] = IF k = 0 THEN 0 ELSE g[k - 1] + s[k]
             Missing == {n \in 0 .. N : ~ \E g \in [0 .. n -> Nat] : Steps(g, n)}
  <1>1. N \in Nat /\ \A k \in 1 .. N : s[k] \in Nat
    OBVIOUS
  <1>2. Missing = {}
    <2> SUFFICES ASSUME Missing # {} PROVE FALSE
      OBVIOUS
    <2>1. Missing \subseteq Nat
      BY <1>1
    <2>2. PICK n \in Missing : \A m \in Missing : n <= m
      BY <2>1, LeastMember
    <2>3. n # 0
      <3>1. [k \in 0 .. 0 |-> 0] \in [0 .. 0 -> Nat] /\ Steps([k \in 0 .. 0 |-> 0], 0)
        OBVIOUS
      <3> QED BY <3>1
    <2>4. n \in 1 .. N /\ n - 1 \in 0 .. N /\ n - 1 \notin Missing
      <3>1. n \in 0 .. N
        OBVIOUS
      <3>2. n \in 1 .. N /\ n - 1 \in 0 .. N /\ n - 1 \in Nat /\ ~ (n <= n - 1)
        BY <3>1, <2>3, <1>1
      <3> HIDE DEF Missing
      <3> QED BY <3>2, <2>2
    <2>5. PICK g \in [0 .. (n - 1) -> Nat] : Steps(g, n - 1)
      BY <2>4
    <2> DEFINE h == [k \in 0 .. n |-> IF k = n THEN g[n - 1] + s[n] ELSE g[k]]
    <2>6. h \in [0 .. n -> Nat]
      <3>1. g[n - 1] \in Nat /\ s[n] \in Nat
        BY <2>4, <1>1
      <3>2. g[n - 1] + s[n] \in Nat
        BY <3>1
      <3>3. \A k \in 0 .. n : k # n => k \in 0 .. (n - 1)
        BY <2>4, <1>1
      <3> QED BY <3>2, <3>3
    <2>7. Steps(h, n)
      <3> SUFFICES ASSUME NEW k \in 0 .. n
                   PROVE  h[k] = IF k = 0 THEN 0 ELSE h[k - 1] + s[k]
        OBVIOUS
      <3>1. CASE k = n
        BY <3>1, <2>4, <1>1
      <3>2. CASE k # n
        BY <3>2, <2>4, <2>5, <1>1
      <3> QED BY <3>1, <3>2
    <2> QED BY <2>2, <2>6, <2>7
  <1> DEFINE upto == CHOOSE g : g = [k \in 0 .. N |-> IF k = 0 THEN 0 ELSE g[k - 1] + s[k]]
  <1>3. PICK g \in [0 .. N -> Nat] : Steps(g, N)
    <2>1. N \in 0 .. N
      BY <1>1
    <2> QED BY <2>1, <1>2, Zenon
  <1>4. g = [k \in 0 .. N |-> IF k = 0 THEN 0 ELSE g[k - 1] + s[k]]
    BY <1>3
  <1>5. upto = [k \in 0 .. N |-> IF k = 0 THEN 0 ELSE upto[k - 1] + s[k]]
    BY <1>4, Zenon
  <1>6. Sum(s) = upto[N]
    BY DEF Sum
  <1> HIDE DEF upto
  <1> DEFINE Odd == {k \in 0 .. N : upto[k] \notin Nat}
  <1>7. Odd = {}
    <2> SUFFICES ASSUME Odd # {} PROVE FALSE
      OBVIOUS
    <2>1. Odd \subseteq Nat
      BY <1>1
    <2>2. PICK k \in Odd : \A m \in Odd : k <= m
      BY <2>1, LeastMember
    <2>3. k # 0
      <3>1. 0 \in 0 .. N
        BY <1>1
      <3>2. upto[0] = 0
        BY <3>1, <1>5
      <3> QED BY <3>2
    <2>4. k \in 1 .. N /\ k - 1 \in 0 .. N /\ k - 1 \notin Odd
      BY <2>2, <2>3, <1>1
    <2>5. upto[k] = upto[k - 1] + s[k]
      BY <2>3, <1>5
    <2> QED BY <2>4, <2>5, <1>1
  <1> QED BY <1>6, <1>7, <1>1
-------------------------------------------------------------------------------
(* The guards.                                                             *)

LEMMA LowerTwice ==
  /\ \A name : IsBlockedFilename(name) => IsBlockedFilename(Lower(name))
  /\ \A name : name \in BlockedDirs => Lower(name) = name
  /\ \A name : IsProcess(name) => Lower(name) = name
  /\ \A name \in {"proc", ".config", "gcloud", "etc", "shadow"} : Lower(name) = name
  BY DEF Lower, BlockedDirs, IsBlockedFilename, IsProcess

LEMMA TwoOf ==
  ASSUME NEW S, NEW s \in Seq(S), NEW i \in 1 .. (Len(s) - 1)
  PROVE  SubSeq(s, i, i + 1) = <<s[i], s[i + 1]>>
  <1>1. i \in 1 .. Len(s) /\ i + 1 \in 1 .. Len(s) /\ i \in Nat /\ Len(s) \in Nat
    OBVIOUS
  <1>2. Len(SubSeq(s, i, i + 1)) = 2
    BY <1>1
  <1>3. SubSeq(s, i, i + 1) \in Seq(S)
    BY <1>1
  <1>4. SubSeq(s, i, i + 1)[1] = s[i] /\ SubSeq(s, i, i + 1)[2] = s[i + 1]
    BY <1>1
  <1>5. <<s[i], s[i + 1]>> \in Seq(S)
    BY <1>1
  <1>6. \A j \in 1 .. 2 : SubSeq(s, i, i + 1)[j] = <<s[i], s[i + 1]>>[j]
    <2> DEFINE x == SubSeq(s, i, i + 1)
               y == <<s[i], s[i + 1]>>
    <2>1. y[1] = s[i] /\ y[2] = s[i + 1]
      OBVIOUS
    <2>2. x[1] = y[1] /\ x[2] = y[2]
      BY <2>1, <1>4
    <2> HIDE DEF x, y
    <2>3. \A j \in 1 .. 2 : j = 1 \/ j = 2
      OBVIOUS
    <2> QED BY <2>2, <2>3
  <1> QED BY <1>2, <1>3, <1>5, <1>6, SeqEqual

(* What the file tools refuse, a command that names it is refused for.     *)
LEMMA RefusedByBoth ==
  ASSUME NEW path \in [abs: BOOLEAN, parts: Seq(STRING)],
         Normalized(path.parts) = path.parts, ~CheckPath(path)
  PROVE  ~CheckCommandPaths(<<Word("cat"), path>>)
  <1> DEFINE parts == path.parts
             words == <<Word("cat"), path>>
             low == [i \in DOMAIN words[2].parts |-> Lower(words[2].parts[i])]
  <1>1. words[2] = path /\ 2 \in DOMAIN words
    OBVIOUS
  <1>2. low = [i \in DOMAIN parts |-> Lower(parts[i])] /\ words[2].abs = path.abs
    BY <1>1
  <1>3. parts \in Seq(STRING) /\ Len(parts) \in Nat /\ DOMAIN parts = 1 .. Len(parts)
    OBVIOUS
  <1>4. DOMAIN low = 1 .. Len(parts) /\ low \in Seq({Lower(parts[i]) : i \in DOMAIN parts}) /\ Len(low) = Len(parts)
    BY <1>2, <1>3
  <1> HIDE DEF low
  <1> SUFFICES
        \/ \E blocked \in BlockedAbsolute : path.abs /\ IsPrefix(blocked, low)
        \/ \E i \in 2 .. Len(low) : low[i - 1] = "proc" /\ IsProcess(low[i]) /\ (path.abs \/ i > 2)
        \/ \E i \in DOMAIN low : IsBlockedFilename(low[i])
        \/ \E i \in DOMAIN low : low[i] \in BlockedDirs
        \/ \E sub \in BlockedSubpaths : Within(sub, low)
    BY <1>1, <1>2 DEF CheckCommandPaths, low
  <1>5. \/ path.abs /\ parts \in BlockedAbsolute
        \/ path.abs /\ Len(parts) > 1 /\ parts[1] = "proc" /\ IsProcess(parts[2])
        \/ \E i \in DOMAIN parts : parts[i] \in BlockedDirs \/ IsBlockedFilename(parts[i])
        \/ \E sub \in BlockedSubpaths : Within(sub, parts)
    BY Zenon DEF CheckPath
  <1>6. CASE path.abs /\ parts \in BlockedAbsolute
    <2>1. parts = <<"etc", "shadow">>
      BY <1>6 DEF BlockedAbsolute
    <2>2. low = <<"etc", "shadow">>
      <3>1. Len(parts) = 2 /\ parts[1] = "etc" /\ parts[2] = "shadow"
        BY <2>1
      <3>2. low[1] = "etc" /\ low[2] = "shadow" /\ Len(low) = 2
        BY <3>1, <1>2, <1>3, <1>4, LowerTwice
      <3> QED BY <3>2, <1>4
    <2>3. IsPrefix(<<"etc", "shadow">>, low)
      BY <2>2 DEF IsPrefix
    <2> QED BY <2>3, <1>6 DEF BlockedAbsolute
  <1>7. CASE path.abs /\ Len(parts) > 1 /\ parts[1] = "proc" /\ IsProcess(parts[2])
    <2>1. low[1] = "proc" /\ low[2] = parts[2]
      BY <1>7, <1>2, <1>3, LowerTwice
    <2> QED BY <2>1, <1>7, <1>4
  <1>8. CASE \E i \in DOMAIN parts : parts[i] \in BlockedDirs \/ IsBlockedFilename(parts[i])
    <2>1. PICK i \in DOMAIN parts : parts[i] \in BlockedDirs \/ IsBlockedFilename(parts[i])
      BY <1>8
    <2>2. i \in DOMAIN low /\ low[i] = Lower(parts[i])
      BY <1>2, <1>3, <1>4
    <2> QED BY <2>1, <2>2, LowerTwice
  <1>9. CASE \E sub \in BlockedSubpaths : Within(sub, parts)
    <2>1. Within(<<".config", "gcloud">>, parts)
      BY <1>9 DEF BlockedSubpaths
    <2>2. PICK i \in 1 .. (Len(parts) - 2 + 1) : SubSeq(parts, i, i + 2 - 1) = <<".config", "gcloud">>
      BY <2>1 DEF Within
    <2>3. parts[i] = ".config" /\ parts[i + 1] = "gcloud" /\ i \in 1 .. Len(parts) /\ i + 1 \in 1 .. Len(parts)
      <3>1. i \in 1 .. (Len(parts) - 1) /\ i + 2 - 1 = i + 1
        BY <1>3
      <3>2. <<parts[i], parts[i + 1]>> = <<".config", "gcloud">>
        BY <3>1, <2>2, <1>3, TwoOf
      <3> QED BY <3>1, <3>2, <1>3
    <2>4. low[i] = ".config" /\ low[i + 1] = "gcloud"
      BY <2>3, <1>2, <1>3, LowerTwice
    <2>5. SubSeq(low, i, i + 2 - 1) = <<".config", "gcloud">>
      <3>1. i \in 1 .. (Len(low) - 1) /\ i + 2 - 1 = i + 1
        BY <1>3, <1>4
      <3> QED BY <3>1, <2>4, <1>4, TwoOf
    <2>6. Within(<<".config", "gcloud">>, low)
      BY <2>5, <2>2, <1>4 DEF Within
    <2> QED BY <2>6 DEF BlockedSubpaths
  <1> QED BY <1>5, <1>6, <1>7, <1>8, <1>9

LEMMA GuardsHold == GuardsAgree
  BY ToolConstants, RefusedByBoth DEF GuardsAgree
-------------------------------------------------------------------------------
(* The calls.                                                              *)

Notices == {"limit", "bytes", "lines"}
ResultSet ==
  [is: {"none", "error", "success"}, total: Nat, shown: Nat, told: BOOLEAN,
   notices: SUBSET Notices, hidden: BOOLEAN, unread: BOOLEAN]
ToolCall ==
  [tool: {"none", "bash", "grep", "find", "ls"}, at: {"new", "begun", "running", "returned", "dropped"},
   exit: {"none", "success", "failure", "killed"}, result: ResultSet]
Reader == [taken: Nat, open: BOOLEAN]

ToolTypes ==
  /\ call \in [Calls -> ToolCall]
  /\ group \in [Calls -> SUBSET {"child", "background"}]
  /\ printed \in [Calls -> Seq(Sizes)]
  /\ reading \in [Calls -> Reader]
  /\ temp \subseteq Calls

(* The file of a command is there until its result does without it.        *)
FileKept(c) ==
  call[c].tool = "bash" =>
    /\ call[c].at = "running" => c \in temp
    /\ call[c].at = "returned" =>
         LET toolResult == call[c].result IN
         \/ toolResult = Error
         \/ toolResult.told /\ c \in temp /\ toolResult.total <= Len(printed[c])
         \/ ~toolResult.told /\ c \notin temp /\ toolResult.shown = toolResult.total

(* Nothing of a killed group comes back.                                   *)
KilledIsGone(c) == call[c].exit = "killed" => call[c].at = "returned" /\ group[c] = {}

(* Who stopped reading has stopped rg, with more than the answer holds.    *)
ReadEnough(c) ==
  /\ reading[c].taken <= Len(printed[c])
  /\ call[c].tool = "grep" /\ call[c].at = "running" /\ ~reading[c].open =>
       group[c] = {} /\ Enough(c, reading[c].taken)

NewIsEmpty(c) ==
  call[c].at \in {"new", "begun"} => call[c].result = NoResult /\ (call[c].at = "new" => call[c].tool = "none")

CutIsTold(c) ==
  LET toolResult == call[c].result IN
  call[c].tool \in {"grep", "find", "ls"} /\ toolResult.shown < toolResult.total =>
    CutIsKnown(toolResult)

CallInv(c) == FileKept(c) /\ KilledIsGone(c) /\ ReadEnough(c) /\ NewIsEmpty(c) /\ CutIsTold(c)
ToolInv == ToolTypes /\ \A c \in Calls : CallInv(c)

LEMMA NumbersAre ==
  TailLines \in Nat /\ TailBytes \in Nat /\ LineLimit \in Nat /\ Slack \in Nat /\ Limit \in Nat
    /\ MaxPrinted \in Nat /\ Sizes \subseteq Nat
  BY ToolConstants

LEMMA ErrorIsResult ==
  /\ NoResult \in ResultSet /\ Error \in ResultSet /\ ~Error.told /\ Error.shown = Error.total
  /\ NoResult.shown = NoResult.total
  BY DEF NoResult, Error, ResultSet

(* Without a notice a listing shows all that was found, and it fits.       *)
LEMMA ListingTells ==
  ASSUME NEW S, NEW sizes \in Seq(S), NEW total \in Nat
  PROVE  /\ Listing(sizes, total) \in ResultSet
         /\ Listing(sizes, total).total = total
         /\ Listing(sizes, total).notices \subseteq {"limit", "bytes"}
         /\ Listing(sizes, total).notices = {} =>
              /\ Len(sizes) <= Limit /\ Listing(sizes, total).shown = Len(sizes)
              /\ Total(sizes) <= TailBytes
  <1> DEFINE most == Min({Len(sizes), Limit})
             limited == SubSeq(sizes, 1, most)
             K == {k \in 0 .. Len(limited) : Total(SubSeq(limited, 1, k)) <= TailBytes}
             fits == Max(K)
  <1>1. Len(sizes) \in Nat /\ most \in Nat /\ most <= Len(sizes) /\ (Len(sizes) <= Limit => most = Len(sizes))
    BY MinOfTwo, NumbersAre
  <1> HIDE DEF most
  <1>2. limited \in Seq(S) /\ Len(limited) = most
    BY <1>1
  <1>3. Len(sizes) <= Limit => limited = sizes
    BY <1>1
  <1> HIDE DEF limited
  <1>4. 0 \in K
    <2>1. SubSeq(limited, 1, 0) = <<>>
      BY <1>2
    <2>2. Total(SubSeq(limited, 1, 0)) = 0
      BY <2>1 DEF Total
    <2> QED BY <2>2, <1>1, <1>2, NumbersAre
  <1>5. fits \in K
    <2>1. K \subseteq 0 .. most /\ K # {}
      BY <1>4, <1>2
    <2> HIDE DEF K
    <2> QED BY <2>1, <1>1, MaxOfUpTo
  <1> HIDE DEF fits
  <1>6. fits \in Nat /\ fits <= Len(limited) /\ Total(SubSeq(limited, 1, fits)) <= TailBytes
    BY <1>5, <1>1, <1>2
  <1> DEFINE told == (IF Len(sizes) > Limit THEN {"limit"} ELSE {})
                       \cup (IF fits < Len(limited) THEN {"bytes"} ELSE {})
  <1>7. Listing(sizes, total) =
          [NoResult EXCEPT !.is = "success", !.total = total, !.shown = fits, !.notices = told]
    BY DEF Listing, limited, most, fits
  <1>8. told \subseteq {"limit", "bytes"} /\ told \subseteq Notices
    BY DEF Notices
  <1>9. told = {} => Len(sizes) <= Limit /\ fits = Len(sizes) /\ Total(sizes) <= TailBytes
    <2> SUFFICES ASSUME told = {} PROVE Len(sizes) <= Limit /\ fits = Len(sizes) /\ Total(sizes) <= TailBytes
      OBVIOUS
    <2>1. ~ (Len(sizes) > Limit) /\ ~ (fits < Len(limited))
      OBVIOUS
    <2>2. Len(sizes) <= Limit /\ fits = Len(limited)
      BY <2>1, <1>1, <1>2, <1>6, NumbersAre
    <2>3. limited = sizes /\ fits = Len(sizes)
      BY <2>2, <1>3
    <2>4. SubSeq(sizes, 1, Len(sizes)) = sizes
      BY <1>1
    <2> QED BY <2>2, <2>3, <2>4, <1>6
  <1> HIDE DEF told
  <1>10. /\ Listing(sizes, total) \in ResultSet /\ Listing(sizes, total).total = total
         /\ Listing(sizes, total).shown = fits /\ Listing(sizes, total).notices = told
    BY <1>6, <1>7, <1>8 DEF ResultSet, NoResult
  <1> QED BY <1>8, <1>9, <1>10

LEMMA TailIsNumber ==
  ASSUME NEW S, NEW sizes \in Seq(S)
  PROVE  TailKept(sizes) \in Nat
  <1> DEFINE most == Min({Len(sizes), TailLines})
             K == {k \in 0 .. most : Total(LastLines(sizes, k)) <= TailBytes}
  <1>1. most \in Nat /\ Len(sizes) \in Nat
    BY MinOfTwo, NumbersAre
  <1> HIDE DEF most
  <1>2. 0 \in K
    <2>1. LastLines(sizes, 0) = <<>>
      BY <1>1 DEF LastLines
    <2>2. Total(LastLines(sizes, 0)) = 0
      BY <2>1 DEF Total
    <2> QED BY <2>2, <1>1, NumbersAre
  <1>3. K \subseteq 0 .. most /\ K # {}
    BY <1>2
  <1>4. TailKept(sizes) = Max(K)
    BY DEF TailKept, most
  <1> HIDE DEF K
  <1>5. Max(K) \in 0 .. most
    BY <1>1, <1>3, MaxOfUpTo
  <1> QED BY <1>1, <1>4, <1>5

(* What bash answers shows all, or says what it left out.                  *)
LEMMA BashSays ==
  ASSUME ToolTypes, NEW c \in Calls, NEW is \in {"success", "error"}
  PROVE  /\ BashResult(c, is) \in ResultSet
         /\ BashResult(c, is).total = Len(printed[c]) /\ BashResult(c, is).told = Truncated(printed[c])
         /\ ~Truncated(printed[c]) => BashResult(c, is).shown = BashResult(c, is).total
  <1>1. printed[c] \in Seq(Sizes) /\ Len(printed[c]) \in Nat
    BY DEF ToolTypes
  <1>2. TailKept(printed[c]) \in Nat
    BY <1>1, TailIsNumber
  <1>3. Truncated(printed[c]) \in BOOLEAN
    BY DEF Truncated
  <1> QED BY <1>1, <1>2, <1>3 DEF BashResult, NoResult, ResultSet, Notices

(* A step of one call leaves the others as they are.                       *)
Others(c) ==
  \A d \in Calls \ {c} :
    /\ call'[d] = call[d] /\ group'[d] = group[d] /\ printed'[d] = printed[d] /\ reading'[d] = reading[d]
    /\ d \in temp' <=> d \in temp

LEMMA OthersKeep ==
  ASSUME ToolInv, NEW c \in Calls, ToolTypes', Others(c), CallInv(c)'
  PROVE  ToolInv'
  <1>1. SUFFICES ASSUME NEW d \in Calls PROVE CallInv(d)'
    BY DEF ToolInv
  <1>2. CASE d = c
    BY <1>2
  <1>3. CASE d # c
    <2>1. call'[d] = call[d] /\ group'[d] = group[d] /\ printed'[d] = printed[d] /\ reading'[d] = reading[d]
            /\ (d \in temp' <=> d \in temp)
      BY <1>3 DEF Others
    <2>2. CallInv(d)
      BY DEF ToolInv
    <2> QED BY <2>1, <2>2 DEF CallInv, FileKept, KilledIsGone, ReadEnough, NewIsEmpty, CutIsTold, Enough
  <1> QED BY <1>2, <1>3

LEMMA ToolsBegin == ToolInit => ToolInv
  <1> SUFFICES ASSUME ToolInit PROVE ToolInv
    OBVIOUS
  <1>1. ToolTypes
    <2>1. \A c \in Calls : call[c] \in ToolCall
      BY ErrorIsResult DEF ToolInit, ToolCall
    <2>2. call \in [Calls -> ToolCall]
      BY <2>1 DEF ToolInit
    <2>3. 0 \in Nat /\ [taken |-> 0, open |-> FALSE] \in Reader
      BY DEF Reader
    <2> QED BY <2>2, <2>3 DEF ToolInit, ToolTypes
  <1>2. ASSUME NEW c \in Calls PROVE CallInv(c)
    <2>1. /\ call[c] = [tool |-> "none", at |-> "new", exit |-> "none", result |-> NoResult]
          /\ reading[c].taken = 0 /\ Len(printed[c]) = 0
      BY DEF ToolInit
    <2> QED BY <2>1 DEF CallInv, FileKept, KilledIsGone, ReadEnough, NewIsEmpty, CutIsTold
  <1> QED BY <1>1, <1>2 DEF ToolInv

(* What is true of a call before its step.                                 *)
LEMMA OfCall ==
  ASSUME ToolInv, NEW c \in Calls
  PROVE  /\ call[c] \in ToolCall /\ group[c] \subseteq {"child", "background"}
         /\ printed[c] \in Seq(Sizes) /\ Len(printed[c]) \in Nat /\ printed[c] \in Seq(Nat)
         /\ reading[c] \in Reader /\ reading[c].taken \in Nat /\ reading[c].open \in BOOLEAN
         /\ FileKept(c) /\ KilledIsGone(c) /\ ReadEnough(c) /\ NewIsEmpty(c) /\ CutIsTold(c)
  <1>1. printed[c] \in Seq(Sizes) /\ Len(printed[c]) \in Nat
    BY DEF ToolInv, ToolTypes
  <1>2. printed[c] \in Seq(Nat)
    BY <1>1, NumbersAre, SeqMonotonic
  <1> QED BY <1>1, <1>2 DEF ToolInv, ToolTypes, CallInv, Reader

LEMMA ReturnedIs ==
  ASSUME ToolInv, NEW c \in Calls, NEW r \in ResultSet, Returned(c, r)
  PROVE  /\ call' \in [Calls -> ToolCall]
         /\ call'[c].at = "returned" /\ call'[c].result = r
         /\ call'[c].tool = call[c].tool /\ call'[c].exit = call[c].exit
         /\ \A d \in Calls \ {c} : call'[d] = call[d]
  <1>1. call \in [Calls -> ToolCall] /\ call[c] \in ToolCall
    BY DEF ToolInv, ToolTypes
  <1>2. call' = [call EXCEPT ![c] = [@ EXCEPT !.at = "returned", !.result = r]]
    BY DEF Returned
  <1>3. [call[c] EXCEPT !.at = "returned", !.result = r] \in ToolCall
    BY <1>1 DEF ToolCall
  <1> QED BY <1>1, <1>2, <1>3 DEF ToolCall

LEMMA BeginKeeps ==
  ASSUME ToolInv, NEW c \in Calls, NEW tool \in {"bash", "grep", "find", "ls"}, Begin(c, tool)
  PROVE  ToolInv'
  <1>1. call \in [Calls -> ToolCall] /\ call[c] \in ToolCall
    BY DEF ToolInv, ToolTypes
  <1>2. [call[c] EXCEPT !.tool = tool, !.at = "begun"] \in ToolCall
    BY <1>1 DEF ToolCall
  <1>3. call' = [call EXCEPT ![c] = [@ EXCEPT !.tool = tool, !.at = "begun"]]
    BY DEF Begin
  <1>4. call' \in [Calls -> ToolCall] /\ call'[c] = [call[c] EXCEPT !.tool = tool, !.at = "begun"]
    BY <1>1, <1>2, <1>3
  <1>5. ToolTypes' /\ Others(c)
    BY <1>1, <1>3, <1>4 DEF Begin, ToolInv, ToolTypes, Others
  <1>6. CallInv(c)'
    BY <1>1, <1>4, OfCall, ErrorIsResult DEF Begin, CallInv, FileKept, KilledIsGone, ReadEnough, NewIsEmpty, CutIsTold,
      Enough, ToolCall, NoResult
  <1> QED BY <1>5, <1>6, OthersKeep

(* An error is a result whatever else is so.                               *)
LEMMA ErrorKeeps ==
  ASSUME ToolInv, NEW c \in Calls, call[c].at # "returned", Returned(c, Error),
         UNCHANGED <<group, printed, reading>>, temp' = temp
  PROVE  ToolInv'
  <1>1. call' \in [Calls -> ToolCall] /\ call'[c].at = "returned" /\ call'[c].result = Error
          /\ call'[c].tool = call[c].tool /\ call'[c].exit = call[c].exit
          /\ \A d \in Calls \ {c} : call'[d] = call[d]
    BY ReturnedIs, ErrorIsResult
  <1>2. ToolTypes' /\ Others(c)
    BY <1>1 DEF ToolInv, ToolTypes, Others
  <1>3. CallInv(c)'
    BY <1>1, OfCall, ErrorIsResult DEF CallInv, FileKept, KilledIsGone, ReadEnough, NewIsEmpty, CutIsTold, Error, NoResult
  <1> QED BY <1>2, <1>3, OthersKeep

LEMMA SpawnBashKeeps ==
  ASSUME ToolInv, NEW c \in Calls, SpawnBash(c)
  PROVE  ToolInv'
  <1>1. CASE Returned(c, Error) /\ UNCHANGED <<group, temp>>
    BY <1>1, ErrorKeeps DEF SpawnBash
  <1>2. CASE /\ call' = [call EXCEPT ![c].at = "running"]
             /\ group' = [group EXCEPT ![c] = {"child"}]
             /\ temp' = temp \cup {c}
    <2>1. call \in [Calls -> ToolCall] /\ call[c] \in ToolCall
      BY DEF ToolInv, ToolTypes
    <2>2. [call[c] EXCEPT !.at = "running"] \in ToolCall
      BY <2>1 DEF ToolCall
    <2>3. call' \in [Calls -> ToolCall] /\ call'[c] = [call[c] EXCEPT !.at = "running"]
      BY <2>1, <2>2, <1>2
    <2>4. ToolTypes' /\ Others(c)
      BY <2>1, <2>3, <1>2 DEF SpawnBash, ToolInv, ToolTypes, Others
    <2>5. CallInv(c)'
      BY <2>1, <2>3, <1>2, OfCall DEF SpawnBash, CallInv, FileKept, KilledIsGone, ReadEnough, NewIsEmpty, CutIsTold,
        ToolCall
    <2> QED BY <2>4, <2>5, OthersKeep
  <1> QED BY <1>1, <1>2 DEF SpawnBash

LEMMA SpawnSearchKeeps ==
  ASSUME ToolInv, NEW c \in Calls, SpawnSearch(c)
  PROVE  ToolInv'
  <1>1. CASE Returned(c, Error) /\ UNCHANGED <<group, reading>>
    BY <1>1, ErrorKeeps DEF SpawnSearch
  <1>2. CASE /\ call' = [call EXCEPT ![c].at = "running"]
             /\ group' = [group EXCEPT ![c] = {"child"}]
             /\ reading' = [reading EXCEPT ![c].open = TRUE]
    <2>1. call \in [Calls -> ToolCall] /\ call[c] \in ToolCall /\ reading \in [Calls -> Reader] /\ reading[c] \in Reader
      BY DEF ToolInv, ToolTypes
    <2>2. [call[c] EXCEPT !.at = "running"] \in ToolCall /\ [reading[c] EXCEPT !.open = TRUE] \in Reader
      BY <2>1 DEF ToolCall, Reader
    <2>3. /\ call' \in [Calls -> ToolCall] /\ call'[c] = [call[c] EXCEPT !.at = "running"]
          /\ reading' \in [Calls -> Reader] /\ reading'[c] = [reading[c] EXCEPT !.open = TRUE]
      BY <2>1, <2>2, <1>2
    <2>4. ToolTypes' /\ Others(c)
      BY <2>1, <2>3, <1>2 DEF SpawnSearch, ToolInv, ToolTypes, Others
    <2>5. CallInv(c)'
      BY <2>1, <2>3, <1>2, OfCall, ErrorIsResult DEF SpawnSearch, CallInv, FileKept, KilledIsGone, ReadEnough, NewIsEmpty, CutIsTold,
        ToolCall, Reader, NoResult
    <2> QED BY <2>4, <2>5, OthersKeep
  <1> QED BY <1>1, <1>2 DEF SpawnSearch

LEMMA EmitKeeps ==
  ASSUME ToolInv, NEW c \in Calls, Emit(c)
  PROVE  ToolInv'
  <1>1. PICK size \in Sizes : printed' = [printed EXCEPT ![c] = Append(@, size)]
    BY DEF Emit
  <1>2. printed \in [Calls -> Seq(Sizes)] /\ Append(printed[c], size) \in Seq(Sizes)
          /\ Len(Append(printed[c], size)) = Len(printed[c]) + 1 /\ Len(printed[c]) \in Nat
    BY DEF ToolInv, ToolTypes
  <1>3. printed' \in [Calls -> Seq(Sizes)] /\ printed'[c] = Append(printed[c], size)
          /\ \A d \in Calls \ {c} : printed'[d] = printed[d]
    BY <1>1, <1>2
  <1>4. Len(printed'[c]) = Len(printed[c]) + 1
    BY <1>2, <1>3
  <1>5. ToolTypes' /\ Others(c)
    BY <1>3 DEF Emit, ToolInv, ToolTypes, Others
  <1>6. CallInv(c)'
    <2>1. (FileKept(c) /\ KilledIsGone(c) /\ NewIsEmpty(c) /\ CutIsTold(c))'
      <3>1. call[c].result = Error \/ call[c].result.total \in Nat
        BY OfCall DEF ToolCall, ResultSet
      <3> QED BY <3>1, <1>2, <1>4, OfCall DEF Emit, FileKept, KilledIsGone, NewIsEmpty, CutIsTold
    <2>2. ReadEnough(c)'
      BY <1>2, <1>4, OfCall DEF Emit, ReadEnough
    <2> QED BY <2>1, <2>2 DEF CallInv
  <1> QED BY <1>5, <1>6, OthersKeep

LEMMA BackgroundKeeps ==
  ASSUME ToolInv, NEW c \in Calls, Background(c)
  PROVE  ToolInv'
  <1>1. group \in [Calls -> SUBSET {"child", "background"}]
    BY DEF ToolInv, ToolTypes
  <1>2. ToolTypes' /\ Others(c) /\ group'[c] = group[c] \cup {"background"}
    BY <1>1 DEF Background, ToolInv, ToolTypes, Others
  <1>3. CallInv(c)'
    BY <1>2, OfCall DEF Background, CallInv, FileKept, KilledIsGone, ReadEnough, NewIsEmpty, CutIsTold
  <1> QED BY <1>2, <1>3, OthersKeep

LEMMA ProcessKeeps ==
  ASSUME ToolInv, NEW c \in Calls, ProcessExits(c)
  PROVE  ToolInv'
  <1>1. call \in [Calls -> ToolCall] /\ call[c] \in ToolCall /\ group \in [Calls -> SUBSET {"child", "background"}]
    BY DEF ToolInv, ToolTypes
  <1>2. CASE /\ "child" \in group[c]
             /\ \E code \in {"success", "failure"} : call' = [call EXCEPT ![c].exit = code]
             /\ group' = [group EXCEPT ![c] = @ \ {"child"}]
    <2>1. PICK code \in {"success", "failure"} : call' = [call EXCEPT ![c].exit = code]
      BY <1>2
    <2>2. [call[c] EXCEPT !.exit = code] \in ToolCall
      BY <1>1 DEF ToolCall
    <2>3. call' \in [Calls -> ToolCall] /\ call'[c] = [call[c] EXCEPT !.exit = code]
      BY <1>1, <2>1, <2>2
    <2>4. ToolTypes' /\ Others(c) /\ group'[c] = group[c] \ {"child"}
      BY <1>1, <1>2, <2>1, <2>3 DEF ProcessExits, ToolInv, ToolTypes, Others
    <2>5. CallInv(c)'
      BY <1>1, <1>2, <2>3, <2>4, OfCall DEF ProcessExits, CallInv, FileKept, KilledIsGone, ReadEnough, NewIsEmpty, CutIsTold,
        ToolCall, Enough
    <2> QED BY <2>4, <2>5, OthersKeep
  <1>3. CASE "background" \in group[c] /\ group' = [group EXCEPT ![c] = @ \ {"background"}] /\ UNCHANGED call
    <2>1. ToolTypes' /\ Others(c) /\ group'[c] = group[c] \ {"background"}
      BY <1>1, <1>3 DEF ProcessExits, ToolInv, ToolTypes, Others
    <2>2. CallInv(c)'
      BY <1>3, <2>1, OfCall DEF ProcessExits, CallInv, FileKept, KilledIsGone, ReadEnough, NewIsEmpty, CutIsTold, Enough
    <2> QED BY <2>1, <2>2, OthersKeep
  <1> QED BY <1>2, <1>3 DEF ProcessExits

LEMMA RenderedKeeps ==
  ASSUME ToolInv, NEW c \in Calls, NEW is \in {"success", "error"},
         call[c].tool = "bash", call[c].at = "running",
         /\ call' \in [Calls -> ToolCall]
         /\ \A d \in Calls \ {c} : call'[d] = call[d],
         call'[c].at = "returned", call'[c].result = BashResult(c, is), call'[c].tool = "bash",
         call'[c].exit = "killed" => group'[c] = {},
         group' \in [Calls -> SUBSET {"child", "background"}],
         \A d \in Calls \ {c} : group'[d] = group[d],
         temp' = IF Truncated(printed[c]) THEN temp ELSE temp \ {c},
         UNCHANGED <<printed, reading>>
  PROVE  ToolInv'
  <1>1. ToolTypes
    BY DEF ToolInv
  <1>2. /\ BashResult(c, is).total = Len(printed[c]) /\ BashResult(c, is).told = Truncated(printed[c])
        /\ ~Truncated(printed[c]) => BashResult(c, is).shown = BashResult(c, is).total
    BY <1>1, BashSays
  <1>3. ToolTypes' /\ Others(c)
    BY <1>1 DEF ToolTypes, Others
  <1>4. FileKept(c)'
    <2>1. c \in temp /\ Len(printed[c]) \in Nat /\ Truncated(printed[c]) \in BOOLEAN
      BY OfCall DEF FileKept, Truncated
    <2>2. CASE Truncated(printed[c])
      BY <2>1, <2>2, <1>2 DEF FileKept
    <2>3. CASE ~Truncated(printed[c])
      BY <2>1, <2>3, <1>2 DEF FileKept
    <2> QED BY <2>2, <2>3
  <1>5. (KilledIsGone(c) /\ ReadEnough(c) /\ NewIsEmpty(c) /\ CutIsTold(c))'
    BY OfCall DEF KilledIsGone, ReadEnough, NewIsEmpty, CutIsTold
  <1> QED BY <1>3, <1>4, <1>5, OthersKeep DEF CallInv

LEMMA FinishBashKeeps ==
  ASSUME ToolInv, NEW c \in Calls, FinishBash(c)
  PROVE  ToolInv'
  <1>1. CASE Returned(c, Error) /\ UNCHANGED temp
    BY <1>1, ErrorKeeps DEF FinishBash
  <1>2. CASE Rendered(c, IF call[c].exit = "success" THEN "success" ELSE "error")
    <2> DEFINE is == IF call[c].exit = "success" THEN "success" ELSE "error"
    <2>1. is \in {"success", "error"} /\ Returned(c, BashResult(c, is))
            /\ temp' = IF Truncated(printed[c]) THEN temp ELSE temp \ {c}
      BY <1>2 DEF Rendered
    <2> HIDE DEF is
    <2>2. BashResult(c, is) \in ResultSet
      BY <2>1, BashSays DEF ToolInv
    <2>3. /\ call' \in [Calls -> ToolCall]
          /\ call'[c].at = "returned" /\ call'[c].result = BashResult(c, is)
          /\ call'[c].tool = call[c].tool /\ call'[c].exit = call[c].exit
          /\ \A d \in Calls \ {c} : call'[d] = call[d]
      BY <2>1, <2>2, ReturnedIs
    <2>4. call[c].exit # "killed"
      BY OfCall DEF FinishBash, KilledIsGone
    <2>5. group' \in [Calls -> SUBSET {"child", "background"}] /\ \A d \in Calls \ {c} : group'[d] = group[d]
      BY DEF FinishBash, ToolInv, ToolTypes
    <2>6. call[c].tool = "bash" /\ call[c].at = "running" /\ UNCHANGED <<printed, reading>>
      BY DEF FinishBash
    <2> QED BY <2>1, <2>3, <2>4, <2>5, <2>6, RenderedKeeps
  <1> QED BY <1>1, <1>2 DEF FinishBash

LEMMA TimeoutBashKeeps ==
  ASSUME ToolInv, NEW c \in Calls, TimeoutBash(c)
  PROVE  ToolInv'
  <1>1. call \in [Calls -> ToolCall] /\ call[c] \in ToolCall /\ group \in [Calls -> SUBSET {"child", "background"}]
    BY DEF ToolInv, ToolTypes
  <1>2. BashResult(c, "error") \in ResultSet
    BY BashSays DEF ToolInv
  <1> DEFINE next == [call[c] EXCEPT !.at = "returned", !.exit = "killed", !.result = BashResult(c, "error")]
  <1>3. next \in ToolCall
    BY <1>1, <1>2 DEF ToolCall
  <1>4. call' = [call EXCEPT ![c] = next]
    BY DEF TimeoutBash
  <1>5. next.at = "returned" /\ next.result = BashResult(c, "error") /\ next.tool = call[c].tool
    BY <1>1 DEF ToolCall
  <1> HIDE DEF next
  <1>6. call' \in [Calls -> ToolCall] /\ call'[c] = next /\ \A d \in Calls \ {c} : call'[d] = call[d]
    BY <1>1, <1>3, <1>4
  <1>7. group' \in [Calls -> SUBSET {"child", "background"}] /\ group'[c] = {} /\ \A d \in Calls \ {c} : group'[d] = group[d]
    BY <1>1 DEF TimeoutBash
  <1>8. /\ call[c].tool = "bash" /\ call[c].at = "running" /\ UNCHANGED <<printed, reading>>
        /\ temp' = IF Truncated(printed[c]) THEN temp ELSE temp \ {c}
    BY DEF TimeoutBash
  <1> QED BY <1>5, <1>6, <1>7, <1>8, RenderedKeeps

LEMMA TakeKeeps ==
  ASSUME ToolInv, NEW c \in Calls, TakeLine(c)
  PROVE  ToolInv'
  <1>1. /\ call \in [Calls -> ToolCall] /\ call[c] \in ToolCall /\ group \in [Calls -> SUBSET {"child", "background"}]
        /\ reading \in [Calls -> Reader] /\ reading[c] \in Reader
    BY DEF ToolInv, ToolTypes
  <1> DEFINE taken == reading[c].taken + 1
  <1>2. taken \in Nat /\ taken <= Len(printed[c])
    BY OfCall DEF TakeLine
  <1> HIDE DEF taken
  <1>3. CASE Enough(c, taken)
    <2>1. /\ reading' = [reading EXCEPT ![c] = [taken |-> taken, open |-> FALSE]]
          /\ group' = [group EXCEPT ![c] = {}]
          /\ call' = [call EXCEPT ![c].exit = IF group[c] = {} THEN @ ELSE "success"]
      BY <1>3 DEF TakeLine, taken
    <2> DEFINE next == [call[c] EXCEPT !.exit = IF group[c] = {} THEN @ ELSE "success"]
    <2>2. next \in ToolCall /\ [taken |-> taken, open |-> FALSE] \in Reader
      BY <1>1, <1>2 DEF ToolCall, Reader
    <2>3. call' = [call EXCEPT ![c] = next] /\ next.exit \in {call[c].exit, "success"}
            /\ next.at = call[c].at /\ next.tool = call[c].tool /\ next.result = call[c].result
      BY <1>1, <2>1 DEF ToolCall
    <2> HIDE DEF next
    <2>4. ToolTypes' /\ Others(c)
      BY <1>1, <2>1, <2>2, <2>3 DEF TakeLine, ToolInv, ToolTypes, Others
    <2>5. call'[c] = next /\ group'[c] = {} /\ reading'[c].taken = taken /\ ~reading'[c].open
      BY <1>1, <2>1, <2>3
    <2>6. ReadEnough(c)'
      BY <1>2, <1>3, <2>5 DEF TakeLine, ReadEnough, Enough
    <2>7. (FileKept(c) /\ KilledIsGone(c) /\ NewIsEmpty(c) /\ CutIsTold(c))'
      BY <2>3, <2>5, OfCall DEF TakeLine, FileKept, KilledIsGone, NewIsEmpty, CutIsTold
    <2> QED BY <2>4, <2>6, <2>7, OthersKeep DEF CallInv
  <1>4. CASE ~Enough(c, taken)
    <2>1. reading' = [reading EXCEPT ![c].taken = taken] /\ UNCHANGED <<group, call>>
      BY <1>4 DEF TakeLine, taken
    <2>2. [reading[c] EXCEPT !.taken = taken] \in Reader
      BY <1>1, <1>2 DEF Reader
    <2>3. ToolTypes' /\ Others(c)
      BY <1>1, <2>1, <2>2 DEF TakeLine, ToolInv, ToolTypes, Others
    <2>4. reading'[c].taken = taken /\ reading'[c].open = reading[c].open /\ reading[c].open
      BY <1>1, <2>1 DEF Reader, TakeLine
    <2>5. CallInv(c)'
      BY <1>2, <2>1, <2>4, OfCall DEF TakeLine, CallInv, FileKept, KilledIsGone, ReadEnough, NewIsEmpty, CutIsTold
    <2> QED BY <2>3, <2>5, OthersKeep
  <1> QED BY <1>3, <1>4

(* A search that returns: all there is to show is that its cuts are told.  *)
LEMMA SearchReturns ==
  ASSUME ToolInv, NEW c \in Calls, NEW r \in ResultSet, Returned(c, r),
         call[c].tool \in {"grep", "find", "ls"}, call[c].at \in {"begun", "running"},
         r.shown < r.total => CutIsKnown(r),
         reading' = reading \/ reading' = [reading EXCEPT ![c].open = FALSE],
         UNCHANGED <<group, printed, temp>>
  PROVE  ToolInv'
  <1>1. reading \in [Calls -> Reader] /\ reading[c] \in Reader
    BY DEF ToolInv, ToolTypes
  <1>2. [reading[c] EXCEPT !.open = FALSE] \in Reader
    BY <1>1 DEF Reader
  <1>3. reading' \in [Calls -> Reader] /\ reading'[c].taken = reading[c].taken /\ \A d \in Calls \ {c} : reading'[d] = reading[d]
    <2>1. CASE reading' = reading
      BY <2>1, <1>1
    <2>2. CASE reading' = [reading EXCEPT ![c].open = FALSE]
      <3>1. reading' = [reading EXCEPT ![c] = [reading[c] EXCEPT !.open = FALSE]]
        BY <2>2
      <3>2. reading' \in [Calls -> Reader] /\ \A d \in Calls \ {c} : reading'[d] = reading[d]
        BY <3>1, <1>1, <1>2
      <3>3. reading'[c] = [reading[c] EXCEPT !.open = FALSE]
        BY <3>1, <1>1
      <3>4. reading'[c].taken = reading[c].taken
        BY <3>3, <1>1 DEF Reader
      <3> QED BY <3>2, <3>4
    <2> QED BY <2>1, <2>2
  <1>4. /\ call' \in [Calls -> ToolCall] /\ call'[c].at = "returned" /\ call'[c].result = r
        /\ call'[c].tool = call[c].tool /\ call'[c].exit = call[c].exit
        /\ \A d \in Calls \ {c} : call'[d] = call[d]
    BY ReturnedIs
  <1>5. ToolTypes' /\ Others(c)
    BY <1>3, <1>4 DEF ToolInv, ToolTypes, Others
  <1>6. CallInv(c)'
    BY <1>3, <1>4, OfCall DEF CallInv, FileKept, KilledIsGone, ReadEnough, NewIsEmpty, CutIsTold
  <1> QED BY <1>5, <1>6, OthersKeep

(* grep has all that rg printed, or stopped with more than it may show.    *)
LEMMA GrepSays ==
  ASSUME ToolInv, NEW c \in Calls, call[c].tool = "grep", call[c].at = "running",
         reading[c].open => reading[c].taken = Len(printed[c])
  PROVE  /\ GrepResult(c) \in ResultSet
         /\ GrepResult(c).shown < GrepResult(c).total => CutIsKnown(GrepResult(c))
  <1> DEFINE n == reading[c].taken
             taken == SubSeq(printed[c], 1, n)
             cut == Cut(taken)
             list == Listing(cut, Len(printed[c]))
             long == IF \E k \in DOMAIN taken : taken[k] > LineLimit THEN {"lines"} ELSE {}
  <1>1. n \in Nat /\ n <= Len(printed[c]) /\ Len(printed[c]) \in Nat /\ printed[c] \in Seq(Nat)
    BY OfCall DEF ReadEnough
  <1>2. taken \in Seq(Nat) /\ Len(taken) = n /\ DOMAIN taken = 1 .. n
    BY <1>1
  <1> HIDE DEF taken, n
  <1>3. cut \in Seq(Nat) /\ Len(cut) = n
    <2>1. \A k \in 1 .. n : Min({taken[k], LineLimit}) \in Nat
      BY <1>2, MinOfTwo, NumbersAre
    <2>2. cut = [k \in 1 .. n |-> Min({taken[k], LineLimit})]
      BY <1>2 DEF Cut
    <2> QED BY <2>1, <2>2, <1>1
  <1>4. (\A k \in DOMAIN taken : ~ (taken[k] > LineLimit)) => cut = taken
    <2> SUFFICES ASSUME \A k \in DOMAIN taken : ~ (taken[k] > LineLimit) PROVE cut = taken
      OBVIOUS
    <2>1. ASSUME NEW k \in 1 .. n PROVE Min({taken[k], LineLimit}) = taken[k]
      <3>1. taken[k] \in Nat /\ LineLimit \in Nat /\ taken[k] <= LineLimit
        BY <1>2, NumbersAre
      <3> QED BY <3>1, MinOfTwo
    <2>2. cut = [k \in 1 .. n |-> Min({taken[k], LineLimit})]
      BY <1>2 DEF Cut
    <2>3. \A k \in 1 .. Len(cut) : cut[k] = taken[k]
      BY <2>1, <2>2, <1>3
    <2> QED BY <2>3, <1>2, <1>3, SeqEqual
  <1> HIDE DEF cut
  <1>5. /\ list \in ResultSet /\ list.total = Len(printed[c])
        /\ list.notices \subseteq {"limit", "bytes"}
        /\ list.notices = {} => n <= Limit /\ list.shown = n /\ Total(cut) <= TailBytes
    BY <1>1, <1>3, ListingTells
  <1> HIDE DEF list
  <1>6. GrepResult(c) = [list EXCEPT !.unread = Total(taken) > 2 * TailBytes, !.notices = @ \cup long]
    BY DEF GrepResult, list, cut, taken, n
  <1>7. long \subseteq Notices /\ (Total(taken) > 2 * TailBytes) \in BOOLEAN
    BY DEF Notices
  <1>8. /\ GrepResult(c) \in ResultSet /\ GrepResult(c).notices = list.notices \cup long
        /\ GrepResult(c).shown = list.shown /\ GrepResult(c).total = list.total
        /\ GrepResult(c).unread = (Total(taken) > 2 * TailBytes)
    BY <1>5, <1>6, <1>7 DEF ResultSet
  <1>9. ASSUME list.notices = {}, list.shown < list.total
        PROVE  Total(taken) > 2 * TailBytes /\ "lines" \in long
    <2>1. n <= Limit /\ list.shown = n /\ Total(cut) <= TailBytes
      BY <1>5, <1>9
    <2>2. ~reading[c].open
      BY <2>1, <1>9, <1>5, <1>1 DEF n
    <2>3. n > Limit + Slack \/ Total(taken) > 2 * TailBytes
      BY <2>2, OfCall DEF ReadEnough, Enough, n, taken
    <2>4. Total(taken) > 2 * TailBytes
      BY <2>1, <2>3, <1>1, NumbersAre
    <2>5. Total(taken) \in Int /\ Total(cut) \in Int
      BY <1>2, <1>3, <1>1, SumIsNumber DEF Total
    <2>6. cut # taken
      BY <2>1, <2>4, <2>5, NumbersAre
    <2> QED BY <2>4, <2>6, <1>4
  <1>10. CASE list.notices = {}
    BY <1>8, <1>9, <1>10 DEF CutIsKnown
  <1>11. CASE list.notices # {}
    BY <1>5, <1>8, <1>11 DEF CutIsKnown
  <1> QED BY <1>8, <1>10, <1>11

LEMMA FinishGrepKeeps ==
  ASSUME ToolInv, NEW c \in Calls, FinishGrep(c)
  PROVE  ToolInv'
  <1> DEFINE r == IF call[c].exit = "success" THEN GrepResult(c) ELSE Error
  <1>1. r \in ResultSet /\ (r.shown < r.total => CutIsKnown(r))
    BY GrepSays, ErrorIsResult DEF FinishGrep, Error, NoResult
  <1>2. Returned(c, r) /\ call[c].tool = "grep" /\ call[c].at = "running"
          /\ reading' = [reading EXCEPT ![c].open = FALSE] /\ UNCHANGED <<group, printed, temp>>
    BY DEF FinishGrep
  <1> HIDE DEF r
  <1> QED BY <1>1, <1>2, SearchReturns

LEMMA TimeoutGrepKeeps ==
  ASSUME ToolInv, NEW c \in Calls, TimeoutGrep(c)
  PROVE  ToolInv'
  <1>1. /\ call \in [Calls -> ToolCall] /\ call[c] \in ToolCall /\ group \in [Calls -> SUBSET {"child", "background"}]
        /\ reading \in [Calls -> Reader] /\ reading[c] \in Reader
    BY DEF ToolInv, ToolTypes
  <1> DEFINE next == [call[c] EXCEPT !.at = "returned", !.exit = "killed", !.result = Error]
  <1>2. next \in ToolCall /\ next.at = "returned" /\ next.result = Error /\ next.tool = "grep"
    BY <1>1, ErrorIsResult DEF ToolCall, TimeoutGrep
  <1>3. call' = [call EXCEPT ![c] = next] /\ group' = [group EXCEPT ![c] = {}]
    BY DEF TimeoutGrep
  <1> HIDE DEF next
  <1>4. [reading[c] EXCEPT !.open = FALSE] \in Reader
    BY <1>1 DEF Reader
  <1>5. ToolTypes' /\ Others(c)
    <2>1. call' \in [Calls -> ToolCall] /\ \A d \in Calls \ {c} : call'[d] = call[d]
      BY <1>1, <1>2, <1>3
    <2>2. group' \in [Calls -> SUBSET {"child", "background"}] /\ \A d \in Calls \ {c} : group'[d] = group[d]
      BY <1>1, <1>3
    <2>3. reading' \in [Calls -> Reader] /\ \A d \in Calls \ {c} : reading'[d] = reading[d]
      BY <1>1, <1>4 DEF TimeoutGrep
    <2> QED BY <2>1, <2>2, <2>3 DEF TimeoutGrep, ToolInv, ToolTypes, Others
  <1>6. call'[c] = next /\ group'[c] = {} /\ reading'[c].taken = reading[c].taken
    BY <1>1, <1>3 DEF TimeoutGrep, Reader
  <1>7. CallInv(c)'
    BY <1>2, <1>6, OfCall, ErrorIsResult DEF TimeoutGrep, CallInv, FileKept, KilledIsGone, ReadEnough, NewIsEmpty, CutIsTold,
      Error, NoResult
  <1> QED BY <1>5, <1>7, OthersKeep

(* fd found as much as it was asked for, or all there is.                  *)
LEMMA FindSays ==
  ASSUME ToolInv, NEW c \in Calls, NEW refused \in SUBSET (DOMAIN printed[c])
  PROVE  LET found == SubSeq(printed[c], 1, Min({Len(printed[c]), Limit + 1}))
             left  == {k \in DOMAIN found : k \notin refused}
             total == Cardinality(DOMAIN printed[c] \ refused)
             r == [Listing([k \in 1..Cardinality(left) |-> found[SetToSortSeq(left, <)[k]]], total)
                     EXCEPT !.hidden = refused # {}]
         IN  r \in ResultSet /\ (r.shown < r.total => CutIsKnown(r))
  <1> DEFINE most == Min({Len(printed[c]), Limit + 1})
             found == SubSeq(printed[c], 1, most)
             left == {k \in DOMAIN found : k \notin refused}
             total == Cardinality(DOMAIN printed[c] \ refused)
             names == [k \in 1..Cardinality(left) |-> found[SetToSortSeq(left, <)[k]]]
             list == Listing(names, total)
  <1>1. Len(printed[c]) \in Nat /\ printed[c] \in Seq(Nat) /\ DOMAIN printed[c] = 1 .. Len(printed[c])
    BY OfCall
  <1>2. Limit + 1 \in Nat
    BY NumbersAre
  <1>3. most \in Nat /\ most = IF Len(printed[c]) <= Limit + 1 THEN Len(printed[c]) ELSE Limit + 1
    BY <1>1, <1>2, MinOfTwo
  <1> HIDE DEF most
  <1>4. found \in Seq(Nat) /\ DOMAIN found = 1 .. most
    BY <1>1, <1>2, <1>3, NumbersAre
  <1> HIDE DEF found
  <1>5. \A n \in Nat : IsFiniteSet(1 .. n) /\ Cardinality(1 .. n) = n
    BY FS_Interval
  <1>6. Cardinality(left) \in Nat /\ total \in Nat
    <2>1. left \in SUBSET (1 .. most) /\ DOMAIN printed[c] \ refused \in SUBSET (1 .. Len(printed[c]))
      BY <1>4, <1>1
    <2> HIDE DEF left
    <2> QED BY <2>1, <1>1, <1>3, <1>5, FS_Subset, FS_CardinalityType
  <1>7. refused = {} => left = 1 .. most /\ total = Len(printed[c])
    BY <1>4, <1>1, <1>5
  <1> HIDE DEF left, total
  <1> DEFINE n == Cardinality(left)
             S == {names[k] : k \in 1 .. n}
  <1>8. names \in Seq(S) /\ Len(names) = Cardinality(left)
    <2>1. names = [k \in 1 .. n |-> names[k]] /\ n \in Nat
      BY <1>6
    <2> HIDE DEF names, n
    <2>2. names \in Seq(S) /\ Len(names) = n
      BY <2>1
    <2> QED BY <2>2 DEF n
  <1> HIDE DEF names, S
  <1>9. /\ list \in ResultSet /\ list.total = total /\ list.notices \subseteq {"limit", "bytes"}
        /\ list.notices = {} => Cardinality(left) <= Limit /\ list.shown = Cardinality(left)
    BY <1>6, <1>8, ListingTells
  <1> HIDE DEF list
  <1> DEFINE r == [list EXCEPT !.hidden = refused # {}]
  <1>10. r \in ResultSet /\ r.shown = list.shown /\ r.total = total /\ r.notices = list.notices /\ r.hidden = (refused # {})
    BY <1>9 DEF ResultSet
  <1>11. ASSUME list.notices = {}, refused = {} PROVE list.shown = total
    <2>1. Cardinality(left) = most /\ total = Len(printed[c])
      BY <1>11, <1>7, <1>5, <1>3
    <2>2. most <= Limit /\ list.shown = most
      BY <2>1, <1>9, <1>11
    <2> QED BY <2>1, <2>2, <1>3, <1>1, NumbersAre
  <1>12. r.shown < r.total => CutIsKnown(r)
    <2> HIDE DEF r
    <2> SUFFICES ASSUME r.notices = {}, ~r.hidden PROVE ~ (r.shown < r.total)
      BY <1>9, <1>10 DEF CutIsKnown
    <2>1. r.shown = total /\ r.total = total
      BY <1>10, <1>11
    <2> QED BY <2>1, <1>6
  <1> QED BY <1>10, <1>12 DEF list, names, left, total, found, most

LEMMA FinishFindKeeps ==
  ASSUME ToolInv, NEW c \in Calls, FinishFind(c)
  PROVE  ToolInv'
  <1> DEFINE found == SubSeq(printed[c], 1, Min({Len(printed[c]), Limit + 1}))
             left(refused) == {k \in DOMAIN found : k \notin refused}
             r(refused) == [Listing([k \in 1..Cardinality(left(refused)) |-> found[SetToSortSeq(left(refused), <)[k]]],
                              Cardinality(DOMAIN printed[c] \ refused)) EXCEPT !.hidden = refused # {}]
             end(refused) == IF call[c].exit # "success" /\ printed[c] = <<>> THEN Error ELSE r(refused)
  <1>1. PICK refused \in SUBSET (DOMAIN printed[c]) : Returned(c, end(refused))
    BY Zenon DEF FinishFind
  <1>2. r(refused) \in ResultSet /\ (r(refused).shown < r(refused).total => CutIsKnown(r(refused)))
    BY FindSays, Zenon
  <1> HIDE DEF r
  <1>3. end(refused) \in ResultSet
          /\ (end(refused).shown < end(refused).total => CutIsKnown(end(refused)))
    BY <1>2, ErrorIsResult DEF Error, NoResult
  <1>4. call[c].tool = "find" /\ call[c].at = "running"
          /\ reading' = [reading EXCEPT ![c].open = FALSE] /\ UNCHANGED <<group, printed, temp>>
    BY DEF FinishFind
  <1> HIDE DEF end
  <1> QED BY <1>1, <1>3, <1>4, SearchReturns

LEMMA ListKeeps ==
  ASSUME ToolInv, NEW c \in Calls, List(c)
  PROVE  ToolInv'
  <1>1. CASE Returned(c, Error)
    BY <1>1, ErrorKeeps DEF List
  <1>2. CASE \E n \in 0..MaxPrinted : \E sizes \in [1..n -> Sizes] : Returned(c, Listing(sizes, n))
    <2>1. PICK n \in 0..MaxPrinted : \E sizes \in [1..n -> Sizes] : Returned(c, Listing(sizes, n))
      BY <1>2
    <2>2. PICK sizes \in [1..n -> Sizes] : Returned(c, Listing(sizes, n))
      BY <2>1
    <2>3. n \in Nat /\ sizes \in Seq(Sizes) /\ Len(sizes) = n
      BY NumbersAre
    <2> DEFINE r == Listing(sizes, n)
    <2>4. /\ r \in ResultSet /\ r.total = n /\ r.notices \subseteq {"limit", "bytes"}
          /\ r.notices = {} => r.shown = n
      BY <2>3, ListingTells
    <2>5. Returned(c, r)
      BY <2>2
    <2> HIDE DEF r
    <2>6. r.shown < r.total => CutIsKnown(r)
      BY <2>4, <2>3 DEF CutIsKnown
    <2> QED BY <2>4, <2>5, <2>6, SearchReturns DEF List
  <1> QED BY <1>1, <1>2 DEF List

LEMMA DropKeeps ==
  ASSUME ToolInv, NEW c \in Calls, Drop(c)
  PROVE  ToolInv'
  <1>1. /\ call \in [Calls -> ToolCall] /\ call[c] \in ToolCall /\ group \in [Calls -> SUBSET {"child", "background"}]
        /\ reading \in [Calls -> Reader] /\ reading[c] \in Reader
    BY DEF ToolInv, ToolTypes
  <1>2. [call[c] EXCEPT !.at = "dropped"] \in ToolCall /\ [reading[c] EXCEPT !.open = FALSE] \in Reader
    BY <1>1 DEF ToolCall, Reader
  <1>3. ToolTypes' /\ Others(c)
    BY <1>1, <1>2 DEF Drop, ToolInv, ToolTypes, Others
  <1>4. call'[c] = [call[c] EXCEPT !.at = "dropped"] /\ reading'[c].taken = reading[c].taken
    BY <1>1 DEF Drop, Reader
  <1>5. CallInv(c)'
    BY <1>1, <1>4, OfCall DEF Drop, CallInv, FileKept, KilledIsGone, ReadEnough, NewIsEmpty, CutIsTold, ToolCall
  <1> QED BY <1>3, <1>5, OthersKeep

LEMMA ToolStepKeeps == ToolInv /\ [ToolNext]_toolVars => ToolInv'
  <1> SUFFICES ASSUME ToolInv, [ToolNext]_toolVars PROVE ToolInv'
    OBVIOUS
  <1>1. CASE UNCHANGED toolVars
    BY <1>1 DEF toolVars, ToolInv, ToolTypes, CallInv, FileKept, KilledIsGone, ReadEnough, NewIsEmpty, CutIsTold, Enough
  <1>2. ASSUME NEW c \in Calls, ToolStep(c) PROVE ToolInv'
    <2>1. CASE UnknownTool(c)
      BY <2>1, ErrorKeeps DEF UnknownTool
    <2> QED BY <1>2, <2>1, BeginKeeps, SpawnBashKeeps, SpawnSearchKeeps, EmitKeeps, BackgroundKeeps, ProcessKeeps,
             FinishBashKeeps, TimeoutBashKeeps, TakeKeeps, FinishGrepKeeps, TimeoutGrepKeeps, FinishFindKeeps,
             ListKeeps, DropKeeps DEF ToolStep
  <1> QED BY <1>1, <1>2 DEF ToolNext

LEMMA ToolInvMeans == ToolInv => ToolResultsAreHonest
  <1> SUFFICES ASSUME ToolInv PROVE ToolResultsAreHonest
    OBVIOUS
  <1>1. OutputIsReachable
    <2> SUFFICES ASSUME NEW c \in Calls, call[c].tool = "bash", call[c].at = "returned"
                 PROVE  LET toolResult == call[c].result IN
                        /\ toolResult.shown < toolResult.total => toolResult.told /\ c \in temp /\ Len(printed[c]) >= toolResult.total
                        /\ c \in temp /\ ~toolResult.told => toolResult = Error
      BY DEF OutputIsReachable
    <2>1. call[c].result \in ResultSet /\ call[c].result.shown \in Nat /\ call[c].result.total \in Nat /\ Len(printed[c]) \in Nat
      BY OfCall DEF ToolCall, ResultSet
    <2> QED BY <2>1, OfCall, ErrorIsResult DEF FileKept
  <1>2. TimeoutKills
    BY OfCall DEF TimeoutKills, KilledIsGone
  <1>3. CutsAreTold
    BY OfCall DEF CutsAreTold, CutIsTold
  <1> QED BY <1>1, <1>2, <1>3, GuardsHold DEF ToolResultsAreHonest

(* Whatever programs print, run into a timeout or leave behind, whenever a *)
(* reader stops and whichever turns are dropped: what is left out of a     *)
(* result is told and to be had, a killed command is gone with its group,  *)
(* and what the file tools refuse is refused to commands.                  *)
THEOREM ToolsAreHonest == ToolSpec => []ToolResultsAreHonest
  <1>1. ToolInit => ToolInv
    BY ToolsBegin
  <1>2. ToolInv /\ [ToolNext]_toolVars => ToolInv'
    BY ToolStepKeeps
  <1>3. ToolInv => ToolResultsAreHonest
    BY ToolInvMeans
  <1> QED BY <1>1, <1>2, <1>3, PTL DEF ToolSpec

-------------------------------------------------------------------------------
(* How a reply is cut: the limits of ChannelMessages.                      *)
LEMMA LimitsAre == WideBytes \in Nat /\ WideBytes - 1 \in Nat /\ MaxLength \in Nat /\ WideBytes <= MaxLength /\ MaxLength # 0
  BY ChannelConstants

LEMMA TimesGrows ==
  ASSUME NEW a \in Nat, NEW b \in Nat, NEW d \in Nat, b <= d
  PROVE  a * b \in Nat /\ a * d \in Nat /\ a * b <= a * d
  <1>1. PICK e \in Nat : d = b + e
    <2>1. d - b \in Nat /\ d = b + (d - b)
      OBVIOUS
    <2> QED BY <2>1
  <1>2. a * d = a * b + a * e
    BY <1>1
  <1>3. a * b \in Nat /\ a * e \in Nat
    OBVIOUS
  <1> QED BY <1>2, <1>3

WideIn(text) == {k \in DOMAIN text : text[k] = Wide}

LEMMA WideAreFinite ==
  ASSUME NEW S, NEW text \in Seq(S)
  PROVE  /\ IsFiniteSet(WideIn(text)) /\ Cardinality(WideIn(text)) \in Nat /\ Cardinality(WideIn(text)) <= Len(text)
         /\ Bytes(text) \in Nat
  <1>1. Len(text) \in Nat /\ DOMAIN text = 1 .. Len(text)
    OBVIOUS
  <1>2. IsFiniteSet(1 .. Len(text)) /\ Cardinality(1 .. Len(text)) = Len(text)
    BY <1>1, FS_Interval
  <1>3. WideIn(text) \in SUBSET (1 .. Len(text))
    BY <1>1 DEF WideIn
  <1>4. IsFiniteSet(WideIn(text)) /\ Cardinality(WideIn(text)) \in Nat /\ Cardinality(WideIn(text)) <= Len(text)
    BY <1>2, <1>3, FS_Subset, FS_CardinalityType
  <1>5. (WideBytes - 1) * Cardinality(WideIn(text)) \in Nat
    BY <1>4, LimitsAre, TimesGrows
  <1>6. Bytes(text) = Len(text) + (WideBytes - 1) * Cardinality(WideIn(text))
    BY DEF Bytes, WideIn
  <1> QED BY <1>1, <1>4, <1>5, <1>6

LEMMA PrefixIs ==
  ASSUME NEW S, NEW text \in Seq(S), NEW n \in 0 .. Len(text)
  PROVE  /\ SubSeq(text, 1, n) \in Seq(S) /\ Len(SubSeq(text, 1, n)) = n /\ DOMAIN SubSeq(text, 1, n) = 1 .. n
         /\ \A k \in 1 .. n : SubSeq(text, 1, n)[k] = text[k]
  OBVIOUS

(* A shorter beginning of a text takes no more bytes.                      *)
LEMMA PrefixesFit ==
  ASSUME NEW S, NEW text \in Seq(S), NEW n \in 0 .. Len(text), NEW m \in 0 .. n
  PROVE  Bytes(SubSeq(text, 1, m)) <= Bytes(SubSeq(text, 1, n))
  <1> DEFINE short == SubSeq(text, 1, m)
             long == SubSeq(text, 1, n)
  <1>1. m \in 0 .. Len(text) /\ m \in Nat /\ n \in Nat /\ m <= n
    OBVIOUS
  <1>2. /\ short \in Seq(S) /\ Len(short) = m /\ DOMAIN short = 1 .. m /\ \A k \in 1 .. m : short[k] = text[k]
        /\ long \in Seq(S) /\ Len(long) = n /\ DOMAIN long = 1 .. n /\ \A k \in 1 .. n : long[k] = text[k]
    BY <1>1, PrefixIs
  <1> HIDE DEF short, long
  <1>3. WideIn(short) \in SUBSET WideIn(long)
    BY <1>1, <1>2 DEF WideIn
  <1>4. IsFiniteSet(WideIn(long)) /\ Cardinality(WideIn(short)) \in Nat /\ Cardinality(WideIn(long)) \in Nat
    BY <1>2, WideAreFinite
  <1>5. Cardinality(WideIn(short)) <= Cardinality(WideIn(long))
    BY <1>3, <1>4, FS_Subset
  <1> DEFINE a == (WideBytes - 1) * Cardinality(WideIn(short))
             b == (WideBytes - 1) * Cardinality(WideIn(long))
  <1>6. a \in Nat /\ b \in Nat /\ a <= b
    BY <1>4, <1>5, LimitsAre, TimesGrows
  <1>7. Bytes(short) = m + a /\ Bytes(long) = n + b
    BY <1>2 DEF Bytes, WideIn
  <1> HIDE DEF a, b
  <1>8. Bytes(short) <= Bytes(long)
    BY <1>1, <1>6, <1>7
  <1> QED BY <1>8 DEF short, long

(* One character fits, and nothing does.                                   *)
LEMMA LittleFits ==
  ASSUME NEW S, NEW text \in Seq(S)
  PROVE  /\ Bytes(SubSeq(text, 1, 0)) <= MaxLength
         /\ text # <<>> => Bytes(SubSeq(text, 1, 1)) <= MaxLength
  <1>1. ASSUME NEW n \in 0 .. Len(text), n <= 1
        PROVE  Bytes(SubSeq(text, 1, n)) <= MaxLength
    <2> DEFINE first == SubSeq(text, 1, n)
    <2>1. first \in Seq(S) /\ Len(first) = n
      BY PrefixIs
    <2> HIDE DEF first
    <2>2. Cardinality(WideIn(first)) \in Nat /\ Cardinality(WideIn(first)) <= 1 /\ n \in {0, 1}
      BY <1>1, <2>1, WideAreFinite
    <2> DEFINE a == (WideBytes - 1) * Cardinality(WideIn(first))
    <2>3. a \in Nat /\ a <= (WideBytes - 1) * 1
      BY <2>2, LimitsAre, TimesGrows
    <2>4. Bytes(first) = n + a
      BY <2>1 DEF Bytes, WideIn
    <2>5. Cardinality(WideIn(first)) <= n
      BY <2>1, WideAreFinite
    <2>6. CASE n = 0
      <3>1. Cardinality(WideIn(first)) = 0
        BY <2>2, <2>5, <2>6
      <3>2. a = 0
        BY <3>1, LimitsAre
      <3> QED BY <3>2, <2>4, <2>6, LimitsAre DEF first
    <2>7. CASE n = 1
      <3> HIDE DEF a
      <3> QED BY <2>3, <2>4, <2>7, LimitsAre DEF first
    <2> QED BY <2>2, <2>6, <2>7
  <1>2. Len(text) \in Nat /\ (text # <<>> => Len(text) >= 1)
    OBVIOUS
  <1> QED BY <1>1, <1>2

(* A chunk is a beginning of what is left that fits, and is empty only     *)
(* before a newline, which is then dropped.                                *)
LEMMA ChunkFits ==
  ASSUME NEW S, NEW left \in Seq(S), left # <<>>
  PROVE  /\ ChunkLength(left) \in 0 .. Len(left)
         /\ Bytes(SubSeq(left, 1, ChunkLength(left))) <= MaxLength
         /\ ChunkLength(left) = 0 => left[1] = "\n"
  <1> DEFINE K == {n \in 0 .. Len(left) : Bytes(SubSeq(left, 1, n)) <= MaxLength}
             newlines == {n \in 1 .. Boundary(left) : left[n] = "\n"}
  <1>1. Len(left) \in Nat /\ Len(left) >= 1
    OBVIOUS
  <1>2. 0 \in K /\ 1 \in K
    BY <1>1, LittleFits
  <1>3. Boundary(left) \in K /\ Boundary(left) >= 1
    <2>1. K \subseteq 0 .. Len(left) /\ K # {}
      BY <1>2
    <2>2. Boundary(left) = Max(K)
      BY DEF Boundary
    <2> HIDE DEF K
    <2>3. Max(K) \in K /\ \A k \in K : k <= Max(K)
      BY <2>1, <1>1, MaxOfUpTo
    <2>4. 1 <= Max(K)
      BY <2>3, <1>2
    <2> QED BY <2>2, <2>3, <2>4
  <1>4. Boundary(left) \in 1 .. Len(left) /\ Bytes(SubSeq(left, 1, Boundary(left))) <= MaxLength
    BY <1>1, <1>3
  <1>5. CASE Bytes(left) <= MaxLength
    <2>1. ChunkLength(left) = Len(left)
      BY <1>5 DEF ChunkLength
    <2>2. SubSeq(left, 1, Len(left)) = left
      OBVIOUS
    <2>3. Bytes(SubSeq(left, 1, ChunkLength(left))) <= MaxLength
      BY <2>1, <2>2, <1>5, Zenon
    <2>4. ChunkLength(left) \in 0 .. Len(left) /\ ChunkLength(left) # 0
      BY <2>1, <1>1
    <2> QED BY <2>3, <2>4
  <1>6. CASE ~(Bytes(left) <= MaxLength) /\ newlines # {}
    <2>1. ChunkLength(left) = Max(newlines) - 1
      BY <1>6 DEF ChunkLength
    <2>2. newlines \subseteq 0 .. Len(left)
      BY <1>4
    <2>3. Max(newlines) \in newlines
      <3> HIDE DEF newlines
      <3> QED BY <1>6, <2>2, <1>1, MaxOfUpTo
    <2>4. Max(newlines) \in 1 .. Boundary(left) /\ left[Max(newlines)] = "\n"
      BY <2>3
    <2> HIDE DEF newlines
    <2>5. Max(newlines) - 1 \in 0 .. Boundary(left) /\ Boundary(left) \in 0 .. Len(left)
      BY <2>4, <1>4
    <2>6. Bytes(SubSeq(left, 1, Max(newlines) - 1)) <= Bytes(SubSeq(left, 1, Boundary(left)))
      BY <2>5, PrefixesFit
    <2>7. SubSeq(left, 1, Max(newlines) - 1) \in Seq(S) /\ SubSeq(left, 1, Boundary(left)) \in Seq(S)
      BY <2>5
    <2>8. Bytes(SubSeq(left, 1, Max(newlines) - 1)) \in Nat /\ Bytes(SubSeq(left, 1, Boundary(left))) \in Nat
      BY <2>7, WideAreFinite
    <2>9. Bytes(SubSeq(left, 1, Max(newlines) - 1)) <= MaxLength
      BY <2>6, <2>8, <1>4, LimitsAre
    <2>10. Max(newlines) - 1 = 0 => left[1] = "\n"
      <3> SUFFICES ASSUME Max(newlines) - 1 = 0 PROVE left[1] = "\n"
        OBVIOUS
      <3>1. Max(newlines) = 1
        BY <2>4
      <3> QED BY <3>1, <2>4
    <2>11. Max(newlines) - 1 \in 0 .. Len(left)
      BY <2>5, <1>4
    <2> QED BY <2>1, <2>9, <2>10, <2>11
  <1>7. CASE ~(Bytes(left) <= MaxLength) /\ newlines = {}
    <2>1. ChunkLength(left) = Boundary(left)
      BY <1>7 DEF ChunkLength
    <2> QED BY <2>1, <1>4
  <1> QED BY <1>5, <1>6, <1>7

Upto(text, p) == p + ChunkLength(SubSeq(text, p, Len(text)))
Piece(text, p) == SubSeq(text, p, Upto(text, p) - 1)

(* A piece goes on in the text, and the next begins behind it.             *)
LEMMA PieceFits ==
  ASSUME NEW S, NEW text \in Seq(S), NEW p \in 1 .. Len(text)
  PROVE  /\ Upto(text, p) \in p .. Len(text) + 1 /\ Piece(text, p) \in Seq(S)
         /\ Len(Piece(text, p)) = Upto(text, p) - p /\ Bytes(Piece(text, p)) <= MaxLength
         /\ Behind(text, Upto(text, p)) \in p + 1 .. Len(text) + 1
  <1> DEFINE left == SubSeq(text, p, Len(text))
             n == ChunkLength(left)
  <1>1. Len(text) \in Nat /\ p \in Nat /\ p <= Len(text) /\ 1 <= p
    OBVIOUS
  <1>2. left \in Seq(S) /\ Len(left) = Len(text) - p + 1 /\ \A k \in 1 .. Len(left) : left[k] = text[p + k - 1]
    BY <1>1
  <1> HIDE DEF left
  <1>3. left # <<>>
    <2>1. Len(left) # 0
      BY <1>1, <1>2
    <2> QED BY <2>1, <1>2
  <1>4. n \in 0 .. Len(left) /\ Bytes(SubSeq(left, 1, n)) <= MaxLength /\ (n = 0 => left[1] = "\n")
    BY <1>2, <1>3, ChunkFits
  <1> HIDE DEF n
  <1>5. Upto(text, p) = p + n
    BY DEF Upto, n, left
  <1>6. Upto(text, p) \in p .. Len(text) + 1 /\ n \in Nat /\ n <= Len(left)
    <2>1. Len(left) \in Nat /\ n \in Nat /\ n <= Len(left)
      BY <1>2, <1>4
    <2> QED BY <2>1, <1>1, <1>2, <1>5
  <1>7. Piece(text, p) = SubSeq(text, p, p + n - 1)
    <2>1. Upto(text, p) - 1 = p + n - 1
      BY <1>1, <1>5, <1>6
    <2> QED BY <2>1, Zenon DEF Piece
  <1>8. /\ Piece(text, p) \in Seq(S) /\ Len(Piece(text, p)) = n
        /\ \A k \in 1 .. n : Piece(text, p)[k] = text[p + k - 1]
    <2>1. n \in Nat /\ p + n - 1 <= Len(text)
      BY <1>1, <1>2, <1>4
    <2> QED BY <2>1, <1>1, <1>7
  <1>9. Piece(text, p) = SubSeq(left, 1, n)
    <2>1. SubSeq(left, 1, n) \in Seq(S) /\ Len(SubSeq(left, 1, n)) = n /\ \A k \in 1 .. n : SubSeq(left, 1, n)[k] = left[k]
      BY <1>2, <1>4, PrefixIs
    <2>2. ASSUME NEW k \in 1 .. n PROVE SubSeq(left, 1, n)[k] = Piece(text, p)[k]
      <3>1. k \in 1 .. Len(left)
        BY <1>2, <1>6
      <3>2. left[k] = text[p + k - 1]
        BY <3>1, <1>2
      <3> QED BY <2>1, <3>2, <1>8
    <2> QED BY <2>1, <2>2, <1>8, SeqEqual
  <1>10. Behind(text, Upto(text, p)) \in p + 1 .. Len(text) + 1
    <2>1. CASE n = 0
      <3>1. text[p] = "\n" /\ Upto(text, p) = p
        BY <2>1, <1>1, <1>2, <1>4, <1>5
      <3> QED BY <3>1, <1>1 DEF Behind
    <2>2. CASE n # 0
      <3>1. Upto(text, p) \in p + 1 .. Len(text) + 1
        BY <2>2, <1>1, <1>2, <1>4, <1>5
      <3> QED BY <3>1, <1>1 DEF Behind
    <2> QED BY <2>1, <2>2
  <1> QED BY <1>1, <1>4, <1>5, <1>6, <1>8, <1>9, <1>10

(* Where the pieces of a text begin.                                       *)
CutsAt(text, pieces, at) ==
  /\ at \in [1 .. Len(pieces) + 1 -> Nat]
  /\ \A i \in 1 .. Len(pieces) :
       /\ Bytes(pieces[i]) <= MaxLength
       /\ pieces[i] = SubSeq(text, at[i], at[i] + Len(pieces[i]) - 1)
       /\ at[i + 1] = Behind(text, at[i] + Len(pieces[i]))
  /\ at[Len(pieces) + 1] = Len(text) + 1

LEMMA OneMorePiece ==
  ASSUME NEW S, NEW text \in Seq(S), NEW p \in 1 .. Len(text), NEW pieces \in Seq(Seq(S)),
         NEW at, CutsAt(text, pieces, at), at[1] = Behind(text, Upto(text, p))
  PROVE  \E before : CutsAt(text, <<Piece(text, p)>> \o pieces, before) /\ before[1] = p
  <1> DEFINE all == <<Piece(text, p)>> \o pieces
             n == Len(pieces)
             before == [i \in 1 .. n + 2 |-> IF i = 1 THEN p ELSE at[i - 1]]
  <1>1. n \in Nat /\ Piece(text, p) \in Seq(S)
    BY PieceFits
  <1>2. Len(all) = n + 1 /\ all[1] = Piece(text, p) /\ \A i \in 2 .. n + 1 : all[i] = pieces[i - 1]
    BY <1>1
  <1> HIDE DEF all, n
  <1>3. at \in [1 .. n + 1 -> Nat] /\ at[n + 1] = Len(text) + 1
    BY DEF CutsAt, n
  <1>4. before \in [1 .. n + 2 -> Nat]
    <2>1. \A i \in 1 .. n + 2 : i # 1 => i - 1 \in 1 .. n + 1
      BY <1>1
    <2> QED BY <2>1, <1>3
  <1>5. before[1] = p /\ \A i \in 2 .. n + 2 : before[i] = at[i - 1]
    BY <1>1
  <1> HIDE DEF before
  <1>6. ASSUME NEW i \in 1 .. n + 1
        PROVE  /\ Bytes(all[i]) <= MaxLength
               /\ all[i] = SubSeq(text, before[i], before[i] + Len(all[i]) - 1)
               /\ before[i + 1] = Behind(text, before[i] + Len(all[i]))
    <2>1. CASE i = 1
      <3>1. p + Len(Piece(text, p)) = Upto(text, p) /\ Bytes(Piece(text, p)) <= MaxLength
        <4>1. /\ Upto(text, p) \in p .. Len(text) + 1 /\ Len(Piece(text, p)) = Upto(text, p) - p
              /\ Bytes(Piece(text, p)) <= MaxLength
          BY PieceFits, Zenon
        <4>2. p \in Nat /\ Len(text) \in Nat
          OBVIOUS
        <4> QED BY <4>1, <4>2
      <3>2. before[2] = at[1]
        <4>1. 2 \in 2 .. n + 2 /\ 2 - 1 = 1
          BY <1>1
        <4>2. before[2] = at[2 - 1]
          BY <4>1, <1>5
        <4> QED BY <4>1, <4>2
      <3>3. all[1] = SubSeq(text, p, p + Len(all[1]) - 1)
        <4>1. all[1] = SubSeq(text, p, Upto(text, p) - 1) /\ p + Len(all[1]) = Upto(text, p)
          BY <3>1, <1>2, Zenon DEF Piece
        <4>2. p \in Nat /\ Len(text) \in Nat /\ Upto(text, p) \in p .. Len(text) + 1 /\ all[1] \in Seq(S)
          BY <1>1, <1>2, PieceFits
        <4>3. p \in Nat /\ Upto(text, p) \in Nat /\ Len(all[1]) \in Nat
          BY <4>2
        <4>4. Upto(text, p) - 1 = p + Len(all[1]) - 1
          BY <4>1, <4>3
        <4> QED BY <4>1, <4>4, Zenon
      <3>4. before[2] = Behind(text, before[1] + Len(all[1])) /\ 1 + 1 = 2
        BY <3>1, <3>2, <1>2, <1>5
      <3> QED BY <2>1, <3>1, <3>3, <3>4, <1>2, <1>5
    <2>2. CASE i # 1
      <3>1. i \in 2 .. n + 1 /\ i + 1 \in 2 .. n + 2 /\ i \in 2 .. n + 2 /\ i - 1 \in 1 .. n /\ (i + 1) - 1 = (i - 1) + 1
        BY <2>2, <1>1
      <3>2. all[i] = pieces[i - 1] /\ before[i] = at[i - 1] /\ before[i + 1] = at[(i - 1) + 1]
        BY <3>1, <1>2, <1>5
      <3> QED BY <3>1, <3>2 DEF CutsAt, n
    <2> QED BY <2>1, <2>2
  <1>7. before[n + 2] = Len(text) + 1
    <2>1. n + 2 \in 2 .. n + 2 /\ (n + 2) - 1 = n + 1
      BY <1>1
    <2> QED BY <2>1, <1>3, <1>5
  <1>8. Len(all) + 1 = n + 2
    BY <1>1, <1>2
  <1>9. CutsAt(text, all, before)
    BY <1>2, <1>4, <1>6, <1>7, <1>8 DEF CutsAt
  <1> QED BY <1>5, <1>9 DEF all

(* IsReply counts the beginnings from the front.                           *)
LEMMA CutsMakeReply ==
  ASSUME NEW S, NEW text \in Seq(S), NEW pieces \in Seq(Seq(S)), NEW at, CutsAt(text, pieces, at), at[1] = 1
  PROVE  IsReply(pieces, text)
  <1> DEFINE n == Len(pieces)
             from == CHOOSE f : f = [i \in 1 .. n + 1 |->
                        IF i = 1 THEN 1
                        ELSE LET end == f[i - 1] + Len(pieces[i - 1])
                             IN IF end <= Len(text) /\ text[end] = "\n" THEN end + 1 ELSE end]
             Steps(f) == f = [i \in 1 .. n + 1 |-> IF i = 1 THEN 1 ELSE Behind(text, f[i - 1] + Len(pieces[i - 1]))]
  <1>1. n \in Nat /\ DOMAIN pieces = 1 .. n
    OBVIOUS
  <1>2. IsReply(pieces, text) <=>
          /\ \A i \in DOMAIN pieces :
               /\ Bytes(pieces[i]) <= MaxLength
               /\ pieces[i] = SubSeq(text, from[i], from[i] + Len(pieces[i]) - 1)
          /\ from[n + 1] = Len(text) + 1
    BY Zenon DEF IsReply
  <1>3. from = CHOOSE f : Steps(f)
    BY Zenon DEF Behind
  <1> HIDE DEF n, from
  <1>4. at \in [1 .. n + 1 -> Nat] /\ \A i \in 1 .. n : at[i + 1] = Behind(text, at[i] + Len(pieces[i]))
    BY DEF CutsAt, n
  <1>5. Steps(at)
    <2>1. ASSUME NEW i \in 1 .. n + 1, i # 1
          PROVE  at[i] = Behind(text, at[i - 1] + Len(pieces[i - 1]))
      <3>1. i - 1 \in 1 .. n /\ (i - 1) + 1 = i
        BY <1>1, <2>1
      <3> QED BY <3>1, <1>4
    <2> QED BY <2>1, <1>4
  <1>6. Steps(from)
    BY <1>3, <1>5, Zenon
  <1> HIDE DEF Steps
  <1> DEFINE Odd == {i \in 1 .. n + 1 : from[i] # at[i]}
  <1>7. Odd = {}
    <2> SUFFICES ASSUME Odd # {} PROVE FALSE
      OBVIOUS
    <2>1. Odd \subseteq Nat
      BY <1>1
    <2>2. PICK i \in Odd : \A j \in Odd : i <= j
      BY <2>1, LeastMember
    <2>3. CASE i = 1
      <3>1. 1 \in 1 .. n + 1
        BY <1>1
      <3> QED BY <3>1, <2>3, <1>6 DEF Steps
    <2>4. CASE i # 1
      <3>1. i - 1 \in 1 .. n + 1 /\ ~(i <= i - 1) /\ i \in 1 .. n + 1
        BY <2>4, <1>1
      <3>2. from[i - 1] = at[i - 1]
        BY <3>1, <2>2
      <3> QED BY <3>1, <3>2, <2>4, <1>5, <1>6 DEF Steps
    <2> QED BY <2>3, <2>4
  <1>8. n + 1 \in 1 .. n + 1 /\ \A i \in 1 .. n : i \in 1 .. n + 1
    BY <1>1
  <1>9. \A i \in 1 .. n + 1 : from[i] = at[i]
    BY <1>7
  <1> QED BY <1>1, <1>2, <1>8, <1>9 DEF CutsAt, n

(* Whatever a text is made of, its pieces fit and make it up.              *)
LEMMA SplitIsReply ==
  ASSUME NEW S, NEW text \in Seq(S)
  PROVE  /\ IsReply(Split(text), text)
         /\ Split(text) \in Seq(Seq(S)) /\ Split(text) # <<>>
  <1> DEFINE L == Len(text)
             Parts == Seq(Seq(S))
             Step(f, p) == IF p > L THEN <<>> ELSE <<Piece(text, p)>> \o f[Behind(text, Upto(text, p))]
             chunks == CHOOSE f : f = [from \in 1 .. L + 1 |->
                          IF from > L THEN <<>>
                          ELSE LET upto == from + ChunkLength(SubSeq(text, from, Len(text)))
                               IN <<SubSeq(text, from, upto - 1)>> \o f[Behind(text, upto)]]
             Ends(f, p) == \A q \in p .. L + 1 : f[q] = Step(f, q)
             Missing == {k \in 0 .. L : ~ \E f \in [L + 1 - k .. L + 1 -> Parts] : Ends(f, L + 1 - k)}
  <1>1. L \in Nat
    OBVIOUS
  <1>2. Missing = {}
    <2> SUFFICES ASSUME Missing # {} PROVE FALSE
      OBVIOUS
    <2>1. Missing \subseteq Nat
      BY <1>1
    <2>2. PICK k \in Missing : \A j \in Missing : k <= j
      BY <2>1, LeastMember
    <2>3. k \in 0 .. L
      OBVIOUS
    <2>4. k # 0
      <3> DEFINE f == [q \in L + 1 .. L + 1 |-> <<>>]
      <3>1. f \in [L + 1 .. L + 1 -> Parts]
        OBVIOUS
      <3>2. Ends(f, L + 1)
        BY <1>1
      <3>3. 0 \notin Missing
        <4>1. L + 1 - 0 = L + 1
          BY <1>1
        <4> QED BY <3>1, <3>2, <4>1
      <3> QED BY <3>3
    <2>5. k - 1 \in 0 .. L /\ ~(k <= k - 1) /\ L + 1 - k \in 1 .. L /\ L + 1 - (k - 1) = (L + 1 - k) + 1
      BY <1>1, <2>3, <2>4
    <2>6. k - 1 \notin Missing
      <3> HIDE DEF Missing
      <3> QED BY <2>2, <2>5
    <2> DEFINE p == L + 1 - k
    <2>7. PICK f \in [p + 1 .. L + 1 -> Parts] : Ends(f, p + 1)
      BY <2>5, <2>6
    <2>8. p \in 1 .. L
      BY <2>5
    <2> HIDE DEF p
    <2>9. Behind(text, Upto(text, p)) \in p + 1 .. L + 1 /\ Piece(text, p) \in Seq(S)
      BY <2>8, PieceFits
    <2> DEFINE new == <<Piece(text, p)>> \o f[Behind(text, Upto(text, p))]
               g == [q \in p .. L + 1 |-> IF q = p THEN new ELSE f[q]]
    <2>10. new \in Parts
      <3>1. f[Behind(text, Upto(text, p))] \in Parts
        BY <2>7, <2>9
      <3> QED BY <3>1, <2>9
    <2>11. g \in [p .. L + 1 -> Parts]
      <3>1. \A q \in p .. L + 1 : q # p => q \in p + 1 .. L + 1
        BY <2>8, <1>1
      <3> HIDE DEF new
      <3> QED BY <3>1, <2>7, <2>10
    <2>12. Ends(g, p)
      <3> SUFFICES ASSUME NEW q \in p .. L + 1 PROVE g[q] = Step(g, q)
        OBVIOUS
      <3>1. CASE q = p
        <4>1. ~(p > L) /\ Behind(text, Upto(text, p)) \in p .. L + 1 /\ Behind(text, Upto(text, p)) # p
          BY <2>8, <2>9, <1>1
        <4> QED BY <3>1, <4>1
      <3>2. CASE q # p /\ q > L
        <4>1. q \in p + 1 .. L + 1
          BY <3>2, <2>8, <1>1
        <4> QED BY <3>2, <4>1, <2>7
      <3>3. CASE q # p /\ ~(q > L)
        <4>1. q \in p + 1 .. L + 1 /\ q \in 1 .. L
          BY <3>3, <2>8, <1>1
        <4>2. Behind(text, Upto(text, q)) \in q + 1 .. L + 1
          BY <4>1, PieceFits
        <4>3. Behind(text, Upto(text, q)) \in p .. L + 1 /\ Behind(text, Upto(text, q)) # p
          BY <4>1, <4>2, <2>8, <1>1
        <4>4. g[Behind(text, Upto(text, q))] = f[Behind(text, Upto(text, q))]
          BY <4>3
        <4>5. g[q] = f[q] /\ f[q] = Step(f, q)
          BY <3>3, <4>1, <2>7
        <4> HIDE DEF g
        <4> QED BY <3>3, <4>4, <4>5
      <3> QED BY <3>1, <3>2, <3>3
    <2> QED BY <2>2, <2>11, <2>12 DEF p
  <1>3. PICK f \in [1 .. L + 1 -> Parts] : Ends(f, 1)
    <2>1. L \in 0 .. L /\ L + 1 - L = 1
      BY <1>1
    <2>2. L \notin Missing
      BY <1>2
    <2> QED BY <2>1, <2>2
  <1>4. chunks = CHOOSE h : h = [p \in 1 .. L + 1 |-> Step(h, p)]
    BY Zenon DEF Piece, Upto
  <1>5. Split(text) = IF Bytes(text) <= MaxLength THEN <<text>> ELSE chunks[1]
    BY Zenon DEF Split
  <1> HIDE DEF chunks
  <1>6. f = [p \in 1 .. L + 1 |-> Step(f, p)]
    BY <1>3
  <1>7. chunks = [p \in 1 .. L + 1 |-> Step(chunks, p)]
    BY <1>4, <1>6, Zenon
  <1> DEFINE Good(p) == chunks[p] \in Parts /\ \E at : CutsAt(text, chunks[p], at) /\ at[1] = p
             Odd == {k \in 0 .. L : ~Good(L + 1 - k)}
  <1>8. Good(L + 1)
    <2>1. chunks[L + 1] = <<>>
      BY <1>1, <1>7
    <2>2. CutsAt(text, <<>>, [i \in 1 .. 1 |-> L + 1])
      BY <1>1 DEF CutsAt
    <2> QED BY <2>1, <2>2
  <1>9. ASSUME NEW p \in 1 .. L, \A q \in p + 1 .. L + 1 : Good(q)
        PROVE  Good(p)
    <2> DEFINE q == Behind(text, Upto(text, p))
    <2>1. q \in p + 1 .. L + 1 /\ Piece(text, p) \in Seq(S)
      BY PieceFits
    <2>2. chunks[p] = <<Piece(text, p)>> \o chunks[q]
      <3>1. p \in 1 .. L + 1 /\ ~(p > L)
        BY <1>1
      <3> QED BY <3>1, <1>7
    <2> HIDE DEF q
    <2>3. chunks[q] \in Parts /\ \E at : CutsAt(text, chunks[q], at) /\ at[1] = q
      BY <2>1, <1>9
    <2>4. PICK at : CutsAt(text, chunks[q], at) /\ at[1] = q
      BY <2>3
    <2>5. \E before : CutsAt(text, <<Piece(text, p)>> \o chunks[q], before) /\ before[1] = p
      BY <2>3, <2>4, OneMorePiece DEF q
    <2>6. <<Piece(text, p)>> \o chunks[q] \in Parts
      BY <2>1, <2>3
    <2> QED BY <2>2, <2>5, <2>6, Zenon
  <1>10. Odd = {}
    <2> HIDE DEF Good
    <2> SUFFICES ASSUME Odd # {} PROVE FALSE
      OBVIOUS
    <2>1. Odd \subseteq Nat
      BY <1>1
    <2>2. PICK k \in Odd : \A j \in Odd : k <= j
      BY <2>1, LeastMember
    <2>3. k \in 0 .. L /\ ~Good(L + 1 - k)
      OBVIOUS
    <2>4. k # 0
      <3>1. k = 0 => L + 1 - k = L + 1
        BY <1>1
      <3> QED BY <3>1, <2>3, <1>8
    <2>5. L + 1 - k \in 1 .. L
      BY <2>3, <2>4, <1>1
    <2>6. ASSUME NEW q \in (L + 1 - k) + 1 .. L + 1 PROVE Good(q)
      <3>1. L + 1 - q \in 0 .. L /\ ~(k <= L + 1 - q) /\ L + 1 - (L + 1 - q) = q
        BY <2>3, <2>5, <1>1
      <3>2. L + 1 - q \notin Odd
        BY <3>1, <2>2
      <3> QED BY <3>1, <3>2
    <2> QED BY <2>3, <2>5, <2>6, <1>9
  <1>11. Good(1)
    <2>1. L \in 0 .. L /\ L + 1 - L = 1
      BY <1>1
    <2> HIDE DEF Good
    <2> QED BY <2>1, <1>10
  <1>12. CASE Bytes(text) <= MaxLength
    <2> DEFINE at == [i \in 1 .. 2 |-> IF i = 1 THEN 1 ELSE L + 1]
    <2>1. at \in [1 .. 1 + 1 -> Nat] /\ at[1] = 1 /\ at[2] = L + 1
      BY <1>1
    <2>2. SubSeq(text, 1, 1 + L - 1) = text /\ Behind(text, 1 + L) = L + 1
      BY <1>1 DEF Behind
    <2> HIDE DEF at
    <2>3. CutsAt(text, <<text>>, at)
      <3>1. Len(<<text>>) = 1 /\ <<text>>[1] = text /\ 1 .. 1 = {1} /\ 1 + 1 = 2
        OBVIOUS
      <3> QED BY <3>1, <2>1, <2>2, <1>12 DEF CutsAt
    <2>4. <<text>> \in Parts
      OBVIOUS
    <2>5. IsReply(<<text>>, text)
      BY <2>1, <2>3, <2>4, CutsMakeReply
    <2> QED BY <2>4, <2>5, <1>5, <1>12
  <1>13. CASE ~(Bytes(text) <= MaxLength)
    <2>1. chunks[1] \in Parts
      BY <1>11
    <2>2. PICK at : CutsAt(text, chunks[1], at) /\ at[1] = 1
      BY <1>11
    <2>3. IsReply(chunks[1], text)
      BY <2>1, <2>2, CutsMakeReply
    <2>4. chunks[1] # <<>>
      <3> SUFFICES ASSUME chunks[1] = <<>> PROVE FALSE
        OBVIOUS
      <3>1. at[0 + 1] = L + 1
        BY <2>2 DEF CutsAt
      <3>2. L = 0
        BY <3>1, <2>2, <1>1
      <3>3. SubSeq(text, 1, 0) = text
        BY <3>2
      <3>4. Bytes(SubSeq(text, 1, 0)) <= MaxLength
        BY LittleFits
      <3> QED BY <3>3, <3>4, <1>13
    <2> QED BY <2>1, <2>3, <2>4, <1>5, <1>13
  <1> QED BY <1>12, <1>13

-------------------------------------------------------------------------------
(* The replies of ChannelMessages, in their order.                         *)
(* What replies are made of: strings, of which "e" is an error's text.      *)
Characters == STRING \cup {"e"}

LEMMA TextsAre ==
  /\ \A reply \in Replies \cup Drafts : reply \in Seq(Characters)
  /\ <<"e">> \in Seq(Characters)
  <1>1. ASSUME NEW reply \in Replies \cup Drafts PROVE reply \in Seq(Characters)
    <2>1. reply \in Seq(STRING)
      BY ChannelConstants
    <2>2. Len(reply) \in Nat /\ DOMAIN reply = 1 .. Len(reply) /\ \A i \in 1 .. Len(reply) : reply[i] \in Characters
      BY <2>1 DEF Characters
    <2> QED BY <2>1 DEF Characters
  <1>2. "e" \in Characters
    BY DEF Characters
  <1>3. <<"e">> \in Seq(Characters)
    BY <1>2
  <1> QED BY <1>1, <1>3

Handler ==
  [at : {"new", "ignored", "command", "turn", "sending", "done", "failed", "quit"},
   surface : {"none"} \cup {from.surface : from \in Origins},
   kind : {"none"} \cup {from.kind : from \in Origins}, known : BOOLEAN,
   reply : Seq(Characters), todo : Seq(Seq(Characters)), next : Nat \ {0}, tries : Nat]

PostsOf(m, line) == {i \in DOMAIN line : line[i][1] = m}
TimesOf(post, line) == {i \in DOMAIN line : line[i] = post}

(* What the two halves of RepliesKeepTheirOrder say of one message.        *)
WithoutGaps(m, line) ==
  \A i \in PostsOf(m, line) : line[i][2] = Cardinality({j \in 1 .. i : line[j][1] = m})
NeverBack(m, line) ==
  \A i \in PostsOf(m, line) :
    /\ \A j \in 1 .. i : line[j][1] = m => line[j][2] <= line[i][2]
    /\ Cardinality({j \in 1 .. i : line[j] = line[i]}) <= 2

(* What the handler h of message m knows of what the chat shows: nothing   *)
(* before it sends, and where a chunk may stand already that it tries again. *)
Knows(h, m, line) ==
  /\ h.at \in {"new", "command", "turn"} => PostsOf(m, line) = {} /\ h.next = 1 /\ h.tries = 0
  /\ h.at = "sending" => h.todo # <<>>
  /\ h.surface # "telegram" =>
       /\ WithoutGaps(m, line)
       /\ h.at = "sending" => Cardinality(PostsOf(m, line)) = h.next - 1
  /\ h.surface = "telegram" =>
       /\ NeverBack(m, line)
       /\ h.at = "sending" =>
            /\ h.tries <= 1 /\ Cardinality(TimesOf(<<m, h.next>>, line)) <= h.tries
            /\ \A i \in PostsOf(m, line) : line[i][2] <= h.next

ChannelInv ==
  /\ handler \in [Inbound -> Handler]
  /\ timeline \in Seq(Inbound \X Nat)
  /\ \A m \in Inbound : Knows(handler[m], m, timeline)

LEMMA LineIs ==
  ASSUME NEW line \in Seq(Inbound \X Nat)
  PROVE  /\ Len(line) \in Nat /\ DOMAIN line = 1 .. Len(line)
         /\ \A i \in 1 .. Len(line) : line[i] \in Inbound \X Nat /\ line[i] = <<line[i][1], line[i][2]>>
         /\ \A m : IsFiniteSet(PostsOf(m, line)) /\ Cardinality(PostsOf(m, line)) \in Nat
         /\ \A post : IsFiniteSet(TimesOf(post, line)) /\ Cardinality(TimesOf(post, line)) \in Nat
  <1>1. Len(line) \in Nat /\ DOMAIN line = 1 .. Len(line)
    OBVIOUS
  <1>2. \A i \in 1 .. Len(line) : line[i] \in Inbound \X Nat
    OBVIOUS
  <1>3. \A i \in 1 .. Len(line) : line[i] = <<line[i][1], line[i][2]>>
    BY <1>2
  <1>4. IsFiniteSet(1 .. Len(line))
    BY <1>1, FS_Interval
  <1>5. ASSUME NEW m PROVE IsFiniteSet(PostsOf(m, line)) /\ Cardinality(PostsOf(m, line)) \in Nat
    <2>1. PostsOf(m, line) \in SUBSET (1 .. Len(line))
      BY <1>1 DEF PostsOf
    <2> QED BY <2>1, <1>4, FS_Subset, FS_CardinalityType
  <1>6. ASSUME NEW post PROVE IsFiniteSet(TimesOf(post, line)) /\ Cardinality(TimesOf(post, line)) \in Nat
    <2>1. TimesOf(post, line) \in SUBSET (1 .. Len(line))
      BY <1>1 DEF TimesOf
    <2> QED BY <2>1, <1>4, FS_Subset, FS_CardinalityType
  <1> QED BY <1>1, <1>2, <1>3, <1>5, <1>6

(* One post more: what stood in the chat stands there still.               *)
OnePostMore(line, more, m, n) ==
  /\ Len(line) \in Nat /\ Len(more) = Len(line) + 1 /\ DOMAIN more = 1 .. Len(line) + 1
  /\ more[Len(line) + 1] = <<m, n>> /\ \A i \in 1 .. Len(line) : more[i] = line[i]
  /\ \A k : k # m => PostsOf(k, more) = PostsOf(k, line)
  /\ PostsOf(m, more) = PostsOf(m, line) \cup {Len(line) + 1}
  /\ Cardinality(PostsOf(m, more)) = Cardinality(PostsOf(m, line)) + 1
  /\ Cardinality(TimesOf(<<m, n>>, more)) = Cardinality(TimesOf(<<m, n>>, line)) + 1
  /\ \A k, l : <<k, l>> # <<m, n>> => TimesOf(<<k, l>>, more) = TimesOf(<<k, l>>, line)

LEMMA AppendPosts ==
  ASSUME NEW line \in Seq(Inbound \X Nat), NEW m \in Inbound, NEW n \in Nat
  PROVE  Append(line, <<m, n>>) \in Seq(Inbound \X Nat) /\ OnePostMore(line, Append(line, <<m, n>>), m, n)
  <1> DEFINE more == Append(line, <<m, n>>)
             L == Len(line)
  <1>1. L \in Nat /\ DOMAIN line = 1 .. L
    OBVIOUS
  <1>2. /\ more \in Seq(Inbound \X Nat) /\ Len(more) = L + 1 /\ DOMAIN more = 1 .. L + 1
        /\ more[L + 1] = <<m, n>> /\ \A i \in 1 .. L : more[i] = line[i]
    OBVIOUS
  <1> HIDE DEF more
  <1>3. 1 .. L + 1 = 1 .. L \cup {L + 1} /\ L + 1 \notin 1 .. L
    BY <1>1
  <1> HIDE DEF L
  <1>4. more[L + 1][1] = m
    BY <1>2
  <1>5. ASSUME NEW k, k # m PROVE PostsOf(k, more) = PostsOf(k, line)
    BY <1>1, <1>2, <1>3, <1>4, <1>5 DEF PostsOf
  <1>6. PostsOf(m, more) = PostsOf(m, line) \cup {L + 1} /\ L + 1 \notin PostsOf(m, line)
    BY <1>1, <1>2, <1>3, <1>4 DEF PostsOf
  <1>7. TimesOf(<<m, n>>, more) = TimesOf(<<m, n>>, line) \cup {L + 1} /\ L + 1 \notin TimesOf(<<m, n>>, line)
    <2> DEFINE post == <<m, n>>
    <2>1. more[L + 1] = post
      BY <1>2
    <2> HIDE DEF post
    <2>2. TimesOf(post, more) = TimesOf(post, line) \cup {L + 1} /\ L + 1 \notin TimesOf(post, line)
      BY <1>1, <1>2, <1>3, <2>1 DEF TimesOf
    <2> QED BY <2>2 DEF post
  <1>8. ASSUME NEW k, NEW l, <<k, l>> # <<m, n>> PROVE TimesOf(<<k, l>>, more) = TimesOf(<<k, l>>, line)
    <2> DEFINE post == <<k, l>>
    <2>1. more[L + 1] # post
      BY <1>2, <1>8
    <2> HIDE DEF post
    <2>2. TimesOf(post, more) = TimesOf(post, line)
      BY <1>1, <1>2, <1>3, <2>1 DEF TimesOf
    <2> QED BY <2>2 DEF post
  <1>9. Cardinality(PostsOf(m, more)) = Cardinality(PostsOf(m, line)) + 1
    BY <1>6, LineIs, FS_AddElement
  <1>10. Cardinality(TimesOf(<<m, n>>, more)) = Cardinality(TimesOf(<<m, n>>, line)) + 1
    BY <1>7, LineIs, FS_AddElement
  <1> QED BY <1>2, <1>5, <1>6, <1>7, <1>8, <1>1, <1>9, <1>10 DEF L, more, OnePostMore

(* A post of another message changes nothing for this one.                 *)
LEMMA PostOfAnother ==
  ASSUME NEW line \in Seq(Inbound \X Nat), NEW m \in Inbound, NEW n \in Nat, NEW k \in Inbound, k # m,
         NEW h, Knows(h, k, line), NEW more, OnePostMore(line, more, m, n)
  PROVE  Knows(h, k, more)
  <1> DEFINE L == Len(line)
  <1>1. /\ \A i \in 1 .. L : more[i] = line[i]
        /\ PostsOf(k, more) = PostsOf(k, line)
        /\ TimesOf(<<k, h.next>>, more) = TimesOf(<<k, h.next>>, line)
    <2>1. <<k, h.next>> # <<m, n>>
      OBVIOUS
    <2>2. (\A i \in 1 .. L : more[i] = line[i]) /\ PostsOf(k, more) = PostsOf(k, line)
      BY DEF OnePostMore
    <2>3. TimesOf(<<k, h.next>>, more) = TimesOf(<<k, h.next>>, line)
      BY <2>1 DEF OnePostMore
    <2> QED BY <2>2, <2>3
  <1>2. \A i \in PostsOf(k, line) : i \in 1 .. L /\ \A j \in 1 .. i : j \in 1 .. L
    BY LineIs DEF PostsOf
  <1> HIDE DEF L
  <1>3. ASSUME NEW i \in PostsOf(k, line)
        PROVE  /\ more[i] = line[i] /\ \A j \in 1 .. i : more[j] = line[j]
               /\ {j \in 1 .. i : more[j][1] = k} = {j \in 1 .. i : line[j][1] = k}
               /\ {j \in 1 .. i : more[j] = more[i]} = {j \in 1 .. i : line[j] = line[i]}
    BY <1>1, <1>2
  <1>4. WithoutGaps(k, line) => WithoutGaps(k, more)
    BY <1>1, <1>3 DEF WithoutGaps
  <1>5. NeverBack(k, line) => NeverBack(k, more)
    BY <1>1, <1>3 DEF NeverBack
  <1>6. (\A i \in PostsOf(k, line) : line[i][2] <= h.next) => \A i \in PostsOf(k, more) : more[i][2] <= h.next
    BY <1>1, <1>3
  <1> QED BY <1>1, <1>4, <1>5, <1>6 DEF Knows

(* The next chunk of a message behind the ones posted.                     *)
LEMMA PostOfItsOwn ==
  ASSUME NEW line \in Seq(Inbound \X Nat), NEW m \in Inbound, NEW h \in Handler, h.at = "sending", Knows(h, m, line),
         NEW more, OnePostMore(line, more, m, h.next)
  PROVE  /\ h.surface # "telegram" => WithoutGaps(m, more) /\ Cardinality(PostsOf(m, more)) = h.next
         /\ h.surface = "telegram" =>
              /\ NeverBack(m, more) /\ Cardinality(TimesOf(<<m, h.next>>, more)) <= h.tries + 1
              /\ \A i \in PostsOf(m, more) : more[i][2] <= h.next
  <1> DEFINE n == h.next
             L == Len(line)
  <1>1. n \in Nat /\ n # 0 /\ h.tries \in Nat
    BY DEF Handler
  <1>2. /\ L \in Nat /\ DOMAIN more = 1 .. L + 1 /\ more[L + 1] = <<m, n>>
        /\ \A i \in 1 .. L : more[i] = line[i]
        /\ PostsOf(m, more) = PostsOf(m, line) \cup {L + 1}
        /\ Cardinality(PostsOf(m, more)) = Cardinality(PostsOf(m, line)) + 1
        /\ Cardinality(TimesOf(<<m, n>>, more)) = Cardinality(TimesOf(<<m, n>>, line)) + 1
    BY DEF OnePostMore
  <1>3. \A i \in PostsOf(m, line) : i \in 1 .. L /\ \A j \in 1 .. i : j \in 1 .. L
    BY LineIs DEF PostsOf
  <1>4. Cardinality(PostsOf(m, line)) \in Nat /\ Cardinality(TimesOf(<<m, n>>, line)) \in Nat
    BY LineIs
  <1> HIDE DEF L, n
  <1>5. more[L + 1][1] = m /\ more[L + 1][2] = n
    BY <1>2
  <1>6. ASSUME NEW i \in PostsOf(m, line)
        PROVE  /\ more[i] = line[i] /\ \A j \in 1 .. i : more[j] = line[j]
               /\ {j \in 1 .. i : more[j][1] = m} = {j \in 1 .. i : line[j][1] = m}
               /\ {j \in 1 .. i : more[j] = more[i]} = {j \in 1 .. i : line[j] = line[i]}
    BY <1>2, <1>3
  <1>7. {j \in 1 .. L + 1 : more[j][1] = m} = PostsOf(m, more)
    BY <1>2 DEF PostsOf
  <1>8. {j \in 1 .. L + 1 : more[j] = more[L + 1]} = TimesOf(<<m, n>>, more)
    BY <1>2 DEF TimesOf
  <1>9. ASSUME h.surface # "telegram"
        PROVE  WithoutGaps(m, more) /\ Cardinality(PostsOf(m, more)) = n
    <2>1. WithoutGaps(m, line) /\ Cardinality(PostsOf(m, line)) = n - 1
      BY <1>9 DEF Knows, n
    <2>2. Cardinality(PostsOf(m, more)) = n
      BY <2>1, <1>1, <1>2
    <2>3. \A i \in PostsOf(m, line) : more[i][2] = Cardinality({j \in 1 .. i : more[j][1] = m})
      BY <2>1, <1>6 DEF WithoutGaps
    <2>4. more[L + 1][2] = Cardinality({j \in 1 .. L + 1 : more[j][1] = m})
      BY <2>2, <1>5, <1>7
    <2> QED BY <2>2, <2>3, <2>4, <1>2 DEF WithoutGaps
  <1>10. ASSUME h.surface = "telegram"
         PROVE  /\ NeverBack(m, more) /\ Cardinality(TimesOf(<<m, n>>, more)) <= h.tries + 1
                /\ \A i \in PostsOf(m, more) : more[i][2] <= n
    <2>1. /\ NeverBack(m, line) /\ h.tries <= 1 /\ Cardinality(TimesOf(<<m, n>>, line)) <= h.tries
          /\ \A i \in PostsOf(m, line) : line[i][2] <= n
      BY <1>10 DEF Knows, n
    <2>2. Cardinality(TimesOf(<<m, n>>, more)) <= h.tries + 1 /\ Cardinality(TimesOf(<<m, n>>, more)) <= 2
      BY <2>1, <1>1, <1>2, <1>4
    <2>3. \A i \in PostsOf(m, more) : more[i][2] <= n
      BY <2>1, <1>1, <1>2, <1>5, <1>6
    <2>4. ASSUME NEW i \in PostsOf(m, line)
          PROVE  /\ \A j \in 1 .. i : more[j][1] = m => more[j][2] <= more[i][2]
                 /\ Cardinality({j \in 1 .. i : more[j] = more[i]}) <= 2
      BY <2>1, <1>6 DEF NeverBack
    <2>5. /\ \A j \in 1 .. L + 1 : more[j][1] = m => more[j][2] <= more[L + 1][2]
          /\ Cardinality({j \in 1 .. L + 1 : more[j] = more[L + 1]}) <= 2
      BY <2>2, <2>3, <1>5, <1>7, <1>8
    <2> QED BY <2>2, <2>3, <2>4, <2>5, <1>2 DEF NeverBack
  <1> QED BY <1>9, <1>10 DEF n

(* A message nothing of which was posted yet.                              *)
LEMMA NothingPosted ==
  ASSUME NEW line \in Seq(Inbound \X Nat), NEW m \in Inbound, PostsOf(m, line) = {},
         NEW h \in Handler, h.next = 1, h.tries = 0, h.at = "sending" => h.todo # <<>>
  PROVE  Knows(h, m, line)
  <1>1. WithoutGaps(m, line) /\ NeverBack(m, line)
    BY DEF WithoutGaps, NeverBack
  <1>2. Cardinality(PostsOf(m, line)) = 0
    BY FS_EmptySet
  <1>3. ASSUME NEW n PROVE TimesOf(<<m, n>>, line) = {}
    <2> DEFINE post == <<m, n>>
    <2>1. post[1] = m
      OBVIOUS
    <2> HIDE DEF post
    <2>2. TimesOf(post, line) = {}
      BY <2>1 DEF TimesOf, PostsOf
    <2> QED BY <2>2 DEF post
  <1>4. Cardinality(TimesOf(<<m, h.next>>, line)) = 0
    BY <1>3, FS_EmptySet
  <1> QED BY <1>1, <1>2, <1>4 DEF Knows

(* What a handler needs to know when it has a chunk behind it.             *)
LEMMA NextChunk ==
  ASSUME NEW line \in Seq(Inbound \X Nat), NEW m \in Inbound, NEW h \in Handler, NEW next \in Handler,
         next.surface = h.surface, next.next = h.next + 1, next.tries = 0, next.at \in {"sending", "done"},
         next.at = "sending" => next.todo # <<>>,
         h.surface # "telegram" => WithoutGaps(m, line) /\ Cardinality(PostsOf(m, line)) = h.next,
         h.surface = "telegram" => NeverBack(m, line) /\ \A i \in PostsOf(m, line) : line[i][2] <= h.next
  PROVE  Knows(next, m, line)
  <1>1. h.next \in Nat /\ h.next # 0 /\ next.next - 1 = h.next
    BY DEF Handler
  <1>2. ASSUME h.surface = "telegram"
        PROVE  /\ Cardinality(TimesOf(<<m, next.next>>, line)) = 0
               /\ \A i \in PostsOf(m, line) : line[i][2] <= next.next
    <2>1. \A i \in PostsOf(m, line) : line[i][2] \in Nat /\ line[i][2] <= h.next
      BY <1>2, LineIs DEF PostsOf
    <2> DEFINE post == <<m, next.next>>
    <2>2. post[1] = m /\ post[2] = h.next + 1
      OBVIOUS
    <2> HIDE DEF post
    <2>3. TimesOf(post, line) = {}
      <3> SUFFICES ASSUME NEW i \in TimesOf(post, line) PROVE FALSE
        OBVIOUS
      <3>1. i \in PostsOf(m, line) /\ line[i][2] = h.next + 1
        BY <2>2 DEF TimesOf, PostsOf
      <3> QED BY <3>1, <2>1, <1>1
    <2>4. Cardinality(TimesOf(<<m, next.next>>, line)) = 0
      BY <2>3, FS_EmptySet DEF post
    <2>5. \A i \in PostsOf(m, line) : line[i][2] <= next.next
      BY <2>1, <1>1
    <2> QED BY <2>4, <2>5
  <1> QED BY <1>1, <1>2 DEF Knows

LEMMA HandlerIs ==
  ASSUME ChannelInv, NEW m \in Inbound
  PROVE  /\ handler[m] \in Handler /\ timeline \in Seq(Inbound \X Nat) /\ Knows(handler[m], m, timeline)
         /\ handler[m].next \in Nat /\ handler[m].next # 0 /\ handler[m].tries \in Nat
         /\ handler[m].reply \in Seq(Characters) /\ handler[m].todo \in Seq(Seq(Characters))
  <1>1. handler[m] \in Handler /\ timeline \in Seq(Inbound \X Nat) /\ Knows(handler[m], m, timeline)
    BY DEF ChannelInv
  <1> QED BY <1>1 DEF Handler

(* A step of one handler, with its post or without.                        *)
LEMMA HandlerSteps ==
  ASSUME ChannelInv, NEW m \in Inbound, NEW next \in Handler, Set(m, next),
         UNCHANGED timeline \/ Post(m), Knows(next, m, timeline')
  PROVE  ChannelInv'
  <1>1. handler \in [Inbound -> Handler] /\ handler' = [handler EXCEPT ![m] = next]
    BY DEF ChannelInv, Set
  <1>2. handler' \in [Inbound -> Handler] /\ handler'[m] = next /\ \A k \in Inbound \ {m} : handler'[k] = handler[k]
    BY <1>1
  <1>3. handler[m].next \in Nat /\ timeline \in Seq(Inbound \X Nat)
    BY HandlerIs
  <1>4. timeline' \in Seq(Inbound \X Nat) /\ \A k \in Inbound \ {m} : Knows(handler[k], k, timeline')
    <2>1. CASE UNCHANGED timeline
      BY <2>1, <1>3 DEF ChannelInv
    <2>2. CASE Post(m)
      <3>1. timeline' = Append(timeline, <<m, handler[m].next>>)
        BY <2>2 DEF Post
      <3>2. timeline' \in Seq(Inbound \X Nat) /\ OnePostMore(timeline, timeline', m, handler[m].next)
        BY <3>1, <1>3, AppendPosts
      <3>3. \A k \in Inbound \ {m} : Knows(handler[k], k, timeline)
        BY DEF ChannelInv
      <3> QED BY <3>2, <3>3, <1>3, PostOfAnother
    <2> QED BY <2>1, <2>2
  <1>5. \A k \in Inbound : Knows(handler'[k], k, timeline')
    BY <1>2, <1>4
  <1> QED BY <1>2, <1>4, <1>5 DEF ChannelInv

LEMMA UnreadIs ==
  /\ Unread \in Handler /\ Unread.at = "new" /\ Unread.next = 1 /\ Unread.tries = 0
  /\ Unread.surface = "none" /\ Unread.todo = <<>>
  <1>1. <<>> \in Seq(Characters) /\ <<>> \in Seq(Seq(Characters)) /\ 1 \in Nat \ {0}
    OBVIOUS
  <1> QED BY <1>1 DEF Unread, Handler

(* A step of a handler that has posted nothing.                            *)
LEMMA BeforePosting ==
  ASSUME ChannelInv, NEW m \in Inbound, handler[m].at \in {"new", "command", "turn"},
         NEW next \in Handler, next.next = 1, next.tries = 0, next.at = "sending" => next.todo # <<>>,
         Set(m, next), UNCHANGED timeline
  PROVE  ChannelInv'
  <1>1. timeline \in Seq(Inbound \X Nat) /\ PostsOf(m, timeline) = {}
    BY HandlerIs DEF Knows
  <1>2. Knows(next, m, timeline)
    BY <1>1, NothingPosted
  <1> QED BY <1>2, HandlerSteps

LEMMA ReceiveKeeps == ASSUME ChannelInv, NEW m \in Inbound, ReceiveMessage(m) PROVE ChannelInv'
  <1>1. PICK from \in Origins, text \in Lines :
          LET mine == [Unread EXCEPT !.surface = from.surface, !.kind = from.kind] IN
          Set(m, IF IsIgnored(from, text) THEN [Unread EXCEPT !.at = "ignored"]
                 ELSE IF IsSlashCommand(text) \/ from.kind = "interaction"
                 THEN [mine EXCEPT !.at = "command", !.known = KnowsCommand(text)]
                 ELSE [mine EXCEPT !.at = "turn"])
    BY Zenon DEF ReceiveMessage
  <1> DEFINE mine == [Unread EXCEPT !.surface = from.surface, !.kind = from.kind]
             ignored == [Unread EXCEPT !.at = "ignored"]
             command == [mine EXCEPT !.at = "command", !.known = KnowsCommand(text)]
             turn == [mine EXCEPT !.at = "turn"]
  <1>2. handler[m].at = "new" /\ UNCHANGED timeline
    BY DEF ReceiveMessage
  <1>3. KnowsCommand(text) \in BOOLEAN
    BY DEF KnowsCommand
  <1>4. from.surface \in {"none"} \cup {o.surface : o \in Origins} /\ from.kind \in {"none"} \cup {o.kind : o \in Origins}
    OBVIOUS
  <1>5. ignored \in Handler /\ ignored.next = 1 /\ ignored.tries = 0 /\ ignored.at # "sending"
    BY UnreadIs DEF Handler
  <1>6. mine \in Handler /\ mine.next = 1 /\ mine.tries = 0
    BY <1>4, UnreadIs DEF Handler
  <1>7. Set(m, ignored) \/ Set(m, command) \/ Set(m, turn)
    BY <1>1, Zenon
  <1> HIDE DEF mine
  <1>8. /\ command \in Handler /\ command.next = 1 /\ command.tries = 0 /\ command.at # "sending"
        /\ turn \in Handler /\ turn.next = 1 /\ turn.tries = 0 /\ turn.at # "sending"
    <2> HIDE DEF ignored
    <2> QED BY <1>3, <1>6 DEF Handler
  <1> HIDE DEF ignored, command, turn
  <1> QED BY <1>2, <1>5, <1>7, <1>8, BeforePosting

LEMMA SendKeeps == ASSUME ChannelInv, NEW m \in Inbound, SendText(m) PROVE ChannelInv'
  <1>1. PICK from \in Origins, reply \in Drafts :
          Set(m, [Unread EXCEPT !.surface = from.surface, !.kind = from.kind, !.reply = reply,
                  !.todo = Split(reply), !.at = "sending"])
    BY DEF SendText
  <1> DEFINE todo == Split(reply)
             next == [Unread EXCEPT !.surface = from.surface, !.kind = from.kind, !.reply = reply,
                                    !.todo = todo, !.at = "sending"]
  <1>2. handler[m].at = "new" /\ UNCHANGED timeline
    BY DEF SendText
  <1>3. Set(m, next)
    BY <1>1
  <1>4. reply \in Seq(Characters) /\ todo \in Seq(Seq(Characters)) /\ todo # <<>>
    BY TextsAre, SplitIsReply
  <1>5. from.surface \in {"none"} \cup {o.surface : o \in Origins} /\ from.kind \in {"none"} \cup {o.kind : o \in Origins}
    OBVIOUS
  <1> HIDE DEF todo
  <1>6. next \in Handler /\ next.next = 1 /\ next.tries = 0 /\ next.todo # <<>>
    BY <1>4, <1>5, UnreadIs DEF Handler
  <1> HIDE DEF next
  <1> QED BY <1>2, <1>3, <1>6, BeforePosting

(* A command or a turn that has its reply.                                 *)
LEMMA RespondKeeps ==
  ASSUME ChannelInv, NEW m \in Inbound, handler[m].at \in {"command", "turn"}, NEW reply \in Seq(Characters),
         Respond(m, reply), UNCHANGED timeline
  PROVE  ChannelInv'
  <1> DEFINE todo == IF handler[m].kind = "interaction" \/ handler[m].surface = "cli" THEN <<reply>> ELSE Split(reply)
             next == [handler[m] EXCEPT !.known = FALSE, !.reply = reply, !.at = "sending", !.todo = todo]
  <1>1. Set(m, next)
    BY DEF Respond
  <1>2. todo \in Seq(Seq(Characters)) /\ todo # <<>>
    <2>1. <<reply>> \in Seq(Seq(Characters)) /\ <<reply>> # <<>>
      OBVIOUS
    <2> QED BY <2>1, SplitIsReply
  <1>3. handler[m] \in Handler /\ handler[m].next = 1 /\ handler[m].tries = 0
    BY HandlerIs DEF Knows
  <1> HIDE DEF todo
  <1>4. next \in Handler /\ next.next = 1 /\ next.tries = 0 /\ next.todo # <<>>
    BY <1>2, <1>3 DEF Handler
  <1> HIDE DEF next
  <1> QED BY <1>1, <1>4, BeforePosting

(* One that ends without a reply.                                          *)
LEMMA SilentEnd ==
  ASSUME ChannelInv, NEW m \in Inbound, handler[m].at \in {"command", "turn"}, UNCHANGED timeline,
         NEW at \in {"done", "failed", "quit"}, Set(m, [handler[m] EXCEPT !.at = at])
  PROVE  ChannelInv'
  <1> DEFINE next == [handler[m] EXCEPT !.at = at]
  <1>1. handler[m] \in Handler /\ handler[m].next = 1 /\ handler[m].tries = 0
    BY HandlerIs DEF Knows
  <1>2. next \in Handler /\ next.next = 1 /\ next.tries = 0 /\ next.at # "sending"
    BY <1>1 DEF Handler
  <1>3. Set(m, next)
    OBVIOUS
  <1> HIDE DEF next
  <1> QED BY <1>2, <1>3, BeforePosting

LEMMA AnswerKeeps == ASSUME ChannelInv, NEW m \in Inbound, AnswerCommand(m) PROVE ChannelInv'
  <1>1. handler[m].at = "command" /\ UNCHANGED timeline
    BY DEF AnswerCommand
  <1>2. (\E reply \in Replies : Respond(m, reply)) \/ Respond(m, <<"e">>) \/ Set(m, [handler[m] EXCEPT !.at = "failed"])
    BY DEF AnswerCommand
  <1> QED BY <1>1, <1>2, TextsAre, RespondKeeps, SilentEnd

LEMMA EndTurnKeeps == ASSUME ChannelInv, NEW m \in Inbound, EndMessageTurn(m) PROVE ChannelInv'
  <1>1. handler[m].at = "turn" /\ UNCHANGED timeline
    BY DEF EndMessageTurn
  <1>2. \/ \E reply \in Replies : Respond(m, reply)
        \/ Respond(m, <<"e">>)
        \/ Set(m, [handler[m] EXCEPT !.at = "done"]) \/ Set(m, [handler[m] EXCEPT !.at = "quit"])
    BY DEF EndMessageTurn
  <1> QED BY <1>1, <1>2, TextsAre, RespondKeeps, SilentEnd

-------------------------------------------------------------------------------
(* The chat after an attempt that posted, or that did not: what the        *)
(* handler may say of it before it goes on.                                *)
LEMMA AttemptTells ==
  ASSUME ChannelInv, NEW m \in Inbound, handler[m].at = "sending"
  PROVE  /\ Post(m) /\ handler[m].surface # "telegram" =>
              WithoutGaps(m, timeline') /\ Cardinality(PostsOf(m, timeline')) = handler[m].next
         /\ UNCHANGED timeline /\ handler[m].surface # "telegram" =>
              WithoutGaps(m, timeline') /\ Cardinality(PostsOf(m, timeline')) = handler[m].next - 1
         /\ UNCHANGED timeline \/ Post(m) =>
              /\ timeline' \in Seq(Inbound \X Nat)
              /\ handler[m].surface # "telegram" => WithoutGaps(m, timeline')
              /\ handler[m].surface = "telegram" =>
                   /\ NeverBack(m, timeline') /\ handler[m].tries <= 1
                   /\ Cardinality(TimesOf(<<m, handler[m].next>>, timeline')) <= handler[m].tries + 1
                   /\ \A i \in PostsOf(m, timeline') : timeline'[i][2] <= handler[m].next
  <1>1. /\ handler[m] \in Handler /\ timeline \in Seq(Inbound \X Nat) /\ Knows(handler[m], m, timeline)
        /\ handler[m].next \in Nat /\ handler[m].tries \in Nat
    BY HandlerIs
  <1>2. CASE UNCHANGED timeline
    <2>1. timeline' = timeline
      BY <1>2
    <2>2. handler[m].surface # "telegram" =>
            WithoutGaps(m, timeline) /\ Cardinality(PostsOf(m, timeline)) = handler[m].next - 1
      BY <1>1 DEF Knows
    <2>3. handler[m].surface = "telegram" =>
            /\ NeverBack(m, timeline) /\ handler[m].tries <= 1
            /\ Cardinality(TimesOf(<<m, handler[m].next>>, timeline)) <= handler[m].tries
            /\ \A i \in PostsOf(m, timeline) : timeline[i][2] <= handler[m].next
      BY <1>1 DEF Knows
    <2>4. Cardinality(TimesOf(<<m, handler[m].next>>, timeline)) \in Nat
      BY <1>1, LineIs
    <2>5. ~Post(m)
      <3> SUFFICES ASSUME Post(m) PROVE FALSE
        OBVIOUS
      <3>1. timeline = Append(timeline, <<m, handler[m].next>>)
        BY <2>1 DEF Post
      <3>2. Len(timeline) = Len(timeline) + 1 /\ Len(timeline) \in Nat
        BY <3>1, <1>1, AppendPosts DEF OnePostMore
      <3> QED BY <3>2
    <2>6. handler[m].surface = "telegram" =>
            Cardinality(TimesOf(<<m, handler[m].next>>, timeline)) <= handler[m].tries + 1
      BY <2>3, <2>4, <1>1
    <2> QED BY <2>1, <2>2, <2>3, <2>5, <2>6, <1>1, Zenon
  <1>3. CASE ~UNCHANGED timeline /\ Post(m)
    <2>1. timeline' \in Seq(Inbound \X Nat) /\ OnePostMore(timeline, timeline', m, handler[m].next)
      BY <1>1, <1>3, AppendPosts DEF Post
    <2>2. /\ handler[m].surface # "telegram" =>
               WithoutGaps(m, timeline') /\ Cardinality(PostsOf(m, timeline')) = handler[m].next
          /\ handler[m].surface = "telegram" =>
               /\ NeverBack(m, timeline')
               /\ Cardinality(TimesOf(<<m, handler[m].next>>, timeline')) <= handler[m].tries + 1
               /\ \A i \in PostsOf(m, timeline') : timeline'[i][2] <= handler[m].next
      BY <1>1, <2>1, PostOfItsOwn
    <2>3. handler[m].surface = "telegram" => handler[m].tries <= 1
      BY <1>1 DEF Knows
    <2> QED BY <1>3, <2>1, <2>2, <2>3, Zenon
  <1>4. CASE ~UNCHANGED timeline /\ ~Post(m)
    BY <1>4, Zenon
  <1> QED BY <1>2, <1>3, <1>4

(* The chunk is behind the handler: posted, or on Telegram given up.       *)
LEMMA AdvanceKeeps ==
  ASSUME ChannelInv, NEW m \in Inbound, handler[m].at = "sending", Advance(m),
         Post(m) \/ (UNCHANGED timeline /\ handler[m].surface = "telegram")
  PROVE  ChannelInv'
  <1> DEFINE h == handler[m]
             at == IF Len(h.todo) = 1 THEN "done" ELSE "sending"
             todo == Tail(h.todo)
             next == [h EXCEPT !.todo = todo, !.next = h.next + 1, !.tries = 0, !.at = at]
  <1>1. Set(m, next)
    BY DEF Advance
  <1>2. h \in Handler /\ h.next \in Nat /\ h.next # 0 /\ h.todo \in Seq(Seq(Characters)) /\ h.todo # <<>>
    BY HandlerIs DEF Knows
  <1>3. todo \in Seq(Seq(Characters)) /\ (at = "sending" => todo # <<>>)
    <2> HIDE DEF h
    <2>1. todo \in Seq(Seq(Characters)) /\ Len(todo) = Len(h.todo) - 1 /\ Len(h.todo) \in Nat
      BY <1>2, HeadTailProperties, LenProperties
    <2>2. at = "sending" => Len(todo) # 0
      BY <2>1, <1>2, EmptySeq
    <2>3. Len(<<>>) = 0
      OBVIOUS
    <2> HIDE DEF todo
    <2>4. at = "sending" => todo # <<>>
      BY <2>2, <2>3
    <2> QED BY <2>1, <2>4
  <1>4. h.next + 1 \in Nat \ {0} /\ at \in {"sending", "done"}
    BY <1>2
  <1> HIDE DEF todo, at
  <1>5. /\ next \in Handler /\ next.surface = h.surface /\ next.next = h.next + 1 /\ next.tries = 0
        /\ next.at = at /\ next.todo = todo
    BY <1>2, <1>3, <1>4 DEF Handler
  <1> HIDE DEF next
  <1>6. /\ timeline' \in Seq(Inbound \X Nat)
        /\ h.surface # "telegram" => WithoutGaps(m, timeline') /\ Cardinality(PostsOf(m, timeline')) = h.next
        /\ h.surface = "telegram" =>
             NeverBack(m, timeline') /\ \A i \in PostsOf(m, timeline') : timeline'[i][2] <= h.next
    BY AttemptTells
  <1> HIDE DEF h
  <1>7. Knows(next, m, timeline')
    BY <1>2, <1>3, <1>4, <1>5, <1>6, NextChunk
  <1> QED BY <1>1, <1>5, <1>7, HandlerSteps

(* The handler gives up.                                                   *)
LEMMA GiveKeeps ==
  ASSUME ChannelInv, NEW m \in Inbound, handler[m].at = "sending", handler[m].surface # "telegram",
         Give(m), UNCHANGED timeline \/ Post(m)
  PROVE  ChannelInv'
  <1> DEFINE next == [handler[m] EXCEPT !.todo = <<>>, !.at = "failed"]
  <1>1. Set(m, next)
    BY DEF Give
  <1>2. next \in Handler /\ next.at = "failed" /\ next.surface = handler[m].surface
    <2>1. handler[m] \in Handler /\ <<>> \in Seq(Seq(Characters))
      BY HandlerIs
    <2> QED BY <2>1 DEF Handler
  <1>3. WithoutGaps(m, timeline')
    BY AttemptTells
  <1> HIDE DEF next
  <1>4. Knows(next, m, timeline')
    BY <1>2, <1>3 DEF Knows
  <1> QED BY <1>1, <1>2, <1>4, HandlerSteps

(* The handler tries the chunk again.                                      *)
LEMMA TryAgainKeeps ==
  ASSUME ChannelInv, NEW m \in Inbound, handler[m].at = "sending", TryAgain(m),
         \/ UNCHANGED timeline /\ handler[m].surface # "telegram"
         \/ (UNCHANGED timeline \/ Post(m)) /\ handler[m].surface = "telegram" /\ handler[m].tries = 0
  PROVE  ChannelInv'
  <1> DEFINE next == [handler[m] EXCEPT !.tries = handler[m].tries + 1]
  <1>1. Set(m, next)
    BY DEF TryAgain
  <1>2. handler[m] \in Handler /\ handler[m].tries \in Nat /\ handler[m].todo # <<>>
    BY HandlerIs DEF Knows
  <1>3. /\ next \in Handler /\ next.at = "sending" /\ next.surface = handler[m].surface
        /\ next.next = handler[m].next /\ next.tries = handler[m].tries + 1 /\ next.todo = handler[m].todo
    <2>1. handler[m].tries + 1 \in Nat
      BY <1>2
    <2> QED BY <2>1, <1>2 DEF Handler
  <1> HIDE DEF next
  <1>4. Knows(next, m, timeline')
    <2>1. CASE UNCHANGED timeline /\ handler[m].surface # "telegram"
      <3>1. WithoutGaps(m, timeline') /\ Cardinality(PostsOf(m, timeline')) = next.next - 1
        BY <2>1, <1>3, AttemptTells
      <3> QED BY <2>1, <3>1, <1>2, <1>3 DEF Knows
    <2>2. CASE (UNCHANGED timeline \/ Post(m)) /\ handler[m].surface = "telegram" /\ handler[m].tries = 0
      <3>1. /\ NeverBack(m, timeline') /\ Cardinality(TimesOf(<<m, next.next>>, timeline')) <= next.tries
            /\ \A i \in PostsOf(m, timeline') : timeline'[i][2] <= next.next
        BY <2>2, <1>3, AttemptTells
      <3>2. next.tries <= 1
        BY <2>2, <1>3
      <3> QED BY <2>2, <3>1, <3>2, <1>2, <1>3 DEF Knows
    <2> QED BY <2>1, <2>2
  <1> QED BY <1>1, <1>3, <1>4, HandlerSteps

LEMMA PostKeeps == ASSUME ChannelInv, NEW m \in Inbound, PostChunk(m) PROVE ChannelInv'
  <1>1. CASE Delivered(m)
    BY <1>1, AdvanceKeeps DEF Delivered
  <1>2. CASE PostFails(m)
    <2>1. handler[m].at = "sending" /\ (UNCHANGED timeline \/ Post(m)) /\ AfterFailure(m)
      BY <1>2 DEF PostFails
    <2>2. CASE handler[m].surface = "telegram" /\ handler[m].tries = 0
      BY <2>1, <2>2, TryAgainKeeps DEF AfterFailure
    <2>3. CASE handler[m].surface = "telegram" /\ handler[m].tries # 0
      BY <2>1, <2>3, AdvanceKeeps DEF AfterFailure
    <2>4. CASE handler[m].surface # "telegram"
      BY <2>1, <2>4, GiveKeeps DEF AfterFailure
    <2> QED BY <2>2, <2>3, <2>4
  <1>3. CASE RateLimited(m)
    <2>1. handler[m].at = "sending" /\ handler[m].surface # "telegram" /\ UNCHANGED timeline /\ (TryAgain(m) \/ Give(m))
      BY <1>3 DEF RateLimited
    <2> QED BY <2>1, TryAgainKeeps, GiveKeeps
  <1> QED BY <1>1, <1>2, <1>3 DEF PostChunk

LEMMA ChannelStarts == ChannelInit => ChannelInv
  <1> SUFFICES ASSUME ChannelInit PROVE ChannelInv
    OBVIOUS
  <1>1. handler = [m \in Inbound |-> Unread] /\ timeline = <<>>
    BY DEF ChannelInit
  <1>2. timeline \in Seq(Inbound \X Nat)
    BY <1>1
  <1>3. \A m \in Inbound : PostsOf(m, timeline) = {}
    BY <1>1 DEF PostsOf
  <1>4. \A m \in Inbound : Knows(Unread, m, timeline)
    BY <1>2, <1>3, UnreadIs, NothingPosted
  <1>5. handler \in [Inbound -> Handler] /\ \A m \in Inbound : handler[m] = Unread
    BY <1>1, UnreadIs
  <1> QED BY <1>2, <1>4, <1>5 DEF ChannelInv

LEMMA ChannelSteps == ChannelInv /\ [ChannelNext]_channelVars => ChannelInv'
  <1> SUFFICES ASSUME ChannelInv, [ChannelNext]_channelVars PROVE ChannelInv'
    OBVIOUS
  <1>1. CASE UNCHANGED channelVars
    BY <1>1 DEF ChannelInv, channelVars
  <1>2. CASE ChannelNext
    BY <1>2, ReceiveKeeps, SendKeeps, AnswerKeeps, EndTurnKeeps, PostKeeps DEF ChannelNext, Handle
  <1> QED BY <1>1, <1>2

LEMMA ChannelTells == ChannelInv => RepliesArriveWhole
  <1> SUFFICES ASSUME ChannelInv PROVE RepliesArriveWhole
    OBVIOUS
  <1>1. ChunksAreTheReply
    BY HandlerIs, SplitIsReply DEF ChunksAreTheReply
  <1>2. RepliesKeepTheirOrder
    <2> SUFFICES ASSUME NEW i \in DOMAIN timeline
                 PROVE  LET m == timeline[i][1] IN
                        IF handler[m].surface = "telegram"
                        THEN /\ \A j \in 1 .. i : timeline[j][1] = m => timeline[j][2] <= timeline[i][2]
                             /\ Cardinality({j \in 1 .. i : timeline[j] = timeline[i]}) <= 2
                        ELSE timeline[i][2] = Cardinality({j \in 1 .. i : timeline[j][1] = m})
      BY Zenon DEF RepliesKeepTheirOrder
    <2> DEFINE m == timeline[i][1]
    <2>1. m \in Inbound
      BY LineIs DEF ChannelInv
    <2>2. i \in PostsOf(m, timeline)
      BY DEF PostsOf
    <2>3. Knows(handler[m], m, timeline)
      BY <2>1, HandlerIs
    <2> HIDE DEF m
    <2>4. CASE handler[m].surface = "telegram"
      <3>1. /\ \A j \in 1 .. i : timeline[j][1] = m => timeline[j][2] <= timeline[i][2]
            /\ Cardinality({j \in 1 .. i : timeline[j] = timeline[i]}) <= 2
        BY <2>2, <2>3, <2>4 DEF Knows, NeverBack
      <3> QED BY <3>1, <2>4, Zenon DEF m
    <2>5. CASE handler[m].surface # "telegram"
      <3>1. timeline[i][2] = Cardinality({j \in 1 .. i : timeline[j][1] = m})
        BY <2>2, <2>3, <2>5 DEF Knows, WithoutGaps
      <3> QED BY <3>1, <2>5, Zenon DEF m
    <2> QED BY <2>4, <2>5
  <1> QED BY <1>1, <1>2 DEF RepliesArriveWhole

(* A reply, whatever characters and newlines it is made of, is cut into    *)
(* pieces that fit and that make it up, and whatever the service refuses,  *)
(* delays or loses, the chat shows them from the beginning, in their order *)
(* and without gaps; on Telegram parts may be missing or stand there       *)
(* twice, and never change places: for every number of handlers at once.   *)
THEOREM RepliesAreWhole == ChannelSpec => []RepliesArriveWhole
  BY ChannelStarts, ChannelSteps, ChannelTells, PTL DEF ChannelSpec

-------------------------------------------------------------------------------
(* Deltas: what counts of a stream's events.                               *)
LEMMA DoneBounds ==
  ASSUME NEW S, NEW events \in Seq(S)
  PROVE  LET n == BeforeDone(events) IN
           /\ n \in 0 .. Len(events) /\ \A k \in 1 .. n : ~IsDoneMark(events[k])
           /\ n = Len(events) \/ IsDoneMark(events[n + 1])
  <1> DEFINE l == Len(events)
             Bounds == {n \in 0 .. l : \A k \in 1 .. n : ~IsDoneMark(events[k])}
             b == Max(Bounds)
  <1>1. l \in Nat
    OBVIOUS
  <1> HIDE DEF l
  <1>2. 0 \in Bounds /\ Bounds \subseteq 0 .. l
    BY <1>1
  <1> HIDE DEF Bounds
  <1>3. b \in Bounds /\ \A k \in Bounds : k <= b
    BY <1>1, <1>2, MaxOfUpTo
  <1> HIDE DEF b
  <1>4. b \in 0 .. l /\ \A k \in 1 .. b : ~IsDoneMark(events[k])
    BY <1>3 DEF Bounds
  <1>5. b = l \/ IsDoneMark(events[b + 1])
    <2> SUFFICES ASSUME b # l, ~IsDoneMark(events[b + 1]) PROVE FALSE
      OBVIOUS
    <2>1. b + 1 \in 0 .. l /\ ~(b + 1 <= b) /\ \A k \in 1 .. b + 1 : k = b + 1 \/ k \in 1 .. b
      BY <1>1, <1>4
    <2>2. b + 1 \in Bounds
      BY <2>1, <1>4 DEF Bounds
    <2> QED BY <2>1, <2>2, <1>3
  <1>6. BeforeDone(events) = b
    BY DEF BeforeDone, b, Bounds, l
  <1> QED BY <1>4, <1>5, <1>6 DEF l

LEMMA DoneAt ==
  ASSUME NEW S, NEW events \in Seq(S), NEW n \in 0 .. Len(events),
         \A k \in 1 .. n : ~IsDoneMark(events[k]), n = Len(events) \/ IsDoneMark(events[n + 1])
  PROVE  BeforeDone(events) = n
  <1> DEFINE l == Len(events)
             b == BeforeDone(events)
  <1>1. l \in Nat
    OBVIOUS
  <1>2. b \in 0 .. l /\ (\A k \in 1 .. b : ~IsDoneMark(events[k])) /\ (b = l \/ IsDoneMark(events[b + 1]))
    BY DoneBounds
  <1> HIDE DEF l, b
  <1>3. n \in 0 .. l /\ (n = l \/ IsDoneMark(events[n + 1]))
    BY DEF l
  <1>4. ~(b < n)
    <2> SUFFICES ASSUME b < n PROVE FALSE
      OBVIOUS
    <2>1. b + 1 \in 1 .. n /\ b # l
      BY <1>1, <1>2, <1>3
    <2> QED BY <2>1, <1>2
  <1>5. ~(n < b)
    <2> SUFFICES ASSUME n < b PROVE FALSE
      OBVIOUS
    <2>1. n + 1 \in 1 .. b /\ n # l
      BY <1>1, <1>2, <1>3
    <2> QED BY <2>1, <1>2, <1>3
  <1>6. b = n
    BY <1>1, <1>2, <1>3, <1>4, <1>5
  <1> QED BY <1>6 DEF b

(* Without an end mark all of the events count.                            *)
LEMMA NoDone ==
  ASSUME NEW S, NEW events \in Seq(S), ~HasDone(events)
  PROVE  BeforeDone(events) = Len(events)
  <1>1. Len(events) \in 0 .. Len(events) /\ \A k \in 1 .. Len(events) : k \in DOMAIN events
    OBVIOUS
  <1>2. \A k \in 1 .. Len(events) : ~IsDoneMark(events[k])
    BY <1>1 DEF HasDone
  <1> QED BY <1>1, <1>2, DoneAt

Parts(events) == [k \in 1 .. BeforeDone(events) |-> IF IsDelta(events[k]) THEN events[k] ELSE <<>>]

LEMMA PartsAre ==
  ASSUME NEW S, NEW events \in Seq(Seq(S))
  PROVE  Parts(events) \in Seq(Seq(S)) /\ Len(Parts(events)) = BeforeDone(events)
  <1>1. BeforeDone(events) \in Nat /\ \A k \in 1 .. BeforeDone(events) : k \in 1 .. Len(events)
    <2>1. BeforeDone(events) \in 0 .. Len(events) /\ Len(events) \in Nat
      BY DoneBounds
    <2> QED BY <2>1
  <1> DEFINE n == BeforeDone(events)
  <1> HIDE DEF n
  <1>2. \A k \in 1 .. n : (IF IsDelta(events[k]) THEN events[k] ELSE <<>>) \in Seq(S)
    <2>1. \A k \in 1 .. Len(events) : events[k] \in Seq(S)
      OBVIOUS
    <2> QED BY <2>1, <1>1 DEF n
  <1>3. [k \in 1 .. n |-> IF IsDelta(events[k]) THEN events[k] ELSE <<>>] \in [1 .. n -> Seq(S)]
    BY <1>2
  <1>4. Parts(events) \in [1 .. n -> Seq(S)]
    BY <1>3 DEF Parts, n
  <1>5. n \in Nat
    BY <1>1 DEF n
  <1>6. Parts(events) \in Seq(Seq(S)) /\ Len(Parts(events)) = n
    BY <1>4, <1>5
  <1> QED BY <1>6 DEF n

LEMMA DeltasAre ==
  ASSUME NEW S, NEW events \in Seq(Seq(S))
  PROVE  Deltas(events) \in Seq(S) /\ Deltas(events) = Joined(Parts(events))
  <1>1. Deltas(events) = Joined(Parts(events))
    BY DEF Deltas, Parts
  <1>2. Joined(Parts(events)) \in Seq(S)
    BY PartsAre, JoinedIs
  <1> QED BY <1>1, <1>2

(* Events behind an end mark do not count.                                 *)
LEMMA DeltasStopAtDone ==
  ASSUME NEW S, NEW left \in Seq(Seq(S)), NEW right \in Seq(Seq(S)), HasDone(left)
  PROVE  HasDone(left \o right) /\ Deltas(left \o right) = Deltas(left)
  <1> DEFINE both == left \o right
             n == BeforeDone(left)
  <1>1. /\ both \in Seq(Seq(S)) /\ Len(left) \in Nat /\ Len(both) \in Nat /\ Len(left) <= Len(both)
        /\ \A k \in 1 .. Len(left) : both[k] = left[k] /\ k \in DOMAIN both
    OBVIOUS
  <1>2. DOMAIN left = 1 .. Len(left)
    OBVIOUS
  <1>3. /\ n \in 0 .. Len(left) /\ \A k \in 1 .. n : ~IsDoneMark(left[k])
        /\ n = Len(left) \/ IsDoneMark(left[n + 1])
    BY DoneBounds
  <1> HIDE DEF both, n
  <1>4. HasDone(both)
    <2>1. PICK k \in 1 .. Len(left) : IsDoneMark(left[k])
      BY <1>2 DEF HasDone
    <2> QED BY <2>1, <1>1 DEF HasDone
  <1>5. n # Len(left)
    <2>1. PICK k \in 1 .. Len(left) : IsDoneMark(left[k])
      BY <1>2 DEF HasDone
    <2> QED BY <2>1, <1>3
  <1>6. BeforeDone(both) = n
    <2>1. n \in 0 .. Len(both) /\ n + 1 \in 1 .. Len(left) /\ \A k \in 1 .. n : k \in 1 .. Len(left)
      BY <1>1, <1>3, <1>5
    <2>2. \A k \in 1 .. n : ~IsDoneMark(both[k])
      BY <2>1, <1>1, <1>3
    <2>3. IsDoneMark(both[n + 1])
      BY <2>1, <1>1, <1>3, <1>5
    <2> QED BY <2>1, <2>2, <2>3, <1>1, DoneAt
  <1>7. Parts(both) = Parts(left)
    <2>1. \A k \in 1 .. n : both[k] = left[k]
      <3>1. \A k \in 1 .. n : k \in 1 .. Len(left)
        BY <1>1, <1>3
      <3> QED BY <3>1, <1>1
    <2>2. Parts(both) = [k \in 1 .. n |-> IF IsDelta(both[k]) THEN both[k] ELSE <<>>]
      BY <1>6 DEF Parts
    <2>3. Parts(left) = [k \in 1 .. n |-> IF IsDelta(left[k]) THEN left[k] ELSE <<>>]
      BY DEF Parts, n
    <2> QED BY <2>1, <2>2, <2>3
  <1>8. Deltas(both) = Joined(Parts(both)) /\ Deltas(left) = Joined(Parts(left))
    BY <1>1, DeltasAre
  <1> QED BY <1>4, <1>7, <1>8 DEF both

(* Before an end mark, what counts of events counts in their order.        *)
LEMMA DeltasTwo ==
  ASSUME NEW S, NEW left \in Seq(Seq(S)), NEW right \in Seq(Seq(S)), ~HasDone(left)
  PROVE  /\ Deltas(left \o right) = Deltas(left) \o Deltas(right)
         /\ HasDone(left \o right) <=> HasDone(right)
  <1> DEFINE both == left \o right
             l == Len(left)
             m == BeforeDone(right)
  <1>1. /\ both \in Seq(Seq(S)) /\ l \in Nat /\ Len(right) \in Nat /\ Len(both) = l + Len(right)
        /\ \A k \in 1 .. l : both[k] = left[k]
        /\ \A k \in 1 .. Len(right) : both[l + k] = right[k]
    OBVIOUS
  <1>2. DOMAIN left = 1 .. l /\ DOMAIN right = 1 .. Len(right)
    OBVIOUS
  <1>9. DOMAIN both = 1 .. l + Len(right)
    OBVIOUS
  <1>3. /\ m \in 0 .. Len(right) /\ \A k \in 1 .. m : ~IsDoneMark(right[k])
        /\ m = Len(right) \/ IsDoneMark(right[m + 1])
    BY DoneBounds
  <1>4. BeforeDone(left) = l
    BY NoDone
  <1> HIDE DEF both, l, m
  <1>5. \A k \in 1 .. l : ~IsDoneMark(both[k])
    BY <1>1, <1>2 DEF HasDone
  <1>6. \A k \in 1 .. l + Len(right) : k \in 1 .. l \/ (k - l \in 1 .. Len(right) /\ l + (k - l) = k)
    BY <1>1
  <1>7. HasDone(both) <=> HasDone(right)
    <2>1. ASSUME HasDone(both) PROVE HasDone(right)
      <3>1. PICK k \in 1 .. l + Len(right) : IsDoneMark(both[k])
        BY <2>1, <1>9 DEF HasDone
      <3>2. k - l \in 1 .. Len(right) /\ l + (k - l) = k
        BY <3>1, <1>5, <1>6
      <3>3. both[l + (k - l)] = right[k - l]
        BY <3>2, <1>1
      <3>4. IsDoneMark(right[k - l])
        BY <3>1, <3>2, <3>3
      <3> QED BY <3>2, <3>4, <1>2 DEF HasDone
    <2>2. ASSUME HasDone(right) PROVE HasDone(both)
      <3>1. PICK k \in 1 .. Len(right) : IsDoneMark(right[k])
        BY <2>2, <1>2 DEF HasDone
      <3>2. l + k \in DOMAIN both /\ IsDoneMark(both[l + k])
        <4>1. l + k \in 1 .. l + Len(right)
          BY <1>1
        <4> QED BY <4>1, <3>1, <1>1, <1>9
      <3> QED BY <3>2 DEF HasDone
    <2> QED BY <2>1, <2>2
  <1>8. BeforeDone(both) = l + m
    <2>1. l + m \in 0 .. Len(both) /\ \A k \in 1 .. l + m : k \in 1 .. l \/ (k - l \in 1 .. m /\ k - l \in 1 .. Len(right) /\ l + (k - l) = k)
      BY <1>1, <1>3
    <2>2. ASSUME NEW k \in 1 .. l + m PROVE ~IsDoneMark(both[k])
      <3>1. CASE k \in 1 .. l
        BY <3>1, <1>5
      <3>2. CASE k - l \in 1 .. m /\ k - l \in 1 .. Len(right) /\ l + (k - l) = k
        <4>1. both[l + (k - l)] = right[k - l]
          BY <3>2, <1>1
        <4> QED BY <4>1, <3>2, <1>3
      <3> QED BY <3>1, <3>2, <2>1
    <2>3. l + m = Len(both) \/ IsDoneMark(both[(l + m) + 1])
      <3>1. CASE m = Len(right)
        BY <3>1, <1>1
      <3>2. CASE m # Len(right) /\ IsDoneMark(right[m + 1])
        <4> DEFINE j == m + 1
        <4>1. j \in 1 .. Len(right) /\ (l + m) + 1 = l + j
          BY <3>2, <1>1, <1>3
        <4>2. IsDoneMark(right[j])
          BY <3>2
        <4> HIDE DEF j
        <4>3. both[l + j] = right[j]
          BY <4>1, <1>1
        <4>4. IsDoneMark(both[l + j])
          BY <4>2, <4>3
        <4> QED BY <4>1, <4>4, Zenon
      <3> QED BY <3>1, <3>2, <1>3
    <2> QED BY <2>1, <2>2, <2>3, <1>1, DoneAt
  <1>10. Parts(both) = Parts(left) \o Parts(right)
    <2>1. /\ Parts(left) \in Seq(Seq(S)) /\ Len(Parts(left)) = l
          /\ Parts(right) \in Seq(Seq(S)) /\ Len(Parts(right)) = m
          /\ Parts(both) \in Seq(Seq(S)) /\ Len(Parts(both)) = l + m
      BY <1>1, <1>4, <1>8, PartsAre DEF m
    <2> DEFINE two == Parts(left) \o Parts(right)
    <2>2. /\ two \in Seq(Seq(S)) /\ Len(two) = l + m
          /\ \A k \in 1 .. l : two[k] = Parts(left)[k]
          /\ \A k \in 1 .. m : two[l + k] = Parts(right)[k]
      <3>1. AreBoth(Seq(S), Parts(left), Parts(right), Parts(left) \o Parts(right))
        BY <2>1, BothAre
      <3>2. AreBoth(Seq(S), Parts(left), Parts(right), two)
        BY <3>1
      <3> HIDE DEF two
      <3> QED BY <2>1, <3>2 DEF AreBoth
    <2> HIDE DEF two
    <2>3. \A k \in 1 .. l + m : Parts(both)[k] = IF IsDelta(both[k]) THEN both[k] ELSE <<>>
      BY <1>8 DEF Parts
    <2>4. \A k \in 1 .. l : Parts(left)[k] = IF IsDelta(left[k]) THEN left[k] ELSE <<>>
      BY <1>4 DEF Parts
    <2>5. \A k \in 1 .. m : Parts(right)[k] = IF IsDelta(right[k]) THEN right[k] ELSE <<>>
      BY DEF Parts, m
    <2>6. ASSUME NEW k \in 1 .. l + m PROVE Parts(both)[k] = two[k]
      <3>1. CASE k \in 1 .. l
        <4>1. both[k] = left[k] /\ two[k] = Parts(left)[k]
          BY <3>1, <1>1, <2>2
        <4> QED BY <4>1, <3>1, <2>3, <2>4
      <3>2. CASE k \notin 1 .. l
        <4>1. k - l \in 1 .. m /\ k - l \in 1 .. Len(right) /\ l + (k - l) = k
          BY <3>2, <1>1, <1>3
        <4> DEFINE j == k - l
        <4>2. j \in 1 .. m /\ j \in 1 .. Len(right) /\ k = l + j
          BY <4>1
        <4> HIDE DEF j
        <4>3. both[k] = right[j] /\ two[k] = Parts(right)[j]
          BY <4>2, <1>1, <2>2
        <4> QED BY <4>2, <4>3, <2>3, <2>5
      <3> QED BY <3>1, <3>2
    <2> HIDE DEF two
    <2>7. Parts(both) = two
      BY <2>1, <2>2, <2>6, SeqEqual
    <2> QED BY <2>7 DEF two
  <1>11. Deltas(both) = Joined(Parts(both)) /\ Deltas(left) = Joined(Parts(left)) /\ Deltas(right) = Joined(Parts(right))
    BY <1>1, DeltasAre
  <1>12. Joined(Parts(left) \o Parts(right)) = Joined(Parts(left)) \o Joined(Parts(right))
    <2>1. Parts(left) \in Seq(Seq(S)) /\ Parts(right) \in Seq(Seq(S))
      BY PartsAre
    <2>2. Same(Joined(Parts(left) \o Parts(right)), Joined(Parts(left)) \o Joined(Parts(right)))
      BY <2>1, JoinedTwo
    <2> QED BY <2>2 DEF Same
  <1> QED BY <1>7, <1>10, <1>11, <1>12 DEF both

(* What counts of the first events begins what counts of all.              *)
LEMMA PrefixOfBoth ==
  ASSUME NEW S, NEW left \in Seq(S), NEW right \in Seq(S)
  PROVE  IsPrefix(left, left \o right)
  <1> DEFINE both == left \o right
  <1>1. /\ Len(left) \in Nat /\ both \in Seq(S) /\ Len(left) <= Len(both)
        /\ \A k \in 1 .. Len(left) : both[k] = left[k]
    OBVIOUS
  <1> HIDE DEF both
  <1>2. SubSeq(left, 1, Len(left)) = SubSeq(both, 1, Len(left))
    BY <1>1
  <1> QED BY <1>1, <1>2 DEF IsPrefix, both

LEMMA DeltasGrow ==
  ASSUME NEW S, NEW left \in Seq(Seq(S)), NEW right \in Seq(Seq(S))
  PROVE  IsPrefix(Deltas(left), Deltas(left \o right))
  <1>1. Deltas(left) \in Seq(S) /\ Deltas(right) \in Seq(S)
    BY DeltasAre
  <1>2. CASE HasDone(left)
    <2>1. Deltas(left \o right) = Deltas(left)
      BY <1>2, DeltasStopAtDone
    <2>2. IsPrefix(Deltas(left), Deltas(left))
      BY <1>1 DEF IsPrefix
    <2> QED BY <2>1, <2>2
  <1>3. CASE ~HasDone(left)
    <2>1. Deltas(left \o right) = Deltas(left) \o Deltas(right)
      BY <1>3, DeltasTwo
    <2>2. IsPrefix(Deltas(left), Deltas(left) \o Deltas(right))
      BY <1>1, PrefixOfBoth
    <2> QED BY <2>1, <2>2
  <1> QED BY <1>2, <1>3

-------------------------------------------------------------------------------
(* Pushed: what the parser makes of pieces, one after the other.           *)
Accs(S) == [pending : Seq(S), lines : Seq(Seq(S)), events : Seq(Seq(S))]
EventsAfter(before, acc) == [pending |-> acc.pending, lines |-> acc.lines, events |-> before \o acc.events]

LEMMA LineIsHandled ==
  ASSUME NEW S, NEW lines \in Seq(Seq(S)), NEW line \in Seq(S), NEW events \in Seq(Seq(S))
  PROVE  HandleLine(lines, line, events) \in Accs(S)
  <1>1. <<>> \in Seq(S) /\ <<>> \in Seq(Seq(S))
    OBVIOUS
  <1>2. CASE line = <<>> /\ lines # <<>>
    <2>1. Append(events, Joined(lines)) \in Seq(Seq(S))
      BY JoinedIs
    <2>2. HandleLine(lines, line, events) = [pending |-> <<>>, lines |-> <<>>, events |-> Append(events, Joined(lines))]
      BY <1>2 DEF HandleLine
    <2> QED BY <1>1, <2>1, <2>2 DEF Accs
  <1>3. CASE line # <<>> /\ Head(line) = Data
    <2>1. Append(lines, Tail(line)) \in Seq(Seq(S))
      BY <1>3
    <2>2. HandleLine(lines, line, events) = [pending |-> <<>>, lines |-> Append(lines, Tail(line)), events |-> events]
      BY <1>3 DEF HandleLine
    <2> QED BY <1>1, <2>1, <2>2 DEF Accs
  <1>4. CASE ~(line = <<>> /\ lines # <<>>) /\ ~(line # <<>> /\ Head(line) = Data)
    <2>2. HandleLine(lines, line, events) = [pending |-> <<>>, lines |-> lines, events |-> events]
      BY <1>4 DEF HandleLine
    <2> QED BY <1>1, <2>2 DEF Accs
  <1> QED BY <1>2, <1>3, <1>4

LEMMA AppendBehind ==
  ASSUME NEW S, NEW before \in Seq(S), NEW events \in Seq(S), NEW one \in S
  PROVE  Same(Append(before \o events, one), before \o Append(events, one))
  <1> DEFINE x == Append(before \o events, one)
             y == before \o Append(events, one)
             l == Len(before)
             m == Len(events)
  <1>1. /\ x \in Seq(S) /\ y \in Seq(S) /\ l \in Nat /\ m \in Nat
        /\ Len(x) = (l + m) + 1 /\ Len(y) = l + (m + 1)
    OBVIOUS
  <1>2. ASSUME NEW k \in 1 .. l PROVE x[k] = y[k]
    OBVIOUS
  <1>3. ASSUME NEW k \in 1 .. m PROVE x[l + k] = y[l + k]
    OBVIOUS
  <1>4. x[(l + m) + 1] = one /\ y[l + (m + 1)] = one
    OBVIOUS
  <1>5. ASSUME NEW k \in 1 .. Len(x) PROVE x[k] = y[k]
    <2> HIDE DEF x, y, l, m
    <2>1. k \in 1 .. l \/ (k - l \in 1 .. m /\ l + (k - l) = k) \/ (k = (l + m) + 1 /\ k = l + (m + 1))
      BY <1>1
    <2>2. CASE k - l \in 1 .. m /\ l + (k - l) = k
      <3>1. x[l + (k - l)] = y[l + (k - l)]
        BY <2>2, <1>3
      <3> QED BY <3>1, <2>2
    <2> QED BY <2>1, <2>2, <1>2, <1>4
  <1> HIDE DEF x, y, l, m
  <1>6. Len(x) = Len(y)
    BY <1>1
  <1>7. x = y
    BY <1>1, <1>5, <1>6, SeqEqual
  <1> QED BY <1>7 DEF Same, x, y

(* Events before make no difference to what a line does.                   *)
LEMMA LineAfterEvents ==
  ASSUME NEW S, NEW lines \in Seq(Seq(S)), NEW line \in Seq(S), NEW events \in Seq(Seq(S)),
         NEW before \in Seq(Seq(S))
  PROVE  HandleLine(lines, line, before \o events) = EventsAfter(before, HandleLine(lines, line, events))
  <1> DEFINE h == HandleLine(lines, line, events)
             g == HandleLine(lines, line, before \o events)
  <1>2. CASE line = <<>> /\ lines # <<>>
    <2> DEFINE one == Joined(lines)
    <2>1. one \in Seq(S)
      BY JoinedIs
    <2>2. h = [pending |-> <<>>, lines |-> <<>>, events |-> Append(events, one)]
      BY <1>2 DEF HandleLine
    <2>3. g = [pending |-> <<>>, lines |-> <<>>, events |-> Append(before \o events, one)]
      BY <1>2 DEF HandleLine
    <2> HIDE DEF one, h, g
    <2>4. Append(before \o events, one) = before \o Append(events, one)
      <3>1. Same(Append(before \o events, one), before \o Append(events, one))
        BY <2>1, AppendBehind
      <3> QED BY <3>1 DEF Same
    <2>5. h.pending = <<>> /\ h.lines = <<>> /\ h.events = Append(events, one)
      BY <2>2
    <2>6. g = [pending |-> h.pending, lines |-> h.lines, events |-> before \o h.events]
      BY <2>3, <2>4, <2>5, Zenon
    <2> QED BY <2>6, Zenon DEF EventsAfter, g, h
  <1>3. CASE line # <<>> /\ Head(line) = Data
    <2> DEFINE all == Append(lines, Tail(line))
    <2>2. h = [pending |-> <<>>, lines |-> all, events |-> events]
      BY <1>3 DEF HandleLine
    <2>3. g = [pending |-> <<>>, lines |-> all, events |-> before \o events]
      BY <1>3 DEF HandleLine
    <2> HIDE DEF all, h, g
    <2>5. h.pending = <<>> /\ h.lines = all /\ h.events = events
      BY <2>2
    <2>6. g = [pending |-> h.pending, lines |-> h.lines, events |-> before \o h.events]
      BY <2>3, <2>5, Zenon
    <2> QED BY <2>6, Zenon DEF EventsAfter, g, h
  <1>4. CASE ~(line = <<>> /\ lines # <<>>) /\ ~(line # <<>> /\ Head(line) = Data)
    <2>2. h = [pending |-> <<>>, lines |-> lines, events |-> events]
      BY <1>4 DEF HandleLine
    <2>3. g = [pending |-> <<>>, lines |-> lines, events |-> before \o events]
      BY <1>4 DEF HandleLine
    <2> HIDE DEF h, g
    <2>5. h.pending = <<>> /\ h.lines = lines /\ h.events = events
      BY <2>2
    <2>6. g = [pending |-> h.pending, lines |-> h.lines, events |-> before \o h.events]
      BY <2>3, <2>5, Zenon
    <2> QED BY <2>6, Zenon DEF EventsAfter, g, h
  <1> QED BY <1>2, <1>3, <1>4

LEMMA ReturnIsDropped ==
  ASSUME NEW S, NEW raw \in Seq(S)
  PROVE  WithoutReturn(raw) \in Seq(S)
  <1>1. CASE raw # <<>> /\ Last(raw) = "\r"
    <2>1. Front(raw) \in Seq(S)
      BY <1>1 DEF Front
    <2> QED BY <1>1, <2>1 DEF WithoutReturn
  <1>2. CASE ~(raw # <<>> /\ Last(raw) = "\r")
    BY <1>2 DEF WithoutReturn
  <1> QED BY <1>1, <1>2

LEMMA PieceIsPushed ==
  ASSUME NEW S, NEW acc \in Accs(S), NEW piece \in S, NEW before \in Seq(Seq(S))
  PROVE  /\ PushPiece(acc, piece) \in Accs(S)
         /\ EventsAfter(before, acc) \in Accs(S)
         /\ PushPiece(EventsAfter(before, acc), piece) = EventsAfter(before, PushPiece(acc, piece))
  <1>1. acc.pending \in Seq(S) /\ acc.lines \in Seq(Seq(S)) /\ acc.events \in Seq(Seq(S))
    BY DEF Accs
  <1>2. acc = [pending |-> acc.pending, lines |-> acc.lines, events |-> acc.events]
    BY DEF Accs
  <1> DEFINE late == EventsAfter(before, acc)
  <1>3. late = [pending |-> acc.pending, lines |-> acc.lines, events |-> before \o acc.events]
    BY DEF EventsAfter
  <1>4. before \o acc.events \in Seq(Seq(S))
    BY <1>1
  <1>5. late \in Accs(S) /\ late.pending = acc.pending /\ late.lines = acc.lines /\ late.events = before \o acc.events
    BY <1>1, <1>3, <1>4 DEF Accs
  <1> HIDE DEF late
  <1>6. CASE piece = "\n"
    <2> DEFINE line == WithoutReturn(acc.pending)
    <2>1. line \in Seq(S)
      BY <1>1, ReturnIsDropped
    <2>2. PushPiece(acc, piece) = HandleLine(acc.lines, line, acc.events)
      BY <1>6 DEF PushPiece
    <2>3. PushPiece(late, piece) = HandleLine(acc.lines, line, before \o acc.events)
      BY <1>5, <1>6 DEF PushPiece
    <2> HIDE DEF line
    <2>4. HandleLine(acc.lines, line, acc.events) \in Accs(S)
      BY <1>1, <2>1, LineIsHandled
    <2>5. HandleLine(acc.lines, line, before \o acc.events) = EventsAfter(before, HandleLine(acc.lines, line, acc.events))
      BY <1>1, <2>1, LineAfterEvents
    <2> QED BY <1>5, <2>2, <2>3, <2>4, <2>5 DEF late
  <1>7. CASE piece # "\n"
    <2> DEFINE pending == Append(acc.pending, piece)
    <2>1. pending \in Seq(S)
      BY <1>1
    <2>2. PushPiece(acc, piece) = [acc EXCEPT !.pending = Append(@, piece)]
      BY <1>7 DEF PushPiece
    <2>3. PushPiece(late, piece) = [late EXCEPT !.pending = Append(@, piece)]
      BY <1>7 DEF PushPiece
    <2> DEFINE later == before \o acc.events
               p == PushPiece(acc, piece)
               q == PushPiece(late, piece)
    <2>8. late = [pending |-> acc.pending, lines |-> acc.lines, events |-> later]
      BY <1>3
    <2> HIDE DEF later
    <2>4. PushPiece(acc, piece) = [pending |-> pending, lines |-> acc.lines, events |-> acc.events]
      BY <2>2, <1>2
    <2>5. PushPiece(late, piece) = [pending |-> pending, lines |-> acc.lines, events |-> later]
      BY <2>3, <2>8, <1>5
    <2> HIDE DEF pending
    <2>6. PushPiece(acc, piece) \in Accs(S)
      BY <2>1, <2>4, <1>1 DEF Accs
    <2>7. PushPiece(late, piece) = EventsAfter(before, PushPiece(acc, piece))
      <3> HIDE DEF p, q
      <3>1. p.pending = pending /\ p.lines = acc.lines /\ p.events = acc.events
        BY <2>4 DEF p
      <3>2. q = [pending |-> p.pending, lines |-> p.lines, events |-> before \o p.events]
        BY <2>5, <3>1, Zenon DEF q, later
      <3> QED BY <3>2, Zenon DEF EventsAfter, p, q
    <2> QED BY <1>5, <2>6, <2>7 DEF late
  <1> QED BY <1>6, <1>7

PushedUpTo(start, pieces, f) ==
  /\ f[0] = start /\ \A k \in 1 .. Len(pieces) : f[k] = PushPiece(f[k - 1], pieces[k])
  /\ Pushed(start, pieces) = f[Len(pieces)]

LEMMA PushedSteps ==
  ASSUME NEW S, NEW pieces \in Seq(S), NEW start \in Accs(S)
  PROVE  \E f \in [0 .. Len(pieces) -> Accs(S)] : PushedUpTo(start, pieces, f)
  <1> DEFINE n == Len(pieces)
             step == [k \in 1 .. n |-> [acc \in Accs(S) |-> PushPiece(acc, pieces[k])]]
             Steps(f) == f = [k \in 0 .. n |-> IF k = 0 THEN start ELSE PushPiece(f[k - 1], pieces[k])]
             chosen == CHOOSE f : f = [k \in 0 .. n |-> IF k = 0 THEN start ELSE PushPiece(f[k - 1], pieces[k])]
  <1>1. n \in Nat /\ \A k \in 1 .. n : pieces[k] \in S
    OBVIOUS
  <1>2. AreSteps(step, n, Accs(S))
    <2>1. \A k \in 1 .. n : \A acc \in Accs(S) : PushPiece(acc, pieces[k]) \in Accs(S)
      <3> TAKE k \in 1 .. n
      <3> TAKE acc \in Accs(S)
      <3>1. pieces[k] \in S /\ <<>> \in Seq(Seq(S))
        BY <1>1
      <3> QED BY <3>1, PieceIsPushed
    <2> QED BY <2>1 DEF AreSteps
  <1>3. Pushed(start, pieces) = chosen[n]
    BY Zenon DEF Pushed
  <1> HIDE DEF n
  <1>4. PICK f \in [0 .. n -> Accs(S)] : f[0] = start /\ \A k \in 1 .. n : f[k] = step[k][f[k - 1]]
    <2> HIDE DEF step
    <2>1. \E f \in [0 .. n -> Accs(S)] : MadeBy(step, n, start, f)
      BY <1>1, <1>2, StepsAreThere
    <2> QED BY <2>1 DEF MadeBy
  <1>5. \A k \in 1 .. n : f[k] = PushPiece(f[k - 1], pieces[k])
    <2>1. \A k \in 1 .. n : k - 1 \in 0 .. n
      BY <1>1
    <2> QED BY <2>1, <1>4
  <1>6. Steps(f)
    <2>1. \A k \in 0 .. n : k = 0 \/ k \in 1 .. n
      BY <1>1
    <2> QED BY <2>1, <1>4, <1>5
  <1>7. Steps(chosen)
    BY <1>6, Zenon
  <1> HIDE DEF chosen
  <1>8. \A k \in 0 .. n : chosen[k] = IF k = 0 THEN start ELSE PushPiece(chosen[k - 1], pieces[k])
    BY <1>7, Zenon
  <1>9. \A k \in 0 .. n : chosen[k] = f[k]
    <2> DEFINE G == {k \in 0 .. n : chosen[k] = f[k]}
    <2>1. 0 \in G
      BY <1>1, <1>4, <1>8
    <2>2. ASSUME NEW k \in 1 .. n, k - 1 \in G PROVE k \in G
      <3>1. k \in 0 .. n /\ k # 0
        BY <1>1
      <3>2. chosen[k] = PushPiece(chosen[k - 1], pieces[k])
        BY <3>1, <1>8, Zenon
      <3> QED BY <3>1, <3>2, <2>2, <1>5
    <2> HIDE DEF G
    <2>3. \A k \in 0 .. n : k \in G
      BY <1>1, <2>1, <2>2, StepByStep
    <2> QED BY <2>3 DEF G
  <1>10. n \in 0 .. n
    BY <1>1
  <1> QED BY <1>3, <1>4, <1>5, <1>9, <1>10 DEF PushedUpTo, n

LEMMA PushedIs ==
  ASSUME NEW S, NEW pieces \in Seq(S), NEW start \in Accs(S)
  PROVE  Pushed(start, pieces) \in Accs(S)
  <1>1. Len(pieces) \in Nat
    BY LenProperties
  <1>2. PICK f \in [0 .. Len(pieces) -> Accs(S)] : PushedUpTo(start, pieces, f)
    BY PushedSteps
  <1>3. Pushed(start, pieces) = f[Len(pieces)]
    BY <1>2 DEF PushedUpTo
  <1>4. Len(pieces) \in 0 .. Len(pieces)
    BY <1>1
  <1> QED BY <1>3, <1>4

(* The pieces of two chunks are pushed the one after the other.            *)
LEMMA PushedTwo ==
  ASSUME NEW S, NEW start \in Accs(S), NEW left \in Seq(S), NEW right \in Seq(S)
  PROVE  Pushed(start, left \o right) = Pushed(Pushed(start, left), right)
  <1> DEFINE both == left \o right
             l == Len(left)
             m == Len(right)
             mid == Pushed(start, left)
  <1>1. both \in Seq(S) /\ l \in Nat /\ m \in Nat /\ Len(both) = l + m /\ mid \in Accs(S)
    BY PushedIs
  <1>2. (\A k \in 1 .. l : both[k] = left[k]) /\ \A k \in 1 .. m : both[l + k] = right[k]
    OBVIOUS
  <1>3. PICK f \in [0 .. Len(left) -> Accs(S)] : PushedUpTo(start, left, f)
    BY PushedSteps
  <1> HIDE DEF both, mid
  <1>4. PICK g \in [0 .. Len(right) -> Accs(S)] : PushedUpTo(mid, right, g)
    BY <1>1, PushedSteps
  <1>5. PICK h \in [0 .. Len(both) -> Accs(S)] : PushedUpTo(start, both, h)
    BY <1>1, PushedSteps
  <1>6. /\ f[0] = start /\ (\A k \in 1 .. l : f[k] = PushPiece(f[k - 1], left[k])) /\ mid = f[l]
        /\ g[0] = mid /\ (\A k \in 1 .. m : g[k] = PushPiece(g[k - 1], right[k])) /\ Pushed(mid, right) = g[m]
        /\ h[0] = start /\ (\A k \in 1 .. l + m : h[k] = PushPiece(h[k - 1], both[k])) /\ Pushed(start, both) = h[l + m]
    BY <1>1, <1>3, <1>4, <1>5 DEF PushedUpTo, mid
  <1> HIDE DEF l, m
  <1>8. \A k \in 0 .. l : h[k] = f[k]
    <2> DEFINE G == {k \in 0 .. l : h[k] = f[k]}
    <2>1. 0 \in G
      BY <1>1, <1>6
    <2>2. ASSUME NEW k \in 1 .. l, k - 1 \in G PROVE k \in G
      <3>1. k \in 0 .. l /\ k \in 1 .. l + m
        BY <1>1
      <3> QED BY <3>1, <2>2, <1>2, <1>6
    <2> HIDE DEF G
    <2>3. \A k \in 0 .. l : k \in G
      BY <1>1, <2>1, <2>2, StepByStep
    <2> QED BY <2>3 DEF G
  <1>10. \A k \in 0 .. m : h[l + k] = g[k]
    <2> DEFINE G == {k \in 0 .. m : h[l + k] = g[k]}
    <2>1. 0 \in G
      <3>1. l \in 0 .. l /\ 0 \in 0 .. m /\ l + 0 = l
        BY <1>1
      <3> QED BY <3>1, <1>6, <1>8
    <2>2. ASSUME NEW k \in 1 .. m, k - 1 \in G PROVE k \in G
      <3>1. k \in 0 .. m /\ k - 1 \in 0 .. m /\ l + k \in 1 .. l + m /\ (l + k) - 1 = l + (k - 1)
        BY <1>1
      <3>2. h[l + (k - 1)] = g[k - 1] /\ both[l + k] = right[k]
        BY <2>2, <1>2
      <3>3. h[l + k] = PushPiece(h[l + (k - 1)], both[l + k])
        BY <3>1, <1>6
      <3>4. g[k] = PushPiece(g[k - 1], right[k])
        BY <1>6
      <3> QED BY <3>1, <3>2, <3>3, <3>4
    <2> HIDE DEF G
    <2>3. \A k \in 0 .. m : k \in G
      BY <1>1, <2>1, <2>2, StepByStep
    <2> QED BY <2>3 DEF G
  <1>11. m \in 0 .. m
    BY <1>1
  <1>12. Pushed(start, both) = Pushed(mid, right)
    BY <1>6, <1>10, <1>11
  <1> QED BY <1>12 DEF both, mid

(* Events before make no difference to what a chunk does.                  *)
LEMMA PushedLater ==
  ASSUME NEW S, NEW start \in Accs(S), NEW pieces \in Seq(S), NEW before \in Seq(Seq(S))
  PROVE  Pushed(EventsAfter(before, start), pieces) = EventsAfter(before, Pushed(start, pieces))
  <1> DEFINE n == Len(pieces)
             late == EventsAfter(before, start)
  <1>1. n \in Nat /\ late \in Accs(S) /\ \A k \in 1 .. n : pieces[k] \in S
    <2>1. late \in Accs(S)
      <3>1. start.pending \in Seq(S) /\ start.lines \in Seq(Seq(S)) /\ start.events \in Seq(Seq(S))
        BY DEF Accs
      <3>2. before \o start.events \in Seq(Seq(S))
        BY <3>1
      <3> QED BY <3>1, <3>2 DEF Accs, EventsAfter
    <2> QED BY <2>1
  <1>2. PICK f \in [0 .. Len(pieces) -> Accs(S)] : PushedUpTo(start, pieces, f)
    BY PushedSteps
  <1> HIDE DEF late
  <1>3. PICK g \in [0 .. Len(pieces) -> Accs(S)] : PushedUpTo(late, pieces, g)
    BY <1>1, PushedSteps
  <1>4. /\ f[0] = start /\ (\A k \in 1 .. n : f[k] = PushPiece(f[k - 1], pieces[k])) /\ Pushed(start, pieces) = f[n]
        /\ g[0] = late /\ (\A k \in 1 .. n : g[k] = PushPiece(g[k - 1], pieces[k])) /\ Pushed(late, pieces) = g[n]
    BY <1>2, <1>3 DEF PushedUpTo
  <1>5. f \in [0 .. n -> Accs(S)]
    OBVIOUS
  <1> HIDE DEF n
  <1>6. \A k \in 0 .. n : g[k] = EventsAfter(before, f[k])
    <2> DEFINE G == {k \in 0 .. n : g[k] = EventsAfter(before, f[k])}
    <2>1. 0 \in G
      <3>1. 0 \in 0 .. n
        BY <1>1
      <3> QED BY <3>1, <1>4 DEF late
    <2>2. ASSUME NEW k \in 1 .. n, k - 1 \in G PROVE k \in G
      <3>1. k \in 0 .. n /\ k - 1 \in 0 .. n /\ pieces[k] \in S
        BY <1>1
      <3>2. f[k - 1] \in Accs(S)
        BY <3>1, <1>5
      <3>3. PushPiece(EventsAfter(before, f[k - 1]), pieces[k]) = EventsAfter(before, PushPiece(f[k - 1], pieces[k]))
        BY <3>1, <3>2, PieceIsPushed
      <3>4. g[k - 1] = EventsAfter(before, f[k - 1])
        BY <2>2
      <3>5. g[k] = PushPiece(g[k - 1], pieces[k]) /\ f[k] = PushPiece(f[k - 1], pieces[k])
        BY <1>4
      <3>6. g[k] = EventsAfter(before, f[k])
        BY <3>3, <3>4, <3>5, Zenon
      <3> QED BY <3>1, <3>6
    <2> HIDE DEF G
    <2>3. \A k \in 0 .. n : k \in G
      BY <1>1, <2>1, <2>2, StepByStep
    <2> QED BY <2>3 DEF G
  <1>7. n \in 0 .. n
    BY <1>1
  <1>8. Pushed(late, pieces) = EventsAfter(before, Pushed(start, pieces))
    BY <1>4, <1>6, <1>7
  <1> QED BY <1>8 DEF late

-------------------------------------------------------------------------------
(* The stream: the parser is that of what has come, in one piece.          *)
LEMMA ChunkIsPushed ==
  ASSUME NEW S, NEW acc \in [pending : Seq(S), lines : Seq(Seq(S))], NEW pieces \in Seq(S)
  PROVE  PushChunk(acc, pieces) \in Accs(S)
  <1> DEFINE start == [pending |-> acc.pending, lines |-> acc.lines, events |-> <<>>]
  <1>1. <<>> \in Seq(Seq(S)) /\ acc.pending \in Seq(S) /\ acc.lines \in Seq(Seq(S))
    OBVIOUS
  <1>2. start \in Accs(S)
    BY <1>1 DEF Accs
  <1>3. PushChunk(acc, pieces) = Pushed(start, pieces)
    BY DEF PushChunk
  <1> HIDE DEF start
  <1> QED BY <1>2, <1>3, PushedIs

LEMMA NoParserIs ==
  ASSUME NEW S
  PROVE  NoParser \in [pending : Seq(S), lines : Seq(Seq(S))]
  <1>1. <<>> \in Seq(S) /\ <<>> \in Seq(Seq(S))
    OBVIOUS
  <1> QED BY <1>1 DEF NoParser

LeftOf(acc) == [pending |-> acc.pending, lines |-> acc.lines]

LEMMA LeftIs ==
  ASSUME NEW S, NEW acc \in Accs(S)
  PROVE  LeftOf(acc) \in [pending : Seq(S), lines : Seq(Seq(S))]
  BY DEF LeftOf, Accs

LEMMA ChunkIsNext ==
  ASSUME NEW S, NEW seen \in Seq(S), NEW chunk \in Seq(S)
  PROVE  PushChunk(NoParser, seen \o chunk)
           = EventsAfter(PushChunk(NoParser, seen).events, PushChunk(LeftOf(PushChunk(NoParser, seen)), chunk))
  <1> DEFINE start == [pending |-> NoParser.pending, lines |-> NoParser.lines, events |-> <<>>]
             w == PushChunk(NoParser, seen)
             fresh == [pending |-> w.pending, lines |-> w.lines, events |-> <<>>]
  <1>1. /\ PushChunk(NoParser, seen \o chunk) = Pushed(start, seen \o chunk)
        /\ w = Pushed(start, seen)
        /\ PushChunk(LeftOf(w), chunk) = Pushed(fresh, chunk)
    BY DEF PushChunk, LeftOf
  <1>2. start \in Accs(S)
    <2>1. <<>> \in Seq(S) /\ <<>> \in Seq(Seq(S))
      OBVIOUS
    <2> QED BY <2>1 DEF Accs, NoParser
  <1>3. w \in Accs(S)
    BY NoParserIs, ChunkIsPushed
  <1> HIDE DEF start, w
  <1>4. Pushed(start, seen \o chunk) = Pushed(w, chunk)
    BY <1>1, <1>2, PushedTwo
  <1>5. /\ w.pending \in Seq(S) /\ w.lines \in Seq(Seq(S)) /\ w.events \in Seq(Seq(S))
        /\ w = [pending |-> w.pending, lines |-> w.lines, events |-> w.events]
    BY <1>3 DEF Accs
  <1>6. fresh \in Accs(S)
    <2>1. <<>> \in Seq(Seq(S))
      OBVIOUS
    <2> QED BY <2>1, <1>5 DEF Accs
  <1>7. w = EventsAfter(w.events, fresh)
    <2>1. w.events \o <<>> = w.events
      BY <1>5
    <2>2. EventsAfter(w.events, fresh) = [pending |-> w.pending, lines |-> w.lines, events |-> w.events \o <<>>]
      BY DEF EventsAfter
    <2> QED BY <2>1, <2>2, <1>5, Zenon
  <1> HIDE DEF fresh
  <1>8. Pushed(EventsAfter(w.events, fresh), chunk) = EventsAfter(w.events, Pushed(fresh, chunk))
    BY <1>5, <1>6, PushedLater
  <1>9. PushChunk(NoParser, seen \o chunk) = EventsAfter(w.events, PushChunk(LeftOf(w), chunk))
    <2>1. Pushed(w, chunk) = Pushed(EventsAfter(w.events, fresh), chunk)
      BY <1>7, Zenon
    <2> QED BY <1>1, <1>4, <1>8, <2>1, Zenon
  <1> QED BY <1>9 DEF w

LEMMA FinishIs ==
  ASSUME NEW S, NEW acc \in [pending : Seq(S), lines : Seq(Seq(S))]
  PROVE  FinishStream(acc) \in Seq(Seq(S))
  <1> DEFINE h == IF acc.pending = <<>> THEN [pending |-> <<>>, lines |-> acc.lines, events |-> <<>>]
                  ELSE HandleLine(acc.lines, WithoutReturn(acc.pending), <<>>)
  <1>1. <<>> \in Seq(S) /\ <<>> \in Seq(Seq(S)) /\ acc.pending \in Seq(S) /\ acc.lines \in Seq(Seq(S))
    OBVIOUS
  <1>2. h \in Accs(S)
    <2>1. [pending |-> <<>>, lines |-> acc.lines, events |-> <<>>] \in Accs(S)
      BY <1>1 DEF Accs
    <2>2. HandleLine(acc.lines, WithoutReturn(acc.pending), <<>>) \in Accs(S)
      <3>1. WithoutReturn(acc.pending) \in Seq(S)
        BY <1>1, ReturnIsDropped
      <3> QED BY <3>1, <1>1, LineIsHandled
    <2> QED BY <2>1, <2>2
  <1>3. FinishStream(acc) = LastEvents(h)
    BY DEF FinishStream
  <1> HIDE DEF h
  <1>4. h.lines \in Seq(Seq(S)) /\ h.events \in Seq(Seq(S))
    BY <1>2 DEF Accs
  <1>5. LastEvents(h) \in Seq(Seq(S))
    <2> DEFINE last == IF h.lines = <<>> THEN <<>> ELSE <<Joined(h.lines)>>
    <2>1. last \in Seq(Seq(S))
      <3>1. Joined(h.lines) \in Seq(S)
        BY <1>4, JoinedIs
      <3>2. <<Joined(h.lines)>> \in Seq(Seq(S))
        BY <3>1
      <3> QED BY <3>2, <1>1
    <2>2. LastEvents(h) = h.events \o last
      BY DEF LastEvents
    <2> HIDE DEF last
    <2> QED BY <2>1, <2>2, <1>4
  <1> QED BY <1>3, <1>5

(* What the end of a stream makes depends on what is left alone.           *)
LEMMA FinishOfLeft ==
  ASSUME NEW acc
  PROVE  FinishStream(LeftOf(acc)) = FinishStream(acc)
  BY DEF FinishStream, LeftOf

(* All events begin with those of the first chunks.                        *)
LEMMA AllEventsBegin ==
  ASSUME NEW S, NEW before \in Seq(Seq(S)), NEW acc \in Accs(S)
  PROVE  \E rest \in Seq(Seq(S)) : AllEvents(EventsAfter(before, acc)) = before \o rest
  <1> DEFINE w == EventsAfter(before, acc)
             more == FinishStream(w)
  <1>1. acc.pending \in Seq(S) /\ acc.lines \in Seq(Seq(S)) /\ acc.events \in Seq(Seq(S))
    BY DEF Accs
  <1>2. w.events = before \o acc.events
    BY DEF EventsAfter
  <1>3. more \in Seq(Seq(S))
    <2>1. LeftOf(w) \in [pending : Seq(S), lines : Seq(Seq(S))]
      BY <1>1 DEF LeftOf, EventsAfter
    <2>2. FinishStream(LeftOf(w)) \in Seq(Seq(S))
      BY <2>1, FinishIs
    <2> HIDE DEF w
    <2>3. more = FinishStream(LeftOf(w))
      BY FinishOfLeft
    <2> QED BY <2>2, <2>3
  <1> HIDE DEF w, more
  <1>4. CASE HasDone(w.events)
    <2>1. AllEvents(w) = before \o acc.events
      BY <1>2, <1>4 DEF AllEvents
    <2> QED BY <2>1, <1>1 DEF w
  <1>5. CASE ~HasDone(w.events)
    <2>1. AllEvents(w) = (before \o acc.events) \o more
      BY <1>2, <1>5 DEF AllEvents, more
    <2>2. Same((before \o acc.events) \o more, before \o (acc.events \o more))
      BY <1>1, <1>3, Regrouped
    <2>3. acc.events \o more \in Seq(Seq(S))
      BY <1>1, <1>3
    <2>4. AllEvents(w) = before \o (acc.events \o more)
      BY <2>1, <2>2, Zenon DEF Same
    <2> QED BY <2>3, <2>4 DEF w
  <1> QED BY <1>4, <1>5

-------------------------------------------------------------------------------
(* The raw calls of a text, and the text without them. A trimmed text has  *)
(* nothing but tokens of the text.                                         *)
LEMMA TrimIs ==
  ASSUME NEW S, NEW text \in Seq(S)
  PROVE  Trim(text) \in Seq(S) /\ ToSet(Trim(text)) \subseteq ToSet(text)
  <1> DEFINE ink == {k \in DOMAIN text : text[k] # White}
             first == Min(ink)
             last == Max(ink)
             inner == SubSeq(text, first, last)
  <1>1. CASE ink = {}
    <2>1. Trim(text) = <<>>
      BY <1>1, Zenon DEF Trim
    <2> QED BY <2>1 DEF ToSet
  <1>2. CASE ink # {}
    <2>1. Trim(text) = inner
      BY <1>2, Zenon DEF Trim
    <2>2. ink \subseteq 0 .. Len(text) /\ ink \subseteq Nat /\ Len(text) \in Nat
      OBVIOUS
    <2>3. last \in ink /\ \A k \in ink : k <= last
      <3> HIDE DEF ink
      <3> QED BY <1>2, <2>2, MaxOfUpTo
    <2>4. first \in ink
      <3> HIDE DEF ink
      <3>1. \E k \in ink : \A d \in ink : k <= d
        BY <1>2, <2>2, LeastMember
      <3> QED BY <3>1 DEF Min
    <2>5. first \in 1 .. Len(text) /\ last \in 1 .. Len(text) /\ first <= last
      BY <2>3, <2>4
    <2> HIDE DEF ink, first, last
    <2>6. inner \in Seq(S) /\ \A k \in DOMAIN inner : first + k - 1 \in DOMAIN text /\ inner[k] = text[first + k - 1]
      BY <2>5
    <2> HIDE DEF inner
    <2> QED BY <2>1, <2>6 DEF ToSet
  <1> QED BY <1>1, <1>2

Nexts(text) == {1} \cup {BlockEnd(text, i) + 1 : i \in 1 .. Len(text)}

CallAccs(text) ==
  [next : Nexts(text), calls : {c \in Seq(Nat) : \A k \in DOMAIN c : IsCall(text, c[k])}]

LEMMA BlockIsScanned ==
  ASSUME NEW S, NEW text \in Seq(S), NEW acc \in CallAccs(text), NEW i \in 1 .. Len(text)
  PROVE  ScanBlock(text, acc, i) \in CallAccs(text)
  <1>1. CASE i >= acc.next /\ IsCall(text, i)
    <2> DEFINE found == Append(acc.calls, i)
    <2>1. acc.calls \in Seq(Nat) /\ \A k \in DOMAIN acc.calls : IsCall(text, acc.calls[k])
      BY DEF CallAccs
    <2>2. found \in Seq(Nat) /\ \A k \in DOMAIN found : IsCall(text, found[k])
      <3>1. i \in Nat
        OBVIOUS
      <3>2. found \in Seq(Nat) /\ \A k \in DOMAIN found : found[k] = i \/ (k \in DOMAIN acc.calls /\ found[k] = acc.calls[k])
        BY <3>1, <2>1
      <3> HIDE DEF found
      <3> QED BY <3>2, <2>1, <1>1
    <2>3. BlockEnd(text, i) + 1 \in Nexts(text)
      BY DEF Nexts
    <2>4. ScanBlock(text, acc, i) = [next |-> BlockEnd(text, i) + 1, calls |-> found]
      BY <1>1, Zenon DEF ScanBlock
    <2> HIDE DEF found
    <2> QED BY <2>2, <2>3, <2>4 DEF CallAccs
  <1>2. CASE ~(i >= acc.next /\ IsCall(text, i))
    BY <1>2, Zenon DEF ScanBlock
  <1> QED BY <1>1, <1>2

LEMMA RawCallsAreCalls ==
  ASSUME NEW S, NEW text \in Seq(S)
  PROVE  \A k \in DOMAIN RawCalls(text) : IsCall(text, RawCalls(text)[k])
  <1> DEFINE n == Len(text)
             base == [next |-> 1, calls |-> <<>>]
             step == [k \in 1 .. n |-> [acc \in CallAccs(text) |-> ScanBlock(text, acc, k)]]
             Steps(f) == f = [i \in 0 .. n |-> IF i = 0 THEN [next |-> 1, calls |-> <<>>]
                                                ELSE ScanBlock(text, f[i - 1], i)]
             chosen == CHOOSE f : f = [i \in 0 .. n |-> IF i = 0 THEN [next |-> 1, calls |-> <<>>]
                                                        ELSE ScanBlock(text, f[i - 1], i)]
  <1>1. n \in Nat
    OBVIOUS
  <1>2. AreSteps(step, n, CallAccs(text))
    <2>1. \A k \in 1 .. n : \A acc \in CallAccs(text) : ScanBlock(text, acc, k) \in CallAccs(text)
      BY BlockIsScanned
    <2> QED BY <2>1 DEF AreSteps
  <1>3. RawCalls(text) = chosen[n].calls
    BY Zenon DEF RawCalls
  <1> HIDE DEF n
  <1>4. base \in CallAccs(text)
    <2>1. 1 \in Nexts(text)
      BY DEF Nexts
    <2>2. <<>> \in Seq(Nat) /\ \A k \in DOMAIN <<>> : IsCall(text, <<>>[k])
      OBVIOUS
    <2> QED BY <2>1, <2>2 DEF CallAccs
  <1>5. PICK f \in [0 .. n -> CallAccs(text)] : f[0] = base /\ \A k \in 1 .. n : f[k] = step[k][f[k - 1]]
    <2> HIDE DEF step, base
    <2>1. \E f \in [0 .. n -> CallAccs(text)] : MadeBy(step, n, base, f)
      BY <1>1, <1>2, <1>4, StepsAreThere
    <2> QED BY <2>1 DEF MadeBy
  <1>6. \A k \in 1 .. n : f[k] = ScanBlock(text, f[k - 1], k)
    <2>1. \A k \in 1 .. n : k - 1 \in 0 .. n
      BY <1>1
    <2> QED BY <2>1, <1>5
  <1>7. Steps(f)
    <2>1. \A k \in 0 .. n : k = 0 \/ k \in 1 .. n
      BY <1>1
    <2> QED BY <2>1, <1>5, <1>6
  <1>8. Steps(chosen)
    BY <1>7, Zenon
  <1> HIDE DEF chosen
  <1>9. \A k \in 0 .. n : chosen[k] = IF k = 0 THEN base ELSE ScanBlock(text, chosen[k - 1], k)
    BY <1>8, Zenon
  <1> HIDE DEF base
  <1>10. \A k \in 0 .. n : chosen[k] \in CallAccs(text)
    <2> DEFINE G == {k \in 0 .. n : chosen[k] \in CallAccs(text)}
    <2>1. 0 \in G
      BY <1>1, <1>4, <1>9
    <2>2. ASSUME NEW k \in 1 .. n, k - 1 \in G PROVE k \in G
      <3>1. k \in 0 .. n /\ k # 0
        BY <1>1
      <3>2. chosen[k] = ScanBlock(text, chosen[k - 1], k)
        BY <3>1, <1>9, Zenon
      <3>3. chosen[k - 1] \in CallAccs(text) /\ k \in 1 .. Len(text)
        BY <2>2 DEF n
      <3>4. ScanBlock(text, chosen[k - 1], k) \in CallAccs(text)
        BY <3>3, BlockIsScanned
      <3> QED BY <3>1, <3>2, <3>4
    <2> HIDE DEF G
    <2>3. \A k \in 0 .. n : k \in G
      BY <1>1, <2>1, <2>2, StepByStep
    <2> QED BY <2>3 DEF G
  <1>11. chosen[n] \in CallAccs(text)
    BY <1>1, <1>10
  <1>12. \A k \in DOMAIN chosen[n].calls : IsCall(text, chosen[n].calls[k])
    BY <1>11 DEF CallAccs
  <1> QED BY <1>3, <1>12

(* When every block of a text has an end, none is left of it.              *)
TextAccs(S, text) ==
  [next : Nexts(text), broken : {FALSE}, text : {t \in Seq(S) : \A k \in DOMAIN t : t[k] # RawOpen}]

BlocksEnd(text) == \A i \in DOMAIN text : text[i] = RawOpen => BlockEnd(text, i) # 0

LEMMA TokenIsStripped ==
  ASSUME NEW S, NEW text \in Seq(S), BlocksEnd(text), NEW acc \in TextAccs(S, text), NEW i \in 1 .. Len(text)
  PROVE  StripToken(text, acc, i) \in TextAccs(S, text)
  <1>1. CASE i < acc.next
    BY <1>1, Zenon DEF StripToken
  <1>2. CASE ~(i < acc.next) /\ text[i] = RawOpen
    <2>1. ~acc.broken
      BY DEF TextAccs
    <2>2. BlockEnd(text, i) # 0
      <3>1. i \in DOMAIN text
        OBVIOUS
      <3> QED BY <3>1, <1>2 DEF BlocksEnd
    <2>3. StripToken(text, acc, i) = [acc EXCEPT !.next = BlockEnd(text, i) + 1]
      BY <1>2, <2>1, <2>2, Zenon DEF StripToken
    <2>4. BlockEnd(text, i) + 1 \in Nexts(text)
      BY DEF Nexts
    <2> QED BY <2>3, <2>4 DEF TextAccs
  <1>3. CASE ~(i < acc.next) /\ text[i] # RawOpen
    <2> DEFINE t == Append(acc.text, text[i])
    <2>1. acc.text \in Seq(S) /\ (\A k \in DOMAIN acc.text : acc.text[k] # RawOpen) /\ acc.broken = FALSE
      BY DEF TextAccs
    <2>2. text[i] \in S
      OBVIOUS
    <2>3. t \in Seq(S) /\ \A k \in DOMAIN t : t[k] = text[i] \/ (k \in DOMAIN acc.text /\ t[k] = acc.text[k])
      BY <2>1, <2>2
    <2> DEFINE broken == acc.broken \/ text[i] = RawOpen
    <2>4. broken = FALSE
      BY <2>1, <1>3
    <2>5. StripToken(text, acc, i) = [acc EXCEPT !.broken = broken, !.text = t]
      BY <1>3, Zenon DEF StripToken
    <2> HIDE DEF t, broken
    <2>6. t \in {x \in Seq(S) : \A k \in DOMAIN x : x[k] # RawOpen}
      BY <2>1, <2>3, <1>3
    <2> QED BY <2>4, <2>5, <2>6 DEF TextAccs
  <1> QED BY <1>1, <1>2, <1>3

LEMMA StrippedHasNone ==
  ASSUME NEW S, NEW text \in Seq(S), BlocksEnd(text)
  PROVE  RawOpen \notin ToSet(Stripped(text))
  <1> DEFINE n == Len(text)
             base == [next |-> 1, broken |-> FALSE, text |-> <<>>]
             A == TextAccs(S, text)
             step == [k \in 1 .. n |-> [acc \in A |-> StripToken(text, acc, k)]]
             Steps(f) == f = [i \in 0 .. n |-> IF i = 0 THEN [next |-> 1, broken |-> FALSE, text |-> <<>>]
                                                ELSE StripToken(text, f[i - 1], i)]
             chosen == CHOOSE f : f = [i \in 0 .. n |-> IF i = 0 THEN [next |-> 1, broken |-> FALSE, text |-> <<>>]
                                                        ELSE StripToken(text, f[i - 1], i)]
  <1>1. n \in Nat
    OBVIOUS
  <1>2. AreSteps(step, n, A)
    <2>1. \A k \in 1 .. n : \A acc \in A : StripToken(text, acc, k) \in A
      BY TokenIsStripped
    <2> QED BY <2>1 DEF AreSteps
  <1>3. Stripped(text)
          = Trim(chosen[n].text \o (IF chosen[n].broken THEN SubSeq(text, chosen[n].next, Len(text)) ELSE <<>>))
    BY Zenon DEF Stripped
  <1> HIDE DEF n
  <1>4. base \in A
    <2>1. 1 \in Nexts(text)
      BY DEF Nexts
    <2>2. <<>> \in Seq(S) /\ \A k \in DOMAIN <<>> : <<>>[k] # RawOpen
      OBVIOUS
    <2> QED BY <2>1, <2>2 DEF TextAccs
  <1>5. PICK f \in [0 .. n -> A] : f[0] = base /\ \A k \in 1 .. n : f[k] = step[k][f[k - 1]]
    <2> HIDE DEF step, base, A
    <2>1. \E f \in [0 .. n -> A] : MadeBy(step, n, base, f)
      BY <1>1, <1>2, <1>4, StepsAreThere
    <2> QED BY <2>1 DEF MadeBy
  <1>6. \A k \in 1 .. n : f[k] = StripToken(text, f[k - 1], k)
    <2>1. \A k \in 1 .. n : k - 1 \in 0 .. n
      BY <1>1
    <2> QED BY <2>1, <1>5
  <1>7. Steps(f)
    <2>1. \A k \in 0 .. n : k = 0 \/ k \in 1 .. n
      BY <1>1
    <2> QED BY <2>1, <1>5, <1>6
  <1>8. Steps(chosen)
    BY <1>7, Zenon
  <1> HIDE DEF chosen
  <1>9. \A k \in 0 .. n : chosen[k] = IF k = 0 THEN base ELSE StripToken(text, chosen[k - 1], k)
    BY <1>8, Zenon
  <1> HIDE DEF base
  <1>10. \A k \in 0 .. n : chosen[k] \in A
    <2> DEFINE G == {k \in 0 .. n : chosen[k] \in A}
    <2>1. 0 \in G
      BY <1>1, <1>4, <1>9
    <2>2. ASSUME NEW k \in 1 .. n, k - 1 \in G PROVE k \in G
      <3>1. k \in 0 .. n /\ k # 0
        BY <1>1
      <3>2. chosen[k] = StripToken(text, chosen[k - 1], k)
        BY <3>1, <1>9, Zenon
      <3>3. chosen[k - 1] \in A /\ k \in 1 .. Len(text)
        BY <2>2 DEF n
      <3>4. StripToken(text, chosen[k - 1], k) \in A
        BY <3>3, TokenIsStripped
      <3> QED BY <3>1, <3>2, <3>4
    <2> HIDE DEF G
    <2>3. \A k \in 0 .. n : k \in G
      BY <1>1, <2>1, <2>2, StepByStep
    <2> QED BY <2>3 DEF G
  <1>11. chosen[n] \in A
    BY <1>1, <1>10
  <1>12. /\ \A k \in DOMAIN chosen[n].text : chosen[n].text[k] # RawOpen
         /\ chosen[n].text \in Seq(S) /\ chosen[n].broken = FALSE
    BY <1>11 DEF TextAccs
  <1>13. Stripped(text) = Trim(chosen[n].text)
    <2> DEFINE kept == chosen[n].text
               more == IF chosen[n].broken THEN SubSeq(text, chosen[n].next, Len(text)) ELSE <<>>
    <2>1. more = <<>> /\ kept \in Seq(S) /\ Stripped(text) = Trim(kept \o more)
      BY <1>3, <1>12
    <2> HIDE DEF kept, more
    <2>2. kept \o <<>> = kept
      BY <2>1
    <2> QED BY <2>1, <2>2, Zenon DEF kept
  <1>14. RawOpen \notin ToSet(chosen[n].text)
    BY <1>12 DEF ToSet
  <1>15. ToSet(Trim(chosen[n].text)) \subseteq ToSet(chosen[n].text)
    BY <1>12, TrimIs
  <1> QED BY <1>13, <1>14, <1>15

(* What becomes of the raw calls of a text is what RescueIsWhole says.     *)
LEMMA RescuedAreWhole ==
  ASSUME NEW text \in Seq(STRING), NEW plain, plain = Unwrapped(text), NEW parsed, parsed = Rescue(text)
  PROVE  /\ parsed.calls = <<>> => parsed.text = text
         /\ parsed.calls # <<>> =>
              /\ ToSet(parsed.calls) = ToSet(RawCalls(plain))
              /\ \A i \in ToSet(RawCalls(plain)) : IsJson(CallArgs(plain, i))
              /\ {i \in DOMAIN plain : plain[i] = RawOpen} = ToSet(RawCalls(plain)) => RawOpen \notin ToSet(parsed.text)
  <1> DEFINE found == RawCalls(plain)
             lost == found = <<>> \/ \E k \in DOMAIN found : ~IsJson(CallArgs(plain, found[k]))
             Pieces == STRING \cup {White}
  <1>0. plain \in Seq(Pieces)
    <2> DEFINE U == [k \in DOMAIN text |-> IF text[k] = Wrapper THEN White ELSE text[k]]
    <2>1. DOMAIN text = 1 .. Len(text) /\ Len(text) \in Nat /\ \A k \in DOMAIN text : text[k] \in STRING
      OBVIOUS
    <2>2. U \in [1 .. Len(text) -> Pieces]
      BY <2>1
    <2> HIDE DEF U, Pieces
    <2>3. U \in Seq(Pieces)
      BY <2>1, <2>2
    <2> QED BY <2>3, Zenon DEF Unwrapped, U
  <1>1. CASE lost
    <2>1. parsed = [is |-> "ok", text |-> text, calls |-> <<>>]
      BY <1>1, Zenon DEF Rescue
    <2> HIDE DEF found
    <2>2. parsed.calls = <<>> /\ parsed.text = text
      BY <2>1
    <2> QED BY <2>2
  <1>2. CASE ~lost
    <2>1. parsed = [is |-> "ok", text |-> Stripped(plain), calls |-> found]
      BY <1>2, Zenon DEF Rescue
    <2>2. found # <<>> /\ \A k \in DOMAIN found : IsJson(CallArgs(plain, found[k]))
      BY <1>2
    <2>3. \A k \in DOMAIN found : IsCall(plain, found[k])
      BY <1>0, RawCallsAreCalls
    <2> HIDE DEF found
    <2>4. parsed.calls = found /\ parsed.text = Stripped(plain)
      BY <2>1
    <2>5. \A i \in ToSet(found) : IsJson(CallArgs(plain, i)) /\ IsCall(plain, i)
      BY <2>2, <2>3 DEF ToSet
    <2>6. ASSUME {i \in DOMAIN plain : plain[i] = RawOpen} = ToSet(found)
          PROVE  RawOpen \notin ToSet(Stripped(plain))
      <3>1. \A i \in DOMAIN plain : plain[i] = RawOpen => i \in ToSet(found)
        BY <2>6
      <3>2. BlocksEnd(plain)
        BY <3>1, <2>5 DEF IsCall, BlocksEnd
      <3> QED BY <3>2, <1>0, StrippedHasNone
    <2> QED BY <2>2, <2>4, <2>5, <2>6 DEF found
  <1> QED BY <1>1, <1>2

-------------------------------------------------------------------------------
(* What has been seen of a stream that goes on, and what was made of it.   *)
Seen(seen) ==
  /\ seen \in Seq(STRING) /\ sent = seen \o wire
  /\ parser = LeftOf(PushChunk(NoParser, seen))
  /\ ~HasDone(PushChunk(NoParser, seen).events)
  /\ piped = Deltas(PushChunk(NoParser, seen).events)

Unasked ==
  /\ sentRequest = NoRequest /\ sent = <<>> /\ wire = <<>> /\ parser = NoParser
  /\ piped = <<>> /\ answer.is = "none"

LlmInv ==
  /\ sent \in Seq(STRING) /\ wire \in Seq(STRING)
  /\ answer.is = "none" => answer = [is |-> "none", text |-> piped, calls |-> <<>>]
  /\ sentRequest.route = "none" => Unasked
  /\ sentRequest.route = "stream" /\ answer.is = "none" => \E seen \in Seq(STRING) : Seen(seen)
  /\ sentRequest.route = "stream" /\ answer.is # "none" => ChunksDoNotMatter
  /\ RescueIsWhole

LEMMA WholeIs ==
  ASSUME NEW S, NEW seen \in Seq(S)
  PROVE  PushChunk(NoParser, seen) \in Accs(S)
  BY NoParserIs, ChunkIsPushed

(* What was passed on of a stream that goes on begins what is its answer.  *)
LEMMA SeenIsPrefix ==
  ASSUME NEW seen, Seen(seen), wire \in Seq(STRING)
  PROVE  IsPrefix(piped, Deltas(AllEvents(PushChunk(NoParser, sent))))
  <1> DEFINE w == PushChunk(NoParser, seen)
             p == PushChunk(LeftOf(w), wire)
  <1>1. seen \in Seq(STRING) /\ sent = seen \o wire /\ piped = Deltas(w.events)
    BY DEF Seen
  <1>2. w \in Accs(STRING) /\ p \in Accs(STRING)
    <2>1. w \in Accs(STRING)
      BY <1>1, WholeIs
    <2> HIDE DEF w
    <2>2. LeftOf(w) \in [pending : Seq(STRING), lines : Seq(Seq(STRING))]
      BY <2>1, LeftIs
    <2> QED BY <2>1, <2>2, ChunkIsPushed
  <1>3. PushChunk(NoParser, seen \o wire) = EventsAfter(w.events, p)
    BY <1>1, ChunkIsNext
  <1> HIDE DEF w, p
  <1>4. w.events \in Seq(Seq(STRING))
    BY <1>2 DEF Accs
  <1>5. PICK rest \in Seq(Seq(STRING)) : AllEvents(EventsAfter(w.events, p)) = w.events \o rest
    BY <1>2, <1>4, AllEventsBegin
  <1>6. IsPrefix(Deltas(w.events), Deltas(w.events \o rest))
    BY <1>4, DeltasGrow
  <1> QED BY <1>1, <1>3, <1>5, <1>6

LEMMA LlmInvStart == LlmInit => LlmInv
  <1> SUFFICES ASSUME LlmInit PROVE LlmInv
    OBVIOUS
  <1>1. <<>> \in Seq(STRING)
    OBVIOUS
  <1>2. answer = [is |-> "none", text |-> <<>>, calls |-> <<>>] /\ answer.is = "none"
    BY DEF LlmInit, NoAnswer
  <1>3. sentRequest.route = "none"
    BY DEF LlmInit, NoRequest
  <1> QED BY <1>1, <1>2, <1>3 DEF LlmInit, LlmInv, Unasked, RescueIsWhole

LEMMA NothingCounts == Deltas(<<>>) = <<>>
  <1>1. <<>> \in Seq(Seq(STRING)) /\ Len(<<>>) = 0 /\ DOMAIN <<>> = {}
    OBVIOUS
  <1>2. ~HasDone(<<>>)
    BY <1>1 DEF HasDone
  <1>3. BeforeDone(<<>>) = 0
    BY <1>1, <1>2, NoDone
  <1> DEFINE parts == Parts(<<>>)
  <1>4. parts \in Seq(Seq(STRING)) /\ Len(parts) = 0
    BY <1>1, <1>3, PartsAre
  <1> HIDE DEF parts
  <1>5. PICK f \in [0 .. Len(parts) -> Seq(STRING)] : JoinedUpTo(parts, f)
    BY <1>4, JoinedSteps
  <1>6. Joined(parts) = <<>>
    BY <1>4, <1>5 DEF JoinedUpTo
  <1>7. Deltas(<<>>) = Joined(parts)
    BY <1>1, DeltasAre DEF parts
  <1> QED BY <1>6, <1>7

(* A request is made with nothing seen of its stream.                      *)
LEMMA LlmAsks ==
  ASSUME LlmInv, NEW history, NEW tools, AskProvider(history, tools)
  PROVE  LlmInv'
  <1> DEFINE route == IF HasImages(history) THEN "responses" ELSE IF tools THEN "chat" ELSE "stream"
  <1>1. Unasked /\ answer = [is |-> "none", text |-> piped, calls |-> <<>>] /\ answer.is = "none"
    <2>1. sentRequest.route = "none"
      BY DEF AskProvider, NoRequest
    <2> QED BY <2>1 DEF LlmInv, Unasked
  <1>2. sentRequest'.route = route /\ route \in {"responses", "chat", "stream"}
    BY DEF AskProvider
  <1>3. sent' \in Seq(STRING) /\ wire' = sent'
    <2>1. <<>> \in Seq(STRING)
      OBVIOUS
    <2>2. PICK stream \in Streams : sent' = IF route = "stream" THEN stream ELSE <<>>
      BY DEF AskProvider
    <2>3. stream \in Seq(STRING)
      BY LlmConstants
    <2> HIDE DEF route
    <2> QED BY <2>1, <2>2, <2>3 DEF AskProvider
  <1>4. parser' = NoParser /\ answer' = answer /\ piped' = <<>>
    BY <1>1 DEF AskProvider, Unasked
  <1> HIDE DEF route
  <1>5. Seen(<<>>)'
    <2> DEFINE start == [pending |-> NoParser.pending, lines |-> NoParser.lines, events |-> <<>>]
               w == PushChunk(NoParser, <<>>)
    <2>1. <<>> \in Seq(STRING) /\ sent' = <<>> \o wire'
      BY <1>3
    <2>2. w = start
      <3>1. start \in Accs(STRING)
        <4>1. <<>> \in Seq(STRING) /\ <<>> \in Seq(Seq(STRING))
          OBVIOUS
        <4> QED BY <4>1 DEF Accs, NoParser
      <3>2. w = Pushed(start, <<>>)
        BY DEF PushChunk
      <3> HIDE DEF start
      <3>3. PICK f \in [0 .. Len(<<>>) -> Accs(STRING)] : PushedUpTo(start, <<>>, f)
        BY <2>1, <3>1, PushedSteps
      <3>4. Len(<<>>) = 0
        OBVIOUS
      <3> QED BY <3>2, <3>3, <3>4 DEF PushedUpTo
    <2>3. w.events = <<>> /\ LeftOf(w) = NoParser
      BY <2>2 DEF LeftOf, NoParser
    <2> HIDE DEF w
    <2>4. ~HasDone(<<>>)
      BY DEF HasDone
    <2>5. Deltas(<<>>) = <<>>
      BY NothingCounts
    <2> QED BY <2>1, <2>3, <2>4, <2>5, <1>4 DEF Seen, w
  <1>6. RescueIsWhole'
    BY <1>1, <1>4 DEF RescueIsWhole
  <1>7. <<>> \in Seq(STRING)
    OBVIOUS
  <1>8. answer' = [is |-> "none", text |-> piped', calls |-> <<>>] /\ answer'.is = "none"
    BY <1>1, <1>4 DEF Unasked
  <1> QED BY <1>2, <1>3, <1>5, <1>6, <1>7, <1>8 DEF LlmInv

(* A chunk: one more of what has been seen, up to the end mark.            *)
LEMMA LlmTakesChunk ==
  ASSUME LlmInv, TakeChunk
  PROVE  LlmInv'
  <1>1. PICK n \in 1 .. Len(wire) : \E pushed \in {PushChunk(parser, SubSeq(wire, 1, n))} :
          /\ wire' = SubSeq(wire, n + 1, Len(wire))
          /\ parser' = [pending |-> pushed.pending, lines |-> pushed.lines]
          /\ TakeEvents(pushed.events, FALSE)
    BY Zenon DEF TakeChunk
  <1>2. /\ sentRequest.route = "stream" /\ answer.is = "none" /\ wire \in Seq(STRING) /\ sent \in Seq(STRING)
        /\ answer = [is |-> "none", text |-> piped, calls |-> <<>>]
        /\ sentRequest' = sentRequest /\ sent' = sent
    BY DEF TakeChunk, LlmInv
  <1>3. PICK seen \in Seq(STRING) : Seen(seen)
    BY <1>2 DEF LlmInv
  <1>4. PICK chunk \in Seq(STRING) :
          /\ wire' \in Seq(STRING) /\ wire = chunk \o wire'
          /\ \E pushed \in {PushChunk(parser, chunk)} :
               parser' = [pending |-> pushed.pending, lines |-> pushed.lines] /\ TakeEvents(pushed.events, FALSE)
    <2> DEFINE chunk == SubSeq(wire, 1, n)
    <2>1. Len(wire) \in Nat /\ n \in Nat /\ wire' = SubSeq(wire, n + 1, Len(wire)) /\ 1 <= n /\ n <= Len(wire)
      BY <1>1, <1>2
    <2>2. chunk \in Seq(STRING) /\ Len(chunk) = n /\ wire' \in Seq(STRING) /\ Len(wire') = Len(wire) - n
      BY <1>2, <2>1
    <2>3. (\A k \in 1 .. n : chunk[k] = wire[k]) /\ \A k \in 1 .. Len(wire) - n : wire'[k] = wire[n + k]
      BY <1>2, <2>1
    <2> HIDE DEF chunk
    <2> DEFINE both == chunk \o wire'
    <2>4. AreBoth(STRING, chunk, wire', both)
      BY <2>2, BothAre
    <2> HIDE DEF both
    <2>5. both \in Seq(STRING) /\ Len(both) = Len(wire)
      BY <2>1, <2>2, <2>4 DEF AreBoth
    <2>6. ASSUME NEW k \in 1 .. Len(wire) PROVE wire[k] = both[k]
      <3>1. CASE k \in 1 .. n
        BY <3>1, <2>2, <2>3, <2>4 DEF AreBoth
      <3>2. CASE k \notin 1 .. n
        <4> DEFINE j == k - n
        <4>1. j \in 1 .. Len(wire) - n /\ k = n + j
          BY <3>2, <2>1
        <4> HIDE DEF j
        <4>2. both[n + j] = wire'[j]
          BY <4>1, <2>2, <2>4 DEF AreBoth
        <4> QED BY <4>1, <4>2, <2>3
      <3> QED BY <3>1, <3>2
    <2>7. wire = both
      BY <1>2, <2>5, <2>6, SeqEqual
    <2> QED BY <1>1, <2>2, <2>7 DEF both, chunk
  <1> DEFINE w == PushChunk(NoParser, seen)
             p == PushChunk(LeftOf(w), chunk)
             next == PushChunk(NoParser, seen \o chunk)
  <1>5. /\ seen \in Seq(STRING) /\ sent = seen \o wire /\ parser = LeftOf(w)
        /\ ~HasDone(w.events) /\ piped = Deltas(w.events)
    BY <1>3 DEF Seen
  <1>6. parser' = LeftOf(p) /\ TakeEvents(p.events, FALSE)
    BY <1>4, <1>5 DEF LeftOf
  <1>7. w \in Accs(STRING) /\ p \in Accs(STRING) /\ next = EventsAfter(w.events, p)
    <2>1. w \in Accs(STRING)
      BY WholeIs
    <2>2. next = EventsAfter(w.events, p)
      BY <1>4, ChunkIsNext
    <2> HIDE DEF w
    <2>3. LeftOf(w) \in [pending : Seq(STRING), lines : Seq(Seq(STRING))]
      BY <2>1, LeftIs
    <2>4. p \in Accs(STRING)
      BY <1>4, <2>3, ChunkIsPushed
    <2> QED BY <2>1, <2>2, <2>4
  <1> HIDE DEF w, p, next
  <1>8. w.events \in Seq(Seq(STRING)) /\ p.events \in Seq(Seq(STRING)) /\ next.events = w.events \o p.events
        /\ LeftOf(next) = LeftOf(p)
    BY <1>7 DEF Accs, EventsAfter, LeftOf
  <1>9. /\ Deltas(next.events) = Deltas(w.events) \o Deltas(p.events)
        /\ HasDone(next.events) <=> HasDone(p.events)
    <2>1. /\ Deltas(w.events \o p.events) = Deltas(w.events) \o Deltas(p.events)
          /\ HasDone(w.events \o p.events) <=> HasDone(p.events)
      BY <1>5, <1>8, DeltasTwo
    <2> QED BY <2>1, <1>8
  <1>10. piped' = Deltas(next.events)
    BY <1>5, <1>6, <1>9 DEF TakeEvents
  <1>11. answer.text = piped
    BY <1>2
  <1>12. sent = (seen \o chunk) \o wire' /\ seen \o chunk \in Seq(STRING)
    <2>1. Same((seen \o chunk) \o wire', seen \o (chunk \o wire'))
      BY <1>4, Regrouped
    <2>2. sent = seen \o (chunk \o wire')
      BY <1>4, <1>5
    <2> QED BY <2>1, <2>2, <1>4 DEF Same
  <1>13. RescueIsWhole'
    BY <1>2 DEF RescueIsWhole
  <1>14. CASE HasDone(p.events)
    <2> DEFINE text == answer.text \o Deltas(p.events)
    <2>1. answer' = StreamResult(text, TRUE)
      BY <1>6, <1>14 DEF TakeEvents
    <2>2. text = piped'
      BY <1>6, <1>11 DEF TakeEvents
    <2> HIDE DEF text
    <2>3. answer'.text = Trim(piped') /\ answer'.is \in {"ok", "error"} /\ (answer'.is = "ok" => Trim(piped') # <<>>)
      <3>1. answer' = [is |-> IF TRUE /\ Trim(text) # <<>> THEN "ok" ELSE "error", text |-> Trim(text), calls |-> <<>>]
        BY <2>1 DEF StreamResult, NoAnswer
      <3> QED BY <3>1, <2>2
    <2> DEFINE q == PushChunk(LeftOf(next), wire')
               whole == PushChunk(NoParser, sent)
    <2>4. whole = EventsAfter(next.events, q) /\ q \in Accs(STRING)
      <3>1. PushChunk(NoParser, (seen \o chunk) \o wire') = EventsAfter(next.events, q)
        BY <1>4, <1>12, ChunkIsNext DEF next
      <3>2. LeftOf(next) \in [pending : Seq(STRING), lines : Seq(Seq(STRING))]
        BY <1>7, <1>8, LeftIs
      <3>3. q \in Accs(STRING)
        BY <1>4, <3>2, ChunkIsPushed
      <3> QED BY <1>12, <3>1, <3>3
    <2> HIDE DEF q, whole
    <2>5. q.events \in Seq(Seq(STRING)) /\ whole.events = next.events \o q.events /\ next.events \in Seq(Seq(STRING))
      <3>1. next.events \in Seq(Seq(STRING))
        BY <1>8
      <3>2. q.events \in Seq(Seq(STRING)) /\ whole.events = next.events \o q.events
        BY <2>4 DEF Accs, EventsAfter
      <3> QED BY <3>1, <3>2
    <2>6. HasDone(whole.events) /\ Deltas(whole.events) = Deltas(next.events)
      <3>1. HasDone(next.events)
        BY <1>9, <1>14
      <3>2. HasDone(next.events \o q.events) /\ Deltas(next.events \o q.events) = Deltas(next.events)
        BY <2>5, <3>1, DeltasStopAtDone
      <3> QED BY <2>5, <3>2
    <2>7. AllEvents(whole) = whole.events
      BY <2>6 DEF AllEvents
    <2>8. IsPrefix(piped', piped')
      <3>1. piped' \in Seq(STRING)
        BY <1>10, <2>5, DeltasAre
      <3> QED BY <3>1 DEF IsPrefix
    <2>9. InOnePiece(AllEvents(whole))'
      <3>1. whole' = whole
        BY <1>2 DEF whole
      <3>2. piped' = Deltas(AllEvents(whole)) /\ HasDone(AllEvents(whole))
        BY <1>10, <2>6, <2>7
      <3> QED BY <2>3, <2>8, <3>1, <3>2 DEF InOnePiece
    <2>10. ChunksDoNotMatter'
      BY <2>9 DEF ChunksDoNotMatter, whole
    <2> QED BY <1>2, <1>4, <1>13, <2>3, <2>10 DEF LlmInv
  <1>15. CASE ~HasDone(p.events)
    <2>1. answer' = [answer EXCEPT !.text = @ \o Deltas(p.events)]
      BY <1>6, <1>15 DEF TakeEvents
    <2>2. answer' = [is |-> "none", text |-> piped', calls |-> <<>>] /\ answer'.is = "none"
      <3>1. piped' = piped \o Deltas(p.events)
        BY <1>6 DEF TakeEvents
      <3> DEFINE text == piped \o Deltas(p.events)
      <3>2. answer' = [answer EXCEPT !.text = text]
        BY <1>11, <2>1
      <3> HIDE DEF text
      <3>3. answer' = [is |-> "none", text |-> text, calls |-> <<>>]
        BY <1>2, <3>2
      <3> QED BY <3>1, <3>3 DEF text
    <2>3. Seen(seen \o chunk)'
      <3>1. next' = next
        BY DEF next
      <3>2. ~HasDone(next.events)
        BY <1>9, <1>15
      <3>3. /\ seen \o chunk \in Seq(STRING) /\ sent' = (seen \o chunk) \o wire'
            /\ parser' = LeftOf(next) /\ ~HasDone(next.events) /\ piped' = Deltas(next.events)
        BY <1>2, <1>6, <1>8, <1>10, <1>12, <3>2
      <3> QED BY <3>3 DEF Seen, next
    <2>4. \E s \in Seq(STRING) : Seen(s)'
      BY <1>12, <2>3
    <2> QED BY <1>2, <1>4, <1>13, <2>2, <2>4 DEF LlmInv
  <1> QED BY <1>14, <1>15

(* The end: what was left in the parser was all that was missing.          *)
LEMMA LlmEnds ==
  ASSUME LlmInv, EndStream
  PROVE  LlmInv'
  <1> DEFINE w == PushChunk(NoParser, sent)
             more == FinishStream(parser)
  <1>1. /\ sentRequest.route = "stream" /\ answer.is = "none" /\ wire = <<>>
        /\ answer = [is |-> "none", text |-> piped, calls |-> <<>>] /\ sent \in Seq(STRING)
        /\ sentRequest' = sentRequest /\ wire' = wire /\ parser' = parser /\ sent' = sent
        /\ TakeEvents(more, TRUE)
    BY DEF EndStream, LlmInv
  <1>2. PICK seen \in Seq(STRING) : Seen(seen)
    BY <1>1 DEF LlmInv
  <1>3. sent = seen
    <2>1. sent = seen \o <<>> /\ seen \o <<>> = seen
      BY <1>1, <1>2 DEF Seen
    <2> QED BY <2>1
  <1>4. parser = LeftOf(w) /\ ~HasDone(w.events) /\ piped = Deltas(w.events)
    BY <1>2, <1>3 DEF Seen
  <1>5. w \in Accs(STRING)
    BY <1>1, WholeIs
  <1> HIDE DEF w, more
  <1>6. w.events \in Seq(Seq(STRING))
    BY <1>5 DEF Accs
  <1>7. more = FinishStream(w) /\ more \in Seq(Seq(STRING))
    <2>1. more = FinishStream(LeftOf(w))
      BY <1>4 DEF more
    <2>2. FinishStream(LeftOf(w)) \in Seq(Seq(STRING))
      BY <1>5, LeftIs, FinishIs
    <2> QED BY <2>1, <2>2, FinishOfLeft
  <1>8. AllEvents(w) = w.events \o more
    BY <1>4, <1>7 DEF AllEvents
  <1>9. /\ Deltas(w.events \o more) = Deltas(w.events) \o Deltas(more)
        /\ HasDone(w.events \o more) <=> HasDone(more)
    <2>1. ~HasDone(w.events) /\ more \in Seq(Seq(STRING))
      BY <1>4, <1>7
    <2> QED BY <2>1, <1>6, DeltasTwo
  <1>10. piped' = Deltas(AllEvents(w))
    BY <1>1, <1>4, <1>8, <1>9 DEF TakeEvents
  <1>11. answer' = StreamResult(answer.text \o Deltas(more), HasDone(more))
    BY <1>1 DEF TakeEvents
  <1> DEFINE text == answer.text \o Deltas(more)
  <1>12. text = piped'
    BY <1>1 DEF TakeEvents
  <1> HIDE DEF text
  <1>13. /\ answer'.text = Trim(piped') /\ answer'.is \in {"ok", "error"}
         /\ answer'.is = "ok" => HasDone(more) /\ Trim(piped') # <<>>
    <2>1. answer' = [is |-> IF HasDone(more) /\ Trim(text) # <<>> THEN "ok" ELSE "error",
                     text |-> Trim(text), calls |-> <<>>]
      BY <1>11 DEF text, StreamResult, NoAnswer
    <2> QED BY <2>1, <1>12
  <1>14. InOnePiece(AllEvents(w))'
    <2>1. IsPrefix(piped', piped')
      <3>1. w.events \o more \in Seq(Seq(STRING))
        BY <1>6, <1>7
      <3>2. piped' \in Seq(STRING)
        BY <1>8, <1>10, <3>1, DeltasAre
      <3> QED BY <3>2 DEF IsPrefix
    <2>2. w' = w
      BY <1>1 DEF w
    <2>3. answer'.is = "ok" => HasDone(AllEvents(w))
      BY <1>8, <1>9, <1>13
    <2> QED BY <1>10, <1>13, <2>1, <2>2, <2>3 DEF InOnePiece
  <1>15. ChunksDoNotMatter'
    BY <1>14 DEF ChunksDoNotMatter, w
  <1>16. RescueIsWhole'
    BY <1>1 DEF RescueIsWhole
  <1>17. wire' \in Seq(STRING)
    BY <1>1 DEF LlmInv
  <1> QED BY <1>1, <1>13, <1>15, <1>16, <1>17 DEF LlmInv

(* An error: nothing is taken for an answer, nor is more passed on.        *)
LEMMA LlmFails ==
  ASSUME LlmInv, FailRequest
  PROVE  LlmInv'
  <1>1. /\ sentRequest' = sentRequest /\ wire' = wire /\ parser' = parser /\ piped' = piped /\ sent' = sent
        /\ answer' = [answer EXCEPT !.is = "error"] /\ answer.is = "none" /\ sentRequest # NoRequest
        /\ answer = [is |-> "none", text |-> piped, calls |-> <<>>]
    BY DEF FailRequest, LlmInv
  <1>2. answer' = [is |-> "error", text |-> piped, calls |-> <<>>] /\ answer'.is = "error"
    BY <1>1
  <1>3. sentRequest.route # "none"
    BY <1>1 DEF LlmInv, Unasked
  <1>4. sentRequest.route = "stream" => ChunksDoNotMatter'
    <2> SUFFICES ASSUME sentRequest.route = "stream" PROVE ChunksDoNotMatter'
      OBVIOUS
    <2>1. PICK seen \in Seq(STRING) : Seen(seen)
      BY <1>1 DEF LlmInv
    <2>2. wire \in Seq(STRING)
      BY DEF LlmInv
    <2> DEFINE events == AllEvents(PushChunk(NoParser, sent))
    <2>3. IsPrefix(piped, Deltas(events))
      BY <2>1, <2>2, SeenIsPrefix
    <2>4. events' = events
      BY <1>1
    <2> HIDE DEF events
    <2>5. InOnePiece(events)'
      BY <1>1, <1>2, <2>3, <2>4 DEF InOnePiece
    <2> QED BY <2>5 DEF ChunksDoNotMatter, events
  <1>5. RescueIsWhole'
    BY <1>2 DEF RescueIsWhole
  <1>6. sent' \in Seq(STRING) /\ wire' \in Seq(STRING)
    BY <1>1 DEF LlmInv
  <1> QED BY <1>1, <1>2, <1>3, <1>4, <1>5, <1>6 DEF LlmInv

(* An answer that is not streamed: its raw calls are rescued whole.        *)
LEMMA LlmIsAnswered ==
  ASSUME LlmInv, NEW text \in AnswerTexts, NEW own \in OwnCalls, NEW valid \in BOOLEAN,
         TakeAnswer(text, own, valid)
  PROVE  LlmInv'
  <1>1. /\ sentRequest.route \in {"chat", "responses"} /\ sentRequest' = sentRequest /\ wire' = wire
        /\ sent' = text /\ answer' = ParsedAnswer(text, own, valid)
    BY DEF TakeAnswer
  <1>2. text \in Seq(STRING) /\ wire \in Seq(STRING)
    BY LlmConstants DEF LlmInv
  <1> DEFINE whole == Trim(text)
             plain == Unwrapped(whole)
             parsed == Rescue(whole)
  <1>3. parsed.is = "ok"
    BY DEF Rescue
  <1>4. /\ parsed.calls = <<>> => parsed.text = whole
        /\ parsed.calls # <<>> =>
             /\ ToSet(parsed.calls) = ToSet(RawCalls(plain))
             /\ \A i \in ToSet(RawCalls(plain)) : IsJson(CallArgs(plain, i))
             /\ {i \in DOMAIN plain : plain[i] = RawOpen} = ToSet(RawCalls(plain)) => RawOpen \notin ToSet(parsed.text)
    <2>1. whole \in Seq(STRING)
      BY <1>2, TrimIs
    <2> HIDE DEF whole
    <2> QED BY <2>1, RescuedAreWhole
  <1>5. CASE ~valid
    <2>1. answer' = [NoAnswer EXCEPT !.is = "error"]
      BY <1>1, <1>5, Zenon DEF ParsedAnswer
    <2>2. answer'.is = "error"
      BY <2>1 DEF NoAnswer
    <2>3. RescueIsWhole'
      BY <2>2 DEF RescueIsWhole
    <2> QED BY <1>1, <1>2, <2>2, <2>3 DEF LlmInv
  <1>6. CASE valid /\ own = <<0>>
    <2>1. own # <<>>
      BY <1>6
    <2>2. answer' = [is |-> "ok", text |-> whole, calls |-> own]
      BY <1>1, <1>6, <2>1, Zenon DEF ParsedAnswer
    <2>3. answer'.is = "ok" /\ answer'.calls = <<0>>
      BY <1>6, <2>2
    <2>4. RescueIsWhole'
      BY <2>3 DEF RescueIsWhole
    <2> QED BY <1>1, <1>2, <2>3, <2>4 DEF LlmInv
  <1>7. CASE valid /\ own = <<>>
    <2>1. answer' = IfAnything(parsed)
      BY <1>1, <1>7, Zenon DEF ParsedAnswer
    <2> HIDE DEF parsed
    <2>2. CASE parsed.text = <<>> /\ parsed.calls = <<>>
      <3>1. answer' = [NoAnswer EXCEPT !.is = "error"]
        BY <2>1, <2>2 DEF IfAnything
      <3>2. answer'.is = "error"
        BY <3>1 DEF NoAnswer
      <3>3. RescueIsWhole'
        BY <3>2 DEF RescueIsWhole
      <3> QED BY <1>1, <1>2, <3>2, <3>3 DEF LlmInv
    <2>3. CASE ~(parsed.text = <<>> /\ parsed.calls = <<>>)
      <3>1. answer' = parsed
        BY <2>1, <2>3 DEF IfAnything
      <3>2. answer'.is = "ok"
        BY <1>3, <3>1
      <3>3. RescuedWhole(whole, plain, ToSet(RawCalls(plain)))'
        BY <1>1, <1>4, <3>1, Zenon DEF RescuedWhole
      <3>4. RescueIsWhole'
        BY <1>1, <3>3, Zenon DEF RescueIsWhole
      <3> QED BY <1>1, <1>2, <3>2, <3>4 DEF LlmInv
    <2> QED BY <2>2, <2>3
  <1> QED BY <1>5, <1>6, <1>7 DEF OwnCalls

LEMMA LlmInvNext == LlmInv /\ [LlmNext]_llmVars => LlmInv'
  <1> SUFFICES ASSUME LlmInv, [LlmNext]_llmVars PROVE LlmInv'
    OBVIOUS
  <1>1. CASE \E history \in Histories, tools \in BOOLEAN : AskProvider(history, tools)
    BY <1>1, LlmAsks
  <1>2. CASE TakeChunk
    BY <1>2, LlmTakesChunk
  <1>3. CASE EndStream
    BY <1>3, LlmEnds
  <1>4. CASE FailRequest
    BY <1>4, LlmFails
  <1>5. CASE \E text \in AnswerTexts, own \in OwnCalls, valid \in BOOLEAN : TakeAnswer(text, own, valid)
    BY <1>5, LlmIsAnswered
  <1>6. CASE UNCHANGED llmVars
    <2>1. /\ sentRequest' = sentRequest /\ wire' = wire /\ parser' = parser
          /\ answer' = answer /\ piped' = piped /\ sent' = sent
      BY <1>6 DEF llmVars
    <2>2. \A seen \in Seq(STRING) : Seen(seen) => Seen(seen)'
      BY <2>1 DEF Seen
    <2>3. Unasked => Unasked'
      BY <2>1 DEF Unasked
    <2>4. (ChunksDoNotMatter => ChunksDoNotMatter') /\ (RescueIsWhole => RescueIsWhole')
      BY <2>1 DEF ChunksDoNotMatter, InOnePiece, RescueIsWhole, RescuedWhole
    <2> QED BY <2>1, <2>2, <2>3, <2>4 DEF LlmInv
  <1> QED BY <1>1, <1>2, <1>3, <1>4, <1>5, <1>6 DEF LlmNext

LEMMA LlmInvSays == LlmInv => AnswersAreWhole
  <1> SUFFICES ASSUME LlmInv PROVE ChunksDoNotMatter
    BY DEF AnswersAreWhole, LlmInv
  <1>1. CASE sentRequest.route # "stream"
    BY <1>1 DEF ChunksDoNotMatter
  <1>2. CASE sentRequest.route = "stream" /\ answer.is # "none"
    BY <1>2 DEF LlmInv
  <1>3. CASE sentRequest.route = "stream" /\ answer.is = "none"
    <2>1. PICK seen \in Seq(STRING) : Seen(seen)
      BY <1>3 DEF LlmInv
    <2>2. IsPrefix(piped, Deltas(AllEvents(PushChunk(NoParser, sent))))
      BY <2>1, SeenIsPrefix DEF LlmInv
    <2> QED BY <1>3, <2>2 DEF ChunksDoNotMatter, InOnePiece
  <1> QED BY <1>1, <1>2, <1>3

(* The answer to a streamed request is that of the stream in one piece,    *)
(* however send_message_stream gets it, and raw calls of an answer are     *)
(* rescued all or none, for any streams and texts of the provider.         *)
THEOREM AnswersAreWholeAlways == LlmSpec => []AnswersAreWhole
  BY LlmInvStart, LlmInvNext, LlmInvSays, PTL DEF LlmSpec

===============================================================================
