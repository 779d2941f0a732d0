---------------------------------- MODULE SurfaceProofs -----------------------
(***************************************************************************)
(* What a user sees of EgoPulse. In the web gateway: what a page and a     *)
(* socket are shown, for any number of runs, pages and sockets, for        *)
(* histories and channels of any size and turns of any length, by one      *)
(* inductive invariant; and the sessions a page lists, by another. In the  *)
(* terminal: that nothing typed is lost, for inputs and histories of any   *)
(* length.                                                                 *)
(***************************************************************************)
EXTENDS WebStreams, WebRequests, TuiChat, FiniteSetTheorems, SequenceTheorems, TLAPS


(* A run begins with an empty log and ends with the one event that says    *)
(* so; a turn at work is listed.                                           *)
LogShape ==
  \A r \in Runs :
    /\ run[r].turn \in {"none", "starting"} => log[r] = <<>>
    /\ run[r].turn = "over" => log[r] # <<>>
    /\ run[r].turn \in {"starting", "running"} => run[r].listed
    /\ run[r].listed => run[r].turn # "none"
    /\ \A i \in 1 .. Len(log[r]) :
         log[r][i] \in Terminal <=> (i = Len(log[r]) /\ run[r].turn = "over")

(* The next id the reader is to be given.                                  *)
Position(k) == reader[k].next - Len(reader[k].replay)

(* A reader's replay ends where its receiver begins, and a receiver made   *)
(* before the run's end has the end before it.                             *)
CursorOf(k) ==
  LET v == reader[k] IN
  /\ v.run \in Runs /\ run[v.run].turn # "none"
  /\ 1 <= v.next /\ v.next <= Len(log[v.run]) + 1
  /\ Len(v.replay) < v.next
  /\ \A i \in 1 .. Len(v.replay) : v.replay[i] = Position(k) + i - 1
  /\ v.done => run[v.run].turn = "over" /\ v.next = Len(log[v.run]) + 1
  /\ ~v.done /\ run[v.run].turn = "over" => v.next <= Len(log[v.run])

CursorInv(k) ==
  /\ reader[k].at = "reading" => CursorOf(k)
  /\ reader[k].at = "subscribing" => reader[k].run \in Runs
  /\ reader[k].run # NoRun => run[reader[k].run].turn # "none"
Cursors == \A k \in Readers : CursorInv(k)

(* A page was sent ids of one run, each later than the one before.         *)
SeenInOrder(p) ==
  LET r == reader[p].run IN
  /\ r = NoRun => seen[p] = <<>>
  /\ \A i \in 1 .. Len(seen[p]) : r # NoRun /\ 1 <= seen[p][i] /\ seen[p][i] <= Len(log[r])
  /\ \A i, j \in 1 .. Len(seen[p]) : i < j => seen[p][i] < seen[p][j]
  /\ Reading(p) => LastSeen(p) < Position(p)

(* As long as history and channel hold the whole run, nothing is missing.  *)
Fits(r) == Len(log[r]) <= HistoryLimit /\ Len(log[r]) <= Capacity
SeenWithoutGaps(p) ==
  reader[p].run # NoRun /\ Fits(reader[p].run) =>
    /\ \A i \in 1 .. Len(seen[p]) : seen[p][i] = i
    /\ Reading(p) => Position(p) = Len(seen[p]) + 1

(* The end of a run is read last: it is in the replay, or still to come,   *)
(* or it was seen.                                                         *)
EndIsSeen(p) ==
  /\ Reading(p) /\ reader[p].done /\ reader[p].replay = <<>> =>
       LastSeen(p) = Len(log[reader[p].run])
  /\ reader[p].at = "ended" =>
       reader[p].run \in Runs /\ IsDone(reader[p].run) /\ LastSeen(p) = Len(log[reader[p].run])

PageOK(p) ==
  SeenInOrder(p) /\ SeenWithoutGaps(p) /\ EndIsSeen(p) /\ reader[p].at # "subscribing"
PageInv == \A p \in Pages : PageOK(p)

(* A socket is busy while its task reads; the last frame tells of which    *)
(* run, and that it is not over yet. Only a closed socket stops reading    *)
(* without being told the end.                                             *)
Busy(s) == reader[s].at \in {"subscribing", "reading"}
LastFrame(s) == frames[s][Len(frames[s])]
SocketLink(s) ==
  /\ socket[s].busy <=> Busy(s)
  /\ ~socket[s].writer => socket[s].at \in {"closing", "closed"}
  /\ socket[s].at \in {"new", "upgrading"} => ~Busy(s) /\ frames[s] = <<>>
  /\ Busy(s) => frames[s] # <<>> /\ LastFrame(s).run = reader[s].run /\ LastFrame(s).kind \notin Terminal
  /\ reader[s].at = "subscribing" => LastFrame(s).kind = "ack"
  /\ ~Busy(s) /\ frames[s] # <<>> /\ socket[s].at = "open" => LastFrame(s).kind \in Terminal \cup {"ack"}
  /\ Reading(s) /\ reader[s].done => reader[s].replay # <<>>
SocketInv == \A s \in Sockets : SocketLink(s)

(* Every socket with a place is counted.                                   *)
Placed == {s \in Sockets : socket[s].at \in {"upgrading", "open", "closing"}}
PlacesAreCounted == Cardinality(Placed) <= active /\ active <= MaxSockets

IInv ==
  /\ TypeOK /\ LogShape /\ Cursors /\ PageInv /\ SocketInv /\ PlacesAreCounted /\ RunsDoNotMix
-----------------------------------------------------------------------------
(* Types.                                                                  *)

USE DEF Readers, Terminal, Kinds, hub, pages, gateway

LEMMA LastSeenType == ASSUME TypeOK, NEW p \in Pages PROVE LastSeen(p) \in Nat
  BY DEF TypeOK, LastSeen

LEMMA TypeInit == WebConstants /\ Init => TypeOK
  BY DEF Init, TypeOK, WebConstants, Off, Fresh

-----------------------------------------------------------------------------
(* The hub: what happens to a run.                                         *)

RunStates == [turn: {"none", "starting", "running", "over"}, listed: BOOLEAN]
HubTypes == run \in [Runs -> RunStates] /\ log \in [Runs -> Seq(Kinds)]

(* A log is only appended to, a started run stays started, a run that is   *)
(* over stays as it is, and a run ends by publishing.                      *)
Grows ==
  \A r \in Runs :
    /\ Len(log[r]) <= Len(log'[r])
    /\ \A i \in 1 .. Len(log[r]) : log'[r][i] = log[r][i]
    /\ run[r].turn # "none" => run'[r].turn # "none"
    /\ run[r].turn = "over" => run'[r].turn = "over" /\ log'[r] = log[r]
    /\ run[r].turn # "over" /\ run'[r].turn = "over" => Len(log[r]) < Len(log'[r])

LEMMA PublishGrows ==
  ASSUME HubTypes, LogShape, NEW r \in Runs, NEW kind \in Kinds, NEW turn \in {"running", "over"},
         run[r].turn \in {"starting", "running"}, kind \in Terminal <=> turn = "over",
         Publish(r, kind), run' = [run EXCEPT ![r].turn = turn]
  PROVE  HubTypes' /\ LogShape' /\ Grows
  <1> DEFINE n == Len(log[r])
  <1>1. n \in Nat /\ log[r] \in Seq(Kinds) /\ log' = [log EXCEPT ![r] = Append(log[r], kind)]
    BY DEF HubTypes, Publish
  <1>2. /\ Append(log[r], kind) \in Seq(Kinds) /\ Len(Append(log[r], kind)) = n + 1
        /\ Append(log[r], kind)[n + 1] = kind
        /\ \A i \in 1 .. n : Append(log[r], kind)[i] = log[r][i]
    BY <1>1
  <1>3. HubTypes'
    BY <1>1, <1>2 DEF HubTypes, RunStates
  <1>4. /\ Len(log'[r]) = n + 1 /\ log'[r][n + 1] = kind /\ log'[r] # <<>>
        /\ \A i \in 1 .. n : log'[r][i] = log[r][i]
        /\ \A q \in Runs \ {r} : log'[q] = log[q] /\ run'[q] = run[q]
        /\ run'[r].turn = turn /\ run'[r].listed = run[r].listed
    BY <1>1, <1>2 DEF HubTypes, RunStates
  <1>5. Grows
    BY <1>1, <1>4 DEF Grows, HubTypes
  <1>6. ASSUME NEW i \in 1 .. n + 1
        PROVE  log'[r][i] \in Terminal <=> (i = n + 1 /\ turn = "over")
    BY <1>1, <1>4 DEF LogShape
  <1> HIDE DEF n
  <1>7. LogShape'
    BY <1>1, <1>4, <1>6 DEF LogShape, HubTypes
  <1> QED
    BY <1>3, <1>5, <1>7

LEMMA TurnGrows ==
  ASSUME WebConstants, HubTypes, LogShape, NEW r \in Runs, TurnEvent(r) \/ EndTurn(r)
  PROVE  HubTypes' /\ LogShape' /\ Grows
  <1>1. CASE run[r].turn = "starting" /\ Publish(r, "status") /\ run' = [run EXCEPT ![r].turn = "running"]
    BY <1>1, PublishGrows
  <1>2. ASSUME NEW kind \in {"status", "delta"}, run[r].turn = "running", Publish(r, kind), UNCHANGED run
        PROVE  HubTypes' /\ LogShape' /\ Grows
    <2>1. run' = [run EXCEPT ![r].turn = "running"]
      BY <1>2 DEF HubTypes, RunStates
    <2> QED
      BY <1>2, <2>1, PublishGrows
  <1>3. ASSUME NEW kind \in Terminal, run[r].turn = "running", Publish(r, kind),
               run' = [run EXCEPT ![r].turn = "over"]
        PROVE  HubTypes' /\ LogShape' /\ Grows
    BY <1>3, PublishGrows
  <1> QED
    BY <1>1, <1>2, <1>3 DEF TurnEvent, EndTurn

LEMMA StartGrows ==
  ASSUME WebConstants, HubTypes, LogShape, NEW r \in Runs,
         NEW message \in {"chat", "command", "refused"}, StartRun(r, message)
  PROVE  HubTypes' /\ LogShape' /\ Grows /\ run'[r].turn # "none" /\ log[r] = <<>>
  <1> DEFINE first == IF message = "chat" THEN <<>>
                      ELSE IF message = "command" THEN <<"done">> ELSE <<"error">>
             turn == IF message = "chat" THEN "starting" ELSE "over"
  <1>1. /\ run[r].turn = "none" /\ log[r] = <<>> /\ first \in Seq(Kinds)
        /\ message # "chat" => Len(first) = 1 /\ first[1] \in Terminal /\ first # <<>>
        /\ message = "chat" => Len(first) = 0 /\ first = <<>>
    <2>1. run[r].turn = "none" /\ log[r] = <<>>
      BY DEF StartRun, LogShape
    <2>2. /\ <<>> \in Seq(Kinds) /\ Len(<<>>) = 0
          /\ \A k \in Kinds : <<k>> \in Seq(Kinds) /\ Len(<<k>>) = 1 /\ <<k>>[1] = k /\ <<k>> # <<>>
      OBVIOUS
    <2>3. message = "chat" => first = <<>>
      OBVIOUS
    <2>4. message # "chat" => \E k \in Terminal : first = <<k>>
      OBVIOUS
    <2> QED
      BY <2>1, <2>2, <2>3, <2>4
  <1>2. run' = [run EXCEPT ![r] = [turn |-> turn, listed |-> TRUE]] /\ log' = [log EXCEPT ![r] = first]
    BY DEF StartRun
  <1>6. turn \in {"starting", "over"} /\ (turn = "over" <=> message # "chat")
    OBVIOUS
  <1> HIDE DEF first, turn
  <1>3. /\ log'[r] = first /\ run'[r].turn = turn /\ run'[r].listed
        /\ \A q \in Runs \ {r} : log'[q] = log[q] /\ run'[q] = run[q]
    BY <1>2 DEF HubTypes
  <1>4. HubTypes'
    BY <1>1, <1>2, <1>6 DEF HubTypes, RunStates
  <1>5. Grows
    BY <1>1, <1>3, <1>6 DEF Grows, HubTypes
  <1>7. \A i \in 1 .. Len(first) : first[i] \in Terminal <=> (i = Len(first) /\ turn = "over")
    <2>1. CASE message = "chat"
      BY <1>1, <2>1
    <2>2. CASE message # "chat"
      <3>1. Len(first) = 1 /\ first[1] \in Terminal /\ turn = "over"
        BY <1>1, <1>6, <2>2
      <3>2. SUFFICES ASSUME NEW i \in 1 .. 1
                     PROVE  first[i] \in Terminal <=> (i = 1 /\ turn = "over")
        BY <3>1
      <3>3. i = 1
        OBVIOUS
      <3> QED
        BY <3>1, <3>3
    <2> QED
      BY <2>1, <2>2
  <1>8. LogShape'
    <2>1. log'[r] # <<>> <=> turn = "over"
      BY <1>1, <1>3, <1>6
    <2> SUFFICES ASSUME NEW q \in Runs
                 PROVE  /\ run'[q].turn \in {"none", "starting"} => log'[q] = <<>>
                        /\ run'[q].turn = "over" => log'[q] # <<>>
                        /\ run'[q].turn \in {"starting", "running"} => run'[q].listed
                        /\ run'[q].listed => run'[q].turn # "none"
                        /\ \A i \in 1 .. Len(log'[q]) :
                             log'[q][i] \in Terminal <=> (i = Len(log'[q]) /\ run'[q].turn = "over")
      BY DEF LogShape
    <2>2. CASE q = r
      BY <1>3, <1>6, <1>7, <2>1, <2>2
    <2>3. CASE q # r
      BY <1>3, <2>3 DEF LogShape
    <2> QED
      BY <2>2, <2>3
  <1> QED
    BY <1>1, <1>3, <1>4, <1>5, <1>6, <1>8

LEMMA QuietGrows ==
  ASSUME HubTypes, LogShape, UNCHANGED log,
         \/ UNCHANGED run
         \/ \E r \in Runs : run[r].turn = "over" /\ run' = [run EXCEPT ![r].listed = FALSE]
  PROVE  HubTypes' /\ LogShape' /\ Grows
  <1>1. HubTypes' /\ \A q \in Runs : /\ run'[q].turn = run[q].turn
                                     /\ run'[q].listed \in BOOLEAN
                                     /\ run'[q].turn # "over" => run'[q].listed = run[q].listed
                                     /\ run'[q].listed => run[q].listed
    BY DEF HubTypes, RunStates
  <1>2. LogShape'
    BY <1>1 DEF LogShape
  <1>3. Grows
    BY <1>1 DEF Grows, HubTypes
  <1> QED
    BY <1>1, <1>2, <1>3

-----------------------------------------------------------------------------
(* Readers.                                                                *)

ReaderStates == [at: {"off", "subscribing", "reading", "ended"}, run: Runs \cup {NoRun},
                 replay: Seq(Nat), next: Nat, done: BOOLEAN]
ReaderTypes == reader \in [Readers -> ReaderStates] /\ seen \in [Pages -> Seq(Nat)]

(* A reader that does nothing keeps its place while its run goes on.       *)
LEMMA StillReader ==
  ASSUME WebConstants, HubTypes, HubTypes', ReaderTypes, LogShape, Grows, NEW k \in Readers,
         CursorInv(k), reader'[k] = reader[k]
  PROVE  CursorInv(k)'
  <1> DEFINE v == reader[k]
  <1>1. ASSUME v.at = "reading"
        PROVE  CursorOf(k)'
    <2>1. CursorOf(k) /\ v.run \in Runs
      BY <1>1 DEF CursorInv, CursorOf
    <2>2. Len(log[v.run]) \in Nat /\ Len(log'[v.run]) \in Nat /\ v.next \in Nat /\ Len(v.replay) \in Nat
      <3>1. reader[k] \in ReaderStates
        BY DEF ReaderTypes
      <3>2. log[v.run] \in Seq(Kinds) /\ log'[v.run] \in Seq(Kinds)
        BY <2>1 DEF HubTypes
      <3> QED
        BY <3>1, <3>2 DEF ReaderStates
    <2>3. /\ run'[v.run].turn # "none" /\ 1 <= v.next /\ v.next <= Len(log'[v.run]) + 1
          /\ v.done => run'[v.run].turn = "over" /\ v.next = Len(log'[v.run]) + 1
          /\ ~v.done /\ run'[v.run].turn = "over" => v.next <= Len(log'[v.run])
      <3>1. /\ run[v.run].turn # "none" /\ 1 <= v.next /\ v.next <= Len(log[v.run]) + 1
            /\ v.done => run[v.run].turn = "over" /\ v.next = Len(log[v.run]) + 1
            /\ ~v.done /\ run[v.run].turn = "over" => v.next <= Len(log[v.run])
        BY <2>1 DEF CursorOf
      <3>2. /\ Len(log[v.run]) <= Len(log'[v.run])
            /\ run[v.run].turn # "none" => run'[v.run].turn # "none"
            /\ run[v.run].turn = "over" => run'[v.run].turn = "over" /\ log'[v.run] = log[v.run]
            /\ run[v.run].turn # "over" /\ run'[v.run].turn = "over" => Len(log[v.run]) < Len(log'[v.run])
        BY <2>1 DEF Grows
      <3>3. CASE run[v.run].turn = "over"
        BY <3>1, <3>2, <3>3
      <3>4. CASE run[v.run].turn # "over"
        <4> DEFINE n == Len(log[v.run])
                   m == Len(log'[v.run])
                   at == v.next
        <4>0. n \in Nat /\ m \in Nat /\ at \in Nat /\ 1 <= at /\ at <= n + 1 /\ n <= m
          BY <2>2, <3>1, <3>2
        <4>3. run'[v.run].turn = "over" => n < m
          BY <3>2, <3>4
        <4> HIDE DEF n, m, at
        <4>1. 1 <= at /\ at <= m + 1
          BY <4>0
        <4>2. run'[v.run].turn = "over" => at <= m
          BY <4>0, <4>3
        <4> USE DEF n, m, at
        <4> QED
          BY <3>1, <3>2, <3>4, <4>1, <4>2
      <3> QED
        BY <3>3, <3>4
    <2> QED
      BY <2>1, <2>3 DEF CursorOf, Position
  <1>2. v.run # NoRun => v.run \in Runs /\ run[v.run].turn # "none" /\ run'[v.run].turn # "none"
    BY DEF ReaderTypes, ReaderStates, CursorInv, Grows
  <1> QED
    BY <1>1, <1>2 DEF CursorInv

LEMMA StillPage ==
  ASSUME WebConstants, HubTypes, HubTypes', ReaderTypes, LogShape, Grows, NEW p \in Pages,
         CursorInv(p), PageOK(p), reader'[p] = reader[p], seen'[p] = seen[p]
  PROVE  PageOK(p)'
  <1> DEFINE r == reader[p].run
  <1>1. r \in Runs \cup {NoRun} /\ NoRun \notin Runs /\ seen[p] \in Seq(Nat)
    BY DEF WebConstants, ReaderTypes, ReaderStates
  <1>2. r \in Runs => /\ Len(log[r]) \in Nat /\ Len(log'[r]) \in Nat /\ Len(log[r]) <= Len(log'[r])
                      /\ run[r].turn = "over" => log'[r] = log[r]
    BY DEF HubTypes, Grows
  <1>3. /\ Reading(p)' <=> Reading(p)
        /\ LastSeen(p)' = LastSeen(p)
        /\ Position(p)' = Position(p)
    BY DEF Reading, LastSeen, Position
  <1>4. SeenInOrder(p)'
    <2>1. SeenInOrder(p)
      BY DEF PageOK
    <2>2. \A i \in 1 .. Len(seen[p]) : r # NoRun /\ 1 <= seen[p][i] /\ seen[p][i] <= Len(log'[r])
      <3> SUFFICES ASSUME NEW i \in 1 .. Len(seen[p])
                   PROVE  r # NoRun /\ 1 <= seen[p][i] /\ seen[p][i] <= Len(log'[r])
        OBVIOUS
      <3>1. r # NoRun /\ 1 <= seen[p][i] /\ seen[p][i] <= Len(log[r]) /\ seen[p][i] \in Nat
        BY <1>1, <2>1 DEF SeenInOrder
      <3>2. r \in Runs
        BY <1>1, <3>1
      <3> DEFINE id == seen[p][i]
                 n == Len(log[r])
                 m == Len(log'[r])
      <3>3. id \in Nat /\ n \in Nat /\ m \in Nat /\ id <= n /\ n <= m
        BY <1>2, <3>1, <3>2
      <3>4. id <= m
        <4> HIDE DEF id, n, m
        <4> QED
          BY <3>3
      <3> QED
        BY <3>1, <3>4
    <2> QED
      BY <1>3, <2>1, <2>2 DEF SeenInOrder
  <1>5. SeenWithoutGaps(p)'
    <2>1. r # NoRun /\ Len(log'[r]) <= HistoryLimit /\ Len(log'[r]) <= Capacity => Fits(r)
      BY <1>1, <1>2 DEF Fits, WebConstants
    <2> QED
      BY <1>3, <2>1 DEF PageOK, SeenWithoutGaps, Fits
  <1>6. EndIsSeen(p)'
    <2>1. ASSUME Reading(p), reader[p].done, reader[p].replay = <<>>
          PROVE  LastSeen(p) = Len(log'[r])
      BY <1>1, <1>2, <2>1 DEF PageOK, EndIsSeen, CursorInv, CursorOf, Reading
    <2>2. ASSUME reader[p].at = "ended"
          PROVE  r \in Runs /\ IsDone(r)' /\ LastSeen(p) = Len(log'[r])
      <3>1. r \in Runs /\ IsDone(r) /\ LastSeen(p) = Len(log[r])
        BY <2>2 DEF PageOK, EndIsSeen
      <3>2. Len(log[r]) \in 1 .. Len(log[r])
        BY <3>1 DEF HubTypes, IsDone
      <3>3. run[r].turn = "over"
        BY <3>1, <3>2 DEF LogShape, IsDone
      <3> QED
        BY <1>2, <3>1, <3>3 DEF IsDone
    <2> QED
      BY <1>3, <2>1, <2>2 DEF EndIsSeen
  <1> QED
    BY <1>4, <1>5, <1>6 DEF PageOK

(* What a subscription finds: consecutive ids up to the last one, all      *)
(* later than the one given, and all of them if the history holds them.    *)
LEMMA ReplayFacts ==
  ASSUME WebConstants, HubTypes, NEW r \in Runs, NEW last \in Nat, last <= Len(log[r])
  PROVE  LET found == ReplayAfter(r, last)
             n == Len(log[r])
         IN  /\ n \in Nat /\ found \in Seq(Nat)
             /\ Len(found) \in Nat /\ Len(found) + last <= n
             /\ last < n => 1 <= Len(found)
             /\ n <= HistoryLimit => Len(found) + last = n
             /\ \A i \in 1 .. Len(found) : found[i] = n - Len(found) + i
  <1> DEFINE n == Len(log[r])
             h == HistoryLimit
             kept == Oldest(r, h)
             first == IF last < kept THEN kept ELSE last + 1
             m == n + 1 - first
             found == ReplayAfter(r, last)
  <1>1. n \in Nat /\ h \in Nat /\ 1 <= h /\ last <= n
    BY DEF HubTypes, WebConstants
  <1>2. kept = IF n > h THEN n - h + 1 ELSE 1
    BY DEF Oldest
  <1>3. found = [i \in 1 .. m |-> first + i - 1]
    BY DEF ReplayAfter
  <1> HIDE DEF n, h, kept, found
  <1>4. /\ kept \in Nat /\ 1 <= kept /\ kept <= n + 1
        /\ n > 0 => kept <= n
        /\ n <= h => kept = 1
    BY <1>1, <1>2
  <1>5. /\ first \in Nat /\ 1 <= first /\ last < first /\ first <= n + 1
        /\ last < n => first <= n
        /\ n <= h => first = last + 1
    BY <1>1, <1>4
  <1> HIDE DEF first
  <1>6. m \in Nat /\ m + last <= n /\ (last < n => 1 <= m) /\ (n <= h => m + last = n) /\ first = n - m + 1
    BY <1>1, <1>5
  <1> HIDE DEF m
  <1>7. found \in Seq(Nat) /\ Len(found) = m /\ \A i \in 1 .. m : found[i] = first + i - 1
    BY <1>3, <1>5, <1>6
  <1>8. \A i \in 1 .. m : found[i] = n - m + i
    BY <1>1, <1>6, <1>7
  <1>9. /\ n \in Nat /\ found \in Seq(Nat)
        /\ Len(found) \in Nat /\ Len(found) + last <= n
        /\ last < n => 1 <= Len(found)
        /\ n <= h => Len(found) + last = n
        /\ \A i \in 1 .. Len(found) : found[i] = n - Len(found) + i
    BY <1>1, <1>6, <1>7, <1>8
  <1> QED
    BY <1>9 DEF n, h, found

LEMMA DoneFacts ==
  ASSUME HubTypes, LogShape, NEW r \in Runs
  PROVE  IsDone(r) <=> run[r].turn = "over"
  <1>1. Len(log[r]) \in Nat /\ (log[r] # <<>> => Len(log[r]) \in 1 .. Len(log[r]))
    BY DEF HubTypes
  <1> QED
    BY <1>1 DEF IsDone, LogShape

LEMMA Subscribed ==
  ASSUME WebConstants, HubTypes, ReaderTypes, LogShape, UNCHANGED hub,
         NEW r \in Runs, run[r].turn # "none", NEW last \in Nat, last <= Len(log[r]),
         NEW k \in Readers, reader' = [reader EXCEPT ![k] = Subscription(r, last)]
  PROVE  /\ reader' \in [Readers -> ReaderStates] /\ CursorInv(k)'
         /\ reader'[k].at = "reading" /\ reader'[k].run = r
         /\ Position(k)' \in Nat /\ last < Position(k)'
         /\ Len(log[r]) <= HistoryLimit => Position(k)' = last + 1
         /\ reader'[k].done /\ reader'[k].replay = <<>> => last = Len(log[r])
         /\ reader'[k].done /\ last = 0 => reader'[k].replay # <<>>
  <1> DEFINE found == ReplayAfter(r, last)
             n == Len(log[r])
             m == Len(found)
  <1>1. /\ n \in Nat /\ found \in Seq(Nat) /\ m \in Nat /\ m + last <= n
        /\ last < n => 1 <= m
        /\ n <= HistoryLimit => m + last = n
        /\ \A i \in 1 .. m : found[i] = n - m + i
    BY ReplayFacts
  <1>2. found = <<>> <=> m = 0
    BY <1>1
  <1>3. reader'[k] = [at |-> "reading", run |-> r, replay |-> found, done |-> IsDone(r), next |-> n + 1]
    BY DEF Subscription, ReaderTypes
  <1>4. IsDone(r) <=> run[r].turn = "over"
    BY DoneFacts
  <1>5. IsDone(r) => 1 <= n
    BY <1>1 DEF IsDone
  <1>6. IsDone(r) \in BOOLEAN
    BY DEF IsDone
  <1> HIDE DEF found
  <1>7. reader'[k] \in ReaderStates /\ reader' \in [Readers -> ReaderStates]
    <2>1. n + 1 \in Nat
      BY <1>1
    <2>2. reader'[k] \in ReaderStates
      BY <1>1, <1>3, <1>6, <2>1 DEF ReaderStates
    <2> QED
      BY <2>2 DEF ReaderTypes
  <1>8. /\ reader'[k].at = "reading" /\ reader'[k].run = r /\ reader'[k].replay = found
        /\ reader'[k].next = n + 1 /\ reader'[k].done = IsDone(r)
        /\ Position(k)' = n + 1 - m
    BY <1>3 DEF Position
  <1>9. \A i \in 1 .. m : found[i] = (n + 1 - m) + i - 1
    <2> HIDE DEF n, m
    <2> QED
      BY <1>1
  <1>10. 1 <= n + 1 /\ m < n + 1
    <2> HIDE DEF n, m
    <2> QED
      BY <1>1
  <1>11. CursorInv(k)'
    <2>1. log' = log /\ run' = run
      OBVIOUS
    <2>2. CursorOf(k)'
      <3>1. n + 1 <= n + 1
        BY <1>1
      <3> QED
        BY <1>4, <1>8, <1>9, <1>10, <2>1, <3>1 DEF CursorOf
    <2> QED
      BY <1>8, <2>1, <2>2 DEF CursorInv
  <1>12. /\ n + 1 - m \in Nat /\ last < n + 1 - m
         /\ n <= HistoryLimit => n + 1 - m = last + 1
         /\ m = 0 => last = n
         /\ 1 <= n /\ last = 0 => m # 0
    <2> HIDE DEF n, m
    <2> QED
      BY <1>1
  <1> QED
    BY <1>2, <1>5, <1>7, <1>8, <1>11, <1>12

LEMMA IncomingFacts ==
  ASSUME WebConstants, HubTypes, ReaderTypes, LogShape, NEW k \in Readers, CursorInv(k),
         NEW id \in Incoming(k)
  PROVE  /\ Reading(k) /\ CursorOf(k) /\ reader[k].run \in Runs
         /\ id = Position(k) /\ id \in Nat /\ 1 <= id /\ id <= Len(log[reader[k].run])
         /\ reader[k].replay = <<>> => ~reader[k].done /\ id = reader[k].next
  <1> DEFINE v == reader[k]
             n == Len(log[v.run])
             m == Len(v.replay)
             at == v.next
  <1>1. Reading(k) /\ CursorOf(k) /\ v.run \in Runs
    BY DEF Incoming, CursorInv, CursorOf, Reading
  <1>2. v \in ReaderStates /\ m \in Nat /\ at \in Nat /\ n \in Nat /\ (v.replay # <<>> => 1 <= m)
    BY <1>1 DEF HubTypes, ReaderTypes, ReaderStates
  <1>3. 1 <= at /\ at <= n + 1 /\ m < at
    BY <1>1 DEF CursorOf
  <1>4. CASE v.replay # <<>>
    <2>1. id = v.replay[1]
      BY <1>1, <1>2, <1>4 DEF Incoming, ReaderStates
    <2>2. id = Position(k) + 1 - 1 /\ Position(k) = at - m
      BY <1>1, <1>2, <1>4, <2>1 DEF CursorOf, Position
    <2> HIDE DEF n, m, at
    <2>3. id = Position(k) /\ id \in Nat /\ 1 <= id /\ id <= n
      BY <1>2, <1>3, <1>4, <2>2
    <2> QED
      BY <1>1, <1>4, <2>3 DEF n
  <1>5. CASE v.replay = <<>>
    <2>1. ~v.done /\ id \in {at} \cap (Oldest(v.run, Capacity) .. n)
      BY <1>1, <1>5 DEF Incoming
    <2>2. Position(k) = at - 0
      BY <1>2, <1>5 DEF Position
    <2>3. Oldest(v.run, Capacity) \in Int
      <3>1. Oldest(v.run, Capacity) = (IF n > Capacity THEN n - Capacity + 1 ELSE 1) /\ Capacity \in Nat
        BY DEF Oldest, WebConstants
      <3> HIDE DEF n
      <3> QED
        BY <1>2, <3>1
    <2> HIDE DEF n, at
    <2>4. id = at /\ id = Position(k) /\ id <= n
      BY <1>2, <2>1, <2>2, <2>3
    <2> QED
      BY <1>1, <1>2, <1>3, <1>5, <2>1, <2>4 DEF n, at
  <1> QED
    BY <1>4, <1>5

LEMMA TailFacts ==
  ASSUME NEW s \in Seq(Nat), s # <<>>
  PROVE  /\ Tail(s) \in Seq(Nat) /\ Len(Tail(s)) = Len(s) - 1
         /\ Tail(s) = <<>> <=> Len(s) = 1
         /\ \A i \in 1 .. Len(s) - 1 : Tail(s)[i] = s[i + 1]
  <1>1. /\ Tail(s) \in Seq(Nat) /\ Len(Tail(s)) = Len(s) - 1
        /\ \A i \in 1 .. Len(Tail(s)) : Tail(s)[i] = s[i + 1]
    BY HeadTailProperties
  <1>2. Tail(s) = <<>> <=> Len(Tail(s)) = 0
    BY <1>1, EmptySeq
  <1> QED
    BY <1>1, <1>2

(* A reader that was given an event and goes on.                           *)
LEMMA Taken ==
  ASSUME WebConstants, HubTypes, ReaderTypes, LogShape, UNCHANGED hub, NEW k \in Readers, CursorInv(k),
         NEW id \in Incoming(k), KindOf(k, id) \notin Terminal, Take(k, FALSE)
  PROVE  /\ reader' \in [Readers -> ReaderStates] /\ CursorInv(k)'
         /\ reader'[k].at = "reading" /\ reader'[k].run = reader[k].run
         /\ Position(k)' \in Nat /\ Position(k)' = id + 1
         /\ ~(reader'[k].done /\ reader'[k].replay = <<>>)
  <1> DEFINE v == reader[k]
             r == v.run
             n == Len(log[r])
             m == Len(v.replay)
             at == v.next
  <1>1. /\ Reading(k) /\ CursorOf(k) /\ r \in Runs /\ id = Position(k) /\ id \in Nat /\ 1 <= id /\ id <= n
        /\ v.replay = <<>> => ~v.done /\ id = at
    BY IncomingFacts
  <1>2. /\ v \in ReaderStates /\ m \in Nat /\ at \in Nat /\ n \in Nat /\ v.done \in BOOLEAN
        /\ v.replay \in Seq(Nat) /\ (v.replay # <<>> => 1 <= m) /\ id = at - m
    BY <1>1 DEF HubTypes, ReaderTypes, ReaderStates, Position
  <1>3. 1 <= at /\ at <= n + 1 /\ m < at /\ run[r].turn # "none" /\ v.at = "reading"
    BY <1>1 DEF CursorOf, Reading
  <1>4. run[r].turn = "over" => id # n
    <2>1. run[r].turn = "over" => n \in 1 .. n /\ log[r][n] \in Terminal
      <3>1. log[r] # <<>> => n \in 1 .. n
        BY <1>1 DEF HubTypes
      <3> QED
        BY <1>1, <3>1 DEF LogShape
    <2> QED
      BY <2>1 DEF KindOf
  <1>5. log' = log /\ run' = run
    OBVIOUS
  <1>6. CASE v.replay # <<>>
    <2> DEFINE rest == Tail(v.replay)
    <2>1. reader' = [reader EXCEPT ![k] = [v EXCEPT !.replay = rest]]
      BY <1>6 DEF Take
    <2>2. rest \in Seq(Nat) /\ Len(rest) = m - 1 /\ (rest = <<>> <=> m = 1)
          /\ \A i \in 1 .. m - 1 : rest[i] = v.replay[i + 1]
      BY <1>2, <1>6, TailFacts
    <2>3. \A i \in 1 .. m : v.replay[i] = id + i - 1
      BY <1>1 DEF CursorOf
    <2>4. \A i \in 1 .. m - 1 : rest[i] = (id + 1) + i - 1
      <3> HIDE DEF rest, m
      <3>1. \A i \in 1 .. m - 1 : i + 1 \in 1 .. m /\ id + (i + 1) - 1 = (id + 1) + i - 1
        BY <1>1, <1>2
      <3> QED
        BY <2>2, <2>3, <3>1
    <2> HIDE DEF rest
    <2>5. /\ reader'[k].at = "reading" /\ reader'[k].run = r /\ reader'[k].replay = rest
          /\ reader'[k].next = at /\ reader'[k].done = v.done
          /\ reader' \in [Readers -> ReaderStates]
      <3>1. reader'[k] = [v EXCEPT !.replay = rest] /\ reader'[k] \in ReaderStates
        BY <1>2, <2>1, <2>2 DEF ReaderTypes, ReaderStates
      <3>2. reader' \in [Readers -> ReaderStates]
        BY <2>1, <3>1 DEF ReaderTypes
      <3> QED
        BY <1>2, <1>3, <3>1, <3>2 DEF ReaderStates
    <2>6. at - (m - 1) = id + 1 /\ m - 1 < at /\ id + 1 \in Nat
      <3> HIDE DEF m, at
      <3> QED
        BY <1>1, <1>2, <1>3
    <2>7. Position(k)' = id + 1
      BY <2>2, <2>5, <2>6 DEF Position
    <2>8. CursorOf(k)'
      BY <1>1, <1>3, <1>5, <2>2, <2>4, <2>5, <2>6, <2>7 DEF CursorOf
    <2>9. ~(v.done /\ rest = <<>>)
      <3>1. v.done => run[r].turn = "over" /\ at = n + 1
        BY <1>1 DEF CursorOf
      <3>2. SUFFICES ASSUME v.done, m = 1
                     PROVE  FALSE
        BY <2>2
      <3>3. id = n
        <4>1. at = n + 1 /\ m = 1
          BY <3>1, <3>2
        <4> HIDE DEF n, m, at
        <4> QED
          BY <1>2, <4>1
      <3> QED
        BY <1>4, <3>1, <3>2, <3>3
    <2> QED
      BY <1>3, <1>5, <2>5, <2>6, <2>7, <2>8, <2>9 DEF CursorInv
  <1>7. CASE v.replay = <<>>
    <2>1. reader' = [reader EXCEPT ![k] = [v EXCEPT !.next = at + 1]]
      BY <1>7 DEF Take
    <2>0. id = at /\ ~v.done
      BY <1>1, <1>7
    <2>2. /\ at + 1 \in Nat /\ 1 <= at + 1 /\ at + 1 <= n + 1 /\ id + 1 = at + 1
          /\ id # n => at + 1 <= n
      <3>1. n \in Nat /\ at \in Nat /\ 1 <= at /\ at <= n + 1 /\ id = at /\ id <= n
        BY <1>1, <1>2, <1>3, <2>0
      <3> HIDE DEF n, at
      <3>2. at + 1 \in Nat /\ 1 <= at + 1 /\ at + 1 <= n + 1
        BY <3>1
      <3>3. id # n => at + 1 <= n
        BY <3>1
      <3> QED
        BY <3>1, <3>2, <3>3
    <2>3. /\ reader'[k].at = "reading" /\ reader'[k].run = r /\ reader'[k].replay = <<>>
          /\ reader'[k].next = at + 1 /\ reader'[k].done = v.done
          /\ reader' \in [Readers -> ReaderStates]
      BY <1>2, <1>3, <1>7, <2>0, <2>1, <2>2 DEF ReaderTypes, ReaderStates
    <2>4. Position(k)' = id + 1
      BY <2>2, <2>3 DEF Position
    <2>5. Len(<<>>) = 0 /\ \A i \in 1 .. Len(<<>>) : FALSE
      OBVIOUS
    <2>6. CursorOf(k)'
      <3>1. run[r].turn = "over" => at + 1 <= n
        BY <1>4, <2>2
      <3>2. run'[r].turn = "over" => at + 1 <= Len(log'[r])
        BY <1>5, <3>1
      <3>3. 1 <= at + 1 /\ at + 1 <= Len(log'[r]) + 1 /\ Len(<<>>) < at + 1
        BY <1>5, <2>2, <2>5
      <3>4. \A i \in 1 .. Len(reader'[k].replay) : reader'[k].replay[i] = Position(k)' + i - 1
        BY <2>3, <2>5
      <3> QED
        BY <1>1, <1>3, <1>5, <2>0, <2>2, <2>3, <3>2, <3>3, <3>4 DEF CursorOf
    <2> QED
      BY <1>3, <1>5, <2>0, <2>2, <2>3, <2>4, <2>6 DEF CursorInv
  <1> QED
    BY <1>6, <1>7

(* A reader that lagged goes on later, and its run did not fit.            *)
LEMMA Lagged ==
  ASSUME WebConstants, HubTypes, ReaderTypes, LogShape, NEW k \in Readers, CursorInv(k), Lag(k)
  PROVE  /\ reader' \in [Readers -> ReaderStates] /\ CursorInv(k)'
         /\ reader'[k].at = "reading" /\ reader'[k].run = reader[k].run /\ reader[k].run \in Runs
         /\ reader'[k].replay = <<>> /\ ~reader'[k].done
         /\ Position(k) \in Nat /\ Position(k)' \in Nat /\ Position(k) <= Position(k)'
         /\ ~Fits(reader[k].run)
  <1> DEFINE v == reader[k]
             r == v.run
             n == Len(log[r])
             at == v.next
             oldest == Oldest(r, Capacity)
  <1>1. /\ v.at = "reading" /\ CursorOf(k) /\ r \in Runs /\ v.replay = <<>> /\ ~v.done /\ at < oldest
        /\ reader' = [reader EXCEPT ![k] = [v EXCEPT !.next = oldest]] /\ log' = log /\ run' = run
    BY DEF Lag, Reading, CursorInv, CursorOf
  <1>2. v \in ReaderStates /\ at \in Nat /\ n \in Nat /\ v.done \in BOOLEAN /\ Capacity \in Nat \ {0}
    BY <1>1 DEF HubTypes, ReaderTypes, ReaderStates, WebConstants
  <1>3. 1 <= at /\ run[r].turn # "none"
    BY <1>1 DEF CursorOf
  <1>4. oldest = IF n > Capacity THEN n - Capacity + 1 ELSE 1
    BY DEF Oldest
  <1>5. oldest \in Nat /\ 1 <= oldest /\ oldest <= n /\ at <= oldest /\ ~(n <= Capacity)
    <2>1. at < oldest
      BY <1>1
    <2> HIDE DEF n, at, oldest
    <2> QED
      BY <1>2, <1>3, <1>4, <2>1
  <1>6. /\ reader' \in [Readers -> ReaderStates]
        /\ reader'[k].at = "reading" /\ reader'[k].run = r /\ reader'[k].replay = <<>>
        /\ reader'[k].next = oldest /\ reader'[k].done = v.done
    <2> HIDE DEF oldest
    <2>1. [v EXCEPT !.next = oldest] \in ReaderStates
      BY <1>2, <1>5 DEF ReaderStates
    <2> QED
      BY <1>1, <1>2, <2>1 DEF ReaderTypes, ReaderStates
  <1>7. Len(<<>>) = 0
    OBVIOUS
  <1>8. Position(k) = at /\ Position(k)' = oldest
    <2>1. at - 0 = at /\ oldest - 0 = oldest
      BY <1>2, <1>5
    <2> QED
      BY <1>1, <1>6, <1>7, <2>1 DEF Position
  <1>9. CursorOf(k)'
    <2>1. oldest <= n + 1 /\ 0 < oldest
      <3> HIDE DEF n, oldest
      <3> QED
        BY <1>2, <1>5
    <2>2. \A i \in 1 .. Len(reader'[k].replay) : reader'[k].replay[i] = Position(k)' + i - 1
      BY <1>6, <1>7
    <2> QED
      BY <1>1, <1>3, <1>5, <1>6, <1>7, <2>1, <2>2 DEF CursorOf
  <1> QED
    BY <1>1, <1>2, <1>3, <1>5, <1>6, <1>8, <1>9 DEF CursorInv, Fits

-----------------------------------------------------------------------------
(* Pages.                                                                  *)

LEMMA SeenFacts ==
  ASSUME WebConstants, HubTypes, ReaderTypes, NEW p \in Pages, SeenInOrder(p)
  PROVE  /\ LastSeen(p) \in Nat /\ seen[p] \in Seq(Nat) /\ Len(seen[p]) \in Nat
         /\ \A i \in 1 .. Len(seen[p]) : seen[p][i] \in Nat /\ seen[p][i] <= LastSeen(p)
         /\ reader[p].run = NoRun => LastSeen(p) = 0
         /\ reader[p].run \in Runs => LastSeen(p) <= Len(log[reader[p].run])
         /\ seen[p] # <<>> => LastSeen(p) = seen[p][Len(seen[p])] /\ Len(seen[p]) \in 1 .. Len(seen[p])
         /\ seen[p] = <<>> => LastSeen(p) = 0 /\ Len(seen[p]) = 0
  <1> DEFINE n == Len(seen[p])
  <1>1. seen[p] \in Seq(Nat) /\ n \in Nat /\ (seen[p] # <<>> => n \in 1 .. n) /\ (seen[p] = <<>> => n = 0)
        /\ \A i \in 1 .. n : seen[p][i] \in Nat
    BY DEF ReaderTypes
  <1>2. LastSeen(p) \in Nat /\ (seen[p] # <<>> => LastSeen(p) = seen[p][n]) /\ (seen[p] = <<>> => LastSeen(p) = 0)
    BY <1>1 DEF LastSeen
  <1>3. ASSUME NEW i \in 1 .. n
        PROVE  seen[p][i] <= LastSeen(p)
    <2>1. seen[p] # <<>> /\ n \in 1 .. n
      BY <1>1, <1>3
    <2>2. i < n => seen[p][i] < seen[p][n]
      BY <2>1 DEF SeenInOrder
    <2>3. CASE i = n
      BY <1>1, <1>2, <2>1, <2>3
    <2>4. CASE i < n
      BY <1>1, <1>2, <2>1, <2>2, <2>4
    <2>5. i < n \/ i = n
      <3> HIDE DEF n
      <3> QED
        BY <1>1
    <2> QED
      BY <2>3, <2>4, <2>5
  <1>4. reader[p].run = NoRun => LastSeen(p) = 0
    BY <1>2 DEF SeenInOrder
  <1>5. ASSUME reader[p].run \in Runs
        PROVE  LastSeen(p) <= Len(log[reader[p].run])
    <2>1. CASE seen[p] = <<>>
      BY <1>2, <1>5, <2>1 DEF HubTypes
    <2>2. CASE seen[p] # <<>>
      BY <1>1, <1>2, <2>2 DEF SeenInOrder
    <2> QED
      BY <2>1, <2>2
  <1> QED
    BY <1>1, <1>2, <1>3, <1>4, <1>5

LEMMA MoreFacts ==
  ASSUME NEW S, NEW s \in Seq(S), NEW e \in S
  PROVE  /\ Append(s, e) \in Seq(S) /\ Len(Append(s, e)) = Len(s) + 1 /\ Append(s, e)[Len(s) + 1] = e
         /\ Append(s, e) # <<>>
         /\ \A i \in 1 .. Len(s) : Append(s, e)[i] = s[i]
  OBVIOUS

(* A page that is sent one more id.                                        *)
LEMMA SeenMore ==
  ASSUME WebConstants, HubTypes, ReaderTypes, NEW p \in Pages, SeenInOrder(p), NEW id \in Nat,
         LastSeen(p) < id, seen' = [seen EXCEPT ![p] = Append(seen[p], id)]
  PROVE  /\ seen' \in [Pages -> Seq(Nat)] /\ Len(seen'[p]) = Len(seen[p]) + 1 /\ LastSeen(p)' = id
         /\ \A i \in 1 .. Len(seen'[p]) :
              \/ i \in 1 .. Len(seen[p]) /\ seen'[p][i] = seen[p][i]
              \/ i = Len(seen[p]) + 1 /\ seen'[p][i] = id
         /\ \A i, j \in 1 .. Len(seen'[p]) : i < j => seen'[p][i] < seen'[p][j]
         /\ \A q \in Pages \ {p} : seen'[q] = seen[q]
  <1> DEFINE n == Len(seen[p])
             more == Append(seen[p], id)
  <1>1. /\ seen[p] \in Seq(Nat) /\ n \in Nat /\ LastSeen(p) \in Nat
        /\ \A i \in 1 .. n : seen[p][i] \in Nat /\ seen[p][i] <= LastSeen(p)
    BY SeenFacts
  <1>2. seen'[p] = more /\ (\A q \in Pages \ {p} : seen'[q] = seen[q])
        /\ (more \in Seq(Nat) => seen' \in [Pages -> Seq(Nat)])
    BY DEF ReaderTypes
  <1>3. /\ more \in Seq(Nat) /\ Len(more) = n + 1 /\ more[n + 1] = id /\ more # <<>>
        /\ \A i \in 1 .. n : more[i] = seen[p][i]
    <2>1. PICK s \in Seq(Nat) : s = seen[p]
      BY <1>1
    <2>2. /\ Append(s, id) \in Seq(Nat) /\ Len(Append(s, id)) = Len(s) + 1 /\ Append(s, id)[Len(s) + 1] = id
          /\ Append(s, id) # <<>>
          /\ \A i \in 1 .. Len(s) : Append(s, id)[i] = s[i]
      BY MoreFacts
    <2> QED
      BY <2>1, <2>2
  <1>4. LastSeen(p)' = id
    BY <1>2, <1>3 DEF LastSeen
  <1>5. \A i, j \in 1 .. n : i < j => seen[p][i] < seen[p][j]
    BY DEF SeenInOrder
  <1> HIDE DEF n, more
  <1>6. \A i \in 1 .. n + 1 : i \in 1 .. n \/ i = n + 1
    BY <1>1
  <1>7. ASSUME NEW i \in 1 .. n + 1
        PROVE  (i \in 1 .. n /\ more[i] = seen[p][i]) \/ (i = n + 1 /\ more[i] = id)
    <2>1. CASE i \in 1 .. n
      BY <1>3, <2>1
    <2>2. CASE i = n + 1
      BY <1>3, <2>2
    <2> QED
      BY <1>6, <2>1, <2>2
  <1>8. ASSUME NEW i \in 1 .. n + 1, NEW j \in 1 .. n + 1, i < j
        PROVE  more[i] < more[j]
    <2>1. i \in 1 .. n
      BY <1>1, <1>8
    <2>2. CASE j \in 1 .. n
      BY <1>3, <1>5, <1>8, <2>1, <2>2
    <2>3. CASE j = n + 1
      <3>1. more[i] \in Nat /\ more[i] <= LastSeen(p)
        BY <1>1, <1>3, <2>1
      <3> QED
        BY <1>1, <1>3, <2>3, <3>1
    <2> QED
      BY <1>6, <2>2, <2>3
  <1>9. /\ Len(more) = n + 1
        /\ \A i \in 1 .. n + 1 : (i \in 1 .. n /\ more[i] = seen[p][i]) \/ (i = n + 1 /\ more[i] = id)
        /\ \A i, j \in 1 .. n + 1 : i < j => more[i] < more[j]
    BY <1>3, <1>7, <1>8
  <1> QED
    BY <1>2, <1>3, <1>4, <1>9 DEF n

OthersKeep(p) ==
  /\ \A k \in Readers \ {p} : reader'[k] = reader[k]
  /\ \A q \in Pages \ {p} : seen'[q] = seen[q]

LEMMA OpenKeeps ==
  ASSUME WebConstants, HubTypes, ReaderTypes, LogShape, NEW p \in Pages, CursorInv(p), PageOK(p),
         NEW r \in Runs, OpenStream(p, r)
  PROVE  ReaderTypes' /\ CursorInv(p)' /\ PageOK(p)' /\ OthersKeep(p)
  <1> DEFINE last == LastSeen(p)
  <1>1. /\ reader[p].at = "off" /\ reader[p].run \in {NoRun, r} /\ run[r].listed
        /\ reader' = [reader EXCEPT ![p] = Subscription(r, last)] /\ UNCHANGED hub /\ seen' = seen
    BY DEF OpenStream
  <1>2. run[r].turn # "none" /\ p \in Readers
    BY <1>1 DEF LogShape
  <1>3. /\ last \in Nat /\ seen[p] \in Seq(Nat) /\ last <= Len(log[r])
        /\ (reader[p].run = NoRun => seen[p] = <<>>) /\ SeenInOrder(p)
    <2>1. SeenInOrder(p) /\ Len(log[r]) \in Nat
      BY DEF PageOK, HubTypes
    <2> QED
      BY <1>1, <2>1, SeenFacts DEF SeenInOrder
  <1>4. /\ reader' \in [Readers -> ReaderStates] /\ CursorInv(p)'
        /\ reader'[p].at = "reading" /\ reader'[p].run = r
        /\ Position(p)' \in Nat /\ last < Position(p)'
        /\ Len(log[r]) <= HistoryLimit => Position(p)' = last + 1
        /\ reader'[p].done /\ reader'[p].replay = <<>> => last = Len(log[r])
    BY <1>1, <1>2, <1>3, Subscribed
  <1>5. ReaderTypes' /\ OthersKeep(p)
    BY <1>1, <1>4 DEF ReaderTypes, OthersKeep
  <1>6. LastSeen(p)' = last /\ Reading(p)' /\ r # NoRun
    BY <1>1, <1>4 DEF LastSeen, Reading, WebConstants
  <1>7. SeenInOrder(p)'
    BY <1>1, <1>3, <1>4, <1>6 DEF SeenInOrder
  <1>8. SeenWithoutGaps(p)'
    <2> SUFFICES ASSUME Len(log[r]) <= HistoryLimit, Len(log[r]) <= Capacity
                 PROVE  (\A i \in 1 .. Len(seen[p]) : seen[p][i] = i) /\ Position(p)' = Len(seen[p]) + 1
      BY <1>1, <1>4 DEF SeenWithoutGaps, Fits
    <2>1. \A i \in 1 .. Len(seen[p]) : seen[p][i] = i
      BY <1>1, <1>3 DEF PageOK, SeenWithoutGaps, Fits
    <2>2. last = Len(seen[p])
      BY <1>3, <2>1, SeenFacts
    <2> QED
      BY <1>4, <2>1, <2>2
  <1>9. EndIsSeen(p)'
    BY <1>1, <1>4, <1>6 DEF EndIsSeen
  <1> QED
    BY <1>4, <1>5, <1>7, <1>8, <1>9 DEF PageOK

LEMMA OffState == Off \in ReaderStates
  <1>1. <<>> \in Seq(Nat) /\ 1 \in Nat
    OBVIOUS
  <1> QED
    BY <1>1 DEF Off, ReaderStates

LEMMA EndStates ==
  ASSUME NEW r \in Runs
  PROVE  LET ended == [Off EXCEPT !.at = "ended", !.run = r]
         IN  ended \in ReaderStates /\ ended.at = "ended" /\ ended.run = r
  <1>1. [Off EXCEPT !.at = "ended", !.run = r] \in ReaderStates
    BY OffState DEF ReaderStates
  <1>2. [Off EXCEPT !.at = "ended", !.run = r].at = "ended"
    BY DEF Off
  <1>3. [Off EXCEPT !.at = "ended", !.run = r].run = r
    BY DEF Off
  <1> QED
    BY <1>1, <1>2, <1>3

(* An end that was read is the last event of a run that is over.           *)
LEMMA ReadEnd ==
  ASSUME WebConstants, HubTypes, LogShape, NEW r \in Runs, NEW id \in Nat, 1 <= id, id <= Len(log[r]),
         log[r][id] \in Terminal
  PROVE  run[r].turn = "over" /\ id = Len(log[r]) /\ IsDone(r)
  <1>1. Len(log[r]) \in Nat
    BY DEF HubTypes
  <1>2. id \in 1 .. Len(log[r])
    BY <1>1
  <1>3. run[r].turn = "over" /\ id = Len(log[r])
    BY <1>2 DEF LogShape
  <1> QED
    BY <1>3, DoneFacts

LEMMA ReadKeeps ==
  ASSUME WebConstants, HubTypes, ReaderTypes, LogShape, UNCHANGED hub, NEW p \in Pages,
         CursorInv(p), PageOK(p), NEW id \in Incoming(p), Take(p, KindOf(p, id) \in Terminal),
         seen' = [seen EXCEPT ![p] = Append(@, id)]
  PROVE  ReaderTypes' /\ CursorInv(p)' /\ PageOK(p)' /\ OthersKeep(p)
  <1> DEFINE r == reader[p].run
             n == Len(seen[p])
  <1>1. /\ Reading(p) /\ r \in Runs /\ r # NoRun /\ id = Position(p) /\ id \in Nat
        /\ 1 <= id /\ id <= Len(log[r]) /\ run[r].turn # "none"
    BY IncomingFacts DEF WebConstants, CursorOf
  <1>2. SeenInOrder(p) /\ LastSeen(p) < id
    BY <1>1 DEF PageOK, SeenInOrder
  <1>3. /\ seen' \in [Pages -> Seq(Nat)] /\ Len(seen'[p]) = n + 1 /\ LastSeen(p)' = id
        /\ \A i \in 1 .. Len(seen'[p]) :
             \/ i \in 1 .. n /\ seen'[p][i] = seen[p][i]
             \/ i = n + 1 /\ seen'[p][i] = id
        /\ \A i, j \in 1 .. Len(seen'[p]) : i < j => seen'[p][i] < seen'[p][j]
        /\ \A q \in Pages \ {p} : seen'[q] = seen[q]
    <2>1. seen' = [seen EXCEPT ![p] = Append(seen[p], id)]
      OBVIOUS
    <2> QED
      BY <1>1, <1>2, <2>1, SeenMore
  <1>4. log' = log /\ run' = run
    OBVIOUS
  <1>5. \A i \in 1 .. Len(seen'[p]) : 1 <= seen'[p][i] /\ seen'[p][i] <= Len(log'[r])
    BY <1>1, <1>2, <1>3, <1>4 DEF SeenInOrder
  <1>6. Fits(r) => id = n + 1 /\ \A i \in 1 .. Len(seen'[p]) : seen'[p][i] = i
    <2> SUFFICES ASSUME Fits(r)
                 PROVE  id = n + 1 /\ \A i \in 1 .. Len(seen'[p]) : seen'[p][i] = i
      OBVIOUS
    <2>1. id = n + 1 /\ \A i \in 1 .. n : seen[p][i] = i
      BY <1>1 DEF PageOK, SeenWithoutGaps
    <2> QED
      BY <1>3, <2>1
  <1>7. CASE KindOf(p, id) \in Terminal
    <2>1. IsDone(r) /\ id = Len(log[r])
      BY <1>1, <1>7, ReadEnd DEF KindOf
    <2>2. reader' = [reader EXCEPT ![p] = [Off EXCEPT !.at = "ended", !.run = r]]
      BY <1>7 DEF Take, End
    <2>3. /\ reader' \in [Readers -> ReaderStates] /\ reader'[p].at = "ended" /\ reader'[p].run = r
          /\ \A k \in Readers \ {p} : reader'[k] = reader[k]
      BY <1>1, <2>2, EndStates DEF ReaderTypes
    <2>4. ~Reading(p)' /\ CursorInv(p)'
      BY <1>1, <1>4, <2>3 DEF Reading, CursorInv
    <2>5. SeenInOrder(p)'
      BY <1>1, <1>3, <1>5, <2>3, <2>4 DEF SeenInOrder
    <2>6. SeenWithoutGaps(p)'
      BY <1>4, <1>6, <2>3, <2>4 DEF SeenWithoutGaps, Fits
    <2>7. EndIsSeen(p)'
      BY <1>1, <1>3, <1>4, <2>1, <2>3, <2>4 DEF EndIsSeen, IsDone
    <2> QED
      BY <1>3, <2>3, <2>4, <2>5, <2>6, <2>7 DEF PageOK, ReaderTypes, OthersKeep
  <1>8. CASE KindOf(p, id) \notin Terminal
    <2>1. Take(p, FALSE)
      BY <1>8 DEF Take
    <2>2. /\ reader' \in [Readers -> ReaderStates] /\ CursorInv(p)'
          /\ reader'[p].at = "reading" /\ reader'[p].run = r
          /\ Position(p)' = id + 1
          /\ ~(reader'[p].done /\ reader'[p].replay = <<>>)
      BY <1>8, <2>1, Taken
    <2>3. \A k \in Readers \ {p} : reader'[k] = reader[k]
      BY <2>1 DEF Take, ReaderTypes
    <2>4. SeenInOrder(p)'
      BY <1>1, <1>3, <1>5, <2>2 DEF SeenInOrder
    <2>5. SeenWithoutGaps(p)'
      BY <1>3, <1>4, <1>6, <2>2 DEF SeenWithoutGaps, Fits
    <2>6. EndIsSeen(p)'
      BY <2>2 DEF EndIsSeen
    <2> QED
      BY <1>3, <2>2, <2>3, <2>4, <2>5, <2>6 DEF PageOK, ReaderTypes, OthersKeep
  <1> QED
    BY <1>7, <1>8

(* A receiver whose sender is gone has read the end: what is not listed    *)
(* any more was over before it was removed.                                *)
LEMMA NothingLeftFacts ==
  ASSUME WebConstants, HubTypes, ReaderTypes, LogShape, NEW k \in Readers, CursorInv(k), NothingLeft(k)
  PROVE  /\ Reading(k) /\ reader[k].run \in Runs /\ reader[k].done /\ reader[k].replay = <<>>
         /\ run[reader[k].run].turn = "over"
  <1> DEFINE v == reader[k]
             r == v.run
  <1>1. Reading(k) /\ CursorOf(k) /\ v.replay = <<>> /\ (v.done \/ (v.next > Len(log[r]) /\ ~run[r].listed))
    BY DEF NothingLeft, CursorInv, Reading
  <1>2. /\ r \in Runs /\ run[r].turn # "none" /\ (v.done => run[r].turn = "over")
        /\ ~v.done /\ run[r].turn = "over" => v.next <= Len(log[r])
    BY <1>1 DEF CursorOf
  <1>3. v.next \in Nat /\ Len(log[r]) \in Nat /\ run[r].turn \in {"none", "starting", "running", "over"}
    BY <1>2 DEF HubTypes, ReaderTypes, ReaderStates, RunStates
  <1>4. ASSUME ~v.done
        PROVE  FALSE
    <2>1. v.next > Len(log[r]) /\ ~run[r].listed
      BY <1>1, <1>4
    <2>2. run[r].turn = "over"
      BY <1>2, <1>3, <2>1 DEF LogShape
    <2>3. v.next <= Len(log[r])
      BY <1>2, <1>4, <2>2
    <2> HIDE DEF v, r
    <2> QED
      BY <1>3, <2>1, <2>3
  <1> QED
    BY <1>1, <1>2, <1>4

LEMMA EndKeeps ==
  ASSUME WebConstants, HubTypes, ReaderTypes, NEW k \in Readers, reader[k].run \in Runs,
         run[reader[k].run].turn # "none", UNCHANGED hub, End(k)
  PROVE  /\ reader' \in [Readers -> ReaderStates] /\ CursorInv(k)'
         /\ reader'[k].at = "ended" /\ reader'[k].run = reader[k].run
         /\ \A q \in Readers \ {k} : reader'[q] = reader[q]
  <1> DEFINE r == reader[k].run
             ended == [Off EXCEPT !.at = "ended", !.run = r]
  <1>1. reader' = [reader EXCEPT ![k] = ended]
    BY DEF End
  <1>2. ended \in ReaderStates /\ ended.at = "ended" /\ ended.run = r
    BY EndStates
  <1> HIDE DEF ended
  <1>3. reader' \in [Readers -> ReaderStates] /\ reader'[k] = ended
        /\ \A q \in Readers \ {k} : reader'[q] = reader[q]
    BY <1>1, <1>2 DEF ReaderTypes
  <1> QED
    BY <1>2, <1>3 DEF CursorInv

LEMMA PageKeeps ==
  ASSUME WebConstants, HubTypes, ReaderTypes, LogShape, NEW p \in Pages, CursorInv(p), PageOK(p),
         ReadStream(p) \/ Lag(p) \/ DropStream(p)
  PROVE  ReaderTypes' /\ CursorInv(p)' /\ PageOK(p)' /\ OthersKeep(p)
  <1> DEFINE r == reader[p].run
  <1>0. p \in Readers /\ SeenInOrder(p) /\ NoRun \notin Runs
    BY DEF PageOK, WebConstants
  <1>1. CASE \E id \in Incoming(p) :
               /\ Take(p, KindOf(p, id) \in Terminal)
               /\ seen' = [seen EXCEPT ![p] = Append(@, id)] /\ UNCHANGED hub
    BY <1>1, ReadKeeps
  <1>2. CASE NothingLeft(p) /\ End(p) /\ UNCHANGED <<hub, seen>>
    <2>1. Reading(p) /\ r \in Runs /\ reader[p].done /\ reader[p].replay = <<>> /\ run[r].turn = "over"
      BY <1>0, <1>2, NothingLeftFacts
    <2>2. /\ reader' \in [Readers -> ReaderStates] /\ CursorInv(p)' /\ reader'[p].at = "ended" /\ reader'[p].run = r
          /\ \A q \in Readers \ {p} : reader'[q] = reader[q]
      BY <1>0, <1>2, <2>1, EndKeeps
    <2>3. seen' = seen /\ log' = log /\ LastSeen(p)' = LastSeen(p) /\ ~Reading(p)'
      BY <1>2, <2>2 DEF LastSeen, Reading
    <2>4. SeenInOrder(p)'
      BY <1>0, <2>2, <2>3 DEF SeenInOrder
    <2>5. SeenWithoutGaps(p)'
      BY <2>2, <2>3 DEF PageOK, SeenWithoutGaps, Fits
    <2>6. EndIsSeen(p)'
      <3>1. IsDone(r)
        BY <2>1, DoneFacts
      <3>2. LastSeen(p) = Len(log[r])
        BY <2>1 DEF PageOK, EndIsSeen
      <3>3. IsDone(reader[p].run)'
        BY <2>2, <2>3, <3>1 DEF IsDone
      <3> QED
        BY <2>1, <2>2, <2>3, <3>2, <3>3 DEF EndIsSeen
    <2> QED
      BY <2>2, <2>3, <2>4, <2>5, <2>6 DEF PageOK, ReaderTypes, OthersKeep
  <1>3. CASE Lag(p)
    <2>1. /\ reader' \in [Readers -> ReaderStates] /\ CursorInv(p)'
          /\ reader'[p].at = "reading" /\ reader'[p].run = r /\ r \in Runs
          /\ ~reader'[p].done
          /\ Position(p) \in Nat /\ Position(p)' \in Nat /\ Position(p) <= Position(p)' /\ ~Fits(r)
      BY <1>0, <1>3, Lagged
    <2>2. seen' = seen /\ log' = log /\ LastSeen(p)' = LastSeen(p) /\ Reading(p)
          /\ \A q \in Readers \ {p} : reader'[q] = reader[q]
      BY <1>3 DEF Lag, LastSeen, ReaderTypes
    <2>3. SeenInOrder(p)'
      <3>1. LastSeen(p) \in Nat /\ LastSeen(p) < Position(p)
        BY <1>0, <2>2, SeenFacts DEF SeenInOrder
      <3>2. LastSeen(p) < Position(p)'
        BY <2>1, <3>1
      <3> QED
        BY <1>0, <2>1, <2>2, <3>2 DEF SeenInOrder
    <2>4. SeenWithoutGaps(p)' /\ EndIsSeen(p)'
      BY <2>1, <2>2 DEF SeenWithoutGaps, EndIsSeen, Fits
    <2> QED
      BY <2>1, <2>2, <2>3, <2>4 DEF PageOK, ReaderTypes, OthersKeep
  <1>4. CASE DropStream(p)
    <2> DEFINE lost == [Off EXCEPT !.run = r]
    <2>1. r \in Runs \cup {NoRun} /\ reader' = [reader EXCEPT ![p] = lost] /\ seen' = seen /\ log' = log /\ run' = run
      BY <1>4 DEF DropStream, ReaderTypes, ReaderStates
    <2>3. lost \in ReaderStates
      BY <2>1, OffState DEF ReaderStates
    <2>4. lost.at = "off" /\ lost.run = r
      BY DEF Off
    <2> HIDE DEF lost
    <2>5. /\ reader' \in [Readers -> ReaderStates] /\ reader'[p].at = "off" /\ reader'[p].run = r
          /\ \A q \in Readers \ {p} : reader'[q] = reader[q]
      BY <2>1, <2>3, <2>4 DEF ReaderTypes
    <2>6. CursorInv(p)' /\ ~Reading(p)'
      BY <2>1, <2>5 DEF CursorInv, Reading
    <2>7. SeenInOrder(p)'
      BY <1>0, <2>1, <2>5, <2>6 DEF SeenInOrder
    <2>8. SeenWithoutGaps(p)'
      BY <2>1, <2>5, <2>6 DEF PageOK, SeenWithoutGaps, Fits
    <2>9. EndIsSeen(p)'
      BY <2>5, <2>6 DEF EndIsSeen
    <2> QED
      BY <2>1, <2>5, <2>6, <2>7, <2>8, <2>9 DEF PageOK, ReaderTypes, OthersKeep
  <1> QED
    BY <1>1, <1>2, <1>3, <1>4 DEF ReadStream

-----------------------------------------------------------------------------
(* Sockets.                                                                *)

SocketStates == [at: {"new", "upgrading", "open", "closing", "closed"},
                 connected: BOOLEAN, busy: BOOLEAN, writer: BOOLEAN]
Frames == [kind: {"ack", "delta"} \cup Terminal, run: Runs]
SocketTypes == socket \in [Sockets -> SocketStates] /\ frames \in [Sockets -> Seq(Frames)]

Follows(f, g) ==
  /\ f.kind = "ack" => g.kind \in Terminal \cup {"ack"}
  /\ f.kind # "ack" => g.run = f.run /\ g.kind \notin Terminal
FramesOK(s) ==
  \A i \in 1 .. Len(frames[s]) :
    /\ i = 1 => frames[s][1].kind = "ack"
    /\ i > 1 => Follows(frames[s][i], frames[s][i - 1])

LEMMA FramesFacts ==
  ASSUME SocketTypes
  PROVE  RunsDoNotMix <=> \A s \in Sockets : FramesOK(s)
  <1> SUFFICES ASSUME NEW s \in Sockets, NEW i \in 1 .. Len(frames[s])
               PROVE  (LET f == frames[s][i] IN
                        /\ f.kind = "ack" => i = 1 \/ frames[s][i - 1].kind \in Terminal \cup {"ack"}
                        /\ f.kind # "ack" =>
                             /\ i > 1 /\ frames[s][i - 1].run = f.run
                             /\ frames[s][i - 1].kind \notin Terminal)
                      <=> /\ i = 1 => frames[s][1].kind = "ack"
                          /\ i > 1 => Follows(frames[s][i], frames[s][i - 1])
    <2>1. \A s \in Sockets : DOMAIN frames[s] = 1 .. Len(frames[s])
      BY DEF SocketTypes
    <2> QED
      BY <2>1 DEF RunsDoNotMix, FramesOK
  <1>1. CASE i = 1
    BY <1>1
  <1>2. CASE i # 1
    <2>1. i > 1
      BY <1>2
    <2> QED
      BY <1>2, <2>1 DEF Follows
  <1> QED
    BY <1>1, <1>2

(* A frame that may follow the last one.                                   *)
LEMMA SendMore ==
  ASSUME SocketTypes, NEW s \in Sockets, FramesOK(s), NEW kind \in {"ack", "delta"} \cup Terminal, NEW r \in Runs,
         kind = "ack" => frames[s] = <<>> \/ LastFrame(s).kind \in Terminal \cup {"ack"},
         kind # "ack" => frames[s] # <<>> /\ LastFrame(s).run = r /\ LastFrame(s).kind \notin Terminal,
         Send(s, kind, r)
  PROVE  /\ frames' \in [Sockets -> Seq(Frames)] /\ FramesOK(s)'
         /\ frames'[s] # <<>> /\ LastFrame(s)'.kind = kind /\ LastFrame(s)'.run = r
         /\ \A q \in Sockets \ {s} : frames'[q] = frames[q]
  <1> DEFINE f == [kind |-> kind, run |-> r]
             n == Len(frames[s])
             more == Append(frames[s], f)
  <1>1. frames[s] \in Seq(Frames) /\ f \in Frames /\ n \in Nat /\ f.kind = kind /\ f.run = r
    <2>1. frames[s] \in Seq(Frames) /\ n \in Nat
      BY DEF SocketTypes
    <2>2. f \in Frames /\ f.kind = kind /\ f.run = r
      BY DEF Frames
    <2> QED
      BY <2>1, <2>2
  <1>2. /\ more \in Seq(Frames) /\ Len(more) = n + 1 /\ more[n + 1] = f /\ more # <<>>
        /\ \A i \in 1 .. n : more[i] = frames[s][i]
    BY <1>1, MoreFacts
  <1>3. frames' = [frames EXCEPT ![s] = more]
    BY DEF Send
  <1>4. n = 0 => frames[s] = <<>>
    BY <1>1, EmptySeq
  <1>5. frames[s] # <<>> => n >= 1
    BY <1>1, EmptySeq
  <1>6. frames[s] = <<>> => n = 0
    BY EmptySeq
  <1>7. LastFrame(s) = frames[s][n]
    BY DEF LastFrame
  <1>8. \A i \in 1 .. n :
          /\ i = 1 => frames[s][1].kind = "ack"
          /\ i > 1 => Follows(frames[s][i], frames[s][i - 1])
    BY DEF FramesOK
  <1> HIDE DEF f, n, more
  <1>9. ASSUME NEW i \in 1 .. n + 1
        PROVE  /\ i = 1 => more[1].kind = "ack"
               /\ i > 1 => Follows(more[i], more[i - 1])
    <2>1. CASE i \in 1 .. n
      <3>1. more[i] = frames[s][i]
        BY <1>2, <2>1
      <3>2. i > 1 => i - 1 \in 1 .. n /\ more[i - 1] = frames[s][i - 1]
        BY <1>1, <1>2, <2>1
      <3>3. /\ i = 1 => frames[s][1].kind = "ack"
            /\ i > 1 => Follows(frames[s][i], frames[s][i - 1])
        BY <1>8, <2>1
      <3>4. CASE i = 1
        BY <3>1, <3>3, <3>4
      <3>5. CASE i > 1
        BY <3>1, <3>2, <3>3, <3>5
      <3>6. i = 1 \/ i > 1
        BY <1>1, <2>1
      <3> QED
        BY <3>4, <3>5, <3>6
    <2>2. CASE i = n + 1 /\ n = 0
      BY <1>1, <1>2, <1>4, <2>2
    <2>3. CASE i = n + 1 /\ n # 0
      <3>1. n \in 1 .. n /\ i - 1 = n /\ i # 1 /\ frames[s] # <<>>
        BY <1>1, <1>6, <2>3
      <3>2. more[i] = f /\ more[i - 1] = LastFrame(s)
        BY <1>2, <1>7, <2>3, <3>1
      <3> QED
        BY <1>1, <3>1, <3>2 DEF Follows
    <2> QED
      BY <1>1, <2>1, <2>2, <2>3
  <1>10. frames' \in [Sockets -> Seq(Frames)] /\ frames'[s] = more /\ \A q \in Sockets \ {s} : frames'[q] = frames[q]
    BY <1>2, <1>3 DEF SocketTypes
  <1>11. FramesOK(s)'
    BY <1>2, <1>9, <1>10 DEF FramesOK
  <1>12. LastFrame(s)' = f
    BY <1>2, <1>10 DEF LastFrame
  <1> QED
    BY <1>1, <1>2, <1>10, <1>11, <1>12

SocketOK(s) == SocketLink(s) /\ FramesOK(s)
OnlySocket(s) ==
  /\ \A k \in Readers \ {s} : reader'[k] = reader[k]
  /\ \A q \in Sockets \ {s} : socket'[q] = socket[q] /\ frames'[q] = frames[q]

(* A step of the connection, not of its run's task.                        *)
LEMMA ConnectionKeeps ==
  ASSUME SocketTypes, NEW s \in Sockets, SocketOK(s), NEW next \in SocketStates, SetSocket(s, next),
         UNCHANGED <<reader, frames>>,
         next.busy = socket[s].busy,
         ~next.writer => next.at \in {"closing", "closed"},
         next.at \in {"new", "upgrading"} => socket[s].at \in {"new", "upgrading"},
         next.at = "open" => socket[s].at \in {"upgrading", "open"}
  PROVE  SocketTypes' /\ SocketOK(s)' /\ OnlySocket(s) /\ socket'[s] = next
  <1>1. socket' \in [Sockets -> SocketStates] /\ socket'[s] = next
        /\ \A q \in Sockets \ {s} : socket'[q] = socket[q]
    BY DEF SetSocket, SocketTypes
  <1>2. /\ Busy(s)' = Busy(s) /\ LastFrame(s)' = LastFrame(s) /\ Reading(s)' = Reading(s)
        /\ FramesOK(s)' = FramesOK(s)
    BY DEF Busy, LastFrame, Reading, FramesOK
  <1>3. SocketLink(s)'
    BY <1>1, <1>2 DEF SocketOK, SocketLink
  <1> QED
    BY <1>1, <1>2, <1>3 DEF SocketOK, OnlySocket, SocketTypes

LEMMA ConnectionSteps ==
  ASSUME SocketTypes, NEW s \in Sockets, SocketOK(s),
         Upgrade(s) \/ UpgradeOutcome(s) \/ Connect(s) \/ CloseSocket(s) \/ WriterFails(s) \/ ReleaseSocket(s)
  PROVE  SocketTypes' /\ SocketOK(s)' /\ OnlySocket(s)
  <1> DEFINE c == socket[s]
  <1>1. c \in SocketStates /\ SocketLink(s)
    BY DEF SocketTypes, SocketOK
  <1>2. /\ Fresh.at = "new" /\ Fresh.busy = FALSE /\ Fresh.writer = TRUE
        /\ \A at \in {"upgrading", "open", "closed"} :
             LET next == [Fresh EXCEPT !.at = at]
             IN  next \in SocketStates /\ next.at = at /\ next.busy = FALSE /\ next.writer = TRUE
    BY DEF Fresh, SocketStates
  <1>3. /\ [c EXCEPT !.connected = TRUE] \in SocketStates
        /\ [c EXCEPT !.writer = FALSE] \in SocketStates
        /\ \A at \in {"closing", "closed"} : [c EXCEPT !.at = at] \in SocketStates
    BY <1>1 DEF SocketStates
  <1>4. ~c.busy \/ c.busy
    OBVIOUS
  <1>5. CASE Upgrade(s)
    <2>1. c = Fresh /\ UNCHANGED <<reader, frames>> /\ SetSocket(s, [Fresh EXCEPT !.at = "upgrading"])
      BY <1>5 DEF Upgrade
    <2> QED
      BY <1>2, <2>1, ConnectionKeeps
  <1>6. CASE UpgradeOutcome(s)
    <2>1. PICK at \in {"open", "closed"} : SetSocket(s, [Fresh EXCEPT !.at = at])
      BY <1>6 DEF UpgradeOutcome
    <2>2. c.at = "upgrading" /\ UNCHANGED <<reader, frames>>
      BY <1>6 DEF UpgradeOutcome
    <2>3. c.busy = FALSE
      BY <1>1, <2>2 DEF SocketLink, SocketStates
    <2> QED
      BY <1>2, <2>1, <2>2, <2>3, ConnectionKeeps
  <1>7. CASE Connect(s)
    <2>1. c.at = "open" /\ UNCHANGED <<reader, frames>> /\ SetSocket(s, [c EXCEPT !.connected = TRUE])
      BY <1>7 DEF Connect
    <2>2. c.writer
      BY <1>1, <2>1 DEF SocketLink
    <2> DEFINE next == [c EXCEPT !.connected = TRUE]
    <2>3. next.at = c.at /\ next.busy = c.busy /\ next.writer = c.writer
      BY <1>1 DEF SocketStates
    <2> QED
      BY <1>3, <2>1, <2>2, <2>3, ConnectionKeeps
  <1>8. CASE CloseSocket(s) \/ ReleaseSocket(s)
    <2>1. PICK at \in {"closing", "closed"} : SetSocket(s, [c EXCEPT !.at = at])
      BY <1>8 DEF CloseSocket, ReleaseSocket
    <2>2. UNCHANGED <<reader, frames>>
      BY <1>8 DEF CloseSocket, ReleaseSocket
    <2> DEFINE next == [c EXCEPT !.at = at]
    <2>3. next.at = at /\ next.busy = c.busy
      BY <1>1 DEF SocketStates
    <2> QED
      BY <1>3, <2>1, <2>2, <2>3, ConnectionKeeps
  <1>9. CASE WriterFails(s)
    <2>1. c.at = "closing" /\ UNCHANGED <<reader, frames>> /\ SetSocket(s, [c EXCEPT !.writer = FALSE])
      BY <1>9 DEF WriterFails
    <2> DEFINE next == [c EXCEPT !.writer = FALSE]
    <2>2. next.at = c.at /\ next.busy = c.busy
      BY <1>1 DEF SocketStates
    <2> QED
      BY <1>3, <2>1, <2>2, ConnectionKeeps
  <1> QED
    BY <1>5, <1>6, <1>7, <1>8, <1>9

LEMMA SocketSet ==
  ASSUME SocketTypes, NEW s \in Sockets, NEW busy \in BOOLEAN,
         SetSocket(s, [socket[s] EXCEPT !.busy = busy])
  PROVE  /\ socket' \in [Sockets -> SocketStates] /\ socket'[s].busy = busy
         /\ socket'[s].at = socket[s].at /\ socket'[s].writer = socket[s].writer
         /\ \A q \in Sockets \ {s} : socket'[q] = socket[q]
  <1>1. socket[s] \in SocketStates
    BY DEF SocketTypes
  <1> DEFINE next == [socket[s] EXCEPT !.busy = busy]
  <1>2. /\ next \in SocketStates /\ next.busy = busy
        /\ next.at = socket[s].at /\ next.writer = socket[s].writer
    BY <1>1 DEF SocketStates
  <1>3. socket' = [socket EXCEPT ![s] = next]
    BY DEF SetSocket
  <1> HIDE DEF next
  <1> QED
    BY <1>2, <1>3 DEF SocketTypes

LEMMA ChatSendKeeps ==
  ASSUME WebConstants, HubTypes, ReaderTypes, SocketTypes, LogShape, NEW s \in Sockets, SocketOK(s),
         NEW r \in Runs, ChatSend(s, r)
  PROVE  /\ HubTypes' /\ LogShape' /\ Grows /\ reader' \in [Readers -> ReaderStates]
         /\ CursorInv(s)' /\ SocketTypes' /\ SocketOK(s)' /\ OnlySocket(s) /\ socket'[s].at = socket[s].at
  <1>1. /\ socket[s].at = "open" /\ ~socket[s].busy
        /\ SetSocket(s, [socket[s] EXCEPT !.busy = TRUE])
        /\ reader' = [reader EXCEPT ![s] = [Off EXCEPT !.at = "subscribing", !.run = r]]
        /\ Send(s, "ack", r)
    BY DEF ChatSend
  <1>2. HubTypes' /\ LogShape' /\ Grows /\ run'[r].turn # "none"
    BY StartGrows DEF ChatSend
  <1> DEFINE next == [Off EXCEPT !.at = "subscribing", !.run = r]
  <1>3. next \in ReaderStates /\ next.at = "subscribing" /\ next.run = r
    <2>1. next \in ReaderStates
      BY OffState DEF ReaderStates
    <2>2. next.at = "subscribing" /\ next.run = r
      BY DEF Off
    <2> QED
      BY <2>1, <2>2
  <1>4. /\ reader' \in [Readers -> ReaderStates] /\ reader'[s].at = "subscribing" /\ reader'[s].run = r
        /\ \A k \in Readers \ {s} : reader'[k] = reader[k]
    <2>1. reader' = [reader EXCEPT ![s] = next]
      BY <1>1
    <2> HIDE DEF next
    <2> QED
      BY <1>3, <2>1 DEF ReaderTypes
  <1>5. /\ socket' \in [Sockets -> SocketStates] /\ socket'[s].busy = TRUE
        /\ socket'[s].at = socket[s].at /\ socket'[s].writer = socket[s].writer
        /\ \A q \in Sockets \ {s} : socket'[q] = socket[q]
    BY <1>1, SocketSet
  <1>6. SocketLink(s) /\ FramesOK(s)
    BY DEF SocketOK
  <1>7. frames[s] = <<>> \/ LastFrame(s).kind \in Terminal \cup {"ack"}
    BY <1>1, <1>6 DEF SocketLink
  <1>8. /\ frames' \in [Sockets -> Seq(Frames)] /\ FramesOK(s)'
        /\ frames'[s] # <<>> /\ LastFrame(s)'.kind = "ack" /\ LastFrame(s)'.run = r
        /\ \A q \in Sockets \ {s} : frames'[q] = frames[q]
    BY <1>1, <1>6, <1>7, SendMore
  <1>9. Busy(s)' /\ ~Reading(s)'
    BY <1>4 DEF Busy, Reading
  <1>10. SocketLink(s)'
    BY <1>1, <1>4, <1>5, <1>6, <1>8, <1>9 DEF SocketLink
  <1>11. CursorInv(s)'
    BY <1>2, <1>4 DEF CursorInv
  <1> QED
    BY <1>2, <1>4, <1>5, <1>8, <1>10, <1>11 DEF SocketTypes, SocketOK, OnlySocket

(* A reader that stops gives its place on the socket back.                 *)
LEMMA StopKeeps ==
  ASSUME WebConstants, HubTypes, ReaderTypes, SocketTypes, UNCHANGED hub, NEW s \in Sockets, CursorInv(s), SocketOK(s),
         Busy(s), reader[s].run \in Runs, End(s), SetSocket(s, [socket[s] EXCEPT !.busy = FALSE]),
         \/ UNCHANGED frames /\ (LastFrame(s).kind = "ack" \/ socket[s].at # "open")
         \/ \E kind \in Terminal : Send(s, kind, reader[s].run)
  PROVE  /\ reader' \in [Readers -> ReaderStates]
         /\ CursorInv(s)' /\ SocketTypes' /\ SocketOK(s)' /\ OnlySocket(s) /\ socket'[s].at = socket[s].at
  <1> DEFINE r == reader[s].run
  <1>0. s \in Readers /\ run[r].turn # "none"
    BY DEF CursorInv, WebConstants
  <1>1. /\ reader' \in [Readers -> ReaderStates] /\ CursorInv(s)' /\ reader'[s].at = "ended"
        /\ \A k \in Readers \ {s} : reader'[k] = reader[k]
    BY <1>0, EndKeeps
  <1>2. /\ socket' \in [Sockets -> SocketStates] /\ socket'[s].busy = FALSE
        /\ socket'[s].at = socket[s].at /\ socket'[s].writer = socket[s].writer
        /\ \A q \in Sockets \ {s} : socket'[q] = socket[q]
    BY SocketSet
  <1>3. SocketLink(s) /\ FramesOK(s)
    BY DEF SocketOK
  <1>4. ~Busy(s)' /\ ~Reading(s)'
    BY <1>1 DEF Busy, Reading
  <1>5. frames[s] # <<>> /\ LastFrame(s).run = r /\ LastFrame(s).kind \notin Terminal
    BY <1>3 DEF SocketLink
  <1>6. /\ frames' \in [Sockets -> Seq(Frames)] /\ FramesOK(s)' /\ frames'[s] # <<>>
        /\ socket[s].at = "open" => LastFrame(s)'.kind \in Terminal \cup {"ack"}
        /\ \A q \in Sockets \ {s} : frames'[q] = frames[q]
    <2>1. CASE UNCHANGED frames /\ (LastFrame(s).kind = "ack" \/ socket[s].at # "open")
      BY <1>3, <1>5, <2>1 DEF SocketTypes, FramesOK, LastFrame
    <2>2. ASSUME NEW kind \in Terminal, Send(s, kind, r)
          PROVE  /\ frames' \in [Sockets -> Seq(Frames)] /\ FramesOK(s)' /\ frames'[s] # <<>>
                 /\ LastFrame(s)'.kind = kind
                 /\ \A q \in Sockets \ {s} : frames'[q] = frames[q]
      BY <1>3, <1>5, <2>2, SendMore
    <2> QED
      BY <2>1, <2>2
  <1>7. SocketLink(s)'
    <2>1. socket[s].at \notin {"new", "upgrading"}
      BY <1>3 DEF SocketLink
    <2> QED
      BY <1>1, <1>2, <1>3, <1>4, <1>6, <2>1 DEF SocketLink
  <1> QED
    BY <1>1, <1>2, <1>6, <1>7 DEF SocketTypes, SocketOK, OnlySocket

(* A reader that goes on.                                                  *)
LEMMA GoKeeps ==
  ASSUME WebConstants, SocketTypes, NEW s \in Sockets, SocketOK(s), Busy(s),
         reader'[s].at = "reading", reader'[s].run = reader[s].run, reader[s].run \in Runs,
         reader'[s].done => reader'[s].replay # <<>>, \A k \in Readers \ {s} : reader'[k] = reader[k],
         SetSocket(s, [socket[s] EXCEPT !.busy = TRUE]), UNCHANGED frames \/ Send(s, "delta", reader[s].run)
  PROVE  SocketTypes' /\ SocketOK(s)' /\ OnlySocket(s) /\ socket'[s].at = socket[s].at
  <1> DEFINE r == reader[s].run
  <1>2. /\ socket' \in [Sockets -> SocketStates] /\ socket'[s].busy = TRUE
        /\ socket'[s].at = socket[s].at /\ socket'[s].writer = socket[s].writer
        /\ \A q \in Sockets \ {s} : socket'[q] = socket[q]
    BY SocketSet
  <1>3. SocketLink(s) /\ FramesOK(s)
    BY DEF SocketOK
  <1>4. Busy(s)'
    BY DEF Busy
  <1>5. frames[s] # <<>> /\ LastFrame(s).run = r /\ LastFrame(s).kind \notin Terminal
    BY <1>3 DEF SocketLink
  <1>6. /\ frames' \in [Sockets -> Seq(Frames)] /\ FramesOK(s)' /\ frames'[s] # <<>>
        /\ LastFrame(s)'.kind \notin Terminal /\ LastFrame(s)'.run = r
        /\ \A q \in Sockets \ {s} : frames'[q] = frames[q]
    <2>1. CASE UNCHANGED frames
      BY <1>3, <1>5, <2>1 DEF SocketTypes, FramesOK, LastFrame
    <2>2. CASE Send(s, "delta", r)
      <3>1. /\ frames' \in [Sockets -> Seq(Frames)] /\ FramesOK(s)' /\ frames'[s] # <<>>
            /\ LastFrame(s)'.kind = "delta" /\ LastFrame(s)'.run = r
            /\ \A q \in Sockets \ {s} : frames'[q] = frames[q]
        BY <1>3, <1>5, <2>2, SendMore
      <3> QED
        BY <3>1
    <2> QED
      BY <2>1, <2>2
  <1>7. SocketLink(s)'
    <2>1. socket[s].at \notin {"new", "upgrading"}
      BY <1>3 DEF SocketLink
    <2> QED
      BY <1>2, <1>3, <1>4, <1>6, <2>1 DEF SocketLink, Reading
  <1> QED
    BY <1>2, <1>6, <1>7 DEF SocketTypes, SocketOK, OnlySocket

LEMMA SocketStepKeeps ==
  ASSUME WebConstants, HubTypes, ReaderTypes, SocketTypes, LogShape, NEW s \in Sockets, CursorInv(s), SocketOK(s),
         SocketStep(s)
  PROVE  /\ reader' \in [Readers -> ReaderStates]
         /\ CursorInv(s)' /\ SocketTypes' /\ SocketOK(s)' /\ OnlySocket(s) /\ socket'[s].at = socket[s].at
  <1> DEFINE r == reader[s].run
  <1>0. s \in Readers /\ SocketLink(s) /\ socket[s] \in SocketStates /\ UNCHANGED hub
    BY DEF SocketOK, SocketTypes, SocketStep, SubscribeSocket, ReadSocket, Lag
  <1>1. Busy(s) /\ UNCHANGED socket => SetSocket(s, [socket[s] EXCEPT !.busy = TRUE])
    <2> SUFFICES ASSUME Busy(s), UNCHANGED socket
                 PROVE  SetSocket(s, [socket[s] EXCEPT !.busy = TRUE])
      OBVIOUS
    <2>1. socket[s].busy = TRUE
      BY <1>0 DEF SocketLink, SocketStates
    <2>2. [socket[s] EXCEPT !.busy = TRUE] = socket[s]
      BY <1>0, <2>1 DEF SocketStates
    <2>3. socket' = [socket EXCEPT ![s] = socket[s]]
      BY DEF SocketTypes
    <2> QED
      BY <2>2, <2>3 DEF SetSocket
  <1>2. CASE SubscribeSocket(s)
    <2>1. reader[s].at = "subscribing" /\ Busy(s) /\ r \in Runs /\ UNCHANGED frames /\ LastFrame(s).kind = "ack"
          /\ run[r].turn # "none"
      BY <1>0, <1>2 DEF SubscribeSocket, Busy, CursorInv, SocketLink, WebConstants
    <2>2. CASE run[r].listed
      <3>1. reader' = [reader EXCEPT ![s] = Subscription(r, 0)] /\ UNCHANGED socket
        BY <1>2, <2>2 DEF SubscribeSocket
      <3>2. 0 \in Nat /\ 0 <= Len(log[r])
        BY <2>1 DEF HubTypes
      <3>3. /\ reader' \in [Readers -> ReaderStates] /\ CursorInv(s)'
            /\ reader'[s].at = "reading" /\ reader'[s].run = r
            /\ reader'[s].done => reader'[s].replay # <<>>
        BY <1>0, <2>1, <3>1, <3>2, Subscribed
      <3>4. \A k \in Readers \ {s} : reader'[k] = reader[k]
        BY <3>1 DEF ReaderTypes
      <3> QED
        BY <1>1, <2>1, <3>1, <3>3, <3>4, GoKeeps
    <2>3. CASE ~run[r].listed
      <3>1. End(s) /\ SetSocket(s, [socket[s] EXCEPT !.busy = FALSE])
        BY <1>2, <2>3 DEF SubscribeSocket
      <3> QED
        BY <1>0, <2>1, <3>1, StopKeeps
    <2> QED
      BY <2>2, <2>3
  <1>3. ASSUME NEW id \in Incoming(s),
               LET kind  == KindOf(s, id)
                   stops == kind \in Terminal \/ (kind = "delta" /\ ~socket[s].writer) IN
               /\ Take(s, stops)
               /\ SetSocket(s, [socket[s] EXCEPT !.busy = ~stops])
               /\ IF kind # "status" /\ socket[s].writer
                  THEN Send(s, kind, reader[s].run) ELSE UNCHANGED frames
        PROVE  /\ reader' \in [Readers -> ReaderStates]
               /\ CursorInv(s)' /\ SocketTypes' /\ SocketOK(s)' /\ OnlySocket(s) /\ socket'[s].at = socket[s].at
    <2> DEFINE kind == KindOf(s, id)
    <2>1. Reading(s) /\ Busy(s) /\ r \in Runs /\ kind \in Kinds
      <3>1. Reading(s) /\ r \in Runs /\ id \in Nat /\ 1 <= id /\ id <= Len(log[r]) /\ Len(log[r]) \in Nat
        BY <1>0, IncomingFacts DEF HubTypes
      <3>2. id \in 1 .. Len(log[r])
        BY <3>1
      <3> QED
        BY <3>1, <3>2 DEF HubTypes, KindOf, Busy, Reading
    <2>2. CASE kind \in Terminal \/ (kind = "delta" /\ ~socket[s].writer)
      <3>1. End(s) /\ SetSocket(s, [socket[s] EXCEPT !.busy = FALSE])
        BY <1>3, <2>2 DEF Take
      <3>2. socket[s].writer => kind \in Terminal /\ Send(s, kind, r)
        BY <1>3, <2>2
      <3>3. ~socket[s].writer => UNCHANGED frames /\ socket[s].at # "open"
        BY <1>0, <1>3 DEF SocketLink
      <3> QED
        BY <1>0, <2>1, <3>1, <3>2, <3>3, StopKeeps
    <2>3. CASE ~(kind \in Terminal \/ (kind = "delta" /\ ~socket[s].writer))
      <3>1. Take(s, FALSE) /\ SetSocket(s, [socket[s] EXCEPT !.busy = TRUE]) /\ kind \notin Terminal
        BY <1>3, <2>3 DEF Take
      <3>2. UNCHANGED frames \/ Send(s, "delta", r)
        BY <1>3, <2>1, <2>3
      <3>3. /\ reader' \in [Readers -> ReaderStates] /\ CursorInv(s)'
            /\ reader'[s].at = "reading" /\ reader'[s].run = r
            /\ ~(reader'[s].done /\ reader'[s].replay = <<>>)
        BY <1>0, <3>1, Taken
      <3>4. \A k \in Readers \ {s} : reader'[k] = reader[k]
        BY <3>1 DEF Take, ReaderTypes
      <3> QED
        BY <2>1, <3>1, <3>2, <3>3, <3>4, GoKeeps
    <2> QED
      BY <2>2, <2>3
  <1>4. ASSUME NothingLeft(s)
        PROVE  FALSE
    <2>1. Reading(s) /\ reader[s].done /\ reader[s].replay = <<>>
      BY <1>0, <1>4, NothingLeftFacts
    <2> QED
      BY <1>0, <2>1 DEF SocketLink
  <1>5. CASE Lag(s)
    <2>1. /\ reader' \in [Readers -> ReaderStates] /\ CursorInv(s)'
          /\ reader'[s].at = "reading" /\ reader'[s].run = r /\ r \in Runs /\ ~reader'[s].done
      BY <1>0, <1>5, Lagged
    <2>2. /\ Busy(s) /\ UNCHANGED <<socket, frames>>
          /\ \A k \in Readers \ {s} : reader'[k] = reader[k]
      BY <1>5 DEF Lag, Reading, Busy, ReaderTypes
    <2> QED
      BY <1>1, <2>1, <2>2, GoKeeps
  <1> QED
    BY <1>2, <1>3, <1>4, <1>5 DEF SocketStep, ReadSocket

-----------------------------------------------------------------------------
(* Places.                                                                 *)

LEMMA PlacedFinite == WebConstants => IsFiniteSet(Placed) /\ Cardinality(Placed) \in Nat
  <1> SUFFICES ASSUME WebConstants PROVE IsFiniteSet(Placed)
    BY FS_CardinalityType
  <1> QED
    BY FS_Subset DEF WebConstants, Placed

LEMMA PlacesStill ==
  ASSUME WebConstants, active \in Nat, PlacesAreCounted, active' = active, Placed' \subseteq Placed
  PROVE  PlacesAreCounted' /\ active' \in Nat
  <1>1. IsFiniteSet(Placed) /\ Cardinality(Placed) \in Nat
    BY PlacedFinite
  <1>2. IsFiniteSet(Placed') /\ Cardinality(Placed') <= Cardinality(Placed) /\ Cardinality(Placed') \in Nat
    BY <1>1, FS_Subset, FS_CardinalityType
  <1> QED
    BY <1>1, <1>2 DEF PlacesAreCounted, WebConstants

LEMMA PlaceTaken ==
  ASSUME WebConstants, active \in Nat, SocketTypes, PlacesAreCounted, NEW s \in Sockets, Upgrade(s)
  PROVE  PlacesAreCounted' /\ active' \in Nat
  <1>1. IsFiniteSet(Placed) /\ Cardinality(Placed) \in Nat /\ MaxSockets \in Nat
    BY PlacedFinite DEF WebConstants
  <1>2. active < MaxSockets /\ active' = active + 1
    BY DEF Upgrade
  <1>3. Placed' \subseteq Placed \cup {s}
    BY DEF Upgrade, SetSocket, SocketTypes, Placed
  <1>4. IsFiniteSet(Placed \cup {s}) /\ Cardinality(Placed \cup {s}) <= Cardinality(Placed) + 1
        /\ Cardinality(Placed \cup {s}) \in Nat
    <2>1. IsFiniteSet(Placed \cup {s})
          /\ Cardinality(Placed \cup {s}) = IF s \in Placed THEN Cardinality(Placed) ELSE Cardinality(Placed) + 1
      BY <1>1, FS_AddElement
    <2>2. CASE s \in Placed
      BY <1>1, <2>1, <2>2
    <2>3. CASE s \notin Placed
      BY <1>1, <2>1, <2>3
    <2> QED
      BY <2>2, <2>3
  <1>5. Cardinality(Placed') \in Nat /\ Cardinality(Placed') <= Cardinality(Placed \cup {s})
    BY <1>3, <1>4, FS_Subset, FS_CardinalityType
  <1> QED
    BY <1>1, <1>2, <1>4, <1>5 DEF PlacesAreCounted

LEMMA PlaceReleased ==
  ASSUME WebConstants, active \in Nat, SocketTypes, PlacesAreCounted, NEW s \in Sockets, ReleaseSocket(s)
  PROVE  PlacesAreCounted' /\ active' \in Nat
  <1>1. IsFiniteSet(Placed) /\ Cardinality(Placed) \in Nat /\ MaxSockets \in Nat
    BY PlacedFinite DEF WebConstants
  <1>2. s \in Placed /\ active' = active - 1
    BY DEF ReleaseSocket, Placed
  <1>3. Placed' \subseteq Placed \ {s}
    BY DEF ReleaseSocket, SetSocket, SocketTypes, SocketStates, Placed
  <1>4. IsFiniteSet(Placed \ {s}) /\ Cardinality(Placed \ {s}) = Cardinality(Placed) - 1
        /\ Cardinality(Placed \ {s}) \in Nat
    BY <1>1, <1>2, FS_RemoveElement, FS_CardinalityType
  <1>5. Cardinality(Placed') \in Nat /\ Cardinality(Placed') <= Cardinality(Placed \ {s})
    BY <1>3, <1>4, FS_Subset, FS_CardinalityType
  <1> QED
    BY <1>1, <1>2, <1>4, <1>5 DEF PlacesAreCounted
-----------------------------------------------------------------------------
(* The invariant.                                                          *)

LEMMA Types ==
  TypeOK <=> /\ HubTypes /\ ReaderTypes /\ SocketTypes
             /\ drops \in [Pages -> 0 .. MaxDrops] /\ active \in Nat
  BY DEF TypeOK, HubTypes, RunStates, ReaderTypes, ReaderStates, SocketTypes, SocketStates, Frames

(* Whoever did nothing keeps what holds of it while the runs go on.        *)
LEMMA Close ==
  ASSUME WebConstants, IInv, HubTypes', LogShape', Grows, ReaderTypes', SocketTypes',
         \A k \in Readers : reader'[k] = reader[k] \/ CursorInv(k)',
         \A p \in Pages : (reader'[p] = reader[p] /\ seen'[p] = seen[p]) \/ PageOK(p)',
         \A s \in Sockets :
           \/ reader'[s] = reader[s] /\ socket'[s] = socket[s] /\ frames'[s] = frames[s]
           \/ SocketOK(s)'
  PROVE  LogShape' /\ Cursors' /\ PageInv' /\ SocketInv' /\ RunsDoNotMix'
  <1>1. HubTypes /\ ReaderTypes /\ SocketTypes /\ LogShape
    BY Types DEF IInv
  <1>2. Cursors'
    <2> SUFFICES ASSUME NEW k \in Readers PROVE CursorInv(k)'
      BY DEF Cursors
    <2> QED
      BY <1>1, StillReader DEF IInv, Cursors
  <1>3. PageInv'
    <2> SUFFICES ASSUME NEW p \in Pages PROVE PageOK(p)'
      BY DEF PageInv
    <2>1. PageOK(p) /\ CursorInv(p)
      BY DEF IInv, PageInv, Cursors
    <2> QED
      BY <1>1, <2>1, StillPage
  <1>4. ASSUME NEW s \in Sockets PROVE SocketLink(s)' /\ FramesOK(s)'
    <2>1. SocketLink(s) /\ FramesOK(s)
      BY <1>1, FramesFacts DEF IInv, SocketInv
    <2>2. CASE SocketOK(s)'
      BY <2>2 DEF SocketOK
    <2>3. CASE reader'[s] = reader[s] /\ socket'[s] = socket[s] /\ frames'[s] = frames[s]
      <3>1. Busy(s)' = Busy(s) /\ LastFrame(s)' = LastFrame(s) /\ Reading(s)' = Reading(s)
        BY <2>3 DEF Busy, LastFrame, Reading
      <3> QED
        BY <2>1, <2>3, <3>1 DEF SocketLink, FramesOK
    <2> QED
      BY <2>2, <2>3
  <1>5. SocketInv'
    BY <1>4 DEF SocketInv
  <1>6. RunsDoNotMix'
    <2>1. (RunsDoNotMix <=> \A s \in Sockets : FramesOK(s))'
      BY FramesFacts, PTL
    <2> QED
      BY <1>4, <2>1
  <1> QED
    BY <1>2, <1>3, <1>5, <1>6

LEMMA InitHolds == WebConstants /\ Init => IInv
  <1> SUFFICES ASSUME WebConstants, Init PROVE IInv
    OBVIOUS
  <1>1. TypeOK
    BY TypeInit
  <1>2. /\ \A k \in Readers : reader[k] = Off
        /\ \A s \in Sockets : socket[s] = Fresh /\ frames[s] = <<>>
        /\ \A p \in Pages : seen[p] = <<>>
        /\ \A r \in Runs : log[r] = <<>> /\ run[r].turn = "none" /\ ~run[r].listed
    BY DEF Init
  <1>3. Off.at = "off" /\ Off.run = NoRun /\ Fresh.at = "new" /\ Fresh.busy = FALSE /\ Fresh.writer = TRUE
    BY DEF Off, Fresh
  <1>4. Len(<<>>) = 0 /\ \A i \in 1 .. Len(<<>>) : FALSE
    OBVIOUS
  <1>5. LogShape
    BY <1>2, <1>4 DEF LogShape
  <1>6. Cursors
    BY <1>2, <1>3 DEF Cursors, CursorInv
  <1>7. PageInv
    BY <1>2, <1>3, <1>4 DEF PageInv, PageOK, SeenInOrder, SeenWithoutGaps, EndIsSeen, Reading
  <1>8. SocketInv
    BY <1>2, <1>3 DEF SocketInv, SocketLink, Busy, Reading
  <1>9. RunsDoNotMix
    <2>1. SocketTypes
      BY <1>1, Types
    <2> QED
      BY <1>2, <1>4, <2>1, FramesFacts DEF FramesOK
  <1>10. PlacesAreCounted
    <2>1. Placed = {}
      BY <1>2, <1>3 DEF Placed
    <2>2. Cardinality({}) = 0 /\ active = 0
      BY FS_EmptySet DEF Init
    <2> QED
      BY <2>1, <2>2 DEF PlacesAreCounted, WebConstants
  <1> QED
    BY <1>1, <1>5, <1>6, <1>7, <1>8, <1>9, <1>10 DEF IInv

LEMMA StepHolds == WebConstants /\ IInv /\ [Next]_vars => IInv'
  <1> SUFFICES ASSUME WebConstants, IInv, [Next]_vars PROVE IInv'
    OBVIOUS
  <1>1. /\ HubTypes /\ ReaderTypes /\ SocketTypes /\ drops \in [Pages -> 0 .. MaxDrops] /\ active \in Nat
        /\ LogShape /\ PlacesAreCounted
        /\ \A k \in Readers : CursorInv(k)
        /\ \A p \in Pages : PageOK(p)
    BY Types DEF IInv, Cursors, PageInv
  <1>2. \A s \in Sockets : SocketOK(s)
    BY <1>1, FramesFacts DEF IInv, SocketInv, SocketOK
  <1>3. Pages \cap Sockets = {}
    BY DEF WebConstants
  <1>4. (TypeOK <=> /\ HubTypes /\ ReaderTypes /\ SocketTypes
                    /\ drops \in [Pages -> 0 .. MaxDrops] /\ active \in Nat)'
    BY Types, PTL
  (* A step of a run, or of nobody: readers and sockets are untouched.     *)
  <1>5. ASSUME HubTypes', LogShape', Grows, UNCHANGED <<reader, pages, gateway>>
        PROVE  IInv'
    <2>1. ReaderTypes' /\ SocketTypes'
      BY <1>1, <1>5 DEF ReaderTypes, SocketTypes
    <2>2. Cursors' /\ PageInv' /\ SocketInv' /\ RunsDoNotMix'
      BY <1>5, <2>1, Close
    <2>3. PlacesAreCounted' /\ active' \in Nat
      BY <1>1, <1>5 DEF PlacesAreCounted, Placed
    <2> QED
      BY <1>1, <1>4, <1>5, <2>1, <2>2, <2>3 DEF IInv
  <1>6. ASSUME NEW r \in Runs, SendOverHttp(r) \/ RunStep(r) \/ RemoveRun(r)
        PROVE  IInv'
    <2>1. UNCHANGED <<reader, pages, gateway>>
      BY <1>6 DEF SendOverHttp, RunStep, TurnEvent, EndTurn, RemoveRun
    <2>2. CASE SendOverHttp(r)
      BY <1>1, <1>5, <2>1, <2>2, StartGrows DEF SendOverHttp
    <2>3. CASE RunStep(r)
      BY <1>1, <1>5, <2>1, <2>3, TurnGrows DEF RunStep
    <2>4. CASE RemoveRun(r)
      BY <1>1, <1>5, <2>1, <2>4, QuietGrows DEF RemoveRun
    <2> QED
      BY <1>6, <2>2, <2>3, <2>4
  <1>7. UNCHANGED hub => HubTypes' /\ LogShape' /\ Grows
    BY <1>1, QuietGrows
  <1>8. ASSUME NEW p \in Pages, PageStep(p) \/ DropStream(p) \/ \E r \in Runs : OpenStream(p, r)
        PROVE  IInv'
    <2>1. UNCHANGED <<hub, gateway>> /\ drops' \in [Pages -> 0 .. MaxDrops]
      BY <1>1, <1>8 DEF PageStep, ReadStream, Lag, DropStream, OpenStream, WebConstants
    <2>2. ReaderTypes' /\ CursorInv(p)' /\ PageOK(p)' /\ OthersKeep(p)
      BY <1>1, <1>8, OpenKeeps, PageKeeps DEF PageStep
    <2>3. SocketTypes'
      BY <1>1, <2>1 DEF SocketTypes
    <2>4. Cursors' /\ PageInv' /\ SocketInv' /\ RunsDoNotMix'
      BY <1>3, <1>7, <2>1, <2>2, <2>3, Close DEF OthersKeep
    <2>5. PlacesAreCounted' /\ active' \in Nat
      BY <1>1, <2>1 DEF PlacesAreCounted, Placed
    <2> QED
      BY <1>4, <1>7, <2>1, <2>2, <2>3, <2>4, <2>5 DEF IInv
  (* A step of a socket.                                                   *)
  <1>9. ASSUME NEW s \in Sockets, HubTypes', LogShape', Grows, reader' \in [Readers -> ReaderStates],
               UNCHANGED pages, CursorInv(s)', SocketTypes', SocketOK(s)', OnlySocket(s),
               PlacesAreCounted', active' \in Nat
        PROVE  IInv'
    <2>1. ReaderTypes'
      BY <1>1, <1>9 DEF ReaderTypes
    <2>2. Cursors' /\ PageInv' /\ SocketInv' /\ RunsDoNotMix'
      BY <1>3, <1>9, <2>1, Close DEF OnlySocket
    <2> QED
      BY <1>1, <1>4, <1>9, <2>1, <2>2 DEF IInv
  <1>10. ASSUME NEW s \in Sockets,
                \/ Upgrade(s) \/ UpgradeOutcome(s) \/ Connect(s)
                \/ CloseSocket(s) \/ WriterFails(s) \/ ReleaseSocket(s)
         PROVE  IInv'
    <2>1. UNCHANGED <<hub, reader, pages>>
      BY <1>10 DEF Upgrade, UpgradeOutcome, Connect, CloseSocket, WriterFails, ReleaseSocket
    <2>2. SocketTypes' /\ SocketOK(s)' /\ OnlySocket(s)
      BY <1>1, <1>2, <1>10, ConnectionSteps
    <2>3. PlacesAreCounted' /\ active' \in Nat
      <3>1. CASE Upgrade(s)
        BY <1>1, <3>1, PlaceTaken
      <3>2. CASE ReleaseSocket(s)
        BY <1>1, <3>2, PlaceReleased
      <3>3. CASE UpgradeOutcome(s) \/ Connect(s) \/ CloseSocket(s) \/ WriterFails(s)
        <4>1. active' = active
          BY <3>3 DEF UpgradeOutcome, Connect, CloseSocket, WriterFails
        <4>2. Placed' \subseteq Placed
          BY <1>1, <3>3 DEF Placed, UpgradeOutcome, Connect, CloseSocket, WriterFails, SetSocket,
                            SocketTypes, SocketStates
        <4> QED
          BY <1>1, <4>1, <4>2, PlacesStill
      <3> QED
        BY <1>10, <3>1, <3>2, <3>3
    <2>4. reader' \in [Readers -> ReaderStates] /\ CursorInv(s)'
      BY <1>1, <2>1 DEF ReaderTypes, CursorInv, CursorOf, Position
    <2> QED
      BY <1>7, <1>9, <2>1, <2>2, <2>3, <2>4
  <1>11. ASSUME NEW s \in Sockets, SocketStep(s) \/ \E r \in Runs : ChatSend(s, r)
         PROVE  IInv'
    <2>1. UNCHANGED <<pages, active>> /\ (SocketStep(s) => UNCHANGED hub)
      BY <1>11 DEF SocketStep, SubscribeSocket, ReadSocket, Lag, ChatSend
    <2>2. /\ reader' \in [Readers -> ReaderStates] /\ HubTypes' /\ LogShape' /\ Grows
          /\ CursorInv(s)' /\ SocketTypes' /\ SocketOK(s)' /\ OnlySocket(s) /\ socket'[s].at = socket[s].at
      <3>1. CASE SocketStep(s)
        BY <1>1, <1>2, <1>7, <2>1, <3>1, SocketStepKeeps
      <3>2. ASSUME NEW r \in Runs, ChatSend(s, r)
            PROVE  /\ reader' \in [Readers -> ReaderStates] /\ HubTypes' /\ LogShape' /\ Grows
                   /\ CursorInv(s)' /\ SocketTypes' /\ SocketOK(s)' /\ OnlySocket(s) /\ socket'[s].at = socket[s].at
        BY <1>1, <1>2, <3>2, ChatSendKeeps
      <3> QED
        BY <1>11, <3>1, <3>2
    <2>3. Placed' \subseteq Placed
      BY <2>2 DEF Placed, OnlySocket
    <2>4. PlacesAreCounted' /\ active' \in Nat
      BY <1>1, <2>1, <2>3, PlacesStill
    <2> QED
      BY <1>9, <2>1, <2>2, <2>4
  <1>12. CASE UNCHANGED vars
    BY <1>5, <1>7, <1>12 DEF vars
  <1> QED
    BY <1>6, <1>8, <1>10, <1>11, <1>12 DEF Next
-----------------------------------------------------------------------------
(* Every reachable state satisfies the invariant.                          *)
THEOREM Invariance == Spec => []IInv
  <1>1. Init => IInv
    BY WebConstants, InitHolds
  <1>2. IInv /\ [Next]_vars => IInv'
    BY WebConstants, StepHolds
  <1> QED
    BY <1>1, <1>2, PTL DEF Spec

(* The hub, its readers and the sockets stay in their types.               *)
THEOREM TypeCorrect == Spec => []TypeOK
  <1>1. IInv => TypeOK
    BY DEF IInv
  <1> QED
    BY <1>1, Invariance, PTL

(* However often a page loses its stream and comes back, it is sent no     *)
(* event of its run twice or out of order, and misses none as long as the  *)
(* history and the channel hold the run: api_stream, subscribe_with_replay *)
THEOREM PagesSeeTheirRun == Spec => []PageSeesInOrder
  <1>1. IInv => PageSeesInOrder
    <2> SUFFICES ASSUME IInv, NEW p \in Pages
                 PROVE  LET r == reader[p].run IN
                          IF r # NoRun /\ Fits(r) THEN seen[p] = [i \in 1 .. Len(seen[p]) |-> i]
                          ELSE \A i, j \in DOMAIN seen[p] : i < j => seen[p][i] < seen[p][j]
      BY DEF PageSeesInOrder, Fits
    <2> DEFINE n == Len(seen[p])
    <2>1. seen[p] \in Seq(Nat) /\ SeenInOrder(p) /\ SeenWithoutGaps(p)
      BY Types DEF IInv, ReaderTypes, PageInv, PageOK
    <2>2. DOMAIN seen[p] = 1 .. n
      BY <2>1
    <2>3. \A i, j \in DOMAIN seen[p] : i < j => seen[p][i] < seen[p][j]
      BY <2>1, <2>2 DEF SeenInOrder
    <2>4. ASSUME reader[p].run # NoRun, Fits(reader[p].run)
          PROVE  seen[p] = [i \in 1 .. n |-> i]
      <3>1. \A i \in 1 .. n : seen[p][i] = i
        BY <2>1, <2>4 DEF SeenWithoutGaps
      <3>2. seen[p] = [i \in 1 .. n |-> seen[p][i]]
        BY <2>1
      <3> QED
        BY <3>1, <3>2
    <2> QED
      BY <2>3, <2>4
  <1> QED
    BY <1>1, Invariance, PTL

(* A stream that the server ends has shown how the run ended.              *)
THEOREM EndsAreTold == Spec => []StreamEndsWithTheEnd
  <1>1. IInv => StreamEndsWithTheEnd
    BY DEF IInv, PageInv, PageOK, EndIsSeen, StreamEndsWithTheEnd
  <1> QED
    BY <1>1, Invariance, PTL

(* On a socket the frames of two runs never mix: handle_chat_send takes    *)
(* the connection's one permit, the run's task gives it back.              *)
THEOREM RunsStayApart == Spec => []RunsDoNotMix
  <1>1. IInv => RunsDoNotMix
    BY DEF IInv
  <1> QED
    BY <1>1, Invariance, PTL

(* The atomic counter of ws_handler keeps the number of sockets within     *)
(* MAX_WS_CONNECTIONS.                                                     *)
THEOREM SocketsStayBounded == Spec => []SocketsAreBounded
  <1>1. IInv => SocketsAreBounded
    <2> SUFFICES ASSUME IInv PROVE Cardinality(Placed) <= MaxSockets
      BY DEF SocketsAreBounded, Placed
    <2>1. Cardinality(Placed) \in Nat /\ active \in Nat /\ MaxSockets \in Nat
      BY WebConstants, PlacedFinite, Types DEF IInv, WebConstants
    <2> QED
      BY <2>1 DEF IInv, PlacesAreCounted
  <1> QED
    BY <1>1, Invariance, PTL

(* Both together.                                                          *)
THEOREM SocketsAreSafe == Spec => []SocketsHold
  <1>1. RunsDoNotMix /\ SocketsAreBounded => SocketsHold
    BY DEF SocketsHold
  <1> QED
    BY <1>1, RunsStayApart, SocketsStayBounded, PTL
-------------------------------------------------------------------------------
(***************************************************************************)
(* Sessions and their keys.                                                *)
(***************************************************************************)
Rows == [channel : Surfaces, external : SessionKeys, title : SessionKeys]

(* A row is the only one of its name; what has a title is named after it,  *)
(* and what has messages is named with its channel in front.               *)
RequestInv ==
  /\ chats \in Seq(Rows) /\ said \in Seq(Nat) /\ Len(said) = Len(chats)
  /\ \A i, j \in DOMAIN chats :
       chats[i].channel = chats[j].channel /\ chats[i].external = chats[j].external => i = j
  /\ \A id \in DOMAIN chats :
       /\ chats[id].title # NoTitle => chats[id].external = With(chats[id].channel, chats[id].title)
       /\ said[id] > 0 =>
            chats[id].external.prefix # <<>> /\ Head(chats[id].external.prefix) = chats[id].channel
------------------------------------------------------------------------------
LEMMA TextIsItsParts ==
  ASSUME NEW t \in SessionKeys, NEW u \in SessionKeys, t.prefix = u.prefix, t.chat = u.chat, t.name = u.name
  PROVE  t = u
  BY DEF SessionKeys

LEMMA WithIsText ==
  ASSUME NEW channel \in Surfaces, NEW t \in SessionKeys
  PROVE  /\ With(channel, t) \in SessionKeys /\ With(channel, t).prefix = <<channel>> \o t.prefix
         /\ With(channel, t).prefix # <<>>
         /\ Head(With(channel, t).prefix) = channel /\ Tail(With(channel, t).prefix) = t.prefix
         /\ With(channel, t).chat = t.chat /\ With(channel, t).name = t.name
  <1> DEFINE p == <<channel>> \o t.prefix
  <1>0. t.prefix \in Seq(Surfaces) /\ <<channel>> \in Seq(Surfaces)
    BY DEF SessionKeys
  <1>1. p \in Seq(Surfaces) /\ p # <<>> /\ Head(p) = channel
    BY <1>0
  <1>2. Tail(p) = t.prefix
    BY <1>0
  <1>3. With(channel, t) = [t EXCEPT !.prefix = p]
    BY DEF With
  <1> HIDE DEF p
  <1>4. With(channel, t) \in SessionKeys /\ With(channel, t).prefix = p /\ With(channel, t).chat = t.chat /\ With(channel, t).name = t.name
    BY <1>1, <1>3 DEF SessionKeys
  <1> QED
    BY <1>1, <1>2, <1>4 DEF p

LEMMA StripIsText ==
  ASSUME NEW channel \in Surfaces, NEW t \in SessionKeys
  PROVE  /\ Strip(channel, t) \in SessionKeys
         /\ t.prefix = <<>> => Strip(channel, t) = t
         /\ t.prefix # <<>> /\ Head(t.prefix) = channel => With(channel, Strip(channel, t)) = t
  <1>0. t.prefix \in Seq(Surfaces)
    BY DEF SessionKeys
  <1>1. CASE t.prefix # <<>> /\ Head(t.prefix) = channel
    <2>1. Strip(channel, t) = [t EXCEPT !.prefix = Tail(t.prefix)]
      BY <1>1 DEF Strip
    <2>2. Tail(t.prefix) \in Seq(Surfaces)
      BY <1>0, <1>1
    <2>3. /\ Strip(channel, t) \in SessionKeys /\ Strip(channel, t).prefix = Tail(t.prefix)
          /\ Strip(channel, t).chat = t.chat /\ Strip(channel, t).name = t.name
      BY <2>1, <2>2 DEF SessionKeys
    <2>4. <<channel>> \o Tail(t.prefix) = t.prefix
      BY <1>0, <1>1
    <2>5. With(channel, Strip(channel, t)) = t
      <3>1. PICK u \in SessionKeys : u = Strip(channel, t)
        BY <2>3
      <3>2. /\ With(channel, u) \in SessionKeys /\ With(channel, u).prefix = <<channel>> \o u.prefix
            /\ With(channel, u).chat = u.chat /\ With(channel, u).name = u.name
        BY WithIsText
      <3> QED
        BY <2>3, <2>4, <3>1, <3>2, TextIsItsParts
    <2> QED
      BY <1>1, <2>3, <2>5
  <1>2. CASE ~(t.prefix # <<>> /\ Head(t.prefix) = channel)
    BY <1>2 DEF Strip
  <1> QED
    BY <1>1, <1>2

LEMMA StripUndoesWith ==
  ASSUME NEW channel \in Surfaces, NEW t \in SessionKeys
  PROVE  Strip(channel, With(channel, t)) = t
  <1> DEFINE w == With(channel, t)
  <1>1. /\ w \in SessionKeys /\ w.prefix # <<>> /\ Head(w.prefix) = channel /\ Tail(w.prefix) = t.prefix
        /\ w.chat = t.chat /\ w.name = t.name
    BY WithIsText
  <1> HIDE DEF w
  <1>2. Strip(channel, w) = [w EXCEPT !.prefix = Tail(w.prefix)]
    BY <1>1 DEF Strip
  <1>3. t.prefix \in Seq(Surfaces)
    BY DEF SessionKeys
  <1>4. /\ Strip(channel, w) \in SessionKeys /\ Strip(channel, w).prefix = t.prefix
        /\ Strip(channel, w).chat = t.chat /\ Strip(channel, w).name = t.name
    BY <1>1, <1>2, <1>3 DEF SessionKeys
  <1> QED
    BY <1>4, TextIsItsParts DEF w

LEMMA Literals ==
  /\ Empty \in SessionKeys /\ Empty.prefix = <<>> /\ Empty.chat = 0 /\ Main \in SessionKeys
  /\ \A id \in Nat : ChatKey(id) \in SessionKeys /\ ChatKey(id).prefix = <<>> /\ ChatKey(id).chat = id
  <1>1. <<>> \in Seq(Surfaces)
    OBVIOUS
  <1>2. Empty \in SessionKeys /\ Empty.prefix = <<>> /\ Empty.chat = 0
    <2>1. "" \in KeyNames
      BY DEF KeyNames
    <2> QED
      BY <1>1, <2>1 DEF Empty, SessionKeys
  <1>3. Main \in SessionKeys
    <2>1. "main" \in KeyNames
      BY DEF KeyNames
    <2> QED
      BY <1>2, <2>1 DEF Main, Named, SessionKeys
  <1>4. ASSUME NEW id \in Nat
        PROVE  ChatKey(id) \in SessionKeys /\ ChatKey(id).prefix = <<>> /\ ChatKey(id).chat = id
    <2>1. ChatKey(id) = [Empty EXCEPT !.chat = id]
      BY DEF ChatKey
    <2> QED
      BY <1>2, <2>1 DEF SessionKeys
  <1> QED
    BY <1>2, <1>3, <1>4

LEMMA WebKeyIsText ==
  ASSUME NEW raw \in SessionKeys
  PROVE  /\ WebSessionKey(raw) \in SessionKeys
         /\ raw.prefix = <<>> /\ raw # Empty => WebSessionKey(raw) = raw
  BY Literals, StripIsText DEF WebSessionKey, Surfaces

LEMMA ContextIsKnown ==
  ASSUME chats \in Seq(Rows), NEW key \in SessionKeys
  PROVE  Context(key).channel \in Surfaces /\ Context(key).thread \in SessionKeys
  <1>1. CASE IsChatKey(key) /\ key.chat \in DOMAIN chats
    <2>1. chats[key.chat].channel \in Surfaces /\ chats[key.chat].external \in SessionKeys
      <3>1. chats[key.chat] \in Rows
        BY <1>1
      <3> QED
        BY <3>1 DEF Rows
    <2>2. /\ Context(key).channel = chats[key.chat].channel
          /\ Context(key).thread = Strip(chats[key.chat].channel, chats[key.chat].external)
      BY <1>1 DEF Context
    <2> QED
      BY <2>1, <2>2, StripIsText
  <1>2. CASE ~(IsChatKey(key) /\ key.chat \in DOMAIN chats)
    <2>1. Context(key).channel = "web" /\ Context(key).thread = WebSessionKey(key)
      BY <1>2 DEF Context
    <2> QED
      BY <2>1, WebKeyIsText DEF Surfaces
  <1> QED
    BY <1>1, <1>2

LEMMA ListedKeyIsText ==
  ASSUME chats \in Seq(Rows), NEW id \in DOMAIN chats
  PROVE  ListedKey(id) \in SessionKeys
  <1>1. chats[id].channel \in Surfaces /\ chats[id].external \in SessionKeys /\ chats[id].title \in SessionKeys /\ id \in Nat
    <2>1. chats[id] \in Rows /\ id \in Nat
      OBVIOUS
    <2> QED
      BY <2>1 DEF Rows
  <1>2. LogicalThread(chats[id]) \in SessionKeys
    BY <1>1, StripIsText DEF LogicalThread
  <1> QED
    BY <1>1, <1>2, WebKeyIsText, Literals DEF ListedKey
------------------------------------------------------------------------------
(* A turn and a command at a row.                                          *)
LEMMA TouchKeeps ==
  ASSUME RequestInv, NEW channel \in Surfaces, NEW external \in SessionKeys, NEW title \in SessionKeys, NEW messages \in Nat,
         Touch(channel, external, title, messages),
         title # NoTitle => external = With(channel, title),
         messages > 0 => external.prefix # <<>> /\ Head(external.prefix) = channel
  PROVE  RequestInv'
  <1>0. chats \in Seq(Rows) /\ said \in Seq(Nat) /\ Len(said) = Len(chats) /\ DOMAIN said = DOMAIN chats
    BY DEF RequestInv
  <1>1. CASE ResolveChat(channel, external) = {}
    <2> DEFINE row == [channel |-> channel, external |-> external, title |-> title]
               n == Len(chats) + 1
    <2>1. chats' = Append(chats, row) /\ said' = Append(said, messages)
      BY <1>1 DEF Touch
    <2>2. row \in Rows /\ row.channel = channel /\ row.external = external /\ row.title = title
      BY DEF Rows
    <2> HIDE DEF row
    <2>3. /\ chats' \in Seq(Rows) /\ said' \in Seq(Nat) /\ Len(said') = Len(chats')
          /\ DOMAIN chats' = DOMAIN chats \cup {n} /\ chats'[n] = row /\ said'[n] = messages
          /\ \A i \in DOMAIN chats : chats'[i] = chats[i] /\ said'[i] = said[i]
      BY <1>0, <2>1, <2>2
    <2>4. \A i \in DOMAIN chats : ~(chats[i].channel = channel /\ chats[i].external = external)
      BY <1>1 DEF ResolveChat
    <2>5. \A i, j \in DOMAIN chats' :
            chats'[i].channel = chats'[j].channel /\ chats'[i].external = chats'[j].external => i = j
      BY <2>2, <2>3, <2>4 DEF RequestInv
    <2>6. \A id \in DOMAIN chats' :
            /\ chats'[id].title # NoTitle => chats'[id].external = With(chats'[id].channel, chats'[id].title)
            /\ said'[id] > 0 => chats'[id].external.prefix # <<>> /\ Head(chats'[id].external.prefix) = chats'[id].channel
      BY <2>2, <2>3 DEF RequestInv
    <2> QED
      BY <2>3, <2>5, <2>6 DEF RequestInv, NoTitle, Empty, With
  <1>2. CASE ResolveChat(channel, external) # {}
    <2>1. PICK id \in ResolveChat(channel, external) :
            /\ chats' = [chats EXCEPT ![id].title = IF title = NoTitle THEN @ ELSE title]
            /\ said' = [said EXCEPT ![id] = @ + messages]
      BY <1>2 DEF Touch
    <2>2. id \in DOMAIN chats /\ chats[id].channel = channel /\ chats[id].external = external /\ chats[id] \in Rows
      BY <2>1 DEF ResolveChat, RequestInv
    <2>3. PICK row \in Rows : row = chats[id]
      BY <2>2
    <2> DEFINE new == [row EXCEPT !.title = IF title = NoTitle THEN row.title ELSE title]
    <2>4. /\ new \in Rows /\ new.channel = channel /\ new.external = external
          /\ new.title = (IF title = NoTitle THEN row.title ELSE title)
      BY <2>2, <2>3 DEF Rows
    <2>5. chats' = [chats EXCEPT ![id] = new]
      BY <2>1, <2>3
    <2> HIDE DEF new
    <2>6. /\ chats' \in Seq(Rows) /\ Len(chats') = Len(chats) /\ DOMAIN chats' = DOMAIN chats /\ chats'[id] = new
          /\ \A i \in DOMAIN chats : i # id => chats'[i] = chats[i]
      BY <1>0, <2>2, <2>4, <2>5
    <2>7. /\ said' \in Seq(Nat) /\ Len(said') = Len(said) /\ said'[id] = said[id] + messages
          /\ \A i \in DOMAIN chats : i # id => said'[i] = said[i]
      BY <1>0, <2>1, <2>2
    <2>8. \A i, j \in DOMAIN chats' :
            chats'[i].channel = chats'[j].channel /\ chats'[i].external = chats'[j].external => i = j
      BY <2>2, <2>4, <2>6 DEF RequestInv
    <2>9. ASSUME NEW i \in DOMAIN chats'
          PROVE  /\ chats'[i].title # NoTitle => chats'[i].external = With(chats'[i].channel, chats'[i].title)
                 /\ said'[i] > 0 => chats'[i].external.prefix # <<>> /\ Head(chats'[i].external.prefix) = chats'[i].channel
      <3>1. CASE i = id
        <4>1. said[id] \in Nat
          BY <1>0, <2>2
        <4>2. said'[id] > 0 => said[id] > 0 \/ messages > 0
          BY <2>7, <4>1
        <4> QED
          BY <2>2, <2>3, <2>4, <2>6, <3>1, <4>2 DEF RequestInv
      <3>2. CASE i # id
        BY <2>6, <2>7, <3>2 DEF RequestInv
      <3> QED
        BY <3>1, <3>2
    <2> QED
      BY <1>0, <2>6, <2>7, <2>8, <2>9 DEF RequestInv, NoTitle, Empty, With
  <1> QED
    BY <1>1, <1>2

LEMMA TurnKeeps ==
  ASSUME RequestInv, NEW c, c.channel \in Surfaces, c.thread \in SessionKeys, Turn(c)
  PROVE  RequestInv'
  <1> DEFINE external == With(c.channel, c.thread)
  <1>1. external \in SessionKeys /\ external.prefix # <<>> /\ Head(external.prefix) = c.channel
    BY WithIsText
  <1>2. Touch(c.channel, external, c.thread, 1)
    BY DEF Turn
  <1>3. c.thread # NoTitle => external = With(c.channel, c.thread)
    OBVIOUS
  <1> HIDE DEF external
  <1> QED
    BY <1>1, <1>2, <1>3, TouchKeeps

LEMMA CommandKeeps ==
  ASSUME RequestInv, NEW channel \in Surfaces, NEW thread \in SessionKeys, Touch(channel, thread, NoTitle, 0)
  PROVE  RequestInv'
  BY TouchKeeps, Literals DEF NoTitle

LEMMA RequestStepKeeps == RequestInv /\ [RequestNext]_requestVars => RequestInv'
  <1> SUFFICES ASSUME RequestInv, [RequestNext]_requestVars PROVE RequestInv'
    OBVIOUS
  <1>0. chats \in Seq(Rows) /\ "discord" \in Surfaces
    BY DEF RequestInv, Surfaces
  <1>1. ASSUME NEW key \in SentKeys \cup {ListedKey(id) : id \in DOMAIN chats}, SendMessage(key) \/ SendCommand(key)
        PROVE  RequestInv'
    <2>1. key \in SessionKeys
      BY <1>0, ListedKeyIsText, RequestConstants
    <2>2. Context(key).channel \in Surfaces /\ Context(key).thread \in SessionKeys
      BY <1>0, <2>1, ContextIsKnown
    <2>3. CASE SendMessage(key)
      BY <2>2, <2>3, TurnKeeps DEF SendMessage
    <2>4. CASE SendCommand(key)
      BY <2>2, <2>4, CommandKeeps DEF SendCommand
    <2> QED
      BY <1>1, <2>3, <2>4
  <1>2. ASSUME NEW thread \in Threads, ChannelTurn(thread) \/ ChannelCommand(thread)
        PROVE  RequestInv'
    <2>1. thread \in SessionKeys
      BY RequestConstants
    <2>2. CASE ChannelTurn(thread)
      <3>1. PICK c : c = [channel |-> "discord", thread |-> thread]
        OBVIOUS
      <3>2. c.channel = "discord" /\ c.thread = thread /\ Turn(c)
        BY <2>2, <3>1 DEF ChannelTurn
      <3> QED
        BY <1>0, <2>1, <3>2, TurnKeeps
    <2>3. CASE ChannelCommand(thread)
      BY <1>0, <2>1, <2>3, CommandKeeps DEF ChannelCommand
    <2> QED
      BY <1>2, <2>2, <2>3
  <1>3. CASE UNCHANGED requestVars
    BY <1>3 DEF requestVars, RequestInv, NoTitle, Empty, With
  <1> QED
    BY <1>1, <1>2, <1>3 DEF RequestNext

(* A session that is listed opens: its key shows its own messages, and     *)
(* what is sent with it is stored with them.                               *)
LEMMA ListedIsFound ==
  ASSUME RequestInv, NEW id \in DOMAIN chats, said[id] > 0,
         LogicalThread(chats[id]).prefix = <<>>, LogicalThread(chats[id]).chat = 0
  PROVE  LET key == ListedKey(id)
             c   == Context(key) IN
         HistoryOf(key) = {id} /\ ResolveChat(c.channel, With(c.channel, c.thread)) = {id}
  <1> DEFINE row == chats[id]
             t == LogicalThread(row)
  <1>1. /\ row.channel \in Surfaces /\ row.external \in SessionKeys /\ row.title \in SessionKeys /\ id \in Nat /\ id > 0
        /\ row.external.prefix # <<>> /\ Head(row.external.prefix) = row.channel
    <2>1. chats[id] \in Rows /\ id \in Nat /\ id > 0
      BY DEF RequestInv
    <2> QED
      BY <2>1 DEF RequestInv, Rows
  <1>2. With(row.channel, Strip(row.channel, row.external)) = row.external
    BY <1>1, StripIsText
  <1>3. row.title # NoTitle => row.title = Strip(row.channel, row.external)
    <2>1. row.title # NoTitle => row.external = With(row.channel, row.title)
      BY DEF RequestInv
    <2>2. Strip(row.channel, With(row.channel, row.title)) = row.title
      BY <1>1, StripUndoesWith
    <2> QED
      BY <2>1, <2>2
  <1>4. t = Strip(row.channel, row.external) /\ t # Empty /\ t \in SessionKeys
    <2> HIDE DEF row
    <2>0. Strip(row.channel, row.external) \in SessionKeys
      BY <1>1, StripIsText
    <2>1. CASE row.title # NoTitle
      BY <1>3, <2>0, <2>1 DEF LogicalThread, NoTitle
    <2>2. CASE row.title = NoTitle /\ Strip(row.channel, row.external) = Empty
      <3>1. t = row.external
        BY <2>2 DEF LogicalThread
      <3> QED
        BY <1>1, <3>1 DEF row
    <2>3. CASE row.title = NoTitle /\ Strip(row.channel, row.external) # Empty
      BY <2>0, <2>3 DEF LogicalThread
    <2> QED
      BY <2>1, <2>2, <2>3
  <1>5. ResolveChat(row.channel, With(row.channel, t)) = {id}
    <2>1. With(row.channel, t) = row.external
      BY <1>2, <1>4
    <2>2. \A i \in DOMAIN chats : chats[i].channel = row.channel /\ chats[i].external = row.external => i = id
      BY DEF RequestInv
    <2> QED
      BY <2>1, <2>2 DEF ResolveChat
  <1>6. t.prefix = <<>> /\ t.chat = 0
    OBVIOUS
  <1> DEFINE key == ListedKey(id)
  <1>7. CASE row.channel = "web"
    <2>1. key = WebSessionKey(t)
      BY <1>7 DEF ListedKey
    <2> HIDE DEF row, t, key
    <2>2. WebSessionKey(t) = t
      BY <1>4, <1>6, WebKeyIsText
    <2>3. key = t /\ ~IsChatKey(t)
      BY <1>6, <2>1, <2>2 DEF IsChatKey
    <2>4. HistoryOf(key) = ResolveChat("web", With("web", t))
      BY <2>2, <2>3 DEF HistoryOf
    <2>5. Context(key).channel = "web" /\ Context(key).thread = t
      BY <2>2, <2>3 DEF Context
    <2>6. HistoryOf(key) = {id} /\ ResolveChat(Context(key).channel, With(Context(key).channel, Context(key).thread)) = {id}
      BY <1>5, <1>7, <2>4, <2>5
    <2> QED
      BY <2>6 DEF key
  <1>8. CASE row.channel # "web"
    <2>1. key = ChatKey(id)
      BY <1>8 DEF ListedKey
    <2> HIDE DEF t, key
    <2>2. IsChatKey(key) /\ key.chat = id
      BY <1>1, <2>1, Literals DEF IsChatKey
    <2>3. HistoryOf(key) = {id}
      BY <2>2 DEF HistoryOf
    <2>4. Context(key).channel = row.channel /\ Context(key).thread = Strip(row.channel, row.external)
      BY <2>2 DEF Context
    <2>5. ResolveChat(Context(key).channel, With(Context(key).channel, Context(key).thread)) = {id}
      BY <1>4, <1>5, <2>4
    <2> QED
      BY <2>3, <2>5 DEF key
  <1> QED
    BY <1>7, <1>8

(* A session with messages opens with the key it is listed with, whichever *)
(* texts clients and channels use as names and in whatever order messages  *)
(* and commands come.                                                      *)
THEOREM SessionsOpen == RequestSpec => []ListedSessionsOpen
  <1>1. RequestInit => RequestInv
    <2> SUFFICES ASSUME RequestInit PROVE RequestInv
      OBVIOUS
    <2>1. chats = <<>> /\ said = <<>> /\ DOMAIN chats = {}
      BY DEF RequestInit
    <2>2. <<>> \in Seq(Rows) /\ <<>> \in Seq(Nat)
      OBVIOUS
    <2> QED
      BY <2>1, <2>2 DEF RequestInv
  <1>2. RequestInv => ListedSessionsOpen
    BY ListedIsFound DEF ListedSessionsOpen
  <1> QED
    BY <1>1, <1>2, RequestStepKeeps, PTL DEF RequestSpec

-------------------------------------------------------------------------------
(* The terminal.                                                           *)

Text == Seq(Typed)
Message == [role: {"user", "assistant"}, text: Text]
Chat ==
  [session: Nat, input: Text, cursor: Nat, history: Seq(Text), index: Nat, draft: Text \cup {NoDraft},
   messages: Seq(Message), pending: Nat, kept: Text \cup {NoDraft}, loaded: Seq(Message)]

TuiTurn == [prompt: Text, end: {"sent", "stored", "ok", "error"}]
Stores == Seq(Seq(Message))

TuiType ==
  /\ sessions \in Stores
  /\ view \in {"browser", "chat", "left"}
  /\ chat \in Chat
  /\ turns \in Seq(TuiTurn)
  /\ sends \in Nat

Places ==
  /\ chat.cursor <= Len(chat.input)
  /\ chat.index <= Len(chat.history)
  /\ chat.pending <= Len(turns)

(* In the history the draft is what was typed when the walk began.         *)
DraftIsKept == chat.index # 0 => chat.draft = chat.kept /\ chat.kept \in Text

(* A turn that runs is the one the chat waits for, the last one.           *)
PendingIsLast ==
  /\ \A t \in DOMAIN turns : Running(turns[t]) => view = "chat" /\ chat.pending = t
  /\ chat.pending # 0 =>
       /\ view = "chat" /\ chat.pending = Len(turns)
       /\ chat.history # <<>> /\ Last(chat.history) = turns[chat.pending].prompt

(* As long as nothing was sent but turns, the last input is the last turn. *)
LastIsRemembered ==
  /\ Len(turns) <= sends
  /\ sends = Len(turns) /\ turns # <<>> /\ chat.history # <<>> =>
       Last(chat.history) = turns[Len(turns)].prompt

Awaits(message) == message.role = "user" /\ ~IsCommand(message.text)
Answered(n, messages) ==
  \A i \in n + 1 .. Len(messages) - 1 :
    Awaits(messages[i]) => messages[i + 1] = [role |-> "assistant", text |-> messages[i].text]

(* What was loaded is the beginning of the screen, all after it that asks  *)
(* is answered, but for the question of the turn that is awaited.          *)
Begins(loaded, messages) ==
  Len(loaded) <= Len(messages) /\ \A i \in 1 .. Len(loaded) : messages[i] = loaded[i]
ScreenIsAnswered ==
  /\ Begins(chat.loaded, chat.messages)
  /\ Answered(Len(chat.loaded), chat.messages)
  /\ chat.pending # 0 =>
       /\ Len(chat.loaded) < Len(chat.messages)
       /\ Last(chat.messages) = [role |-> "user", text |-> turns[chat.pending].prompt]
  /\ chat.pending = 0 /\ Len(chat.loaded) < Len(chat.messages) => ~Awaits(Last(chat.messages))

TuiInv ==
  TuiType /\ Places /\ DraftIsKept /\ PendingIsLast /\ LastIsRemembered /\ ScreenIsAnswered

-------------------------------------------------------------------------------
LEMMA NoDraftIsNoText == TuiConstants => NoDraft \notin Text
  <1> SUFFICES ASSUME TuiConstants, NoDraft \in Text PROVE FALSE
    OBVIOUS
  <1>1. NoDraft[1] \in Typed
    BY ElementOfSeq DEF NoDraft, Text
  <1> QED BY <1>1 DEF NoDraft, TuiConstants

LEMMA OthersAreHeard == TuiConstants => OthersSay \subseteq Seq(Message)
  <1>1. Message = [role : {"user", "assistant"}, text : Seq(Typed)]
    BY DEF Message, Text
  <1> QED BY <1>1 DEF TuiConstants

LEMMA OpenedIsChat ==
  ASSUME NEW s \in Nat, NEW messages \in Seq(Message)
  PROVE  ChatOf(s, messages) \in Chat
  BY DEF ChatOf, Chat, Text

LEMMA BlankIsChat == BlankChat \in Chat
  <1>1. <<>> \in Seq(Message) /\ 0 \in Nat
    OBVIOUS
  <1> QED BY <1>1, OpenedIsChat DEF BlankChat

(* A changed store is a store, also where the session is none of it.       *)
LEMMA StoreChanges ==
  ASSUME NEW stores \in Stores, NEW s, NEW messages, s \in DOMAIN stores => messages \in Seq(Message)
  PROVE  [stores EXCEPT ![s] = messages] \in Stores
  <1>1. DOMAIN stores = 1 .. Len(stores)
    BY LenProperties DEF Stores
  <1>2. CASE s \in DOMAIN stores
    BY <1>1, <1>2, ExceptSeq DEF Stores
  <1>3. CASE s \notin DOMAIN stores
    <2>1. [stores EXCEPT ![s] = messages] = stores
      BY <1>3 DEF Stores
    <2> QED BY <2>1
  <1> QED BY <1>2, <1>3

LEMMA TuiInitHolds == TuiConstants /\ TuiInit => TuiInv
  <1> SUFFICES ASSUME TuiConstants, TuiInit PROVE TuiInv
    OBVIOUS
  <1> USE DEF TuiInit
  <1>1. TuiType
    <2>1. PICK n \in 0 .. MaxListed : sessions \in [1 .. n -> OthersSay]
      OBVIOUS
    <2>2. MaxListed \in Nat /\ n \in Nat
      BY DEF TuiConstants
    <2>3. OthersSay \subseteq Seq(Message)
      BY OthersAreHeard
    <2>4. sessions \in [1 .. n -> Seq(Message)]
      BY <2>1, <2>3
    <2>5. sessions \in Stores
      BY <2>2, <2>4 DEF Stores
    <2> QED BY <2>5, BlankIsChat DEF TuiType
  <1>2. Places /\ DraftIsKept /\ PendingIsLast /\ LastIsRemembered
    BY DEF BlankChat, ChatOf, Places, DraftIsKept, PendingIsLast, LastIsRemembered
  <1>3. ScreenIsAnswered
    BY DEF BlankChat, ChatOf, ScreenIsAnswered, Answered, Begins
  <1> QED BY <1>1, <1>2, <1>3 DEF TuiInv

(* What only edits the line leaves the history, the screen and the turn.   *)
LEMMA EditKeeps ==
  ASSUME TuiInv, NEW next \in Chat, Editing(next),
         next.history = chat.history, next.messages = chat.messages, next.pending = chat.pending,
         next.loaded = chat.loaded,
         next.cursor <= Len(next.input), next.index <= Len(next.history),
         next.index # 0 => next.draft = next.kept /\ next.kept \in Text
  PROVE  TuiInv'
  <1> USE DEF Editing
  <1>1. TuiType'
    BY DEF TuiInv, TuiType
  <1>2. Places'
    BY DEF TuiInv, Places
  <1>3. DraftIsKept'
    BY DEF DraftIsKept
  <1>4. PendingIsLast'
    BY DEF TuiInv, PendingIsLast
  <1>5. LastIsRemembered'
    BY DEF TuiInv, LastIsRemembered
  <1>6. ScreenIsAnswered'
    BY DEF TuiInv, ScreenIsAnswered, Answered
  <1> QED BY <1>1, <1>2, <1>3, <1>4, <1>5, <1>6 DEF TuiInv

LEMMA Inserted ==
  ASSUME NEW S, NEW seq \in Seq(S), NEW c \in S, NEW i \in 0 .. Len(seq)
  PROVE  InsertAt(seq, i + 1, c) \in Seq(S) /\ Len(InsertAt(seq, i + 1, c)) = Len(seq) + 1
  <1> DEFINE left == SubSeq(seq, 1, i)
             right == SubSeq(seq, i + 1, Len(seq))
  <1>1. Len(seq) \in Nat /\ \A j \in 1 .. Len(seq) : seq[j] \in S
    BY LenProperties, ElementOfSeq
  <1>2. left \in Seq(S) /\ Len(left) = i
    BY <1>1, SubSeqProperties, 1 \in Int, i \in Int
  <1>3. right \in Seq(S) /\ Len(right) = Len(seq) - i
    BY <1>1, SubSeqProperties, i + 1 \in Int, Len(seq) \in Int
  <1>4. <<c>> \in Seq(S) /\ Len(<<c>>) = 1
    OBVIOUS
  <1> HIDE DEF left, right
  <1>5. left \o <<c>> \in Seq(S) /\ Len(left \o <<c>>) = i + 1
    BY <1>2, <1>4, ConcatProperties
  <1>6. /\ (left \o <<c>>) \o right \in Seq(S)
        /\ Len((left \o <<c>>) \o right) = Len(left \o <<c>>) + Len(right)
    BY <1>3, <1>5, ConcatProperties
  <1>7. Len((left \o <<c>>) \o right) = Len(seq) + 1
    BY <1>1, <1>3, <1>5, <1>6
  <1>8. (i + 1) - 1 = i
    OBVIOUS
  <1>9. InsertAt(seq, i + 1, c) = (left \o <<c>>) \o right
    BY <1>8, Zenon DEF InsertAt, left, right
  <1> QED BY <1>6, <1>7, <1>9

LEMMA Removed ==
  ASSUME NEW S, NEW seq \in Seq(S), NEW i \in 1 .. Len(seq)
  PROVE  RemoveAt(seq, i) \in Seq(S) /\ Len(RemoveAt(seq, i)) = Len(seq) - 1
  <1> DEFINE left == SubSeq(seq, 1, i - 1)
             right == SubSeq(seq, i + 1, Len(seq))
  <1>1. Len(seq) \in Nat /\ \A j \in 1 .. Len(seq) : seq[j] \in S
    BY LenProperties, ElementOfSeq
  <1>2. left \in Seq(S) /\ Len(left) = i - 1
    BY <1>1, SubSeqProperties, 1 \in Int, i - 1 \in Int
  <1>3. right \in Seq(S) /\ Len(right) = Len(seq) - i
    BY <1>1, SubSeqProperties, i + 1 \in Int, Len(seq) \in Int
  <1> HIDE DEF left, right
  <1>4. left \o right \in Seq(S) /\ Len(left \o right) = Len(left) + Len(right)
    BY <1>2, <1>3, ConcatProperties
  <1>5. RemoveAt(seq, i) = left \o right
    BY DEF RemoveAt, left, right
  <1>6. Len(left) + Len(right) = Len(seq) - 1
    BY <1>1, <1>2, <1>3
  <1> QED BY <1>4, <1>5, <1>6

LEMMA ChatFields ==
  ASSUME TuiInv
  PROVE  /\ chat \in Chat
         /\ chat.input \in Text /\ Len(chat.input) \in Nat /\ chat.cursor \in 0 .. Len(chat.input)
         /\ chat.history \in Seq(Text) /\ Len(chat.history) \in Nat /\ chat.index \in 0 .. Len(chat.history)
         /\ chat.draft \in Text \cup {NoDraft} /\ chat.kept \in Text \cup {NoDraft}
         /\ chat.messages \in Seq(Message) /\ Len(chat.messages) \in Nat
         /\ chat.loaded \in Seq(Message) /\ Len(chat.loaded) \in Nat
         /\ chat.pending \in Nat /\ Len(turns) \in Nat
  <1>1. /\ chat.input \in Text /\ chat.cursor \in Nat /\ chat.history \in Seq(Text) /\ chat.index \in Nat
        /\ chat.draft \in Text \cup {NoDraft} /\ chat.kept \in Text \cup {NoDraft}
        /\ chat.messages \in Seq(Message) /\ chat.pending \in Nat /\ chat.loaded \in Seq(Message)
    BY DEF TuiInv, TuiType, Chat
  <1>2. Len(chat.input) \in Nat /\ Len(chat.history) \in Nat /\ Len(chat.messages) \in Nat /\ Len(turns) \in Nat
          /\ Len(chat.loaded) \in Nat
    BY <1>1, LenProperties DEF TuiInv, TuiType, Text
  <1>3. chat.cursor <= Len(chat.input) /\ chat.index <= Len(chat.history) /\ chat \in Chat
    BY DEF TuiInv, TuiType, Places
  <1> QED BY <1>1, <1>2, <1>3

-------------------------------------------------------------------------------
LEMMA InputKeeps == ASSUME TuiInv, NEW c \in Typed, Input(c) PROVE TuiInv'
  <1> DEFINE next == [chat EXCEPT !.input = InsertAt(@, chat.cursor + 1, c), !.cursor = @ + 1,
                                  !.index = 0, !.draft = NoDraft, !.kept = NoDraft]
  <1>1. Editing(next)
    BY DEF Input
  <1>2. InsertAt(chat.input, chat.cursor + 1, c) \in Text
          /\ Len(InsertAt(chat.input, chat.cursor + 1, c)) = Len(chat.input) + 1
    <2>1. chat.input \in Seq(Typed) /\ chat.cursor \in 0 .. Len(chat.input)
      BY ChatFields DEF Text
    <2> QED BY <2>1, Inserted DEF Text
  <1>3. chat.cursor + 1 \in Nat /\ 0 \in Nat /\ NoDraft \in Text \cup {NoDraft} /\ chat \in Chat
    BY ChatFields
  <1>4. next \in Chat
    BY <1>2, <1>3 DEF Chat
  <1>5. next.history = chat.history /\ next.messages = chat.messages /\ next.pending = chat.pending
          /\ next.loaded = chat.loaded
          /\ next.cursor <= Len(next.input) /\ next.index = 0
    BY <1>2, ChatFields DEF Chat
  <1> HIDE DEF next
  <1> QED BY <1>1, <1>4, <1>5, EditKeeps, ChatFields

LEMMA BackspaceKeeps == ASSUME TuiInv, Backspace PROVE TuiInv'
  <1> DEFINE next == [chat EXCEPT !.input = RemoveAt(@, chat.cursor), !.cursor = @ - 1]
  <1>1. Editing(next) /\ chat.cursor > 0
    BY DEF Backspace
  <1>2. RemoveAt(chat.input, chat.cursor) \in Text
          /\ Len(RemoveAt(chat.input, chat.cursor)) = Len(chat.input) - 1
    <2>1. chat.input \in Seq(Typed) /\ chat.cursor \in 1 .. Len(chat.input)
      BY <1>1, ChatFields DEF Text
    <2> QED BY <2>1, Removed DEF Text
  <1>3. chat.cursor - 1 \in Nat /\ chat \in Chat
    BY <1>1, ChatFields
  <1>4. next \in Chat
    BY <1>2, <1>3 DEF Chat
  <1>5. next.history = chat.history /\ next.messages = chat.messages /\ next.pending = chat.pending
          /\ next.loaded = chat.loaded
          /\ next.cursor <= Len(next.input) /\ next.index = chat.index
          /\ next.draft = chat.draft /\ next.kept = chat.kept
    BY <1>2, ChatFields DEF Chat
  <1> HIDE DEF next
  <1> QED BY <1>1, <1>4, <1>5, EditKeeps, ChatFields DEF TuiInv, DraftIsKept

LEMMA DeleteKeeps == ASSUME TuiInv, Delete PROVE TuiInv'
  <1> DEFINE next == [chat EXCEPT !.input = RemoveAt(@, chat.cursor + 1)]
  <1>1. Editing(next) /\ chat.cursor < Len(chat.input)
    BY DEF Delete
  <1>2. RemoveAt(chat.input, chat.cursor + 1) \in Text
          /\ Len(RemoveAt(chat.input, chat.cursor + 1)) = Len(chat.input) - 1
    <2>1. chat.cursor + 1 \in 1 .. Len(chat.input) /\ chat.input \in Seq(Typed)
      BY <1>1, ChatFields DEF Text
    <2> QED BY <2>1, Removed DEF Text
  <1>3. next \in Chat
    BY <1>1, <1>2, ChatFields DEF Chat
  <1>4. next.history = chat.history /\ next.messages = chat.messages /\ next.pending = chat.pending
          /\ next.loaded = chat.loaded
          /\ next.cursor <= Len(next.input) /\ next.index = chat.index
          /\ next.draft = chat.draft /\ next.kept = chat.kept
    BY <1>1, <1>2, ChatFields DEF Chat
  <1> HIDE DEF next
  <1> QED BY <1>1, <1>3, <1>4, EditKeeps, ChatFields DEF TuiInv, DraftIsKept

(* Only the cursor moves.                                                  *)
LEMMA CursorKeeps ==
  ASSUME TuiInv, NEW to \in 0 .. Len(chat.input), Editing([chat EXCEPT !.cursor = to]) PROVE TuiInv'
  <1> DEFINE next == [chat EXCEPT !.cursor = to]
  <1>0. to \in Nat
    BY ChatFields
  <1>1. next \in Chat
    BY <1>0, ChatFields DEF Chat
  <1>2. next.history = chat.history /\ next.messages = chat.messages /\ next.pending = chat.pending
          /\ next.loaded = chat.loaded
          /\ next.cursor = to /\ next.input = chat.input /\ next.index = chat.index
          /\ next.draft = chat.draft /\ next.kept = chat.kept
    BY ChatFields DEF Chat
  <1>3. Editing(next)
    OBVIOUS
  <1> HIDE DEF next
  <1> QED BY <1>1, <1>2, <1>3, EditKeeps, ChatFields DEF TuiInv, DraftIsKept

LEMMA UpKeeps == ASSUME TuiInv, UpArrow PROVE TuiInv'
  <1> DEFINE to == IF chat.index # 0 THEN Max({chat.index - 1, 1}) ELSE Len(chat.history)
             next == [chat EXCEPT !.input = chat.history[to], !.cursor = 0, !.index = to,
                                  !.kept = IF chat.index = 0 THEN chat.input ELSE @,
                                  !.draft = IF chat.index = 0 THEN chat.input ELSE @]
  <1>1. CASE chat.cursor > 0
    <2>1. Editing([chat EXCEPT !.cursor = 0])
      BY <1>1 DEF UpArrow
    <2>2. 0 \in 0 .. Len(chat.input)
      BY ChatFields
    <2> QED BY <2>1, <2>2, CursorKeeps
  <1>2. CASE ~(chat.cursor > 0)
    <2>1. chat.history # <<>> /\ Editing(next)
      BY <1>2 DEF UpArrow
    <2>2. to \in 1 .. Len(chat.history)
      <3>1. CASE chat.index = 0
        BY <3>1, <2>1, ChatFields, EmptySeq
      <3>2. CASE chat.index # 0
        <4>1. Max({chat.index - 1, 1}) \in {chat.index - 1, 1} /\ Max({chat.index - 1, 1}) >= 1
          <5>1. \E m \in {chat.index - 1, 1} : \A y \in {chat.index - 1, 1} : m >= y
            BY ChatFields
          <5> QED BY <5>1 DEF Max
        <4> QED BY <3>2, <4>1, ChatFields
      <3> QED BY <3>1, <3>2
    <2> HIDE DEF to
    <2>3. chat.history[to] \in Text /\ Len(chat.history[to]) \in Nat
      BY <2>2, ChatFields, ElementOfSeq, LenProperties DEF Text
    <2>4. /\ to \in Nat /\ 0 \in Nat /\ chat \in Chat
          /\ (IF chat.index = 0 THEN chat.input ELSE chat.kept) \in Text \cup {NoDraft}
          /\ (IF chat.index = 0 THEN chat.input ELSE chat.draft) \in Text \cup {NoDraft}
      BY <2>2, ChatFields
    <2>5. next \in Chat
      BY <2>3, <2>4 DEF Chat
    <2>6. next.history = chat.history /\ next.messages = chat.messages /\ next.pending = chat.pending
            /\ next.loaded = chat.loaded
            /\ next.cursor <= Len(next.input) /\ next.index = to
            /\ next.draft = (IF chat.index = 0 THEN chat.input ELSE chat.draft)
            /\ next.kept = (IF chat.index = 0 THEN chat.input ELSE chat.kept)
      BY <2>2, <2>3, ChatFields DEF Chat
    <2> HIDE DEF next
    <2>7. next.draft = next.kept /\ next.kept \in Text
      BY <2>6, ChatFields DEF TuiInv, DraftIsKept
    <2> QED BY <2>1, <2>2, <2>5, <2>6, <2>7, EditKeeps, ChatFields
  <1> QED BY <1>1, <1>2

LEMMA DownKeeps == ASSUME TuiConstants, TuiInv, DownArrow PROVE TuiInv'
  <1>1. CASE chat.index < Len(chat.history)
    <2> DEFINE next == [chat EXCEPT !.input = chat.history[chat.index + 1], !.cursor = 0, !.index = @ + 1]
    <2>1. chat.index # 0 /\ Editing(next)
      BY <1>1 DEF DownArrow
    <2>2. chat.history[chat.index + 1] \in Text /\ Len(chat.history[chat.index + 1]) \in Nat
      BY <1>1, ChatFields, ElementOfSeq, LenProperties DEF Text
    <2>3. chat.index + 1 \in Nat /\ 0 \in Nat /\ chat \in Chat
      BY ChatFields
    <2>4. next \in Chat
      BY <2>2, <2>3 DEF Chat
    <2>5. next.history = chat.history /\ next.messages = chat.messages /\ next.pending = chat.pending
            /\ next.loaded = chat.loaded
            /\ next.cursor <= Len(next.input) /\ next.index = chat.index + 1
            /\ next.draft = chat.draft /\ next.kept = chat.kept
      BY <2>2, ChatFields DEF Chat
    <2> HIDE DEF next
    <2> QED BY <1>1, <2>1, <2>4, <2>5, EditKeeps, ChatFields DEF TuiInv, DraftIsKept
  <1>2. CASE ~(chat.index < Len(chat.history))
    <2> DEFINE draft == IF chat.draft = NoDraft THEN <<>> ELSE chat.draft
               next == [chat EXCEPT !.input = draft, !.cursor = Len(draft), !.index = 0,
                                    !.draft = NoDraft, !.kept = NoDraft]
    <2>1. Editing(next)
      BY <1>2 DEF DownArrow
    <2>2. draft \in Text /\ Len(draft) \in Nat
      BY ChatFields, EmptySeq, LenProperties DEF Text
    <2> HIDE DEF draft
    <2>3. next \in Chat
      BY <2>2, ChatFields DEF Chat
    <2>4. next.history = chat.history /\ next.messages = chat.messages /\ next.pending = chat.pending
            /\ next.loaded = chat.loaded
            /\ next.cursor <= Len(next.input) /\ next.index = 0
      BY <2>2, ChatFields DEF Chat
    <2> HIDE DEF next
    <2> QED BY <2>1, <2>3, <2>4, EditKeeps, ChatFields
  <1> QED BY <1>1, <1>2
-------------------------------------------------------------------------------
LEMMA QuietKeeps ==
  ASSUME TuiInv, sessions' \in Stores, UNCHANGED <<view, chat, turns, sends>> PROVE TuiInv'
  <1>1. TuiType' /\ Places' /\ DraftIsKept'
    BY DEF TuiInv, TuiType, Places, DraftIsKept
  <1>2. PendingIsLast' /\ LastIsRemembered'
    BY DEF TuiInv, PendingIsLast, LastIsRemembered, Running
  <1>3. ScreenIsAnswered'
    BY DEF TuiInv, ScreenIsAnswered
  <1> QED BY <1>1, <1>2, <1>3 DEF TuiInv

LEMMA OthersTalkKeeps == ASSUME TuiConstants, TuiInv, OthersTalk PROVE TuiInv'
  <1>1. sessions \in Stores /\ \A s \in DOMAIN sessions : sessions[s] \in Seq(Message)
    BY LenProperties, ElementOfSeq DEF TuiInv, TuiType, Stores
  <1>2. OthersSay \subseteq Seq(Message) /\ <<>> \in Seq(Message)
    BY OthersAreHeard, EmptySeq
  <1>3. ASSUME NEW words \in OthersSay, sessions' = Append(sessions, words) PROVE sessions' \in Stores
    BY <1>1, <1>2, <1>3, AppendProperties DEF Stores
  <1>4. ASSUME NEW s \in DOMAIN sessions, NEW words \in OthersSay, sessions' = [sessions EXCEPT ![s] = @ \o words]
        PROVE  sessions' \in Stores
    <2>1. sessions[s] \o words \in Seq(Message) /\ sessions' = [sessions EXCEPT ![s] = sessions[s] \o words]
      BY <1>1, <1>2, <1>4, ConcatProperties
    <2> QED BY <1>1, <2>1, StoreChanges
  <1>5. ASSUME NEW s \in DOMAIN sessions, sessions' = [sessions EXCEPT ![s] = <<>>] PROVE sessions' \in Stores
    BY <1>1, <1>2, <1>5, StoreChanges
  <1>6. sessions' \in Stores
    BY <1>3, <1>4, <1>5 DEF OthersTalk
  <1> QED BY <1>6, QuietKeeps DEF OthersTalk

(* A chat that opens or closes waits for no turn; none runs.               *)
LEMMA OpenedKeeps ==
  ASSUME TuiInv, sessions' \in Stores, NEW s \in Nat, NEW messages \in Seq(Message),
         chat' = ChatOf(s, messages), view' \in {"chat", "left"}, sends' = sends,
         \/ turns' = <<>>
         \/ turns' = turns /\ \A t \in DOMAIN turns : ~Running(turns[t])
  PROVE  TuiInv'
  <1>1. Len(turns) \in Nat /\ Len(turns) <= sends /\ sends \in Nat
    BY ChatFields DEF TuiInv, TuiType, LastIsRemembered
  <1>2. turns' \in Seq(TuiTurn) /\ Len(turns') \in Nat /\ Len(turns') <= sends'
    <2>1. /\ <<>> \in Seq(TuiTurn) /\ Len(<<>>) = 0
          /\ turns \in Seq(TuiTurn)
      BY EmptySeq DEF TuiInv, TuiType
    <2>2. CASE turns' = <<>>
      BY <1>1, <2>1, <2>2
    <2>3. CASE turns' = turns
      BY <1>1, <2>1, <2>3
    <2> QED BY <2>2, <2>3
  <1>3. TuiType'
    BY <1>2, OpenedIsChat DEF TuiInv, TuiType
  <1>4. Places' /\ DraftIsKept'
    BY <1>2 DEF ChatOf, Places, DraftIsKept
  <1>5. PendingIsLast'
    BY DEF ChatOf, PendingIsLast, Running
  <1>6. LastIsRemembered'
    BY <1>2 DEF ChatOf, LastIsRemembered
  <1>7. ScreenIsAnswered'
    <2>1. Len(messages) \in Nat
      BY LenProperties
    <2> QED BY <2>1 DEF ChatOf, ScreenIsAnswered, Answered, Begins
  <1> QED BY <1>3, <1>4, <1>5, <1>6, <1>7 DEF TuiInv

LEMMA OpenKeepsTui == ASSUME TuiInv, OpenChat PROVE TuiInv'
  <1>1. \A t \in DOMAIN turns : ~Running(turns[t])
    BY DEF OpenChat, TuiInv, PendingIsLast
  <1>2. sessions \in Stores /\ Len(sessions) \in Nat /\ DOMAIN sessions = 1 .. Len(sessions) /\ <<>> \in Seq(Message)
    BY LenProperties DEF TuiInv, TuiType, Stores
  <1>3. CASE \E s \in DOMAIN sessions : chat' = ChatOf(s, sessions[s]) /\ sessions' = sessions
    <2>1. PICK s \in DOMAIN sessions : chat' = ChatOf(s, sessions[s]) /\ sessions' = sessions
      BY <1>3
    <2>2. s \in Nat /\ sessions[s] \in Seq(Message)
      BY <1>2, ElementOfSeq DEF Stores
    <2> QED BY <1>1, <1>2, <2>1, <2>2, OpenedKeeps DEF OpenChat
  <1>4. CASE sessions' = Append(sessions, <<>>) /\ chat' = ChatOf(stored + 1, <<>>)
    <2>1. sessions' \in Stores /\ stored + 1 \in Nat
      BY <1>2, <1>4, AppendProperties DEF Stores, stored
    <2> QED BY <1>1, <1>2, <1>4, <2>1, OpenedKeeps DEF OpenChat
  <1> QED BY <1>3, <1>4 DEF OpenChat

LEMMA LeaveKeeps == ASSUME TuiInv, Leave PROVE TuiInv'
  <1>1. sessions' \in Stores /\ 0 \in Nat /\ <<>> \in Seq(Message)
    BY DEF Leave, TuiInv, TuiType
  <1> QED BY <1>1, OpenedKeeps DEF Leave, BlankChat

LEMMA EscapeKeeps == ASSUME TuiInv, Escape PROVE TuiInv'
  <1> USE DEF Escape
  <1>1. TuiType' /\ Places' /\ DraftIsKept'
    BY DEF TuiInv, TuiType, Places, DraftIsKept
  <1>2. \A t \in DOMAIN turns : t # 0
    BY LenProperties DEF TuiInv, TuiType
  <1>3. PendingIsLast'
    BY <1>2 DEF TuiInv, PendingIsLast
  <1>4. LastIsRemembered'
    BY DEF TuiInv, LastIsRemembered
  <1>5. ScreenIsAnswered'
    BY DEF TuiInv, ScreenIsAnswered, Answered
  <1> QED BY <1>1, <1>3, <1>4, <1>5 DEF TuiInv

(* A turn of which another stage is told; the chat and its store stay.     *)
LEMMA StageKeeps ==
  ASSUME TuiInv, NEW t \in DOMAIN turns, NEW end \in {"stored", "ok", "error"}, Running(turns[t]),
         turns' = [turns EXCEPT ![t].end = end], sessions' \in Stores, UNCHANGED <<view, chat, sends>>
  PROVE  TuiInv'
  <1>1. DOMAIN turns = 1 .. Len(turns) /\ Len(turns) \in Nat
          /\ \A u \in DOMAIN turns : turns[u] \in TuiTurn
    BY LenProperties, ElementOfSeq DEF TuiInv, TuiType
  <1>2. /\ turns' \in Seq(TuiTurn)
        /\ Len(turns') = Len(turns) /\ DOMAIN turns' = DOMAIN turns
        /\ \A u \in DOMAIN turns : turns'[u].prompt = turns[u].prompt
        /\ \A u \in DOMAIN turns : Running(turns'[u]) => Running(turns[u])
    <2> DEFINE item == [turns[t] EXCEPT !.end = end]
    <2>1. item \in TuiTurn /\ item.prompt = turns[t].prompt
      BY <1>1 DEF TuiTurn
    <2>2. turns' = [turns EXCEPT ![t] = item]
      OBVIOUS
    <2> HIDE DEF item
    <2>3. turns \in Seq(TuiTurn) /\ t \in 1 .. Len(turns)
      BY <1>1 DEF TuiInv, TuiType
    <2>4. turns' \in Seq(TuiTurn) /\ Len(turns') = Len(turns)
            /\ \A u \in 1 .. Len(turns) : turns'[u] = IF u = t THEN item ELSE turns[u]
      BY <2>1, <2>2, <2>3, ExceptSeq
    <2>5. DOMAIN turns' = DOMAIN turns
      BY <2>2
    <2>6. \A u \in DOMAIN turns : turns'[u].prompt = turns[u].prompt
      BY <1>1, <2>1, <2>4
    <2>7. \A u \in DOMAIN turns : Running(turns'[u]) => Running(turns[u])
      BY <1>1, <2>4
    <2> QED BY <2>4, <2>5, <2>6, <2>7
  <1>3. TuiType'
    BY <1>2 DEF TuiInv, TuiType
  <1>4. Places' /\ DraftIsKept'
    BY <1>2 DEF TuiInv, Places, DraftIsKept
  <1>5. chat.pending # 0 => chat.pending \in DOMAIN turns
    BY <1>1, ChatFields DEF TuiInv, Places
  <1>6. PendingIsLast'
    BY <1>2, <1>5 DEF TuiInv, PendingIsLast
  <1>7. LastIsRemembered'
    <2>1. turns # <<>> => Len(turns) \in DOMAIN turns
      BY <1>1
    <2>2. turns' # <<>> => turns # <<>>
      BY <1>1, <1>2, EmptySeq DEF TuiInv, TuiType
    <2> QED BY <1>2, <2>1, <2>2 DEF TuiInv, LastIsRemembered
  <1>8. ScreenIsAnswered'
    BY <1>2, <1>5 DEF TuiInv, ScreenIsAnswered
  <1> QED BY <1>3, <1>4, <1>6, <1>7, <1>8 DEF TuiInv

(* What a turn stores is a message of its session.                         *)
LEMMA ShownIsStored ==
  ASSUME TuiInv, NEW t \in DOMAIN turns, NEW role \in {"user", "assistant"}, NEW s
  PROVE  [sessions EXCEPT ![s] = Show(@, role, turns[t].prompt)] \in Stores
  <1>1. sessions \in Stores /\ turns[t] \in TuiTurn
    BY LenProperties, ElementOfSeq DEF TuiInv, TuiType
  <1>2. [role |-> role, text |-> turns[t].prompt] \in Message
    BY <1>1 DEF TuiTurn, Message
  <1>3. s \in DOMAIN sessions => sessions[s] \in Seq(Message)
    BY <1>1, LenProperties, ElementOfSeq DEF Stores
  <1>4. s \in DOMAIN sessions => Show(sessions[s], role, turns[t].prompt) \in Seq(Message)
    BY <1>2, <1>3, AppendProperties DEF Show
  <1> QED BY <1>1, <1>4, StoreChanges

LEMMA TurnStoresKeeps == ASSUME TuiInv, TurnStores PROVE TuiInv'
  <1>1. PICK t \in DOMAIN turns :
          /\ turns[t].end = "sent" /\ turns' = [turns EXCEPT ![t].end = "stored"]
          /\ sessions' = [sessions EXCEPT ![chat.session] = Show(@, "user", turns[t].prompt)]
          /\ UNCHANGED <<view, chat, sends>>
    BY DEF TurnStores
  <1> QED BY <1>1, ShownIsStored, StageKeeps DEF Running

LEMMA TurnEndsKeeps == ASSUME TuiInv, TurnEnds PROVE TuiInv'
  <1>1. PICK t \in DOMAIN turns :
          /\ \/ /\ turns[t].end = "stored" /\ turns' = [turns EXCEPT ![t].end = "ok"]
                /\ sessions' = [sessions EXCEPT ![chat.session] = Show(@, "assistant", turns[t].prompt)]
             \/ /\ turns[t].end \in {"sent", "stored"} /\ turns' = [turns EXCEPT ![t].end = "error"]
                /\ sessions' = sessions
          /\ UNCHANGED <<view, chat, sends>>
    BY DEF TurnEnds
  <1>2. CASE sessions' = sessions
    BY <1>1, <1>2, StageKeeps DEF Running, TuiInv, TuiType
  <1>3. CASE sessions' # sessions
    <2>1. sessions' = [sessions EXCEPT ![chat.session] = Show(@, "assistant", turns[t].prompt)]
      BY <1>1, <1>3
    <2>2. sessions' \in Stores
      BY <2>1, ShownIsStored
    <2> QED BY <1>1, <1>3, <2>2, StageKeeps DEF Running
  <1> QED BY <1>2, <1>3
-------------------------------------------------------------------------------
(* push_input_history leaves the input last.                               *)
LEMMA RememberedLast ==
  ASSUME TuiConstants, NEW history \in Seq(Text), NEW input \in Text
  PROVE  /\ Remember(history, input) \in Seq(Text)
         /\ Remember(history, input) # <<>> /\ Last(Remember(history, input)) = input
  <1>1. CASE history # <<>> /\ Last(history) = input
    BY <1>1 DEF Remember
  <1>2. CASE ~(history # <<>> /\ Last(history) = input)
    <2> DEFINE all == Append(history, input)
               from == Max({Len(all) - HistoryCap, 0}) + 1
               kept == SubSeq(all, from, Len(all))
    <2>1. Remember(history, input) = kept
      BY <1>2 DEF Remember
    <2>2. all \in Seq(Text) /\ Len(all) = Len(history) + 1 /\ all[Len(history) + 1] = input /\ Len(history) \in Nat
      BY AppendProperties, LenProperties
    <2> HIDE DEF all
    <2>3. from \in 1 .. Len(all)
      <3>1. \E m \in {Len(all) - HistoryCap, 0} : \A y \in {Len(all) - HistoryCap, 0} : m >= y
        BY <2>2 DEF TuiConstants
      <3>2. Max({Len(all) - HistoryCap, 0}) \in {Len(all) - HistoryCap, 0} /\ Max({Len(all) - HistoryCap, 0}) >= 0
        BY <3>1 DEF Max
      <3> QED BY <2>2, <3>2 DEF TuiConstants
    <2> HIDE DEF from
    <2>4. \A i \in from .. Len(all) : all[i] \in Text
      BY <2>2, <2>3, ElementOfSeq
    <2>5. /\ kept \in Seq(Text)
          /\ Len(kept) = IF from <= Len(all) THEN Len(all) - from + 1 ELSE 0
          /\ \A i \in 1 .. Len(all) - from + 1 : kept[i] = all[from + i - 1]
      BY <2>2, <2>3, <2>4, SubSeqProperties, from \in Int, Len(all) \in Int
    <2>6. Len(kept) = Len(all) - from + 1 /\ Len(kept) \in 1 .. Len(all) - from + 1
      BY <2>2, <2>3, <2>5
    <2>7. kept # <<>> /\ kept[Len(kept)] = all[from + Len(kept) - 1] /\ from + Len(kept) - 1 = Len(history) + 1
      <3> HIDE DEF kept
      <3>1. from + Len(kept) - 1 = Len(history) + 1 /\ Len(kept) > 0
        BY <2>2, <2>3, <2>6
      <3> QED BY <2>5, <2>6, <3>1, EmptySeq
    <2> QED BY <2>1, <2>2, <2>5, <2>7 DEF Last
  <1> QED BY <1>1, <1>2

(* What is shown next answers what waits, or nothing waits.                *)
LEMMA ShownIsAnswered ==
  ASSUME NEW messages \in Seq(Message), NEW loaded \in Seq(Message),
         Begins(loaded, messages), Answered(Len(loaded), messages),
         NEW role \in {"user", "assistant"}, NEW text \in Text,
         Len(loaded) < Len(messages) /\ Awaits(Last(messages)) => role = "assistant" /\ Last(messages).text = text
  PROVE  /\ Show(messages, role, text) \in Seq(Message) /\ Len(loaded) < Len(Show(messages, role, text))
         /\ Last(Show(messages, role, text)) = [role |-> role, text |-> text]
         /\ Begins(loaded, Show(messages, role, text)) /\ Answered(Len(loaded), Show(messages, role, text))
  <1> DEFINE one == [role |-> role, text |-> text]
             more == Show(messages, role, text)
  <1>1. one \in Message /\ Len(loaded) \in Nat
    BY LenProperties DEF Message
  <1>2. /\ more \in Seq(Message) /\ Len(more) = Len(messages) + 1 /\ Len(messages) \in Nat
        /\ \A i \in 1 .. Len(messages) : more[i] = messages[i]
        /\ more[Len(messages) + 1] = one
    BY <1>1, AppendProperties, LenProperties DEF Show
  <1> HIDE DEF more
  <1>3. Last(more) = one
    BY <1>2 DEF Last
  <1>4. Begins(loaded, more) /\ Len(loaded) < Len(more)
    BY <1>1, <1>2 DEF Begins
  <1>5. Answered(Len(loaded), more)
    <2> SUFFICES ASSUME NEW i \in Len(loaded) + 1 .. Len(more) - 1, Awaits(more[i])
                 PROVE  more[i + 1] = [role |-> "assistant", text |-> more[i].text]
      BY DEF Answered
    <2>1. i \in 1 .. Len(messages) /\ more[i] = messages[i]
      BY <1>1, <1>2
    <2>2. CASE i = Len(messages)
      <3>1. Len(loaded) < Len(messages) /\ Last(messages) = more[i]
        BY <1>1, <2>1, <2>2 DEF Last
      <3> QED BY <1>2, <2>2, <3>1
    <2>3. CASE i # Len(messages)
      <3>1. i \in Len(loaded) + 1 .. Len(messages) - 1 /\ i + 1 \in 1 .. Len(messages)
        BY <1>1, <1>2, <2>1, <2>3
      <3> QED BY <1>2, <2>1, <3>1 DEF Answered
    <2> QED BY <2>2, <2>3
  <1> QED BY <1>2, <1>3, <1>4, <1>5 DEF more

(* The last message taken off the screen waited; the one before does not.  *)
LEMMA FrontIsAnswered ==
  ASSUME NEW messages \in Seq(Message), NEW loaded \in Seq(Message),
         Begins(loaded, messages), Answered(Len(loaded), messages),
         Len(loaded) < Len(messages), Last(messages).role = "user"
  PROVE  /\ Front(messages) \in Seq(Message)
         /\ Begins(loaded, Front(messages)) /\ Answered(Len(loaded), Front(messages))
         /\ Len(loaded) < Len(Front(messages)) => ~Awaits(Last(Front(messages)))
  <1> DEFINE n == Len(messages) - 1
             front == Front(messages)
  <1>1. Len(messages) \in Nat /\ Len(loaded) \in Nat /\ n \in Nat /\ \A i \in 1 .. n : messages[i] \in Message
    BY LenProperties, ElementOfSeq
  <1>2. front \in Seq(Message) /\ Len(front) = n /\ \A i \in 1 .. n : front[i] = messages[i]
    <2>1. /\ SubSeq(messages, 1, n) \in Seq(Message)
          /\ Len(SubSeq(messages, 1, n)) = IF 1 <= n THEN n - 1 + 1 ELSE 0
          /\ \A i \in 1 .. n - 1 + 1 : SubSeq(messages, 1, n)[i] = messages[1 + i - 1]
      <3> HIDE DEF n
      <3> QED BY <1>1, SubSeqProperties, 1 \in Int, n \in Int
    <2>2. \A i \in 1 .. n : i \in 1 .. n - 1 + 1 /\ 1 + i - 1 = i
      BY <1>1
    <2>3. front = SubSeq(messages, 1, n)
      BY DEF Front
    <2> HIDE DEF n, front
    <2>4. (IF 1 <= n THEN n - 1 + 1 ELSE 0) = n
      BY <1>1
    <2> QED BY <2>1, <2>2, <2>3, <2>4
  <1> HIDE DEF front
  <1>3. Begins(loaded, front)
    BY <1>1, <1>2 DEF Begins
  <1>4. Answered(Len(loaded), front)
    BY <1>1, <1>2 DEF Answered
  <1>5. ASSUME Len(loaded) < Len(front), Awaits(Last(front)) PROVE FALSE
    <2>1. n \in Len(loaded) + 1 .. n /\ n \in 1 .. n /\ Last(front) = messages[n]
      BY <1>1, <1>2, <1>5 DEF Last
    <2>2. messages[n + 1] = [role |-> "assistant", text |-> messages[n].text]
      BY <1>1, <1>5, <2>1 DEF Answered
    <2> QED BY <1>1, <2>2 DEF Last
  <1> QED BY <1>2, <1>3, <1>4, <1>5 DEF front

(* What is sent is typed.                                                  *)
LEMMA TrimmedIsText == ASSUME NEW input \in Text PROVE Trimmed(input) \in Text
  <1> DEFINE leading == {i \in DOMAIN input : \A j \in 1 .. i : input[j] = " "}
             trailing == {i \in DOMAIN input : \A j \in i .. Len(input) : input[j] = " "}
             from == Cardinality(leading) + 1
             to == Len(input) - Cardinality(trailing)
  <1>1. Len(input) \in Nat /\ DOMAIN input = 1 .. Len(input) /\ \A i \in 1 .. Len(input) : input[i] \in Typed
    BY LenProperties, ElementOfSeq DEF Text
  <1>2. IsFiniteSet(DOMAIN input)
    BY <1>1, FS_Interval
  <1>3. Cardinality(leading) \in Nat /\ Cardinality(trailing) \in Nat
    BY <1>2, FS_Subset, FS_CardinalityType
  <1>4. Trimmed(input) = SubSeq(input, from, to)
    BY DEF Trimmed
  <1> HIDE DEF leading, trailing
  <1>5. from \in Int /\ to \in Int /\ \A i \in from .. to : input[i] \in Typed
    BY <1>1, <1>3
  <1> HIDE DEF from, to
  <1>6. SubSeq(input, from, to) \in Seq(Typed)
    BY <1>5, SubSeqProperties
  <1> QED BY <1>4, <1>6 DEF Text
-------------------------------------------------------------------------------
(* An input that is sent is the last of the history and on the screen.     *)
LEMMA LineIsTaken ==
  ASSUME TuiConstants, TuiInv, NEW prompt \in Text, chat.pending = 0
  PROVE  /\ LineTaken(prompt) \in Chat /\ LineTaken(prompt).history # <<>>
         /\ LineTaken(prompt).history \in Seq(Text) /\ Last(LineTaken(prompt).history) = prompt
         /\ LineTaken(prompt).input = <<>> /\ LineTaken(prompt).cursor = 0 /\ LineTaken(prompt).index = 0
         /\ LineTaken(prompt).pending = 0 /\ LineTaken(prompt).loaded = chat.loaded
         /\ LineTaken(prompt).messages = Show(chat.messages, "user", prompt)
         /\ LineTaken(prompt).messages \in Seq(Message)
         /\ Len(chat.loaded) < Len(LineTaken(prompt).messages)
         /\ Last(LineTaken(prompt).messages) = [role |-> "user", text |-> prompt]
         /\ Begins(chat.loaded, LineTaken(prompt).messages)
         /\ Answered(Len(chat.loaded), LineTaken(prompt).messages)
  <1> DEFINE asked == Show(chat.messages, "user", prompt)
             history == Remember(chat.history, prompt)
             taken == LineTaken(prompt)
  <1>1. history \in Seq(Text) /\ history # <<>> /\ Last(history) = prompt
    BY ChatFields, RememberedLast
  <1>2. /\ asked \in Seq(Message) /\ Last(asked) = [role |-> "user", text |-> prompt]
        /\ Len(chat.loaded) < Len(asked) /\ Begins(chat.loaded, asked) /\ Answered(Len(chat.loaded), asked)
    <2>1. Len(chat.loaded) < Len(chat.messages) => ~Awaits(Last(chat.messages))
      BY DEF TuiInv, ScreenIsAnswered
    <2>2. /\ Begins(chat.loaded, chat.messages) /\ Answered(Len(chat.loaded), chat.messages)
          /\ chat.messages \in Seq(Message) /\ chat.loaded \in Seq(Message)
      BY ChatFields DEF TuiInv, ScreenIsAnswered
    <2> QED BY <2>1, <2>2, ShownIsAnswered
  <1> HIDE DEF asked, history
  <1>3. /\ taken \in Chat /\ taken.history = history /\ taken.input = <<>> /\ taken.cursor = 0 /\ taken.index = 0
        /\ taken.pending = 0 /\ taken.messages = asked /\ taken.loaded = chat.loaded
    <2>1. <<>> \in Text /\ 0 \in Nat /\ NoDraft \in Text \cup {NoDraft} /\ chat \in Chat
      BY ChatFields DEF Text
    <2>2. taken = [chat EXCEPT !.history = history, !.input = <<>>, !.cursor = 0, !.index = 0,
                               !.draft = NoDraft, !.kept = NoDraft, !.messages = asked]
      BY DEF history, asked, LineTaken
    <2> HIDE DEF taken
    <2> QED BY <1>1, <1>2, <2>1, <2>2 DEF Chat
  <1> HIDE DEF taken
  <1>4. taken.messages = Show(chat.messages, "user", prompt)
    BY <1>3 DEF asked
  <1> QED BY <1>1, <1>2, <1>3, <1>4 DEF taken

LEMMA SendingFacts ==
  ASSUME TuiInv
  PROVE  /\ sessions \in Stores /\ turns \in Seq(TuiTurn) /\ Len(turns) \in Nat /\ sends \in Nat /\ Len(turns) <= sends
         /\ DOMAIN turns = 1 .. Len(turns) /\ Trimmed(chat.input) \in Text
         /\ \A s \in DOMAIN sessions : sessions[s] \in Seq(Message)
         /\ view = "chat" /\ chat.pending = 0 => \A t \in DOMAIN turns : ~Running(turns[t])
  <1>1. sessions \in Stores /\ turns \in Seq(TuiTurn) /\ sends \in Nat
    BY DEF TuiInv, TuiType
  <1>2. Len(turns) \in Nat /\ DOMAIN turns = 1 .. Len(turns)
    BY <1>1, LenProperties
  <1>3. \A s \in DOMAIN sessions : sessions[s] \in Seq(Message)
    BY <1>1, LenProperties, ElementOfSeq DEF Stores
  <1>4. chat.pending = 0 => \A t \in DOMAIN turns : ~Running(turns[t])
    BY <1>2 DEF TuiInv, PendingIsLast
  <1>5. Len(turns) <= sends /\ Trimmed(chat.input) \in Text
    BY ChatFields, TrimmedIsText DEF TuiInv, LastIsRemembered
  <1> QED BY <1>1, <1>2, <1>3, <1>4, <1>5

LEMMA CommandKeepsTui == ASSUME TuiConstants, TuiInv, EnterCommand PROVE TuiInv'
  <1> DEFINE prompt == Trimmed(chat.input)
             taken == LineTaken(prompt)
             told == Show(taken.messages, "assistant", prompt)
  <1>1. /\ view = "chat" /\ view' = "chat" /\ chat.pending = 0 /\ sends' = sends + 1 /\ IsCommand(prompt)
        /\ turns' = turns /\ (chat' = taken \/ chat' = [taken EXCEPT !.messages = told])
    BY DEF EnterCommand, Entered
  <1>2. /\ sessions \in Stores /\ turns \in Seq(TuiTurn) /\ Len(turns) \in Nat /\ sends \in Nat /\ Len(turns) <= sends
        /\ prompt \in Text /\ \A t \in DOMAIN turns : ~Running(turns[t])
    BY <1>1, SendingFacts
  <1>3. sessions' \in Stores
    <2>1. <<>> \in Seq(Message) /\ Append(sessions, <<>>) \in Stores
      <3>1. <<>> \in Seq(Message)
        OBVIOUS
      <3> QED BY <1>2, <3>1, AppendProperties DEF Stores
    <2>2. [sessions EXCEPT ![chat.session] = <<>>] \in Stores
      BY <1>2, <2>1, StoreChanges
    <2> QED BY <1>2, <2>1, <2>2 DEF EnterCommand
  <1> HIDE DEF prompt
  <1>4. /\ taken \in Chat /\ taken.history # <<>> /\ taken.history \in Seq(Text)
        /\ taken.input = <<>> /\ taken.cursor = 0 /\ taken.index = 0
        /\ taken.pending = 0 /\ taken.loaded = chat.loaded
        /\ taken.messages \in Seq(Message) /\ Len(chat.loaded) < Len(taken.messages)
        /\ Last(taken.messages) = [role |-> "user", text |-> prompt]
        /\ Begins(chat.loaded, taken.messages) /\ Answered(Len(chat.loaded), taken.messages)
    BY <1>1, <1>2, LineIsTaken
  <1> HIDE DEF taken
  <1>5. /\ told \in Seq(Message) /\ Last(told) = [role |-> "assistant", text |-> prompt]
        /\ Begins(chat.loaded, told) /\ Answered(Len(chat.loaded), told)
    BY <1>2, <1>4, ChatFields, ShownIsAnswered
  <1> HIDE DEF told
  <1>6. /\ chat' \in Chat /\ chat'.history = taken.history /\ chat'.input = <<>> /\ chat'.cursor = 0 /\ chat'.index = 0
        /\ chat'.pending = 0 /\ chat'.loaded = chat.loaded /\ chat'.messages \in {taken.messages, told}
    <2>1. CASE chat' = taken
      BY <1>4, <2>1
    <2>2. CASE chat' = [taken EXCEPT !.messages = told]
      BY <1>4, <1>5, <2>2 DEF Chat
    <2> QED BY <1>1, <2>1, <2>2
  <1>7. TuiType'
    BY <1>1, <1>2, <1>3, <1>6 DEF TuiType
  <1>8. Places' /\ DraftIsKept'
    <2>1. Len(chat'.history) \in Nat /\ Len(<<>>) = 0
      BY <1>4, <1>6, LenProperties
    <2> QED BY <1>1, <1>2, <1>6, <2>1 DEF Places, DraftIsKept
  <1>9. PendingIsLast' /\ LastIsRemembered'
    BY <1>1, <1>2, <1>6 DEF PendingIsLast, LastIsRemembered, Running
  <1>10. ScreenIsAnswered'
    <2>1. ~Awaits(Last(taken.messages)) /\ ~Awaits(Last(told))
      BY <1>1, <1>4, <1>5 DEF Awaits
    <2> QED BY <1>4, <1>5, <1>6, <2>1 DEF ScreenIsAnswered
  <1> QED BY <1>7, <1>8, <1>9, <1>10 DEF TuiInv

LEMMA EnterTurnKeeps == ASSUME TuiConstants, TuiInv, EnterTurn PROVE TuiInv'
  <1> DEFINE prompt == Trimmed(chat.input)
             taken == LineTaken(prompt)
             turn == [prompt |-> prompt, end |-> "sent"]
             n == Len(turns) + 1
  <1>1. /\ view = "chat" /\ view' = "chat" /\ chat.pending = 0 /\ sends' = sends + 1 /\ sessions' = sessions
        /\ turns' = Append(turns, turn) /\ chat' = [taken EXCEPT !.pending = n]
    BY DEF EnterTurn, Entered
  <1>2. /\ sessions \in Stores /\ turns \in Seq(TuiTurn) /\ Len(turns) \in Nat /\ sends \in Nat /\ Len(turns) <= sends
        /\ DOMAIN turns = 1 .. Len(turns) /\ prompt \in Text /\ \A t \in DOMAIN turns : ~Running(turns[t])
    BY <1>1, SendingFacts
  <1> HIDE DEF prompt
  <1>3. turn \in TuiTurn /\ turn.prompt = prompt /\ n \in Nat /\ n # 0
    BY <1>2 DEF TuiTurn
  <1> HIDE DEF turn
  <1>4. /\ taken \in Chat /\ taken.history # <<>> /\ taken.history \in Seq(Text) /\ Last(taken.history) = prompt
        /\ taken.input = <<>> /\ taken.cursor = 0 /\ taken.index = 0
        /\ taken.pending = 0 /\ taken.loaded = chat.loaded
        /\ taken.messages \in Seq(Message) /\ Len(chat.loaded) < Len(taken.messages)
        /\ Last(taken.messages) = [role |-> "user", text |-> prompt]
        /\ Begins(chat.loaded, taken.messages) /\ Answered(Len(chat.loaded), taken.messages)
    BY <1>1, <1>2, LineIsTaken
  <1> HIDE DEF taken
  <1>5. /\ turns' \in Seq(TuiTurn) /\ turns' # <<>> /\ Len(turns') = n /\ DOMAIN turns' = 1 .. n /\ turns'[n] = turn
        /\ \A t \in 1 .. Len(turns) : turns'[t] = turns[t]
    <2>1. /\ turns' \in Seq(TuiTurn) /\ turns' # <<>> /\ Len(turns') = n /\ turns'[n] = turn
          /\ \A t \in 1 .. Len(turns) : turns'[t] = turns[t]
      BY <1>1, <1>2, <1>3, AppendProperties
    <2> QED BY <2>1, LenProperties
  <1>6. /\ chat' \in Chat /\ chat'.history = taken.history /\ chat'.input = <<>> /\ chat'.cursor = 0 /\ chat'.index = 0
        /\ chat'.pending = n /\ chat'.messages = taken.messages /\ chat'.loaded = chat.loaded
    <2> HIDE DEF n
    <2> QED BY <1>1, <1>3, <1>4 DEF Chat
  <1>7. TuiType'
    BY <1>1, <1>2, <1>5, <1>6 DEF TuiType
  <1>8. Places' /\ DraftIsKept'
    <2>1. Len(chat'.history) \in Nat /\ Len(<<>>) = 0
      BY <1>4, <1>6, LenProperties
    <2> QED BY <1>3, <1>5, <1>6, <2>1 DEF Places, DraftIsKept
  <1>9. PendingIsLast'
    <2>1. \A t \in DOMAIN turns' : t # n => t \in DOMAIN turns
      BY <1>2, <1>5
    <2>2. \A t \in DOMAIN turns' : Running(turns'[t]) => chat'.pending = t
      BY <1>2, <1>5, <1>6, <2>1
    <2>3. chat'.history # <<>> /\ Last(chat'.history) = turns'[n].prompt
      BY <1>3, <1>4, <1>5, <1>6
    <2> HIDE DEF n
    <2> QED BY <1>1, <1>5, <1>6, <2>2, <2>3 DEF PendingIsLast, Running
  <1>10. LastIsRemembered'
    <2>1. Last(chat'.history) = turns'[n].prompt /\ Len(turns') <= sends'
      BY <1>1, <1>2, <1>3, <1>4, <1>5, <1>6
    <2> HIDE DEF n
    <2> QED BY <1>5, <2>1 DEF LastIsRemembered
  <1>11. ScreenIsAnswered'
    <2> HIDE DEF n
    <2> QED BY <1>3, <1>4, <1>5, <1>6 DEF ScreenIsAnswered
  <1> QED BY <1>7, <1>8, <1>9, <1>10, <1>11 DEF TuiInv

LEMMA PollKeeps == ASSUME TuiInv, Poll PROVE TuiInv'
  <1> DEFINE n == chat.pending
             turn == turns[n]
             idle == [chat EXCEPT !.pending = 0]
             shown == Show(chat.messages, "assistant", turn.prompt)
  <1>1. /\ view = "chat" /\ view' = "chat" /\ n # 0 /\ turns' = turns /\ sends' = sends /\ ~Running(turn)
        /\ \/ chat' = [idle EXCEPT !.messages = Show(@, "assistant", turn.prompt)]
           \/ chat' = [idle EXCEPT
                !.messages = IF chat.messages # <<>> /\ Last(chat.messages) = [role |-> "user", text |-> turn.prompt]
                             THEN Front(@) ELSE @,
                !.input = IF @ = <<>> THEN turn.prompt ELSE @,
                !.cursor = IF chat.input = <<>> THEN Len(turn.prompt) ELSE @]
    BY DEF Poll, Running
  <1>2. /\ chat \in Chat /\ turns \in Seq(TuiTurn) /\ Len(turns) \in Nat /\ n = Len(turns) /\ n \in DOMAIN turns
        /\ turn \in TuiTurn /\ turn.prompt \in Text /\ Len(turn.prompt) \in Nat
    <2>1. chat \in Chat /\ turns \in Seq(TuiTurn) /\ Len(turns) \in Nat /\ n = Len(turns)
      BY <1>1, ChatFields DEF TuiInv, TuiType, PendingIsLast
    <2>2. n \in 1 .. Len(turns) /\ DOMAIN turns = 1 .. Len(turns)
      BY <1>1, <2>1, LenProperties
    <2>3. turn \in TuiTurn
      BY <2>1, <2>2, ElementOfSeq
    <2>4. turn.prompt \in Text
      BY <2>3 DEF TuiTurn
    <2> QED BY <2>1, <2>2, <2>3, <2>4, LenProperties DEF Text
  <1>3. /\ chat.messages \in Seq(Message) /\ chat.loaded \in Seq(Message)
        /\ Begins(chat.loaded, chat.messages) /\ Answered(Len(chat.loaded), chat.messages)
        /\ Len(chat.loaded) < Len(chat.messages) /\ chat.messages # <<>>
        /\ Last(chat.messages) = [role |-> "user", text |-> turn.prompt]
    <2>1. Len(chat.loaded) \in Nat /\ Len(chat.loaded) < Len(chat.messages)
      BY <1>1, ChatFields DEF TuiInv, ScreenIsAnswered
    <2>2. chat.messages # <<>>
      BY <2>1, EmptySeq
    <2> QED BY <1>1, <2>1, <2>2, ChatFields DEF TuiInv, ScreenIsAnswered
  <1>4. /\ shown \in Seq(Message) /\ ~Awaits(Last(shown))
        /\ Begins(chat.loaded, shown) /\ Answered(Len(chat.loaded), shown)
    <2>1. /\ shown \in Seq(Message) /\ Begins(chat.loaded, shown) /\ Answered(Len(chat.loaded), shown)
          /\ Last(shown) = [role |-> "assistant", text |-> turn.prompt]
      BY <1>2, <1>3, ShownIsAnswered
    <2> QED BY <2>1 DEF Awaits
  <1>5. /\ Front(chat.messages) \in Seq(Message)
        /\ Begins(chat.loaded, Front(chat.messages)) /\ Answered(Len(chat.loaded), Front(chat.messages))
        /\ Len(chat.loaded) < Len(Front(chat.messages)) => ~Awaits(Last(Front(chat.messages)))
    BY <1>3, FrontIsAnswered
  <1>6. /\ idle \in Chat /\ idle.input = chat.input /\ idle.cursor = chat.cursor /\ idle.history = chat.history
        /\ idle.index = chat.index /\ idle.draft = chat.draft /\ idle.messages = chat.messages /\ idle.pending = 0
        /\ idle.kept = chat.kept /\ idle.loaded = chat.loaded
    <2>1. chat \in Chat /\ 0 \in Nat
      BY <1>2
    <2> QED BY <2>1 DEF Chat
  <1> HIDE DEF idle, shown
  <1>7. /\ chat' \in Chat /\ chat'.history = chat.history /\ chat'.index = chat.index /\ chat'.draft = chat.draft
        /\ chat'.kept = chat.kept /\ chat'.pending = 0 /\ chat'.cursor <= Len(chat'.input)
        /\ chat'.loaded = chat.loaded
        /\ Begins(chat.loaded, chat'.messages) /\ Answered(Len(chat.loaded), chat'.messages)
        /\ Len(chat.loaded) < Len(chat'.messages) => ~Awaits(Last(chat'.messages))
    <2>1. CASE chat' = [idle EXCEPT !.messages = Show(@, "assistant", turn.prompt)]
      <3>1. chat' = [idle EXCEPT !.messages = shown]
        BY <1>6, <2>1 DEF shown
      <3>2. chat' \in Chat /\ chat'.history = idle.history /\ chat'.index = idle.index /\ chat'.draft = idle.draft
              /\ chat'.kept = idle.kept /\ chat'.pending = idle.pending /\ chat'.cursor = idle.cursor
              /\ chat'.input = idle.input /\ chat'.messages = shown /\ chat'.loaded = idle.loaded
        BY <1>4, <1>6, <3>1 DEF Chat
      <3> QED BY <1>4, <1>6, <3>2, ChatFields
    <2>2. CASE chat' = [idle EXCEPT
                !.messages = IF chat.messages # <<>> /\ Last(chat.messages) = [role |-> "user", text |-> turn.prompt]
                             THEN Front(@) ELSE @,
                !.input = IF @ = <<>> THEN turn.prompt ELSE @,
                !.cursor = IF chat.input = <<>> THEN Len(turn.prompt) ELSE @]
      <3> DEFINE front == Front(chat.messages)
                 input == IF chat.input = <<>> THEN turn.prompt ELSE chat.input
                 cursor == IF chat.input = <<>> THEN Len(turn.prompt) ELSE chat.cursor
      <3>1. chat' = [idle EXCEPT !.messages = front, !.input = input, !.cursor = cursor]
        BY <1>3, <1>6, <2>2
      <3>2. input \in Text /\ cursor \in Nat /\ cursor <= Len(input) /\ front \in Seq(Message)
        BY <1>2, <1>5, ChatFields
      <3> HIDE DEF input, cursor, front
      <3>3. chat' \in Chat /\ chat'.history = idle.history /\ chat'.index = idle.index /\ chat'.draft = idle.draft
              /\ chat'.kept = idle.kept /\ chat'.pending = idle.pending /\ chat'.cursor = cursor
              /\ chat'.input = input /\ chat'.messages = front /\ chat'.loaded = idle.loaded
        BY <1>6, <3>1, <3>2 DEF Chat
      <3> QED BY <1>5, <1>6, <3>2, <3>3 DEF front
    <2> QED BY <1>1, <2>1, <2>2
  <1>8. TuiType'
    BY <1>1, <1>7 DEF TuiInv, TuiType, Poll
  <1>9. Places' /\ DraftIsKept'
    BY <1>1, <1>2, <1>7 DEF TuiInv, Places, DraftIsKept
  <1>10. PendingIsLast'
    <2>1. \A t \in DOMAIN turns : ~Running(turns[t])
      BY <1>1 DEF TuiInv, PendingIsLast
    <2> QED BY <1>1, <1>7, <2>1 DEF PendingIsLast
  <1>11. LastIsRemembered'
    BY <1>1, <1>7 DEF TuiInv, LastIsRemembered
  <1>12. ScreenIsAnswered'
    BY <1>7 DEF ScreenIsAnswered
  <1> QED BY <1>8, <1>9, <1>10, <1>11, <1>12 DEF TuiInv

LEMMA TuiStepKeeps == TuiConstants /\ TuiInv /\ [TuiNext]_tuiVars => TuiInv'
  <1> SUFFICES ASSUME TuiConstants, TuiInv, [TuiNext]_tuiVars PROVE TuiInv'
    OBVIOUS
  <1>1. CASE UNCHANGED tuiVars
    BY <1>1, QuietKeeps DEF tuiVars, TuiInv, TuiType
  <1>2. CASE Move \/ Refresh \/ OthersTalk
    <2>1. CASE Move \/ Refresh
      BY <2>1, QuietKeeps DEF Move, Refresh, TuiInv, TuiType
    <2> QED BY <1>2, <2>1, OthersTalkKeeps
  <1>3. CASE OpenChat \/ Leave \/ Escape
    BY <1>3, OpenKeepsTui, LeaveKeeps, EscapeKeeps
  <1>4. CASE \E c \in Typed : Input(c)
    BY <1>4, InputKeeps
  <1>5. CASE Backspace \/ Delete
    BY <1>5, BackspaceKeeps, DeleteKeeps
  <1>6. CASE Left \/ Right
    <2>1. CASE Left
      <3>1. chat.cursor - 1 \in 0 .. Len(chat.input)
        BY <2>1, ChatFields DEF Left
      <3>2. Editing([chat EXCEPT !.cursor = chat.cursor - 1])
        BY <2>1 DEF Left
      <3> QED BY <3>1, <3>2, CursorKeeps
    <2>2. CASE Right
      <3>1. chat.cursor + 1 \in 0 .. Len(chat.input)
        BY <2>2, ChatFields DEF Right
      <3>2. Editing([chat EXCEPT !.cursor = chat.cursor + 1])
        BY <2>2 DEF Right
      <3> QED BY <3>1, <3>2, CursorKeeps
    <2> QED BY <1>6, <2>1, <2>2
  <1>7. CASE UpArrow \/ DownArrow
    BY <1>7, UpKeeps, DownKeeps
  <1>8. CASE EnterCommand \/ EnterTurn
    BY <1>8, CommandKeepsTui, EnterTurnKeeps
  <1>9. CASE TurnStores \/ TurnEnds \/ Poll
    BY <1>9, TurnStoresKeeps, TurnEndsKeeps, PollKeeps
  <1> QED BY <1>1, <1>2, <1>3, <1>4, <1>5, <1>6, <1>7, <1>8, <1>9 DEF TuiNext
-------------------------------------------------------------------------------
LEMMA InvShowsPrompts == TuiInv => PromptIsRecallable /\ TurnsAreAwaited
  <1> SUFFICES ASSUME TuiInv PROVE PromptIsRecallable /\ TurnsAreAwaited
    OBVIOUS
  <1>1. DOMAIN turns = 1 .. Len(turns) /\ Len(turns) \in Nat
    BY LenProperties DEF TuiInv, TuiType
  <1>2. PromptIsRecallable
    <2> SUFFICES ASSUME NEW t \in DOMAIN turns, view = "chat", t = Len(turns),
                        \/ chat.pending = t
                        \/ turns[t].end = "error" /\ sends = t /\ chat.history # <<>>
                 PROVE  \/ chat.input = turns[t].prompt
                        \/ chat.history # <<>> /\ Last(chat.history) = turns[t].prompt
      BY Zenon DEF PromptIsRecallable
    <2>1. t # 0 /\ turns # <<>>
      BY <1>1
    <2>2. CASE chat.pending = t
      BY <2>1, <2>2 DEF TuiInv, PendingIsLast
    <2>3. CASE sends = t /\ chat.history # <<>>
      BY <2>1, <2>3 DEF TuiInv, LastIsRemembered
    <2> QED BY <2>2, <2>3
  <1>3. TurnsAreAwaited
    <2>1. /\ Len(chat.loaded) \in Nat /\ Len(chat.messages) \in Nat /\ Len(chat.loaded) <= Len(chat.messages)
          /\ chat.loaded \in Seq(Message) /\ chat.messages \in Seq(Message)
          /\ \A i \in 1 .. Len(chat.loaded) : chat.messages[i] = chat.loaded[i]
      BY ChatFields DEF TuiInv, ScreenIsAnswered, Begins
    <2>2. SubSeq(chat.loaded, 1, Len(chat.loaded)) = SubSeq(chat.messages, 1, Len(chat.loaded))
      BY <2>1
    <2>3. IsPrefix(chat.loaded, chat.messages)
      BY <2>1, <2>2 DEF IsPrefix
    <2> QED BY <2>3 DEF TurnsAreAwaited, TuiInv, PendingIsLast, ScreenIsAnswered, Answered, Awaits
  <1> QED BY <1>2, <1>3

(* A walk through the history ends with the draft, or by typing.           *)
LEMMA DraftReturns ==
  ASSUME TuiConstants, TuiInv, [TuiNext]_tuiVars,
         view = "chat", view' = "chat", chat.index # 0, chat'.index = 0, sends' = sends
  PROVE  chat'.input = chat.kept \/ Len(chat'.input) = Len(chat.input) + 1
  <1> USE ChatFields
  <1>1. CASE chat' = chat
    BY <1>1
  <1>2. CASE OpenChat \/ Leave \/ Escape \/ EnterCommand \/ EnterTurn
    <2>1. sends' # sends \/ view # "chat" \/ view' # "chat"
      BY <1>2 DEF OpenChat, Leave, Escape, EnterCommand, EnterTurn, Entered, TuiInv, TuiType
    <2> QED BY <2>1
  <1>3. ASSUME NEW c \in Typed, Input(c) PROVE Len(chat'.input) = Len(chat.input) + 1
    <2>1. chat'.input = InsertAt(chat.input, chat.cursor + 1, c)
      BY <1>3 DEF Input, Editing, Chat
    <2> QED BY <2>1, Inserted DEF Text
  <1>4. CASE Backspace \/ Delete \/ Left \/ Right
    BY <1>4 DEF Backspace, Delete, Left, Right, Editing, Chat
  <1>5. CASE UpArrow
    <2>1. CASE chat.cursor > 0
      <3>1. chat' = [chat EXCEPT !.cursor = 0]
        BY <1>5, <2>1 DEF UpArrow, Editing
      <3> QED BY <3>1 DEF Chat
    <2>2. CASE ~(chat.cursor > 0)
      <3> DEFINE to == Max({chat.index - 1, 1})
      <3>1. chat'.index = to
        BY <1>5, <2>2 DEF UpArrow, Editing, Chat
      <3>2. \E m \in {chat.index - 1, 1} : \A y \in {chat.index - 1, 1} : m >= y
        OBVIOUS
      <3>3. to \in {chat.index - 1, 1} /\ to >= 1
        BY <3>2 DEF Max
      <3> QED BY <3>1, <3>3
    <2> QED BY <2>1, <2>2
  <1>6. CASE DownArrow
    <2>1. CASE chat.index < Len(chat.history)
      <3>1. chat'.index = chat.index + 1
        BY <1>6, <2>1 DEF DownArrow, Editing, Chat
      <3> QED BY <3>1
    <2>2. CASE ~(chat.index < Len(chat.history))
      <3>1. chat'.input = IF chat.draft = NoDraft THEN <<>> ELSE chat.draft
        BY <1>6, <2>2 DEF DownArrow, Editing, Chat
      <3>2. chat.draft = chat.kept /\ chat.kept \in Text
        BY DEF TuiInv, DraftIsKept
      <3> QED BY <3>1, <3>2, NoDraftIsNoText
    <2> QED BY <2>1, <2>2
  <1>7. CASE Poll
    <2>1. chat'.index = chat.index
      BY <1>7 DEF Poll, Chat
    <2> QED BY <2>1
  <1>8. CASE Move \/ Refresh \/ OthersTalk \/ TurnStores \/ TurnEnds
    BY <1>1, <1>8 DEF Move, Refresh, OthersTalk, TurnStores, TurnEnds
  <1>9. CASE UNCHANGED tuiVars
    BY <1>1, <1>9 DEF tuiVars
  <1> QED BY <1>2, <1>3, <1>4, <1>5, <1>6, <1>7, <1>8, <1>9 DEF TuiNext

(* What the user types in the terminal is not lost: every prompt of a turn *)
(* can be recalled while it may fail, no turn runs unawaited, and the      *)
(* draft comes back from every walk through the history, of any length.    *)
THEOREM TypingIsKept == TuiSpec => NothingTypedIsLost
  <1>1. TuiInit => TuiInv
    BY TuiInitHolds, TuiConstants
  <1>2. TuiInv /\ [TuiNext]_tuiVars => TuiInv'
    BY TuiStepKeeps, TuiConstants
  <1>3. TuiInv /\ [TuiNext]_tuiVars =>
          [ view = "chat" /\ view' = "chat" /\ chat.index # 0 /\ chat'.index = 0 /\ sends' = sends
              => chat'.input = chat.kept \/ Len(chat'.input) = Len(chat.input) + 1 ]_tuiVars
    BY DraftReturns, TuiConstants
  <1>4. TuiInv => PromptIsRecallable /\ TurnsAreAwaited
    BY InvShowsPrompts
  <1> QED BY <1>1, <1>2, <1>3, <1>4, PTL DEF TuiSpec, NothingTypedIsLost, DraftComesBack
===============================================================================
