--------------------------- MODULE SessionTurnsProofs --------------------------
(***************************************************************************)
(* The session of a chat tells what its history lists, and a turn asks the *)
(* question it was given, for any number of turns, rounds and commands and *)
(* however conflicts, compactions, /new and crashes interleave, by one     *)
(* inductive invariant.                                                    *)
(***************************************************************************)
EXTENDS SessionTurns, FiniteSetTheorems, SequenceTheorems, WellFoundedInduction, TLAPS

Places == {"idle", "question", "retry", "ask", "phase", "rebase", "tools", "replace", "answered", "failed"}
Rows == [phase: Phase, stamp: Nat]
Locals == [at: Places, messages: Seq(Message), seen: Nat, attempt: {0, 1}, round: 0 .. MaxRounds,
           lossy: BOOLEAN, stamp: Nat, cleared: BOOLEAN]

TypeOK ==
  /\ session \in [messages: Seq(Message), version: Nat]
  /\ log \in SUBSET Rows /\ IsFiniteSet(log)
  /\ task \in [Tasks -> Locals]
  /\ cut \in BOOLEAN /\ torn \in BOOLEAN

-------------------------------------------------------------------------------
(* The inductive invariant.                                                *)

(* A turn has said its first Reach phases and no other: what is kept of it *)
(* is among them, but for the phase the turn is about to store.            *)
Asking  == {"question", "retry"}
Phasing == {"phase", "rebase"}
Going   == {"ask", "tools"}

Reach(t) ==
  CASE task[t].at \in {"idle"} \cup Asking -> 0
    [] task[t].at \in Phasing              -> task[t].round
    [] task[t].at \in Going                -> task[t].round + 1
    [] OTHER                               -> MaxRounds + 1

Within(phases, t, bound) == \A p \in phases : p[1] = t => p[2] < bound

(* The places of a turn and of a command, and what goes with them.         *)
TurnFits(t) ==
  /\ task[t].at # "replace"
  /\ task[t].at \in {"idle"} \cup Asking => task[t].round = 0
  /\ task[t].at = "ask" => task[t].round < MaxRounds
  /\ task[t].at \in Going => task[t].seen > 0
  /\ task[t].at \in Phasing \cup Going => ~task[t].lossy
  /\ task[t].at \in Phasing =>
       /\ task[t].round > 0
       /\ task[t].messages # <<>>
       /\ Last(task[t].messages).role \in ByAssistant
       /\ Last(task[t].messages).says = {<<t, task[t].round>>}
  /\ Within(Said(task[t].messages), t, task[t].round + 1)

PlacesFit ==
  /\ \A t \in Turns : TurnFits(t)
  /\ \A c \in Compactors : task[c].at \in {"idle", "replace", "answered", "failed"}
  /\ \A t \in Tasks : task[t].at \in {"idle", "answered", "failed"} => task[t].messages = <<>>
  /\ session = NoSession \/ session.version > 0
  /\ session = NoSession /\ ~torn => log = {}

PhasesAreOwn ==
  \A t \in Turns :
    /\ Within(Said(session.messages), t, Reach(t))
    /\ Within(Logged, t, Reach(t))
    /\ \A u \in Tasks \ {t} : Within(Said(task[u].messages), t, Reach(t))

AllInOrder == InOrder(session.messages) /\ \A t \in Tasks : InOrder(task[t].messages)

(* The timestamps of the rows, and of the rows the turns are about to      *)
(* write, are all different, and in the order of each turn's phases.       *)
Pending(t) == task[t].at \in Asking \cup Phasing

RowsInOrder ==
  /\ \A r, q \in log : r.stamp = q.stamp => r = q
  /\ \A r, q \in log : r.phase[1] = q.phase[1] => (r.phase[2] < q.phase[2] <=> r.stamp < q.stamp)

StampFits(t) ==
  Pending(t) =>
    /\ \A r \in log : r.stamp # task[t].stamp /\ (r.phase[1] = t => r.stamp < task[t].stamp)
    /\ \A u \in Turns \ {t} : Pending(u) => task[u].stamp # task[t].stamp

LogInOrder == RowsInOrder /\ \A t \in Turns : StampFits(t)

(* A turn whose version is the session's holds what the session tells and  *)
(* what it is about to say, and less only if its summary failed.           *)
Saying(t) == IF task[t].at \in {"question", "phase"} THEN {<<t, task[t].round>>} ELSE {}

InStep(t) ==
  task[t].at \in {"question", "phase"} \cup Going =>
    /\ Saying(t) \subseteq Said(task[t].messages)
    /\ task[t].seen = 0 /\ ~torn => Said(task[t].messages) \subseteq Saying(t)
    /\ session # NoSession /\ task[t].seen = session.version =>
         /\ ~task[t].lossy => Said(session.messages) \subseteq Said(task[t].messages)
         /\ Said(task[t].messages) \subseteq Said(session.messages) \cup Saying(t)

TurnsInStep == \A t \in Turns : InStep(t)

(* Once it is stored, a question stays, unless it is cleared or cut.       *)
QuestionStays(t) ==
  task[t].at \in Phasing \cup Going /\ ~task[t].cleared =>
    /\ session # NoSession
    /\ ~cut => <<t, 0>> \in Said(task[t].messages) /\ <<t, 0>> \in Said(session.messages)

QuestionsStay == \A t \in Turns : QuestionStays(t)

IInv ==
  /\ TypeOK /\ PlacesFit /\ PhasesAreOwn /\ AllInOrder /\ LogInOrder /\ TurnsInStep
  /\ QuestionsStay /\ SnapshotMatchesLog
-------------------------------------------------------------------------------
(* Naturals and finite sets.                                               *)

(* A set of naturals has a least member.                                   *)
LEMMA LeastMember ==
  ASSUME NEW T, T \subseteq Nat, T # {}
  PROVE  \E least \in T : \A t \in T : least <= t
  <1>1. PICK least \in T : \A t \in T : <<t, least>> \notin OpToRel(<, Nat)
    BY WFMin, NatLessThanWellFounded, Zenon
  <1>2. \A t \in T : t \in Nat /\ least \in Nat /\ ~ (t < least)
    <2> TAKE t \in T
    <2>1. t \in Nat /\ least \in Nat
      BY Zenon
    <2>2. <<t, least>> \notin OpToRel(<, Nat)
      BY <1>1
    <2>3. ~ (t < least)
      BY <2>1, <2>2 DEF OpToRel
    <2> QED BY <2>1, <2>3
  <1> QED
    BY <1>2

(* A finite set of naturals has a bound.                                   *)
LEMMA FiniteIsBounded ==
  ASSUME NEW S, S \subseteq Nat, IsFiniteSet(S)
  PROVE  \E b \in Nat : \A x \in S : x <= b
  <1> DEFINE Bounded(T) == \E b \in Nat : \A x \in T : x <= b
  <1> DEFINE Sizes == {n \in Nat : \E T \in SUBSET S : Cardinality(T) = n /\ ~Bounded(T)}
  <1> SUFFICES ASSUME ~Bounded(S) PROVE FALSE
    OBVIOUS
  <1>1. Cardinality(S) \in Sizes
    BY FS_CardinalityType
  <1>2. PICK n \in Sizes : \A m \in Sizes : n <= m
    BY <1>1, LeastMember
  <1>3. PICK T \in SUBSET S : Cardinality(T) = n /\ ~Bounded(T)
    BY <1>2
  <1>4. PICK x \in T : TRUE
    <2>1. Bounded({})
      OBVIOUS
    <2> QED BY <2>1, <1>3
  <1>5. IsFiniteSet(T) /\ Cardinality(T \ {x}) = n - 1 /\ n \in Nat
    BY <1>2, <1>3, <1>4, FS_Subset, FS_RemoveElement
  <1>6. n - 1 \in Nat
    BY <1>3, <1>4, <1>5, FS_RemoveElement, FS_CardinalityType
  <1>7. Bounded(T \ {x})
    BY <1>2, <1>3, <1>5, <1>6
  <1>8. PICK b \in Nat : \A y \in T \ {x} : y <= b
    BY <1>7
  <1>9. Bounded(T)
    <2>1. x \in Nat /\ T \subseteq Nat
      BY <1>4
    <2>2. CASE x <= b
      BY <2>1, <2>2, <1>8
    <2>3. CASE ~(x <= b)
      BY <2>1, <2>3, <1>8
    <2> QED BY <2>2, <2>3
  <1> QED BY <1>9, <1>3

LEMMA MaxOfFinite ==
  ASSUME NEW S, S \subseteq Nat, IsFiniteSet(S), S # {}
  PROVE  Max(S) \in S /\ \A x \in S : x <= Max(S)
  <1> DEFINE Bounds == {b \in Nat : \A x \in S : x <= b}
  <1>1. Bounds # {}
    BY FiniteIsBounded
  <1>2. PICK b \in Bounds : \A c \in Bounds : b <= c
    BY <1>1, LeastMember
  <1>3. b \in S
    <2> SUFFICES ASSUME b \notin S PROVE FALSE
      OBVIOUS
    <2>1. \A x \in S : x \in Nat /\ x < b
      BY <1>2
    <2>2. b > 0
      <3>1. PICK x \in S : TRUE
        OBVIOUS
      <3> QED BY <3>1, <2>1, <1>2
    <2>3. b - 1 \in Nat /\ \A x \in S : x <= b - 1
      BY <2>1, <2>2, <1>2
    <2> QED BY <2>3, <1>2
  <1>4. \E m \in S : \A y \in S : m >= y
    BY <1>2, <1>3
  <1>5. Max(S) \in S /\ \A y \in S : Max(S) >= y
    BY <1>4 DEF Max
  <1> QED BY <1>5

RankIn(S, key, x) == Cardinality({y \in S : key[y] <= key[x]})

(* The elements of a finite set with different keys have all the ranks.    *)
LEMMA RanksAreTaken ==
  ASSUME NEW S, IsFiniteSet(S), NEW key \in [S -> Nat],
         \A x, y \in S : key[x] = key[y] => x = y
  PROVE  \A n \in 1 .. Cardinality(S) :
           \E x \in S : RankIn(S, key, x) = n
  <1> TAKE n \in 1 .. Cardinality(S)
  <1> DEFINE UpTo(k) == {y \in S : key[y] <= k}
  <1> DEFINE Enough == {k \in Nat : Cardinality(UpTo(k)) >= n}
  <1> DEFINE Taken == {key[y] : y \in S}
  <1>1. \A T \in SUBSET S : IsFiniteSet(T) /\ Cardinality(T) \in Nat /\ n \in Nat /\ n > 0
    BY FS_Subset, FS_CardinalityType
  <1>2. Enough # {}
    <2>1. Taken \subseteq Nat /\ key \in Surjection(S, Taken)
      BY DEF Surjection
    <2>2. IsFiniteSet(Taken)
      BY <2>1, FS_Surjection
    <2>3. PICK b \in Nat : \A k \in Taken : k <= b
      BY <2>1, <2>2, FiniteIsBounded
    <2>4. UpTo(b) = S
      BY <2>3
    <2>5. b \in Enough
      BY <2>4, <1>1
    <2> QED BY <2>5
  <1>3. PICK k \in Enough : \A other \in Enough : k <= other
    BY <1>2, LeastMember
  <1> DEFINE Below == {y \in S : key[y] < k}
  <1>4. Cardinality(Below) < n
    <2>1. CASE k = 0
      <3>1. Below = {}
        BY <2>1
      <3> QED BY <3>1, <1>1, FS_EmptySet
    <2>2. CASE k # 0
      <3>1. k - 1 \in Nat /\ k - 1 \notin Enough
        BY <2>2, <1>3
      <3>2. Below = UpTo(k - 1)
        BY <2>2, <1>3
      <3>3. Cardinality(UpTo(k - 1)) \in Nat /\ ~(Cardinality(UpTo(k - 1)) >= n)
        BY <3>1, <1>1
      <3> QED BY <3>2, <3>3, <1>1
    <2> QED BY <2>1, <2>2
  <1>5. PICK x \in UpTo(k) : x \notin Below
    <2>1. Cardinality(UpTo(k)) >= n /\ Cardinality(UpTo(k)) \in Nat /\ Cardinality(Below) \in Nat
      BY <1>1, <1>3
    <2>2. Below \subseteq UpTo(k)
      BY <1>3
    <2> QED BY <2>1, <2>2, <1>4, <1>1
  <1>6. x \in S /\ key[x] = k
    BY <1>3, <1>5
  <1>7. UpTo(k) = Below \cup {x} /\ x \notin Below
    BY <1>3, <1>5, <1>6
  <1>8. Cardinality(UpTo(k)) = Cardinality(Below) + 1
    BY <1>1, <1>7, FS_AddElement
  <1>9. Cardinality(UpTo(k)) = n
    BY <1>1, <1>3, <1>4, <1>8
  <1>10. {y \in S : key[y] <= key[x]} = UpTo(k)
    BY <1>6
  <1> QED BY <1>6, <1>9, <1>10 DEF RankIn
-------------------------------------------------------------------------------
(* What sequences of messages tell, and in which order.                    *)

LEMMA SaidIs ==
  ASSUME NEW s, NEW p
  PROVE  p \in Said(s) <=> \E i \in DOMAIN s : s[i].role # "tool" /\ p \in s[i].says
  BY DEF Said

LEMMA SaidOfNothing == Said(<<>>) = {} /\ InOrder(<<>>)
  BY DEF Said, InOrder

LEMMA SaidIsPhases ==
  ASSUME NEW s \in Seq(Message)
  PROVE  Said(s) \in SUBSET Phase
  <1> SUFFICES ASSUME NEW p \in Said(s) PROVE p \in Phase
    OBVIOUS
  <1>1. PICK i \in DOMAIN s : p \in s[i].says
    BY SaidIs
  <1>2. s[i] \in Message
    OBVIOUS
  <1> QED BY <1>1, <1>2 DEF Message

(* What a message more tells.                                              *)
LEMMA SaidWithOneMore ==
  ASSUME NEW s \in Seq(Message), NEW m \in Message
  PROVE  /\ Append(s, m) \in Seq(Message) /\ Append(s, m) # <<>> /\ Last(Append(s, m)) = m
         /\ m.role = "tool" => Said(Append(s, m)) = Said(s)
         /\ m.role # "tool" => Said(Append(s, m)) = Said(s) \cup m.says
  <1>1. /\ Append(s, m) \in Seq(Message) /\ Len(Append(s, m)) = Len(s) + 1
        /\ DOMAIN Append(s, m) = 1 .. (Len(s) + 1) /\ DOMAIN s = 1 .. Len(s)
        /\ Append(s, m)[Len(s) + 1] = m
        /\ \A i \in 1 .. Len(s) : Append(s, m)[i] = s[i]
    OBVIOUS
  <1>2. ASSUME NEW p
        PROVE  p \in Said(Append(s, m)) <=> p \in Said(s) \/ (m.role # "tool" /\ p \in m.says)
    <2>1. p \in Said(Append(s, m)) <=>
            \E i \in 1 .. (Len(s) + 1) : Append(s, m)[i].role # "tool" /\ p \in Append(s, m)[i].says
      BY <1>1, SaidIs
    <2>2. p \in Said(s) <=> \E i \in 1 .. Len(s) : s[i].role # "tool" /\ p \in s[i].says
      BY <1>1, SaidIs
    <2>3. Len(s) \in Nat
      OBVIOUS
    <2>4. \A i \in 1 .. (Len(s) + 1) : i \in 1 .. Len(s) \/ i = Len(s) + 1
      BY <2>3
    <2>5. 1 .. Len(s) \subseteq 1 .. (Len(s) + 1) /\ Len(s) + 1 \in 1 .. (Len(s) + 1)
      BY <2>3
    <2> QED BY <2>1, <2>2, <2>4, <2>5, <1>1
  <1>3. Append(s, m) # <<>> /\ Last(Append(s, m)) = m
    BY <1>1 DEF Last
  <1> QED BY <1>1, <1>2, <1>3

(* A tool result changes no order, nor does a phase later than its turn's. *)
LEMMA OrderWithOneMore ==
  ASSUME NEW s \in Seq(Message), NEW m \in Message, InOrder(s),
         NEW t, NEW k \in Nat,
         m.role = "tool" \/ (m.says = {<<t, k>>} /\ Within(Said(s), t, k))
  PROVE  InOrder(Append(s, m))
  <1> DEFINE all == Append(s, m)
  <1>1. /\ Len(all) = Len(s) + 1 /\ DOMAIN all = 1 .. (Len(s) + 1) /\ DOMAIN s = 1 .. Len(s)
        /\ Len(s) \in Nat /\ all[Len(s) + 1] = m
        /\ \A i \in 1 .. Len(s) : all[i] = s[i]
    OBVIOUS
  <1> SUFFICES ASSUME NEW i \in DOMAIN all, NEW j \in DOMAIN all, i < j,
                      all[i].role # "tool", all[j].role # "tool",
                      NEW p \in all[i].says, NEW q \in all[j].says, p[1] = q[1]
               PROVE  p[2] < q[2]
    BY DEF InOrder
  <1>2. i \in DOMAIN s /\ all[i] = s[i]
    BY <1>1
  <1>3. CASE j = Len(s) + 1
    <2>1. q = <<t, k>>
      BY <1>1, <1>3
    <2>2. p \in Said(s)
      BY <1>2, SaidIs
    <2> QED BY <2>1, <2>2, <1>1, <1>3 DEF Within
  <1>4. CASE j # Len(s) + 1
    <2>1. j \in DOMAIN s /\ all[j] = s[j]
      BY <1>1, <1>4
    <2> QED BY <1>2, <2>1 DEF InOrder
  <1> QED BY <1>3, <1>4

-------------------------------------------------------------------------------
(* Merging.                                                                *)

LEMMA GroupsRise ==
  ASSUME NEW s \in Seq(Message)
  PROVE  /\ Starts(s) \subseteq Nat /\ IsFiniteSet(Starts(s)) /\ Cardinality(Starts(s)) \in Nat
         /\ \A i \in DOMAIN s : Group(s, i) \in 1 .. Cardinality(Starts(s))
         /\ \A i, j \in DOMAIN s : i <= j => Group(s, i) <= Group(s, j)
         /\ \A i, j \in DOMAIN s : i < j /\ j \in Starts(s) => Group(s, i) < Group(s, j)
         /\ \A n \in 1 .. Cardinality(Starts(s)) : \E i \in DOMAIN s : Group(s, i) = n
         /\ s # <<>> => Len(s) \in DOMAIN s /\ Group(s, Len(s)) = Cardinality(Starts(s))
  <1> DEFINE S == Starts(s)
  <1> DEFINE UpTo(i) == {j \in S : j <= i}
  <1>1. S \subseteq DOMAIN s /\ DOMAIN s = 1 .. Len(s) /\ Len(s) \in Nat /\ (s # <<>> => Len(s) > 0)
    BY DEF Starts
  <1>2. S \subseteq Nat /\ IsFiniteSet(S) /\ Cardinality(S) \in Nat
    <2>1. IsFiniteSet(1 .. Len(s))
      BY <1>1, FS_Interval
    <2>2. IsFiniteSet(S)
      BY <1>1, <2>1, FS_Subset
    <2> QED BY <1>1, <2>2, FS_CardinalityType
  <1>3. \A T \in SUBSET S : IsFiniteSet(T) /\ Cardinality(T) \in Nat /\ Cardinality(T) <= Cardinality(S)
    BY <1>2, FS_Subset, FS_CardinalityType
  <1>4. \A i : Group(s, i) = Cardinality(UpTo(i))
    BY DEF Group
  <1>5. \A i \in DOMAIN s : 1 \in UpTo(i)
    BY <1>1 DEF Starts
  <1>6. \A i \in DOMAIN s : Group(s, i) \in 1 .. Cardinality(S)
    <2> TAKE i \in DOMAIN s
    <2>1. IsFiniteSet(UpTo(i)) /\ Cardinality(UpTo(i)) \in Nat /\ Cardinality(UpTo(i)) <= Cardinality(S)
      BY <1>3
    <2>2. Cardinality(UpTo(i)) # 0
      BY <2>1, <1>5, FS_EmptySet
    <2> QED BY <2>1, <2>2, <1>2, <1>4
  <1>7. ASSUME NEW i \in DOMAIN s, NEW j \in DOMAIN s, i <= j
        PROVE  Group(s, i) <= Group(s, j) /\ UpTo(i) \subseteq UpTo(j)
    <2>1. UpTo(i) \subseteq UpTo(j)
      BY <1>1, <1>7
    <2>2. IsFiniteSet(UpTo(j)) /\ UpTo(i) \in SUBSET UpTo(j)
      BY <1>3, <2>1
    <2>3. Cardinality(UpTo(i)) <= Cardinality(UpTo(j))
      BY <2>2, FS_Subset, Zenon
    <2> QED BY <2>1, <2>3, <1>4
  <1>8. ASSUME NEW i \in DOMAIN s, NEW j \in DOMAIN s, i < j, j \in S
        PROVE  Group(s, i) < Group(s, j)
    <2>1. UpTo(i) \subseteq UpTo(j) /\ j \in UpTo(j) /\ j \notin UpTo(i)
      BY <1>1, <1>7, <1>8
    <2>2. IsFiniteSet(UpTo(j)) /\ Cardinality(UpTo(i)) \in Nat /\ Cardinality(UpTo(j)) \in Nat
      BY <1>3
    <2>3. Cardinality(UpTo(i)) <= Cardinality(UpTo(j)) /\ Cardinality(UpTo(i)) # Cardinality(UpTo(j))
      BY <2>1, <2>2, FS_Subset
    <2> QED BY <2>2, <2>3, <1>4
  <1>9. ASSUME NEW n \in 1 .. Cardinality(S)
        PROVE  \E i \in DOMAIN s : Group(s, i) = n
    <2>1. PICK key \in [S -> Nat] : \A x \in S : key[x] = x
      <3> DEFINE id == [j \in S |-> j]
      <3>1. id \in [S -> Nat] /\ \A x \in S : id[x] = x
        BY <1>2
      <3> QED BY <3>1
    <2>2. \A x, y \in S : key[x] = key[y] => x = y
      BY <2>1
    <2>3. PICK x \in S : RankIn(S, key, x) = n
      BY <1>2, <2>2, RanksAreTaken
    <2>4. {y \in S : key[y] <= key[x]} = UpTo(x)
      BY <2>1
    <2> QED BY <2>3, <2>4, <1>1, <1>4 DEF RankIn
  <1>10. ASSUME s # <<>>
         PROVE  Len(s) \in DOMAIN s /\ Group(s, Len(s)) = Cardinality(S)
    <2>1. UpTo(Len(s)) = S
      BY <1>1
    <2> QED BY <2>1, <1>1, <1>4, <1>10
  <1> QED BY <1>2, <1>6, <1>7, <1>8, <1>9, <1>10

(* Messages of one group have one role.                                    *)
LEMMA GroupsHaveARole ==
  ASSUME NEW s \in Seq(Message), NEW i \in DOMAIN s, NEW j \in DOMAIN s, Group(s, i) = Group(s, j)
  PROVE  s[i].role = s[j].role
  <1> SUFFICES ASSUME NEW a \in DOMAIN s, NEW b \in DOMAIN s, a <= b, Group(s, a) = Group(s, b)
               PROVE  s[a].role = s[b].role
    <2>1. i \in Nat /\ j \in Nat
      OBVIOUS
    <2> QED BY <2>1
  <1> DEFINE Others == {k \in DOMAIN s : a <= k /\ k <= b /\ s[k].role # s[a].role}
  <1> SUFFICES ASSUME Others # {} PROVE FALSE
    OBVIOUS
  <1>1. DOMAIN s = 1 .. Len(s) /\ Len(s) \in Nat
    OBVIOUS
  <1>2. Others \subseteq Nat
    BY <1>1
  <1>3. PICK k \in Others : \A other \in Others : k <= other
    BY <1>2, LeastMember
  <1>4. k \in DOMAIN s /\ a < k /\ k <= b /\ k - 1 \in DOMAIN s /\ a <= k - 1 /\ k - 1 <= b /\ k - 1 < k
    BY <1>1, <1>3
  <1>5. s[k - 1].role = s[a].role
    <2>1. k - 1 \notin Others
      BY <1>3, <1>4, <1>2
    <2> QED BY <2>1, <1>4
  <1>6. /\ \A x \in DOMAIN s : Group(s, x) \in 1 .. Cardinality(Starts(s))
        /\ \A x, y \in DOMAIN s : x <= y => Group(s, x) <= Group(s, y)
        /\ \A x, y \in DOMAIN s : x < y /\ y \in Starts(s) => Group(s, x) < Group(s, y)
    BY GroupsRise, Zenon
  <1>7. Group(s, k - 1) = Group(s, k)
    <2>1. /\ Group(s, a) <= Group(s, k - 1) /\ Group(s, k - 1) <= Group(s, k)
          /\ Group(s, k) <= Group(s, b)
      BY <1>1, <1>4, <1>6
    <2>2. Group(s, a) \in Nat /\ Group(s, k - 1) \in Nat /\ Group(s, k) \in Nat /\ Group(s, b) \in Nat
      BY <1>4, <1>6
    <2> QED BY <2>1, <2>2
  <1>8. k \notin Starts(s)
    <2>1. Group(s, k) \in Nat
      BY <1>4, <1>6
    <2>2. k \in Starts(s) => Group(s, k - 1) < Group(s, k)
      BY <1>4, <1>6
    <2> QED BY <1>7, <2>1, <2>2
  <1>9. s[k - 1].role = s[k].role
    BY <1>8, <1>4 DEF Starts, CanMerge
  <1> QED BY <1>3, <1>5, <1>9

LEMMA MergedTells ==
  ASSUME NEW s \in Seq(Message)
  PROVE  /\ Merged(s) \in Seq(Message)
         /\ Said(Merged(s)) = Said(s)
         /\ InOrder(s) => InOrder(Merged(s))
         /\ s # <<>> => /\ Merged(s) # <<>>
                        /\ Last(Merged(s)).role = Last(s).role
                        /\ Last(s).says \subseteq Last(Merged(s)).says
  <1> DEFINE Size == Cardinality(Starts(s))
  <1> DEFINE Members(n) == {i \in DOMAIN s : Group(s, i) = n}
  <1> DEFINE all == Merged(s)
  <1>1. /\ Size \in Nat
        /\ \A i \in DOMAIN s : Group(s, i) \in 1 .. Size
        /\ \A i, j \in DOMAIN s : i <= j => Group(s, i) <= Group(s, j)
        /\ \A n \in 1 .. Size : \E i \in DOMAIN s : Group(s, i) = n
        /\ s # <<>> => Len(s) \in DOMAIN s /\ Group(s, Len(s)) = Size
    BY GroupsRise, Zenon
  <1>2. \A i \in DOMAIN s : s[i] \in Message /\ i \in Nat
    OBVIOUS
  <1>3. ASSUME NEW n \in 1 .. Size
        PROVE  /\ all[n].says = UNION {s[i].says : i \in Members(n)}
               /\ \A i \in Members(n) : all[n].role = s[i].role
               /\ all[n] \in Message
               /\ Members(n) # {}
    <2> DEFINE one == CHOOSE i \in Members(n) : TRUE
    <2>1. all[n] = [role |-> s[one].role, says |-> UNION {s[i].says : i \in Members(n)}]
      BY DEF Merged
    <2>2. Members(n) # {}
      BY <1>1
    <2>3. one \in Members(n)
      BY <2>2
    <2> HIDE DEF one
    <2>4. \A i \in Members(n) : s[one].role = s[i].role
      BY <2>3, GroupsHaveARole
    <2>5. UNION {s[i].says : i \in Members(n)} \in SUBSET Phase
      <3> SUFFICES ASSUME NEW i \in Members(n) PROVE s[i].says \in SUBSET Phase
        OBVIOUS
      <3> QED BY <1>2 DEF Message
    <2>6. s[one].role \in {"user", "assistant", "call", "tool"}
      BY <2>3, <1>2 DEF Message
    <2> QED BY <2>1, <2>2, <2>4, <2>5, <2>6 DEF Message
  <1>4. DOMAIN all = 1 .. Size /\ all \in Seq(Message) /\ Len(all) = Size
    <2>1. all = [n \in 1 .. Size |-> all[n]]
      BY DEF Merged
    <2>2. all \in [1 .. Size -> Message]
      BY <2>1, <1>3
    <2>3. all \in Seq(Message)
      BY <2>2, <1>1
    <2> QED BY <2>2, <2>3, <1>1
  <1> HIDE DEF all
  <1>5. Said(all) = Said(s)
    <2>1. ASSUME NEW p \in Said(all) PROVE p \in Said(s)
      <3>1. PICK n \in DOMAIN all : all[n].role # "tool" /\ p \in all[n].says
        BY <2>1, SaidIs
      <3>2. PICK i \in Members(n) : p \in s[i].says
        BY <3>1, <1>3, <1>4
      <3>3. s[i].role # "tool"
        BY <3>1, <3>2, <1>3, <1>4
      <3> QED BY <3>2, <3>3, SaidIs
    <2>2. ASSUME NEW p \in Said(s) PROVE p \in Said(all)
      <3>1. PICK i \in DOMAIN s : s[i].role # "tool" /\ p \in s[i].says
        BY <2>2, SaidIs
      <3>2. Group(s, i) \in 1 .. Size /\ i \in Members(Group(s, i))
        BY <1>1
      <3>3. all[Group(s, i)].role # "tool" /\ p \in all[Group(s, i)].says
        BY <3>1, <3>2, <1>3
      <3> QED BY <3>2, <3>3, <1>4, SaidIs
    <2> QED BY <2>1, <2>2
  <1>6. ASSUME InOrder(s)
        PROVE  InOrder(all)
    <2> SUFFICES ASSUME NEW n \in DOMAIN all, NEW m \in DOMAIN all, n < m,
                        all[n].role # "tool", all[m].role # "tool",
                        NEW p \in all[n].says, NEW q \in all[m].says, p[1] = q[1]
                 PROVE  p[2] < q[2]
      BY DEF InOrder
    <2>1. PICK i \in Members(n) : p \in s[i].says
      BY <1>3, <1>4
    <2>2. PICK j \in Members(m) : q \in s[j].says
      BY <1>3, <1>4
    <2>3. s[i].role # "tool" /\ s[j].role # "tool"
      BY <2>1, <2>2, <1>3, <1>4
    <2>4. i < j
      <3> SUFFICES ASSUME ~(i < j) PROVE FALSE
        OBVIOUS
      <3>1. j <= i
        BY <1>2
      <3>2. Group(s, j) <= Group(s, i)
        BY <3>1, <1>1
      <3> QED BY <3>2, <1>4
    <2> QED BY <1>6, <2>1, <2>2, <2>3, <2>4 DEF InOrder
  <1>7. ASSUME s # <<>>
        PROVE  all # <<>> /\ Last(all).role = Last(s).role /\ Last(s).says \subseteq Last(all).says
    <2>1. Len(s) \in Members(Size) /\ Size \in 1 .. Size
      BY <1>1, <1>7
    <2>2. all[Size].role = s[Len(s)].role /\ s[Len(s)].says \subseteq all[Size].says
      BY <2>1, <1>3
    <2>3. all # <<>>
      BY <2>1, <1>4
    <2> QED BY <2>2, <2>3, <1>4 DEF Last
  <1> QED BY <1>4, <1>5, <1>6, <1>7 DEF all

(* A trailing reply that is dropped is one message less.                   *)
LEMMA WithoutReply ==
  ASSUME NEW s \in Seq(Message), s # <<>>
  PROVE  /\ WithoutTrailingReply(s) \in Seq(Message)
         /\ Said(WithoutTrailingReply(s)) \subseteq Said(s)
         /\ InOrder(s) => InOrder(WithoutTrailingReply(s))
         /\ Last(s).role = "user" => WithoutTrailingReply(s) = s
  <1>1. CASE Last(s).role \notin ByAssistant
    BY <1>1 DEF WithoutTrailingReply
  <1>2. CASE Last(s).role \in ByAssistant
    <2> DEFINE front == SubSeq(s, 1, Len(s) - 1)
    <2>1. WithoutTrailingReply(s) = front
      BY <1>2 DEF WithoutTrailingReply, Front
    <2>2. Len(s) \in Nat /\ Len(s) > 0 /\ DOMAIN s = 1 .. Len(s)
      OBVIOUS
    <2>3. front \in Seq(Message) /\ DOMAIN front = 1 .. (Len(s) - 1) /\ \A i \in 1 .. (Len(s) - 1) : front[i] = s[i]
      BY <2>2
    <2>4. DOMAIN front \subseteq DOMAIN s
      BY <2>2, <2>3
    <2> HIDE DEF front
    <2>5. ASSUME NEW p \in Said(front) PROVE p \in Said(s)
      <3>1. PICK i \in DOMAIN front : front[i].role # "tool" /\ p \in front[i].says
        BY <2>5, SaidIs
      <3> QED BY <3>1, <2>3, <2>4, SaidIs
    <2>6. InOrder(s) => InOrder(front)
      BY <2>3, <2>4 DEF InOrder
    <2>7. Last(s).role # "user"
      BY <1>2 DEF ByAssistant
    <2> QED BY <2>1, <2>3, <2>5, <2>6, <2>7
  <1> QED BY <1>1, <1>2

-------------------------------------------------------------------------------
(* Compacting and loading.                                                 *)

IsJoined(all, left, right) ==
  /\ Len(all) = Len(left) + Len(right)
  /\ \A i \in 1 .. Len(left) : all[i] = left[i]
  /\ \A i \in 1 .. Len(right) : all[Len(left) + i] = right[i]

(* Messages in a row, first the ones and then the others.                  *)
LEMMA JoinedTells ==
  ASSUME NEW all \in Seq(Message), NEW left \in Seq(Message), NEW right \in Seq(Message),
         IsJoined(all, left, right)
  PROVE  /\ Said(all) = Said(left) \cup Said(right)
         /\ InOrder(all) <=>
              /\ InOrder(left) /\ InOrder(right)
              /\ \A p \in Said(left), q \in Said(right) : p[1] = q[1] => p[2] < q[2]
  <1>1. /\ Len(left) \in Nat /\ Len(right) \in Nat
        /\ DOMAIN left = 1 .. Len(left) /\ DOMAIN right = 1 .. Len(right)
        /\ DOMAIN all = 1 .. (Len(left) + Len(right))
        /\ \A i \in 1 .. Len(left) : i \in DOMAIN all /\ all[i] = left[i]
        /\ \A i \in 1 .. Len(right) : Len(left) + i \in DOMAIN all /\ all[Len(left) + i] = right[i]
    BY DEF IsJoined
  <1>2. \A i \in DOMAIN all : i \in DOMAIN left \/ (~(i <= Len(left)) /\ i - Len(left) \in DOMAIN right
                                                     /\ Len(left) + (i - Len(left)) = i)
    BY <1>1
  <1>3. Said(all) = Said(left) \cup Said(right)
    <2>1. ASSUME NEW p \in Said(all) PROVE p \in Said(left) \cup Said(right)
      <3>1. PICK i \in DOMAIN all : all[i].role # "tool" /\ p \in all[i].says
        BY <2>1, SaidIs
      <3>2. CASE i \in DOMAIN left
        <4>1. all[i] = left[i]
          BY <3>2, <1>1
        <4> QED BY <3>1, <3>2, <4>1, SaidIs
      <3>3. CASE i \notin DOMAIN left
        <4>1. i - Len(left) \in DOMAIN right /\ all[i] = right[i - Len(left)]
          BY <3>3, <1>1, <1>2
        <4> QED BY <3>1, <4>1, SaidIs
      <3> QED BY <3>2, <3>3
    <2>2. ASSUME NEW p \in Said(left) PROVE p \in Said(all)
      <3>1. PICK i \in DOMAIN left : left[i].role # "tool" /\ p \in left[i].says
        BY <2>2, SaidIs
      <3>2. i \in DOMAIN all /\ all[i] = left[i]
        BY <1>1
      <3> QED BY <3>1, <3>2, SaidIs
    <2>3. ASSUME NEW p \in Said(right) PROVE p \in Said(all)
      <3>1. PICK i \in DOMAIN right : right[i].role # "tool" /\ p \in right[i].says
        BY <2>3, SaidIs
      <3>2. Len(left) + i \in DOMAIN all /\ all[Len(left) + i] = right[i]
        BY <1>1
      <3> QED BY <3>1, <3>2, SaidIs
    <2> QED BY <2>1, <2>2, <2>3
  <1>4. ASSUME InOrder(all)
        PROVE  /\ InOrder(left) /\ InOrder(right)
               /\ \A p \in Said(left), q \in Said(right) : p[1] = q[1] => p[2] < q[2]
    <2>1. InOrder(left)
      BY <1>1, <1>4 DEF InOrder
    <2>2. InOrder(right)
      <3> SUFFICES ASSUME NEW i \in DOMAIN right, NEW j \in DOMAIN right, i < j,
                          right[i].role # "tool", right[j].role # "tool",
                          NEW p \in right[i].says, NEW q \in right[j].says, p[1] = q[1]
                   PROVE  p[2] < q[2]
        BY DEF InOrder
      <3>1. /\ Len(left) + i \in DOMAIN all /\ all[Len(left) + i] = right[i]
            /\ Len(left) + j \in DOMAIN all /\ all[Len(left) + j] = right[j]
            /\ Len(left) + i < Len(left) + j
        BY <1>1
      <3> QED BY <3>1, <1>4 DEF InOrder
    <2>3. ASSUME NEW p \in Said(left), NEW q \in Said(right), p[1] = q[1]
          PROVE  p[2] < q[2]
      <3>1. PICK i \in DOMAIN left : left[i].role # "tool" /\ p \in left[i].says
        BY <2>3, SaidIs
      <3>2. PICK j \in DOMAIN right : right[j].role # "tool" /\ q \in right[j].says
        BY <2>3, SaidIs
      <3>3. /\ i \in DOMAIN all /\ all[i] = left[i] /\ Len(left) + j \in DOMAIN all
            /\ all[Len(left) + j] = right[j] /\ i < Len(left) + j
        BY <1>1
      <3> QED BY <3>1, <3>2, <3>3, <2>3, <1>4 DEF InOrder
    <2> QED BY <2>1, <2>2, <2>3
  <1>5. ASSUME InOrder(left), InOrder(right),
               \A p \in Said(left), q \in Said(right) : p[1] = q[1] => p[2] < q[2]
        PROVE  InOrder(all)
    <2> SUFFICES ASSUME NEW i \in DOMAIN all, NEW j \in DOMAIN all, i < j,
                        all[i].role # "tool", all[j].role # "tool",
                        NEW p \in all[i].says, NEW q \in all[j].says, p[1] = q[1]
                 PROVE  p[2] < q[2]
      BY DEF InOrder
    <2>1. CASE j \in DOMAIN left
      <3>1. i \in DOMAIN left /\ all[i] = left[i] /\ all[j] = left[j]
        BY <2>1, <1>1
      <3> QED BY <2>1, <3>1, <1>5 DEF InOrder
    <2>2. CASE i \in DOMAIN left /\ j \notin DOMAIN left
      <3>1. all[i] = left[i] /\ j - Len(left) \in DOMAIN right /\ all[j] = right[j - Len(left)]
        BY <2>2, <1>1, <1>2
      <3>2. p \in Said(left) /\ q \in Said(right)
        BY <2>2, <3>1, SaidIs
      <3> QED BY <3>2, <1>5
    <2>3. CASE i \notin DOMAIN left /\ j \notin DOMAIN left
      <3>1. /\ i - Len(left) \in DOMAIN right /\ all[i] = right[i - Len(left)]
            /\ j - Len(left) \in DOMAIN right /\ all[j] = right[j - Len(left)]
        BY <2>3, <1>1, <1>2
      <3>2. i - Len(left) < j - Len(left)
        BY <1>1
      <3> QED BY <3>1, <3>2, <1>5 DEF InOrder
    <2> QED BY <2>1, <2>2, <2>3
  <1> QED BY <1>3, <1>4, <1>5

(* The summary and its acknowledgement tell what the old messages told.    *)
LEMMA OpeningTells ==
  ASSUME NEW told \in SUBSET Phase, NEW opening,
         LET summary == [role |-> "user", says |-> told]
             ack     == [role |-> "assistant", says |-> {}]
         IN  opening = <<summary>> \/ opening = <<summary, ack>>
  PROVE  opening \in Seq(Message) /\ Said(opening) = told /\ InOrder(opening)
  <1> DEFINE summary == [role |-> "user", says |-> told]
  <1> DEFINE ack     == [role |-> "assistant", says |-> {}]
  <1>1. summary \in Message /\ ack \in Message
    BY DEF Message
  <1>2. summary.says = told /\ summary.role = "user" /\ ack.says = {} /\ ack.role = "assistant"
    OBVIOUS
  <1>3. opening = <<summary>> \/ opening = <<summary, ack>>
    OBVIOUS
  <1> HIDE DEF summary, ack
  <1>4. CASE opening = <<summary>>
    <2>1. opening \in Seq(Message) /\ DOMAIN opening = {1} /\ opening[1] = summary
      BY <1>1, <1>4
    <2>2. \A p : p \in Said(opening) <=> p \in told
      BY <2>1, <1>2, SaidIs
    <2>3. InOrder(opening)
      BY <2>1 DEF InOrder
    <2> QED BY <2>1, <2>2, <2>3
  <1>5. CASE opening = <<summary, ack>>
    <2>1. /\ opening \in Seq(Message) /\ DOMAIN opening = {1, 2}
          /\ opening[1] = summary /\ opening[2] = ack
      BY <1>1, <1>5
    <2>2. \A p : p \in Said(opening) <=> p \in told
      BY <2>1, <1>2, SaidIs
    <2>3. InOrder(opening)
      BY <2>1, <1>2 DEF InOrder
    <2> QED BY <2>1, <2>2, <2>3
  <1> QED BY <1>3, <1>4, <1>5

LEMMA CutsOfASequence ==
  ASSUME NEW s \in Seq(Message), NEW n \in Nat, n <= Len(s)
  PROVE  /\ SubSeq(s, 1, n) \in Seq(Message) /\ Len(SubSeq(s, 1, n)) = n
         /\ \A i \in 1 .. n : SubSeq(s, 1, n)[i] = s[i]
         /\ SubSeq(s, n + 1, Len(s)) \in Seq(Message) /\ Len(SubSeq(s, n + 1, Len(s))) = Len(s) - n
         /\ \A i \in 1 .. (Len(s) - n) : SubSeq(s, n + 1, Len(s))[i] = s[n + i]
  <1>1. Len(s) \in Nat /\ DOMAIN s = 1 .. Len(s)
    OBVIOUS
  <1>2. /\ SubSeq(s, 1, n) \in Seq(Message) /\ Len(SubSeq(s, 1, n)) = n
        /\ \A i \in 1 .. n : SubSeq(s, 1, n)[i] = s[i]
    BY <1>1
  <1> DEFINE rest == SubSeq(s, n + 1, Len(s))
  <1>0. Len(s) \in Nat
    OBVIOUS
  <1>3. PICK first \in Int, last \in Int : first = n + 1 /\ last = Len(s)
    BY <1>0
  <1>4. \A i \in first .. last : s[i] \in Message
    BY <1>1, <1>3
  <1>5. /\ SubSeq(s, first, last) \in Seq(Message)
        /\ Len(SubSeq(s, first, last)) = IF first <= last THEN last - first + 1 ELSE 0
        /\ \A i \in 1 .. last - first + 1 : SubSeq(s, first, last)[i] = s[first + i - 1]
    BY <1>4, SubSeqProperties
  <1>6. rest \in Seq(Message)
    BY <1>3, <1>5
  <1>7. Len(rest) = Len(s) - n
    <2>1. Len(rest) = IF n + 1 <= Len(s) THEN Len(s) - (n + 1) + 1 ELSE 0
      BY <1>3, <1>5
    <2> HIDE DEF rest
    <2> QED BY <1>0, <2>1
  <1>8. \A i \in 1 .. (Len(s) - n) : rest[i] = s[n + i]
    <2> TAKE i \in 1 .. (Len(s) - n)
    <2>1. i \in 1 .. last - first + 1 /\ first + i - 1 = n + i
      BY <1>1, <1>3
    <2>2. SubSeq(s, first, last)[i] = s[first + i - 1]
      BY <1>5, <2>1
    <2> QED BY <2>1, <2>2, <1>3
  <1> QED BY <1>2, <1>6, <1>7, <1>8

(* A compaction tells of nothing new and changes no order; of a turn's     *)
(* messages it keeps the question, and all if the summary succeeded.       *)
LEMMA CompactionTells ==
  ASSUME NEW s \in Seq(Message), s # <<>>, InOrder(s), NEW r \in Compactions(s)
  PROVE  /\ r.messages \in Seq(Message) /\ r.lossy \in BOOLEAN
         /\ InOrder(r.messages) /\ Said(r.messages) \subseteq Said(s)
         /\ Last(s).role = "user" =>
              /\ Last(s).says \subseteq Said(r.messages)
              /\ ~r.lossy => Said(r.messages) = Said(s)
  <1> DEFINE split == Len(s) - KeepRecent
  <1>1. Len(s) \in Nat /\ Len(s) > 0 /\ DOMAIN s = 1 .. Len(s) /\ KeepRecent \in Nat /\ KeepRecent > 0
    BY SessionConstants
  <1>2. ASSUME NEW m \in Seq(Message), m # <<>>, Last(m).role = "user"
        PROVE  Last(m).says \subseteq Said(m)
    <2>1. Len(m) \in DOMAIN m /\ m[Len(m)].role # "tool"
      BY <1>2 DEF Last
    <2> QED BY <2>1, SaidIs DEF Last
  <1>3. CASE split <= 0
    <2>1. r.messages = s /\ r.lossy = FALSE
      BY <1>3 DEF Compactions
    <2> QED BY <2>1, <1>2
  <1>4. CASE ~(split <= 0)
    <2> DEFINE old == SubSeq(s, 1, split)
    <2> DEFINE recent == SubSeq(s, split + 1, Len(s))
    <2>1. split \in Nat /\ split > 0 /\ split < Len(s) /\ Len(s) - split = KeepRecent
      BY <1>1, <1>4
    <2>2. old \in Seq(Message) /\ Len(old) = split /\ \A i \in 1 .. split : old[i] = s[i]
      BY <2>1, <1>1, CutsOfASequence
    <2>3. /\ recent \in Seq(Message) /\ Len(recent) = KeepRecent
          /\ \A i \in 1 .. KeepRecent : recent[i] = s[split + i]
      BY <2>1, <1>1, CutsOfASequence
    <2>4. \/ r.messages = Summarised(old, recent) /\ r.lossy = FALSE
          \/ r.messages = recent /\ r.lossy = TRUE
      BY <1>4 DEF Compactions
    <2> HIDE DEF old, recent
    <2>5. IsJoined(s, old, recent)
      <3>1. Len(s) = split + KeepRecent
        BY <1>1, <2>1
      <3> HIDE DEF split
      <3> QED BY <3>1, <2>2, <2>3 DEF IsJoined
    <2>6. /\ Said(s) = Said(old) \cup Said(recent)
          /\ InOrder(old) /\ InOrder(recent)
          /\ \A p \in Said(old), q \in Said(recent) : p[1] = q[1] => p[2] < q[2]
      BY <2>2, <2>3, <2>5, JoinedTells
    <2>7. recent # <<>> /\ Last(recent) = Last(s)
      BY <1>1, <2>1, <2>3 DEF Last
    <2>8. CASE r.messages = recent /\ r.lossy = TRUE
      BY <2>3, <2>6, <2>7, <2>8, <1>2
    <2>9. CASE r.messages = Summarised(old, recent) /\ r.lossy = FALSE
      <3> DEFINE summary == [role |-> "user", says |-> Said(old)]
      <3> DEFINE ack     == [role |-> "assistant", says |-> {}]
      <3> DEFINE opening == IF recent[1].role \in ByAssistant THEN <<summary>> ELSE <<summary, ack>>
      <3> DEFINE whole == opening \o recent
      <3>1. r.messages = WithoutTrailingReply(Merged(whole))
        BY <2>9 DEF Summarised
      <3>2. Said(old) \in SUBSET Phase
        BY <2>2, SaidIsPhases
      <3>3. opening \in Seq(Message) /\ Said(opening) = Said(old) /\ InOrder(opening)
        <4>1. opening = <<summary>> \/ opening = <<summary, ack>>
          OBVIOUS
        <4> HIDE DEF opening
        <4> QED BY <4>1, <3>2, OpeningTells
      <3> HIDE DEF opening
      <3>4. whole \in Seq(Message) /\ IsJoined(whole, opening, recent) /\ whole # <<>> /\ Last(whole) = Last(recent)
        BY <2>3, <2>7, <3>3 DEF IsJoined, Last
      <3> HIDE DEF whole
      <3>5. Said(whole) = Said(s) /\ InOrder(whole)
        BY <2>3, <2>6, <3>3, <3>4, JoinedTells
      <3> DEFINE merged == Merged(whole)
      <3>6. /\ merged \in Seq(Message) /\ Said(merged) = Said(s) /\ InOrder(merged) /\ merged # <<>>
            /\ Last(merged).role = Last(s).role /\ Last(s).says \subseteq Last(merged).says
        BY <3>4, <3>5, <2>7, MergedTells
      <3> HIDE DEF merged
      <3>7. /\ r.messages \in Seq(Message) /\ Said(r.messages) \subseteq Said(merged) /\ InOrder(r.messages)
            /\ Last(merged).role = "user" => r.messages = merged
        BY <3>1, <3>6, WithoutReply DEF merged
      <3>8. Last(s).role = "user" => Last(s).says \subseteq Said(merged)
        BY <3>6, <1>2
      <3> QED BY <2>9, <3>6, <3>7, <3>8
    <2> QED BY <2>4, <2>8, <2>9
  <1> QED BY <1>3, <1>4

LEMMA RecentTells ==
  ASSUME log \in SUBSET Rows, IsFiniteSet(log),
         \A r, q \in log : r.stamp = q.stamp => r = q,
         \A r, q \in log : r.phase[1] = q.phase[1] => (r.phase[2] < q.phase[2] <=> r.stamp < q.stamp)
  PROVE  /\ Recent \in Seq(Message) /\ InOrder(Recent) /\ Said(Recent) \subseteq Logged
         /\ log = {} => Recent = <<>>
  <1> DEFINE Size == Cardinality(log)
  <1> DEFINE skipped == IF Size > MaxHistory THEN Size - MaxHistory ELSE 0
  <1>1. Size \in Nat /\ MaxHistory \in Nat
    BY FS_CardinalityType, SessionConstants
  <1>2. skipped \in Nat /\ skipped <= Size /\ Size - skipped \in Nat
    BY <1>1
  <1>3. \A r \in log : r.phase \in Phase /\ r.stamp \in Nat
    BY DEF Rows
  <1>4. ASSUME NEW n \in 1 .. Size
        PROVE  RowAt(n) \in log /\ Rank(RowAt(n)) = n
    <2>1. PICK key \in [log -> Nat] : \A r \in log : key[r] = r.stamp
      <3> DEFINE stamps == [r \in log |-> r.stamp]
      <3>1. stamps \in [log -> Nat] /\ \A r \in log : stamps[r] = r.stamp
        BY <1>3
      <3> QED BY <3>1
    <2>2. \A r, q \in log : key[r] = key[q] => r = q
      BY <2>1
    <2>3. PICK row \in log : RankIn(log, key, row) = n
      BY <2>2, RanksAreTaken
    <2>4. {r \in log : key[r] <= key[row]} = {r \in log : r.stamp <= row.stamp}
      BY <2>1
    <2>5. Rank(row) = n
      BY <2>3, <2>4 DEF RankIn, Rank
    <2> QED BY <2>5 DEF RowAt
  <1>5. ASSUME NEW r \in log, NEW q \in log, Rank(r) < Rank(q)
        PROVE  r.stamp < q.stamp
    <2> DEFINE UpTo(row) == {other \in log : other.stamp <= row.stamp}
    <2> SUFFICES ASSUME ~(r.stamp < q.stamp) PROVE FALSE
      OBVIOUS
    <2>1. UpTo(q) \in SUBSET UpTo(r) /\ UpTo(r) \in SUBSET log
      BY <1>3
    <2>2. IsFiniteSet(UpTo(r)) /\ IsFiniteSet(UpTo(q))
      BY <2>1, FS_Subset
    <2>3. Cardinality(UpTo(q)) <= Cardinality(UpTo(r))
      BY <2>1, <2>2, FS_Subset, Zenon
    <2>4. Cardinality(UpTo(q)) \in Nat /\ Cardinality(UpTo(r)) \in Nat
      BY <2>2, FS_CardinalityType
    <2>5. Rank(r) = Cardinality(UpTo(r)) /\ Rank(q) = Cardinality(UpTo(q))
      BY DEF Rank
    <2> QED BY <2>3, <2>4, <2>5, <1>5
  <1>6. ASSUME NEW i \in 1 .. (Size - skipped)
        PROVE  /\ skipped + i \in 1 .. Size
               /\ RowAt(skipped + i) \in log /\ Rank(RowAt(skipped + i)) = skipped + i
               /\ Recent[i] \in Message /\ Recent[i].says = {RowAt(skipped + i).phase}
               /\ Recent[i].role # "tool"
    <2>1. skipped + i \in 1 .. Size
      BY <1>1, <1>2
    <2> DEFINE row == RowAt(skipped + i)
    <2>2. row \in log /\ Rank(row) = skipped + i
      BY <2>1, <1>4
    <2>3. Recent[i] = [role |-> IF row.phase[2] = 0 THEN "user" ELSE "assistant", says |-> {row.phase}]
      BY DEF Recent
    <2> HIDE DEF row
    <2>4. row.phase \in Phase
      BY <2>2, <1>3
    <2>5. Recent[i] \in Message /\ Recent[i].says = {row.phase} /\ Recent[i].role # "tool"
      <3>1. CASE row.phase[2] = 0
        BY <2>3, <2>4, <3>1 DEF Message
      <3>2. CASE row.phase[2] # 0
        BY <2>3, <2>4, <3>2 DEF Message
      <3> QED BY <3>1, <3>2
    <2> QED BY <2>1, <2>2, <2>5 DEF row
  <1>7. Recent = [i \in 1 .. (Size - skipped) |-> Recent[i]]
    BY DEF Recent
  <1> HIDE DEF skipped, Size
  <1>8. Recent \in [1 .. (Size - skipped) -> Message] /\ DOMAIN Recent = 1 .. (Size - skipped)
    BY <1>6, <1>7
  <1>9. Recent \in Seq(Message)
    BY <1>2, <1>8
  <1>10. InOrder(Recent)
    <2> SUFFICES ASSUME NEW i \in DOMAIN Recent, NEW j \in DOMAIN Recent, i < j,
                        NEW p \in Recent[i].says, NEW q \in Recent[j].says, p[1] = q[1]
                 PROVE  p[2] < q[2]
      BY DEF InOrder
    <2>1. p = RowAt(skipped + i).phase /\ q = RowAt(skipped + j).phase
      BY <1>6, <1>8
    <2>2. skipped + i < skipped + j
      BY <1>2, <1>8
    <2>3. RowAt(skipped + i) \in log /\ RowAt(skipped + j) \in log
      BY <1>6, <1>8
    <2>4. RowAt(skipped + i).stamp < RowAt(skipped + j).stamp
      BY <1>5, <1>6, <1>8, <2>2, <2>3
    <2> QED BY <2>1, <2>3, <2>4
  <1>11. Said(Recent) \subseteq Logged
    <2> SUFFICES ASSUME NEW p \in Said(Recent) PROVE p \in Logged
      OBVIOUS
    <2>1. PICK i \in DOMAIN Recent : p \in Recent[i].says
      BY SaidIs
    <2> QED BY <2>1, <1>6, <1>8 DEF Logged
  <1>12. ASSUME log = {}
         PROVE  Recent = <<>>
    <2>1. Size = 0
      BY <1>12, FS_EmptySet DEF Size
    <2>2. 1 .. (Size - skipped) = {}
      BY <2>1, <1>2
    <2>3. Recent # <<>> => 1 \in DOMAIN Recent
      BY <1>9
    <2> QED BY <2>2, <2>3, <1>8
  <1> QED BY <1>9, <1>10, <1>11, <1>12

(* What a turn loads when it begins or begins again.                       *)
LEMMA LoadedTells ==
  ASSUME IInv
  PROVE  /\ Loaded \in Seq(Message) /\ InOrder(Loaded)
         /\ Said(Loaded) \subseteq Said(session.messages) \cup Logged
         /\ session # NoSession => Loaded = session.messages
         /\ session = NoSession /\ ~torn => Loaded = <<>>
  <1>1. CASE session # NoSession
    BY <1>1 DEF Loaded, IInv, TypeOK, AllInOrder
  <1>2. CASE session = NoSession
    <2>1. /\ Recent \in Seq(Message) /\ InOrder(Recent) /\ Said(Recent) \subseteq Logged
          /\ log = {} => Recent = <<>>
      BY RecentTells DEF IInv, TypeOK, LogInOrder, RowsInOrder
    <2>2. ~torn => log = {}
      BY <1>2 DEF IInv, PlacesFit
    <2>3. Loaded = Recent
      BY <1>2 DEF Loaded
    <2> QED BY <2>1, <2>2, <2>3, <1>2
  <1> QED BY <1>1, <1>2

-------------------------------------------------------------------------------
(* Readings of the clock.                                                  *)

LEMMA TasksAreFinite ==
  ASSUME NEW value, NEW f \in [Tasks -> Nat], value = {f[t] : t \in Tasks}
  PROVE  value \subseteq Nat /\ IsFiniteSet(value) /\ IsFiniteSet(Tasks)
         /\ Cardinality(value) <= Cardinality(Tasks)
  <1>1. IsFiniteSet(Tasks)
    BY SessionConstants DEF Tasks
  <1>2. value \subseteq Nat /\ f \in Surjection(Tasks, value)
    BY DEF Surjection
  <1> QED BY <1>1, <1>2, FS_Surjection

LEMMA VersionIsFresh ==
  ASSUME TypeOK
  PROVE  /\ FreshVersion \in Nat /\ FreshVersion > 0 /\ FreshVersion # session.version
         /\ \A t \in Tasks : FreshVersion # task[t].seen
  <1> DEFINE Seen == {task[t].seen : t \in Tasks}
  <1> DEFINE Used == {session.version} \cup Seen
  <1> DEFINE Free == 1 .. (Cardinality(Tasks) + 2)
  <1>1. Seen \subseteq Nat /\ IsFiniteSet(Seen) /\ IsFiniteSet(Tasks) /\ Cardinality(Seen) <= Cardinality(Tasks)
    <2>1. PICK f \in [Tasks -> Nat] : \A t \in Tasks : f[t] = task[t].seen
      <3> DEFINE seen == [t \in Tasks |-> task[t].seen]
      <3>1. seen \in [Tasks -> Nat] /\ \A t \in Tasks : seen[t] = task[t].seen
        BY DEF TypeOK, Locals
      <3> QED BY <3>1
    <2>2. Seen = {f[t] : t \in Tasks}
      BY <2>1
    <2> HIDE DEF Seen
    <2> QED BY <2>2, TasksAreFinite
  <1>2. Cardinality(Tasks) \in Nat /\ Cardinality(Seen) \in Nat
    BY <1>1, FS_CardinalityType
  <1> HIDE DEF Seen
  <1>3. Cardinality(Used) <= Cardinality(Tasks) + 1 /\ IsFiniteSet(Used) /\ Cardinality(Used) \in Nat
    <2>1. Used = Seen \cup {session.version}
      OBVIOUS
    <2>2. /\ IsFiniteSet(Used)
          /\ Cardinality(Used) = IF session.version \in Seen THEN Cardinality(Seen) ELSE Cardinality(Seen) + 1
      BY <2>1, <1>1, FS_AddElement
    <2> QED BY <2>2, <1>1, <1>2
  <1>4. Cardinality(Free) = Cardinality(Tasks) + 2
    <2>1. PICK n \in Nat : n = Cardinality(Tasks) + 2 /\ n >= 1
      BY <1>2
    <2>2. Cardinality(1 .. n) = n
      BY <2>1, FS_Interval
    <2> QED BY <2>1, <2>2
  <1>5. PICK v \in Free : v \notin Used
    <2> SUFFICES ASSUME Free \subseteq Used PROVE FALSE
      OBVIOUS
    <2>1. Free \in SUBSET Used
      OBVIOUS
    <2>2. Cardinality(Free) <= Cardinality(Used)
      BY <2>1, <1>3, FS_Subset, Zenon
    <2> QED BY <2>2, <1>2, <1>3, <1>4
  <1>6. FreshVersion \in Free /\ FreshVersion \notin Used
    BY <1>5 DEF FreshVersion, Seen
  <1>7. FreshVersion \in Nat /\ FreshVersion > 0
    BY <1>2, <1>6
  <1> QED BY <1>6, <1>7 DEF Seen

LEMMA NowIsLater ==
  ASSUME TypeOK
  PROVE  /\ Now \in Nat
         /\ \A r \in log : r.stamp < Now
         /\ \A t \in Tasks : task[t].stamp < Now
  <1> DEFINE OfTasks == {task[t].stamp : t \in Tasks}
  <1> DEFINE OfRows == {r.stamp : r \in log}
  <1> DEFINE All == {0} \cup OfRows \cup OfTasks
  <1>1. OfTasks \subseteq Nat /\ IsFiniteSet(OfTasks)
    <2>1. PICK f \in [Tasks -> Nat] : \A t \in Tasks : f[t] = task[t].stamp
      <3> DEFINE stamps == [t \in Tasks |-> task[t].stamp]
      <3>1. stamps \in [Tasks -> Nat] /\ \A t \in Tasks : stamps[t] = task[t].stamp
        BY DEF TypeOK, Locals
      <3> QED BY <3>1
    <2>2. OfTasks = {f[t] : t \in Tasks}
      BY <2>1
    <2> HIDE DEF OfTasks
    <2> QED BY <2>2, TasksAreFinite
  <1>2. OfRows \subseteq Nat /\ IsFiniteSet(OfRows)
    <2>1. PICK f \in [log -> Nat] : \A r \in log : f[r] = r.stamp
      <3> DEFINE stamps == [r \in log |-> r.stamp]
      <3>1. stamps \in [log -> Nat] /\ \A r \in log : stamps[r] = r.stamp
        BY DEF TypeOK, Rows
      <3> QED BY <3>1
    <2>2. OfRows \subseteq Nat /\ f \in Surjection(log, OfRows)
      BY <2>1 DEF Surjection
    <2>3. IsFiniteSet(log)
      BY DEF TypeOK
    <2> QED BY <2>2, <2>3, FS_Surjection
  <1>3. All \subseteq Nat /\ All # {} /\ IsFiniteSet(All)
    <2>1. IsFiniteSet({0}) /\ IsFiniteSet({0} \cup OfRows)
      BY <1>2, FS_Singleton, FS_Union
    <2>2. IsFiniteSet(All)
      BY <1>1, <2>1, FS_Union
    <2> QED BY <1>1, <1>2, <2>2
  <1>4. Max(All) \in All /\ \A x \in All : x <= Max(All)
    BY <1>3, MaxOfFinite
  <1>5. Now = Max(All) + 1
    BY DEF Now
  <1>6. (\A r \in log : r.stamp \in All) /\ (\A t \in Tasks : task[t].stamp \in All)
    OBVIOUS
  <1> HIDE DEF All
  <1>7. Max(All) \in Nat
    BY <1>3, <1>4
  <1>8. Now \in Nat /\ \A x \in All : x < Now
    <2>1. PICK m \in Nat : m = Max(All)
      BY <1>7
    <2> QED BY <1>3, <1>4, <1>5, <2>1
  <1> QED BY <1>6, <1>8

-------------------------------------------------------------------------------
(* Steps that change one task and nothing that is kept.                    *)

OwnStep(t) ==
  /\ UNCHANGED <<session, log, cut, torn>>
  /\ task' \in [Tasks -> Locals] /\ \A u \in Tasks \ {t} : task'[u] = task[u]
  /\ t \in Turns => /\ TurnFits(t)' /\ InStep(t)' /\ QuestionStays(t)' /\ StampFits(t)'
                    /\ Reach(t) <= Reach(t)'
  /\ t \in Compactors => task[t].at # "answered" /\ task'[t].at \in {"replace", "failed"}
  /\ task'[t].at \in {"idle", "answered", "failed"} => task'[t].messages = <<>>
  /\ InOrder(task'[t].messages)
  /\ \A p \in Said(task'[t].messages) :
       p[1] = t \/ p \in Said(task[t].messages) \cup Said(session.messages) \cup Logged

LEMMA OwnStepKeeps ==
  ASSUME IInv, NEW t \in Tasks, OwnStep(t)
  PROVE  IInv'
  <1> USE DEF OwnStep
  <1>1. /\ TypeOK /\ PlacesFit /\ PhasesAreOwn /\ AllInOrder /\ LogInOrder /\ TurnsInStep
        /\ QuestionsStay /\ SnapshotMatchesLog
    BY DEF IInv
  <1>2. /\ Turns \subseteq Tasks /\ Compactors \subseteq Tasks /\ Tasks = Turns \cup Compactors
        /\ Turns \cap Compactors = {}
    BY SessionConstants DEF Tasks
  <1>3. ASSUME NEW u \in Tasks PROVE u = t \/ task'[u] = task[u]
    OBVIOUS
  <1>4. \A u \in Turns : Reach(u) \in Nat /\ Reach(u)' \in Nat
    <2> TAKE u \in Turns
    <2>1. task[u] \in Locals /\ task'[u] \in Locals /\ MaxRounds \in Nat
      BY <1>1, <1>2, SessionConstants DEF TypeOK
    <2>2. task[u].round \in Nat /\ task'[u].round \in Nat
      BY <2>1 DEF Locals
    <2> QED BY <2>1, <2>2 DEF Reach
  <1>5. \A u \in Turns : Reach(u) <= Reach(u)'
    <2> TAKE u \in Turns
    <2>1. CASE u = t
      BY <2>1
    <2>2. CASE u # t
      <3>1. Reach(u)' = Reach(u)
        BY <2>2, <1>2 DEF Reach
      <3> QED BY <3>1, <1>4
    <2> QED BY <2>1, <2>2
  <1>6. TypeOK'
    BY <1>1 DEF TypeOK
  <1>7. PlacesFit'
    <2>1. \A u \in Turns : TurnFits(u)'
      <3> TAKE u \in Turns
      <3>1. CASE u = t
        BY <3>1
      <3>2. CASE u # t
        BY <3>2, <1>1, <1>2 DEF TurnFits, PlacesFit
      <3> QED BY <3>1, <3>2
    <2>2. \A c \in Compactors : task'[c].at \in {"idle", "replace", "answered", "failed"}
      BY <1>1, <1>2, <1>3 DEF PlacesFit
    <2>3. \A u \in Tasks : task'[u].at \in {"idle", "answered", "failed"} => task'[u].messages = <<>>
      BY <1>1, <1>3 DEF PlacesFit
    <2>4. (session = NoSession \/ session.version > 0)' /\ (session = NoSession /\ ~torn => log = {})'
      BY <1>1 DEF PlacesFit
    <2> QED BY <2>1, <2>2, <2>3, <2>4 DEF PlacesFit
  <1>8. PhasesAreOwn'
    <2> SUFFICES ASSUME NEW u \in Turns
                 PROVE  /\ Within(Said(session.messages), u, Reach(u)')
                        /\ Within(Logged, u, Reach(u)')
                        /\ \A v \in Tasks \ {u} : Within(Said(task'[v].messages), u, Reach(u)')
      BY DEF PhasesAreOwn, Logged
    <2>1. /\ Within(Said(session.messages), u, Reach(u))
          /\ Within(Logged, u, Reach(u))
          /\ \A v \in Tasks \ {u} : Within(Said(task[v].messages), u, Reach(u))
      BY <1>1 DEF PhasesAreOwn
    <2>2. \A phases : phases \in SUBSET Phase /\ Within(phases, u, Reach(u)) => Within(phases, u, Reach(u)')
      <3> SUFFICES ASSUME NEW phases \in SUBSET Phase, Within(phases, u, Reach(u)),
                          NEW p \in phases, p[1] = u
                   PROVE  p[2] < Reach(u)'
        BY DEF Within
      <3>1. p[2] < Reach(u) /\ p[2] \in Nat
        BY SessionConstants DEF Within, Phase
      <3> QED BY <3>1, <1>4, <1>5
    <2>3. Said(session.messages) \in SUBSET Phase /\ Logged \in SUBSET Phase
      BY <1>1, SaidIsPhases DEF TypeOK, Logged, Rows
    <2>4. \A v \in Tasks : Said(task'[v].messages) \in SUBSET Phase
      BY SaidIsPhases DEF Locals
    <2>5. ASSUME NEW v \in Tasks \ {u}
          PROVE  Within(Said(task'[v].messages), u, Reach(u))
      <3>1. CASE v # t
        <4>1. task'[v] = task[v]
          BY <3>1, <1>3
        <4> QED BY <4>1, <2>1
      <3>2. CASE v = t
        BY <3>2, <2>1, <1>1, <2>5 DEF Within
      <3> QED BY <3>1, <3>2
    <2> QED BY <2>1, <2>2, <2>3, <2>4, <2>5
  <1>9. AllInOrder'
    <2>1. \A u \in Tasks : InOrder(task'[u].messages)
      BY <1>1, <1>3 DEF AllInOrder
    <2> QED BY <2>1, <1>1 DEF AllInOrder
  <1>10. LogInOrder'
    <2>1. ASSUME NEW u \in Turns, u # t
          PROVE  StampFits(u)'
      <3> SUFFICES ASSUME Pending(u)
                   PROVE  /\ \A r \in log : r.stamp # task[u].stamp /\ (r.phase[1] = u => r.stamp < task[u].stamp)
                          /\ \A v \in Turns \ {u} : Pending(v)' => task'[v].stamp # task[u].stamp
        BY <2>1, <1>2, <1>3 DEF StampFits, Pending
      <3>1. StampFits(u)
        BY <1>1 DEF LogInOrder
      <3>2. ASSUME NEW v \in Turns \ {u}, Pending(v)'
            PROVE  task'[v].stamp # task[u].stamp
        <4>1. CASE v = t
          <5>1. StampFits(t)' /\ Pending(u)' /\ task'[u] = task[u]
            BY <4>1, <2>1, <1>2, <1>3 DEF Pending
          <5> QED BY <4>1, <5>1, <3>2 DEF StampFits
        <4>2. CASE v # t
          <5>1. task'[v] = task[v] /\ Pending(v)
            BY <4>2, <1>2, <1>3, <3>2 DEF Pending
          <5> QED BY <5>1, <3>1 DEF StampFits
        <4> QED BY <4>1, <4>2
      <3> QED BY <3>1, <3>2 DEF StampFits
    <2>2. RowsInOrder'
      BY <1>1 DEF LogInOrder, RowsInOrder
    <2> QED BY <2>1, <2>2 DEF LogInOrder
  <1>11. TurnsInStep'
    <2> SUFFICES ASSUME NEW u \in Turns PROVE InStep(u)'
      BY DEF TurnsInStep
    <2>1. CASE u # t
      <3>1. task'[u] = task[u] /\ InStep(u)
        BY <2>1, <1>1, <1>2, <1>3 DEF TurnsInStep
      <3> QED BY <3>1 DEF InStep, Saying
    <2> QED BY <2>1
  <1>12. QuestionsStay'
    <2> SUFFICES ASSUME NEW u \in Turns PROVE QuestionStays(u)'
      BY DEF QuestionsStay
    <2>1. CASE u # t
      <3>1. task'[u] = task[u] /\ QuestionStays(u)
        BY <2>1, <1>1, <1>2, <1>3 DEF QuestionsStay
      <3> QED BY <3>1 DEF QuestionStays
    <2> QED BY <2>1
  <1>13. SnapshotMatchesLog'
    <2>1. (\A c \in Compactors : task'[c].at # "answered") => \A c \in Compactors : task[c].at # "answered"
      BY <1>2, <1>3
    <2> QED BY <2>1, <1>1 DEF SnapshotMatchesLog, Logged
  <1> QED BY <1>6, <1>7, <1>8, <1>9, <1>10, <1>11, <1>12, <1>13 DEF IInv

-------------------------------------------------------------------------------
(* The steps of a turn on its own.                                         *)

(* What a turn may hold with its question at the end, compacted or not.    *)
LEMMA CandidatesTell ==
  ASSUME IInv, NEW t \in Turns, task[t].at \in {"idle"} \cup Asking, NEW c \in Candidates(t)
  PROVE  /\ c.messages \in Seq(Message) /\ c.lossy \in BOOLEAN /\ InOrder(c.messages)
         /\ <<t, 0>> \in Said(c.messages)
         /\ Said(c.messages) \subseteq Said(Loaded) \cup {<<t, 0>>}
         /\ ~c.lossy => Said(Loaded) \subseteq Said(c.messages)
  <1> DEFINE question == [role |-> "user", says |-> {<<t, 0>>}]
  <1> DEFINE all == Append(Loaded, question)
  <1>1. /\ Loaded \in Seq(Message) /\ InOrder(Loaded)
        /\ Said(Loaded) \subseteq Said(session.messages) \cup Logged
    BY LoadedTells
  <1>2. question \in Message /\ question.role = "user" /\ question.says = {<<t, 0>>}
    BY SessionConstants DEF Message, Phase
  <1>3. Within(Said(Loaded), t, 0)
    <2>1. Reach(t) = 0
      BY DEF Reach, Asking, Phasing, Going
    <2>2. Within(Said(session.messages), t, 0) /\ Within(Logged, t, 0)
      BY <2>1 DEF IInv, PhasesAreOwn
    <2> QED BY <1>1, <2>2 DEF Within
  <1> HIDE DEF question
  <1>4. /\ all \in Seq(Message) /\ all # <<>> /\ Last(all) = question
        /\ Said(all) = Said(Loaded) \cup {<<t, 0>>}
    BY <1>1, <1>2, SaidWithOneMore
  <1>5. InOrder(all)
    BY <1>1, <1>2, <1>3, OrderWithOneMore
  <1>6. CASE Len(all) <= MaxSession
    <2>1. c.messages = all /\ c.lossy = FALSE
      BY <1>6 DEF Candidates, question
    <2> QED BY <2>1, <1>4, <1>5
  <1>7. CASE ~(Len(all) <= MaxSession)
    <2>1. c \in Compactions(all)
      BY <1>7 DEF Candidates, question
    <2> HIDE DEF all
    <2>2. /\ c.messages \in Seq(Message) /\ c.lossy \in BOOLEAN
          /\ InOrder(c.messages) /\ Said(c.messages) \subseteq Said(all)
          /\ Last(all).role = "user" =>
               /\ Last(all).says \subseteq Said(c.messages)
               /\ ~c.lossy => Said(c.messages) = Said(all)
      BY <1>4, <1>5, <2>1, CompactionTells
    <2> QED BY <1>2, <1>4, <2>2
  <1> QED BY <1>6, <1>7

(* A turn begins, or begins again after a conflict, with its question.     *)
LEMMA QuestionIsTaken ==
  ASSUME IInv, NEW t \in Turns, task[t].at \in {"idle", "retry"}, NEW c \in Candidates(t),
         NEW next \in Locals, Become(t, next), UNCHANGED <<session, log, cut, torn>>,
         next.at = "question", next.messages = c.messages, next.lossy = c.lossy,
         next.seen = session.version, next.round = task[t].round,
         \A r \in log : r.stamp # next.stamp,
         \A u \in Turns \ {t} : Pending(u) => task[u].stamp # next.stamp
  PROVE  IInv'
  <1>1. /\ c.messages \in Seq(Message) /\ c.lossy \in BOOLEAN /\ InOrder(c.messages)
        /\ <<t, 0>> \in Said(c.messages)
        /\ Said(c.messages) \subseteq Said(Loaded) \cup {<<t, 0>>}
        /\ ~c.lossy => Said(Loaded) \subseteq Said(c.messages)
    BY CandidatesTell DEF Asking
  <1>2. /\ TypeOK /\ PlacesFit /\ PhasesAreOwn
    BY DEF IInv
  <1>3. t \in Tasks /\ t \notin Compactors /\ task[t] \in Locals /\ session.version \in Nat /\ MaxRounds \in Nat
    BY <1>2, SessionConstants DEF Tasks, TypeOK
  <1>4. /\ next \in Locals /\ next.at = "question" /\ next.messages = c.messages /\ next.lossy = c.lossy
        /\ next.seen = session.version /\ next.round = task[t].round
    OBVIOUS
  <1>5. task' \in [Tasks -> Locals] /\ task'[t] = next /\ \A u \in Tasks \ {t} : task'[u] = task[u]
    BY <1>2, <1>3, <1>4 DEF Become, TypeOK
  <1>6. task[t].round = 0 /\ Reach(t) = 0
    BY <1>2 DEF PlacesFit, TurnFits, Asking, Phasing, Going, Reach
  <1>7. /\ Loaded \in Seq(Message) /\ Said(Loaded) \subseteq Said(session.messages) \cup Logged
        /\ session # NoSession => Loaded = session.messages
        /\ session = NoSession /\ ~torn => Loaded = <<>>
    BY LoadedTells
  <1>8. Within(Said(c.messages), t, 1) /\ Said(c.messages) \in SUBSET Phase
    <2>1. Within(Said(session.messages), t, 0) /\ Within(Logged, t, 0)
      BY <1>2, <1>6 DEF PhasesAreOwn
    <2>2. Said(c.messages) \in SUBSET Phase
      BY <1>1, SaidIsPhases
    <2>3. ASSUME NEW p \in Said(c.messages), p[1] = t PROVE p[2] < 1
      <3>1. CASE p = <<t, 0>>
        BY <3>1
      <3>2. CASE p # <<t, 0>>
        <4>1. p \in Said(session.messages) \cup Logged
          BY <3>2, <1>1, <1>7
        <4>2. p[2] < 0 /\ p[2] \in Nat
          BY <4>1, <2>1, <2>2, <2>3, <1>3 DEF Within, Phase
        <4> QED BY <4>2
      <3> QED BY <3>1, <3>2
    <2> QED BY <2>2, <2>3 DEF Within
  <1>9. TurnFits(t)'
    BY <1>4, <1>5, <1>6, <1>8 DEF TurnFits, Asking, Phasing, Going
  <1>10. InStep(t)'
    <2>1. Saying(t)' = {<<t, 0>>}
      BY <1>4, <1>5, <1>6 DEF Saying
    <2>2. session.version = 0 => session = NoSession
      BY <1>2, <1>3 DEF PlacesFit
    <2>3. session = NoSession /\ ~torn => Said(c.messages) \subseteq {<<t, 0>>}
      BY <1>1, <1>7, SaidOfNothing
    <2>4. session # NoSession =>
            /\ ~c.lossy => Said(session.messages) \subseteq Said(c.messages)
            /\ Said(c.messages) \subseteq Said(session.messages) \cup {<<t, 0>>}
      BY <1>1, <1>7
    <2> QED BY <1>1, <1>4, <1>5, <2>1, <2>2, <2>3, <2>4 DEF InStep
  <1>11. QuestionStays(t)'
    BY <1>4, <1>5 DEF QuestionStays, Phasing, Going
  <1>12. StampFits(t)'
    <2>1. \A r \in log : r.phase[1] # t
      <3>1. \A r \in log : r.phase \in Logged /\ r.phase[2] \in Nat
        BY <1>2, <1>3 DEF Logged, TypeOK, Rows, Phase
      <3> QED BY <3>1, <1>2, <1>6 DEF PhasesAreOwn, Within
    <2>2. \A u \in Turns \ {t} : Pending(u)' <=> Pending(u)
      BY <1>5 DEF Pending, Tasks
    <2>3. \A u \in Turns \ {t} : task'[u] = task[u]
      BY <1>5 DEF Tasks
    <2> QED BY <1>4, <1>5, <2>1, <2>2, <2>3 DEF StampFits
  <1>13. Reach(t) <= Reach(t)'
    BY <1>4, <1>5, <1>6 DEF Reach, Asking, Phasing, Going
  <1>14. \A p \in Said(c.messages) : p[1] = t \/ p \in Said(session.messages) \cup Logged
    BY <1>1, <1>7
  <1>15. OwnStep(t)
    BY <1>1, <1>3, <1>4, <1>5, <1>9, <1>10, <1>11, <1>12, <1>13, <1>14 DEF OwnStep
  <1> QED BY <1>3, <1>15, OwnStepKeeps

LEMMA BeginTurnKeeps ==
  ASSUME IInv, NEW t \in Turns, BeginTurn(t)
  PROVE  IInv'
  <1>1. PICK c \in Candidates(t) :
          Become(t, [task[t] EXCEPT !.at = "question", !.messages = c.messages, !.lossy = c.lossy,
                                    !.seen = session.version, !.stamp = Now])
    BY DEF BeginTurn
  <1>2. task[t].at = "idle" /\ UNCHANGED <<session, log, cut, torn>>
    BY DEF BeginTurn
  <1>3. c.messages \in Seq(Message) /\ c.lossy \in BOOLEAN
    BY <1>2, CandidatesTell
  <1>4. task[t] \in Locals /\ session.version \in Nat /\ TypeOK
    BY DEF IInv, TypeOK, Tasks
  <1>5. Now \in Nat /\ (\A r \in log : r.stamp < Now) /\ \A u \in Tasks : task[u].stamp < Now
    BY <1>4, NowIsLater
  <1> DEFINE next == [task[t] EXCEPT !.at = "question", !.messages = c.messages, !.lossy = c.lossy,
                                     !.seen = session.version, !.stamp = Now]
  <1>6. /\ next \in Locals /\ next.at = "question" /\ next.messages = c.messages /\ next.lossy = c.lossy
        /\ next.seen = session.version /\ next.round = task[t].round /\ next.stamp = Now
    BY <1>3, <1>4, <1>5 DEF Locals, Places
  <1>7. (\A r \in log : r.stamp # next.stamp) /\ \A u \in Turns \ {t} : Pending(u) => task[u].stamp # next.stamp
    <2>1. (\A r \in log : r.stamp \in Nat) /\ \A u \in Turns : u \in Tasks /\ task[u].stamp \in Nat
      BY <1>4 DEF TypeOK, Rows, Locals, Tasks
    <2> HIDE DEF next
    <2> QED BY <1>5, <1>6, <2>1
  <1> HIDE DEF next
  <1>8. Become(t, next)
    BY <1>1 DEF next
  <1> QED BY <1>2, <1>6, <1>7, <1>8, QuestionIsTaken

LEMMA ReloadQuestionKeeps ==
  ASSUME IInv, NEW t \in Turns, ReloadQuestion(t)
  PROVE  IInv'
  <1>1. PICK c \in Candidates(t) :
          Become(t, [task[t] EXCEPT !.at = "question", !.messages = c.messages, !.lossy = c.lossy,
                                    !.seen = session.version, !.attempt = 1])
    BY DEF ReloadQuestion
  <1>2. task[t].at = "retry" /\ UNCHANGED <<session, log, cut, torn>>
    BY DEF ReloadQuestion
  <1>3. c.messages \in Seq(Message) /\ c.lossy \in BOOLEAN
    BY <1>2, CandidatesTell DEF Asking
  <1>4. task[t] \in Locals /\ session.version \in Nat /\ TypeOK
    BY DEF IInv, TypeOK, Tasks
  <1> DEFINE next == [task[t] EXCEPT !.at = "question", !.messages = c.messages, !.lossy = c.lossy,
                                     !.seen = session.version, !.attempt = 1]
  <1>5. /\ next \in Locals /\ next.at = "question" /\ next.messages = c.messages /\ next.lossy = c.lossy
        /\ next.seen = session.version /\ next.round = task[t].round /\ next.stamp = task[t].stamp
    BY <1>3, <1>4 DEF Locals, Places
  <1>6. (\A r \in log : r.stamp # next.stamp) /\ \A u \in Turns \ {t} : Pending(u) => task[u].stamp # next.stamp
    <2>1. StampFits(t) /\ Pending(t)
      BY <1>2 DEF IInv, LogInOrder, Pending, Asking
    <2> QED BY <1>5, <2>1 DEF StampFits
  <1> HIDE DEF next
  <1>7. Become(t, next)
    BY <1>1 DEF next
  <1> QED BY <1>2, <1>5, <1>6, <1>7, QuestionIsTaken

LEMMA TurnContext ==
  ASSUME IInv, NEW t \in Turns
  PROVE  /\ t \in Tasks /\ t \notin Compactors /\ task[t] \in Locals /\ MaxRounds \in Nat
         /\ task[t].round \in 0 .. MaxRounds /\ task[t].round \in Nat
         /\ task[t].messages \in Seq(Message) /\ InOrder(task[t].messages)
         /\ Said(task[t].messages) \in SUBSET Phase
         /\ session.version \in Nat /\ Turns \subseteq Tasks
         /\ TurnFits(t) /\ InStep(t) /\ QuestionStays(t) /\ StampFits(t)
  <1>1. t \in Tasks /\ t \notin Compactors /\ MaxRounds \in Nat /\ Turns \subseteq Tasks
    BY SessionConstants DEF Tasks
  <1>2. task[t] \in Locals /\ session.version \in Nat
    BY <1>1 DEF IInv, TypeOK
  <1>3. task[t].round \in 0 .. MaxRounds /\ task[t].messages \in Seq(Message)
    BY <1>2 DEF Locals
  <1>4. Said(task[t].messages) \in SUBSET Phase
    BY <1>3, SaidIsPhases
  <1>5. InOrder(task[t].messages)
    BY <1>1 DEF IInv, AllInOrder
  <1>6. TurnFits(t) /\ InStep(t) /\ QuestionStays(t) /\ StampFits(t)
    BY DEF IInv, PlacesFit, TurnsInStep, QuestionsStay, LogInOrder
  <1> QED BY <1>1, <1>2, <1>3, <1>4, <1>5, <1>6

LEMMA Becomes ==
  ASSUME TypeOK, NEW t \in Tasks, NEW next \in Locals, Become(t, next)
  PROVE  task' \in [Tasks -> Locals] /\ task'[t] = next /\ \A u \in Tasks \ {t} : task'[u] = task[u]
  BY DEF Become, TypeOK

LEMMA ReachIs ==
  ASSUME NEW t
  PROVE  /\ task[t].at \in {"idle"} \cup Asking => Reach(t) = 0
         /\ task[t].at \in Phasing => Reach(t) = task[t].round
         /\ task[t].at \in Going => Reach(t) = task[t].round + 1
         /\ task[t].at \in {"replace", "answered", "failed"} => Reach(t) = MaxRounds + 1
  BY DEF Reach, Asking, Phasing, Going

LEMMA EndedIs ==
  ASSUME NEW outcome \in {"answered", "failed"}
  PROVE  /\ Ended(outcome) \in Locals /\ Ended(outcome).at = outcome /\ Ended(outcome).messages = <<>>
         /\ Ended(outcome).seen = 0
  <1>1. <<>> \in Seq(Message) /\ 0 \in 0 .. MaxRounds /\ "idle" \in Places /\ outcome \in Places
    BY SessionConstants DEF Places
  <1>2. /\ Idle \in Locals /\ Idle.messages = <<>> /\ Idle.seen = 0
    BY <1>1 DEF Idle, Locals
  <1> QED BY <1>1, <1>2 DEF Ended, Locals

(* A turn that has ended has nothing left to keep.                         *)
LEMMA EndIsFit ==
  ASSUME IInv, NEW t \in Turns, task' \in [Tasks -> Locals], task'[t] = Ended("answered") \/ task'[t] = Ended("failed")
  PROVE  /\ TurnFits(t)' /\ InStep(t)' /\ QuestionStays(t)' /\ StampFits(t)'
         /\ Reach(t)' = MaxRounds + 1 /\ Reach(t) <= Reach(t)'
  <1>1. task'[t].at \in {"answered", "failed"} /\ task'[t].messages = <<>>
    BY EndedIs
  <1>2. task[t].round \in 0 .. MaxRounds /\ MaxRounds \in Nat /\ task[t] \in Locals
    BY TurnContext
  <1>3. Said(task'[t].messages) = {}
    BY <1>1, SaidOfNothing
  <1>4. TurnFits(t)' /\ InStep(t)' /\ QuestionStays(t)' /\ StampFits(t)'
    BY <1>1, <1>3 DEF TurnFits, InStep, QuestionStays, StampFits, Pending, Asking, Phasing, Going, Within
  <1>5. Reach(t)' = MaxRounds + 1
    BY <1>1 DEF Reach, Asking, Phasing, Going
  <1>6. Reach(t) <= MaxRounds + 1
    <2>1. /\ task[t].at \in {"idle"} \cup Asking \/ task[t].at \in Phasing \/ task[t].at \in Going
             \/ task[t].at \in {"replace", "answered", "failed"}
      BY <1>2 DEF Locals, Places, Asking, Phasing, Going
    <2> QED BY <2>1, <1>2, ReachIs
  <1> QED BY <1>4, <1>5, <1>6

LEMMA FailKeeps ==
  ASSUME IInv, NEW t \in Turns, Become(t, Ended("failed")), UNCHANGED <<session, log, cut, torn>>
  PROVE  IInv'
  <1>1. t \in Tasks /\ t \notin Compactors /\ TypeOK
    BY TurnContext DEF IInv
  <1>2. /\ Ended("failed") \in Locals /\ Ended("failed").at = "failed" /\ Ended("failed").messages = <<>>
    BY EndedIs
  <1>3. task' \in [Tasks -> Locals] /\ task'[t] = Ended("failed") /\ \A u \in Tasks \ {t} : task'[u] = task[u]
    BY <1>1, <1>2, Becomes
  <1>4. TurnFits(t)' /\ InStep(t)' /\ QuestionStays(t)' /\ StampFits(t)' /\ Reach(t) <= Reach(t)'
    BY <1>3, EndIsFit
  <1>5. InOrder(<<>>) /\ Said(<<>>) = {}
    BY SaidOfNothing
  <1>6. OwnStep(t)
    BY <1>1, <1>2, <1>3, <1>4, <1>5 DEF OwnStep
  <1> QED BY <1>1, <1>6, OwnStepKeeps

(* A conflict that is tried once more.                                     *)
LEMMA AgainKeeps ==
  ASSUME IInv, NEW t \in Turns, UNCHANGED <<session, log, cut, torn>>,
         NEW again, Become(t, [task[t] EXCEPT !.at = again]),
         \/ task[t].at = "question" /\ again = "retry"
         \/ task[t].at = "phase" /\ again = "rebase"
  PROVE  IInv'
  <1>1. /\ t \in Tasks /\ t \notin Compactors /\ task[t] \in Locals /\ InOrder(task[t].messages)
        /\ task[t].round \in Nat /\ TurnFits(t) /\ QuestionStays(t) /\ StampFits(t) /\ TypeOK
    BY TurnContext DEF IInv
  <1>2. PICK next \in Locals : /\ Become(t, next) /\ next.at = again /\ next.messages = task[t].messages
                               /\ next.seen = task[t].seen /\ next.round = task[t].round
                               /\ next.lossy = task[t].lossy /\ next.stamp = task[t].stamp
                               /\ next.cleared = task[t].cleared
    <2> DEFINE one == [task[t] EXCEPT !.at = again]
    <2>1. again \in Places
      BY DEF Places
    <2>2. /\ one \in Locals /\ one.at = again /\ one.messages = task[t].messages
          /\ one.seen = task[t].seen /\ one.round = task[t].round
          /\ one.lossy = task[t].lossy /\ one.stamp = task[t].stamp /\ one.cleared = task[t].cleared
      BY <1>1, <2>1 DEF Locals
    <2> QED BY <2>2
  <1>3. task' \in [Tasks -> Locals] /\ task'[t] = next /\ \A u \in Tasks \ {t} : task'[u] = task[u]
    BY <1>1, <1>2, Becomes
  <1>4. TurnFits(t)' /\ InStep(t)'
    BY <1>1, <1>2, <1>3 DEF TurnFits, InStep, Asking, Phasing, Going
  <1>5. QuestionStays(t)'
    BY <1>1, <1>2, <1>3 DEF QuestionStays, Phasing, Going
  <1>6. StampFits(t)'
    <2>1. Pending(t) /\ \A u \in Turns \ {t} : task'[u] = task[u] /\ (Pending(u)' <=> Pending(u))
      BY <1>3 DEF Pending, Asking, Phasing, Tasks
    <2> QED BY <2>1, <1>1, <1>2, <1>3 DEF StampFits
  <1>7. Reach(t) <= Reach(t)'
    BY <1>1, <1>2, <1>3 DEF Reach, Asking, Phasing, Going
  <1>8. again \notin {"idle", "answered", "failed"}
    OBVIOUS
  <1>9. OwnStep(t)
    BY <1>1, <1>2, <1>3, <1>4, <1>5, <1>6, <1>7, <1>8 DEF OwnStep
  <1> QED BY <1>1, <1>9, OwnStepKeeps

LEMMA ConflictKeeps ==
  ASSUME IInv, NEW t \in Turns, NEW again, Conflict(t, again),
         \/ task[t].at = "question" /\ again = "retry"
         \/ task[t].at = "phase" /\ again = "rebase"
  PROVE  IInv'
  <1>1. UNCHANGED <<session, log, cut, torn>>
    BY DEF Conflict
  <1>2. CASE task[t].attempt = 0
    <2>1. Become(t, [task[t] EXCEPT !.at = again])
      BY <1>2 DEF Conflict
    <2> QED BY <1>1, <2>1, AgainKeeps
  <1>3. CASE task[t].attempt # 0
    <2>1. Become(t, Ended("failed"))
      BY <1>3 DEF Conflict
    <2> QED BY <1>1, <2>1, FailKeeps
  <1> QED BY <1>2, <1>3

LEMMA AnswerKeeps ==
  ASSUME IInv, NEW t \in Turns, NEW role \in ByAssistant, Answer(t, role)
  PROVE  IInv'
  <1> DEFINE k == task[t].round + 1
  <1> DEFINE m == [role |-> role, says |-> {<<t, k>>}]
  <1>1. /\ t \in Tasks /\ t \notin Compactors /\ task[t] \in Locals /\ MaxRounds \in Nat
        /\ task[t].round \in Nat /\ task[t].messages \in Seq(Message) /\ InOrder(task[t].messages)
        /\ Said(task[t].messages) \in SUBSET Phase
        /\ TurnFits(t) /\ InStep(t) /\ QuestionStays(t) /\ TypeOK
    BY TurnContext DEF IInv
  <1>2. /\ task[t].at = "ask" /\ UNCHANGED <<session, log, cut, torn>>
        /\ Become(t, [task[t] EXCEPT !.at = "phase", !.round = k, !.stamp = Now, !.messages = Append(@, m)])
    BY DEF Answer
  <1>3. k \in 0 .. MaxRounds /\ k \in Nat /\ k > 0
    BY <1>1, <1>2 DEF TurnFits
  <1>4. m \in Message /\ m.role # "tool" /\ m.role \in ByAssistant /\ m.says = {<<t, k>>}
    BY <1>3 DEF Message, Phase, ByAssistant
  <1> DEFINE all == Append(task[t].messages, m)
  <1>5. /\ all \in Seq(Message) /\ all # <<>> /\ Last(all) = m
        /\ Said(all) = Said(task[t].messages) \cup {<<t, k>>}
    BY <1>1, <1>4, SaidWithOneMore
  <1>6. Within(Said(task[t].messages), t, k)
    BY <1>1 DEF TurnFits
  <1>7. InOrder(all)
    BY <1>1, <1>3, <1>4, <1>6, OrderWithOneMore
  <1>8. Now \in Nat /\ (\A r \in log : r.stamp < Now) /\ \A u \in Tasks : task[u].stamp < Now
    BY <1>1, NowIsLater
  <1> HIDE DEF m, k
  <1>9. PICK next \in Locals : /\ Become(t, next) /\ next.at = "phase" /\ next.messages = all
                               /\ next.seen = task[t].seen /\ next.round = k /\ next.lossy = task[t].lossy
                               /\ next.stamp = Now /\ next.cleared = task[t].cleared
    <2> DEFINE one == [task[t] EXCEPT !.at = "phase", !.round = k, !.stamp = Now, !.messages = Append(@, m)]
    <2>1. "phase" \in Places
      BY DEF Places
    <2>2. /\ one \in Locals /\ one.at = "phase" /\ one.messages = all
          /\ one.seen = task[t].seen /\ one.round = k /\ one.lossy = task[t].lossy
          /\ one.stamp = Now /\ one.cleared = task[t].cleared
      BY <1>1, <1>3, <1>5, <1>8, <2>1 DEF Locals
    <2> QED BY <2>2, <1>2
  <1>10. task' \in [Tasks -> Locals] /\ task'[t] = next /\ \A u \in Tasks \ {t} : task'[u] = task[u]
    BY <1>1, <1>9, Becomes
  <1> HIDE DEF all
  <1>11. TurnFits(t)'
    <2>1. Within(Said(all), t, k + 1)
      <3> SUFFICES ASSUME NEW p \in Said(all), p[1] = t PROVE p[2] < k + 1
        BY DEF Within
      <3>1. CASE p = <<t, k>>
        BY <3>1, <1>3
      <3>2. CASE p # <<t, k>>
        <4>1. p \in Said(task[t].messages)
          BY <3>2, <1>5
        <4>2. p[2] < k /\ p[2] \in Nat
          BY <4>1, <1>1, <1>6 DEF Within, Phase
        <4> QED BY <4>2, <1>3
      <3> QED BY <3>1, <3>2
    <2>2. ~task[t].lossy
      BY <1>1, <1>2 DEF TurnFits, Going
    <2> QED BY <1>3, <1>4, <1>5, <1>9, <1>10, <2>1, <2>2 DEF TurnFits, Asking, Phasing, Going
  <1>12. InStep(t)'
    <2>1. Saying(t)' = {<<t, k>>}
      BY <1>9, <1>10 DEF Saying
    <2>2. Saying(t) = {} /\ task[t].seen > 0 /\ task[t].seen \in Nat
      BY <1>1, <1>2 DEF Saying, TurnFits, Going, Locals
    <2>3. session # NoSession /\ task[t].seen = session.version =>
            /\ ~task[t].lossy => Said(session.messages) \subseteq Said(task[t].messages)
            /\ Said(task[t].messages) \subseteq Said(session.messages)
      BY <1>1, <1>2, <2>2 DEF InStep, Going
    <2> QED BY <1>2, <1>5, <1>9, <1>10, <2>1, <2>2, <2>3 DEF InStep
  <1>13. QuestionStays(t)'
    BY <1>1, <1>2, <1>5, <1>9, <1>10 DEF QuestionStays, Phasing, Going
  <1>14. StampFits(t)'
    <2>1. (\A r \in log : r.stamp \in Nat) /\ \A u \in Turns : u \in Tasks /\ task[u].stamp \in Nat
      BY <1>1 DEF TypeOK, Rows, Locals, Tasks
    <2>2. \A u \in Turns \ {t} : task'[u] = task[u]
      BY <2>1, <1>10
    <2> QED BY <1>2, <1>8, <1>9, <1>10, <2>1, <2>2 DEF StampFits
  <1>15. Reach(t) <= Reach(t)'
    <2>1. Reach(t) = k
      BY <1>2, ReachIs DEF Going, k
    <2>2. Reach(t)' = k
      BY <1>9, <1>10 DEF Reach, Asking, Phasing, Going
    <2> QED BY <2>1, <2>2, <1>3
  <1>16. OwnStep(t)
    BY <1>1, <1>2, <1>5, <1>7, <1>9, <1>10, <1>11, <1>12, <1>13, <1>14, <1>15 DEF OwnStep
  <1> QED BY <1>1, <1>16, OwnStepKeeps

LEMMA RebasePhaseKeeps ==
  ASSUME IInv, NEW t \in Turns, RebasePhase(t)
  PROVE  IInv'
  <1> DEFINE k == task[t].round
  <1> DEFINE m == Last(task[t].messages)
  <1> DEFINE all == Append(Loaded, m)
  <1>1. /\ t \in Tasks /\ t \notin Compactors /\ task[t] \in Locals /\ MaxRounds \in Nat
        /\ k \in Nat /\ task[t].messages \in Seq(Message) /\ session.version \in Nat
        /\ TurnFits(t) /\ InStep(t) /\ QuestionStays(t) /\ StampFits(t) /\ TypeOK
    BY TurnContext DEF IInv
  <1>2. /\ task[t].at = "rebase" /\ UNCHANGED <<session, log, cut, torn>>
        /\ Become(t, [task[t] EXCEPT !.at = "phase", !.attempt = 1, !.seen = session.version, !.messages = all])
    BY DEF RebasePhase
  <1>3. m \in Message /\ m.role # "tool" /\ m.role \in ByAssistant /\ m.says = {<<t, k>>} /\ k > 0
    <2>1. m.role \in ByAssistant /\ m.says = {<<t, k>>} /\ k > 0 /\ task[t].messages # <<>>
      BY <1>1, <1>2 DEF TurnFits, Phasing
    <2>2. m \in Message
      BY <1>1, <2>1 DEF Last
    <2> QED BY <2>1, <2>2 DEF ByAssistant
  <1>4. /\ Loaded \in Seq(Message) /\ InOrder(Loaded)
        /\ Said(Loaded) \subseteq Said(session.messages) \cup Logged
        /\ session # NoSession => Loaded = session.messages
        /\ session = NoSession /\ ~torn => Loaded = <<>>
    BY LoadedTells
  <1>5. Within(Said(Loaded), t, k) /\ Said(Loaded) \in SUBSET Phase
    <2>1. Reach(t) = k
      BY <1>2, ReachIs DEF Phasing
    <2>2. Within(Said(session.messages), t, k) /\ Within(Logged, t, k)
      BY <2>1 DEF IInv, PhasesAreOwn
    <2>3. Said(Loaded) \in SUBSET Phase
      BY <1>4, SaidIsPhases
    <2> QED BY <1>4, <2>2, <2>3 DEF Within
  <1> HIDE DEF m, k
  <1>6. /\ all \in Seq(Message) /\ all # <<>> /\ Last(all) = m
        /\ Said(all) = Said(Loaded) \cup {<<t, k>>}
    BY <1>3, <1>4, SaidWithOneMore
  <1>7. InOrder(all)
    BY <1>1, <1>3, <1>4, <1>5, OrderWithOneMore
  <1> HIDE DEF all
  <1>8. PICK next \in Locals : /\ Become(t, next) /\ next.at = "phase" /\ next.messages = all
                               /\ next.seen = session.version /\ next.round = k
                               /\ next.lossy = task[t].lossy /\ next.stamp = task[t].stamp
                               /\ next.cleared = task[t].cleared
    <2> DEFINE one == [task[t] EXCEPT !.at = "phase", !.attempt = 1, !.seen = session.version, !.messages = all]
    <2>1. "phase" \in Places
      BY DEF Places
    <2>2. /\ one \in Locals /\ one.at = "phase" /\ one.messages = all
          /\ one.seen = session.version /\ one.round = k /\ one.lossy = task[t].lossy
          /\ one.stamp = task[t].stamp /\ one.cleared = task[t].cleared
      BY <1>1, <1>6, <2>1 DEF Locals, k
    <2> QED BY <2>2, <1>2
  <1>9. task' \in [Tasks -> Locals] /\ task'[t] = next /\ \A u \in Tasks \ {t} : task'[u] = task[u]
    BY <1>1, <1>8, Becomes
  <1>10. TurnFits(t)'
    <2>1. Within(Said(all), t, k + 1)
      <3> SUFFICES ASSUME NEW p \in Said(all), p[1] = t PROVE p[2] < k + 1
        BY DEF Within
      <3>1. CASE p = <<t, k>>
        BY <3>1, <1>1
      <3>2. CASE p # <<t, k>>
        <4>1. p[2] < k /\ p[2] \in Nat
          BY <3>2, <1>1, <1>5, <1>6 DEF Within, Phase
        <4> QED BY <4>1, <1>1
      <3> QED BY <3>1, <3>2
    <2>2. ~task[t].lossy
      BY <1>1, <1>2 DEF TurnFits, Phasing
    <2> QED BY <1>3, <1>6, <1>8, <1>9, <2>1, <2>2 DEF TurnFits, Asking, Phasing, Going
  <1>11. InStep(t)'
    <2>1. Saying(t)' = {<<t, k>>}
      BY <1>8, <1>9 DEF Saying
    <2>2. session.version = 0 => session = NoSession
      BY <1>1 DEF IInv, PlacesFit
    <2>3. session = NoSession /\ ~torn => Said(all) \subseteq {<<t, k>>}
      BY <1>4, <1>6, SaidOfNothing
    <2>4. session # NoSession => Said(all) = Said(session.messages) \cup {<<t, k>>}
      BY <1>4, <1>6
    <2> QED BY <1>2, <1>6, <1>8, <1>9, <2>1, <2>2, <2>3, <2>4 DEF InStep
  <1>12. QuestionStays(t)'
    BY <1>1, <1>2, <1>4, <1>6, <1>8, <1>9 DEF QuestionStays, Phasing, Going
  <1>13. StampFits(t)'
    <2>1. Pending(t) /\ \A u \in Turns \ {t} : task'[u] = task[u] /\ (Pending(u)' <=> Pending(u))
      BY <1>2, <1>9 DEF Pending, Asking, Phasing, Tasks
    <2> QED BY <2>1, <1>1, <1>2, <1>8, <1>9 DEF StampFits
  <1>14. Reach(t) <= Reach(t)'
    <2>1. Reach(t) = k
      BY <1>2, ReachIs DEF Phasing, k
    <2>2. Reach(t)' = k
      BY <1>8, <1>9 DEF Reach, Asking, Phasing, Going
    <2> QED BY <2>1, <2>2, <1>1
  <1>15. \A p \in Said(all) : p[1] = t \/ p \in Said(session.messages) \cup Logged
    BY <1>4, <1>6
  <1>16. OwnStep(t)
    BY <1>1, <1>2, <1>7, <1>8, <1>9, <1>10, <1>11, <1>12, <1>13, <1>14, <1>15 DEF OwnStep
  <1> QED BY <1>1, <1>16, OwnStepKeeps

LEMMA ExecuteToolsKeeps ==
  ASSUME IInv, NEW t \in Turns, ExecuteTools(t)
  PROVE  IInv'
  <1> DEFINE k == task[t].round
  <1> DEFINE m == [role |-> "tool", says |-> {<<t, k>>}]
  <1> DEFINE all == Append(task[t].messages, m)
  <1>1. /\ t \in Tasks /\ t \notin Compactors /\ task[t] \in Locals /\ MaxRounds \in Nat
        /\ k \in Nat /\ k \in 0 .. MaxRounds
        /\ task[t].messages \in Seq(Message) /\ InOrder(task[t].messages)
        /\ TurnFits(t) /\ InStep(t) /\ QuestionStays(t) /\ TypeOK
    BY TurnContext DEF IInv
  <1>2. task[t].at = "tools" /\ UNCHANGED <<session, log, cut, torn>>
    BY DEF ExecuteTools
  <1>3. CASE k = MaxRounds
    <2>1. Become(t, Ended("failed"))
      BY <1>3 DEF ExecuteTools
    <2> QED BY <1>2, <2>1, FailKeeps
  <1>4. CASE k # MaxRounds
    <2>1. Become(t, [task[t] EXCEPT !.at = "ask", !.messages = Append(@, m)])
      BY <1>4 DEF ExecuteTools
    <2>2. m \in Message /\ m.role = "tool"
      BY <1>1 DEF Message, Phase
    <2> HIDE DEF m, k
    <2>3. /\ all \in Seq(Message) /\ Said(all) = Said(task[t].messages)
      BY <1>1, <2>2, SaidWithOneMore
    <2>4. InOrder(all)
      BY <1>1, <2>2, OrderWithOneMore
    <2>5. PICK next \in Locals : /\ Become(t, next) /\ next.at = "ask" /\ next.messages = all
                                 /\ next.seen = task[t].seen /\ next.round = k
                                 /\ next.lossy = task[t].lossy /\ next.cleared = task[t].cleared
      <3> DEFINE one == [task[t] EXCEPT !.at = "ask", !.messages = Append(@, m)]
      <3>1. "ask" \in Places
        BY DEF Places
      <3>2. /\ one \in Locals /\ one.at = "ask" /\ one.messages = all
            /\ one.seen = task[t].seen /\ one.round = k
            /\ one.lossy = task[t].lossy /\ one.cleared = task[t].cleared
        BY <1>1, <2>3, <3>1 DEF Locals, k
      <3> QED BY <3>2, <2>1
    <2>6. task' \in [Tasks -> Locals] /\ task'[t] = next /\ \A u \in Tasks \ {t} : task'[u] = task[u]
      BY <1>1, <2>5, Becomes
    <2> HIDE DEF all
    <2>7. TurnFits(t)'
      <3>1. k < MaxRounds
        BY <1>1, <1>4
      <3> QED BY <1>1, <1>2, <2>3, <2>5, <2>6, <3>1 DEF TurnFits, Asking, Phasing, Going, k
    <2>8. InStep(t)'
      <3>1. Saying(t)' = {} /\ Saying(t) = {}
        BY <1>2, <2>5, <2>6 DEF Saying
      <3> QED BY <1>1, <1>2, <2>3, <2>5, <2>6, <3>1 DEF InStep, Going
    <2>9. QuestionStays(t)'
      BY <1>1, <1>2, <2>3, <2>5, <2>6 DEF QuestionStays, Phasing, Going
    <2>10. StampFits(t)'
      BY <2>5, <2>6 DEF StampFits, Pending, Asking, Phasing
    <2>11. Reach(t) <= Reach(t)'
      <3>1. Reach(t) = k + 1
        BY <1>2, ReachIs DEF Going, k
      <3>2. Reach(t)' = k + 1
        BY <2>5, <2>6 DEF Reach, Asking, Phasing, Going
      <3> QED BY <3>1, <3>2, <1>1
    <2>12. OwnStep(t)
      BY <1>1, <1>2, <2>3, <2>4, <2>5, <2>6, <2>7, <2>8, <2>9, <2>10, <2>11 DEF OwnStep
    <2> QED BY <1>1, <2>12, OwnStepKeeps
  <1> QED BY <1>3, <1>4

(* /compact loads and summarises what it will save.                        *)
LEMMA BeginCompactKeeps ==
  ASSUME IInv, NEW c \in Compactors, BeginCompact(c)
  PROVE  IInv'
  <1>1. /\ task[c].at = "idle" /\ Loaded # <<>> /\ UNCHANGED <<session, log, cut, torn>>
        /\ c \in Tasks /\ c \notin Turns /\ TypeOK
    BY SessionConstants DEF BeginCompact, Tasks, IInv
  <1>2. PICK r \in Compactions(Loaded) :
          Become(c, [task[c] EXCEPT !.at = "replace", !.messages = r.messages, !.seen = session.version])
    BY DEF BeginCompact
  <1>3. /\ Loaded \in Seq(Message) /\ InOrder(Loaded)
        /\ Said(Loaded) \subseteq Said(session.messages) \cup Logged
    BY LoadedTells
  <1>4. r.messages \in Seq(Message) /\ InOrder(r.messages) /\ Said(r.messages) \subseteq Said(Loaded)
    BY <1>1, <1>3, CompactionTells
  <1>5. task[c] \in Locals /\ session.version \in Nat
    BY <1>1 DEF TypeOK
  <1>6. PICK next \in Locals : Become(c, next) /\ next.at = "replace" /\ next.messages = r.messages
    <2> DEFINE one == [task[c] EXCEPT !.at = "replace", !.messages = r.messages, !.seen = session.version]
    <2>1. one \in Locals /\ one.at = "replace" /\ one.messages = r.messages
      BY <1>4, <1>5 DEF Locals, Places
    <2> QED BY <2>1, <1>2
  <1>7. task' \in [Tasks -> Locals] /\ task'[c] = next /\ \A u \in Tasks \ {c} : task'[u] = task[u]
    BY <1>1, <1>6, Becomes
  <1>8. OwnStep(c)
    BY <1>1, <1>3, <1>4, <1>6, <1>7 DEF OwnStep
  <1> QED BY <1>1, <1>8, OwnStepKeeps

-------------------------------------------------------------------------------
(* Steps that change what is kept.                                         *)

(* A turn whose version is still the session's stores its phase.           *)
LEMMA StoreKeeps ==
  ASSUME IInv, NEW t \in Turns, NEW next, Store(t, next),
         \/ task[t].at = "question" /\ next = "ask"
         \/ task[t].at = "phase" /\ next \in {"tools", "answered"}
  PROVE  IInv'
  <1> DEFINE k == task[t].round
  <1> DEFINE told == task[t].messages
  <1> DEFINE row == [phase |-> <<t, k>>, stamp |-> task[t].stamp]
  <1>1. /\ t \in Tasks /\ t \notin Compactors /\ task[t] \in Locals /\ MaxRounds \in Nat
        /\ k \in 0 .. MaxRounds /\ k \in Nat /\ told \in Seq(Message) /\ InOrder(told)
        /\ Said(told) \in SUBSET Phase /\ session.version \in Nat /\ Turns \subseteq Tasks
        /\ TurnFits(t) /\ InStep(t) /\ QuestionStays(t) /\ StampFits(t)
    BY TurnContext
  <1>2. /\ TypeOK /\ PlacesFit /\ PhasesAreOwn /\ AllInOrder /\ LogInOrder /\ TurnsInStep
        /\ QuestionsStay /\ SnapshotMatchesLog
    BY DEF IInv
  <1>3. /\ IsCurrent(t) /\ task[t].seen = session.version
        /\ session' = [messages |-> told, version |-> FreshVersion]
        /\ log' = log \cup {row} /\ cut' = (cut \/ task[t].lossy) /\ torn' = torn
    BY DEF Store, IsCurrent
  <1>4. /\ FreshVersion \in Nat /\ FreshVersion > 0 /\ FreshVersion # session.version
        /\ \A u \in Tasks : FreshVersion # task[u].seen
    BY <1>2, VersionIsFresh
  <1> DEFINE v == FreshVersion
  <1>5. PICK after \in Locals :
          /\ Become(t, after)
          /\ \/ after = Ended("answered")
             \/ /\ after.at \in Going /\ (after.at = "ask" => task[t].at = "question")
                /\ after.messages = told /\ after.seen = v /\ after.round = k
                /\ ~after.lossy /\ after.cleared = task[t].cleared
    <2>1. CASE next = "answered"
      BY <2>1, EndedIs DEF Store
    <2>2. CASE next # "answered"
      <3> DEFINE one == [task[t] EXCEPT !.at = next, !.seen = v, !.attempt = 0, !.lossy = FALSE]
      <3>1. next \in Places /\ next \in Going /\ (next = "ask" => task[t].at = "question")
        BY <2>2 DEF Places, Going
      <3>2. /\ one \in Locals /\ one.at = next /\ one.messages = told /\ one.seen = v /\ one.round = k
            /\ ~one.lossy /\ one.cleared = task[t].cleared
        BY <1>1, <1>4, <3>1 DEF Locals
      <3>3. Become(t, one)
        BY <2>2 DEF Store
      <3> QED BY <3>1, <3>2, <3>3
    <2> QED BY <2>1, <2>2
  <1>6. task' \in [Tasks -> Locals] /\ task'[t] = after /\ \A u \in Tasks \ {t} : task'[u] = task[u]
    BY <1>1, <1>2, <1>5, Becomes
  <1>7. /\ row.phase = <<t, k>> /\ row.stamp = task[t].stamp /\ row \in Rows
        /\ <<t, k>> \in Phase
    BY <1>1 DEF Rows, Phase, Locals
  <1>8. /\ session' # NoSession /\ session'.messages = told /\ session'.version = v
        /\ session' \in [messages: Seq(Message), version: Nat]
    BY <1>1, <1>3, <1>4 DEF NoSession
  <1>9. Logged' = Logged \cup {<<t, k>>}
    BY <1>3, <1>7 DEF Logged
  <1> HIDE DEF row, v
  <1>10. /\ Saying(t) = {<<t, k>>} /\ Reach(t) = k /\ Pending(t)
         /\ task[t].at \in {"question", "phase"}
    BY <1>1, ReachIs DEF Saying, Pending, TurnFits, Asking, Phasing
  <1>11. /\ <<t, k>> \in Said(told)
         /\ task[t].seen = 0 /\ ~torn => Said(told) \subseteq {<<t, k>>}
         /\ session # NoSession =>
              /\ ~task[t].lossy => Said(session.messages) \subseteq Said(told)
              /\ Said(told) \subseteq Said(session.messages) \cup {<<t, k>>}
    BY <1>1, <1>3, <1>10 DEF InStep
  <1>12. ASSUME after # Ended("answered")
         PROVE  /\ TurnFits(t)' /\ InStep(t)' /\ QuestionStays(t)' /\ StampFits(t)'
                /\ Reach(t)' = k + 1
    <2>1. /\ after.at \in Going /\ (after.at = "ask" => task[t].at = "question")
          /\ after.messages = told /\ after.seen = v /\ after.round = k
          /\ ~after.lossy /\ after.cleared = task[t].cleared
      BY <1>5, <1>12
    <2>2. TurnFits(t)'
      <3>1. after.at = "ask" => k < MaxRounds
        BY <2>1, <1>1, SessionConstants DEF TurnFits, Asking
      <3>2. Within(Said(told), t, k + 1)
        BY <1>1 DEF TurnFits
      <3>3. v > 0
        BY <1>4 DEF v
      <3> QED BY <1>6, <2>1, <3>1, <3>2, <3>3 DEF TurnFits, Asking, Phasing, Going
    <2>3. InStep(t)'
      <3>1. Saying(t)' = {}
        BY <1>6, <2>1 DEF Saying, Going
      <3>2. v # 0
        BY <1>4 DEF v
      <3> QED BY <1>6, <1>8, <2>1, <3>1, <3>2 DEF InStep
    <2>4. QuestionStays(t)'
      <3> SUFFICES ASSUME ~task[t].cleared, ~cut'
                   PROVE  <<t, 0>> \in Said(told)
        BY <1>6, <1>8, <2>1 DEF QuestionStays
      <3>1. CASE task[t].at = "question"
        BY <3>1, <1>1, <1>11 DEF TurnFits, Asking
      <3>2. CASE task[t].at = "phase"
        BY <3>2, <1>1, <1>3 DEF QuestionStays, Phasing
      <3> QED BY <3>1, <3>2, <1>10
    <2>5. StampFits(t)'
      BY <1>6, <2>1 DEF StampFits, Pending, Asking, Phasing, Going
    <2>6. Reach(t)' = k + 1
      BY <1>6, <2>1 DEF Reach, Asking, Phasing, Going
    <2> QED BY <2>2, <2>3, <2>4, <2>5, <2>6
  <1>13. /\ TurnFits(t)' /\ InStep(t)' /\ QuestionStays(t)' /\ StampFits(t)'
         /\ Reach(t)' \in Nat /\ k < Reach(t)'
    <2>1. CASE after = Ended("answered")
      <3>1. /\ TurnFits(t)' /\ InStep(t)' /\ QuestionStays(t)' /\ StampFits(t)'
            /\ Reach(t)' = MaxRounds + 1
        BY <2>1, <1>6, EndIsFit
      <3> QED BY <3>1, <1>1
    <2>2. CASE after # Ended("answered")
      BY <2>2, <1>1, <1>12
    <2> QED BY <2>1, <2>2
  <1>14. after.messages = told \/ after.messages = <<>>
    BY <1>5, EndedIs
  <1>15. after.at \in {"idle", "answered", "failed"} => after.messages = <<>>
    <2>1. CASE after = Ended("answered")
      BY <2>1, EndedIs
    <2>2. CASE after # Ended("answered")
      BY <2>2, <1>5 DEF Going
    <2> QED BY <2>1, <2>2
  <1>16. \A u \in Turns \ {t} : u \in Tasks /\ task'[u] = task[u] /\ Reach(u)' = Reach(u)
    BY <1>1, <1>6 DEF Reach
  <1> HIDE DEF k, told
  <1>17. TypeOK'
    <2>1. log' \in SUBSET Rows /\ IsFiniteSet(log')
      BY <1>2, <1>3, <1>7, FS_AddElement DEF TypeOK
    <2>2. cut' \in BOOLEAN /\ torn' \in BOOLEAN
      BY <1>2, <1>3 DEF TypeOK
    <2> QED BY <1>6, <1>8, <2>1, <2>2 DEF TypeOK
  <1>18. PlacesFit'
    <2>1. \A u \in Turns : TurnFits(u)'
      <3> TAKE u \in Turns
      <3>1. CASE u # t
        BY <3>1, <1>2, <1>16 DEF TurnFits, PlacesFit
      <3> QED BY <3>1, <1>13
    <2>2. \A c \in Compactors : task'[c] = task[c]
      BY <1>1, <1>6 DEF Tasks
    <2>3. \A c \in Compactors : task'[c].at \in {"idle", "replace", "answered", "failed"}
      BY <2>2, <1>2 DEF PlacesFit
    <2>4. \A u \in Tasks : task'[u].at \in {"idle", "answered", "failed"} => task'[u].messages = <<>>
      BY <1>2, <1>6, <1>15 DEF PlacesFit
    <2>5. session'.version > 0
      BY <1>4, <1>8 DEF v
    <2> QED BY <1>8, <2>1, <2>3, <2>4, <2>5 DEF PlacesFit
  <1>19. PhasesAreOwn'
    <2> SUFFICES ASSUME NEW u \in Turns
                 PROVE  /\ Within(Said(told), u, Reach(u)')
                        /\ Within(Logged', u, Reach(u)')
                        /\ \A w \in Tasks \ {u} : Within(Said(task'[w].messages), u, Reach(u)')
      BY <1>8 DEF PhasesAreOwn
    <2>1. /\ Within(Logged, u, Reach(u))
          /\ \A w \in Tasks \ {u} : Within(Said(task[w].messages), u, Reach(u))
      BY <1>2 DEF PhasesAreOwn
    <2>2. Within(Said(<<>>), u, Reach(u)')
      BY SaidOfNothing DEF Within
    <2>3. CASE u # t
      <3>1. Within(Said(told), u, Reach(u))
        BY <2>1, <2>3, <1>1 DEF told
      <3>2. Within(Logged', u, Reach(u))
        BY <2>1, <2>3, <1>9 DEF Within
      <3>3. Reach(u)' = Reach(u)
        BY <2>3, <1>16
      <3>4. \A w \in Tasks \ {u} : Within(Said(task'[w].messages), u, Reach(u))
        BY <2>1, <2>2, <3>1, <3>3, <1>6, <1>14
      <3> QED BY <3>1, <3>2, <3>3, <3>4
    <2>4. CASE u = t
      <3>1. \A phases : phases \in SUBSET Phase /\ Within(phases, t, k) => Within(phases, t, Reach(t)')
        <4> SUFFICES ASSUME NEW phases \in SUBSET Phase, Within(phases, t, k), NEW p \in phases, p[1] = t
                     PROVE  p[2] < Reach(t)'
          BY DEF Within
        <4>1. p[2] < k /\ p[2] \in Nat
          BY <1>1 DEF Within, Phase
        <4> QED BY <4>1, <1>1, <1>13
      <3>2. Logged \in SUBSET Phase /\ \A w \in Tasks : Said(task[w].messages) \in SUBSET Phase
        BY <1>2, SaidIsPhases DEF TypeOK, Logged, Rows, Locals
      <3>3. Within(Logged, t, Reach(t)') /\ \A w \in Tasks \ {t} : Within(Said(task[w].messages), t, Reach(t)')
        BY <2>1, <2>4, <3>1, <3>2, <1>10
      <3>4. Within(Logged', t, Reach(t)')
        BY <3>3, <1>9, <1>13 DEF Within
      <3>5. Within(Said(told), t, Reach(t)')
        <4> SUFFICES ASSUME NEW p \in Said(told), p[1] = t PROVE p[2] < Reach(t)'
          BY DEF Within
        <4>1. p[2] < k + 1 /\ p[2] \in Nat
          BY <1>1 DEF TurnFits, Within, Phase, told, k
        <4> QED BY <4>1, <1>1, <1>13
      <3>6. \A w \in Tasks \ {t} : Within(Said(task'[w].messages), t, Reach(t)')
        BY <3>3, <1>6
      <3> QED BY <2>4, <3>4, <3>5, <3>6
    <2> QED BY <2>3, <2>4
  <1>20. AllInOrder'
    <2>1. \A u \in Tasks : InOrder(task'[u].messages)
      BY <1>1, <1>2, <1>6, <1>14, SaidOfNothing DEF AllInOrder
    <2> QED BY <2>1, <1>1, <1>8 DEF AllInOrder
  <1>21. LogInOrder'
    <2>1. \A r \in log : /\ r.stamp # row.stamp /\ r.stamp \in Nat /\ row.stamp \in Nat
                         /\ r.phase[1] = t => r.stamp < row.stamp /\ r.phase[2] < k /\ r.phase[2] \in Nat
      <3> TAKE r \in log
      <3>1. r \in Rows /\ r.phase \in Logged
        BY <1>2 DEF TypeOK, Logged
      <3>2. r.stamp \in Nat /\ row.stamp \in Nat /\ r.phase[2] \in Nat
        BY <3>1, <1>1, <1>7 DEF Rows, Phase
      <3>3. r.phase[1] = t => r.phase[2] < k
        BY <3>1, <1>2, <1>10 DEF PhasesAreOwn, Within
      <3> QED BY <3>2, <3>3, <1>1, <1>7, <1>10 DEF StampFits
    <2>2. RowsInOrder'
      <3>1. RowsInOrder /\ row.phase[1] = t /\ row.phase[2] = k
        BY <1>2, <1>7 DEF LogInOrder
      <3>2. \A r, q \in log' : r.stamp = q.stamp => r = q
        BY <1>3, <2>1, <3>1 DEF RowsInOrder
      <3>3. ASSUME NEW r \in log', NEW q \in log', r.phase[1] = q.phase[1]
            PROVE  r.phase[2] < q.phase[2] <=> r.stamp < q.stamp
        <4>1. CASE r \in log /\ q \in log
          BY <4>1, <3>1, <3>3 DEF RowsInOrder
        <4>2. CASE r = row /\ q \in log
          BY <4>2, <3>1, <3>3, <2>1, <1>1
        <4>3. CASE q = row /\ r \in log
          BY <4>3, <3>1, <3>3, <2>1, <1>1
        <4>4. CASE q = row /\ r = row
          BY <4>4, <3>1, <1>1, <1>7 DEF Rows
        <4> QED BY <4>1, <4>2, <4>3, <4>4, <1>3
      <3> QED BY <3>2, <3>3 DEF RowsInOrder
    <2>3. ~Pending(t)'
      <3>1. CASE after = Ended("answered")
        BY <3>1, <1>6, EndedIs DEF Pending, Asking, Phasing
      <3>2. CASE after # Ended("answered")
        BY <3>2, <1>5, <1>6 DEF Pending, Asking, Phasing, Going
      <3> QED BY <3>1, <3>2
    <2>4. ASSUME NEW u \in Turns, u # t
          PROVE  StampFits(u)'
      <3> SUFFICES ASSUME Pending(u)
                   PROVE  /\ \A r \in log' : r.stamp # task[u].stamp /\ (r.phase[1] = u => r.stamp < task[u].stamp)
                          /\ \A w \in Turns \ {u} : Pending(w)' => task'[w].stamp # task[u].stamp
        BY <2>4, <1>16 DEF StampFits, Pending
      <3>1. /\ \A r \in log : r.stamp # task[u].stamp /\ (r.phase[1] = u => r.stamp < task[u].stamp)
            /\ \A w \in Turns \ {u} : Pending(w) => task[w].stamp # task[u].stamp
        BY <1>2 DEF LogInOrder, StampFits
      <3>2. row.stamp # task[u].stamp /\ row.phase[1] # u
        BY <2>4, <3>1, <1>7, <1>10
      <3>3. \A w \in Turns \ {u} : Pending(w)' => w # t /\ Pending(w) /\ task'[w] = task[w]
        BY <2>3, <1>16 DEF Pending
      <3> QED BY <1>3, <3>1, <3>2, <3>3
    <2> QED BY <2>2, <2>4, <1>13 DEF LogInOrder
  <1>22. TurnsInStep'
    <2> SUFFICES ASSUME NEW u \in Turns, u # t PROVE InStep(u)'
      BY <1>13 DEF TurnsInStep
    <2>1. task'[u] = task[u] /\ InStep(u) /\ Saying(u)' = Saying(u)
      BY <1>2, <1>16 DEF TurnsInStep, Saying
    <2>2. task[u].seen # v
      BY <1>4, <1>16 DEF v
    <2> QED BY <2>1, <2>2, <1>3, <1>8 DEF InStep
  <1>23. QuestionsStay'
    <2> SUFFICES ASSUME NEW u \in Turns, u # t PROVE QuestionStays(u)'
      BY <1>13 DEF QuestionsStay
    <2>1. task'[u] = task[u] /\ QuestionStays(u)
      BY <1>2, <1>16 DEF QuestionsStay
    <2> QED BY <2>1, <1>3, <1>8, <1>11 DEF QuestionStays
  <1>24. SnapshotMatchesLog'
    <2> SUFFICES ASSUME ~torn
                 PROVE  /\ ~cut' => Said(told) = Logged \cup {<<t, k>>}
                        /\ (\A c \in Compactors : task'[c].at # "answered") =>
                             Said(told) \subseteq Logged \cup {<<t, k>>}
      BY <1>3, <1>8, <1>9 DEF SnapshotMatchesLog
    <2>1. CASE session = NoSession
      <3>1. task[t].seen = 0 /\ Logged = {}
        BY <2>1, <1>2, <1>3 DEF PlacesFit, NoSession, Logged
      <3> QED BY <3>1, <1>11
    <2>2. CASE session # NoSession
      <3>1. \A c \in Compactors : task'[c] = task[c]
        BY <1>1, <1>6 DEF Tasks
      <3> QED BY <2>2, <3>1, <1>2, <1>3, <1>11 DEF SnapshotMatchesLog
    <2> QED BY <2>1, <2>2
  <1> QED BY <1>17, <1>18, <1>19, <1>20, <1>21, <1>22, <1>23, <1>24 DEF IInv

(* /compact replaces the row whatever it has become.                       *)
LEMMA SaveCompactedKeeps ==
  ASSUME IInv, NEW c \in Compactors, SaveCompacted(c)
  PROVE  IInv'
  <1> DEFINE told == task[c].messages
  <1>1. /\ TypeOK /\ PlacesFit /\ PhasesAreOwn /\ AllInOrder /\ LogInOrder /\ TurnsInStep
        /\ QuestionsStay
    BY DEF IInv
  <1>2. /\ c \in Tasks /\ c \notin Turns /\ Turns \subseteq Tasks /\ Compactors \subseteq Tasks
        /\ Tasks = Turns \cup Compactors
    BY SessionConstants DEF Tasks
  <1>3. task[c] \in Locals /\ told \in Seq(Message) /\ InOrder(told)
    BY <1>1, <1>2 DEF TypeOK, Locals, AllInOrder
  <1>4. /\ session' = [messages |-> told, version |-> FreshVersion]
        /\ cut' = TRUE /\ log' = log /\ torn' = torn /\ Become(c, Ended("answered"))
    BY DEF SaveCompacted
  <1>5. /\ FreshVersion \in Nat /\ FreshVersion > 0 /\ \A u \in Tasks : FreshVersion # task[u].seen
    BY <1>1, VersionIsFresh
  <1>6. /\ session' # NoSession /\ session'.messages = told /\ session'.version = FreshVersion
        /\ session' \in [messages: Seq(Message), version: Nat]
    BY <1>3, <1>4, <1>5 DEF NoSession
  <1>7. Ended("answered") \in Locals /\ Ended("answered").at = "answered" /\ Ended("answered").messages = <<>>
    BY EndedIs
  <1>8. task' \in [Tasks -> Locals] /\ task'[c] = Ended("answered") /\ \A u \in Tasks \ {c} : task'[u] = task[u]
    BY <1>1, <1>2, <1>4, <1>7, Becomes
  <1> HIDE DEF told
  <1>9. \A u \in Turns : task'[u] = task[u] /\ Reach(u)' = Reach(u)
    BY <1>2, <1>8 DEF Reach
  <1>10. TypeOK'
    BY <1>1, <1>4, <1>6, <1>8 DEF TypeOK
  <1>11. PlacesFit'
    <2>1. \A u \in Turns : TurnFits(u)'
      BY <1>1, <1>9 DEF TurnFits, PlacesFit
    <2>2. \A d \in Compactors : task'[d].at \in {"idle", "replace", "answered", "failed"}
      BY <1>1, <1>2, <1>7, <1>8 DEF PlacesFit
    <2>3. \A u \in Tasks : task'[u].at \in {"idle", "answered", "failed"} => task'[u].messages = <<>>
      BY <1>1, <1>7, <1>8 DEF PlacesFit
    <2> QED BY <1>5, <1>6, <2>1, <2>2, <2>3 DEF PlacesFit
  <1>12. PhasesAreOwn'
    <2> SUFFICES ASSUME NEW u \in Turns
                 PROVE  /\ Within(Said(told), u, Reach(u))
                        /\ Within(Logged, u, Reach(u))
                        /\ \A w \in Tasks \ {u} : Within(Said(task'[w].messages), u, Reach(u))
      BY <1>4, <1>6, <1>9 DEF PhasesAreOwn, Logged
    <2>1. /\ Within(Logged, u, Reach(u))
          /\ \A w \in Tasks \ {u} : Within(Said(task[w].messages), u, Reach(u))
      BY <1>1 DEF PhasesAreOwn
    <2>2. Within(Said(told), u, Reach(u))
      BY <2>1, <1>2 DEF told
    <2>3. Within(Said(<<>>), u, Reach(u))
      BY SaidOfNothing DEF Within
    <2> QED BY <2>1, <2>2, <2>3, <1>7, <1>8
  <1>13. AllInOrder'
    <2>1. \A u \in Tasks : InOrder(task'[u].messages)
      BY <1>1, <1>7, <1>8, SaidOfNothing DEF AllInOrder
    <2> QED BY <2>1, <1>3, <1>6 DEF AllInOrder
  <1>14. LogInOrder'
    <2>1. RowsInOrder'
      BY <1>1, <1>4 DEF LogInOrder, RowsInOrder
    <2>2. \A u \in Turns : StampFits(u)'
      BY <1>1, <1>4, <1>9 DEF LogInOrder, StampFits, Pending
    <2> QED BY <2>1, <2>2 DEF LogInOrder
  <1>15. TurnsInStep'
    <2> SUFFICES ASSUME NEW u \in Turns PROVE InStep(u)'
      BY DEF TurnsInStep
    <2>1. task'[u] = task[u] /\ InStep(u) /\ Saying(u)' = Saying(u) /\ task[u].seen # FreshVersion
      BY <1>1, <1>2, <1>5, <1>9 DEF TurnsInStep, Saying
    <2> QED BY <2>1, <1>4, <1>6 DEF InStep
  <1>16. QuestionsStay'
    BY <1>4, <1>6 DEF QuestionsStay, QuestionStays
  <1>17. SnapshotMatchesLog'
    BY <1>4, <1>7, <1>8 DEF SnapshotMatchesLog
  <1> QED BY <1>10, <1>11, <1>12, <1>13, <1>14, <1>15, <1>16, <1>17 DEF IInv

(* /new deletes the row and the history, and marks the turns in progress.  *)
LEMMA HandleNewKeeps ==
  ASSUME IInv, HandleNew
  PROVE  IInv'
  <1>1. /\ TypeOK /\ PlacesFit /\ PhasesAreOwn /\ AllInOrder /\ LogInOrder /\ TurnsInStep
        /\ QuestionsStay /\ SnapshotMatchesLog
    BY DEF IInv
  <1>2. Turns \subseteq Tasks /\ Compactors \subseteq Tasks
    BY DEF Tasks
  <1>3. CASE ~CommandReachesChat
    <2>1. UNCHANGED <<session, log, task, cut, torn>>
      BY <1>3 DEF HandleNew
    <2> QED BY <2>1 DEF IInv, TypeOK, PlacesFit, TurnFits, PhasesAreOwn, Reach, Logged, AllInOrder,
                 LogInOrder, RowsInOrder, StampFits, Pending, TurnsInStep, InStep, Saying,
                 QuestionsStay, QuestionStays, SnapshotMatchesLog
  <1>4. CASE CommandReachesChat
    <2>1. /\ session' = NoSession /\ log' = {} /\ cut' = FALSE /\ torn' = torn
          /\ task' = [t \in Tasks |-> [task[t] EXCEPT !.cleared = @ \/ Active(t)]]
      BY <1>4 DEF HandleNew
    <2>2. ASSUME NEW t \in Tasks
          PROVE  /\ task'[t] \in Locals /\ task'[t].at = task[t].at /\ task'[t].messages = task[t].messages
                 /\ task'[t].seen = task[t].seen /\ task'[t].round = task[t].round
                 /\ task'[t].lossy = task[t].lossy /\ task'[t].stamp = task[t].stamp
                 /\ Active(t) => task'[t].cleared
      <3>1. task[t] \in Locals /\ task[t].cleared \in BOOLEAN /\ Active(t) \in BOOLEAN
        BY <1>1 DEF TypeOK, Locals, Active
      <3>2. task'[t] = [task[t] EXCEPT !.cleared = task[t].cleared \/ Active(t)]
        BY <2>1
      <3>3. (task[t].cleared \/ Active(t)) \in BOOLEAN
        OBVIOUS
      <3> QED BY <3>1, <3>2, <3>3 DEF Locals
    <2>3. task' \in [Tasks -> Locals]
      <3>1. task' = [t \in Tasks |-> task'[t]]
        BY <2>1
      <3> QED BY <2>2, <3>1
    <2>4. \A t \in Turns : Reach(t)' = Reach(t)
      BY <1>2, <2>2 DEF Reach
    <2>5. session'.messages = <<>> /\ session' \in [messages: Seq(Message), version: Nat] /\ Logged' = {}
      BY <2>1 DEF NoSession, Logged
    <2>6. Said(<<>>) = {} /\ InOrder(<<>>)
      BY SaidOfNothing
    <2>7. TypeOK'
      BY <2>1, <2>3, <2>5, <1>1, FS_EmptySet DEF TypeOK
    <2>8. PlacesFit'
      <3>1. \A t \in Turns : TurnFits(t)'
        BY <1>1, <1>2, <2>2 DEF PlacesFit, TurnFits
      <3>2. \A c \in Compactors : task'[c].at \in {"idle", "replace", "answered", "failed"}
        BY <1>1, <1>2, <2>2 DEF PlacesFit
      <3>3. \A t \in Tasks : task'[t].at \in {"idle", "answered", "failed"} => task'[t].messages = <<>>
        BY <1>1, <2>2 DEF PlacesFit
      <3> QED BY <2>1, <3>1, <3>2, <3>3 DEF PlacesFit
    <2>9. PhasesAreOwn'
      BY <1>1, <2>2, <2>4, <2>5, <2>6 DEF PhasesAreOwn, Within
    <2>10. AllInOrder'
      BY <1>1, <2>2, <2>5, <2>6 DEF AllInOrder
    <2>11. LogInOrder'
      <3>1. RowsInOrder'
        BY <2>1 DEF RowsInOrder
      <3>2. \A t \in Turns : StampFits(t)'
        BY <1>1, <1>2, <2>1, <2>2 DEF LogInOrder, StampFits, Pending
      <3> QED BY <3>1, <3>2 DEF LogInOrder
    <2>12. TurnsInStep'
      <3> SUFFICES ASSUME NEW t \in Turns PROVE InStep(t)'
        BY DEF TurnsInStep
      <3>1. InStep(t) /\ Saying(t)' = Saying(t)
        BY <1>1, <1>2, <2>2 DEF TurnsInStep, Saying
      <3> QED BY <1>2, <2>1, <2>2, <3>1 DEF InStep
    <2>13. QuestionsStay'
      <3> SUFFICES ASSUME NEW t \in Turns PROVE QuestionStays(t)'
        BY DEF QuestionsStay
      <3>1. task[t].at \in Phasing \cup Going => Active(t)
        BY DEF Active, Phasing, Going
      <3> QED BY <1>2, <2>2, <3>1 DEF QuestionStays
    <2>14. SnapshotMatchesLog'
      BY <2>5, <2>6 DEF SnapshotMatchesLog
    <2> QED BY <2>7, <2>8, <2>9, <2>10, <2>11, <2>12, <2>13, <2>14 DEF IInv
  <1> QED BY <1>3, <1>4

(* The process goes down, perhaps between the two deletes of /new.         *)
LEMMA KilledKeeps ==
  ASSUME IInv, task' = Killed, log' = log, cut' = cut,
         \/ session' = session /\ torn' = torn
         \/ session' = NoSession /\ torn' = TRUE
  PROVE  IInv'
  <1>1. /\ TypeOK /\ PlacesFit /\ PhasesAreOwn /\ AllInOrder /\ LogInOrder /\ TurnsInStep
        /\ QuestionsStay /\ SnapshotMatchesLog
    BY DEF IInv
  <1>2. Turns \subseteq Tasks /\ Compactors \subseteq Tasks /\ MaxRounds \in Nat
    BY SessionConstants DEF Tasks
  <1>3. ASSUME NEW t \in Tasks
        PROVE  /\ task'[t] \in Locals
               /\ \/ Active(t) /\ task'[t] = Ended("failed") /\ task'[t].at = "failed"
                  \/ ~Active(t) /\ task'[t] = task[t]
               /\ task'[t].at \in {"idle", "answered", "failed"} /\ task'[t].messages = <<>>
    <2>1. task[t] \in Locals /\ task'[t] = IF Active(t) THEN Ended("failed") ELSE task[t]
      BY <1>1 DEF TypeOK, Killed
    <2>2. CASE Active(t)
      BY <2>1, <2>2, EndedIs
    <2>3. CASE ~Active(t)
      BY <2>1, <2>3, <1>1 DEF Active, PlacesFit
    <2> QED BY <2>2, <2>3
  <1>4. task' \in [Tasks -> Locals]
    <2>1. task' = [t \in Tasks |-> task'[t]]
      BY DEF Killed
    <2> QED BY <2>1, <1>3
  <1>5. Said(<<>>) = {} /\ InOrder(<<>>)
    BY SaidOfNothing
  <1>6. /\ session' \in [messages: Seq(Message), version: Nat]
        /\ session'.messages = session.messages \/ session'.messages = <<>>
    <2>1. CASE session' = session
      BY <2>1, <1>1 DEF TypeOK
    <2>2. CASE session' = NoSession
      <3>1. NoSession \in [messages: Seq(Message), version: Nat] /\ NoSession.messages = <<>>
        BY DEF NoSession
      <3> QED BY <2>2, <3>1
    <2> QED BY <2>1, <2>2
  <1>7. TypeOK'
    BY <1>1, <1>4, <1>6 DEF TypeOK
  <1>8. \A t \in Turns : /\ ~Pending(t)' /\ task'[t].at \notin {"question", "phase", "replace"} \cup Phasing \cup Going
                         /\ task'[t].at = "idle" => task[t].at = "idle"
    BY <1>2, <1>3 DEF Pending, Asking, Phasing, Going
  <1>9. PlacesFit'
    <2>1. ASSUME NEW t \in Turns PROVE TurnFits(t)'
      <3>1. TurnFits(t) /\ Within(Said(<<>>), t, task'[t].round + 1)
        BY <1>1, <1>5 DEF PlacesFit, Within
      <3>2. task'[t].at \in {"idle"} \cup Asking => task'[t].round = 0
        BY <3>1, <1>2, <1>3 DEF TurnFits, Active, Asking
      <3> QED BY <1>2, <1>3, <1>8, <3>1, <3>2 DEF TurnFits, Going
    <2>2. \A c \in Compactors : task'[c].at \in {"idle", "replace", "answered", "failed"}
      BY <1>2, <1>3
    <2>3. \A t \in Tasks : task'[t].at \in {"idle", "answered", "failed"} => task'[t].messages = <<>>
      BY <1>3
    <2>4. (session = NoSession \/ session.version > 0)' /\ (session = NoSession /\ ~torn => log = {})'
      BY <1>1 DEF PlacesFit
    <2> QED BY <2>1, <2>2, <2>3, <2>4 DEF PlacesFit
  <1>10. PhasesAreOwn'
    <2> SUFFICES ASSUME NEW t \in Turns
                 PROVE  /\ Within(Said(session'.messages), t, Reach(t)')
                        /\ Within(Logged, t, Reach(t)')
                        /\ \A u \in Tasks \ {t} : Within(Said(task'[u].messages), t, Reach(t)')
      BY DEF PhasesAreOwn, Logged
    <2>1. Reach(t) <= Reach(t)' /\ Reach(t) \in Nat /\ Reach(t)' \in Nat
      <3>1. task[t] \in Locals /\ task[t].round \in 0 .. MaxRounds /\ t \in Tasks
        BY <1>1, <1>2 DEF TypeOK, Locals
      <3>2. CASE Active(t)
        <4>1. Reach(t) <= Reach(t)' /\ Reach(t)' = MaxRounds + 1
          BY <3>1, <3>2, <1>3, <1>4, EndIsFit
        <4>2. Reach(t) \in Nat
          BY <3>1, <1>2 DEF Reach
        <4> QED BY <4>1, <4>2, <1>2
      <3>3. CASE ~Active(t)
        <4>1. Reach(t)' = Reach(t)
          BY <3>1, <3>3, <1>3 DEF Reach
        <4>2. Reach(t) \in Nat
          BY <3>1, <1>2 DEF Reach
        <4> QED BY <4>1, <4>2
      <3> QED BY <3>2, <3>3
    <2>2. \A phases : phases \in SUBSET Phase /\ Within(phases, t, Reach(t)) => Within(phases, t, Reach(t)')
      <3> SUFFICES ASSUME NEW phases \in SUBSET Phase, Within(phases, t, Reach(t)),
                          NEW p \in phases, p[1] = t
                   PROVE  p[2] < Reach(t)'
        BY DEF Within
      <3>1. p[2] < Reach(t) /\ p[2] \in Nat
        BY <1>2 DEF Within, Phase
      <3> QED BY <3>1, <2>1
    <2>3. Said(session.messages) \in SUBSET Phase /\ Logged \in SUBSET Phase
      BY <1>1, SaidIsPhases DEF TypeOK, Logged, Rows
    <2>4. Within(Said(session.messages), t, Reach(t)') /\ Within(Logged, t, Reach(t)')
      BY <2>2, <2>3, <1>1 DEF PhasesAreOwn
    <2>5. Within({}, t, Reach(t)')
      BY DEF Within
    <2>6. Within(Said(session'.messages), t, Reach(t)')
      BY <2>4, <2>5, <1>5, <1>6
    <2> QED BY <2>4, <2>5, <2>6, <1>3, <1>5
  <1>11. AllInOrder'
    BY <1>1, <1>3, <1>5, <1>6 DEF AllInOrder
  <1>12. LogInOrder'
    BY <1>1, <1>8 DEF LogInOrder, RowsInOrder, StampFits
  <1>13. TurnsInStep' /\ QuestionsStay'
    BY <1>8 DEF TurnsInStep, InStep, QuestionsStay, QuestionStays
  <1>14. SnapshotMatchesLog'
    <2>1. (\A c \in Compactors : task'[c].at # "answered") => \A c \in Compactors : task[c].at # "answered"
      BY <1>2, <1>3 DEF Active
    <2>2. ~torn' => torn' = torn /\ session' = session
      OBVIOUS
    <2> QED BY <2>1, <2>2, <1>1 DEF SnapshotMatchesLog, Logged
  <1> QED BY <1>7, <1>9, <1>10, <1>11, <1>12, <1>13, <1>14 DEF IInv

-------------------------------------------------------------------------------
(* Every step.                                                             *)

LEMMA InitHolds == Init => IInv
  <1> SUFFICES ASSUME Init PROVE IInv
    OBVIOUS
  <1>1. /\ session.messages = <<>> /\ session.version = 0 /\ session = NoSession /\ log = {}
        /\ cut = FALSE /\ torn = FALSE /\ \A t \in Tasks : task[t] = Idle
    BY DEF Init, NoSession
  <1>2. Turns \subseteq Tasks /\ Compactors \subseteq Tasks
    BY DEF Tasks
  <1>3. Idle \in Locals /\ Idle.at = "idle" /\ Idle.messages = <<>> /\ Idle.round = 0
    <2>1. <<>> \in Seq(Message) /\ 0 \in 0 .. MaxRounds /\ "idle" \in Places
      BY SessionConstants DEF Places
    <2> QED BY <2>1 DEF Idle, Locals
  <1>4. Said(<<>>) = {} /\ InOrder(<<>>) /\ Logged = {}
    BY <1>1, SaidOfNothing DEF Logged
  <1>5. TypeOK
    <2>1. task \in [Tasks -> Locals]
      BY <1>3 DEF Init
    <2>2. session \in [messages: Seq(Message), version: Nat]
      BY <1>1 DEF NoSession
    <2> QED BY <1>1, <2>1, <2>2, FS_EmptySet DEF TypeOK
  <1>6. PlacesFit
    <2>1. \A t \in Turns : TurnFits(t)
      BY <1>1, <1>2, <1>3, <1>4 DEF TurnFits, Within, Phasing, Going
    <2> QED BY <2>1, <1>1, <1>2, <1>3 DEF PlacesFit
  <1>7. PhasesAreOwn
    BY <1>1, <1>2, <1>3, <1>4 DEF PhasesAreOwn, Within
  <1>8. AllInOrder
    BY <1>1, <1>3, <1>4 DEF AllInOrder
  <1>9. LogInOrder
    BY <1>1, <1>2, <1>3 DEF LogInOrder, RowsInOrder, StampFits, Pending, Asking, Phasing
  <1>10. TurnsInStep /\ QuestionsStay
    BY <1>1, <1>2, <1>3 DEF TurnsInStep, InStep, QuestionsStay, QuestionStays, Phasing, Going
  <1>11. SnapshotMatchesLog
    BY <1>1, <1>4 DEF SnapshotMatchesLog
  <1> QED BY <1>5, <1>6, <1>7, <1>8, <1>9, <1>10, <1>11 DEF IInv

LEMMA TurnStepKeeps ==
  ASSUME IInv, NEW t \in Turns, TurnStep(t)
  PROVE  IInv'
  <1>1. CASE BeginTurn(t)
    BY <1>1, BeginTurnKeeps
  <1>2. CASE ReloadQuestion(t)
    BY <1>2, ReloadQuestionKeeps
  <1>3. CASE PersistQuestion(t)
    BY <1>3, StoreKeeps, ConflictKeeps DEF PersistQuestion
  <1>4. CASE Reply(t) \/ CallTools(t)
    BY <1>4, AnswerKeeps DEF Reply, CallTools, ByAssistant
  <1>5. CASE PersistPhase(t)
    <2>1. CASE Store(t, "tools") \/ Store(t, "answered")
      BY <1>5, <2>1, StoreKeeps DEF PersistPhase
    <2>2. CASE Conflict(t, "rebase")
      BY <1>5, <2>2, ConflictKeeps DEF PersistPhase
    <2> QED BY <1>5, <2>1, <2>2 DEF PersistPhase
  <1>6. CASE RebasePhase(t)
    BY <1>6, RebasePhaseKeeps
  <1>7. CASE ExecuteTools(t)
    BY <1>7, ExecuteToolsKeeps
  <1>8. CASE FailTurn(t)
    BY <1>8, FailKeeps DEF FailTurn
  <1> QED BY <1>1, <1>2, <1>3, <1>4, <1>5, <1>6, <1>7, <1>8 DEF TurnStep

LEMMA StepKeeps == IInv /\ [Next]_vars => IInv'
  <1> SUFFICES ASSUME IInv, [Next]_vars PROVE IInv'
    OBVIOUS
  <1>1. ASSUME NEW t \in Turns, TurnStep(t) PROVE IInv'
    BY <1>1, TurnStepKeeps
  <1>2. ASSUME NEW c \in Compactors, BeginCompact(c) \/ SaveCompacted(c) PROVE IInv'
    BY <1>2, BeginCompactKeeps, SaveCompactedKeeps
  <1>3. CASE HandleNew
    BY <1>3, HandleNewKeeps
  <1>4. CASE Crash
    <2>1. task' = Killed /\ log' = log /\ cut' = cut /\ session' = session /\ torn' = torn
      BY <1>4 DEF Crash
    <2> QED BY <2>1, KilledKeeps
  <1>5. CASE CrashInNew
    <2>1. task' = Killed /\ log' = log /\ cut' = cut /\ session' = NoSession /\ torn' = TRUE
      BY <1>5 DEF CrashInNew
    <2> QED BY <2>1, KilledKeeps
  <1>6. CASE UNCHANGED vars
    BY <1>6 DEF vars, IInv, TypeOK, PlacesFit, TurnFits, PhasesAreOwn, Reach, Logged, AllInOrder,
               LogInOrder, RowsInOrder, StampFits, Pending, TurnsInStep, InStep, Saying,
               QuestionsStay, QuestionStays, SnapshotMatchesLog
  <1> QED BY <1>1, <1>2, <1>3, <1>4, <1>5, <1>6 DEF Next

(* The inductive invariant holds of every reachable state: what is kept of *)
(* a turn is what it has said (PhasesAreOwn), in the order it said it      *)
(* (AllInOrder, LogInOrder), and a turn that would be let write holds all  *)
(* that the session tells (TurnsInStep).                                   *)
THEOREM SessionsFit == Spec => []IInv
  <1>1. Init => IInv
    BY InitHolds
  <1>2. IInv /\ [Next]_vars => IInv'
    BY StepKeeps
  <1> QED BY <1>1, <1>2, PTL DEF Spec

(* Whatever turns, conflicts, compactions, /new and crashes interleave,    *)
(* the snapshot the next turn starts from is the history: nothing more or  *)
(* less, once, each turn's messages in the order they were said.           *)
THEOREM SnapshotHolds == Spec => []SnapshotTellsTheLog
  <1>1. IInv => SnapshotTellsTheLog
    BY DEF IInv, SnapshotTellsTheLog, AllInOrder, PhasesInOrder
  <1> QED BY <1>1, SessionsFit, PTL

(* Whatever a turn asks the model contains its user's question, however    *)
(* often a conflict made it take over another snapshot.                    *)
THEOREM QuestionsAreAsked == Spec => []QuestionIsAsked
  <1>1. IInv => QuestionIsAsked
    BY DEF IInv, QuestionsStay, QuestionStays, QuestionIsAsked, Phasing, Going
  <1> QED BY <1>1, SessionsFit, PTL
===============================================================================
