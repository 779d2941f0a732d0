----------------------------- MODULE TextProofs ------------------------------
(***************************************************************************)
(* What the read, write and edit tools make of any texts, for any limits   *)
(* and any number of edits. The lemmas on numbers, on functions that are   *)
(* made step by step and on texts made of parts serve AgentLoopProofs too. *)
(***************************************************************************)
EXTENDS FileTools, ToolResults, FiniteSetTheorems, SequenceTheorems, NaturalsInduction, TLAPS

-------------------------------------------------------------------------------
(* Numbers, steps and parts.                                               *)

(* A set of naturals has a least member.                                   *)
LEMMA LeastMember ==
  ASSUME NEW T, T \subseteq Nat, T # {}
  PROVE  \E least \in T : \A t \in T : least <= t
  <1>1. PICK least \in T : \A t \in T : <<t, least>> \notin OpToRel(<, Nat)
    BY WFMin, NatLessThanWellFounded, Zenon
  <1>2. \A t \in T : t \in Nat /\ least \in Nat /\ ~ (t < least)
    <2> TAKE t \in T
    <2>1. t \in Nat /\ least \in Nat
      BY Zenon
    <2>2. <<t, least>> \notin OpToRel(<, Nat)
      BY <1>1
    <2>3. ~ (t < least)
      BY <2>1, <2>2 DEF OpToRel
    <2> QED BY <2>1, <2>3
  <1> QED
    BY <1>2

(* A set of numbers up to n has a greatest one.                            *)
LEMMA MaxOfUpTo ==
  ASSUME NEW n \in Nat, NEW S, S \subseteq 0 .. n, S # {}
  PROVE  Max(S) \in S /\ \A k \in S : k <= Max(S)
  <1> DEFINE Bounds == {b \in 0 .. n : \A k \in S : k <= b}
  <1>1. n \in Bounds
    OBVIOUS
  <1>2. PICK b \in Bounds : \A d \in Bounds : b <= d
    <2> Bounds \subseteq Nat
      OBVIOUS
    <2> HIDE DEF Bounds
    <2> QED BY <1>1, LeastMember
  <1>3. b \in S
    <2> SUFFICES ASSUME b \notin S PROVE FALSE
      OBVIOUS
    <2>1. \A k \in S : k \in Nat /\ k < b
      BY <1>2
    <2>2. PICK k \in S : TRUE
      OBVIOUS
    <2>3. b - 1 \in Bounds
      BY <2>1, <2>2, <1>2
    <2> QED BY <2>3, <1>2
  <1>4. \E m \in S : \A y \in S : m >= y
    BY <1>2, <1>3
  <1>5. Max(S) \in S /\ \A y \in S : Max(S) >= y
    BY <1>4 DEF Max
  <1> QED BY <1>5

LEMMA MinOfTwo ==
  ASSUME NEW a \in Nat, NEW b \in Nat
  PROVE  Min({a, b}) \in Nat /\ Min({a, b}) = IF a <= b THEN a ELSE b
  <1>1. \E x \in {a, b} : \A y \in {a, b} : x =< y
    OBVIOUS
  <1>2. Min({a, b}) \in {a, b} /\ \A y \in {a, b} : Min({a, b}) =< y
    BY <1>1 DEF Min
  <1> QED BY <1>2

(* A set of numbers up to n that has 0 and with each number the next.      *)
LEMMA StepByStep ==
  ASSUME NEW n \in Nat, NEW G, 0 \in G, \A k \in 1 .. n : k - 1 \in G => k \in G
  PROVE  \A k \in 0 .. n : k \in G
  <1> DEFINE Odd == {k \in 0 .. n : k \notin G}
  <1> SUFFICES ASSUME Odd # {} PROVE FALSE
    OBVIOUS
  <1>1. Odd \subseteq Nat
    OBVIOUS
  <1>2. PICK k \in Odd : \A j \in Odd : k <= j
    BY <1>1, LeastMember
  <1>3. k \in 1 .. n /\ k - 1 \in 0 .. n /\ ~(k <= k - 1)
    OBVIOUS
  <1>4. k - 1 \in G
    BY <1>2, <1>3
  <1> QED BY <1>3, <1>4

(* A function that a step makes of the value before exists.                *)
AreSteps(step, n, S) == \A k \in 1 .. n : step[k] \in [S -> S]

MadeBy(step, n, base, f) == f[0] = base /\ \A k \in 1 .. n : f[k] = step[k][f[k - 1]]

LEMMA StepsAreThere ==
  ASSUME NEW n \in Nat, NEW S, NEW base \in S, NEW step, AreSteps(step, n, S)
  PROVE  \E f \in [0 .. n -> S] : MadeBy(step, n, base, f)
  <1> DEFINE Makes(f, m) == f[0] = base /\ \A k \in 1 .. m : f[k] = step[k][f[k - 1]]
             G == {m \in 0 .. n : \E f \in [0 .. m -> S] : Makes(f, m)}
  <1> USE DEF AreSteps
  <1>1. 0 \in G
    <2> DEFINE f == [k \in 0 .. 0 |-> base]
    <2>1. f \in [0 .. 0 -> S] /\ Makes(f, 0)
      OBVIOUS
    <2>2. 0 \in 0 .. n
      OBVIOUS
    <2> QED BY <2>1, <2>2
  <1>2. ASSUME NEW m \in 1 .. n, m - 1 \in G PROVE m \in G
    <2>1. PICK f \in [0 .. m - 1 -> S] : Makes(f, m - 1)
      BY <1>2
    <2> DEFINE g == [k \in 0 .. m |-> IF k = m THEN step[m][f[m - 1]] ELSE f[k]]
    <2>2. m - 1 \in 0 .. m - 1 /\ \A k \in 0 .. m : k # m => k \in 0 .. m - 1
      OBVIOUS
    <2>3. step[m][f[m - 1]] \in S
      BY <2>1, <2>2
    <2>4. g \in [0 .. m -> S]
      BY <2>1, <2>2, <2>3
    <2>5. g[m] = step[m][f[m - 1]] /\ g[m - 1] = f[m - 1] /\ \A k \in 0 .. m - 1 : g[k] = f[k]
      OBVIOUS
    <2>6. 0 \in 0 .. m - 1 /\ \A k \in 1 .. m - 1 : k \in 0 .. m - 1 /\ k - 1 \in 0 .. m - 1
      OBVIOUS
    <2>7. \A k \in 1 .. m : k = m \/ k \in 1 .. m - 1
      OBVIOUS
    <2> HIDE DEF g
    <2>8. Makes(g, m)
      <3>1. g[0] = base
        BY <2>1, <2>5, <2>6
      <3>2. ASSUME NEW k \in 1 .. m PROVE g[k] = step[k][g[k - 1]]
        <4>1. CASE k = m
          BY <4>1, <2>5
        <4>2. CASE k \in 1 .. m - 1
          BY <4>2, <2>1, <2>5, <2>6
        <4> QED BY <4>1, <4>2, <2>7
      <3> QED BY <3>1, <3>2
    <2> HIDE DEF Makes
    <2> QED BY <2>4, <2>8
  <1> HIDE DEF G
  <1>3. n \in G
    <2>1. \A k \in 0 .. n : k \in G
      BY <1>1, <1>2, StepByStep
    <2>2. n \in 0 .. n
      OBVIOUS
    <2> QED BY <2>1, <2>2
  <1> QED BY <1>3 DEF G, MadeBy

(* Joined: sequences one behind the other.                                 *)
JoinedUpTo(parts, f) ==
  /\ f[0] = <<>> /\ \A k \in 1 .. Len(parts) : f[k] = f[k - 1] \o parts[k]
  /\ Joined(parts) = f[Len(parts)]

LEMMA JoinedSteps ==
  ASSUME NEW S, NEW parts \in Seq(Seq(S))
  PROVE  \E f \in [0 .. Len(parts) -> Seq(S)] : JoinedUpTo(parts, f)
  <1> DEFINE n == Len(parts)
             step == [k \in 1 .. n |-> [x \in Seq(S) |-> x \o parts[k]]]
             Steps(f) == f = [k \in 0 .. n |-> IF k = 0 THEN <<>> ELSE f[k - 1] \o parts[k]]
             chosen == CHOOSE f : f = [k \in 0 .. n |-> IF k = 0 THEN <<>> ELSE f[k - 1] \o parts[k]]
  <1>1. n \in Nat /\ <<>> \in Seq(S) /\ \A k \in 1 .. n : parts[k] \in Seq(S)
    OBVIOUS
  <1>2. \A k \in 1 .. n : step[k] \in [Seq(S) -> Seq(S)]
    BY <1>1, ConcatProperties
  <1>3. Joined(parts) = chosen[n]
    BY Zenon DEF Joined
  <1> HIDE DEF n
  <1>4. PICK f \in [0 .. n -> Seq(S)] : f[0] = <<>> /\ \A k \in 1 .. n : f[k] = step[k][f[k - 1]]
    <2>1. AreSteps(step, n, Seq(S))
      BY <1>2 DEF AreSteps
    <2> HIDE DEF step
    <2>2. \E f \in [0 .. n -> Seq(S)] : MadeBy(step, n, <<>>, f)
      BY <1>1, <2>1, StepsAreThere
    <2> QED BY <2>2 DEF MadeBy
  <1>5. \A k \in 1 .. n : f[k] = f[k - 1] \o parts[k]
    <2>1. \A k \in 1 .. n : k - 1 \in 0 .. n
      BY <1>1
    <2> QED BY <2>1, <1>4
  <1>6. Steps(f)
    <2>1. \A k \in 0 .. n : k = 0 \/ k \in 1 .. n
      BY <1>1
    <2> QED BY <2>1, <1>4, <1>5
  <1>7. Steps(chosen)
    BY <1>6, Zenon
  <1> HIDE DEF chosen
  <1>10. \A k \in 0 .. n : chosen[k] = IF k = 0 THEN <<>> ELSE chosen[k - 1] \o parts[k]
    BY <1>7, Zenon
  <1>8. \A k \in 0 .. n : chosen[k] = f[k]
    <2> DEFINE G == {k \in 0 .. n : chosen[k] = f[k]}
    <2>1. 0 \in G
      BY <1>1, <1>4, <1>7
    <2>2. ASSUME NEW k \in 1 .. n, k - 1 \in G PROVE k \in G
      <3>1. k \in 0 .. n /\ k # 0
        BY <1>1
      <3>2. chosen[k] = chosen[k - 1] \o parts[k]
        BY <3>1, <1>10, Zenon
      <3> QED BY <3>1, <3>2, <2>2, <1>5
    <2> HIDE DEF G
    <2>3. \A k \in 0 .. n : k \in G
      BY <1>1, <2>1, <2>2, StepByStep
    <2> QED BY <2>3 DEF G
  <1>9. n \in 0 .. n
    BY <1>1
  <1> QED BY <1>3, <1>4, <1>5, <1>8, <1>9 DEF JoinedUpTo, n

LEMMA JoinedIs ==
  ASSUME NEW S, NEW parts \in Seq(Seq(S))
  PROVE  Joined(parts) \in Seq(S)
  <1>1. Len(parts) \in Nat
    BY LenProperties
  <1>2. PICK f \in [0 .. Len(parts) -> Seq(S)] : JoinedUpTo(parts, f)
    BY JoinedSteps
  <1>3. Joined(parts) = f[Len(parts)]
    BY <1>2 DEF JoinedUpTo
  <1>4. Len(parts) \in 0 .. Len(parts)
    BY <1>1
  <1> QED BY <1>3, <1>4

(* An equation into which the provers need not look.                       *)
Same(x, y) == x = y

LEMMA Regrouped ==
  ASSUME NEW S, NEW x \in Seq(S), NEW y \in Seq(S), NEW z \in Seq(S)
  PROVE  Same((x \o y) \o z, x \o (y \o z))
  BY DEF Same

AreBoth(S, a, b, c) ==
  /\ c \in Seq(S) /\ Len(c) = Len(a) + Len(b)
  /\ \A k \in 1 .. Len(a) : c[k] = a[k]
  /\ \A k \in 1 .. Len(b) : c[Len(a) + k] = b[k]

LEMMA BothAre ==
  ASSUME NEW S, NEW a \in Seq(S), NEW b \in Seq(S)
  PROVE  AreBoth(S, a, b, a \o b)
  BY DEF AreBoth

LEMMA JoinedTwo ==
  ASSUME NEW S, NEW left \in Seq(Seq(S)), NEW right \in Seq(Seq(S))
  PROVE  Same(Joined(left \o right), Joined(left) \o Joined(right))
  <1> DEFINE both == left \o right
             l == Len(left)
             m == Len(right)
  <1>1. both \in Seq(Seq(S)) /\ l \in Nat /\ m \in Nat /\ Len(both) = l + m
    OBVIOUS
  <1>2. (\A k \in 1 .. l : both[k] = left[k]) /\ \A k \in 1 .. m : both[l + k] = right[k]
    OBVIOUS
  <1>3. PICK f \in [0 .. Len(left) -> Seq(S)] : JoinedUpTo(left, f)
    BY JoinedSteps
  <1>4. PICK g \in [0 .. Len(right) -> Seq(S)] : JoinedUpTo(right, g)
    BY JoinedSteps
  <1> HIDE DEF both
  <1>5. PICK h \in [0 .. Len(both) -> Seq(S)] : JoinedUpTo(both, h)
    BY <1>1, JoinedSteps
  <1>6. /\ f[0] = <<>> /\ (\A k \in 1 .. l : f[k] = f[k - 1] \o left[k]) /\ Joined(left) = f[l]
        /\ g[0] = <<>> /\ (\A k \in 1 .. m : g[k] = g[k - 1] \o right[k]) /\ Joined(right) = g[m]
        /\ h[0] = <<>> /\ (\A k \in 1 .. l + m : h[k] = h[k - 1] \o both[k]) /\ Joined(both) = h[l + m]
        /\ f \in [0 .. l -> Seq(S)] /\ g \in [0 .. m -> Seq(S)]
    BY <1>1, <1>3, <1>4, <1>5 DEF JoinedUpTo
  <1>7. \A k \in 1 .. m : right[k] \in Seq(S)
    OBVIOUS
  <1> HIDE DEF l, m
  <1>8. \A k \in 0 .. l : h[k] = f[k]
    <2> DEFINE G == {k \in 0 .. l : h[k] = f[k]}
    <2>1. 0 \in G
      BY <1>1, <1>6
    <2>2. ASSUME NEW k \in 1 .. l, k - 1 \in G PROVE k \in G
      <3>1. k \in 0 .. l /\ k \in 1 .. l + m
        BY <1>1
      <3> QED BY <3>1, <2>2, <1>2, <1>6
    <2> HIDE DEF G
    <2>3. \A k \in 0 .. l : k \in G
      BY <1>1, <2>1, <2>2, StepByStep
    <2> QED BY <2>3 DEF G
  <1>9. l \in 0 .. l /\ f[l] \in Seq(S)
    BY <1>1, <1>6
  <1>10. \A k \in 0 .. m : h[l + k] = f[l] \o g[k]
    <2> DEFINE G == {k \in 0 .. m : h[l + k] = f[l] \o g[k]}
    <2>1. 0 \in G
      <3>1. h[l + 0] = f[l] /\ f[l] \o <<>> = f[l]
        BY <1>1, <1>8, <1>9
      <3>2. 0 \in 0 .. m
        BY <1>1
      <3> QED BY <3>1, <3>2, <1>6
    <2>2. ASSUME NEW k \in 1 .. m, k - 1 \in G PROVE k \in G
      <3>1. k \in 0 .. m /\ k - 1 \in 0 .. m /\ l + k \in 1 .. l + m /\ (l + k) - 1 = l + (k - 1)
        BY <1>1
      <3>2. h[l + k] = (f[l] \o g[k - 1]) \o right[k]
        <4>1. h[l + (k - 1)] = f[l] \o g[k - 1]
          BY <2>2
        <4>2. h[l + k] = h[l + (k - 1)] \o both[l + k]
          BY <3>1, <1>6
        <4>3. both[l + k] = right[k]
          BY <1>2
        <4> QED BY <4>1, <4>2, <4>3, Zenon
      <3>3. g[k - 1] \in Seq(S) /\ right[k] \in Seq(S) /\ g[k] = g[k - 1] \o right[k]
        BY <3>1, <1>6, <1>7
      <3>4. (f[l] \o g[k - 1]) \o right[k] = f[l] \o (g[k - 1] \o right[k])
        <4>1. Same((f[l] \o g[k - 1]) \o right[k], f[l] \o (g[k - 1] \o right[k]))
          BY <3>3, <1>9, Regrouped
        <4> QED BY <4>1 DEF Same
      <3> QED BY <3>1, <3>2, <3>3, <3>4
    <2> HIDE DEF G
    <2>3. \A k \in 0 .. m : k \in G
      BY <1>1, <2>1, <2>2, StepByStep
    <2> QED BY <2>3 DEF G
  <1>11. m \in 0 .. m
    BY <1>1
  <1> QED BY <1>6, <1>10, <1>11 DEF both, Same

LEMMA JoinedOne ==
  ASSUME NEW S, NEW part \in Seq(S)
  PROVE  Same(Joined(<<part>>), part)
  <1> DEFINE parts == <<part>>
  <1>1. parts \in Seq(Seq(S)) /\ Len(parts) = 1 /\ parts[1] = part
    OBVIOUS
  <1> HIDE DEF parts
  <1>2. PICK f \in [0 .. Len(parts) -> Seq(S)] : JoinedUpTo(parts, f)
    BY <1>1, JoinedSteps
  <1>3. f[0] = <<>> /\ f[1] = f[0] \o part /\ Joined(parts) = f[1]
    <2>1. 1 \in 1 .. 1 /\ 1 - 1 = 0
      OBVIOUS
    <2> QED BY <1>1, <1>2, <2>1 DEF JoinedUpTo
  <1> QED BY <1>3 DEF Same, parts

LEMMA JoinedNone == Joined(<<>>) = <<>>
  <1> DEFINE parts == <<>>
  <1>1. parts \in Seq(Seq(STRING)) /\ Len(parts) = 0
    OBVIOUS
  <1> HIDE DEF parts
  <1>2. PICK f \in [0 .. Len(parts) -> Seq(STRING)] : JoinedUpTo(parts, f)
    BY <1>1, JoinedSteps
  <1> QED BY <1>1, <1>2 DEF JoinedUpTo, parts

(* What a part more adds.                                                  *)
LEMMA JoinedMore ==
  ASSUME NEW S, NEW parts \in Seq(Seq(S)), NEW part \in Seq(S)
  PROVE  Same(Joined(parts \o <<part>>), Joined(parts) \o part)
  <1>1. <<part>> \in Seq(Seq(S))
    OBVIOUS
  <1>2. Same(Joined(parts \o <<part>>), Joined(parts) \o Joined(<<part>>))
    BY <1>1, JoinedTwo
  <1>3. Same(Joined(<<part>>), part)
    BY JoinedOne
  <1> QED BY <1>2, <1>3 DEF Same

-------------------------------------------------------------------------------
(* Sizes in bytes.                                                         *)
WideOf(text) == {i \in DOMAIN text : IsWide(text[i])}

LEMMA WideAre ==
  ASSUME NEW S, NEW text \in Seq(S)
  PROVE  /\ IsFiniteSet(WideOf(text)) /\ Cardinality(WideOf(text)) \in Nat
         /\ Utf8Size(text) = Len(text) + 2 * Cardinality(WideOf(text))
         /\ Utf8Size(text) \in Nat /\ Utf8Size(text) >= Len(text) /\ Len(text) \in Nat
  <1>1. Len(text) \in Nat /\ DOMAIN text = 1 .. Len(text)
    OBVIOUS
  <1>2. IsFiniteSet(1 .. Len(text))
    BY <1>1, FS_Interval
  <1>3. WideOf(text) \in SUBSET (1 .. Len(text))
    BY <1>1 DEF WideOf
  <1>4. IsFiniteSet(WideOf(text)) /\ Cardinality(WideOf(text)) \in Nat
    BY <1>2, <1>3, FS_Subset, FS_CardinalityType
  <1>5. Utf8Size(text) = Len(text) + 2 * Cardinality(WideOf(text))
    BY DEF Utf8Size, WideOf
  <1> QED BY <1>1, <1>4, <1>5

LEMMA SizeOfBoth ==
  ASSUME NEW S, NEW x \in Seq(S), NEW y \in Seq(S)
  PROVE  Utf8Size(x \o y) = Utf8Size(x) + Utf8Size(y)
  <1> DEFINE both == x \o y
             l == Len(x)
             later == {k \in l + 1 .. l + Len(y) : IsWide(y[k - l])}
             shift == [k \in WideOf(y) |-> l + k]
  <1>1. AreBoth(S, x, y, both)
    BY BothAre
  <1>2. both \in Seq(S) /\ Len(both) = l + Len(y) /\ l \in Nat /\ Len(y) \in Nat
    BY <1>1, LenProperties DEF AreBoth
  <1>3. (\A k \in 1 .. l : both[k] = x[k]) /\ \A k \in 1 .. Len(y) : both[l + k] = y[k]
    BY <1>1 DEF AreBoth
  <1> HIDE DEF both
  <1>4. DOMAIN both = 1 .. l + Len(y) /\ DOMAIN x = 1 .. l /\ DOMAIN y = 1 .. Len(y)
    BY <1>2, LenProperties
  <1> HIDE DEF l
  <1>5. \A k \in l + 1 .. l + Len(y) : k - l \in 1 .. Len(y) /\ l + (k - l) = k
    BY <1>2
  <1>6. WideOf(both) = WideOf(x) \cup later
    <2>1. \A k \in l + 1 .. l + Len(y) : both[k] = y[k - l]
      BY <1>3, <1>5
    <2>2. \A k : k \in 1 .. l + Len(y) <=> k \in 1 .. l \/ k \in l + 1 .. l + Len(y)
      BY <1>2
    <2> QED BY <2>1, <2>2, <1>3, <1>4 DEF WideOf
  <1>7. WideOf(x) \cap later = {}
    <2>1. \A k \in 1 .. l : k \notin l + 1 .. l + Len(y)
      BY <1>2
    <2> QED BY <2>1, <1>4 DEF WideOf
  <1>8. IsFiniteSet(later) /\ Cardinality(later) = Cardinality(WideOf(y))
    <2>1. IsFiniteSet(WideOf(y))
      BY WideAre
    <2>2. shift \in [WideOf(y) -> later]
      <3>1. \A k \in WideOf(y) : k \in 1 .. Len(y) /\ IsWide(y[k])
        BY <1>4 DEF WideOf
      <3>2. \A k \in 1 .. Len(y) : l + k \in l + 1 .. l + Len(y) /\ (l + k) - l = k
        BY <1>2
      <3> QED BY <3>1, <3>2
    <2>3. \A k \in later : k - l \in WideOf(y) /\ shift[k - l] = k
      BY <1>4, <1>5 DEF WideOf
    <2>4. \A j, k \in WideOf(y) : shift[j] = shift[k] => j = k
      <3>1. \A k \in WideOf(y) : k \in Int
        BY <1>4 DEF WideOf
      <3> QED BY <3>1, <1>2
    <2>5. shift \in Bijection(WideOf(y), later)
      BY <2>2, <2>3, <2>4 DEF Bijection, Injection, Surjection, IsInjective
    <2>6. ExistsBijection(WideOf(y), later)
      BY <2>5 DEF ExistsBijection
    <2> HIDE DEF later, shift
    <2> QED BY <2>1, <2>6, FS_Bijection
  <1>9. IsFiniteSet(WideOf(x)) /\ Cardinality(WideOf(x)) \in Nat /\ Cardinality(WideOf(y)) \in Nat
    BY WideAre
  <1> HIDE DEF later
  <1>10. Cardinality(WideOf(both)) = Cardinality(WideOf(x)) + Cardinality(WideOf(y))
    <2>1. Cardinality(WideOf(x) \cup later) = Cardinality(WideOf(x)) + Cardinality(later) - Cardinality({})
      BY <1>7, <1>8, <1>9, FS_Union
    <2>2. Cardinality({}) = 0
      BY FS_EmptySet
    <2> QED BY <2>1, <2>2, <1>6, <1>8, <1>9
  <1>11. /\ Utf8Size(both) = Len(both) + 2 * Cardinality(WideOf(both))
         /\ Utf8Size(x) = Len(x) + 2 * Cardinality(WideOf(x))
         /\ Utf8Size(y) = Len(y) + 2 * Cardinality(WideOf(y))
    BY <1>2, WideAre
  <1> QED BY <1>2, <1>9, <1>10, <1>11 DEF both, l

-------------------------------------------------------------------------------
(* Lines.                                                                  *)
LEMMA FunctionIsSeq ==
  ASSUME NEW S, NEW n \in Nat, NEW f \in [1 .. n -> S]
  PROVE  f \in Seq(S) /\ Len(f) = n /\ DOMAIN f = 1 .. n
  OBVIOUS

AllChars == STRING \cup {"\n", "\r", Dash, Bom}
AllTexts == Seq(AllChars)
Chars == AllChars \ {"\r"}
PlainTexts == Seq(Chars)

LEMMA PlainIsText == PlainTexts \subseteq AllTexts
  <1> SUFFICES ASSUME NEW text \in PlainTexts PROVE text \in AllTexts
    OBVIOUS
  <1>1. Chars \subseteq AllChars
    BY DEF Chars
  <1> QED BY <1>1, SeqMonotonic DEF PlainTexts, AllTexts

(* Without returns: normalize_newlines leaves none.                        *)
LEMMA NormalIsPlain ==
  ASSUME NEW text \in AllTexts
  PROVE  NormalizeNewlines(text) \in PlainTexts
  <1> DEFINE parts == [i \in DOMAIN text |-> NormalPart(text, i)]
  <1>1. Len(text) \in Nat /\ DOMAIN text = 1 .. Len(text) /\ \A i \in DOMAIN text : text[i] \in AllChars
    BY DEF AllTexts
  <1>2. \A i \in DOMAIN text : NormalPart(text, i) \in PlainTexts
    <2> SUFFICES ASSUME NEW i \in DOMAIN text PROVE NormalPart(text, i) \in PlainTexts
      OBVIOUS
    <2>1. <<>> \in PlainTexts
      BY DEF PlainTexts
    <2>2. "\n" \in Chars
      BY DEF Chars, AllChars
    <2>3. <<"\n">> \in PlainTexts
      BY <2>2 DEF PlainTexts
    <2>4. CASE text[i] = "\r"
      BY <2>1, <2>3, <2>4 DEF NormalPart
    <2>5. CASE text[i] # "\r"
      <3>1. text[i] \in Chars
        BY <1>1, <2>5 DEF Chars
      <3>2. <<text[i]>> \in PlainTexts
        BY <3>1 DEF PlainTexts
      <3> QED BY <3>2, <2>1, <2>5 DEF NormalPart
    <2> QED BY <2>4, <2>5
  <1>3. parts \in [1 .. Len(text) -> PlainTexts]
    BY <1>1, <1>2
  <1>4. parts \in Seq(PlainTexts)
    BY <1>1, <1>3, FunctionIsSeq
  <1> HIDE DEF parts
  <1>5. Joined(parts) \in PlainTexts
    BY <1>4, JoinedIs DEF PlainTexts
  <1> QED BY <1>5 DEF NormalizeNewlines, parts

(* A text has a line at least.                                             *)
LineSeqs == Seq(AllTexts) \ {<<>>}

LEMMA CharIsAdded ==
  ASSUME NEW lines \in LineSeqs, NEW c \in AllChars
  PROVE  WithChar(lines, c) \in LineSeqs
  <1>1. lines \in Seq(AllTexts) /\ Len(lines) \in Nat /\ Len(lines) # 0
    BY DEF LineSeqs
  <1>2. Len(lines) \in 1 .. Len(lines) /\ lines[Len(lines)] \in AllTexts
    BY <1>1
  <1> DEFINE end == Len(lines)
             line == lines[end]
             longer == Append(line, c)
             other == [lines EXCEPT ![end] = longer]
  <1>3. <<>> \in AllTexts /\ longer \in AllTexts
    <2>1. line \in AllTexts
      BY <1>2
    <2> HIDE DEF line
    <2> QED BY <2>1 DEF AllTexts
  <1>4. Append(lines, <<>>) \in LineSeqs
    <2>1. Append(lines, <<>>) \in Seq(AllTexts) /\ Len(Append(lines, <<>>)) = Len(lines) + 1
      BY <1>1, <1>3
    <2>2. Append(lines, <<>>) # <<>>
      BY <2>1, <1>1
    <2> QED BY <2>1, <2>2 DEF LineSeqs
  <1>5. other \in LineSeqs
    <2>1. end \in 1 .. Len(lines) /\ longer \in AllTexts
      BY <1>2, <1>3
    <2> HIDE DEF end, longer
    <2>2. other \in Seq(AllTexts) /\ Len(other) = Len(lines)
      BY <2>1, <1>1, ExceptSeq
    <2> HIDE DEF other
    <2> QED BY <2>2, <1>1 DEF LineSeqs
  <1> QED BY <1>4, <1>5 DEF WithChar

LinesUpTo(text, f) ==
  /\ f[0] = << <<>> >> /\ \A k \in 1 .. Len(text) : f[k] = WithChar(f[k - 1], text[k])
  /\ LinesOf(text) = f[Len(text)]

LEMMA LinesSteps ==
  ASSUME NEW text \in AllTexts
  PROVE  \E f \in [0 .. Len(text) -> LineSeqs] : LinesUpTo(text, f)
  <1> DEFINE n == Len(text)
             step == [k \in 1 .. n |-> [x \in LineSeqs |-> WithChar(x, text[k])]]
             Steps(f) == f = [k \in 0 .. n |-> IF k = 0 THEN << <<>> >> ELSE WithChar(f[k - 1], text[k])]
             chosen == CHOOSE f : f = [k \in 0 .. n |-> IF k = 0 THEN << <<>> >> ELSE WithChar(f[k - 1], text[k])]
  <1>1. n \in Nat /\ << <<>> >> \in LineSeqs /\ \A k \in 1 .. n : text[k] \in AllChars
    BY DEF AllTexts, LineSeqs
  <1>2. \A k \in 1 .. n : step[k] \in [LineSeqs -> LineSeqs]
    BY <1>1, CharIsAdded
  <1>3. LinesOf(text) = chosen[n]
    BY Zenon DEF LinesOf
  <1> HIDE DEF n
  <1>4. PICK f \in [0 .. n -> LineSeqs] : f[0] = << <<>> >> /\ \A k \in 1 .. n : f[k] = step[k][f[k - 1]]
    <2>1. AreSteps(step, n, LineSeqs)
      BY <1>2 DEF AreSteps
    <2> HIDE DEF step
    <2>2. \E f \in [0 .. n -> LineSeqs] : MadeBy(step, n, << <<>> >>, f)
      BY <1>1, <2>1, StepsAreThere
    <2> QED BY <2>2 DEF MadeBy
  <1>5. \A k \in 1 .. n : f[k] = WithChar(f[k - 1], text[k])
    <2>1. \A k \in 1 .. n : k - 1 \in 0 .. n
      BY <1>1
    <2> QED BY <2>1, <1>4
  <1>6. Steps(f)
    <2>1. \A k \in 0 .. n : k = 0 \/ k \in 1 .. n
      BY <1>1
    <2> QED BY <2>1, <1>4, <1>5
  <1>7. Steps(chosen)
    BY <1>6, Zenon
  <1> HIDE DEF chosen
  <1>8. \A k \in 0 .. n : chosen[k] = IF k = 0 THEN << <<>> >> ELSE WithChar(chosen[k - 1], text[k])
    BY <1>7, Zenon
  <1>9. \A k \in 0 .. n : chosen[k] = f[k]
    <2> DEFINE G == {k \in 0 .. n : chosen[k] = f[k]}
    <2>1. 0 \in G
      BY <1>1, <1>4, <1>7
    <2>2. ASSUME NEW k \in 1 .. n, k - 1 \in G PROVE k \in G
      <3>1. k \in 0 .. n /\ k # 0
        BY <1>1
      <3>2. chosen[k] = WithChar(chosen[k - 1], text[k])
        BY <3>1, <1>8, Zenon
      <3> QED BY <3>1, <3>2, <2>2, <1>5
    <2> HIDE DEF G
    <2>3. \A k \in 0 .. n : k \in G
      BY <1>1, <2>1, <2>2, StepByStep
    <2> QED BY <2>3 DEF G
  <1>10. n \in 0 .. n
    BY <1>1
  <1> QED BY <1>3, <1>4, <1>5, <1>9, <1>10 DEF LinesUpTo, n

LEMMA LinesAre ==
  ASSUME NEW text \in AllTexts
  PROVE  /\ LinesOf(text) \in LineSeqs /\ LinesOf(text) \in Seq(AllTexts)
         /\ Len(LinesOf(text)) \in Nat /\ Len(LinesOf(text)) >= 1
  <1>1. Len(text) \in Nat
    BY DEF AllTexts
  <1>2. PICK f \in [0 .. Len(text) -> LineSeqs] : LinesUpTo(text, f)
    BY LinesSteps
  <1>3. LinesOf(text) = f[Len(text)] /\ Len(text) \in 0 .. Len(text)
    BY <1>1, <1>2 DEF LinesUpTo
  <1>4. LinesOf(text) \in LineSeqs
    BY <1>2, <1>3
  <1> QED BY <1>4 DEF LineSeqs

(* Lines joined take no fewer bytes than the first of them.                *)
LEMMA FirstLineIsPart ==
  ASSUME NEW lines \in Seq(AllTexts), lines # <<>>
  PROVE  Utf8Size(JoinLines(lines)) \in Nat /\ Utf8Size(lines[1]) <= Utf8Size(JoinLines(lines))
  <1> DEFINE n == Len(lines)
             parts == [k \in DOMAIN lines |-> IF k = 1 THEN lines[1] ELSE <<"\n">> \o lines[k]]
             rest == [k \in 1 .. n - 1 |-> parts[k + 1]]
  <1>1. n \in Nat /\ n >= 1 /\ DOMAIN lines = 1 .. n /\ \A k \in 1 .. n : lines[k] \in AllTexts
    OBVIOUS
  <1>2. 1 \in 1 .. n /\ n - 1 \in Nat
    BY <1>1
  <1> HIDE DEF n
  <1>3. \A k \in 1 .. n : <<"\n">> \o lines[k] \in AllTexts
    <2>1. <<"\n">> \in AllTexts
      <3>1. "\n" \in AllChars
        BY DEF AllChars
      <3> QED BY <3>1 DEF AllTexts
    <2> QED BY <2>1, <1>1, ConcatProperties DEF AllTexts
  <1>4. parts \in [1 .. n -> AllTexts] /\ parts[1] = lines[1]
    BY <1>1, <1>2, <1>3
  <1> HIDE DEF parts
  <1>5. parts \in Seq(AllTexts) /\ Len(parts) = n
    BY <1>1, <1>4, FunctionIsSeq
  <1>6. rest \in [1 .. n - 1 -> AllTexts]
    <2>1. \A k \in 1 .. n - 1 : k + 1 \in 1 .. n
      BY <1>1
    <2> QED BY <2>1, <1>4
  <1>7. rest \in Seq(AllTexts) /\ Len(rest) = n - 1 /\ \A k \in 1 .. n - 1 : rest[k] = parts[k + 1]
    BY <1>2, <1>6, FunctionIsSeq
  <1> HIDE DEF rest
  <1>8. parts = <<lines[1]>> \o rest
    <2>1. <<lines[1]>> \in Seq(AllTexts) /\ Len(<<lines[1]>>) = 1
      BY <1>1, <1>2
    <2>2. AreBoth(AllTexts, <<lines[1]>>, rest, <<lines[1]>> \o rest)
      BY <2>1, <1>7, BothAre
    <2> DEFINE both == <<lines[1]>> \o rest
    <2>3. both \in Seq(AllTexts) /\ Len(both) = n /\ both[1] = lines[1] /\ \A k \in 1 .. n - 1 : both[1 + k] = rest[k]
      <3>1. Len(<<lines[1]>>) + Len(rest) = n /\ <<lines[1]>>[1] = lines[1] /\ 1 \in 1 .. 1
        BY <2>1, <1>1, <1>7
      <3> QED BY <2>1, <2>2, <3>1, <1>7 DEF AreBoth
    <2> HIDE DEF both
    <2>4. \A k \in 1 .. n : parts[k] = both[k]
      <3> SUFFICES ASSUME NEW k \in 1 .. n PROVE parts[k] = both[k]
        OBVIOUS
      <3>1. CASE k = 1
        BY <3>1, <2>3, <1>4
      <3>2. CASE k # 1
        <4>1. k - 1 \in 1 .. n - 1 /\ 1 + (k - 1) = k /\ (k - 1) + 1 = k
          BY <3>2, <1>1
        <4>2. both[1 + (k - 1)] = rest[k - 1] /\ rest[k - 1] = parts[(k - 1) + 1]
          BY <4>1, <2>3, <1>7
        <4> QED BY <4>1, <4>2
      <3> QED BY <3>1, <3>2
    <2>5. parts = both
      BY <2>3, <2>4, <1>5, SeqEqual
    <2> QED BY <2>5 DEF both
  <1>9. Joined(parts) = lines[1] \o Joined(rest)
    <2>1. <<lines[1]>> \in Seq(AllTexts) /\ lines[1] \in AllTexts
      BY <1>1, <1>2
    <2>2. Same(Joined(<<lines[1]>> \o rest), Joined(<<lines[1]>>) \o Joined(rest))
      BY <2>1, <1>7, JoinedTwo DEF AllTexts
    <2>3. Same(Joined(<<lines[1]>>), lines[1])
      BY <2>1, JoinedOne DEF AllTexts
    <2> QED BY <2>2, <2>3, <1>8 DEF Same
  <1>10. Joined(rest) \in AllTexts /\ lines[1] \in AllTexts
    BY <1>1, <1>2, <1>7, JoinedIs DEF AllTexts
  <1>11. Utf8Size(Joined(parts)) = Utf8Size(lines[1]) + Utf8Size(Joined(rest))
    BY <1>9, <1>10, SizeOfBoth DEF AllTexts
  <1>12. Utf8Size(lines[1]) \in Nat /\ Utf8Size(Joined(rest)) \in Nat
    BY <1>10, WideAre DEF AllTexts
  <1>13. JoinLines(lines) = Joined(parts)
    BY DEF JoinLines, parts
  <1> QED BY <1>11, <1>12, <1>13

-------------------------------------------------------------------------------
(* What a read shows, and how it goes on.                                  *)
LEMMA FileNumbers ==
  MaxLines \in Nat /\ MaxBytes \in Nat /\ Limits \subseteq Nat /\ NoLimit \notin Nat
  <1>1. MaxLines \in Nat \ {0} /\ MaxBytes \in Nat /\ Limits \subseteq Nat /\ NoLimit \notin Nat
    BY FileConstants, Zenon DEF FileConstants
  <1> QED BY <1>1

LEMMA FittingIs ==
  ASSUME NEW lines \in Seq(AllTexts), lines # <<>>
  PROVE  /\ Fitting(lines) \in 0 .. Len(lines)
         /\ Fitting(lines) > 0 => ~IsLong(lines[1])
  <1> DEFINE n == Len(lines)
             most == Min({n, MaxLines})
             fit == {k \in 0 .. most : k = 0 \/ Utf8Size(JoinLines(SubSeq(lines, 1, k))) <= MaxBytes}
  <1>1. n \in Nat /\ n >= 1 /\ MaxLines \in Nat /\ MaxBytes \in Nat
    BY FileNumbers
  <1>2. Fitting(lines) = Max(fit)
    BY DEF Fitting
  <1>3. most \in 0 .. n
    <2> HIDE DEF n
    <2>1. Min({n, MaxLines}) \in Nat /\ Min({n, MaxLines}) = IF n <= MaxLines THEN n ELSE MaxLines
      BY <1>1, MinOfTwo
    <2> QED BY <2>1, <1>1
  <1> HIDE DEF most
  <1>4. fit \subseteq 0 .. most /\ fit # {}
    <2>1. 0 \in fit
      BY <1>3
    <2> QED BY <2>1
  <1>5. most \in Nat
    BY <1>1, <1>3
  <1>6. ASSUME NEW k \in fit, k > 0 PROVE ~IsLong(lines[1])
    <2> DEFINE start == SubSeq(lines, 1, k)
    <2>1. k \in 1 .. n /\ Utf8Size(JoinLines(start)) <= MaxBytes
      BY <1>1, <1>3, <1>6
    <2>2. start \in Seq(AllTexts) /\ start # <<>> /\ start[1] = lines[1]
      <3>1. start \in Seq(AllTexts) /\ Len(start) = k /\ start[1] = lines[1]
        BY <2>1
      <3> QED BY <3>1, <1>6
    <2> HIDE DEF start
    <2>3. Utf8Size(JoinLines(start)) \in Nat /\ Utf8Size(lines[1]) <= Utf8Size(JoinLines(start))
      BY <2>2, FirstLineIsPart
    <2>4. Utf8Size(lines[1]) \in Nat
      <3>1. lines[1] \in Seq(AllChars)
        BY <1>1 DEF AllTexts
      <3> QED BY <3>1, WideAre
    <2> QED BY <2>1, <2>3, <2>4, <1>1 DEF IsLong
  <1> HIDE DEF fit
  <1>7. Max(fit) \in fit
    BY <1>4, <1>5, MaxOfUpTo
  <1> HIDE DEF n
  <1>8. Max(fit) \in 0 .. n
    <2>1. Max(fit) \in 0 .. most
      BY <1>4, <1>7
    <2>2. 0 .. most \subseteq 0 .. n
      BY <1>1, <1>3
    <2> QED BY <2>1, <2>2
  <1> QED BY <1>2, <1>6, <1>7, <1>8 DEF n

(* The lines selected, of which there is one at least.                     *)
LEMMA SelectedAre ==
  ASSUME NEW lines \in Seq(AllTexts), NEW start \in Nat, start < Len(lines),
         NEW limit \in Limits \cup {NoLimit}
  PROVE  /\ Selected(lines, start, limit) \in Seq(AllTexts)
         /\ Selected(lines, start, limit) # <<>>
         /\ limit = 0 => Len(Selected(lines, start, limit)) = 1 /\ ~IsLong(Selected(lines, start, limit)[1])
         /\ limit # 0 => start + Len(Selected(lines, start, limit)) <= Len(lines)
         /\ limit \in Nat \ {0} /\ start + limit < Len(lines) => Len(Selected(lines, start, limit)) = limit
         /\ limit = NoLimit \/ (limit \in Nat /\ start + limit >= Len(lines))
              => start + Len(Selected(lines, start, limit)) = Len(lines)
  <1> DEFINE n == Len(lines)
             end == IF limit = NoLimit THEN Len(lines) ELSE Min({start + limit, Len(lines)})
  <1>1. n \in Nat /\ start < n
    OBVIOUS
  <1>2. (limit = NoLimit \/ limit \in Nat) /\ NoLimit \notin Nat /\ NoLimit # 0
    BY FileNumbers
  <1>3. CASE limit = 0
    <2>1. Selected(lines, start, limit) = << <<>> >>
      BY <1>3 DEF Selected
    <2>2. << <<>> >> \in Seq(AllTexts) /\ Len(<< <<>> >>) = 1 /\ << <<>> >>[1] = <<>> /\ << <<>> >> # <<>>
      BY DEF AllTexts
    <2>3. Utf8Size(<<>>) = 0
      BY FS_EmptySet DEF Utf8Size
    <2>4. ~IsLong(<<>>)
      BY <2>3, FileNumbers DEF IsLong
    <2>5. limit # NoLimit /\ limit \notin Nat \ {0} /\ ~(start + limit >= Len(lines))
      BY <1>1, <1>2, <1>3
    <2> DEFINE sel == Selected(lines, start, limit)
    <2>6. sel \in Seq(AllTexts) /\ sel # <<>> /\ Len(sel) = 1 /\ ~IsLong(sel[1])
      BY <2>1, <2>2, <2>4
    <2> HIDE DEF sel
    <2> QED BY <1>3, <2>5, <2>6 DEF sel
  <1>4. CASE limit # 0
    <2>1. Selected(lines, start, limit) = SubSeq(lines, start + 1, end)
      BY <1>4 DEF Selected
    <2>2. /\ end \in start + 1 .. n
          /\ limit \in Nat /\ start + limit < n => end = start + limit
          /\ limit = NoLimit \/ (limit \in Nat /\ start + limit >= n) => end = n
      <3>1. CASE limit = NoLimit
        <4>1. end = n /\ limit \notin Nat
          BY <3>1, <1>2
        <4> HIDE DEF end
        <4>2. n \in start + 1 .. n
          BY <1>1
        <4> QED BY <4>1, <4>2
      <3>2. CASE limit # NoLimit
        <4>1. limit \in Nat /\ limit >= 1 /\ start + limit \in Nat
          BY <3>2, <1>2, <1>4
        <4> HIDE DEF n
        <4>2. Min({start + limit, n}) = IF start + limit <= n THEN start + limit ELSE n
          BY <4>1, <1>1, MinOfTwo
        <4>3. end = Min({start + limit, n})
          BY <3>2 DEF n
        <4> HIDE DEF end
        <4> QED BY <4>1, <4>2, <4>3, <3>2, <1>1
      <3> QED BY <3>1, <3>2
    <2> HIDE DEF end
    <2> DEFINE sel == SubSeq(lines, start + 1, end)
    <2>3. sel \in Seq(AllTexts) /\ Len(sel) = end - start
      BY <2>2, <1>1
    <2> HIDE DEF sel
    <2>4. sel # <<>> /\ Len(sel) >= 1
      BY <2>2, <2>3, <1>1
    <2>5. Selected(lines, start, limit) = sel
      BY <2>1 DEF sel
    <2> HIDE DEF n
    <2>6. /\ start + Len(sel) <= n
          /\ limit \in Nat /\ start + limit < n => Len(sel) = limit
          /\ limit = NoLimit \/ (limit \in Nat /\ start + limit >= n) => start + Len(sel) = n
      BY <2>2, <2>3, <1>1
    <2> QED BY <1>4, <2>3, <2>4, <2>5, <2>6 DEF n
  <1> QED BY <1>3, <1>4

(* A result goes on where it ended, or tells of a line that is too long.   *)
GoesOn(r, start, total) ==
  /\ r.shown \in Nat /\ r.long \in BOOLEAN /\ r.next \in 0 .. total /\ start + r.shown <= total
  /\ ~r.long /\ r.next = 0 => start + r.shown = total
  /\ ~r.long /\ r.next # 0 => r.next = start + r.shown + 1
  /\ r.long => r.shown = 0 /\ (r.next = 0 \/ start + 1 < r.next)

LEMMA ResultGoesOn ==
  ASSUME NEW lines \in Seq(AllTexts), NEW start \in Nat, start < Len(lines),
         NEW limit \in Limits \cup {NoLimit}
  PROVE  GoesOn(ReadResult(lines, start, limit), start, Len(lines))
  <1> DEFINE n == Len(lines)
             sel == Selected(lines, start, limit)
             fits == Fitting(sel)
             long == IsLong(sel[1])
             next == IF limit # NoLimit /\ start + limit < n THEN start + limit + 1 ELSE 0
  <1>1. n \in Nat /\ start < n
    OBVIOUS
  <1>2. (limit = NoLimit \/ limit \in Nat) /\ NoLimit \notin Nat /\ NoLimit # 0
    BY FileNumbers
  <1>3. /\ sel \in Seq(AllTexts) /\ sel # <<>>
        /\ limit = 0 => Len(sel) = 1 /\ ~long
        /\ limit # 0 => start + Len(sel) <= n
        /\ limit \in Nat \ {0} /\ start + limit < n => Len(sel) = limit
        /\ limit = NoLimit \/ (limit \in Nat /\ start + limit >= n) => start + Len(sel) = n
    BY SelectedAre
  <1>4. ReadResult(lines, start, limit) =
          IF fits < Len(sel) /\ ~long
          THEN [shown |-> fits, next |-> start + fits + 1, long |-> FALSE]
          ELSE [shown |-> IF limit = 0 THEN 0 ELSE fits, long |-> long, next |-> next]
    BY Zenon DEF ReadResult
  <1> HIDE DEF sel
  <1>5. fits \in 0 .. Len(sel) /\ (fits > 0 => ~long) /\ Len(sel) \in Nat
    BY <1>3, FittingIs
  <1>6. long \in BOOLEAN
    BY DEF IsLong
  <1> HIDE DEF fits, long, n
  <1>7. CASE fits < Len(sel) /\ ~long
    <2>1. ReadResult(lines, start, limit) = [shown |-> fits, next |-> start + fits + 1, long |-> FALSE]
      BY <1>4, <1>7
    <2>2. fits \in Nat /\ start + fits + 1 \in 0 .. n /\ start + fits <= n /\ start + fits + 1 # 0
      <3>1. start + fits + 1 <= n
        <4>1. CASE limit = 0
          <5>1. Len(sel) = 1
            BY <4>1, <1>3
          <5> QED BY <5>1, <1>1, <1>5, <1>7
        <4>2. CASE limit # 0
          <5>1. start + Len(sel) <= n
            BY <4>2, <1>3
          <5> QED BY <5>1, <1>1, <1>5, <1>7
        <4> QED BY <4>1, <4>2
      <3> QED BY <3>1, <1>1, <1>5
    <2> QED BY <2>1, <2>2 DEF GoesOn, n
  <1>8. CASE ~(fits < Len(sel) /\ ~long)
    <2> DEFINE shown == IF limit = 0 THEN 0 ELSE fits
    <2>1. ReadResult(lines, start, limit) = [shown |-> shown, long |-> long, next |-> next]
      BY <1>4, <1>8, Zenon
    <2>2. shown \in Nat /\ next \in 0 .. n /\ start + shown <= n
      <3>1. shown \in Nat
        BY <1>5
      <3>2. next \in 0 .. n
        BY <1>1, <1>2
      <3>3. start + shown <= n
        BY <1>1, <1>3, <1>5
      <3> QED BY <3>1, <3>2, <3>3
    <2>3. ASSUME ~long PROVE IF next = 0 THEN start + shown = n ELSE next = start + shown + 1
      <3>1. fits = Len(sel)
        BY <2>3, <1>5, <1>8
      <3>2. CASE limit = NoLimit
        BY <3>1, <3>2, <1>2, <1>3
      <3>3. CASE limit # NoLimit /\ start + limit < n
        <4>1. limit \in Nat
          BY <3>3, <1>2
        <4>2. CASE limit = 0
          BY <4>1, <4>2, <3>3
        <4>3. CASE limit # 0
          BY <4>1, <4>3, <3>1, <3>3, <1>3
        <4> QED BY <4>2, <4>3
      <3>4. CASE limit # NoLimit /\ ~(start + limit < n)
        <4>1. limit \in Nat /\ start + limit >= n
          BY <3>4, <1>1, <1>2
        <4>2. limit # 0
          BY <4>1, <1>1
        <4> QED BY <3>1, <3>4, <4>1, <4>2, <1>3
      <3> QED BY <3>2, <3>3, <3>4
    <2>4. ASSUME long PROVE shown = 0 /\ (next = 0 \/ start + 1 < next)
      <3>1. fits = 0 /\ limit # 0
        BY <2>4, <1>3, <1>5
      <3> QED BY <3>1, <1>2
    <2> HIDE DEF shown, next
    <2> QED BY <2>1, <2>2, <2>3, <2>4, <1>6 DEF GoesOn, n
  <1> QED BY <1>7, <1>8

-------------------------------------------------------------------------------
(* Whoever follows the notices: what was shown, named as too long or       *)
(* skipped behind such a line, of the lines there are.                     *)
Tiles(p, total) ==
  /\ p \in [path : {p.path}, next : 0 .. total, shown : Seq(Nat), long : SUBSET Nat, behind : SUBSET Nat]
  /\ LET upTo == IF p.next = 0 THEN total ELSE p.next - 1
         seen == {p.shown[k] : k \in DOMAIN p.shown} IN
     /\ \A k \in 2 .. Len(p.shown) : p.shown[k - 1] < p.shown[k]
     /\ seen \cup p.long \cup p.behind \subseteq 1 .. upTo
     /\ \/ 1 .. upTo = seen \cup p.long \cup p.behind
        \/ p.next = 0 /\ \E l \in p.long : (l + 1) .. total \cap seen = {}

Reading(path) == [NotReading EXCEPT !.path = path]

Pagings(A, B, C, D, E) == [path : A, next : B, shown : C, long : D, behind : E]

IsPaging(q, a, b, c, d, e) ==
  /\ q \in Pagings({a}, {b}, {c}, {d}, {e})
  /\ q.path = a /\ q.next = b /\ q.shown = c /\ q.long = d /\ q.behind = e
PagingWith(p, b, c, d, e) == [p EXCEPT !.next = b, !.shown = c, !.long = d, !.behind = e]

LEMMA PagingIs ==
  ASSUME NEW A, NEW B, NEW C, NEW D, NEW E, NEW p \in Pagings(A, B, C, D, E),
         NEW b, NEW c, NEW d, NEW e
  PROVE  IsPaging(PagingWith(p, b, c, d, e), p.path, b, c, d, e)
  <1> DEFINE q == PagingWith(p, b, c, d, e)
  <1>1. q = [p EXCEPT !.next = b, !.shown = c, !.long = d, !.behind = e]
    BY DEF PagingWith
  <1> HIDE DEF q
  <1>2. /\ q \in Pagings(A, {b}, {c}, {d}, {e})
        /\ q.path = p.path /\ q.next = b /\ q.shown = c /\ q.long = d /\ q.behind = e
    BY <1>1 DEF Pagings
  <1>3. q \in Pagings({p.path}, {b}, {c}, {d}, {e})
    BY <1>2 DEF Pagings
  <1>4. IsPaging(q, p.path, b, c, d, e)
    BY <1>2, <1>3 DEF IsPaging
  <1> QED BY <1>4 DEF q

LEMMA ReadingIs ==
  ASSUME NEW path
  PROVE  IsPaging(Reading(path), path, 1, <<>>, {}, {})
  <1> DEFINE p == NotReading
             q == Reading(path)
  <1>1. p \in Pagings({NoSuchFile}, {1}, {<<>>}, {{}}, {{}})
    BY DEF NotReading, Pagings
  <1>2. q = [p EXCEPT !.path = path]
    BY DEF Reading
  <1> HIDE DEF p, q
  <1>3. /\ q \in Pagings({path}, {1}, {<<>>}, {{}}, {{}})
        /\ q.path = path /\ q.next = p.next /\ q.shown = p.shown /\ q.long = p.long /\ q.behind = p.behind
    BY <1>1, <1>2 DEF Pagings
  <1>4. p.next = 1 /\ p.shown = <<>> /\ p.long = {} /\ p.behind = {}
    BY <1>1 DEF Pagings
  <1>5. IsPaging(q, path, 1, <<>>, {}, {})
    BY <1>3, <1>4 DEF IsPaging
  <1> QED BY <1>5 DEF q

LEMMA ReadingTiles ==
  ASSUME NEW path, NEW total \in Nat, total >= 1
  PROVE  Tiles(Reading(path), total)
  <1> DEFINE p == Reading(path)
  <1>1. IsPaging(p, path, 1, <<>>, {}, {})
    BY ReadingIs
  <1> HIDE DEF p
  <1>2. /\ p \in Pagings({path}, {1}, {<<>>}, {{}}, {{}})
        /\ p.next = 1 /\ p.shown = <<>> /\ p.long = {} /\ p.behind = {} /\ p.path = path
    BY <1>1 DEF IsPaging
  <1>3. p \in [path : {p.path}, next : 0 .. total, shown : Seq(Nat), long : SUBSET Nat, behind : SUBSET Nat]
    <2>1. 1 \in 0 .. total /\ <<>> \in Seq(Nat) /\ {} \in SUBSET Nat
      OBVIOUS
    <2> QED BY <2>1, <1>2 DEF Pagings
  <1>4. Len(<<>>) = 0 /\ {<<>>[k] : k \in DOMAIN <<>>} = {} /\ 1 .. 1 - 1 = {}
    OBVIOUS
  <1>5. {p.shown[k] : k \in DOMAIN p.shown} = {} /\ Len(p.shown) = 0
    BY <1>2, <1>4
  <1> QED BY <1>2, <1>3, <1>4, <1>5 DEF Tiles, p

After(p, r, start) ==
  [p EXCEPT !.next = r.next, !.shown = @ \o [k \in 1 .. r.shown |-> start + k],
            !.long = @ \cup IF r.long THEN {start + 1} ELSE {},
            !.behind = @ \cup IF r.long THEN (start + 2) .. (r.next - 1) ELSE {}]

LEMMA TilesGoOn ==
  ASSUME NEW p, NEW total \in Nat, Tiles(p, total), p.next # 0,
         NEW r, GoesOn(r, p.next - 1, total)
  PROVE  Tiles(After(p, r, p.next - 1), total)
  <1> DEFINE start == p.next - 1
             m == r.shown
             more == [k \in 1 .. m |-> start + k]
             seen == {p.shown[k] : k \in DOMAIN p.shown}
             shown == p.shown \o more
             l == Len(p.shown)
             long == p.long \cup IF r.long THEN {start + 1} ELSE {}
             behind == p.behind \cup IF r.long THEN (start + 2) .. (r.next - 1) ELSE {}
             q == After(p, r, p.next - 1)
  <1>1. p \in [path : {p.path}, next : 0 .. total, shown : Seq(Nat), long : SUBSET Nat, behind : SUBSET Nat]
    BY DEF Tiles
  <1>2. p.next \in 1 .. total /\ p.shown \in Seq(Nat) /\ p.long \subseteq Nat /\ p.behind \subseteq Nat
    BY <1>1
  <1>3. start \in Nat /\ start < total /\ l \in Nat /\ DOMAIN p.shown = 1 .. l
    BY <1>2
  <1>4. /\ \A k \in 2 .. l : p.shown[k - 1] < p.shown[k]
        /\ 1 .. start = seen \cup p.long \cup p.behind
    BY DEF Tiles
  <1>5. /\ m \in Nat /\ r.long \in BOOLEAN /\ r.next \in 0 .. total /\ start + m <= total
        /\ ~r.long /\ r.next = 0 => start + m = total
        /\ ~r.long /\ r.next # 0 => r.next = start + m + 1
        /\ r.long => m = 0 /\ (r.next = 0 \/ start + 1 < r.next)
    BY DEF GoesOn
  <1>6. /\ q \in Pagings({p.path}, {r.next}, {shown}, {long}, {behind})
        /\ q.path = p.path /\ q.next = r.next /\ q.shown = shown /\ q.long = long /\ q.behind = behind
    <2>1. p \in Pagings({p.path}, 0 .. total, Seq(Nat), SUBSET Nat, SUBSET Nat)
      BY <1>1 DEF Pagings
    <2>2. q = PagingWith(p, r.next, shown, long, behind)
      BY Zenon DEF After, PagingWith
    <2> HIDE DEF q, shown, long, behind
    <2>3. IsPaging(PagingWith(p, r.next, shown, long, behind), p.path, r.next, shown, long, behind)
      BY <2>1, PagingIs
    <2> QED BY <2>2, <2>3 DEF IsPaging
  <1> HIDE DEF start, m, q, shown, long, behind
  <1>7. q.next = r.next /\ q.shown = shown /\ q.long = long /\ q.behind = behind /\ q.path = p.path
    BY <1>6
  <1> USE DEF shown, long, behind
  <1>8. more \in Seq(Nat) /\ Len(more) = m /\ \A k \in 1 .. m : more[k] = start + k
    <2>1. more \in [1 .. m -> Nat]
      BY <1>3, <1>5
    <2>2. \A k \in 1 .. m : more[k] = start + k
      OBVIOUS
    <2> HIDE DEF more
    <2> QED BY <2>1, <2>2, <1>5, FunctionIsSeq
  <1> HIDE DEF more
  <1>9. AreBoth(Nat, p.shown, more, shown)
    BY <1>2, <1>8, BothAre
  <1> HIDE DEF shown
  <1>10. /\ shown \in Seq(Nat) /\ Len(shown) = l + m
         /\ \A k \in 1 .. l : shown[k] = p.shown[k]
         /\ \A k \in 1 .. m : shown[l + k] = start + k
    BY <1>8, <1>9 DEF AreBoth
  <1> HIDE DEF l
  <1>11. \A k \in 1 .. l : p.shown[k] \in 1 .. start
    BY <1>3, <1>4
  <1>12. {shown[k] : k \in DOMAIN shown} = seen \cup (start + 1) .. (start + m)
    <2>1. DOMAIN shown = 1 .. l + m
      BY <1>3, <1>5, <1>10
    <2>2. \A k \in 1 .. l + m : k \in 1 .. l \/ (k - l \in 1 .. m /\ l + (k - l) = k)
      BY <1>3, <1>5
    <2>3. \A k \in 1 .. m : l + k \in 1 .. l + m /\ start + k \in (start + 1) .. (start + m)
      BY <1>3, <1>5
    <2>4. \A k \in 1 .. l : k \in 1 .. l + m
      BY <1>3, <1>5
    <2>5. ASSUME NEW k \in 1 .. l + m PROVE shown[k] \in seen \cup (start + 1) .. (start + m)
      <3>1. CASE k \in 1 .. l
        BY <3>1, <1>3, <1>10
      <3>2. CASE k - l \in 1 .. m /\ l + (k - l) = k
        <4>1. shown[l + (k - l)] = start + (k - l)
          BY <3>2, <1>10
        <4> QED BY <4>1, <3>2, <2>3
      <3> QED BY <3>1, <3>2, <2>2
    <2>6. ASSUME NEW y \in seen PROVE \E k \in 1 .. l + m : shown[k] = y
      BY <2>4, <1>3, <1>10
    <2>7. ASSUME NEW y \in (start + 1) .. (start + m) PROVE \E k \in 1 .. l + m : shown[k] = y
      <3>1. y - start \in 1 .. m /\ start + (y - start) = y
        BY <1>3, <1>5
      <3>2. shown[l + (y - start)] = y /\ l + (y - start) \in 1 .. l + m
        BY <3>1, <2>3, <1>10
      <3> QED BY <3>2
    <2> HIDE DEF seen
    <2> QED BY <2>1, <2>5, <2>6, <2>7
  <1>13. \A k \in 2 .. Len(shown) : shown[k - 1] < shown[k]
    <2> SUFFICES ASSUME NEW k \in 2 .. l + m PROVE shown[k - 1] < shown[k]
      BY <1>10
    <2>1. CASE k <= l
      <3>1. k \in 2 .. l /\ k \in 1 .. l /\ k - 1 \in 1 .. l
        BY <2>1, <1>3
      <3> QED BY <3>1, <1>4, <1>10
    <2>2. CASE k = l + 1
      <3>1. k - 1 \in 1 .. l /\ 1 \in 1 .. m
        BY <2>2, <1>3, <1>5
      <3>2. shown[k - 1] \in 1 .. start /\ shown[l + 1] = start + 1
        BY <3>1, <1>10, <1>11
      <3> QED BY <3>2, <2>2, <1>3
    <2>3. CASE k > l + 1
      <3> DEFINE i == k - l
      <3>1. i \in 1 .. m /\ i - 1 \in 1 .. m /\ l + i = k /\ l + (i - 1) = k - 1
        BY <2>3, <1>3, <1>5
      <3> HIDE DEF i
      <3>2. shown[l + i] = start + i /\ shown[l + (i - 1)] = start + (i - 1)
        BY <3>1, <1>10
      <3>3. start + (i - 1) < start + i
        BY <3>1, <1>3
      <3> QED BY <3>1, <3>2, <3>3
    <2> QED BY <2>1, <2>2, <2>3, <1>3, <1>5
  <1> DEFINE upTo == IF r.next = 0 THEN total ELSE r.next - 1
             all == seen \cup (start + 1) .. (start + m)
  <1>14. /\ all \cup long \cup behind \subseteq 1 .. upTo
         /\ \/ 1 .. upTo = all \cup long \cup behind
            \/ r.next = 0 /\ \E x \in long : (x + 1) .. total \cap all = {}
    <2> HIDE DEF seen
    <2>1. CASE ~r.long
      <3>1. long = p.long /\ behind = p.behind /\ upTo = start + m
        BY <2>1, <1>3, <1>5
      <3>2. 1 .. start + m = 1 .. start \cup (start + 1) .. (start + m)
        BY <1>3, <1>5
      <3> HIDE DEF long, behind, upTo
      <3> QED BY <3>1, <3>2, <1>4
    <2>2. CASE r.long
      <3>1. m = 0 /\ (start + 1) .. (start + 0) = {}
        BY <2>2, <1>3, <1>5
      <3>2. all = seen
        BY <3>1
      <3>3. long = p.long \cup {start + 1} /\ behind = p.behind \cup (start + 2) .. (r.next - 1)
        BY <2>2
      <3>4. seen \subseteq 1 .. start
        BY <1>4
      <3> HIDE DEF long, behind, all
      <3>5. CASE r.next = 0
        <4>1. (start + 2) .. (r.next - 1) = {} /\ upTo = total
          BY <3>5, <1>3
        <4>2. 1 .. start \subseteq 1 .. total /\ start + 1 \in 1 .. total
          BY <1>3
        <4>3. (start + 1 + 1) .. total \cap 1 .. start = {} /\ start + 1 \in long
          BY <3>3, <1>3
        <4>4. all \cup long \cup behind \subseteq 1 .. upTo
          BY <3>2, <3>3, <4>1, <4>2, <1>4
        <4>5. (start + 1 + 1) .. total \cap all = {}
          BY <3>2, <3>4, <4>3
        <4> QED BY <3>5, <4>3, <4>4, <4>5
      <3>6. CASE r.next # 0
        <4>1. upTo = r.next - 1 /\ start + 1 < r.next /\ r.next \in Nat
          BY <3>6, <2>2, <1>5
        <4>2. 1 .. r.next - 1 = 1 .. start \cup {start + 1} \cup (start + 2) .. (r.next - 1)
          BY <4>1, <1>3
        <4> HIDE DEF upTo
        <4> QED BY <3>2, <3>3, <4>1, <4>2, <1>4
      <3> QED BY <3>5, <3>6
    <2> QED BY <2>1, <2>2, <1>5
  <1>15. q \in [path : {q.path}, next : 0 .. total, shown : Seq(Nat), long : SUBSET Nat, behind : SUBSET Nat]
    <2>1. long \subseteq Nat /\ behind \subseteq Nat
      BY <1>2, <1>3, <1>5
    <2> HIDE DEF long, behind
    <2> QED BY <2>1, <1>5, <1>6, <1>7, <1>10 DEF Pagings
  <1> HIDE DEF all, long, behind, seen
  <1> DEFINE there == {q.shown[k] : k \in DOMAIN q.shown}
             end == IF q.next = 0 THEN total ELSE q.next - 1
  <1>16. there = all /\ end = upTo /\ q.next = r.next /\ q.long = long /\ q.behind = behind
    BY <1>7, <1>12 DEF all
  <1>17. \A k \in 2 .. Len(q.shown) : q.shown[k - 1] < q.shown[k]
    BY <1>7, <1>13
  <1> HIDE DEF there, end, upTo
  <1>18. /\ there \cup q.long \cup q.behind \subseteq 1 .. end
         /\ \/ 1 .. end = there \cup q.long \cup q.behind
            \/ q.next = 0 /\ \E x \in q.long : (x + 1) .. total \cap there = {}
    BY <1>14, <1>16, Zenon
  <1>19. Tiles(q, total)
    BY <1>15, <1>17, <1>18, Zenon DEF Tiles, there, end
  <1> QED BY <1>19 DEF q

-------------------------------------------------------------------------------
(* Parts of texts, and where their bytes are.                              *)
Part(s, a, b) == SubSeq(s, a, b)

LEMMA PartIs ==
  ASSUME NEW S, NEW s \in Seq(S), NEW a \in 1 .. Len(s) + 1, NEW b \in a - 1 .. Len(s)
  PROVE  /\ Part(s, a, b) \in Seq(S) /\ Len(Part(s, a, b)) = b - a + 1
         /\ \A i \in 1 .. b - a + 1 : Part(s, a, b)[i] = s[a + i - 1]
  <1>1. Len(s) \in Nat /\ a \in Int /\ b \in Int /\ a >= 1 /\ b <= Len(s) /\ a - 1 <= b
    BY LenProperties
  <1>2. \A i \in a .. b : s[i] \in S
    <2>1. \A i \in a .. b : i \in 1 .. Len(s)
      BY <1>1
    <2> QED BY <2>1, ElementOfSeq
  <1>3. /\ SubSeq(s, a, b) \in Seq(S)
        /\ Len(SubSeq(s, a, b)) = IF a <= b THEN b - a + 1 ELSE 0
        /\ \A i \in 1 .. b - a + 1 : SubSeq(s, a, b)[i] = s[a + i - 1]
    BY <1>1, <1>2, SubSeqProperties
  <1>4. (IF a <= b THEN b - a + 1 ELSE 0) = b - a + 1
    BY <1>1
  <1> QED BY <1>3, <1>4 DEF Part

LEMMA WholePart ==
  ASSUME NEW S, NEW s \in Seq(S)
  PROVE  Same(Part(s, 1, Len(s)), s)
  BY SubSeqFull DEF Part, Same

LEMMA NoPart ==
  ASSUME NEW s, NEW a \in Int, NEW b \in Int, b < a
  PROVE  Part(s, a, b) = <<>>
  BY SubSeqEmpty DEF Part

LEMMA OnePart ==
  ASSUME NEW S, NEW s \in Seq(S), NEW i \in 1 .. Len(s)
  PROVE  Same(Part(s, i, i), <<s[i]>>)
  <1> DEFINE one == Part(s, i, i)
             other == <<s[i]>>
  <1>1. Len(s) \in Nat /\ i \in 1 .. Len(s) + 1 /\ i \in i - 1 .. Len(s) /\ i - i + 1 = 1 /\ i + 1 - 1 = i
    BY LenProperties
  <1>2. one \in Seq(S) /\ Len(one) = 1 /\ one[1] = s[i]
    <2>1. /\ Part(s, i, i) \in Seq(S) /\ Len(Part(s, i, i)) = i - i + 1
          /\ \A k \in 1 .. i - i + 1 : Part(s, i, i)[k] = s[i + k - 1]
      BY <1>1, PartIs
    <2> QED BY <2>1, <1>1
  <1>3. other \in Seq(S) /\ Len(other) = 1 /\ other[1] = s[i]
    OBVIOUS
  <1> HIDE DEF one, other
  <1>4. one = other
    <2>1. \A k \in 1 .. Len(one) : one[k] = other[k]
      BY <1>2, <1>3
    <2> QED BY <2>1, <1>2, <1>3, SeqEqual
  <1> QED BY <1>4 DEF Same, one, other

LEMMA Adjacent ==
  ASSUME NEW S, NEW s \in Seq(S), NEW a \in 1 .. Len(s) + 1, NEW k \in a - 1 .. Len(s), NEW b \in k .. Len(s)
  PROVE  Same(Part(s, a, b), Part(s, a, k) \o Part(s, k + 1, b))
  BY ConcatAdjacentSubSeq DEF Part, Same

LEMMA PartOfBoth ==
  ASSUME NEW S, NEW x \in Seq(S), NEW y \in Seq(S), NEW b \in 0 .. Len(x)
  PROVE  Same(Part(x \o y, 1, b), Part(x, 1, b))
  <1>1. Len(x) \in Nat
    BY LenProperties
  <1>2. CASE b = 0
    <2>1. Part(x \o y, 1, b) = <<>> /\ Part(x, 1, b) = <<>>
      BY <1>2, NoPart
    <2> QED BY <2>1 DEF Same
  <1>3. CASE b # 0
    <2>1. b \in 1 .. Len(x) /\ 1 \in 1 .. Len(x)
      BY <1>1, <1>3
    <2> QED BY <2>1, SubSeqOfConcat1 DEF Part, Same
  <1> QED BY <1>2, <1>3

(* The first part of a sequence, and what follows it.                      *)
LEMMA BehindBoth ==
  ASSUME NEW S, NEW x \in Seq(S), NEW y \in Seq(S), NEW a \in 1 .. Len(x) + 1
  PROVE  Same(Part(x \o y, a, Len(x \o y)), Part(x, a, Len(x)) \o y)
  <1> DEFINE z == x \o y
             l == Len(x)
             m == Len(y)
             left == Part(z, a, Len(z))
             front == Part(x, a, l)
             right == front \o y
  <1>1. AreBoth(S, x, y, z) /\ l \in Nat /\ m \in Nat
    BY BothAre, LenProperties
  <1>2. z \in Seq(S) /\ Len(z) = l + m /\ (\A k \in 1 .. l : z[k] = x[k]) /\ \A k \in 1 .. m : z[l + k] = y[k]
    BY <1>1 DEF AreBoth
  <1> HIDE DEF z
  <1>3. front \in Seq(S) /\ Len(front) = l - a + 1 /\ \A i \in 1 .. l - a + 1 : front[i] = x[a + i - 1]
    <2>1. l \in a - 1 .. Len(x)
      BY <1>1
    <2> QED BY <2>1, PartIs
  <1>4. left \in Seq(S) /\ Len(left) = l + m - a + 1 /\ \A i \in 1 .. l + m - a + 1 : left[i] = z[a + i - 1]
    <2>1. a \in 1 .. Len(z) + 1 /\ Len(z) \in a - 1 .. Len(z)
      BY <1>1, <1>2
    <2>2. /\ Part(z, a, Len(z)) \in Seq(S) /\ Len(Part(z, a, Len(z))) = Len(z) - a + 1
          /\ \A i \in 1 .. Len(z) - a + 1 : Part(z, a, Len(z))[i] = z[a + i - 1]
      BY <2>1, <1>2, PartIs
    <2> QED BY <2>2, <1>2
  <1> HIDE DEF left, front
  <1>5. AreBoth(S, front, y, right)
    BY <1>3, BothAre
  <1> HIDE DEF right
  <1>6. /\ right \in Seq(S) /\ Len(right) = l - a + 1 + m
        /\ \A i \in 1 .. l - a + 1 : right[i] = front[i]
        /\ \A i \in 1 .. m : right[l - a + 1 + i] = y[i]
    BY <1>3, <1>5 DEF AreBoth
  <1> HIDE DEF l, m
  <1>7. a \in Nat /\ a >= 1 /\ a <= l + 1
    BY <1>1 DEF l
  <1>8. ASSUME NEW i \in 1 .. Len(left) PROVE left[i] = right[i]
    <2>1. i \in 1 .. l + m - a + 1
      BY <1>4
    <2>2. CASE i <= l - a + 1
      <3>1. i \in 1 .. l - a + 1 /\ a + i - 1 \in 1 .. l
        BY <2>1, <2>2, <1>1, <1>7
      <3> QED BY <3>1, <2>1, <1>2, <1>3, <1>4, <1>6
    <2>3. CASE i > l - a + 1
      <3> DEFINE j == i - (l - a + 1)
      <3>1. j \in 1 .. m /\ l - a + 1 + j = i /\ a + i - 1 = l + j
        BY <2>1, <2>3, <1>1, <1>7
      <3> HIDE DEF j
      <3>2. left[i] = z[a + i - 1] /\ z[l + j] = y[j] /\ right[l - a + 1 + j] = y[j]
        BY <3>1, <2>1, <1>2, <1>4, <1>6
      <3> QED BY <3>1, <3>2
    <2> QED BY <2>1, <2>2, <2>3, <1>1, <1>7
  <1>9. Len(left) = Len(right)
    BY <1>1, <1>4, <1>6, <1>7
  <1>10. left = right
    BY <1>4, <1>6, <1>8, <1>9, SeqEqual
  <1> QED BY <1>10 DEF Same, left, right, front, z, l

LEMMA JoinedPart ==
  ASSUME NEW S, NEW parts \in Seq(Seq(S)), NEW a \in 1 .. Len(parts) + 1,
         NEW k \in a - 1 .. Len(parts), NEW b \in k .. Len(parts)
  PROVE  Same(Joined(Part(parts, a, b)), Joined(Part(parts, a, k)) \o Joined(Part(parts, k + 1, b)))
  <1>1. Len(parts) \in Nat /\ k + 1 \in 1 .. Len(parts) + 1 /\ b \in (k + 1) - 1 .. Len(parts)
    BY LenProperties
  <1>2. Part(parts, a, k) \in Seq(Seq(S)) /\ Part(parts, k + 1, b) \in Seq(Seq(S))
    BY <1>1, PartIs
  <1>3. Same(Part(parts, a, b), Part(parts, a, k) \o Part(parts, k + 1, b))
    BY Adjacent
  <1>4. Same(Joined(Part(parts, a, k) \o Part(parts, k + 1, b)),
             Joined(Part(parts, a, k)) \o Joined(Part(parts, k + 1, b)))
    BY <1>2, JoinedTwo
  <1> QED BY <1>3, <1>4 DEF Same

LEMMA JoinedOnePart ==
  ASSUME NEW S, NEW parts \in Seq(Seq(S)), NEW i \in 1 .. Len(parts)
  PROVE  Same(Joined(Part(parts, i, i)), parts[i])
  <1>1. Same(Part(parts, i, i), <<parts[i]>>)
    BY OnePart
  <1>2. parts[i] \in Seq(S)
    BY ElementOfSeq
  <1>3. Same(Joined(<<parts[i]>>), parts[i])
    BY <1>2, JoinedOne
  <1> QED BY <1>1, <1>3 DEF Same

(* Parts of one character each make the text again; empty ones make none.  *)
AreSingle(parts, text, a, b) == \A i \in a .. b : parts[i] = <<text[i]>>

LEMMA SinglesJoined ==
  ASSUME NEW S, NEW parts \in Seq(Seq(S)), NEW text \in Seq(S), Len(parts) = Len(text),
         NEW a \in 1 .. Len(parts) + 1, NEW b \in a - 1 .. Len(parts), AreSingle(parts, text, a, b)
  PROVE  Same(Joined(Part(parts, a, b)), Part(text, a, b))
  <1> DEFINE n == b - a + 1
             G == {d \in 0 .. n : Joined(Part(parts, a, a + d - 1)) = Part(text, a, a + d - 1)}
  <1>1. Len(parts) \in Nat /\ a \in Nat /\ a >= 1 /\ b \in Int /\ b <= Len(parts) /\ n \in Nat /\ a + n - 1 = b
    BY LenProperties
  <1> HIDE DEF n
  <1>2. 0 \in G
    <2>1. a + 0 - 1 < a /\ a + 0 - 1 \in Int /\ 0 \in 0 .. n
      BY <1>1
    <2>2. Part(parts, a, a + 0 - 1) = <<>> /\ Part(text, a, a + 0 - 1) = <<>>
      BY <1>1, <2>1, NoPart
    <2> QED BY <2>1, <2>2, JoinedNone
  <1>3. ASSUME NEW d \in 1 .. n, d - 1 \in G PROVE d \in G
    <2> DEFINE k == a + (d - 1) - 1
               i == a + d - 1
    <2>1. k \in a - 1 .. Len(parts) /\ i \in k .. Len(parts) /\ k + 1 = i /\ i \in 1 .. Len(parts) /\ i \in a .. b
      BY <1>1
    <2>2. Joined(Part(parts, a, k)) = Part(text, a, k)
      BY <1>3
    <2> HIDE DEF k, i
    <2>3. Same(Joined(Part(parts, a, i)), Joined(Part(parts, a, k)) \o Joined(Part(parts, k + 1, i)))
      BY <2>1, JoinedPart
    <2>4. Same(Joined(Part(parts, i, i)), parts[i]) /\ parts[i] = <<text[i]>>
      BY <2>1, JoinedOnePart DEF AreSingle
    <2>5. /\ Same(Part(text, a, i), Part(text, a, k) \o Part(text, k + 1, i))
          /\ Same(Part(text, i, i), <<text[i]>>)
      BY <2>1, <1>1, Adjacent, OnePart
    <2>6. Joined(Part(parts, a, i)) = Part(text, a, i)
      BY <2>1, <2>3, <2>4, <2>2, <2>5, Zenon DEF Same
    <2>7. d \in 0 .. n
      BY <1>1
    <2> QED BY <2>6, <2>7 DEF i
  <1> HIDE DEF G
  <1>4. \A d \in 0 .. n : d \in G
    BY <1>1, <1>2, <1>3, StepByStep
  <1>5. n \in G
    BY <1>1, <1>4
  <1> QED BY <1>1, <1>5 DEF G, Same

LEMMA EmptiesJoined ==
  ASSUME NEW S, NEW parts \in Seq(Seq(S)),
         NEW a \in 1 .. Len(parts) + 1, NEW b \in a - 1 .. Len(parts), \A i \in a .. b : parts[i] = <<>>
  PROVE  Joined(Part(parts, a, b)) = <<>>
  <1> DEFINE n == b - a + 1
             G == {d \in 0 .. n : Joined(Part(parts, a, a + d - 1)) = <<>>}
  <1>1. Len(parts) \in Nat /\ a \in Nat /\ a >= 1 /\ b \in Int /\ b <= Len(parts) /\ n \in Nat /\ a + n - 1 = b
    BY LenProperties
  <1> HIDE DEF n
  <1>2. 0 \in G
    <2>1. a + 0 - 1 < a /\ a + 0 - 1 \in Int /\ 0 \in 0 .. n
      BY <1>1
    <2>2. Part(parts, a, a + 0 - 1) = <<>>
      BY <1>1, <2>1, NoPart
    <2> QED BY <2>1, <2>2, JoinedNone
  <1>3. ASSUME NEW d \in 1 .. n, d - 1 \in G PROVE d \in G
    <2> DEFINE k == a + (d - 1) - 1
               i == a + d - 1
    <2>1. k \in a - 1 .. Len(parts) /\ i \in k .. Len(parts) /\ k + 1 = i /\ i \in 1 .. Len(parts) /\ i \in a .. b
      BY <1>1
    <2>2. Joined(Part(parts, a, k)) = <<>>
      BY <1>3
    <2> HIDE DEF k, i
    <2>3. Same(Joined(Part(parts, a, i)), Joined(Part(parts, a, k)) \o Joined(Part(parts, k + 1, i)))
      BY <2>1, JoinedPart
    <2>4. Same(Joined(Part(parts, i, i)), parts[i]) /\ parts[i] = <<>> /\ <<>> \o <<>> = <<>>
      BY <2>1, JoinedOnePart, EmptySeq, ConcatEmptySeq
    <2>5. Joined(Part(parts, a, i)) = <<>>
      BY <2>1, <2>2, <2>3, <2>4, Zenon DEF Same
    <2>6. d \in 0 .. n
      BY <1>1
    <2> QED BY <2>5, <2>6 DEF i
  <1> HIDE DEF G
  <1>4. \A d \in 0 .. n : d \in G
    BY <1>1, <1>2, <1>3, StepByStep
  <1>5. n \in G
    BY <1>1, <1>4
  <1> QED BY <1>1, <1>5 DEF G

-------------------------------------------------------------------------------
(* Bytes grow with the characters.                                         *)
LEMMA ByteIs ==
  ASSUME NEW text \in AllTexts, NEW i \in 1 .. Len(text) + 1
  PROVE  ByteOf(text, i) = Utf8Size(Part(text, 1, i - 1)) /\ ByteOf(text, i) \in Nat
  <1>1. Len(text) \in Nat /\ i - 1 \in 1 - 1 .. Len(text) /\ 1 \in 1 .. Len(text) + 1
    BY DEF AllTexts
  <1>2. Part(text, 1, i - 1) \in Seq(AllChars)
    BY <1>1, PartIs DEF AllTexts
  <1>3. Utf8Size(Part(text, 1, i - 1)) \in Nat
    BY <1>2, WideAre
  <1>4. ByteOf(text, i) = Utf8Size(Part(text, 1, i - 1))
    BY DEF ByteOf, Part
  <1> QED BY <1>3, <1>4

LEMMA BytesBetween ==
  ASSUME NEW text \in AllTexts, NEW i \in 1 .. Len(text) + 1, NEW j \in i .. Len(text) + 1
  PROVE  /\ ByteOf(text, j) = ByteOf(text, i) + Utf8Size(Part(text, i, j - 1))
         /\ ByteOf(text, i) \in Nat /\ ByteOf(text, j) \in Nat
         /\ ByteOf(text, j) >= ByteOf(text, i) + (j - i)
  <1>1. Len(text) \in Nat /\ text \in Seq(AllChars)
    BY DEF AllTexts
  <1>2. /\ i \in Nat /\ j \in Nat /\ 1 \in 1 .. Len(text) + 1 /\ i - 1 \in 1 - 1 .. Len(text)
        /\ j - 1 \in i - 1 .. Len(text) /\ (i - 1) + 1 = i /\ j \in 1 .. Len(text) + 1
        /\ (j - 1) - i + 1 = j - i /\ j - 1 \in 1 - 1 .. Len(text)
    BY <1>1
  <1>3. Same(Part(text, 1, j - 1), Part(text, 1, i - 1) \o Part(text, (i - 1) + 1, j - 1))
    BY <1>1, <1>2, Adjacent
  <1>4. Part(text, 1, i - 1) \in Seq(AllChars)
    BY <1>1, <1>2, PartIs
  <1>5. Part(text, i, j - 1) \in Seq(AllChars) /\ Len(Part(text, i, j - 1)) = j - i
    BY <1>1, <1>2, PartIs
  <1>6. Utf8Size(Part(text, 1, i - 1) \o Part(text, i, j - 1))
          = Utf8Size(Part(text, 1, i - 1)) + Utf8Size(Part(text, i, j - 1))
    BY <1>4, <1>5, SizeOfBoth
  <1>7. ByteOf(text, i) = Utf8Size(Part(text, 1, i - 1)) /\ ByteOf(text, i) \in Nat
    BY ByteIs
  <1>8. ByteOf(text, j) = Utf8Size(Part(text, 1, j - 1)) /\ ByteOf(text, j) \in Nat
    BY <1>2, ByteIs
  <1>9. Utf8Size(Part(text, i, j - 1)) \in Nat /\ Utf8Size(Part(text, i, j - 1)) >= j - i
    BY <1>5, WideAre
  <1>10. ByteOf(text, j) = ByteOf(text, i) + Utf8Size(Part(text, i, j - 1))
    BY <1>2, <1>3, <1>6, <1>7, <1>8 DEF Same
  <1> QED BY <1>2, <1>7, <1>8, <1>9, <1>10

LEMMA BytesGrow ==
  ASSUME NEW text \in AllTexts, NEW i \in 1 .. Len(text) + 1, NEW j \in 1 .. Len(text) + 1
  PROVE  ByteOf(text, i) <= ByteOf(text, j) <=> i <= j
  <1>1. Len(text) \in Nat
    BY DEF AllTexts
  <1>2. CASE i <= j
    <2>1. j \in i .. Len(text) + 1
      BY <1>1, <1>2
    <2>2. /\ ByteOf(text, i) \in Nat /\ ByteOf(text, j) \in Nat
          /\ ByteOf(text, j) >= ByteOf(text, i) + (j - i)
      BY <2>1, BytesBetween
    <2> QED BY <2>2, <1>2
  <1>3. CASE j < i
    <2>1. i \in j .. Len(text) + 1
      BY <1>1, <1>3
    <2>2. /\ ByteOf(text, i) \in Nat /\ ByteOf(text, j) \in Nat
          /\ ByteOf(text, i) >= ByteOf(text, j) + (i - j)
      BY <2>1, BytesBetween
    <2> QED BY <2>2, <1>3
  <1> QED BY <1>2, <1>3

LEMMA OnlyThere ==
  ASSUME NEW text \in AllTexts, NEW i \in 1 .. Len(text) + 1
  PROVE  AtByte(text, ByteOf(text, i)) = {i}
  <1>1. \A j \in 1 .. Len(text) + 1 : ByteOf(text, j) = ByteOf(text, i) => j = i
    <2> SUFFICES ASSUME NEW j \in 1 .. Len(text) + 1, ByteOf(text, j) = ByteOf(text, i) PROVE j = i
      OBVIOUS
    <2>1. ByteOf(text, i) <= ByteOf(text, j) <=> i <= j
      BY BytesGrow
    <2>2. ByteOf(text, j) <= ByteOf(text, i) <=> j <= i
      BY BytesGrow
    <2>3. ByteOf(text, i) \in Nat
      BY ByteIs
    <2> QED BY <2>1, <2>2, <2>3
  <1> QED BY <1>1 DEF AtByte

LEMMA MinOfOne ==
  ASSUME NEW i \in Nat
  PROVE  Min({i}) = i
  <1>1. {i, i} = {i} /\ i <= i
    OBVIOUS
  <1>2. Min({i, i}) = IF i <= i THEN i ELSE i
    BY MinOfTwo
  <1> QED BY <1>1, <1>2

(* The least of numbers from 1.                                            *)
LEMMA MinIs ==
  ASSUME NEW S, S \subseteq Nat, S # {}
  PROVE  Min(S) \in S /\ \A k \in S : Min(S) <= k
  <1>1. \E x \in S : \A y \in S : x =< y
    BY LeastMember
  <1> QED BY <1>1 DEF Min

(* A text cut between two characters.                                      *)
LEMMA Spliced ==
  ASSUME NEW text \in AllTexts, NEW new \in AllTexts, NEW from, NEW to, Sliceable(text, from, to)
  PROVE  Splice(text, from, to, new) \in AllTexts
  <1> DEFINE i == Min(AtByte(text, from))
             j == Min(AtByte(text, to))
  <1>1. Len(text) \in Nat /\ text \in Seq(AllChars) /\ new \in Seq(AllChars)
    BY DEF AllTexts
  <1>2. /\ AtByte(text, from) \subseteq 1 .. Len(text) + 1 /\ AtByte(text, from) # {}
        /\ AtByte(text, to) \subseteq 1 .. Len(text) + 1 /\ AtByte(text, to) # {}
    BY DEF Sliceable, AtByte
  <1>3. AtByte(text, from) \subseteq Nat /\ AtByte(text, to) \subseteq Nat
    BY <1>1, <1>2
  <1>4. i \in AtByte(text, from) /\ j \in AtByte(text, to)
    BY <1>2, <1>3, MinIs
  <1>5. i \in 1 .. Len(text) + 1 /\ j \in 1 .. Len(text) + 1
    BY <1>2, <1>4
  <1>6. Splice(text, from, to, new) = (Part(text, 1, i - 1) \o new) \o Part(text, j, Len(text))
    BY DEF Splice, Part
  <1> HIDE DEF i, j
  <1>7. 1 \in 1 .. Len(text) + 1 /\ i - 1 \in 1 - 1 .. Len(text) /\ Len(text) \in j - 1 .. Len(text)
    BY <1>1, <1>5
  <1>8. Part(text, 1, i - 1) \in Seq(AllChars) /\ Part(text, j, Len(text)) \in Seq(AllChars)
    BY <1>1, <1>5, <1>7, PartIs
  <1>9. Part(text, 1, i - 1) \o new \in Seq(AllChars)
    BY <1>1, <1>8, ConcatProperties
  <1>10. (Part(text, 1, i - 1) \o new) \o Part(text, j, Len(text)) \in Seq(AllChars)
    BY <1>8, <1>9, ConcatProperties
  <1> QED BY <1>6, <1>10 DEF AllTexts

-------------------------------------------------------------------------------
(* What the helpers of edit make are texts.                                *)
LEMMA JoinLinesIs ==
  ASSUME NEW lines \in Seq(AllTexts)
  PROVE  JoinLines(lines) \in AllTexts
  <1> DEFINE parts == [k \in DOMAIN lines |-> IF k = 1 THEN lines[1] ELSE <<"\n">> \o lines[k]]
  <1>1. Len(lines) \in Nat /\ DOMAIN lines = 1 .. Len(lines) /\ \A k \in 1 .. Len(lines) : lines[k] \in AllTexts
    OBVIOUS
  <1>2. <<"\n">> \in AllTexts
    <2>1. "\n" \in AllChars
      BY DEF AllChars
    <2> QED BY <2>1 DEF AllTexts
  <1>3. \A k \in 1 .. Len(lines) : <<"\n">> \o lines[k] \in AllTexts
    BY <1>1, <1>2, ConcatProperties DEF AllTexts
  <1>4. parts \in [1 .. Len(lines) -> AllTexts]
    BY <1>1, <1>3
  <1> HIDE DEF parts
  <1>5. parts \in Seq(AllTexts)
    BY <1>1, <1>4, FunctionIsSeq
  <1>6. Joined(parts) \in AllTexts
    BY <1>5, JoinedIs DEF AllTexts
  <1> QED BY <1>6 DEF JoinLines, parts

LEMMA TrimEndIs ==
  ASSUME NEW line \in AllTexts
  PROVE  TrimEnd(line) \in AllTexts
  <1> DEFINE kept == {0} \cup {i \in DOMAIN line : line[i] \notin {Space, "\r"}}
  <1>1. Len(line) \in Nat /\ DOMAIN line = 1 .. Len(line) /\ line \in Seq(AllChars)
    BY DEF AllTexts
  <1>2. kept \subseteq 0 .. Len(line) /\ kept # {}
    BY <1>1
  <1>3. TrimEnd(line) = Part(line, 1, Max(kept))
    BY DEF TrimEnd, Part
  <1> HIDE DEF kept
  <1>4. Max(kept) \in kept
    BY <1>1, <1>2, MaxOfUpTo
  <1> DEFINE last == Max(kept)
  <1>5. last \in 0 .. Len(line)
    BY <1>2, <1>4
  <1> HIDE DEF last
  <1>6. last \in 1 - 1 .. Len(line) /\ 1 \in 1 .. Len(line) + 1
    BY <1>1, <1>5
  <1>7. Part(line, 1, last) \in Seq(AllChars)
    BY <1>1, <1>6, PartIs
  <1> QED BY <1>3, <1>7 DEF AllTexts, last

LEMMA FuzzyIs ==
  ASSUME NEW text \in AllTexts
  PROVE  Fuzzy(text) \in AllTexts
  <1> DEFINE lines == LinesOf(NormalizeNewlines(text))
             trimmed == [k \in DOMAIN lines |-> TrimEnd(lines[k])]
             plain == JoinLines(trimmed)
  <1>1. NormalizeNewlines(text) \in AllTexts
    BY NormalIsPlain, PlainIsText
  <1>2. lines \in Seq(AllTexts) /\ Len(lines) \in Nat
    BY <1>1, LinesAre
  <1> HIDE DEF lines
  <1>3. trimmed \in [1 .. Len(lines) -> AllTexts]
    <2>1. DOMAIN lines = 1 .. Len(lines) /\ \A k \in 1 .. Len(lines) : lines[k] \in AllTexts
      BY <1>2
    <2>2. \A k \in 1 .. Len(lines) : TrimEnd(lines[k]) \in AllTexts
      BY <2>1, TrimEndIs
    <2> QED BY <2>1, <2>2
  <1> HIDE DEF trimmed
  <1>4. trimmed \in Seq(AllTexts)
    BY <1>2, <1>3, FunctionIsSeq
  <1>5. plain \in AllTexts
    BY <1>4, JoinLinesIs
  <1> HIDE DEF plain
  <1>6. PlainDashes(plain) \in AllTexts
    <2> DEFINE f == [i \in DOMAIN plain |-> IF plain[i] = EmDash THEN Dash ELSE plain[i]]
    <2>1. Len(plain) \in Nat /\ DOMAIN plain = 1 .. Len(plain) /\ \A i \in 1 .. Len(plain) : plain[i] \in AllChars
      BY <1>5 DEF AllTexts
    <2>2. Dash \in AllChars
      BY DEF AllChars
    <2>3. f \in [1 .. Len(plain) -> AllChars]
      BY <2>1, <2>2
    <2> HIDE DEF f
    <2>4. f \in AllTexts
      BY <2>1, <2>3, FunctionIsSeq DEF AllTexts
    <2> QED BY <2>4 DEF PlainDashes, f
  <1>7. Fuzzy(text) = PlainDashes(plain)
    BY Zenon DEF Fuzzy, TrimLines, plain, trimmed, lines
  <1> QED BY <1>6, <1>7

LEMMA SubTexts ==
  ASSUME NEW text \in AllTexts, NEW a \in 1 .. Len(text) + 1, NEW b \in 0 .. Len(text)
  PROVE  SubSeq(text, a, b) \in AllTexts
  <1>1. Len(text) \in Nat /\ text \in Seq(AllChars) /\ a \in Int /\ b \in Int /\ a >= 1 /\ b <= Len(text)
    BY DEF AllTexts
  <1>2. \A i \in a .. b : text[i] \in AllChars
    <2>1. \A i \in a .. b : i \in 1 .. Len(text)
      BY <1>1
    <2> QED BY <2>1, <1>1, ElementOfSeq
  <1> QED BY <1>1, <1>2, SubSeqProperties DEF AllTexts

LEMMA ByteIsNumber ==
  ASSUME NEW text, NEW i \in Nat \ {0}
  PROVE  ByteOf(text, i) \in Nat
  <1> DEFINE S == {text[k] : k \in 1 .. i - 1}
             start == SubSeq(text, 1, i - 1)
  <1>1. 1 \in Int /\ i - 1 \in Int /\ \A k \in 1 .. i - 1 : text[k] \in S
    OBVIOUS
  <1> HIDE DEF S
  <1>2. start \in Seq(S)
    BY <1>1, SubSeqProperties
  <1> HIDE DEF start
  <1>3. Utf8Size(start) \in Nat
    BY <1>2, WideAre
  <1> QED BY <1>3 DEF ByteOf, start

-------------------------------------------------------------------------------
(* The matches of edit, for any edits.                                     *)
Changes == [old : AllTexts, new : AllTexts]
Matches == [at : Int, length : Nat, new : AllTexts]
Outcomes == {"ok", "error", "panic"}
Dones == [is : Outcomes, base : AllTexts, offset : Int, matched : Seq(Matches)]

LEMMA FindsAre ==
  ASSUME NEW content \in AllTexts, NEW needle \in AllTexts, Finds(content, needle) # {}
  PROVE  /\ Min(Finds(content, needle)) \in Finds(content, needle)
         /\ Finds(content, needle) \subseteq 1 .. Len(content) + 1
         /\ \A i \in Finds(content, needle) : i + Len(needle) \in i .. Len(content) + 1
         /\ \A i \in Finds(content, needle) : needle # <<>> => i \in 1 .. Len(content)
         /\ \A i \in Finds(content, needle) : Same(Part(content, i, i + Len(needle) - 1), needle)
  <1>1. Len(content) \in Nat /\ Len(needle) \in Nat /\ (needle # <<>> => Len(needle) >= 1)
    BY DEF AllTexts
  <1>2. \A i \in Finds(content, needle) : /\ i \in 1 .. (Len(content) - Len(needle) + 1)
                                          /\ SubSeq(content, i, i + Len(needle) - 1) = needle
    BY DEF Finds
  <1>3. Finds(content, needle) \subseteq 1 .. Len(content) + 1 /\ Finds(content, needle) \subseteq Nat
    BY <1>1, <1>2
  <1>4. Min(Finds(content, needle)) \in Finds(content, needle)
    BY <1>3, MinIs
  <1>5. \A i \in Finds(content, needle) : i + Len(needle) \in i .. Len(content) + 1
    BY <1>1, <1>2
  <1>6. \A i \in Finds(content, needle) : needle # <<>> => i \in 1 .. Len(content)
    BY <1>1, <1>2
  <1> QED BY <1>2, <1>3, <1>4, <1>5, <1>6 DEF Part, Same

Spans == [start : Nat, end : Nat, length : Nat, fuzzy : BOOLEAN]

LEMMA FoundIs ==
  ASSUME NEW content \in AllTexts, NEW old \in AllTexts, IsFound(content, old)
  PROVE  Found(content, old) \in Spans
  <1>1. Len(content) \in Nat /\ Len(old) \in Nat
    BY DEF AllTexts
  <1>2. Utf8Size(old) \in Nat
    BY WideAre DEF AllTexts
  <1>3. CASE Finds(content, old) # {}
    <2> DEFINE from == Min(Finds(content, old))
    <2>1. from \in 1 .. Len(content) + 1
      BY <1>3, FindsAre
    <2>2. Found(content, old) = ExactSpan(content, old, from)
      BY <1>3 DEF Found
    <2> HIDE DEF from
    <2>3. from \in Nat \ {0} /\ from + Len(old) \in Nat \ {0}
      BY <1>1, <2>1
    <2>4. ByteOf(content, from) \in Nat /\ ByteOf(content, from + Len(old)) \in Nat
      BY <2>3, ByteIsNumber
    <2> QED BY <1>2, <2>2, <2>4 DEF ExactSpan, Span, Spans
  <1>4. CASE Finds(content, old) = {}
    <2> DEFINE plain == Fuzzy(content)
               needle == Fuzzy(old)
               from == Min(Finds(plain, needle))
               to == Min({from + Len(needle), Len(content) + 1})
    <2>1. plain \in AllTexts /\ needle \in AllTexts
      BY FuzzyIs
    <2>2. Finds(plain, needle) # {}
      BY <1>4 DEF IsFound
    <2>3. Found(content, old) = Span(content, from, to, Utf8Size(needle), TRUE)
      BY <1>4 DEF Found, FuzzySpan
    <2> HIDE DEF plain, needle
    <2>4. from \in 1 .. Len(plain) + 1
      BY <2>1, <2>2, FindsAre
    <2>5. Len(needle) \in Nat
      BY <2>1 DEF AllTexts
    <2> HIDE DEF from
    <2>6. from \in Nat \ {0} /\ from + Len(needle) \in Nat /\ from + Len(needle) # 0 /\ Len(content) + 1 \in Nat /\ Len(content) + 1 # 0
      BY <1>1, <2>4, <2>5
    <2>7. to = (IF from + Len(needle) <= Len(content) + 1 THEN from + Len(needle) ELSE Len(content) + 1)
      BY <2>6, MinOfTwo
    <2> HIDE DEF to
    <2>8. to \in Nat \ {0}
      BY <2>6, <2>7
    <2>9. ByteOf(content, from) \in Nat /\ ByteOf(content, to) \in Nat
      BY <2>6, <2>8, ByteIsNumber
    <2>10. Utf8Size(needle) \in Nat
      BY <2>1, WideAre DEF AllTexts
    <2> QED BY <2>3, <2>9, <2>10 DEF Span, Spans
  <1> QED BY <1>3, <1>4

LEMMA UsizeIs ==
  ASSUME NEW n \in Int
  PROVE  Usize(n) \in Int /\ (n >= 0 => Usize(n) = n)
  BY DEF Usize

LEMMA MatchAdded ==
  ASSUME NEW done \in Dones, NEW edit \in Changes, NEW from \in Int, NEW length \in Nat
  PROVE  AddMatch(done, edit, from, length) \in Dones
  <1> DEFINE m == [at |-> from, length |-> length, new |-> edit.new]
             matched == Append(done.matched, m)
  <1>1. m \in Matches
    BY DEF Matches, Changes
  <1>2. done.matched \in Seq(Matches)
    BY DEF Dones
  <1> HIDE DEF m
  <1>3. matched \in Seq(Matches)
    BY <1>1, <1>2, AppendProperties
  <1>4. AddMatch(done, edit, from, length) = [done EXCEPT !.is = "error"]
        \/ AddMatch(done, edit, from, length) = [done EXCEPT !.matched = matched]
    BY Zenon DEF AddMatch, m
  <1> HIDE DEF matched
  <1>5. [done EXCEPT !.is = "error"] \in Dones /\ [done EXCEPT !.matched = matched] \in Dones
    BY <1>3 DEF Dones, Outcomes
  <1> QED BY <1>4, <1>5

LEMMA PlainMade ==
  ASSUME NEW done \in Dones, NEW from \in Int, NEW to \in Int, Sliceable(done.base, from, to)
  PROVE  MadePlain(done, from, to) \in Dones
  <1> DEFINE base == done.base
             i == Min(AtByte(base, from))
             j == Min(AtByte(base, to))
             plain == Fuzzy(SubSeq(base, i, j - 1))
             other == Splice(base, from, to, plain)
             offset == done.offset + Utf8Size(plain) - (to - from)
  <1>1. base \in AllTexts /\ done.offset \in Int
    BY DEF Dones
  <1>2. MadePlain(done, from, to) = [done EXCEPT !.base = other, !.offset = offset]
    <2>1. MadePlain(done, from, to)
            = [done EXCEPT !.base = Splice(@, from, to, plain), !.offset = @ + Utf8Size(plain) - (to - from)]
      BY Zenon DEF MadePlain, Replaced
    <2> QED BY <2>1, Zenon
  <1> HIDE DEF base
  <1>3. plain \in AllTexts
    <2>1. Len(base) \in Nat
      BY <1>1 DEF AllTexts
    <2>2. /\ AtByte(base, from) \subseteq 1 .. Len(base) + 1 /\ AtByte(base, from) # {}
          /\ AtByte(base, to) \subseteq 1 .. Len(base) + 1 /\ AtByte(base, to) # {}
      BY DEF Sliceable, AtByte, base
    <2>3. AtByte(base, from) \subseteq Nat /\ AtByte(base, to) \subseteq Nat
      BY <2>1, <2>2
    <2>4. i \in AtByte(base, from) /\ j \in AtByte(base, to)
      BY <2>2, <2>3, MinIs
    <2>5. i \in 1 .. Len(base) + 1 /\ j \in 1 .. Len(base) + 1
      BY <2>2, <2>4
    <2> HIDE DEF i, j
    <2>6. j - 1 \in 0 .. Len(base)
      BY <2>1, <2>5
    <2>7. SubSeq(base, i, j - 1) \in AllTexts
      BY <1>1, <2>5, <2>6, SubTexts
    <2> QED BY <2>7, FuzzyIs
  <1> HIDE DEF plain
  <1>4. other \in AllTexts
    BY <1>1, <1>3, Spliced DEF base
  <1>5. offset \in Int
    <2>1. Utf8Size(plain) \in Nat
      BY <1>3, WideAre DEF AllTexts
    <2> QED BY <2>1, <1>1
  <1> HIDE DEF other, offset
  <1>6. [done EXCEPT !.base = other, !.offset = offset] \in Dones
    BY <1>4, <1>5 DEF Dones
  <1> QED BY <1>2, <1>6

LEMMA MatchEditIs ==
  ASSUME NEW content \in AllTexts, NEW done \in Dones, NEW edit \in Changes
  PROVE  MatchEdit(content, done, edit) \in Dones
  <1>1. edit.old \in AllTexts
    BY DEF Changes
  <1>2. CASE done.is # "ok"
    BY <1>2 DEF MatchEdit
  <1>3. CASE done.is = "ok" /\ ~IsFound(content, edit.old)
    <2>1. [done EXCEPT !.is = "error"] \in Dones
      BY DEF Dones, Outcomes
    <2> QED BY <1>3, <2>1 DEF MatchEdit
  <1>4. CASE done.is = "ok" /\ IsFound(content, edit.old)
    <2> DEFINE span == Found(content, edit.old)
               from == Usize(span.start + done.offset)
               to == Usize(span.end + done.offset)
    <2>1. MatchEdit(content, done, edit) = MatchBetween(done, edit, span, from, to)
      BY <1>4 DEF MatchEdit, MatchSpan
    <2>2. span \in Spans
      BY <1>1, <1>4, FoundIs
    <2> HIDE DEF span
    <2>3. span.start \in Nat /\ span.end \in Nat /\ span.length \in Nat /\ done.offset \in Int
      BY <2>2 DEF Spans, Dones
    <2>4. span.start + done.offset \in Int /\ span.end + done.offset \in Int
      BY <2>3
    <2>5. from \in Int /\ to \in Int
      BY <2>4, UsizeIs
    <2> HIDE DEF from, to
    <2>6. CASE ~span.fuzzy
      BY <2>1, <2>3, <2>5, <2>6, MatchAdded DEF MatchBetween
    <2>7. CASE span.fuzzy /\ ~Sliceable(done.base, from, to)
      <3>1. [done EXCEPT !.is = "panic"] \in Dones
        BY DEF Dones, Outcomes
      <3> QED BY <2>1, <2>7, <3>1 DEF MatchBetween
    <2>8. CASE span.fuzzy /\ Sliceable(done.base, from, to)
      <3>1. MadePlain(done, from, to) \in Dones
        BY <2>5, <2>8, PlainMade
      <3> QED BY <2>1, <2>3, <2>5, <2>8, <3>1, MatchAdded DEF MatchBetween
    <2> QED BY <2>6, <2>7, <2>8
  <1> QED BY <1>2, <1>3, <1>4

MatchUpTo(content, edits, f) ==
  /\ f[0] = [is |-> "ok", base |-> content, offset |-> 0, matched |-> <<>>] /\ \A k \in 1 .. Len(edits) : f[k] = MatchEdit(content, f[k - 1], edits[k])
  /\ MatchAll(content, edits) = f[Len(edits)]

LEMMA MatchSteps ==
  ASSUME NEW content \in AllTexts, NEW edits \in Seq(Changes)
  PROVE  \E f \in [0 .. Len(edits) -> Dones] : MatchUpTo(content, edits, f)
  <1> DEFINE n == Len(edits)
             first == [is |-> "ok", base |-> content, offset |-> 0, matched |-> <<>>]
             step == [k \in 1 .. n |-> [x \in Dones |-> MatchEdit(content, x, edits[k])]]
             Steps(f) == f = [k \in 0 .. n |-> IF k = 0 THEN [is |-> "ok", base |-> content, offset |-> 0, matched |-> <<>>] ELSE MatchEdit(content, f[k - 1], edits[k])]
             chosen == CHOOSE f : f = [k \in 0 .. n |-> IF k = 0 THEN [is |-> "ok", base |-> content, offset |-> 0, matched |-> <<>>] ELSE MatchEdit(content, f[k - 1], edits[k])]
  <1>1. n \in Nat /\ first \in Dones /\ \A k \in 1 .. n : edits[k] \in Changes
    BY DEF Dones, Outcomes
  <1>2. \A k \in 1 .. n : step[k] \in [Dones -> Dones]
    BY <1>1, MatchEditIs
  <1>3. MatchAll(content, edits) = chosen[n]
    BY Zenon DEF MatchAll
  <1> HIDE DEF n, first
  <1>4. PICK f \in [0 .. n -> Dones] : f[0] = first /\ \A k \in 1 .. n : f[k] = step[k][f[k - 1]]
    <2>1. AreSteps(step, n, Dones)
      BY <1>2 DEF AreSteps
    <2> HIDE DEF step
    <2>2. \E f \in [0 .. n -> Dones] : MadeBy(step, n, first, f)
      BY <1>1, <2>1, StepsAreThere
    <2> QED BY <2>2 DEF MadeBy
  <1>5. \A k \in 1 .. n : f[k] = MatchEdit(content, f[k - 1], edits[k])
    <2>1. \A k \in 1 .. n : k - 1 \in 0 .. n
      BY <1>1
    <2> QED BY <2>1, <1>4
  <1>6. Steps(f)
    <2>1. \A k \in 0 .. n : k = 0 \/ k \in 1 .. n
      BY <1>1
    <2>2. f = [k \in 0 .. n |-> f[k]]
      BY <1>4
    <2>3. \A k \in 0 .. n : f[k] = IF k = 0 THEN [is |-> "ok", base |-> content, offset |-> 0, matched |-> <<>>] ELSE MatchEdit(content, f[k - 1], edits[k])
      BY <2>1, <1>4, <1>5, Zenon DEF first
    <2> QED BY <2>2, <2>3, Zenon
  <1>7. Steps(chosen)
    BY <1>6, Zenon
  <1> HIDE DEF chosen
  <1>8. \A k \in 0 .. n : chosen[k] = IF k = 0 THEN first ELSE MatchEdit(content, chosen[k - 1], edits[k])
    BY <1>7, Zenon DEF first
  <1>9. \A k \in 0 .. n : chosen[k] = f[k]
    <2> DEFINE G == {k \in 0 .. n : chosen[k] = f[k]}
    <2>1. 0 \in G
      BY <1>1, <1>4, <1>8
    <2>2. ASSUME NEW k \in 1 .. n, k - 1 \in G PROVE k \in G
      <3>1. k \in 0 .. n /\ k # 0
        BY <1>1
      <3>2. chosen[k] = MatchEdit(content, chosen[k - 1], edits[k])
        BY <3>1, <1>8, Zenon
      <3> QED BY <3>1, <3>2, <2>2, <1>5
    <2> HIDE DEF G
    <2>3. \A k \in 0 .. n : k \in G
      BY <1>1, <2>1, <2>2, StepByStep
    <2> QED BY <2>3 DEF G
  <1>10. n \in 0 .. n
    BY <1>1
  <1> QED BY <1>3, <1>4, <1>5, <1>9, <1>10 DEF MatchUpTo, n, first

Applieds == [is : Outcomes, text : AllTexts]

LEMMA ApplyMatchIs ==
  ASSUME NEW done \in Applieds, NEW m \in Matches
  PROVE  ApplyMatch(done, m) \in Applieds
  <1> DEFINE other == Splice(done.text, m.at, m.at + m.length, m.new)
  <1>1. done.text \in AllTexts /\ m.new \in AllTexts
    BY DEF Applieds, Matches
  <1>2. CASE done.is = "ok" /\ Sliceable(done.text, m.at, m.at + m.length)
    <2>1. ApplyMatch(done, m) = [is |-> "ok", text |-> other]
      BY <1>2 DEF ApplyMatch
    <2>2. other \in AllTexts
      BY <1>1, <1>2, Spliced
    <2> HIDE DEF other
    <2> QED BY <2>1, <2>2 DEF Applieds, Outcomes
  <1>3. CASE ~(done.is = "ok" /\ Sliceable(done.text, m.at, m.at + m.length))
    <2>1. ApplyMatch(done, m) = [done EXCEPT !.is = "panic"]
      BY <1>3, Zenon DEF ApplyMatch
    <2>2. [done EXCEPT !.is = "panic"] \in Applieds
      BY DEF Applieds, Outcomes
    <2> QED BY <2>1, <2>2
  <1> QED BY <1>2, <1>3

ApplyUpTo(base, sorted, f) ==
  /\ f[0] = [is |-> "ok", text |-> base] /\ \A k \in 1 .. Len(sorted) : f[k] = ApplyMatch(f[k - 1], sorted[Len(sorted) + 1 - k])
  /\ ApplyMatched(base, sorted) = f[Len(sorted)]

LEMMA ApplySteps ==
  ASSUME NEW base \in AllTexts, NEW sorted \in Seq(Matches)
  PROVE  \E f \in [0 .. Len(sorted) -> Applieds] : ApplyUpTo(base, sorted, f)
  <1> DEFINE n == Len(sorted)
             first == [is |-> "ok", text |-> base]
             step == [k \in 1 .. n |-> [x \in Applieds |-> ApplyMatch(x, sorted[Len(sorted) + 1 - k])]]
             Steps(f) == f = [k \in 0 .. n |-> IF k = 0 THEN [is |-> "ok", text |-> base] ELSE ApplyMatch(f[k - 1], sorted[Len(sorted) + 1 - k])]
             chosen == CHOOSE f : f = [k \in 0 .. n |-> IF k = 0 THEN [is |-> "ok", text |-> base] ELSE ApplyMatch(f[k - 1], sorted[Len(sorted) + 1 - k])]
  <1>1. n \in Nat /\ first \in Applieds /\ \A k \in 1 .. n : sorted[Len(sorted) + 1 - k] \in Matches
    BY DEF Applieds, Outcomes
  <1>2. \A k \in 1 .. n : step[k] \in [Applieds -> Applieds]
    BY <1>1, ApplyMatchIs
  <1>3. ApplyMatched(base, sorted) = chosen[n]
    BY Zenon DEF ApplyMatched
  <1> HIDE DEF n, first
  <1>4. PICK f \in [0 .. n -> Applieds] : f[0] = first /\ \A k \in 1 .. n : f[k] = step[k][f[k - 1]]
    <2>1. AreSteps(step, n, Applieds)
      BY <1>2 DEF AreSteps
    <2> HIDE DEF step
    <2>2. \E f \in [0 .. n -> Applieds] : MadeBy(step, n, first, f)
      BY <1>1, <2>1, StepsAreThere
    <2> QED BY <2>2 DEF MadeBy
  <1>5. \A k \in 1 .. n : f[k] = ApplyMatch(f[k - 1], sorted[Len(sorted) + 1 - k])
    <2>1. \A k \in 1 .. n : k - 1 \in 0 .. n
      BY <1>1
    <2> QED BY <2>1, <1>4
  <1>6. Steps(f)
    <2>1. \A k \in 0 .. n : k = 0 \/ k \in 1 .. n
      BY <1>1
    <2>2. f = [k \in 0 .. n |-> f[k]]
      BY <1>4
    <2>3. \A k \in 0 .. n : f[k] = IF k = 0 THEN [is |-> "ok", text |-> base] ELSE ApplyMatch(f[k - 1], sorted[Len(sorted) + 1 - k])
      BY <2>1, <1>4, <1>5, Zenon DEF first
    <2> QED BY <2>2, <2>3, Zenon
  <1>7. Steps(chosen)
    BY <1>6, Zenon
  <1> HIDE DEF chosen
  <1>8. \A k \in 0 .. n : chosen[k] = IF k = 0 THEN first ELSE ApplyMatch(chosen[k - 1], sorted[Len(sorted) + 1 - k])
    BY <1>7, Zenon DEF first
  <1>9. \A k \in 0 .. n : chosen[k] = f[k]
    <2> DEFINE G == {k \in 0 .. n : chosen[k] = f[k]}
    <2>1. 0 \in G
      BY <1>1, <1>4, <1>8
    <2>2. ASSUME NEW k \in 1 .. n, k - 1 \in G PROVE k \in G
      <3>1. k \in 0 .. n /\ k # 0
        BY <1>1
      <3>2. chosen[k] = ApplyMatch(chosen[k - 1], sorted[Len(sorted) + 1 - k])
        BY <3>1, <1>8, Zenon
      <3> QED BY <3>1, <3>2, <2>2, <1>5
    <2> HIDE DEF G
    <2>3. \A k \in 0 .. n : k \in G
      BY <1>1, <2>1, <2>2, StepByStep
    <2> QED BY <2>3 DEF G
  <1>10. n \in 0 .. n
    BY <1>1
  <1> QED BY <1>3, <1>4, <1>5, <1>9, <1>10 DEF ApplyUpTo, n, first

LEMMA MatchAllIs ==
  ASSUME NEW content \in AllTexts, NEW edits \in Seq(Changes)
  PROVE  MatchAll(content, edits) \in Dones
  <1>1. Len(edits) \in Nat
    BY LenProperties
  <1>2. PICK f \in [0 .. Len(edits) -> Dones] : MatchUpTo(content, edits, f)
    BY MatchSteps
  <1>3. MatchAll(content, edits) = f[Len(edits)] /\ Len(edits) \in 0 .. Len(edits)
    BY <1>1, <1>2 DEF MatchUpTo
  <1> QED BY <1>2, <1>3

LEMMA ApplyMatchedIs ==
  ASSUME NEW base \in AllTexts, NEW sorted \in Seq(Matches)
  PROVE  ApplyMatched(base, sorted) \in Applieds
  <1>1. Len(sorted) \in Nat
    BY LenProperties
  <1>2. PICK f \in [0 .. Len(sorted) -> Applieds] : ApplyUpTo(base, sorted, f)
    BY ApplySteps
  <1>3. ApplyMatched(base, sorted) = f[Len(sorted)] /\ Len(sorted) \in 0 .. Len(sorted)
    BY <1>1, <1>2 DEF ApplyUpTo
  <1> QED BY <1>2, <1>3

(* Sorting by place brings each match to one place, in order.              *)
Before(matched, i, j) == matched[i].at < matched[j].at \/ (matched[i].at = matched[j].at /\ i < j)

LEMMA OneIsBefore ==
  ASSUME NEW matched \in Seq(Matches), NEW i \in 1 .. Len(matched), NEW j \in 1 .. Len(matched)
  PROVE  /\ matched[i].at \in Int /\ matched[j].at \in Int
         /\ i = j \/ Before(matched, i, j) \/ Before(matched, j, i)
         /\ matched[i].at < matched[j].at => Before(matched, i, j)
         /\ ComesUpTo(matched, i, j) <=> i = j \/ Before(matched, i, j)
  <1>1. matched[i] \in Matches /\ matched[j] \in Matches
    BY ElementOfSeq
  <1>2. matched[i].at \in Int /\ matched[j].at \in Int
    BY <1>1 DEF Matches
  <1>3. i \in Int /\ j \in Int
    OBVIOUS
  <1> QED BY <1>2, <1>3 DEF Before, ComesUpTo

LEMMA PlaceIs ==
  ASSUME NEW matched \in Seq(Matches), NEW j \in 1 .. Len(matched)
  PROVE  /\ PlaceOf(matched, j) \in 1 .. Len(matched)
         /\ \A i \in 1 .. Len(matched) : Before(matched, i, j) => PlaceOf(matched, i) < PlaceOf(matched, j)
  <1> DEFINE n == Len(matched)
             UpTo(m) == {i \in DOMAIN matched : ComesUpTo(matched, i, m)}
  <1>1. n \in Nat /\ DOMAIN matched = 1 .. n /\ \A m \in 1 .. n : matched[m].at \in Int
    <2>1. \A m \in 1 .. n : matched[m].at \in Int
      BY OneIsBefore
    <2> QED BY <2>1, LenProperties
  <1>2. IsFiniteSet(1 .. n) /\ Cardinality(1 .. n) = n
    <2> HIDE DEF n
    <2>1. 1 \in Int /\ n \in Int
      BY <1>1
    <2>2. IsFiniteSet(1 .. n) /\ Cardinality(1 .. n) = IF 1 > n THEN 0 ELSE n - 1 + 1
      BY <2>1, FS_Interval
    <2> QED BY <2>2, <1>1
  <1>3. \A m \in 1 .. n : /\ IsFiniteSet(UpTo(m)) /\ Cardinality(UpTo(m)) \in Nat /\ Cardinality(UpTo(m)) <= n
                          /\ PlaceOf(matched, m) = Cardinality(UpTo(m))
    <2> TAKE m \in 1 .. n
    <2>1. UpTo(m) \in SUBSET (1 .. n)
      BY <1>1
    <2>2. PlaceOf(matched, m) = Cardinality(UpTo(m))
      BY DEF PlaceOf
    <2> HIDE DEF UpTo
    <2>3. IsFiniteSet(UpTo(m)) /\ Cardinality(UpTo(m)) <= Cardinality(1 .. n)
      BY <2>1, <1>2, FS_Subset
    <2> QED BY <2>2, <2>3, <1>2, FS_CardinalityType
  <1>4. PlaceOf(matched, j) \in 1 .. n
    <2>1. j \in UpTo(j)
      BY <1>1, OneIsBefore
    <2>2. Cardinality(UpTo(j)) # 0
      BY <2>1, <1>3, FS_EmptySet
    <2>3. /\ PlaceOf(matched, j) = Cardinality(UpTo(j))
          /\ Cardinality(UpTo(j)) \in Nat /\ Cardinality(UpTo(j)) <= n
      BY <1>3
    <2> HIDE DEF UpTo
    <2> QED BY <2>2, <2>3, <1>1
  <1>5. ASSUME NEW i \in 1 .. n, Before(matched, i, j)
        PROVE  PlaceOf(matched, i) < PlaceOf(matched, j)
    <2>1. UpTo(i) \subseteq UpTo(j)
      <3>1. ASSUME NEW m \in 1 .. n, ComesUpTo(matched, m, i) PROVE ComesUpTo(matched, m, j)
        <4>1. matched[m].at \in Int /\ matched[i].at \in Int /\ matched[j].at \in Int /\ m \in Int /\ i \in Int /\ j \in Int
          BY <1>1
        <4> QED BY <4>1, <3>1, <1>5 DEF Before, ComesUpTo
      <3> QED BY <3>1, <1>1
    <2>2. j \in UpTo(j) /\ j \notin UpTo(i)
      <3>1. matched[i].at \in Int /\ matched[j].at \in Int /\ i \in Int /\ j \in Int
        BY <1>1
      <3> QED BY <3>1, <1>1, <1>5 DEF Before, ComesUpTo
    <2> HIDE DEF UpTo
    <2>3. UpTo(i) \in SUBSET UpTo(j) /\ UpTo(i) # UpTo(j)
      BY <2>1, <2>2
    <2>4. Cardinality(UpTo(i)) <= Cardinality(UpTo(j)) /\ Cardinality(UpTo(i)) # Cardinality(UpTo(j))
      BY <2>3, <1>3, FS_Subset
    <2>5. Cardinality(UpTo(i)) \in Nat /\ Cardinality(UpTo(j)) \in Nat
      BY <1>3
    <2> QED BY <2>4, <2>5, <1>3
  <1> QED BY <1>4, <1>5

Orders(matched, order) ==
  /\ Sorted(matched) \in Seq(Matches) /\ Len(Sorted(matched)) = Len(matched)
  /\ \A k \in 1 .. Len(matched) : Sorted(matched)[k] = matched[order[k]]
  /\ \A m \in 1 .. Len(matched) : \E k \in 1 .. Len(matched) : order[k] = m
  /\ \A j, k \in 1 .. Len(matched) : j # k => order[j] # order[k]
  /\ \A j, k \in 1 .. Len(matched) : j < k => matched[order[j]].at <= matched[order[k]].at

LEMMA SortedIs ==
  ASSUME NEW matched \in Seq(Matches)
  PROVE  \E order \in [1 .. Len(matched) -> 1 .. Len(matched)] : Orders(matched, order)
  <1> DEFINE n == Len(matched)
             place == [j \in 1 .. n |-> PlaceOf(matched, j)]
             order == [k \in 1 .. n |-> CHOOSE j \in DOMAIN matched : PlaceOf(matched, j) = k]
  <1>1. n \in Nat /\ DOMAIN matched = 1 .. n /\ IsFiniteSet(1 .. n)
    <2>1. n \in Nat /\ DOMAIN matched = 1 .. n
      BY LenProperties
    <2> QED BY <2>1, FS_Interval
  <1>2. place \in [1 .. n -> 1 .. n] /\ \A j \in 1 .. n : place[j] = PlaceOf(matched, j)
    BY PlaceIs
  <1>3. \A i, j \in 1 .. n : i # j => place[i] # place[j]
    <2> SUFFICES ASSUME NEW i \in 1 .. n, NEW j \in 1 .. n, i # j PROVE place[i] # place[j]
      OBVIOUS
    <2>1. place[i] \in Int /\ place[j] \in Int
      BY <1>2
    <2>2. Before(matched, i, j) \/ Before(matched, j, i)
      BY OneIsBefore
    <2>3. Before(matched, i, j) => PlaceOf(matched, i) < PlaceOf(matched, j)
      BY PlaceIs
    <2>4. Before(matched, j, i) => PlaceOf(matched, j) < PlaceOf(matched, i)
      BY PlaceIs
    <2> HIDE DEF place
    <2> QED BY <2>1, <2>2, <2>3, <2>4, <1>2
  <1> HIDE DEF place
  <1>4. place \in Surjection(1 .. n, 1 .. n)
    <2>1. place \in Injection(1 .. n, 1 .. n)
      BY <1>2, <1>3 DEF Injection, IsInjective
    <2> HIDE DEF n
    <2> QED BY <2>1, <1>1, FS_Injection
  <1>5. \A k \in 1 .. n : \E j \in 1 .. n : place[j] = k
    BY <1>4 DEF Surjection
  <1>6. \A k \in 1 .. n : order[k] \in 1 .. n /\ place[order[k]] = k
    <2> TAKE k \in 1 .. n
    <2>1. \E j \in DOMAIN matched : PlaceOf(matched, j) = k
      BY <1>1, <1>2, <1>5
    <2>2. order[k] = CHOOSE j \in DOMAIN matched : PlaceOf(matched, j) = k
      OBVIOUS
    <2>3. order[k] \in DOMAIN matched /\ PlaceOf(matched, order[k]) = k
      BY <2>1, <2>2, Zenon
    <2> QED BY <2>3, <1>1, <1>2
  <1>7. order \in [1 .. n -> 1 .. n]
    BY <1>6
  <1>8. Sorted(matched) = [k \in 1 .. n |-> matched[order[k]]]
    BY <1>1 DEF Sorted
  <1> HIDE DEF order
  <1>9. Sorted(matched) \in Seq(Matches) /\ Len(Sorted(matched)) = n
    <2>1. \A k \in 1 .. n : matched[order[k]] \in Matches
      BY <1>6, ElementOfSeq
    <2> DEFINE f == [k \in 1 .. n |-> matched[order[k]]]
    <2>2. f \in [1 .. n -> Matches]
      BY <2>1
    <2> HIDE DEF f, n
    <2>3. f \in Seq(Matches) /\ Len(f) = n
      BY <2>2, <1>1, FunctionIsSeq
    <2> QED BY <2>3, <1>8 DEF f
  <1>10. \A k \in 1 .. n : Sorted(matched)[k] = matched[order[k]]
    BY <1>8
  <1>11. \A m \in 1 .. n : \E k \in 1 .. n : order[k] = m
    <2> TAKE m \in 1 .. n
    <2>1. place[m] \in 1 .. n
      BY <1>2
    <2>2. order[place[m]] \in 1 .. n /\ place[order[place[m]]] = place[m]
      BY <2>1, <1>6
    <2>3. order[place[m]] = m
      BY <2>2, <1>3
    <2> QED BY <2>1, <2>3
  <1>12. \A j, k \in 1 .. n : j # k => order[j] # order[k]
    BY <1>6
  <1>13. \A j, k \in 1 .. n : j < k => matched[order[j]].at <= matched[order[k]].at
    <2> SUFFICES ASSUME NEW j \in 1 .. n, NEW k \in 1 .. n, j < k,
                        ~(matched[order[j]].at <= matched[order[k]].at)
                 PROVE  FALSE
      OBVIOUS
    <2>1. order[j] \in 1 .. n /\ order[k] \in 1 .. n /\ place[order[j]] = j /\ place[order[k]] = k
      BY <1>6
    <2>2. matched[order[j]].at \in Int /\ matched[order[k]].at \in Int
      BY <2>1, OneIsBefore
    <2>3. matched[order[k]].at < matched[order[j]].at
      BY <2>2
    <2>4. Before(matched, order[k], order[j])
      BY <2>1, <2>3, OneIsBefore
    <2>5. PlaceOf(matched, order[k]) < PlaceOf(matched, order[j])
      BY <2>1, <2>4, PlaceIs
    <2>6. k < j
      BY <2>1, <2>5, <1>2
    <2> QED BY <2>6
  <1>14. Orders(matched, order)
    BY <1>9, <1>10, <1>11, <1>12, <1>13 DEF Orders
  <1> QED BY <1>7, <1>14

LEMMA NormalEditsAre ==
  ASSUME NEW edits \in Seq(Changes)
  PROVE  NormalEdits(edits) \in Seq(Changes) /\ Len(NormalEdits(edits)) = Len(edits)
  <1> DEFINE f == [k \in DOMAIN edits |-> [old |-> NormalizeNewlines(edits[k].old),
                                           new |-> NormalizeNewlines(edits[k].new)]]
  <1>1. Len(edits) \in Nat /\ DOMAIN edits = 1 .. Len(edits)
    BY LenProperties
  <1>2. \A k \in 1 .. Len(edits) : edits[k].old \in AllTexts /\ edits[k].new \in AllTexts
    <2>1. \A k \in 1 .. Len(edits) : edits[k] \in Changes
      BY ElementOfSeq
    <2> QED BY <2>1 DEF Changes
  <1>3. \A k \in 1 .. Len(edits) : /\ NormalizeNewlines(edits[k].old) \in AllTexts
                                   /\ NormalizeNewlines(edits[k].new) \in AllTexts
    BY <1>2, NormalIsPlain, PlainIsText
  <1>4. f \in [1 .. Len(edits) -> Changes]
    BY <1>1, <1>3 DEF Changes
  <1> HIDE DEF f
  <1>5. f \in Seq(Changes) /\ Len(f) = Len(edits)
    BY <1>1, <1>4, FunctionIsSeq
  <1> QED BY <1>5 DEF NormalEdits, f

LEMMA ApplyEditsIs ==
  ASSUME NEW content \in AllTexts, NEW edits \in Seq(Changes)
  PROVE  ApplyEdits(content, edits).text \in AllTexts
  <1> DEFINE changes == NormalEdits(edits)
             done == MatchAll(content, changes)
             sorted == Sorted(done.matched)
             applied == ApplyMatched(done.base, sorted)
  <1>1. \A is : NotApplied(content, is).text = content
    BY DEF NotApplied
  <1>2. changes \in Seq(Changes)
    BY NormalEditsAre
  <1>3. ApplyEdits(content, edits) = ApplyPlain(content, changes)
    BY DEF ApplyEdits
  <1> HIDE DEF changes
  <1>4. done \in Dones
    BY <1>2, MatchAllIs
  <1>5. ApplyPlain(content, changes) = NotApplied(content, "error")
        \/ ApplyPlain(content, changes) = NotApplied(content, done.is)
        \/ ApplyPlain(content, changes) = ApplySorted(content, done.base, sorted)
    BY DEF ApplyPlain, ApplyDone
  <1> HIDE DEF done
  <1>6. done.base \in AllTexts /\ done.matched \in Seq(Matches)
    BY <1>4 DEF Dones
  <1>7. sorted \in Seq(Matches)
    BY <1>6, SortedIs DEF Orders
  <1>8. ApplySorted(content, done.base, sorted) = NotApplied(content, "error")
        \/ ApplySorted(content, done.base, sorted) = applied
    BY DEF ApplySorted
  <1> HIDE DEF sorted
  <1>9. applied \in Applieds
    BY <1>6, <1>7, ApplyMatchedIs
  <1> HIDE DEF applied
  <1>10. applied.text \in AllTexts
    BY <1>9 DEF Applieds
  <1> QED BY <1>1, <1>3, <1>5, <1>8, <1>10

-------------------------------------------------------------------------------
(* Edits whose old texts are all there: the matches are where they are.    *)
FirstAt(base, edits, k) == Min(Finds(base, edits[k].old))
ExactMatch(base, edits, k) ==
  [at |-> ByteOf(base, FirstAt(base, edits, k)), length |-> Utf8Size(edits[k].old), new |-> edits[k].new]
ExactMatches(base, edits, n) == [k \in 1 .. n |-> ExactMatch(base, edits, k)]
AllFound(base, edits) == \A k \in 1 .. Len(edits) : edits[k].old # <<>> /\ Finds(base, edits[k].old) # {}

LEMMA ExactMatchIs ==
  ASSUME NEW base \in AllTexts, NEW edits \in Seq(Changes), AllFound(base, edits), NEW k \in 1 .. Len(edits)
  PROVE  /\ edits[k].old \in AllTexts /\ edits[k].new \in AllTexts
         /\ FirstAt(base, edits, k) \in Finds(base, edits[k].old)
         /\ FirstAt(base, edits, k) \in 1 .. Len(base)
         /\ FirstAt(base, edits, k) + Len(edits[k].old) \in FirstAt(base, edits, k) + 1 .. Len(base) + 1
         /\ ExactMatch(base, edits, k) \in Matches
         /\ ExactMatch(base, edits, k).at = ByteOf(base, FirstAt(base, edits, k))
         /\ ExactMatch(base, edits, k).at + ExactMatch(base, edits, k).length
              = ByteOf(base, FirstAt(base, edits, k) + Len(edits[k].old))
         /\ ExactMatch(base, edits, k).new = edits[k].new
         /\ ByteOf(base, FirstAt(base, edits, k)) \in Nat
  <1> DEFINE old == edits[k].old
             i == FirstAt(base, edits, k)
             j == i + Len(old)
  <1>1. edits[k] \in Changes
    BY ElementOfSeq
  <1>2. old \in AllTexts /\ edits[k].new \in AllTexts
    BY <1>1 DEF Changes
  <1>3. old # <<>> /\ Finds(base, old) # {}
    BY DEF AllFound
  <1>4. Len(old) \in Nat /\ Len(old) >= 1 /\ Len(base) \in Nat
    BY <1>2, <1>3 DEF AllTexts
  <1>5. i = Min(Finds(base, old))
    BY DEF FirstAt
  <1> HIDE DEF i, old
  <1>6. i \in Finds(base, old)
    BY <1>2, <1>3, <1>5, FindsAre
  <1>7. i \in 1 .. Len(base) /\ i + Len(old) \in i .. Len(base) + 1
    BY <1>2, <1>3, <1>6, FindsAre
  <1>8. Same(Part(base, i, i + Len(old) - 1), old)
    BY <1>2, <1>3, <1>6, FindsAre
  <1>9. i \in 1 .. Len(base) + 1 /\ j \in i .. Len(base) + 1 /\ j \in i + 1 .. Len(base) + 1
    BY <1>4, <1>7
  <1>10. /\ ByteOf(base, j) = ByteOf(base, i) + Utf8Size(Part(base, i, j - 1))
         /\ ByteOf(base, i) \in Nat
    <2> HIDE DEF j
    <2> QED BY <1>9, BytesBetween
  <1>11. ByteOf(base, j) = ByteOf(base, i) + Utf8Size(old)
    <2>1. Part(base, i, i + Len(old) - 1) = old
      BY <1>8, Zenon DEF Same
    <2>2. j - 1 = i + Len(old) - 1
      BY <1>4, <1>7
    <2> HIDE DEF j
    <2>3. Part(base, i, j - 1) = old
      BY <2>1, <2>2, Zenon
    <2>4. Utf8Size(Part(base, i, j - 1)) = Utf8Size(old)
      BY <2>3, Zenon
    <2> QED BY <2>4, <1>10
  <1>12. Utf8Size(old) \in Nat
    BY <1>2, WideAre DEF AllTexts
  <1> DEFINE m == ExactMatch(base, edits, k)
  <1>13. m = [at |-> ByteOf(base, i), length |-> Utf8Size(old), new |-> edits[k].new]
    BY DEF ExactMatch, i, old
  <1> HIDE DEF m
  <1>14. m \in Matches /\ m.at = ByteOf(base, i) /\ m.length = Utf8Size(old) /\ m.new = edits[k].new
    BY <1>2, <1>10, <1>12, <1>13 DEF Matches
  <1>15. m.at + m.length = ByteOf(base, j)
    BY <1>11, <1>14
  <1> QED BY <1>2, <1>6, <1>7, <1>9, <1>10, <1>14, <1>15 DEF m, i, old

LEMMA ExactMatchesAre ==
  ASSUME NEW base \in AllTexts, NEW edits \in Seq(Changes), AllFound(base, edits), NEW n \in 0 .. Len(edits)
  PROVE  /\ ExactMatches(base, edits, n) \in Seq(Matches) /\ Len(ExactMatches(base, edits, n)) = n
         /\ \A k \in 1 .. n : ExactMatches(base, edits, n)[k] = ExactMatch(base, edits, k)
  <1> DEFINE f == ExactMatches(base, edits, n)
  <1>1. Len(edits) \in Nat
    BY LenProperties
  <1>2. n \in Nat /\ \A k \in 1 .. n : k \in 1 .. Len(edits)
    BY <1>1
  <1>3. \A k \in 1 .. n : ExactMatch(base, edits, k) \in Matches
    BY <1>2, ExactMatchIs
  <1>4. f \in [1 .. n -> Matches] /\ \A k \in 1 .. n : f[k] = ExactMatch(base, edits, k)
    BY <1>3 DEF ExactMatches
  <1> HIDE DEF f
  <1>5. f \in Seq(Matches) /\ Len(f) = n
    BY <1>2, <1>4, FunctionIsSeq
  <1> QED BY <1>4, <1>5 DEF f

LEMMA OneMoreMatch ==
  ASSUME NEW base \in AllTexts, NEW edits \in Seq(Changes), AllFound(base, edits), NEW k \in 1 .. Len(edits)
  PROVE  Same(Append(ExactMatches(base, edits, k - 1), ExactMatch(base, edits, k)), ExactMatches(base, edits, k))
  <1> DEFINE f == ExactMatches(base, edits, k - 1)
             g == ExactMatches(base, edits, k)
             m == ExactMatch(base, edits, k)
             h == Append(f, m)
  <1>1. Len(edits) \in Nat /\ k - 1 \in 0 .. Len(edits) /\ k \in 0 .. Len(edits) /\ (k - 1) + 1 = k
    <2>1. Len(edits) \in Nat
      BY LenProperties
    <2> QED BY <2>1
  <1>2. f \in Seq(Matches) /\ Len(f) = k - 1 /\ \A j \in 1 .. k - 1 : f[j] = ExactMatch(base, edits, j)
    BY <1>1, ExactMatchesAre
  <1>3. g \in Seq(Matches) /\ Len(g) = k /\ \A j \in 1 .. k : g[j] = ExactMatch(base, edits, j)
    BY <1>1, ExactMatchesAre
  <1>4. m \in Matches
    BY ExactMatchIs
  <1> HIDE DEF f, g
  <1>5. h \in Seq(Matches) /\ Len(h) = k /\ (\A j \in 1 .. k - 1 : h[j] = f[j]) /\ h[k] = m
    <2> HIDE DEF m
    <2>1. /\ h \in Seq(Matches) /\ Len(h) = Len(f) + 1
          /\ \A j \in 1 .. Len(f) : h[j] = f[j]
          /\ h[Len(f) + 1] = m
      BY <1>2, <1>4, AppendProperties
    <2> HIDE DEF h
    <2> QED BY <2>1, <1>1, <1>2
  <1> HIDE DEF h
  <1>6. \A j \in 1 .. k : h[j] = g[j]
    <2> TAKE j \in 1 .. k
    <2>1. CASE j = k
      BY <2>1, <1>3, <1>5
    <2>2. CASE j # k
      <3>1. j \in 1 .. k - 1
        BY <2>2
      <3> QED BY <3>1, <1>2, <1>3, <1>5
    <2> QED BY <2>1, <2>2
  <1>7. h = g
    BY <1>3, <1>5, <1>6, SeqEqual
  <1> QED BY <1>7 DEF Same, h, f, g

(* All edits are matched where their old texts are.                        *)
LEMMA MatchAllExact ==
  ASSUME NEW base \in AllTexts, NEW edits \in Seq(Changes), AllFound(base, edits),
         MatchAll(base, edits).is = "ok"
  PROVE  MatchAll(base, edits).base = base /\ MatchAll(base, edits).matched = ExactMatches(base, edits, Len(edits))
  <1> DEFINE n == Len(edits)
  <1>1. n \in Nat
    BY LenProperties
  <1>2. PICK f \in [0 .. Len(edits) -> Dones] : MatchUpTo(base, edits, f)
    BY MatchSteps
  <1>3. /\ f[0] = [is |-> "ok", base |-> base, offset |-> 0, matched |-> <<>>]
        /\ \A k \in 1 .. n : f[k] = MatchEdit(base, f[k - 1], edits[k])
        /\ MatchAll(base, edits) = f[n]
    BY <1>2 DEF MatchUpTo
  <1> DEFINE Fine(done, k) == done.is = "ok" => /\ done.base = base /\ done.offset = 0
                                                /\ done.matched = ExactMatches(base, edits, k)
             G == {k \in 0 .. n : Fine(f[k], k)}
  <1> HIDE DEF n
  <1>4. 0 \in G
    <2>1. ExactMatches(base, edits, 0) = <<>>
      <3>1. 0 \in 0 .. Len(edits)
        BY <1>1 DEF n
      <3>2. ExactMatches(base, edits, 0) \in Seq(Matches) /\ Len(ExactMatches(base, edits, 0)) = 0
        BY <3>1, ExactMatchesAre
      <3> HIDE DEF ExactMatches
      <3> QED BY <3>2, EmptySeq
    <2> HIDE DEF ExactMatches
    <2>2. Fine(f[0], 0)
      BY <2>1, <1>3
    <2> QED BY <2>2, <1>1
  <1>5. ASSUME NEW k \in 1 .. n, k - 1 \in G PROVE k \in G
    <2> DEFINE done == f[k - 1]
               edit == edits[k]
               i == FirstAt(base, edits, k)
               span == ExactSpan(base, edit.old, i)
               m == ExactMatch(base, edits, k)
    <2>1. k \in 0 .. n /\ k - 1 \in 0 .. n /\ k \in 1 .. Len(edits)
      BY <1>1 DEF n
    <2>2. f[k] = MatchEdit(base, done, edit) /\ done \in Dones /\ Fine(done, k - 1)
      BY <2>1, <1>2, <1>3, <1>5 DEF n
    <2>3. Finds(base, edit.old) # {}
      BY <2>1 DEF AllFound
    <2>4. m = [at |-> ByteOf(base, i), length |-> Utf8Size(edit.old), new |-> edit.new] /\ ByteOf(base, i) \in Nat
      BY <2>1, ExactMatchIs DEF ExactMatch
    <2>5. Same(Append(ExactMatches(base, edits, k - 1), m), ExactMatches(base, edits, k))
      BY <2>1, OneMoreMatch
    <2>6. Found(base, edit.old) = span /\ IsFound(base, edit.old)
      BY <2>3 DEF Found, IsFound, FirstAt
    <2>7. span.start = ByteOf(base, i) /\ span.length = Utf8Size(edit.old) /\ ~span.fuzzy
      BY DEF ExactSpan, Span
    <2> HIDE DEF done, edit, i, span, m
    <2>8. CASE done.is # "ok"
      <3>1. f[k] = done
        BY <2>2, <2>8 DEF MatchEdit
      <3> QED BY <3>1, <2>1, <2>8
    <2>9. CASE done.is = "ok"
      <3>1. done.base = base /\ done.offset = 0 /\ done.matched = ExactMatches(base, edits, k - 1)
        BY <2>2, <2>9
      <3> DEFINE from == Usize(span.start + done.offset)
                 to == Usize(span.end + done.offset)
      <3>2. f[k] = MatchBetween(done, edit, span, from, to)
        BY <2>2, <2>6, <2>9 DEF MatchEdit, MatchSpan
      <3>3. from = ByteOf(base, i)
        <4>1. span.start + done.offset = ByteOf(base, i)
          BY <3>1, <2>4, <2>7
        <4> QED BY <4>1, <2>4, UsizeIs
      <3> HIDE DEF from, to
      <3>4. f[k] = AddMatch(done, edit, from, span.length)
        BY <3>2, <2>7 DEF MatchBetween
      <3> DEFINE longer == Append(done.matched, m)
      <3>5. f[k] = [done EXCEPT !.is = "error"] \/ f[k] = [done EXCEPT !.matched = longer]
        <4>1. f[k] = [done EXCEPT !.is = "error"]
              \/ f[k] = [done EXCEPT !.matched = Append(@, [at |-> from, length |-> span.length, new |-> edit.new])]
          BY <3>4, Zenon DEF AddMatch
        <4>2. [at |-> from, length |-> span.length, new |-> edit.new] = m
          BY <3>3, <2>4, <2>7
        <4> QED BY <4>1, <4>2, Zenon
      <3>6. longer = ExactMatches(base, edits, k)
        BY <3>1, <2>5 DEF Same
      <3> HIDE DEF longer
      <3>7. Fine(f[k], k)
        <4>1. CASE f[k] = [done EXCEPT !.is = "error"]
          <5>1. f[k].is = "error"
            BY <4>1, <2>2 DEF Dones
          <5> QED BY <5>1
        <4>2. CASE f[k] = [done EXCEPT !.matched = longer]
          <5>1. f[k].matched = longer /\ f[k].base = done.base /\ f[k].offset = done.offset
            BY <4>2, <2>2 DEF Dones
          <5> QED BY <5>1, <3>1, <3>6
        <4> QED BY <4>1, <4>2, <3>5
      <3> QED BY <3>7, <2>1
    <2> QED BY <2>8, <2>9
  <1> HIDE DEF G
  <1>6. \A k \in 0 .. n : k \in G
    BY <1>1, <1>4, <1>5, StepByStep
  <1>7. n \in G
    BY <1>1, <1>6
  <1> QED BY <1>3, <1>7 DEF G, n

-------------------------------------------------------------------------------
(* Applying the matches, from the last to the first.                       *)
LEMMA PartOfPart ==
  ASSUME NEW S, NEW s \in Seq(S), NEW c \in 0 .. Len(s), NEW a \in 1 .. c + 1
  PROVE  Same(Part(Part(s, 1, c), a, c), Part(s, a, c))
  <1> DEFINE front == Part(s, 1, c)
             left == Part(front, a, c)
             right == Part(s, a, c)
  <1>1. Len(s) \in Nat /\ c \in Nat /\ a \in Nat /\ a >= 1 /\ a <= c + 1 /\ c <= Len(s)
    BY LenProperties
  <1>2. front \in Seq(S) /\ Len(front) = c /\ \A i \in 1 .. c : front[i] = s[i]
    <2>1. 1 \in 1 .. Len(s) + 1 /\ c \in 1 - 1 .. Len(s) /\ c - 1 + 1 = c /\ \A i \in 1 .. c : 1 + i - 1 = i
      BY <1>1
    <2>2. /\ Part(s, 1, c) \in Seq(S) /\ Len(Part(s, 1, c)) = c - 1 + 1
          /\ \A i \in 1 .. c - 1 + 1 : Part(s, 1, c)[i] = s[1 + i - 1]
      BY <2>1, PartIs
    <2> QED BY <2>1, <2>2
  <1> HIDE DEF front
  <1>3. left \in Seq(S) /\ Len(left) = c - a + 1 /\ \A i \in 1 .. c - a + 1 : left[i] = front[a + i - 1]
    <2>1. a \in 1 .. Len(front) + 1 /\ c \in a - 1 .. Len(front)
      BY <1>1, <1>2
    <2> QED BY <2>1, <1>2, PartIs
  <1>4. right \in Seq(S) /\ Len(right) = c - a + 1 /\ \A i \in 1 .. c - a + 1 : right[i] = s[a + i - 1]
    <2>1. a \in 1 .. Len(s) + 1 /\ c \in a - 1 .. Len(s)
      BY <1>1
    <2> QED BY <2>1, PartIs
  <1>5. \A i \in 1 .. c - a + 1 : a + i - 1 \in 1 .. c
    BY <1>1
  <1> HIDE DEF left, right
  <1>6. \A i \in 1 .. Len(left) : left[i] = right[i]
    BY <1>2, <1>3, <1>4, <1>5
  <1>7. left = right
    BY <1>3, <1>4, <1>6, SeqEqual
  <1> QED BY <1>7 DEF Same, left, right, front

(* Where two texts begin alike, so do their bytes.                         *)
LEMMA BytesAgree ==
  ASSUME NEW base \in AllTexts, NEW c \in 0 .. Len(base), NEW rest \in AllTexts, NEW i \in 1 .. c + 1
  PROVE  /\ Same(Part(Part(base, 1, c) \o rest, 1, i - 1), Part(base, 1, i - 1))
         /\ ByteOf(Part(base, 1, c) \o rest, i) = ByteOf(base, i)
         /\ Part(base, 1, c) \o rest \in AllTexts
         /\ i \in 1 .. Len(Part(base, 1, c) \o rest) + 1
  <1> DEFINE front == Part(base, 1, c)
             text == front \o rest
  <1>1. Len(base) \in Nat /\ Len(rest) \in Nat /\ base \in Seq(AllChars) /\ rest \in Seq(AllChars) /\ c \in Nat
    BY DEF AllTexts
  <1>2. 1 \in 1 .. Len(base) + 1 /\ c \in 1 - 1 .. Len(base) /\ Len(base) \in c .. Len(base) /\ c - 1 + 1 = c
    BY <1>1
  <1>3. front \in Seq(AllChars) /\ Len(front) = c
    BY <1>1, <1>2, PartIs
  <1>4. text \in Seq(AllChars) /\ Len(text) = c + Len(rest)
    BY <1>1, <1>3, ConcatProperties
  <1>5. Part(base, c + 1, Len(base)) \in Seq(AllChars)
    <2>1. c + 1 \in 1 .. Len(base) + 1 /\ Len(base) \in (c + 1) - 1 .. Len(base)
      BY <1>1
    <2> QED BY <2>1, <1>1, PartIs
  <1>6. Same(Part(base, 1, Len(base)), front \o Part(base, c + 1, Len(base))) /\ Same(Part(base, 1, Len(base)), base)
    BY <1>1, <1>2, Adjacent, WholePart
  <1> HIDE DEF front
  <1>7. i - 1 \in 0 .. Len(front)
    BY <1>1, <1>3
  <1>8. Same(Part(text, 1, i - 1), Part(front, 1, i - 1))
    BY <1>1, <1>3, <1>7, PartOfBoth
  <1>9. Same(Part(front \o Part(base, c + 1, Len(base)), 1, i - 1), Part(front, 1, i - 1))
    BY <1>3, <1>5, <1>7, PartOfBoth
  <1>10. Part(text, 1, i - 1) = Part(base, 1, i - 1)
    BY <1>6, <1>8, <1>9, Zenon DEF Same
  <1> HIDE DEF text
  <1>11. ByteOf(text, i) = ByteOf(base, i)
    BY <1>10, Zenon DEF ByteOf, Part
  <1>12. i \in 1 .. Len(text) + 1
    BY <1>1, <1>4
  <1> QED BY <1>4, <1>10, <1>11, <1>12 DEF Same, text, front, AllTexts

(* The text after the matches behind c.                                    *)
MadeFrom(base, parts, c) == Part(base, 1, c) \o Joined(Part(parts, c + 1, Len(base)))

LEMMA MadeFromIs ==
  ASSUME NEW base \in AllTexts, NEW parts \in Seq(AllTexts), Len(parts) = Len(base), NEW c \in 0 .. Len(base)
  PROVE  Joined(Part(parts, c + 1, Len(base))) \in AllTexts /\ MadeFrom(base, parts, c) \in AllTexts
  <1>1. Len(base) \in Nat /\ c \in Nat /\ base \in Seq(AllChars)
    BY DEF AllTexts
  <1>2. c + 1 \in 1 .. Len(parts) + 1 /\ Len(base) \in (c + 1) - 1 .. Len(parts)
    BY <1>1
  <1>3. Part(parts, c + 1, Len(base)) \in Seq(AllTexts)
    BY <1>2, PartIs
  <1>4. Joined(Part(parts, c + 1, Len(base))) \in AllTexts
    BY <1>3, JoinedIs DEF AllTexts
  <1>5. 1 \in 1 .. c + 1
    BY <1>1
  <1> QED BY <1>4, <1>5, BytesAgree DEF MadeFrom

Applies(m, base, parts, p, q, c) ==
  /\ m.at = ByteOf(base, p) /\ m.at + m.length = ByteOf(base, q) /\ m.new = parts[p]
  /\ \A i \in p + 1 .. q - 1 : parts[i] = <<>>
  /\ AreSingle(parts, base, q, c)

LEMMA ApplyStep ==
  ASSUME NEW base \in AllTexts, NEW parts \in Seq(AllTexts), Len(parts) = Len(base),
         NEW c \in 0 .. Len(base), NEW p \in 1 .. c, NEW q \in p + 1 .. c + 1, NEW m \in Matches,
         Applies(m, base, parts, p, q, c)
  PROVE  Same(ApplyMatch([is |-> "ok", text |-> MadeFrom(base, parts, c)], m),
              [is |-> "ok", text |-> MadeFrom(base, parts, p - 1)])
  <1>0. /\ m.at = ByteOf(base, p) /\ m.at + m.length = ByteOf(base, q) /\ m.new = parts[p]
        /\ (\A i \in p + 1 .. q - 1 : parts[i] = <<>>) /\ AreSingle(parts, base, q, c)
    BY DEF Applies
  <1> DEFINE l == Len(base)
             rest == Joined(Part(parts, c + 1, l))
             text == MadeFrom(base, parts, c)
             front == Part(base, 1, c)
             start == Part(base, 1, p - 1)
             between == Part(base, q, c)
             new == parts[p]
  <1>1. l \in Nat /\ c \in Nat /\ p \in Nat /\ q \in Nat /\ 1 <= p /\ p < q /\ q <= c + 1 /\ c <= l /\ base \in Seq(AllChars)
    BY DEF AllTexts
  <1>2. rest \in AllTexts /\ text \in AllTexts /\ text = front \o rest
    BY MadeFromIs DEF MadeFrom
  <1>3. new \in AllTexts
    <2>1. p \in 1 .. Len(parts)
      BY <1>1
    <2> QED BY <2>1, ElementOfSeq
  <1>4. p \in 1 .. c + 1 /\ q \in 1 .. c + 1
    BY <1>1
  <1>5. ByteOf(text, p) = ByteOf(base, p) /\ p \in 1 .. Len(text) + 1 /\ Same(Part(text, 1, p - 1), start)
    BY <1>2, <1>4, BytesAgree
  <1>6. ByteOf(text, q) = ByteOf(base, q) /\ q \in 1 .. Len(text) + 1
    BY <1>2, <1>4, BytesAgree
  <1>7. /\ start \in AllTexts /\ between \in AllTexts /\ front \in AllTexts /\ Len(front) = c
    <2>1. /\ 1 \in 1 .. Len(base) + 1 /\ p - 1 \in 1 - 1 .. Len(base) /\ c \in 1 - 1 .. Len(base)
          /\ q \in 1 .. Len(base) + 1 /\ c \in q - 1 .. Len(base) /\ c - 1 + 1 = c
      BY <1>1
    <2> QED BY <2>1, <1>1, PartIs DEF AllTexts
  <1>8. Same(Part(text, q, Len(text)), between \o rest)
    <2>1. Same(Part(front \o rest, q, Len(front \o rest)), Part(front, q, Len(front)) \o rest)
      <3>1. q \in 1 .. Len(front) + 1
        BY <1>4, <1>7
      <3> QED BY <3>1, <1>2, <1>7, BehindBoth DEF AllTexts
    <2>2. Same(Part(front, q, c), between)
      BY <1>1, <1>4, PartOfPart
    <2> QED BY <2>1, <2>2, <1>2, <1>7, Zenon DEF Same
  <1>9. AtByte(text, ByteOf(text, p)) = {p} /\ AtByte(text, ByteOf(text, q)) = {q}
    BY <1>2, <1>5, <1>6, OnlyThere
  <1>10. Min({p}) = p /\ Min({q}) = q
    BY <1>1, MinOfOne
  <1> HIDE DEF text, start, between, new, front, rest
  <1>11. Sliceable(text, m.at, m.at + m.length)
    <2>1. m.at \in Int /\ m.length \in Nat
      BY DEF Matches
    <2>2. m.at <= m.at + m.length
      BY <2>1
    <2>3. AtByte(text, m.at) = {p} /\ AtByte(text, m.at + m.length) = {q}
      BY <1>0, <1>5, <1>6, <1>9
    <2> QED BY <2>2, <2>3 DEF Sliceable
  <1>12. Splice(text, m.at, m.at + m.length, m.new) = (start \o new) \o (between \o rest)
    <2>1. AtByte(text, m.at) = {p} /\ AtByte(text, m.at + m.length) = {q} /\ m.new = new
      BY <1>0, <1>5, <1>6, <1>9 DEF new
    <2>2. Splice(text, m.at, m.at + m.length, m.new) = (Part(text, 1, p - 1) \o new) \o Part(text, q, Len(text))
      BY <2>1, <1>10, Zenon DEF Splice, Part
    <2> QED BY <2>2, <1>5, <1>8, Zenon DEF Same
  <1>13. Joined(Part(parts, p, l)) = new \o (between \o rest)
    <2>1. /\ p \in 1 .. Len(parts) + 1 /\ p \in p - 1 .. Len(parts) /\ l \in p .. Len(parts) /\ p \in 1 .. Len(parts)
          /\ p + 1 \in 1 .. Len(parts) + 1 /\ q - 1 \in (p + 1) - 1 .. Len(parts) /\ l \in q - 1 .. Len(parts)
          /\ (q - 1) + 1 = q /\ q \in 1 .. Len(parts) + 1 /\ c \in q - 1 .. Len(parts) /\ l \in c .. Len(parts)
      BY <1>1
    <2> HIDE DEF l
    <2>2. Same(Joined(Part(parts, p, l)), Joined(Part(parts, p, p)) \o Joined(Part(parts, p + 1, l)))
      BY <2>1, JoinedPart DEF AllTexts
    <2>3. Same(Joined(Part(parts, p, p)), new)
      BY <2>1, JoinedOnePart DEF AllTexts, new
    <2>4. Same(Joined(Part(parts, p + 1, l)), Joined(Part(parts, p + 1, q - 1)) \o Joined(Part(parts, (q - 1) + 1, l)))
      BY <2>1, JoinedPart DEF AllTexts
    <2>5. Joined(Part(parts, p + 1, q - 1)) = <<>>
      BY <2>1, <1>0, EmptiesJoined DEF AllTexts
    <2>6. Same(Joined(Part(parts, q, l)), Joined(Part(parts, q, c)) \o Joined(Part(parts, c + 1, l)))
      BY <2>1, JoinedPart DEF AllTexts
    <2>7. Same(Joined(Part(parts, q, c)), between)
      BY <2>1, <1>0, SinglesJoined DEF AllTexts, between
    <2>8. Joined(Part(parts, q, l)) = between \o rest
      BY <2>6, <2>7, Zenon DEF Same, rest
    <2>9. between \o rest \in Seq(AllChars)
      BY <1>2, <1>7, ConcatProperties DEF AllTexts
    <2>10. <<>> \o (between \o rest) = between \o rest
      BY <2>9, ConcatEmptySeq
    <2>11. Joined(Part(parts, p + 1, l)) = <<>> \o (between \o rest)
      BY <2>1, <2>4, <2>5, <2>8, Zenon DEF Same
    <2> QED BY <2>2, <2>3, <2>10, <2>11, Zenon DEF Same
  <1>14. Same((start \o new) \o (between \o rest), start \o (new \o (between \o rest)))
    <2>1. between \o rest \in Seq(AllChars)
      BY <1>2, <1>7, ConcatProperties DEF AllTexts
    <2> QED BY <2>1, <1>3, <1>7, Regrouped DEF AllTexts
  <1>15. MadeFrom(base, parts, p - 1) = start \o (new \o (between \o rest))
    <2>1. (p - 1) + 1 = p
      BY <1>1
    <2> QED BY <2>1, <1>13, Zenon DEF MadeFrom, start, l
  <1>16. Splice(text, m.at, m.at + m.length, m.new) = MadeFrom(base, parts, p - 1)
    BY <1>12, <1>14, <1>15, Zenon DEF Same
  <1> DEFINE done == [is |-> "ok", text |-> text]
  <1>17. done.is = "ok" /\ done.text = text
    OBVIOUS
  <1>18. ApplyMatch(done, m) = [is |-> "ok", text |-> Splice(done.text, m.at, m.at + m.length, m.new)]
    <2> HIDE DEF done
    <2> QED BY <1>11, <1>17, Zenon DEF ApplyMatch
  <1> QED BY <1>16, <1>17, <1>18, Zenon DEF done, text, Same

-------------------------------------------------------------------------------
(* The matches one behind the other, and the parts they make.              *)
StartOf(base, edits, order, k) == FirstAt(base, edits, order[k])
EndOf(base, edits, order, k) == FirstAt(base, edits, order[k]) + Len(edits[order[k]].old)
AtOf(base, edits) == [k \in DOMAIN edits |-> FirstAt(base, edits, k)]
PartsOf(base, edits) == [i \in DOMAIN base |-> Replacement(base, edits, AtOf(base, edits), i)]

Reaches(edits, order) ==
  /\ order \in [1 .. Len(edits) -> 1 .. Len(edits)]
  /\ \A m \in 1 .. Len(edits) : \E k \in 1 .. Len(edits) : order[k] = m
Laid(base, edits, order) ==
  /\ \A k \in 1 .. Len(edits) : /\ StartOf(base, edits, order, k) \in 1 .. Len(base)
                                /\ EndOf(base, edits, order, k) \in StartOf(base, edits, order, k) + 1 .. Len(base) + 1
  /\ \A j, k \in 1 .. Len(edits) : j < k => EndOf(base, edits, order, j) <= StartOf(base, edits, order, k)

LEMMA ExactAreLaid ==
  ASSUME NEW base \in AllTexts, NEW edits \in Seq(Changes), AllFound(base, edits),
         NEW order \in [1 .. Len(edits) -> 1 .. Len(edits)],
         Orders(ExactMatches(base, edits, Len(edits)), order),
         ~Overlap(Sorted(ExactMatches(base, edits, Len(edits))))
  PROVE  Reaches(edits, order) /\ Laid(base, edits, order)
  <1> DEFINE n == Len(edits)
             l == Len(base)
             M == ExactMatches(base, edits, n)
             sorted == Sorted(M)
             Start(k) == StartOf(base, edits, order, k)
             End(k) == EndOf(base, edits, order, k)
  <1>1. n \in Nat /\ l \in Nat /\ n \in 0 .. n
    <2>1. n \in Nat
      BY LenProperties
    <2> QED BY <2>1 DEF AllTexts
  <1>2. Len(M) = n /\ \A k \in 1 .. n : M[k] = ExactMatch(base, edits, k)
    BY <1>1, ExactMatchesAre
  <1>3. /\ Len(sorted) = n /\ \A k \in 1 .. n : sorted[k] = M[order[k]]
        /\ \A m \in 1 .. n : \E k \in 1 .. n : order[k] = m
        /\ \A j, k \in 1 .. n : j < k => M[order[j]].at <= M[order[k]].at
    BY <1>2 DEF Orders
  <1> HIDE DEF M
  <1>4. \A k \in 1 .. n - 1 : ~(sorted[k].at + sorted[k].length > sorted[k + 1].at)
    BY <1>3 DEF Overlap, M
  <1> HIDE DEF sorted
  <1>5. \A k \in 1 .. n : /\ Start(k) \in 1 .. l /\ End(k) \in Start(k) + 1 .. l + 1
                          /\ sorted[k].at = ByteOf(base, Start(k))
                          /\ sorted[k].at + sorted[k].length = ByteOf(base, End(k))
    <2> TAKE k \in 1 .. n
    <2>1. order[k] \in 1 .. Len(edits)
      OBVIOUS
    <2>2. sorted[k] = ExactMatch(base, edits, order[k])
      BY <2>1, <1>2, <1>3
    <2> QED BY <2>1, <2>2, ExactMatchIs DEF StartOf, EndOf
  <1> HIDE DEF n, Start, End
  <1>6. \A j, k \in 1 .. n : j < k => End(j) <= Start(k)
    <2> SUFFICES ASSUME NEW j \in 1 .. n, NEW k \in 1 .. n, j < k PROVE End(j) <= Start(k)
      OBVIOUS
    <2>1. j \in 1 .. n - 1 /\ j + 1 \in 1 .. n /\ (j + 1 = k \/ j + 1 < k)
      BY <1>1
    <2>2. /\ Start(j + 1) \in 1 .. l + 1 /\ End(j) \in 1 .. l + 1 /\ Start(k) \in 1 .. l + 1
      <3>1. Start(j + 1) \in 1 .. l /\ End(j) \in Start(j) + 1 .. l + 1 /\ Start(j) \in 1 .. l /\ Start(k) \in 1 .. l
        BY <2>1, <1>5
      <3> QED BY <3>1, <1>1
    <2>3. ByteOf(base, Start(j + 1)) \in Nat /\ ByteOf(base, End(j)) \in Nat /\ ByteOf(base, Start(k)) \in Nat
      BY <2>2, ByteIs
    <2>4. ByteOf(base, End(j)) <= ByteOf(base, Start(j + 1))
      <3>1. ~(ByteOf(base, End(j)) > ByteOf(base, Start(j + 1)))
        BY <2>1, <1>4, <1>5
      <3> QED BY <3>1, <2>3
    <2>5. ByteOf(base, Start(j + 1)) <= ByteOf(base, Start(k))
      <3>1. CASE j + 1 = k
        BY <3>1, <2>3
      <3>2. CASE j + 1 < k
        <4>1. M[order[j + 1]].at <= M[order[k]].at
          BY <3>2, <2>1, <1>3
        <4>2. sorted[j + 1].at <= sorted[k].at
          BY <4>1, <2>1, <1>3
        <4> QED BY <4>2, <2>1, <1>5
      <3> QED BY <3>1, <3>2, <2>1
    <2>6. ByteOf(base, End(j)) <= ByteOf(base, Start(k))
      BY <2>3, <2>4, <2>5
    <2> QED BY <2>2, <2>6, BytesGrow
  <1> QED BY <1>3, <1>5, <1>6 DEF Reaches, Laid, n, Start, End

LEMMA LaidAreApart ==
  ASSUME NEW base \in AllTexts, NEW edits \in Seq(Changes), NEW order, Reaches(edits, order), Laid(base, edits, order)
  PROVE  /\ AreApart(edits, AtOf(base, edits))
         /\ \A j, k \in 1 .. Len(edits) : j # k => AtOf(base, edits)[j] # AtOf(base, edits)[k]
  <1> DEFINE n == Len(edits)
             at == AtOf(base, edits)
             Start(k) == StartOf(base, edits, order, k)
             End(k) == EndOf(base, edits, order, k)
  <1>1. n \in Nat /\ DOMAIN edits = 1 .. n /\ Len(base) \in Nat
    BY LenProperties DEF AllTexts
  <1>2. \A k \in 1 .. n : Start(k) \in 1 .. Len(base) /\ End(k) \in Start(k) + 1 .. Len(base) + 1
    BY DEF Laid
  <1>3. \A j, k \in 1 .. n : j < k => End(j) <= Start(k)
    BY DEF Laid
  <1>4. \A k \in 1 .. n : at[order[k]] = Start(k) /\ at[order[k]] + Len(edits[order[k]].old) = End(k)
    BY <1>1 DEF AtOf, StartOf, EndOf, Reaches
  <1> HIDE DEF at, Start, End
  <1>5. ASSUME NEW j \in 1 .. n, NEW k \in 1 .. n, j # k
        PROVE  /\ at[j] + Len(edits[j].old) <= at[k] \/ at[k] + Len(edits[k].old) <= at[j]
               /\ at[j] # at[k]
    <2>1. PICK a \in 1 .. n : order[a] = j
      BY DEF Reaches
    <2>2. PICK b \in 1 .. n : order[b] = k
      BY DEF Reaches
    <2>3. /\ at[j] = Start(a) /\ at[j] + Len(edits[j].old) = End(a)
          /\ at[k] = Start(b) /\ at[k] + Len(edits[k].old) = End(b)
      BY <2>1, <2>2, <1>4
    <2>4. a < b \/ b < a
      BY <1>5, <2>1, <2>2
    <2>5. /\ Start(a) \in Int /\ End(a) \in Int /\ Start(a) < End(a)
          /\ Start(b) \in Int /\ End(b) \in Int /\ Start(b) < End(b)
      <3>1. /\ Start(a) \in 1 .. Len(base) /\ End(a) \in Start(a) + 1 .. Len(base) + 1
            /\ Start(b) \in 1 .. Len(base) /\ End(b) \in Start(b) + 1 .. Len(base) + 1
        BY <1>2
      <3> HIDE DEF n
      <3> QED BY <3>1, <1>1
    <2> QED BY <2>3, <2>4, <2>5, <1>3
  <1> QED BY <1>1, <1>5 DEF AreApart, at

LEMMA ReplacedAre ==
  ASSUME NEW base \in AllTexts, NEW edits \in Seq(Changes), AllFound(base, edits),
         NEW order, Reaches(edits, order), Laid(base, edits, order)
  PROVE  /\ PartsOf(base, edits) \in Seq(AllTexts) /\ Len(PartsOf(base, edits)) = Len(base)
         /\ \A k \in 1 .. Len(edits) :
              PartsOf(base, edits)[StartOf(base, edits, order, k)] = edits[order[k]].new
         /\ \A k \in 1 .. Len(edits) :
              \A i \in StartOf(base, edits, order, k) + 1 .. EndOf(base, edits, order, k) - 1 :
                PartsOf(base, edits)[i] = <<>>
         /\ \A i \in 1 .. Len(base) :
              (\A k \in 1 .. Len(edits) : i < StartOf(base, edits, order, k) \/ i >= EndOf(base, edits, order, k))
                => PartsOf(base, edits)[i] = <<base[i]>>
  <1> DEFINE n == Len(edits)
             l == Len(base)
             at == AtOf(base, edits)
             parts == PartsOf(base, edits)
             Start(k) == StartOf(base, edits, order, k)
             End(k) == EndOf(base, edits, order, k)
             Within(k) == at[k] .. (at[k] + Len(edits[k].old) - 1)
  <1>1. n \in Nat /\ DOMAIN edits = 1 .. n /\ l \in Nat /\ DOMAIN base = 1 .. l
    <2>1. n \in Nat /\ DOMAIN edits = 1 .. n
      BY LenProperties
    <2> QED BY <2>1 DEF AllTexts
  <1>2. \A k \in 1 .. n : Start(k) \in 1 .. l /\ End(k) \in Start(k) + 1 .. l + 1
    BY DEF Laid
  <1>3. \A j, k \in 1 .. n : j < k => End(j) <= Start(k)
    BY DEF Laid
  <1>4. \A k \in 1 .. n : at[order[k]] = Start(k) /\ at[order[k]] + Len(edits[order[k]].old) = End(k)
    BY <1>1 DEF AtOf, StartOf, EndOf, Reaches
  <1>5. \A j, k \in 1 .. n : j # k => at[j] # at[k]
    BY LaidAreApart
  <1>6. \A m \in 1 .. n : \E k \in 1 .. n : order[k] = m
    BY DEF Reaches
  <1>14. \A k \in 1 .. n : order[k] \in 1 .. n
    BY DEF Reaches
  <1>7. \A k \in 1 .. n : Within(order[k]) = Start(k) .. End(k) - 1
    <2> TAKE k \in 1 .. n
    <2>1. /\ at[order[k]] = Start(k) /\ at[order[k]] + Len(edits[order[k]].old) = End(k)
          /\ Start(k) \in Int /\ End(k) \in Int
      BY <1>2, <1>4
    <2>2. Len(edits[order[k]].old) \in Nat
      <3>1. order[k] \in 1 .. Len(edits)
        BY <1>14
      <3>2. edits[order[k]].old \in AllTexts
        BY <3>1, ExactMatchIs
      <3> QED BY <3>2 DEF AllTexts
    <2> HIDE DEF at, Start, End
    <2>3. at[order[k]] + Len(edits[order[k]].old) - 1 = End(k) - 1
      BY <2>1, <2>2
    <2> QED BY <2>1, <2>3
  <1>8. \A i \in 1 .. l : parts[i] = IF \E k \in 1 .. n : i = at[k]
                                     THEN edits[CHOOSE k \in 1 .. n : i = at[k]].new
                                     ELSE IF \E k \in 1 .. n : i \in Within(k) THEN <<>> ELSE <<base[i]>>
    <2> TAKE i \in 1 .. l
    <2>1. parts[i] = Replacement(base, edits, at, i)
      BY <1>1 DEF PartsOf
    <2> HIDE DEF at, n
    <2> QED BY <2>1, <1>1, Zenon DEF Replacement
  <1>9. parts = [i \in 1 .. l |-> parts[i]]
    BY <1>1 DEF PartsOf
  <1> HIDE DEF at, parts, Start, End, Within, n
  <1>10. \A k \in 1 .. n : parts[Start(k)] = edits[order[k]].new
    <2> TAKE k \in 1 .. n
    <2>1. order[k] \in 1 .. n /\ Start(k) = at[order[k]] /\ Start(k) \in 1 .. l
      BY <1>2, <1>4, <1>14
    <2>2. \E j \in 1 .. n : Start(k) = at[j]
      BY <2>1
    <2> DEFINE j == CHOOSE m \in 1 .. n : Start(k) = at[m]
    <2>3. j \in 1 .. n /\ Start(k) = at[j]
      BY <2>2, Zenon
    <2>4. j = order[k]
      BY <2>1, <2>3, <1>5
    <2>5. parts[Start(k)] = edits[j].new
      BY <2>1, <2>2, <1>8, Zenon
    <2> QED BY <2>4, <2>5
  <1>11. ASSUME NEW k \in 1 .. n, NEW i \in Start(k) + 1 .. End(k) - 1
         PROVE  parts[i] = <<>>
    <2>1. i \in 1 .. l /\ i \in Start(k) .. End(k) - 1 /\ i # Start(k)
      BY <1>1, <1>2
    <2>2. ~ \E m \in 1 .. n : i = at[m]
      <3> SUFFICES ASSUME NEW m \in 1 .. n, i = at[m] PROVE FALSE
        OBVIOUS
      <3>1. PICK j \in 1 .. n : order[j] = m
        BY <1>6
      <3>2. i = Start(j)
        BY <3>1, <1>4
      <3>3. /\ Start(j) \in Int /\ End(j) \in Int /\ Start(j) < End(j)
            /\ Start(k) \in Int /\ End(k) \in Int /\ Start(k) < i /\ i < End(k)
        BY <1>2, <2>1
      <3>4. j < k \/ j = k \/ k < j
        OBVIOUS
      <3> QED BY <3>2, <3>3, <3>4, <2>1, <1>3
    <2>3. order[k] \in 1 .. n /\ i \in Within(order[k])
      BY <2>1, <1>7, <1>14
    <2> QED BY <2>1, <2>2, <2>3, <1>8
  <1>12. ASSUME NEW i \in 1 .. l, \A k \in 1 .. n : i < Start(k) \/ i >= End(k)
         PROVE  parts[i] = <<base[i]>>
    <2>1. ~ \E m \in 1 .. n : i \in Within(m) \/ i = at[m]
      <3> SUFFICES ASSUME NEW m \in 1 .. n, i \in Within(m) \/ i = at[m] PROVE FALSE
        OBVIOUS
      <3>1. PICK j \in 1 .. n : order[j] = m
        BY <1>6
      <3>2. i \in Start(j) .. End(j) - 1 \/ i = Start(j)
        BY <3>1, <1>4, <1>7
      <3>3. Start(j) \in Int /\ End(j) \in Int /\ Start(j) < End(j)
        BY <1>2
      <3> QED BY <3>2, <3>3, <1>12
    <2> QED BY <2>1, <1>8
  <1>13. parts \in Seq(AllTexts) /\ Len(parts) = l
    <2>1. \A i \in 1 .. l : parts[i] \in AllTexts
      <3> TAKE i \in 1 .. l
      <3>1. CASE \E k \in 1 .. n : i = at[k]
        <4> DEFINE j == CHOOSE k \in 1 .. n : i = at[k]
        <4>1. j \in 1 .. n
          BY <3>1, Zenon
        <4>2. parts[i] = edits[j].new
          BY <3>1, <1>8, Zenon
        <4> HIDE DEF j
        <4>3. edits[j].new \in AllTexts
          BY <4>1, ExactMatchIs DEF n
        <4> QED BY <4>2, <4>3
      <3>2. CASE ~ \E k \in 1 .. n : i = at[k]
        <4>1. parts[i] = <<>> \/ parts[i] = <<base[i]>>
          BY <3>2, <1>8, Zenon
        <4>2. base[i] \in AllChars
          BY DEF AllTexts
        <4>3. <<>> \in AllTexts /\ <<base[i]>> \in AllTexts
          BY <4>2 DEF AllTexts
        <4> QED BY <4>1, <4>3, Zenon
      <3> QED BY <3>1, <3>2
    <2>2. parts \in [1 .. l -> AllTexts]
      BY <2>1, <1>9
    <2> QED BY <2>2, <1>1, FunctionIsSeq
  <1> QED BY <1>10, <1>11, <1>12, <1>13 DEF parts, Start, End, n

(* What is made of the base is the parts joined.                           *)
LEMMA AppliedExact ==
  ASSUME NEW base \in AllTexts, NEW edits \in Seq(Changes), edits # <<>>, AllFound(base, edits),
         NEW order \in [1 .. Len(edits) -> 1 .. Len(edits)],
         Orders(ExactMatches(base, edits, Len(edits)), order),
         ~Overlap(Sorted(ExactMatches(base, edits, Len(edits))))
  PROVE  ApplyMatched(base, Sorted(ExactMatches(base, edits, Len(edits)))).text = Joined(PartsOf(base, edits))
  <1> DEFINE n == Len(edits)
             l == Len(base)
             M == ExactMatches(base, edits, n)
             sorted == Sorted(M)
             parts == PartsOf(base, edits)
             Start(k) == StartOf(base, edits, order, k)
             End(k) == EndOf(base, edits, order, k)
             upTo(m) == IF m = 0 THEN l ELSE Start(n + 1 - m) - 1
             Fine(done, m) == done = [is |-> "ok", text |-> MadeFrom(base, parts, upTo(m))]
  <1>1. n \in Nat /\ n >= 1 /\ l \in Nat /\ n \in 0 .. n
    <2>1. n \in Nat /\ n # 0
      BY EmptySeq
    <2> QED BY <2>1 DEF AllTexts
  <1>2. Reaches(edits, order) /\ Laid(base, edits, order)
    BY ExactAreLaid
  <1>3. \A k \in 1 .. n : Start(k) \in 1 .. l /\ End(k) \in Start(k) + 1 .. l + 1
    BY <1>2 DEF Laid
  <1>4. \A j, k \in 1 .. n : j < k => End(j) <= Start(k)
    BY <1>2 DEF Laid
  <1>5. /\ parts \in Seq(AllTexts) /\ Len(parts) = l
        /\ \A k \in 1 .. n : parts[Start(k)] = edits[order[k]].new
        /\ \A k \in 1 .. n : \A i \in Start(k) + 1 .. End(k) - 1 : parts[i] = <<>>
        /\ \A i \in 1 .. l : (\A k \in 1 .. n : i < Start(k) \/ i >= End(k)) => parts[i] = <<base[i]>>
    BY <1>2, ReplacedAre
  <1>6. /\ sorted \in Seq(Matches) /\ Len(sorted) = n
        /\ \A k \in 1 .. n : sorted[k] = ExactMatch(base, edits, order[k])
    <2>1. Len(M) = n /\ \A k \in 1 .. n : M[k] = ExactMatch(base, edits, k)
      BY <1>1, ExactMatchesAre
    <2>2. /\ sorted \in Seq(Matches) /\ Len(sorted) = n
          /\ \A k \in 1 .. n : sorted[k] = M[order[k]]
      BY <2>1 DEF Orders
    <2>3. \A k \in 1 .. n : order[k] \in 1 .. n
      OBVIOUS
    <2> HIDE DEF M, sorted
    <2> QED BY <2>1, <2>2, <2>3
  <1>7. \A k \in 1 .. n : /\ sorted[k] \in Matches /\ sorted[k].at = ByteOf(base, Start(k))
                          /\ sorted[k].at + sorted[k].length = ByteOf(base, End(k))
                          /\ sorted[k].new = parts[Start(k)]
    <2> TAKE k \in 1 .. n
    <2>1. order[k] \in 1 .. Len(edits)
      OBVIOUS
    <2>2. sorted[k] = ExactMatch(base, edits, order[k]) /\ parts[Start(k)] = edits[order[k]].new
      BY <1>5, <1>6
    <2> HIDE DEF sorted, parts
    <2> QED BY <2>1, <2>2, ExactMatchIs DEF StartOf, EndOf
  <1> HIDE DEF sorted, parts, Start, End, M
  <1>8. PICK f \in [0 .. Len(sorted) -> Applieds] : ApplyUpTo(base, sorted, f)
    BY <1>6, ApplySteps
  <1>9. /\ f[0] = [is |-> "ok", text |-> base]
        /\ \A m \in 1 .. n : f[m] = ApplyMatch(f[m - 1], sorted[n + 1 - m])
        /\ ApplyMatched(base, sorted) = f[n]
    BY <1>6, <1>8 DEF ApplyUpTo
  <1> HIDE DEF n
  <1> DEFINE G == {m \in 0 .. n : Fine(f[m], m)}
  <1>10. 0 \in G
    <2>1. Part(parts, l + 1, l) = <<>>
      BY <1>1, NoPart
    <2>2. Same(Part(base, 1, l), base)
      BY WholePart DEF AllTexts
    <2>3. base \o <<>> = base
      BY ConcatEmptySeq DEF AllTexts
    <2>4. MadeFrom(base, parts, l) = base
      BY <2>1, <2>2, <2>3, JoinedNone, Zenon DEF MadeFrom, Same
    <2> QED BY <2>4, <1>1, <1>9
  <1>11. ASSUME NEW m \in 1 .. n, m - 1 \in G PROVE m \in G
    <2> DEFINE k == n + 1 - m
               c == upTo(m - 1)
               p == Start(k)
               q == End(k)
    <2>1. k \in 1 .. n /\ m \in 0 .. n /\ (m # 1 => k + 1 \in 1 .. n /\ n + 1 - (m - 1) = k + 1) /\ m # 0
      BY <1>1
    <2>2. p \in 1 .. l /\ q \in p + 1 .. l + 1
      BY <2>1, <1>3
    <2>3. c = IF m = 1 THEN l ELSE Start(k + 1) - 1
      <3>1. CASE m = 1
        BY <3>1
      <3>2. CASE m # 1
        <4>1. m - 1 # 0
          BY <3>2, <1>1
        <4> QED BY <3>2, <4>1, <2>1
      <3> QED BY <3>1, <3>2
    <2>4. c \in 0 .. l /\ q <= c + 1
      <3>1. CASE m = 1
        BY <3>1, <2>2, <2>3, <1>1
      <3>2. CASE m # 1
        <4>1. k < k + 1 /\ k + 1 \in 1 .. n
          BY <3>2, <2>1, <1>1
        <4>2. Start(k + 1) \in 1 .. l /\ q <= Start(k + 1)
          BY <4>1, <2>1, <1>3, <1>4
        <4> HIDE DEF c, q
        <4> QED BY <3>2, <4>2, <2>3, <1>1
      <3> QED BY <3>1, <3>2
    <2>5. p \in 1 .. c /\ q \in p + 1 .. c + 1
      <3> HIDE DEF p, q, c
      <3> QED BY <2>2, <2>4, <1>1
    <2>6. ASSUME NEW i \in q .. c PROVE parts[i] = <<base[i]>>
      <3>1. i \in 1 .. l /\ q <= i /\ i <= c
        <4> HIDE DEF p, q, c
        <4> QED BY <2>2, <2>4, <1>1
      <3>2. ASSUME NEW j \in 1 .. n PROVE i < Start(j) \/ i >= End(j)
        <4>1. CASE j = k
          BY <4>1, <3>1
        <4>2. CASE j < k
          <5>1. End(j) <= p /\ p < q
            <6>1. End(j) <= p
              BY <4>2, <2>1, <1>4
            <6> HIDE DEF p, q
            <6> QED BY <6>1, <2>2, <1>1
          <5>2. End(j) \in Start(j) + 1 .. l + 1 /\ Start(j) \in 1 .. l
            BY <1>3
          <5>3. End(j) \in Int
            BY <5>2, <1>1
          <5> HIDE DEF p, q
          <5> QED BY <5>1, <5>3, <3>1, <2>2, <1>1
        <4>3. CASE k < j
          <5>1. m # 1
            BY <4>3, <1>1
          <5>2. k + 1 \in 1 .. n /\ c = Start(k + 1) - 1
            BY <5>1, <2>1, <2>3
          <5>3. Start(k + 1) \in 1 .. l /\ Start(j) \in 1 .. l
            BY <5>2, <1>3
          <5>4. Start(k + 1) <= Start(j)
            <6>1. CASE j = k + 1
              BY <6>1, <5>3
            <6>2. CASE k + 1 < j
              <7>1. End(k + 1) <= Start(j) /\ End(k + 1) \in Start(k + 1) + 1 .. l + 1
                BY <6>2, <5>2, <1>3, <1>4
              <7> HIDE DEF k
              <7> QED BY <7>1, <5>3, <1>1
            <6> QED BY <6>1, <6>2, <4>3, <2>1
          <5> HIDE DEF c, k
          <5> QED BY <5>2, <5>3, <5>4, <3>1
        <4> QED BY <4>1, <4>2, <4>3, <2>1
      <3> QED BY <3>1, <3>2, <1>5
    <2>7. AreSingle(parts, base, q, c)
      BY <2>6 DEF AreSingle
    <2>8. \A i \in p + 1 .. q - 1 : parts[i] = <<>>
      BY <2>1, <1>5
    <2>9. /\ sorted[k] \in Matches /\ sorted[k].at = ByteOf(base, p)
          /\ sorted[k].at + sorted[k].length = ByteOf(base, q) /\ sorted[k].new = parts[p]
      BY <2>1, <1>7
    <2>10. f[m - 1] = [is |-> "ok", text |-> MadeFrom(base, parts, c)]
      BY <1>11
    <2>11. upTo(m) = p - 1
      BY <2>1
    <2> HIDE DEF p, q, c
    <2>12. Applies(sorted[k], base, parts, p, q, c)
      BY <2>7, <2>8, <2>9 DEF Applies
    <2>13. Same(ApplyMatch([is |-> "ok", text |-> MadeFrom(base, parts, c)], sorted[k]),
                [is |-> "ok", text |-> MadeFrom(base, parts, p - 1)])
      BY <2>4, <2>5, <2>9, <2>12, <1>5, ApplyStep
    <2>14. f[m] = ApplyMatch(f[m - 1], sorted[k])
      BY <1>9
    <2> HIDE DEF k, upTo
    <2>15. Fine(f[m], m)
      BY <2>10, <2>11, <2>13, <2>14, Zenon DEF Same
    <2> QED BY <2>15, <2>1
  <1>12. Fine(f[n], n)
    <2> HIDE DEF G
    <2>1. \A m \in 0 .. n : m \in G
      BY <1>1, <1>10, <1>11, StepByStep
    <2> QED BY <2>1, <1>1 DEF G
  <1>13. ApplyMatched(base, sorted).text = MadeFrom(base, parts, Start(1) - 1)
    <2>1. n # 0 /\ n + 1 - n = 1
      BY <1>1
    <2>2. f[n] = [is |-> "ok", text |-> MadeFrom(base, parts, Start(1) - 1)]
      BY <2>1, <1>12, Zenon
    <2> QED BY <2>2, <1>9
  <1>14. MadeFrom(base, parts, Start(1) - 1) = Joined(parts)
    <2> DEFINE s == Start(1) - 1
    <2>1. 1 \in 1 .. n /\ Start(1) \in 1 .. l
      BY <1>1, <1>3
    <2>2. s \in 0 .. l /\ s \in 1 - 1 .. Len(parts) /\ 1 \in 1 .. Len(parts) + 1 /\ l \in s .. Len(parts)
      BY <2>1, <1>1, <1>5
    <2>3. ASSUME NEW i \in 1 .. s PROVE parts[i] = <<base[i]>>
      <3>1. i \in 1 .. l /\ i < Start(1)
        BY <2>1, <1>1
      <3>2. ASSUME NEW k \in 1 .. n PROVE i < Start(k)
        <4>1. CASE k = 1
          BY <4>1, <3>1
        <4>2. CASE k # 1
          <5>1. 1 < k /\ End(1) <= Start(k) /\ End(1) \in Start(1) + 1 .. l + 1 /\ Start(k) \in 1 .. l
            BY <4>2, <2>1, <1>3, <1>4
          <5> HIDE DEF s
          <5> QED BY <5>1, <2>1, <3>1, <1>1
        <4> QED BY <4>1, <4>2
      <3> QED BY <3>1, <3>2, <1>5
    <2> HIDE DEF s
    <2>4. AreSingle(parts, base, 1, s)
      BY <2>3 DEF AreSingle
    <2>5. Same(Joined(Part(parts, 1, s)), Part(base, 1, s))
      BY <2>2, <2>4, <1>5, SinglesJoined DEF AllTexts
    <2>6. Same(Joined(Part(parts, 1, l)), Joined(Part(parts, 1, s)) \o Joined(Part(parts, s + 1, l)))
      BY <2>2, <1>5, JoinedPart DEF AllTexts
    <2>7. Same(Part(parts, 1, l), parts)
      <3>1. Same(Part(parts, 1, Len(parts)), parts)
        BY <1>5, WholePart
      <3> QED BY <3>1, <1>5
    <2>8. MadeFrom(base, parts, s) = Joined(parts)
      BY <2>5, <2>6, <2>7, Zenon DEF Same, MadeFrom
    <2> QED BY <2>8 DEF s
  <1> QED BY <1>13, <1>14 DEF sorted, M, n, parts

-------------------------------------------------------------------------------
(* Line ends.                                                              *)
NormalParts(text) == [i \in DOMAIN text |-> NormalPart(text, i)]

LEMMA NormalPartsAre ==
  ASSUME NEW text \in AllTexts
  PROVE  /\ NormalParts(text) \in Seq(AllTexts) /\ Len(NormalParts(text)) = Len(text)
         /\ \A i \in 1 .. Len(text) : NormalParts(text)[i] = NormalPart(text, i)
         /\ NormalizeNewlines(text) = Joined(NormalParts(text))
  <1>1. Len(text) \in Nat /\ DOMAIN text = 1 .. Len(text) /\ \A i \in 1 .. Len(text) : text[i] \in AllChars
    BY DEF AllTexts
  <1>2. \A i \in 1 .. Len(text) : NormalPart(text, i) \in AllTexts
    <2> TAKE i \in 1 .. Len(text)
    <2>1. "\n" \in AllChars /\ text[i] \in AllChars
      BY <1>1 DEF AllChars
    <2>2. <<>> \in AllTexts /\ <<"\n">> \in AllTexts /\ <<text[i]>> \in AllTexts
      BY <2>1 DEF AllTexts
    <2> QED BY <2>2, Zenon DEF NormalPart
  <1>3. NormalParts(text) \in [1 .. Len(text) -> AllTexts] /\ \A i \in 1 .. Len(text) : NormalParts(text)[i] = NormalPart(text, i)
    BY <1>1, <1>2 DEF NormalParts
  <1>4. NormalParts(text) \in Seq(AllTexts) /\ Len(NormalParts(text)) = Len(text)
    BY <1>1, <1>3, FunctionIsSeq
  <1>5. NormalizeNewlines(text) = Joined(NormalParts(text))
    BY DEF NormalizeNewlines, NormalParts
  <1> QED BY <1>3, <1>4, <1>5

(* A plain text is normal.                                                 *)
LEMMA PlainIsNormal ==
  ASSUME NEW text \in PlainTexts
  PROVE  Same(NormalizeNewlines(text), text)
  <1> DEFINE parts == NormalParts(text)
             l == Len(text)
  <1>1. text \in AllTexts /\ text \in Seq(AllChars)
    BY PlainIsText DEF AllTexts
  <1>2. /\ parts \in Seq(AllTexts) /\ Len(parts) = l /\ \A i \in 1 .. l : parts[i] = NormalPart(text, i)
        /\ NormalizeNewlines(text) = Joined(parts)
    BY <1>1, NormalPartsAre
  <1>3. l \in Nat /\ \A i \in 1 .. l : text[i] # "\r"
    BY DEF PlainTexts, Chars
  <1> HIDE DEF parts
  <1>4. \A i \in 1 .. l : parts[i] = <<text[i]>>
    <2> TAKE i \in 1 .. l
    <2>1. text[i] # "\r"
      BY <1>3
    <2>2. i > 1 => i - 1 \in 1 .. l
      BY <1>3
    <2>3. i > 1 => text[i - 1] # "\r"
      BY <2>2, <1>3
    <2>4. NormalPart(text, i) = <<text[i]>>
      BY <2>1, <2>3, Zenon DEF NormalPart
    <2> QED BY <2>4, <1>2
  <1>5. AreSingle(parts, text, 1, l)
    BY <1>4 DEF AreSingle
  <1>6. 1 \in 1 .. Len(parts) + 1 /\ l \in 1 - 1 .. Len(parts)
    BY <1>2, <1>3
  <1>7. Same(Joined(Part(parts, 1, l)), Part(text, 1, l))
    BY <1>1, <1>2, <1>5, <1>6, SinglesJoined DEF AllTexts
  <1>8. Same(Part(parts, 1, Len(parts)), parts) /\ Same(Part(text, 1, Len(text)), text)
    BY <1>1, <1>2, WholePart
  <1> QED BY <1>2, <1>7, <1>8, Zenon DEF Same

(* What is normal of two texts, when no line end is cut between them.      *)
IsCut(x, y) == x # <<>> /\ y # <<>> /\ x[Len(x)] = "\r" /\ y[1] = "\n"

LEMMA NormalOfBoth ==
  ASSUME NEW x \in AllTexts, NEW y \in AllTexts, ~IsCut(x, y)
  PROVE  Same(NormalizeNewlines(x \o y), NormalizeNewlines(x) \o NormalizeNewlines(y))
  <1> DEFINE z == x \o y
             l == Len(x)
             m == Len(y)
             left == NormalParts(z)
             first == NormalParts(x)
             second == NormalParts(y)
             right == first \o second
  <1>1. l \in Nat /\ m \in Nat /\ x \in Seq(AllChars) /\ y \in Seq(AllChars)
    BY DEF AllTexts
  <1>2. AreBoth(AllChars, x, y, z)
    BY <1>1, BothAre
  <1> HIDE DEF z
  <1>3. z \in AllTexts /\ Len(z) = l + m /\ (\A k \in 1 .. l : z[k] = x[k]) /\ \A k \in 1 .. m : z[l + k] = y[k]
    BY <1>2 DEF AreBoth, AllTexts
  <1>4. /\ left \in Seq(AllTexts) /\ Len(left) = l + m /\ \A i \in 1 .. l + m : left[i] = NormalPart(z, i)
        /\ NormalizeNewlines(z) = Joined(left)
    BY <1>3, NormalPartsAre
  <1>5. /\ first \in Seq(AllTexts) /\ Len(first) = l /\ \A i \in 1 .. l : first[i] = NormalPart(x, i)
        /\ NormalizeNewlines(x) = Joined(first)
    BY NormalPartsAre
  <1>6. /\ second \in Seq(AllTexts) /\ Len(second) = m /\ \A i \in 1 .. m : second[i] = NormalPart(y, i)
        /\ NormalizeNewlines(y) = Joined(second)
    BY NormalPartsAre
  <1> HIDE DEF left, first, second
  <1>7. AreBoth(AllTexts, first, second, right)
    BY <1>5, <1>6, BothAre
  <1> HIDE DEF right
  <1>8. /\ right \in Seq(AllTexts) /\ Len(right) = l + m
        /\ \A k \in 1 .. l : right[k] = first[k]
        /\ \A k \in 1 .. m : right[l + k] = second[k]
    BY <1>5, <1>6, <1>7 DEF AreBoth
  <1>9. (l # 0 => x # <<>>) /\ (m # 0 => y # <<>>)
    BY <1>1, EmptySeq
  <1> HIDE DEF l, m
  <1>10. \A i \in 1 .. l : NormalPart(z, i) = NormalPart(x, i)
    <2> TAKE i \in 1 .. l
    <2>1. z[i] = x[i]
      BY <1>3
    <2>2. i > 1 => i - 1 \in 1 .. l
      BY <1>1
    <2>3. i > 1 => z[i - 1] = x[i - 1]
      BY <2>2, <1>3
    <2> QED BY <2>1, <2>3, Zenon DEF NormalPart
  <1>11. \A j \in 1 .. m : NormalPart(z, l + j) = NormalPart(y, j)
    <2> TAKE j \in 1 .. m
    <2> DEFINE i == l + j
    <2>1. z[i] = y[j]
      BY <1>3
    <2>2. CASE j > 1
      <3>1. j - 1 \in 1 .. m /\ i - 1 = l + (j - 1) /\ i > 1
        BY <2>2, <1>1
      <3>2. z[i - 1] = y[j - 1]
        BY <3>1, <1>3
      <3> HIDE DEF i
      <3>3. NormalPart(z, i) = NormalPart(y, j)
        BY <2>1, <2>2, <3>1, <3>2, Zenon DEF NormalPart
      <3> QED BY <3>3 DEF i
    <2>3. CASE j = 1
      <3>1. ~(y[j] = "\n" /\ j > 1 /\ y[j - 1] = "\r")
        BY <2>3
      <3>2. ~(z[i] = "\n" /\ i > 1 /\ z[i - 1] = "\r")
        <4> SUFFICES ASSUME z[i] = "\n", i > 1, z[i - 1] = "\r" PROVE FALSE
          OBVIOUS
        <4>1. l # 0 /\ m # 0 /\ i - 1 = l /\ l \in 1 .. l
          BY <2>3, <1>1
        <4>2. z[l] = x[l]
          BY <4>1, <1>3
        <4>3. x[l] = "\r" /\ y[1] = "\n"
          BY <4>1, <4>2, <2>1, <2>3
        <4> QED BY <4>1, <4>3, <1>9 DEF IsCut, l
      <3> HIDE DEF i
      <3>3. NormalPart(z, i) = NormalPart(y, j)
        BY <2>1, <3>1, <3>2, Zenon DEF NormalPart
      <3> QED BY <3>3 DEF i
    <2>4. j > 1 \/ j = 1
      OBVIOUS
    <2> QED BY <2>2, <2>3, <2>4
  <1>12. \A i \in 1 .. Len(left) : left[i] = right[i]
    <2> SUFFICES ASSUME NEW i \in 1 .. l + m PROVE left[i] = right[i]
      BY <1>4
    <2>1. CASE i \in 1 .. l
      BY <2>1, <1>4, <1>5, <1>8, <1>10
    <2>2. CASE i \notin 1 .. l
      <3> DEFINE j == i - l
      <3>1. j \in 1 .. m /\ l + j = i
        BY <2>2, <1>1
      <3> HIDE DEF j
      <3>2. right[l + j] = second[j] /\ second[j] = NormalPart(y, j) /\ NormalPart(z, l + j) = NormalPart(y, j)
        BY <3>1, <1>6, <1>8, <1>11
      <3> QED BY <3>1, <3>2, <1>4
    <2> QED BY <2>1, <2>2
  <1>13. left = right
    BY <1>4, <1>8, <1>12, SeqEqual
  <1>14. Same(Joined(first \o second), Joined(first) \o Joined(second))
    BY <1>5, <1>6, JoinedTwo DEF AllTexts
  <1> QED BY <1>4, <1>5, <1>6, <1>13, <1>14, Zenon DEF Same, right, z

(* Texts whose lines all end with both characters stay so when joined.     *)
LEMMA EndsOfBoth ==
  ASSUME NEW x \in AllTexts, NEW y \in AllTexts, LinesEnd(x, TRUE), LinesEnd(y, TRUE)
  PROVE  LinesEnd(x \o y, TRUE) /\ ~IsCut(x, y)
  <1> DEFINE z == x \o y
             l == Len(x)
             m == Len(y)
  <1>1. l \in Nat /\ m \in Nat /\ x \in Seq(AllChars) /\ y \in Seq(AllChars) /\ DOMAIN x = 1 .. l /\ DOMAIN y = 1 .. m
    BY DEF AllTexts
  <1>2. AreBoth(AllChars, x, y, z)
    BY <1>1, BothAre
  <1> HIDE DEF z
  <1>3. /\ z \in Seq(AllChars) /\ Len(z) = l + m
        /\ (\A k \in 1 .. l : z[k] = x[k]) /\ \A k \in 1 .. m : z[l + k] = y[k]
    BY <1>2 DEF AreBoth, AllTexts
  <1>4. DOMAIN z = 1 .. l + m
    BY <1>3
  <1>5. /\ \A i \in 1 .. l : x[i] = "\n" => i > 1 /\ x[i - 1] = "\r"
        /\ \A i \in 1 .. l : x[i] = "\r" => i < l /\ x[i + 1] = "\n"
    BY <1>1 DEF LinesEnd
  <1>6. /\ \A i \in 1 .. m : y[i] = "\n" => i > 1 /\ y[i - 1] = "\r"
        /\ \A i \in 1 .. m : y[i] = "\r" => i < m /\ y[i + 1] = "\n"
    BY <1>1 DEF LinesEnd
  <1>7. ~IsCut(x, y)
    <2> SUFFICES ASSUME x # <<>>, x[l] = "\r" PROVE FALSE
      BY DEF IsCut
    <2>1. l \in 1 .. l
      BY <1>1
    <2> QED BY <2>1, <1>5
  <1> HIDE DEF l, m
  <1>8. ASSUME NEW i \in 1 .. l + m
        PROVE  /\ z[i] = "\n" => i > 1 /\ z[i - 1] = "\r"
               /\ z[i] = "\r" => i < l + m /\ z[i + 1] = "\n"
    <2>1. CASE i \in 1 .. l
      <3>1. z[i] = x[i] /\ i < l + m + 1
        BY <2>1, <1>1, <1>3
      <3>2. i > 1 => z[i - 1] = x[i - 1]
        <4>1. i > 1 => i - 1 \in 1 .. l
          BY <2>1, <1>1
        <4> QED BY <4>1, <1>3
      <3>3. i < l => z[i + 1] = x[i + 1] /\ i < l + m
        <4>1. i < l => i + 1 \in 1 .. l
          BY <2>1, <1>1
        <4> QED BY <4>1, <1>1, <1>3
      <3> QED BY <2>1, <3>1, <3>2, <3>3, <1>5
    <2>2. CASE i \notin 1 .. l
      <3> DEFINE j == i - l
      <3>1. j \in 1 .. m /\ l + j = i
        BY <2>2, <1>1
      <3>2. j > 1 => j - 1 \in 1 .. m /\ l + (j - 1) = i - 1 /\ i > 1
        BY <2>2, <1>1
      <3>3. j < m => j + 1 \in 1 .. m /\ l + (j + 1) = i + 1 /\ i < l + m
        BY <2>2, <1>1
      <3> HIDE DEF j
      <3>4. z[l + j] = y[j]
        BY <3>1, <1>3
      <3>5. z[i] = y[j]
        BY <3>1, <3>4
      <3>6. y[j] = "\n" => i > 1 /\ z[i - 1] = "\r"
        <4> SUFFICES ASSUME y[j] = "\n" PROVE i > 1 /\ z[i - 1] = "\r"
          OBVIOUS
        <4>1. j > 1 /\ y[j - 1] = "\r"
          BY <3>1, <1>6
        <4>2. z[l + (j - 1)] = y[j - 1]
          BY <4>1, <3>2, <1>3
        <4> QED BY <4>1, <4>2, <3>2
      <3>7. y[j] = "\r" => i < l + m /\ z[i + 1] = "\n"
        <4> SUFFICES ASSUME y[j] = "\r" PROVE i < l + m /\ z[i + 1] = "\n"
          OBVIOUS
        <4>1. j < m /\ y[j + 1] = "\n"
          BY <3>1, <1>6
        <4>2. z[l + (j + 1)] = y[j + 1]
          BY <4>1, <3>3, <1>3
        <4> QED BY <4>1, <4>2, <3>3
      <3> QED BY <3>5, <3>6, <3>7
    <2> QED BY <2>1, <2>2
  <1>9. LinesEnd(z, TRUE)
    BY <1>3, <1>4, <1>8 DEF LinesEnd
  <1> QED BY <1>7, <1>9 DEF z

(* A newline is restored, any other character is kept.                     *)
RestoredPart(text, i) == IF text[i] = "\n" THEN <<"\r", "\n">> ELSE <<text[i]>>
RestoredParts(text) == [i \in DOMAIN text |-> RestoredPart(text, i)]

LEMMA RestoredPartsAre ==
  ASSUME NEW text \in AllTexts
  PROVE  /\ RestoredParts(text) \in Seq(AllTexts) /\ Len(RestoredParts(text)) = Len(text)
         /\ \A i \in 1 .. Len(text) : RestoredParts(text)[i] = RestoredPart(text, i)
         /\ RestoreLineEndings(text, TRUE) = Joined(RestoredParts(text))
         /\ RestoreLineEndings(text, FALSE) = text
  <1>1. Len(text) \in Nat /\ DOMAIN text = 1 .. Len(text) /\ \A i \in 1 .. Len(text) : text[i] \in AllChars
    BY DEF AllTexts
  <1>2. \A i \in 1 .. Len(text) : RestoredPart(text, i) \in AllTexts
    <2> TAKE i \in 1 .. Len(text)
    <2>1. "\n" \in AllChars /\ "\r" \in AllChars /\ text[i] \in AllChars
      BY <1>1 DEF AllChars
    <2>2. <<"\r", "\n">> \in AllTexts /\ <<text[i]>> \in AllTexts
      BY <2>1 DEF AllTexts
    <2> QED BY <2>2, Zenon DEF RestoredPart
  <1>3. RestoredParts(text) \in [1 .. Len(text) -> AllTexts] /\ \A i \in 1 .. Len(text) : RestoredParts(text)[i] = RestoredPart(text, i)
    BY <1>1, <1>2 DEF RestoredParts
  <1>4. RestoredParts(text) \in Seq(AllTexts) /\ Len(RestoredParts(text)) = Len(text)
    BY <1>1, <1>3, FunctionIsSeq
  <1>5. RestoreLineEndings(text, TRUE) = Joined(RestoredParts(text)) /\ RestoreLineEndings(text, FALSE) = text
    BY Zenon DEF RestoreLineEndings, RestoredParts, RestoredPart
  <1> QED BY <1>3, <1>4, <1>5

LEMMA RestoredIsText ==
  ASSUME NEW text \in AllTexts, NEW crlf \in BOOLEAN
  PROVE  RestoreLineEndings(text, crlf) \in AllTexts
  <1>1. Joined(RestoredParts(text)) \in AllTexts
    BY RestoredPartsAre, JoinedIs DEF AllTexts
  <1>2. CASE crlf = TRUE
    BY <1>1, <1>2, RestoredPartsAre
  <1>3. CASE crlf = FALSE
    BY <1>3, RestoredPartsAre
  <1> QED BY <1>2, <1>3

LEMMA RestoredPartIs ==
  ASSUME NEW text \in PlainTexts, NEW i \in 1 .. Len(text)
  PROVE  /\ RestoredPart(text, i) \in AllTexts /\ LinesEnd(RestoredPart(text, i), TRUE)
         /\ Same(NormalizeNewlines(RestoredPart(text, i)), <<text[i]>>)
  <1>1. text[i] \in Chars /\ text[i] \in AllChars /\ text[i] # "\r"
    BY DEF PlainTexts, Chars
  <1>2. CASE text[i] = "\n"
    <2> DEFINE end == <<"\r", "\n">>
               parts == NormalParts(end)
    <2>1. RestoredPart(text, i) = end
      BY <1>2 DEF RestoredPart
    <2>2. end \in AllTexts /\ Len(end) = 2 /\ end[1] = "\r" /\ end[2] = "\n"
      BY DEF AllTexts, AllChars
    <2> HIDE DEF end
    <2>3. LinesEnd(end, TRUE)
      <3>1. DOMAIN end = 1 .. 2
        BY <2>2 DEF AllTexts
      <3>2. \A k \in 1 .. 2 : k = 1 \/ k = 2
        OBVIOUS
      <3>3. "\r" # "\n" /\ 2 > 1 /\ 2 - 1 = 1 /\ 1 < 2 /\ 1 + 1 = 2
        OBVIOUS
      <3> QED BY <3>1, <3>2, <3>3, <2>2 DEF LinesEnd
    <2>4. /\ parts \in Seq(AllTexts) /\ Len(parts) = 2
          /\ \A k \in 1 .. 2 : parts[k] = NormalPart(end, k)
          /\ NormalizeNewlines(end) = Joined(parts)
      BY <2>2, NormalPartsAre
    <2> HIDE DEF parts
    <2>5. parts[1] = <<"\n">> /\ parts[2] = <<>>
      <3>1. 1 \in 1 .. 2 /\ 2 \in 1 .. 2 /\ "\r" # "\n" /\ 2 > 1 /\ 2 - 1 = 1
        OBVIOUS
      <3>2. NormalPart(end, 1) = <<"\n">>
        BY <3>1, <2>2 DEF NormalPart
      <3>3. NormalPart(end, 2) = <<>>
        BY <3>1, <2>2 DEF NormalPart
      <3> QED BY <3>1, <3>2, <3>3, <2>4
    <2>6. /\ 1 \in 1 .. Len(parts) + 1 /\ 1 \in 1 - 1 .. Len(parts) /\ 2 \in 1 .. Len(parts)
          /\ 1 \in 1 .. Len(parts) /\ 1 + 1 = 2
      BY <2>4
    <2>7. Same(Joined(Part(parts, 1, 2)), Joined(Part(parts, 1, 1)) \o Joined(Part(parts, 1 + 1, 2)))
      BY <2>4, <2>6, JoinedPart DEF AllTexts
    <2>8. Same(Joined(Part(parts, 1, 1)), parts[1]) /\ Same(Joined(Part(parts, 2, 2)), parts[2])
      BY <2>4, <2>6, JoinedOnePart DEF AllTexts
    <2>9. Same(Part(parts, 1, Len(parts)), parts)
      BY <2>4, WholePart
    <2>10. <<"\n">> \o <<>> = <<"\n">>
      <3>1. <<"\n">> \in Seq({"\n"})
        OBVIOUS
      <3> QED BY <3>1, ConcatEmptySeq
    <2>11. NormalizeNewlines(end) = <<"\n">>
      BY <2>4, <2>5, <2>6, <2>7, <2>8, <2>9, <2>10, Zenon DEF Same
    <2> QED BY <2>1, <2>2, <2>3, <2>11, <1>2 DEF Same
  <1>3. CASE text[i] # "\n"
    <2> DEFINE one == <<text[i]>>
    <2>1. RestoredPart(text, i) = one
      BY <1>3 DEF RestoredPart
    <2>2. one \in PlainTexts /\ one \in AllTexts
      BY <1>1 DEF PlainTexts, AllTexts
    <2>3. LinesEnd(one, TRUE)
      <3>1. \A k \in DOMAIN one : one[k] = text[i]
        OBVIOUS
      <3> HIDE DEF one
      <3> QED BY <3>1, <1>1, <1>3 DEF LinesEnd
    <2> HIDE DEF one
    <2>4. Same(NormalizeNewlines(one), one)
      BY <2>2, PlainIsNormal
    <2> QED BY <2>1, <2>2, <2>3, <2>4 DEF one
  <1> QED BY <1>2, <1>3

(* The line ends restored, which are normal again what they were.          *)
LEMMA RestoredReads ==
  ASSUME NEW text \in PlainTexts, NEW crlf \in BOOLEAN
  PROVE  /\ RestoreLineEndings(text, crlf) \in AllTexts
         /\ LinesEnd(RestoreLineEndings(text, crlf), crlf)
         /\ Same(NormalizeNewlines(RestoreLineEndings(text, crlf)), text)
  <1>1. text \in AllTexts
    BY PlainIsText
  <1>2. RestoreLineEndings(text, crlf) \in AllTexts
    BY <1>1, RestoredIsText
  <1>3. CASE crlf = FALSE
    <2>1. RestoreLineEndings(text, crlf) = text
      BY <1>1, <1>3, RestoredPartsAre
    <2>2. LinesEnd(text, FALSE)
      BY DEF LinesEnd, PlainTexts, Chars
    <2> QED BY <2>1, <2>2, <1>2, <1>3, PlainIsNormal
  <1>4. CASE crlf = TRUE
    <2> DEFINE parts == RestoredParts(text)
               l == Len(text)
    <2>1. /\ parts \in Seq(AllTexts) /\ Len(parts) = l
          /\ \A i \in 1 .. l : parts[i] = RestoredPart(text, i)
          /\ RestoreLineEndings(text, TRUE) = Joined(parts)
      BY <1>1, RestoredPartsAre
    <2>2. l \in Nat /\ text \in Seq(AllChars)
      BY <1>1 DEF AllTexts
    <2> HIDE DEF parts
    <2>3. PICK f \in [0 .. Len(parts) -> Seq(AllChars)] : JoinedUpTo(parts, f)
      BY <2>1, JoinedSteps DEF AllTexts
    <2>4. /\ f[0] = <<>> /\ (\A k \in 1 .. l : f[k] = f[k - 1] \o parts[k]) /\ Joined(parts) = f[l]
          /\ f \in [0 .. l -> AllTexts]
      BY <2>1, <2>3 DEF JoinedUpTo, AllTexts
    <2> HIDE DEF l
    <2> DEFINE G == {k \in 0 .. l : LinesEnd(f[k], TRUE) /\ Same(NormalizeNewlines(f[k]), Part(text, 1, k))}
    <2>5. 0 \in G
      <3>1. LinesEnd(<<>>, TRUE)
        BY DEF LinesEnd
      <3>2. Same(NormalizeNewlines(<<>>), <<>>)
        <4>1. <<>> \in PlainTexts
          BY DEF PlainTexts
        <4> QED BY <4>1, PlainIsNormal
      <3>3. Part(text, 1, 0) = <<>>
        BY NoPart
      <3>4. LinesEnd(f[0], TRUE) /\ Same(NormalizeNewlines(f[0]), Part(text, 1, 0))
        BY <3>1, <3>2, <3>3, <2>4, Zenon
      <3>5. 0 \in 0 .. l
        BY <2>2 DEF l
      <3> QED BY <3>4, <3>5 DEF G
    <2>6. ASSUME NEW k \in 1 .. l, k - 1 \in G PROVE k \in G
      <3> DEFINE x == f[k - 1]
                 y == RestoredPart(text, k)
      <3>1. k - 1 \in 0 .. l /\ k \in 0 .. l /\ k \in 1 .. Len(text) /\ (k - 1) + 1 = k
        BY <2>2 DEF l
      <3>2. x \in AllTexts /\ LinesEnd(x, TRUE) /\ Same(NormalizeNewlines(x), Part(text, 1, k - 1)) /\ f[k] = x \o y
        BY <3>1, <2>1, <2>4, <2>6
      <3>3. y \in AllTexts /\ LinesEnd(y, TRUE) /\ Same(NormalizeNewlines(y), <<text[k]>>)
        BY <3>1, RestoredPartIs
      <3> HIDE DEF x, y
      <3>4. LinesEnd(x \o y, TRUE) /\ ~IsCut(x, y)
        BY <3>2, <3>3, EndsOfBoth
      <3>5. Same(NormalizeNewlines(x \o y), NormalizeNewlines(x) \o NormalizeNewlines(y))
        BY <3>2, <3>3, <3>4, NormalOfBoth
      <3>6. Same(Part(text, 1, k), Part(text, 1, k - 1) \o Part(text, (k - 1) + 1, k))
        <4>1. 1 \in 1 .. Len(text) + 1 /\ k - 1 \in 1 - 1 .. Len(text) /\ k \in k - 1 .. Len(text)
          BY <3>1, <2>2 DEF l
        <4> QED BY <4>1, <2>2, Adjacent
      <3>7. Same(Part(text, k, k), <<text[k]>>)
        BY <3>1, <2>2, OnePart
      <3>8. NormalizeNewlines(f[k]) = Part(text, 1, k)
        BY <3>1, <3>2, <3>3, <3>5, <3>6, <3>7, Zenon DEF Same
      <3> QED BY <3>1, <3>2, <3>4, <3>8 DEF Same
    <2> HIDE DEF G
    <2>7. \A k \in 0 .. l : k \in G
      BY <2>2, <2>5, <2>6, StepByStep
    <2>8. LinesEnd(f[l], TRUE) /\ Same(NormalizeNewlines(f[l]), Part(text, 1, l))
      BY <2>2, <2>7 DEF G
    <2>9. Same(Part(text, 1, l), text)
      BY <2>2, WholePart DEF l
    <2>10. RestoreLineEndings(text, crlf) = f[l]
      BY <2>1, <2>4, <1>4
    <2> QED BY <2>8, <2>9, <2>10, <1>2, <1>4 DEF Same
  <1> QED BY <1>3, <1>4

-------------------------------------------------------------------------------
(* An edit that is applied.                                                *)

(* What is put into a text without returns has none either.                *)
LEMMA MadeIsPlain ==
  ASSUME NEW base \in PlainTexts, NEW edits \in Seq(Changes),
         \A k \in 1 .. Len(edits) : edits[k].new \in PlainTexts
  PROVE  Joined(PartsOf(base, edits)) \in PlainTexts
  <1> DEFINE parts == PartsOf(base, edits)
             at == AtOf(base, edits)
             l == Len(base)
  <1>1. l \in Nat /\ DOMAIN base = 1 .. l /\ \A i \in 1 .. l : base[i] \in Chars
    BY DEF PlainTexts
  <1>2. DOMAIN edits = 1 .. Len(edits)
    BY LenProperties
  <1>3. \A i \in 1 .. l : Replacement(base, edits, at, i) \in PlainTexts
    <2> TAKE i \in 1 .. l
    <2> DEFINE x == Replacement(base, edits, at, i)
    <2> HIDE DEF at
    <2>1. CASE \E k \in DOMAIN edits : i = at[k]
      <3> DEFINE j == CHOOSE k \in DOMAIN edits : i = at[k]
      <3>1. j \in DOMAIN edits
        BY <2>1, Zenon
      <3>2. x = edits[j].new
        BY <2>1, Zenon DEF Replacement
      <3> HIDE DEF j, x
      <3> QED BY <3>1, <3>2, <1>2 DEF x
    <2>2. CASE ~ \E k \in DOMAIN edits : i = at[k]
      <3>1. x = <<>> \/ x = <<base[i]>>
        BY <2>2, Zenon DEF Replacement
      <3>2. <<>> \in PlainTexts /\ <<base[i]>> \in PlainTexts
        BY <1>1 DEF PlainTexts
      <3> QED BY <3>1, <3>2, Zenon
    <2> QED BY <2>1, <2>2
  <1>4. parts = [i \in DOMAIN base |-> Replacement(base, edits, at, i)]
    BY DEF PartsOf
  <1> HIDE DEF parts, at, l
  <1>5. parts \in [1 .. l -> PlainTexts]
    BY <1>1, <1>3, <1>4
  <1>6. parts \in Seq(PlainTexts)
    BY <1>1, <1>5, FunctionIsSeq
  <1>7. Joined(parts) \in PlainTexts
    BY <1>6, JoinedIs DEF PlainTexts
  <1> QED BY <1>7 DEF parts

(* Edits that are applied to a text that holds their old texts are applied *)
(* where they are and nowhere else.                                        *)
LEMMA AppliedRewrites ==
  ASSUME NEW base \in PlainTexts, NEW edits \in Seq(Changes), edits # <<>>,
         \A k \in 1 .. Len(edits) : edits[k].new \in PlainTexts /\ Finds(base, edits[k].old) # {},
         ApplyPlain(base, edits).is = "ok"
  PROVE  ApplyPlain(base, edits).text \in PlainTexts /\ Rewrites(base, ApplyPlain(base, edits).text, edits)
  <1> DEFINE n == Len(edits)
             matched == ExactMatches(base, edits, n)
             sorted == Sorted(matched)
             done == MatchAll(base, edits)
             at == AtOf(base, edits)
             applied == ApplyPlain(base, edits)
  <1>1. n \in Nat /\ DOMAIN edits = 1 .. n /\ base \in AllTexts
    BY LenProperties, PlainIsText
  <1>2. \A content, is : NotApplied(content, is).is = is
    BY DEF NotApplied
  <1>3. ~ \E k \in DOMAIN edits : edits[k].old = <<>>
    BY <1>2 DEF ApplyPlain
  <1>4. AllFound(base, edits)
    BY <1>1, <1>3 DEF AllFound
  <1>5. applied = ApplyDone(base, done)
    BY <1>3 DEF ApplyPlain
  <1> HIDE DEF applied
  <1>6. applied.is = "ok"
    BY DEF applied
  <1>7. done.is = "ok"
    BY <1>2, <1>5, <1>6 DEF ApplyDone
  <1>8. done.base = base /\ done.matched = matched
    BY <1>1, <1>4, <1>7, MatchAllExact
  <1>9. applied = ApplySorted(base, base, sorted)
    BY <1>5, <1>7, <1>8 DEF ApplyDone
  <1>10. ~Overlap(sorted) /\ applied = ApplyMatched(base, sorted)
    BY <1>2, <1>6, <1>9 DEF ApplySorted
  <1>11. matched \in Seq(Matches) /\ Len(matched) = n
    <2>1. n \in 0 .. Len(edits)
      BY <1>1
    <2> QED BY <1>1, <1>4, <2>1, ExactMatchesAre
  <1>12. PICK order \in [1 .. n -> 1 .. n] : Orders(matched, order)
    <2> HIDE DEF matched, n
    <2>1. \E order \in [1 .. Len(matched) -> 1 .. Len(matched)] : Orders(matched, order)
      BY <1>11, SortedIs
    <2> QED BY <1>11, <2>1
  <1>13. Reaches(edits, order) /\ Laid(base, edits, order)
    BY <1>1, <1>4, <1>10, <1>12, ExactAreLaid
  <1>14. AreApart(edits, at)
    BY <1>1, <1>13, LaidAreApart
  <1>15. applied.text = Joined(PartsOf(base, edits))
    <2>1. ApplyMatched(base, sorted).text = Joined(PartsOf(base, edits))
      BY <1>1, <1>4, <1>10, <1>12, AppliedExact
    <2> QED BY <2>1, <1>10
  <1>16. applied.text \in PlainTexts
    BY <1>15, MadeIsPlain
  <1>17. \A k \in 1 .. n : /\ FirstAt(base, edits, k) \in Finds(base, edits[k].old)
                           /\ FirstAt(base, edits, k) \in 1 .. Len(base)
    BY <1>1, <1>4, ExactMatchIs
  <1>18. at \in [DOMAIN edits -> DOMAIN base] /\ \A k \in DOMAIN edits : at[k] \in Finds(base, edits[k].old)
    <2>1. DOMAIN base = 1 .. Len(base)
      BY LenProperties DEF PlainTexts
    <2> QED BY <1>1, <1>17, <2>1 DEF AtOf
  <1> HIDE DEF at, n, matched, sorted, done
  <1>19. applied.text = Joined([i \in DOMAIN base |-> Replacement(base, edits, at, i)])
    BY <1>15 DEF PartsOf, at
  <1>20. Rewrites(base, applied.text, edits)
    BY <1>14, <1>18, <1>19 DEF Rewrites
  <1> QED BY <1>16, <1>20 DEF applied

LEMMA MarkIs ==
  ASSUME NEW text \in AllTexts
  PROVE  /\ StripBom(text) \in AllTexts /\ Mark(text) \in AllTexts
         /\ (IF StripBom(text) = text THEN <<>> ELSE <<Bom>>) = Mark(text)
  <1>1. text \in Seq(AllChars) /\ Bom \in AllChars
    BY DEF AllTexts, AllChars
  <1>2. <<>> \in AllTexts /\ <<Bom>> \in AllTexts
    BY <1>1 DEF AllTexts
  <1>3. CASE HasBom(text)
    <2>1. text # <<>> /\ StripBom(text) = Tail(text) /\ Mark(text) = <<Bom>>
      BY <1>3 DEF HasBom, StripBom, Mark
    <2>2. Tail(text) \in Seq(AllChars) /\ Len(Tail(text)) = Len(text) - 1 /\ Len(text) \in Nat
      BY <2>1, <1>1
    <2>3. Tail(text) # text
      <3> SUFFICES ASSUME Tail(text) = text PROVE FALSE
        OBVIOUS
      <3>1. Len(Tail(text)) = Len(text)
        BY Zenon
      <3> QED BY <3>1, <2>2
    <2> QED BY <2>1, <2>2, <2>3, <1>2 DEF AllTexts
  <1>4. CASE ~HasBom(text)
    BY <1>2, <1>4 DEF StripBom, Mark
  <1> QED BY <1>3, <1>4

(* What an edit makes of the file.                                         *)
BaseOf(before) == NormalizeNewlines(StripBom(before))
Edited(before, edits) ==
  Mark(before) \o RestoreLineEndings(ApplyEdits(BaseOf(before), edits).text, UsesCrlf(StripBom(before)))

LEMMA EditedIs ==
  ASSUME NEW before \in AllTexts, NEW edits \in Seq(Changes)
  PROVE  Edited(before, edits) \in AllTexts
  <1>1. StripBom(before) \in AllTexts /\ Mark(before) \in AllTexts
    BY MarkIs
  <1>2. BaseOf(before) \in AllTexts
    BY <1>1, NormalIsPlain, PlainIsText DEF BaseOf
  <1>3. ApplyEdits(BaseOf(before), edits).text \in AllTexts
    BY <1>2, ApplyEditsIs
  <1>4. UsesCrlf(StripBom(before)) \in BOOLEAN
    BY DEF UsesCrlf
  <1>5. RestoreLineEndings(ApplyEdits(BaseOf(before), edits).text, UsesCrlf(StripBom(before))) \in AllTexts
    BY <1>3, <1>4, RestoredIsText
  <1> QED BY <1>1, <1>5 DEF Edited, AllTexts

(* An edit whose old texts are all in the file is exact.                   *)
LEMMA EditIsExact ==
  ASSUME NEW before \in AllTexts, NEW edits \in Seq(Changes), edits # <<>>,
         ApplyEdits(BaseOf(before), edits).is = "ok",
         \A k \in DOMAIN edits : Finds(BaseOf(before), NormalizeNewlines(edits[k].old)) # {}
  PROVE  EditedTo(Edited(before, edits), before, edits)
  <1> DEFINE base == BaseOf(before)
             changes == NormalEdits(edits)
             applied == ApplyEdits(base, edits)
             mark == Mark(before)
             crlf == UsesCrlf(StripBom(before))
             restored == RestoreLineEndings(applied.text, crlf)
             after == Edited(before, edits)
             body == SubSeq(after, 1 + Len(mark), Len(after))
  <1>1. mark \in AllTexts /\ base \in PlainTexts /\ crlf \in BOOLEAN
    <2>1. StripBom(before) \in AllTexts /\ mark \in AllTexts
      BY MarkIs
    <2> QED BY <2>1, NormalIsPlain DEF BaseOf, UsesCrlf
  <1>2. changes \in Seq(Changes) /\ Len(changes) = Len(edits)
    BY NormalEditsAre
  <1>3. Len(edits) \in Nat /\ DOMAIN edits = 1 .. Len(edits) /\ Len(edits) # 0
    BY LenProperties, EmptySeq
  <1>4. changes # <<>>
    <2>1. Len(<<>>) = 0
      OBVIOUS
    <2> HIDE DEF changes
    <2> QED BY <2>1, <1>2, <1>3
  <1>5. \A k \in 1 .. Len(changes) : changes[k].new \in PlainTexts /\ Finds(base, changes[k].old) # {}
    <2> TAKE k \in 1 .. Len(changes)
    <2>1. k \in DOMAIN edits
      BY <1>2, <1>3
    <2>2. edits[k].new \in AllTexts
      <3>1. edits[k] \in Changes
        BY <2>1, <1>3, ElementOfSeq
      <3> QED BY <3>1 DEF Changes
    <2>3. changes[k].old = NormalizeNewlines(edits[k].old) /\ changes[k].new = NormalizeNewlines(edits[k].new)
      BY <2>1 DEF NormalEdits
    <2>4. NormalizeNewlines(edits[k].new) \in PlainTexts
      BY <2>2, NormalIsPlain
    <2>5. Finds(base, NormalizeNewlines(edits[k].old)) # {}
      BY <2>1
    <2> QED BY <2>3, <2>4, <2>5
  <1>6. applied = ApplyPlain(base, changes)
    BY DEF ApplyEdits
  <1> HIDE DEF changes, base
  <1>7. applied.text \in PlainTexts /\ Rewrites(base, applied.text, changes)
    <2>1. ApplyPlain(base, changes).is = "ok"
      BY <1>6 DEF base
    <2>2. /\ ApplyPlain(base, changes).text \in PlainTexts
          /\ Rewrites(base, ApplyPlain(base, changes).text, changes)
      BY <2>1, <1>1, <1>2, <1>4, <1>5, AppliedRewrites
    <2> QED BY <2>2, <1>6
  <1> HIDE DEF applied, crlf
  <1>8. /\ restored \in AllTexts /\ LinesEnd(restored, crlf)
        /\ Same(NormalizeNewlines(restored), applied.text)
    BY <1>1, <1>7, RestoredReads
  <1>9. after = mark \o restored
    BY DEF Edited, applied, crlf, base
  <1> HIDE DEF restored, mark, after
  <1>10. Same(body, restored)
    <2>1. mark \in Seq(AllChars) /\ restored \in Seq(AllChars) /\ Len(mark) \in Nat
      BY <1>1, <1>8 DEF AllTexts
    <2>2. Len(mark) + 1 \in 1 .. Len(mark) + 1 /\ 1 + Len(mark) = Len(mark) + 1 /\ Len(mark) < Len(mark) + 1
      BY <2>1
    <2>3. Same(Part(mark \o restored, Len(mark) + 1, Len(mark \o restored)),
               Part(mark, Len(mark) + 1, Len(mark)) \o restored)
      BY <2>1, <2>2, BehindBoth
    <2>4. Part(mark, Len(mark) + 1, Len(mark)) = <<>>
      <3>1. Len(mark) + 1 \in Int /\ Len(mark) \in Int
        BY <2>1
      <3> QED BY <3>1, <2>2, NoPart
    <2>5. <<>> \o restored = restored
      BY <2>1, ConcatEmptySeq
    <2>6. Part(after, Len(mark) + 1, Len(after)) = restored
      BY <2>3, <2>4, <2>5, <1>9, Zenon DEF Same
    <2>7. body = Part(after, Len(mark) + 1, Len(after))
      BY <2>2 DEF Part
    <2> QED BY <2>6, <2>7, Zenon DEF Same
  <1>11. body = restored
    BY <1>10 DEF Same
  <1>12. /\ after = mark \o body
         /\ Rewrites(base, NormalizeNewlines(body), changes)
         /\ LinesEnd(body, crlf)
    <2> HIDE DEF body
    <2>1. NormalizeNewlines(body) = applied.text
      BY <1>8, <1>11, Zenon DEF Same
    <2> QED BY <2>1, <1>7, <1>8, <1>9, <1>11, Zenon
  <1> QED BY <1>12, Zenon DEF EditedTo, mark, crlf, changes, base, after, BaseOf

-------------------------------------------------------------------------------
(* The invariant: who follows the notices is at a file that is there, and  *)
(* was shown of it what the notices left behind.                           *)
FileContents == AllTexts \cup {NoSuchFile, Picture, Binary}
LinesIn(text) == Len(LinesOf(NormalizeNewlines(text)))
IsReading(p, fs) == p.path \in Paths /\ fs[p.path] \in AllTexts /\ Tiles(p, LinesIn(fs[p.path]))

FileInv ==
  /\ files \in [Paths -> FileContents]
  /\ paging = NotReading \/ IsReading(paging, files)
  /\ EditsAreExact

LEMMA InputsAre ==
  /\ \A content \in Contents : content \in FileContents
  /\ \A input \in EditInputs : ParsedEdits(input) \in Seq(Changes)
  <1>1. STRING \subseteq AllChars
    BY DEF AllChars
  <1>2. Seq(STRING) \subseteq AllTexts
    BY <1>1, SeqMonotonic DEF AllTexts
  <1>3. [old : Seq(STRING), new : Seq(STRING)] \subseteq Changes
    <2> DEFINE texts == Seq(STRING)
    <2>1. texts \subseteq AllTexts
      BY <1>2
    <2> HIDE DEF texts
    <2>2. [old : texts, new : texts] \subseteq Changes
      BY <2>1 DEF Changes
    <2> QED BY <2>2 DEF texts
  <1>4. \A edits : AreEdits(edits) => edits \in Seq(Changes)
    <2>1. Seq([old : Seq(STRING), new : Seq(STRING)]) \subseteq Seq(Changes)
      BY <1>3, SeqMonotonic
    <2> QED BY <2>1, Zenon DEF AreEdits
  <1>5. \A content \in Contents : content \in FileContents
    BY <1>2, FileConstants, Zenon DEF FileConstants, FileContents
  <1>6. \A input \in EditInputs : input.edits \in Seq(Changes) /\ input.legacy \in Seq(Changes)
    BY <1>4, FileConstants, Zenon DEF FileConstants
  <1>7. \A input \in EditInputs : ParsedEdits(input) \in Seq(Changes)
    BY <1>6 DEF ParsedEdits
  <1> QED BY <1>5, <1>7

LEMMA TextIs ==
  ASSUME NEW content \in FileContents, IsText(content)
  PROVE  content \in AllTexts
  BY DEF FileContents, IsText

LEMMA LinesInAre ==
  ASSUME NEW text \in AllTexts
  PROVE  /\ LinesOf(NormalizeNewlines(text)) \in Seq(AllTexts)
         /\ LinesIn(text) \in Nat /\ LinesIn(text) >= 1
  <1>1. NormalizeNewlines(text) \in AllTexts
    BY NormalIsPlain, PlainIsText
  <1> QED BY <1>1, LinesAre DEF LinesIn

(* A call that is no edit leaves no edit to be judged.                     *)
LEMMA NoEditIs ==
  ASSUME NEW is, lastCall' = NoEdit(is)
  PROVE  EditsAreExact'
  <1>1. lastCall'.edits = <<>>
    BY DEF NoEdit
  <1> QED BY <1>1 DEF EditsAreExact

LEMMA EndCallKeeps ==
  ASSUME FileInv, NEW is, EndCall(NoEdit(is))
  PROVE  FileInv'
  <1>1. EditsAreExact'
    BY NoEditIs DEF EndCall
  <1>2. UNCHANGED <<files, paging>>
    BY DEF EndCall
  <1> QED BY <1>1, <1>2 DEF FileInv

LEMMA StoreKeeps ==
  ASSUME FileInv, NEW path \in Paths, NEW content \in FileContents, NEW call, Store(path, content, call),
         EditsAreExact'
  PROVE  FileInv'
  <1>1. files' = [files EXCEPT ![path] = content] /\ files \in [Paths -> FileContents]
    BY DEF Store, FileInv
  <1>2. files' \in [Paths -> FileContents]
    BY <1>1
  <1>3. paging' = IF paging.path = path THEN NotReading ELSE paging
    BY DEF Store
  <1>4. paging' = NotReading \/ IsReading(paging', files')
    <2>1. CASE paging.path = path
      BY <1>3, <2>1
    <2>2. CASE paging.path # path /\ paging # NotReading
      <3>1. paging' = paging
        BY <1>3, <2>2
      <3>2. IsReading(paging, files)
        BY <2>2 DEF FileInv
      <3>3. files'[paging.path] = files[paging.path]
        BY <1>1, <2>2, <3>2 DEF IsReading
      <3> QED BY <3>1, <3>2, <3>3 DEF IsReading
    <2>3. CASE paging.path # path /\ paging = NotReading
      BY <1>3, <2>3
    <2> QED BY <2>1, <2>2, <2>3
  <1> QED BY <1>2, <1>4 DEF FileInv

LEMMA AfterIs ==
  ASSUME NEW p, NEW total, Tiles(p, total), NEW r, NEW start
  PROVE  After(p, r, start).path = p.path
  <1> DEFINE next == r.next
             shown == p.shown \o [k \in 1 .. r.shown |-> start + k]
             long == p.long \cup IF r.long THEN {start + 1} ELSE {}
             behind == p.behind \cup IF r.long THEN (start + 2) .. (r.next - 1) ELSE {}
  <1>1. p \in Pagings({p.path}, 0 .. total, Seq(Nat), SUBSET Nat, SUBSET Nat)
    BY DEF Tiles, Pagings
  <1>2. After(p, r, start) = PagingWith(p, next, shown, long, behind)
    BY DEF After, PagingWith
  <1> HIDE DEF next, shown, long, behind
  <1>3. IsPaging(PagingWith(p, next, shown, long, behind), p.path, next, shown, long, behind)
    BY <1>1, PagingIs
  <1> QED BY <1>2, <1>3 DEF IsPaging

(* Who reads goes on behind what was shown, at the file they are at or at  *)
(* the beginning of another.                                               *)
LEMMA ReadKeeps ==
  ASSUME FileInv, NEW path \in Paths, NEW limit \in Limits \cup {NoLimit}, Read(path, limit)
  PROVE  FileInv'
  <1> DEFINE text == files[path]
             p == IF paging.path = path THEN paging ELSE Reading(path)
             start == IF paging.path = path THEN paging.next - 1 ELSE 0
             lines == LinesOf(NormalizeNewlines(text))
             r == ReadResult(lines, start, limit)
             total == LinesIn(text)
  <1>1. CASE path \in Guarded \/ files[path] \in {NoSuchFile, Binary}
    <2>1. EndCall(NoEdit("error"))
      BY <1>1 DEF Read
    <2> QED BY <2>1, EndCallKeeps
  <1>2. CASE /\ ~(path \in Guarded \/ files[path] \in {NoSuchFile, Binary})
             /\ ~IsText(files[path]) \/ path \in ImagePaths
    <2>1. EndCall(NoEdit("ok"))
      BY <1>2 DEF Read
    <2> QED BY <2>1, EndCallKeeps
  <1>3. CASE /\ ~(path \in Guarded \/ files[path] \in {NoSuchFile, Binary})
             /\ ~(~IsText(files[path]) \/ path \in ImagePaths)
    <2>1. /\ paging.path = path => paging.next # 0
          /\ lastCall' = NoEdit("ok") /\ files' = files
          /\ paging' = After(p, r, start)
      BY <1>3 DEF Read, After, Reading
    <2>2. text \in AllTexts
      <3>1. text \in FileContents /\ IsText(text)
        BY <1>3 DEF FileInv
      <3> QED BY <3>1, TextIs
    <2>3. lines \in Seq(AllTexts) /\ total = Len(lines) /\ total \in Nat /\ total >= 1
      BY <2>2, LinesInAre DEF LinesIn
    <2> HIDE DEF lines, total, text
    <2>4. Tiles(Reading(path), total) /\ IsPaging(Reading(path), path, 1, <<>>, {}, {})
      BY <2>3, ReadingTiles, ReadingIs
    <2>5. Tiles(p, total) /\ p.path = path /\ p.next # 0 /\ start = p.next - 1
      <3>1. CASE paging.path # path
        BY <3>1, <2>4 DEF IsPaging
      <3>2. CASE paging.path = path /\ paging = NotReading
        <4>1. NotReading.path = NoSuchFile
          BY DEF NotReading
        <4>2. Reading(path) = NotReading
          BY <4>1, <3>2 DEF Reading, NotReading
        <4> QED BY <4>2, <3>2, <2>4 DEF IsPaging
      <3>3. CASE paging.path = path /\ paging # NotReading
        <4>1. IsReading(paging, files)
          BY <3>3 DEF FileInv
        <4>2. Tiles(paging, total)
          BY <4>1, <3>3 DEF IsReading, total, text
        <4> QED BY <4>2, <3>3, <2>1
      <3> QED BY <3>1, <3>2, <3>3
    <2> HIDE DEF p, start
    <2>6. p.next \in 0 .. total
      BY <2>5 DEF Tiles
    <2>7. start \in Nat /\ start < total
      BY <2>3, <2>5, <2>6
    <2>8. GoesOn(r, p.next - 1, total)
      <3>1. GoesOn(r, start, total)
        BY <2>3, <2>7, ResultGoesOn
      <3> QED BY <3>1, <2>5
    <2> HIDE DEF r
    <2>9. Tiles(After(p, r, p.next - 1), total)
      BY <2>3, <2>5, <2>8, TilesGoOn
    <2>10. Tiles(paging', total) /\ paging'.path = path
      BY <2>1, <2>5, <2>9, AfterIs
    <2>11. IsReading(paging', files')
      BY <2>1, <2>2, <2>10 DEF IsReading, total, text
    <2>12. EditsAreExact'
      BY <2>1, NoEditIs
    <2> QED BY <2>1, <2>11, <2>12 DEF FileInv
  <1> QED BY <1>1, <1>2, <1>3

LEMMA WriteKeeps ==
  ASSUME FileInv, NEW path \in Paths, NEW content \in Contents, Write(path, content)
  PROVE  FileInv'
  <1>1. CASE path \in Guarded
    BY <1>1, EndCallKeeps DEF Write
  <1>2. CASE path \notin Guarded
    <2>1. Store(path, content, NoEdit("ok")) /\ content \in FileContents
      BY <1>2, InputsAre DEF Write
    <2>2. EditsAreExact'
      BY <2>1, NoEditIs DEF Store
    <2> QED BY <2>1, <2>2, StoreKeeps
  <1> QED BY <1>1, <1>2

LEMMA EditKeeps ==
  ASSUME FileInv, NEW path \in Paths, NEW input \in EditInputs, Edit(path, input)
  PROVE  FileInv'
  <1> DEFINE before == files[path]
             edits == ParsedEdits(input)
             applied == ApplyEdits(BaseOf(before), edits)
             call == [is |-> applied.is, path |-> path, before |-> before, edits |-> edits]
  <1>1. CASE edits = <<>> \/ path \in Guarded \/ ~IsText(before)
    <2>1. EndCall(NoEdit("error"))
      BY <1>1 DEF Edit
    <2> QED BY <2>1, EndCallKeeps
  <1>2. CASE ~(edits = <<>> \/ path \in Guarded \/ ~IsText(before))
    <2>1. EndEdit(path, edits, StripBom(before), applied)
      BY <1>2 DEF Edit, BaseOf
    <2>2. before \in AllTexts
      <3>1. before \in FileContents
        BY DEF FileInv
      <3> QED BY <3>1, <1>2, TextIs
    <2>3. edits \in Seq(Changes) /\ edits # <<>>
      BY <1>2, InputsAre
    <2>4. Edited(before, edits) \in AllTexts
      BY <2>2, <2>3, EditedIs
    <2>5. (IF StripBom(before) = before THEN <<>> ELSE <<Bom>>) = Mark(before)
      BY <2>2, MarkIs
    <2>6. /\ applied.is # "ok" => EndCall(call)
          /\ applied.is = "ok" => Store(path, Edited(before, edits), call)
      <3> HIDE DEF edits
      <3> QED BY <2>1, <2>5, Zenon DEF EndEdit, Edited, before, applied, call
    <2>7. call.is = applied.is /\ call.path = path /\ call.before = before /\ call.edits = edits
      OBVIOUS
    <2> HIDE DEF call, applied, edits
    <2>8. CASE applied.is # "ok"
      <3>1. lastCall'.is # "ok" /\ UNCHANGED <<files, paging>>
        BY <2>6, <2>7, <2>8 DEF EndCall
      <3> QED BY <3>1 DEF FileInv, EditsAreExact
    <2>9. CASE applied.is = "ok"
      <3>1. Store(path, Edited(before, edits), call)
        BY <2>6, <2>9
      <3>2. lastCall' = call /\ files'[path] = Edited(before, edits)
        BY <3>1 DEF Store, FileInv
      <3>3. EditsAreExact'
        <4>1. SUFFICES ASSUME \A k \in DOMAIN edits : Finds(BaseOf(before), NormalizeNewlines(edits[k].old)) # {}
                       PROVE  EditedTo(files'[path], before, edits)
          BY <3>2, <2>7 DEF EditsAreExact, BaseOf
        <4>2. ApplyEdits(BaseOf(before), edits).is = "ok"
          BY <2>9 DEF applied
        <4>3. EditedTo(Edited(before, edits), before, edits)
          BY <4>1, <4>2, <2>2, <2>3, EditIsExact
        <4> QED BY <4>3, <3>2
      <3>4. Edited(before, edits) \in FileContents
        BY <2>4 DEF FileContents
      <3> QED BY <3>1, <3>3, <3>4, StoreKeeps
    <2> QED BY <2>8, <2>9
  <1> QED BY <1>1, <1>2

(* Whatever the texts, limits and edits are: whoever follows the notices   *)
(* of read misses no line of the file, and an edit whose old texts are in  *)
(* the file makes just what it says of it (ReadTool, EditTool).            *)
THEOREM FilesStayFaithful == FileSpec => []FilesAreFaithful
  <1>1. FileInit => FileInv
    <2> SUFFICES ASSUME FileInit PROVE FileInv
      OBVIOUS
    <2>1. files \in [Paths -> FileContents] /\ paging = NotReading
      BY DEF FileInit, FileContents
    <2>2. lastCall.edits = <<>>
      BY DEF FileInit, NoEdit
    <2> QED BY <2>1, <2>2 DEF FileInv, EditsAreExact
  <1>2. FileInv /\ [FileNext]_textVars => FileInv'
    <2> SUFFICES ASSUME FileInv, [FileNext]_textVars PROVE FileInv'
      OBVIOUS
    <2>1. CASE \E path \in Paths, limit \in Limits \cup {NoLimit} : Read(path, limit)
      BY <2>1, ReadKeeps
    <2>2. CASE \E path \in Paths, content \in Contents : Write(path, content)
      BY <2>2, WriteKeeps
    <2>3. CASE \E path \in Paths, input \in EditInputs : Edit(path, input)
      BY <2>3, EditKeeps
    <2>4. CASE UNCHANGED textVars
      BY <2>4 DEF textVars, FileInv, EditsAreExact
    <2> QED BY <2>1, <2>2, <2>3, <2>4 DEF FileNext
  <1>3. FileInv => FilesAreFaithful
    <2> SUFFICES ASSUME FileInv PROVE ReadsTile
      BY DEF FilesAreFaithful, FileInv
    <2>1. CASE paging = NotReading
      BY <2>1 DEF ReadsTile, NotReading
    <2>2. CASE paging # NotReading
      BY <2>2 DEF FileInv, IsReading, Tiles, ReadsTile, LinesIn
    <2> QED BY <2>1, <2>2
  <1> QED BY <1>1, <1>2, <1>3, PTL DEF FileSpec

-------------------------------------------------------------------------------
(* What masking leaves of a text.                                          *)

(* A part of a text that is the secret.                                    *)
Holds(text, i, secret) ==
  i + Len(secret) - 1 <= Len(text) /\ \A k \in 1 .. Len(secret) : text[i + k - 1] = secret[k]

LEMMA IsAtIs ==
  ASSUME NEW S, NEW text \in Seq(S), NEW secret \in Seq(S), secret # <<>>, NEW i \in 1 .. Len(text)
  PROVE  IsAt(text, i, secret) <=> Holds(text, i, secret)
  <1> DEFINE n == Len(secret)
             part == Part(text, i, i + n - 1)
  <1>1. n \in Nat /\ n >= 1 /\ Len(text) \in Nat /\ i \in Nat /\ i >= 1
    <2>1. n \in Nat /\ Len(text) \in Nat /\ n # 0
      BY LenProperties, EmptySeq
    <2> QED BY <2>1
  <1>2. IsAt(text, i, secret) <=> i + n - 1 <= Len(text) /\ part = secret
    BY Zenon DEF IsAt, Part
  <1>3. CASE i + n - 1 <= Len(text)
    <2>1. /\ i \in 1 .. Len(text) + 1 /\ i + n - 1 \in i - 1 .. Len(text) /\ (i + n - 1) - i + 1 = n
      BY <1>1, <1>3
    <2>2. /\ part \in Seq(S) /\ Len(part) = n
          /\ \A k \in 1 .. n : part[k] = text[i + k - 1]
      BY <2>1, PartIs
    <2> HIDE DEF part
    <2>3. part = secret <=> \A k \in 1 .. n : part[k] = secret[k]
      BY <2>2, SeqEqual
    <2> QED BY <1>2, <1>3, <2>2, <2>3 DEF Holds
  <1>4. CASE ~(i + n - 1 <= Len(text))
    BY <1>2, <1>4 DEF Holds
  <1> QED BY <1>3, <1>4

(* The text behind each place, masked.                                     *)
MaskStep(text, secret, f, p) ==
  IF p > Len(text) THEN <<>>
  ELSE IF IsAt(text, p, secret) THEN <<Redacted>> \o f[p + Len(secret)]
  ELSE <<text[p]>> \o f[p + 1]
MaskedFrom(text, secret, f) ==
  /\ \A p \in 1 .. (Len(text) + Len(secret)) : f[p] = MaskStep(text, secret, f, p)
  /\ Masked(text, secret) = f[1]

LEMMA MaskedSteps ==
  ASSUME NEW S, Redacted \in S, NEW text \in Seq(S), NEW secret \in Seq(S), secret # <<>>
  PROVE  \E f \in [1 .. (Len(text) + Len(secret)) -> Seq(S)] : MaskedFrom(text, secret, f)
  <1> DEFINE L == Len(text)
             n == Len(secret)
             N == L + n
             Ends(f, p) == \A q \in p .. N : f[q] = MaskStep(text, secret, f, q)
             G == {k \in 0 .. N - 1 : \E f \in [N - k .. N -> Seq(S)] : Ends(f, N - k)}
  <1>1. L \in Nat /\ n \in Nat /\ n >= 1 /\ N \in Nat /\ N - 1 \in Nat /\ L < N
    <2>1. n \in Nat /\ L \in Nat /\ n # 0
      BY LenProperties, EmptySeq
    <2> QED BY <2>1
  <1> HIDE DEF L, n, N
  <1>2. 0 \in G
    <2> DEFINE f == [q \in N - 0 .. N |-> <<>>]
    <2>1. f \in [N - 0 .. N -> Seq(S)]
      OBVIOUS
    <2>2. Ends(f, N - 0)
      <3>1. \A q \in N - 0 .. N : q > L
        BY <1>1
      <3> QED BY <3>1 DEF MaskStep, L
    <2> HIDE DEF f
    <2>3. 0 \in 0 .. N - 1
      BY <1>1
    <2> QED BY <2>1, <2>2, <2>3
  <1>3. ASSUME NEW k \in 1 .. N - 1, k - 1 \in G PROVE k \in G
    <2> DEFINE p == N - k
    <2>1. p \in 1 .. N - 1 /\ N - (k - 1) = p + 1
      BY <1>1
    <2>2. PICK f \in [p + 1 .. N -> Seq(S)] : Ends(f, p + 1)
      BY <1>3, <2>1
    <2> HIDE DEF p
    <2> DEFINE new == MaskStep(text, secret, f, p)
               g == [q \in p .. N |-> IF q = p THEN new ELSE f[q]]
    <2>3. new \in Seq(S)
      <3>1. CASE p > L
        <4>1. new = <<>>
          BY <3>1 DEF MaskStep, L
        <4> QED BY <4>1
      <3>2. CASE ~(p > L)
        <4>1. p \in 1 .. L /\ p + n \in p + 1 .. N /\ p + 1 \in p + 1 .. N
          BY <3>2, <2>1, <1>1 DEF N
        <4>2. f[p + n] \in Seq(S) /\ f[p + 1] \in Seq(S) /\ text[p] \in S
          BY <4>1, <2>2, ElementOfSeq DEF L
        <4>3. new = <<Redacted>> \o f[p + n] \/ new = <<text[p]>> \o f[p + 1]
          BY <3>2 DEF MaskStep, L, n
        <4>4. <<Redacted>> \o f[p + n] \in Seq(S)
          BY <4>2
        <4>5. <<text[p]>> \o f[p + 1] \in Seq(S)
          BY <4>2
        <4> HIDE DEF new
        <4> QED BY <4>3, <4>4, <4>5, Zenon
      <3> QED BY <3>1, <3>2
    <2>4. g \in [p .. N -> Seq(S)]
      <3>1. \A q \in p .. N : q # p => q \in p + 1 .. N
        BY <2>1, <1>1
      <3> HIDE DEF new
      <3> QED BY <3>1, <2>2, <2>3
    <2>5. Ends(g, p)
      <3> SUFFICES ASSUME NEW q \in p .. N PROVE g[q] = MaskStep(text, secret, g, q)
        OBVIOUS
      <3>1. g[q] = MaskStep(text, secret, f, q)
        <4>1. CASE q = p
          BY <4>1
        <4>2. CASE q # p
          <5>1. q \in p + 1 .. N
            BY <4>2, <2>1, <1>1
          <5> HIDE DEF new
          <5> QED BY <4>2, <5>1, <2>2
        <4> QED BY <4>1, <4>2
      <3>2. CASE q > L
        BY <3>1, <3>2 DEF MaskStep, L
      <3>3. CASE ~(q > L)
        <4>1. /\ q + n \in p .. N /\ q + n # p /\ q + 1 \in p .. N /\ q + 1 # p
          BY <3>3, <2>1, <1>1 DEF N
        <4>2. g[q + n] = f[q + n] /\ g[q + 1] = f[q + 1]
          BY <4>1
        <4> HIDE DEF g
        <4> QED BY <3>1, <4>2 DEF MaskStep, L, n
      <3> QED BY <3>2, <3>3
    <2>6. k \in 0 .. N - 1
      BY <1>1
    <2> HIDE DEF g
    <2> QED BY <2>4, <2>5, <2>6 DEF p
  <1>4. \A k \in 0 .. N - 1 : k \in G
    <2> HIDE DEF G
    <2> QED BY <1>1, <1>2, <1>3, StepByStep
  <1>5. PICK f \in [1 .. N -> Seq(S)] : Ends(f, 1)
    <2>1. N - 1 \in 0 .. N - 1 /\ N - (N - 1) = 1
      BY <1>1
    <2>2. N - 1 \in G
      BY <1>4, <2>1
    <2> QED BY <2>1, <2>2
  <1> DEFINE from == CHOOSE h : h = [p \in 1 .. (Len(text) + Len(secret)) |-> MaskStep(text, secret, h, p)]
  <1>6. Masked(text, secret) = from[1]
    BY Zenon DEF Masked, MaskStep
  <1>7. f = [p \in 1 .. (Len(text) + Len(secret)) |-> MaskStep(text, secret, f, p)]
    BY <1>5 DEF N, L, n
  <1>8. from = [p \in 1 .. (Len(text) + Len(secret)) |-> MaskStep(text, secret, from, p)]
    BY <1>7, Zenon
  <1> HIDE DEF from
  <1>9. ASSUME NEW k \in 0 .. N - 1 PROVE from[N - k] \in Seq(S)
    <2> DEFINE H == {j \in 0 .. N - 1 : \A q \in N - j .. N : from[q] \in Seq(S)}
    <2>1. 0 \in H
      <3>1. \A q \in N - 0 .. N : q > L /\ q \in 1 .. (Len(text) + Len(secret))
        BY <1>1 DEF N, L, n
      <3>2. \A q \in N - 0 .. N : from[q] = <<>>
        BY <3>1, <1>8 DEF MaskStep, L
      <3>3. 0 \in 0 .. N - 1
        BY <1>1
      <3>4. \A q \in N - 0 .. N : from[q] \in Seq(S)
        <4>1. <<>> \in Seq(S)
          OBVIOUS
        <4> QED BY <3>2, <4>1
      <3> QED BY <3>3, <3>4
    <2>2. ASSUME NEW j \in 1 .. N - 1, j - 1 \in H PROVE j \in H
      <3> DEFINE p == N - j
      <3>1. p \in 1 .. N - 1 /\ N - (j - 1) = p + 1 /\ j \in 0 .. N - 1
        BY <1>1
      <3>2. \A q \in p + 1 .. N : from[q] \in Seq(S)
        BY <2>2, <3>1
      <3> HIDE DEF p
      <3>3. from[p] = MaskStep(text, secret, from, p)
        <4>1. p \in 1 .. (Len(text) + Len(secret))
          BY <3>1, <1>1 DEF N, L, n
        <4> QED BY <4>1, <1>8
      <3>4. from[p] \in Seq(S)
        <4>1. CASE p > L
          <5>1. from[p] = <<>>
            BY <3>3, <4>1 DEF MaskStep, L
          <5> QED BY <5>1
        <4>2. CASE ~(p > L)
          <5>1. p \in 1 .. L /\ p + n \in p + 1 .. N /\ p + 1 \in p + 1 .. N
            BY <4>2, <3>1, <1>1 DEF N
          <5>2. from[p + n] \in Seq(S) /\ from[p + 1] \in Seq(S) /\ text[p] \in S
            BY <5>1, <3>2, ElementOfSeq DEF L
          <5>3. from[p] = <<Redacted>> \o from[p + n] \/ from[p] = <<text[p]>> \o from[p + 1]
            BY <4>2, <3>3 DEF MaskStep, L, n
          <5>4. <<Redacted>> \o from[p + n] \in Seq(S)
            BY <5>2
          <5>5. <<text[p]>> \o from[p + 1] \in Seq(S)
            BY <5>2
          <5> QED BY <5>3, <5>4, <5>5, Zenon
        <4> QED BY <4>1, <4>2
      <3>5. \A q \in p .. N : q = p \/ q \in p + 1 .. N
        BY <3>1, <1>1
      <3>6. \A q \in p .. N : from[q] \in Seq(S)
        BY <3>2, <3>4, <3>5
      <3> QED BY <3>1, <3>6 DEF p
    <2> HIDE DEF H
    <2>3. k \in H
      BY <1>1, <2>1, <2>2, StepByStep
    <2>4. N - k \in N - k .. N
      BY <1>1
    <2> QED BY <2>3, <2>4 DEF H
  <1>10. \A p \in 1 .. N : from[p] \in Seq(S)
    <2> TAKE p \in 1 .. N
    <2>1. N - p \in 0 .. N - 1 /\ N - (N - p) = p
      BY <1>1
    <2> QED BY <1>9, <2>1
  <1>11. from \in [1 .. (Len(text) + Len(secret)) -> Seq(S)]
    BY <1>8, <1>10 DEF N, L, n
  <1>12. MaskedFrom(text, secret, from)
    BY <1>6, <1>8 DEF MaskedFrom
  <1> QED BY <1>11, <1>12

(* A token before the rest of a text.                                      *)
Put(token, rest) == <<token>> \o rest
IsPut(S, token, rest, out) ==
  /\ out \in Seq(S) /\ Len(out) = Len(rest) + 1 /\ out[1] = token
  /\ \A i \in 2 .. Len(out) : out[i] = rest[i - 1]

LEMMA PutIs ==
  ASSUME NEW S, NEW token \in S, NEW rest \in Seq(S)
  PROVE  IsPut(S, token, rest, Put(token, rest))
  <1> DEFINE one == <<token>>
             out == one \o rest
  <1>1. one \in Seq(S) /\ Len(one) = 1 /\ one[1] = token /\ Len(rest) \in Nat
    BY LenProperties
  <1> HIDE DEF one
  <1>2. /\ out \in Seq(S) /\ Len(out) = Len(one) + Len(rest)
        /\ \A i \in 1 .. Len(one) + Len(rest) : out[i] = IF i <= Len(one) THEN one[i] ELSE rest[i - Len(one)]
    BY <1>1, ConcatProperties
  <1> HIDE DEF out
  <1>3. 1 \in 1 .. Len(one) + Len(rest) /\ \A i \in 2 .. Len(out) : i \in 1 .. Len(one) + Len(rest) /\ ~(i <= Len(one))
    BY <1>1, <1>2
  <1>4. out[1] = token
    BY <1>1, <1>2, <1>3
  <1>5. \A i \in 2 .. Len(out) : out[i] = rest[i - 1]
    BY <1>1, <1>2, <1>3
  <1> QED BY <1>1, <1>2, <1>4, <1>5 DEF IsPut, Put, one, out

(* What masking keeps from place p on: up to the first replacement it      *)
(* reads as the text does, and another secret found in it was there        *)
(* before, where the secret is not.                                        *)
ReadsAsBefore(text, out, p) ==
  \A k \in 1 .. Len(out) : (\A i \in 1 .. k : out[i] # Redacted)
    => p + k - 1 <= Len(text) /\ \A i \in 1 .. k : out[i] = text[p + i - 1]
WasThere(text, secret, out, p, other) ==
  \A i \in 1 .. Len(out) : Holds(out, i, other)
    => \E j \in p .. Len(text) : Holds(text, j, other) /\ ~IsAt(text, j, secret)
Keeps(text, secret, out, p, other) ==
  ReadsAsBefore(text, out, p) /\ WasThere(text, secret, out, p, other)
IsPlainSecret(secret) == \A i \in 1 .. Len(secret) : secret[i] \notin {Redacted, Dots}

LEMMA BehindPut ==
  ASSUME NEW S, NEW token \in S, NEW rest \in Seq(S), NEW out, IsPut(S, token, rest, out),
         NEW other \in Seq(S), NEW i \in 2 .. Len(out), Holds(out, i, other)
  PROVE  i - 1 \in 1 .. Len(rest) /\ Holds(rest, i - 1, other)
  <1> DEFINE m == Len(other)
             l == Len(rest)
  <1>1. m \in Nat /\ l \in Nat /\ Len(out) = l + 1
    BY LenProperties DEF IsPut
  <1>2. i + m - 1 <= l + 1 /\ \A k \in 1 .. m : out[i + k - 1] = other[k]
    BY <1>1 DEF Holds
  <1> HIDE DEF m, l
  <1>3. i - 1 \in 1 .. l /\ (i - 1) + m - 1 <= l
    BY <1>1, <1>2
  <1>4. ASSUME NEW k \in 1 .. m PROVE rest[(i - 1) + k - 1] = other[k]
    <2>1. i + k - 1 \in 2 .. Len(out) /\ (i + k - 1) - 1 = (i - 1) + k - 1
      BY <1>1, <1>2
    <2>2. out[i + k - 1] = rest[(i + k - 1) - 1]
      BY <2>1 DEF IsPut
    <2> QED BY <2>1, <2>2, <1>2
  <1> QED BY <1>3, <1>4 DEF Holds, m, l

LEMMA ReplacedKeeps ==
  ASSUME NEW S, Redacted \in S, NEW text \in Seq(S), NEW secret \in Seq(S), NEW other \in Seq(S),
         other # <<>>, IsPlainSecret(other), NEW p \in 1 .. Len(text), NEW q \in Nat, q >= p,
         NEW rest \in Seq(S), Keeps(text, secret, rest, q, other),
         NEW out, IsPut(S, Redacted, rest, out)
  PROVE  Keeps(text, secret, out, p, other)
  <1>1. Len(out) \in Nat /\ Len(out) >= 1 /\ out[1] = Redacted /\ Len(other) \in Nat /\ Len(other) >= 1
    <2>1. Len(other) \in Nat /\ Len(other) # 0 /\ Len(rest) \in Nat
      BY LenProperties, EmptySeq
    <2> QED BY <2>1 DEF IsPut
  <1>2. ReadsAsBefore(text, out, p)
    <2>1. \A k \in 1 .. Len(out) : 1 \in 1 .. k
      BY <1>1
    <2> QED BY <2>1, <1>1 DEF ReadsAsBefore
  <1>3. ASSUME NEW i \in 1 .. Len(out), Holds(out, i, other)
        PROVE  \E j \in p .. Len(text) : Holds(text, j, other) /\ ~IsAt(text, j, secret)
    <2>1. i # 1
      <3> SUFFICES ASSUME i = 1 PROVE FALSE
        OBVIOUS
      <3>1. 1 \in 1 .. Len(other) /\ i + 1 - 1 = 1
        BY <1>1
      <3>2. out[i + 1 - 1] = other[1]
        BY <3>1, <1>3 DEF Holds
      <3> QED BY <3>1, <3>2, <1>1 DEF IsPlainSecret
    <2>2. i \in 2 .. Len(out)
      BY <2>1, <1>1
    <2>3. i - 1 \in 1 .. Len(rest) /\ Holds(rest, i - 1, other)
      BY <2>2, <1>3, BehindPut
    <2>4. PICK j \in q .. Len(text) : Holds(text, j, other) /\ ~IsAt(text, j, secret)
      BY <2>3 DEF Keeps, WasThere
    <2>5. j \in p .. Len(text)
      <3>1. Len(text) \in Nat
        BY LenProperties
      <3> QED BY <3>1
    <2> QED BY <2>4, <2>5
  <1> QED BY <1>2, <1>3 DEF Keeps, WasThere

LEMMA KeptKeeps ==
  ASSUME NEW S, NEW text \in Seq(S), NEW secret \in Seq(S), NEW other \in Seq(S),
         other # <<>>, IsPlainSecret(other), NEW p \in 1 .. Len(text), ~IsAt(text, p, secret),
         NEW rest \in Seq(S), Keeps(text, secret, rest, p + 1, other),
         NEW out, IsPut(S, text[p], rest, out)
  PROVE  Keeps(text, secret, out, p, other)
  <1> DEFINE L == Len(text)
             m == Len(other)
             l == Len(rest)
  <1>1. l \in Nat /\ Len(out) = l + 1 /\ m \in Nat /\ m >= 1 /\ L \in Nat
    <2>1. Len(other) \in Nat /\ Len(other) # 0 /\ Len(rest) \in Nat /\ Len(text) \in Nat
      BY LenProperties, EmptySeq
    <2> QED BY <2>1 DEF IsPut
  <1>2. out[1] = text[p] /\ \A i \in 2 .. Len(out) : out[i] = rest[i - 1]
    BY DEF IsPut
  <1> HIDE DEF l, m, L
  <1>3. ASSUME NEW k \in 1 .. Len(out), \A i \in 1 .. k : out[i] # Redacted
        PROVE  p + k - 1 <= L /\ \A i \in 1 .. k : out[i] = text[p + i - 1]
    <2>1. CASE k = 1
      <3>1. p + k - 1 <= L
        BY <2>1, <1>1 DEF L
      <3>2. ASSUME NEW i \in 1 .. k PROVE out[i] = text[p + i - 1]
        <4>1. i = 1 /\ p + i - 1 = p
          BY <2>1
        <4> QED BY <4>1, <1>2
      <3> QED BY <3>1, <3>2
    <2>2. CASE k # 1
      <3>1. k - 1 \in 1 .. l
        BY <2>2, <1>1
      <3>2. ASSUME NEW i \in 1 .. k - 1 PROVE rest[i] = out[i + 1] /\ i + 1 \in 1 .. k
        <4>1. i + 1 \in 2 .. Len(out) /\ (i + 1) - 1 = i /\ i + 1 \in 1 .. k
          BY <1>1
        <4> QED BY <4>1, <1>2
      <3>3. \A i \in 1 .. k - 1 : rest[i] # Redacted
        BY <3>2, <1>3
      <3>4. (p + 1) + (k - 1) - 1 <= L /\ \A i \in 1 .. k - 1 : rest[i] = text[(p + 1) + i - 1]
        BY <3>1, <3>3 DEF Keeps, ReadsAsBefore, l, L
      <3>5. p + k - 1 <= L
        BY <3>4, <1>1
      <3>6. ASSUME NEW i \in 1 .. k PROVE out[i] = text[p + i - 1]
        <4>1. CASE i = 1
          <5>1. p + i - 1 = p
            BY <4>1
          <5> QED BY <4>1, <5>1, <1>2
        <4>2. CASE i # 1
          <5>1. i - 1 \in 1 .. k - 1 /\ (p + 1) + (i - 1) - 1 = p + i - 1 /\ i \in 2 .. Len(out)
            BY <4>2, <1>1
          <5>2. rest[i - 1] = text[(p + 1) + (i - 1) - 1]
            BY <5>1, <3>4
          <5> QED BY <5>1, <5>2, <1>2
        <4> QED BY <4>1, <4>2
      <3> QED BY <3>5, <3>6
    <2> QED BY <2>1, <2>2
  <1>4. ReadsAsBefore(text, out, p)
    BY <1>3 DEF ReadsAsBefore, L
  <1>5. ASSUME NEW i \in 1 .. Len(out), Holds(out, i, other)
        PROVE  \E j \in p .. Len(text) : Holds(text, j, other) /\ ~IsAt(text, j, secret)
    <2>1. CASE i = 1
      <3>1. m \in 1 .. Len(out) /\ \A k \in 1 .. m : i + k - 1 = k
        <4>1. i + m - 1 <= Len(out)
          BY <1>5 DEF Holds, m
        <4> QED BY <4>1, <2>1, <1>1
      <3>2. \A k \in 1 .. m : out[k] = other[k]
        <4>1. \A k \in 1 .. m : out[i + k - 1] = other[k]
          BY <1>5 DEF Holds, m
        <4> QED BY <4>1, <3>1
      <3>3. \A k \in 1 .. m : out[k] # Redacted
        BY <3>2 DEF IsPlainSecret, m
      <3>4. p + m - 1 <= L /\ \A k \in 1 .. m : out[k] = text[p + k - 1]
        BY <3>1, <3>3, <1>3
      <3>5. Holds(text, p, other)
        BY <3>2, <3>4 DEF Holds, m, L
      <3>6. p \in p .. Len(text)
        BY <1>1 DEF L
      <3> QED BY <3>5, <3>6
    <2>2. CASE i # 1
      <3>1. i \in 2 .. Len(out) /\ text[p] \in S
        <4>1. text[p] \in S
          BY ElementOfSeq
        <4> QED BY <4>1, <2>2, <1>1
      <3>2. i - 1 \in 1 .. Len(rest) /\ Holds(rest, i - 1, other)
        BY <3>1, <1>5, BehindPut
      <3>3. PICK j \in p + 1 .. Len(text) : Holds(text, j, other) /\ ~IsAt(text, j, secret)
        BY <3>2 DEF Keeps, WasThere
      <3>4. j \in p .. Len(text)
        BY <1>1 DEF L
      <3> QED BY <3>3, <3>4
    <2> QED BY <2>1, <2>2
  <1> QED BY <1>4, <1>5 DEF Keeps, WasThere

(* From the end of the text to its start.                                  *)
LEMMA MaskedKeeps ==
  ASSUME NEW S, Redacted \in S, NEW text \in Seq(S), NEW secret \in Seq(S), secret # <<>>,
         NEW other \in Seq(S), other # <<>>, IsPlainSecret(other)
  PROVE  Masked(text, secret) \in Seq(S) /\ Keeps(text, secret, Masked(text, secret), 1, other)
  <1> DEFINE L == Len(text)
             n == Len(secret)
             N == L + n
  <1>1. L \in Nat /\ n \in Nat /\ n >= 1 /\ N \in Nat /\ N - 1 \in Nat /\ L < N
    <2>1. n \in Nat /\ L \in Nat /\ n # 0
      BY LenProperties, EmptySeq
    <2> QED BY <2>1
  <1>2. PICK f \in [1 .. (Len(text) + Len(secret)) -> Seq(S)] : MaskedFrom(text, secret, f)
    BY MaskedSteps
  <1>3. /\ \A p \in 1 .. N : f[p] \in Seq(S) /\ f[p] = MaskStep(text, secret, f, p)
        /\ Masked(text, secret) = f[1]
    BY <1>2 DEF MaskedFrom
  <1> HIDE DEF L, n, N
  <1> DEFINE G == {k \in 0 .. N - 1 : \A q \in N - k .. N : Keeps(text, secret, f[q], q, other)}
  <1>4. ASSUME NEW p \in 1 .. N, p > L PROVE Keeps(text, secret, f[p], p, other)
    <2>1. f[p] = <<>>
      BY <1>3, <1>4 DEF MaskStep, L
    <2>2. Len(f[p]) = 0
      BY <2>1, EmptySeq
    <2>3. 1 .. Len(f[p]) = {}
      BY <2>2
    <2> QED BY <2>3 DEF Keeps, ReadsAsBefore, WasThere
  <1>5. 0 \in G
    <2>1. \A q \in N - 0 .. N : q \in 1 .. N /\ q > L
      BY <1>1
    <2>2. 0 \in 0 .. N - 1
      BY <1>1
    <2> QED BY <2>1, <2>2, <1>4
  <1>6. ASSUME NEW k \in 1 .. N - 1, k - 1 \in G PROVE k \in G
    <2> DEFINE p == N - k
    <2>1. p \in 1 .. N - 1 /\ p \in 1 .. N /\ N - (k - 1) = p + 1 /\ k \in 0 .. N - 1
      BY <1>1
    <2>2. \A q \in p + 1 .. N : Keeps(text, secret, f[q], q, other)
      BY <1>6, <2>1
    <2> HIDE DEF p
    <2>3. Keeps(text, secret, f[p], p, other)
      <3>1. CASE p > L
        BY <3>1, <2>1, <1>4
      <3>2. CASE ~(p > L) /\ IsAt(text, p, secret)
        <4>1. p \in 1 .. Len(text) /\ p + n \in p + 1 .. N /\ p + n \in 1 .. N /\ p + n \in Nat /\ p + n >= p
          BY <3>2, <2>1, <1>1 DEF N, L
        <4>2. f[p] = Put(Redacted, f[p + n])
          BY <3>2, <2>1, <1>3 DEF MaskStep, L, n, Put
        <4>3. f[p + n] \in Seq(S) /\ Keeps(text, secret, f[p + n], p + n, other)
          BY <4>1, <1>3, <2>2
        <4>4. IsPut(S, Redacted, f[p + n], f[p])
          BY <4>2, <4>3, PutIs
        <4> QED BY <4>1, <4>3, <4>4, ReplacedKeeps
      <3>3. CASE ~(p > L) /\ ~IsAt(text, p, secret)
        <4>1. p \in 1 .. Len(text) /\ p + 1 \in p + 1 .. N /\ p + 1 \in 1 .. N
          BY <3>3, <2>1, <1>1 DEF N, L
        <4>2. f[p] = Put(text[p], f[p + 1])
          BY <3>3, <2>1, <1>3 DEF MaskStep, L, n, Put
        <4>3. f[p + 1] \in Seq(S) /\ Keeps(text, secret, f[p + 1], p + 1, other) /\ text[p] \in S
          BY <4>1, <1>3, <2>2, ElementOfSeq
        <4>4. IsPut(S, text[p], f[p + 1], f[p])
          BY <4>2, <4>3, PutIs
        <4> QED BY <4>1, <4>3, <4>4, <3>3, KeptKeeps
      <3> QED BY <3>1, <3>2, <3>3
    <2>4. \A q \in p .. N : q = p \/ q \in p + 1 .. N
      BY <2>1, <1>1
    <2>5. \A q \in p .. N : Keeps(text, secret, f[q], q, other)
      BY <2>2, <2>3, <2>4
    <2> QED BY <2>1, <2>5 DEF p
  <1>7. Keeps(text, secret, f[1], 1, other) /\ f[1] \in Seq(S)
    <2> HIDE DEF G
    <2>1. \A k \in 0 .. N - 1 : k \in G
      BY <1>1, <1>5, <1>6, StepByStep
    <2>2. N - 1 \in 0 .. N - 1 /\ 1 \in N - (N - 1) .. N /\ 1 \in 1 .. N
      BY <1>1
    <2> QED BY <2>1, <2>2, <1>3 DEF G
  <1> QED BY <1>7, <1>3

(* Masking removes the secret and brings back no other.                    *)
LEMMA MaskedHasNone ==
  ASSUME NEW S, Redacted \in S, NEW text \in Seq(S), NEW secret \in Seq(S), secret # <<>>,
         NEW other \in Seq(S), other # <<>>, IsPlainSecret(other),
         other = secret \/ HasNone(text, other)
  PROVE  HasNone(Masked(text, secret), other)
  <1> DEFINE out == Masked(text, secret)
  <1>1. out \in Seq(S) /\ Keeps(text, secret, out, 1, other)
    BY MaskedKeeps
  <1> HIDE DEF out
  <1>2. ASSUME NEW i \in 1 .. Len(out), IsAt(out, i, other) PROVE FALSE
    <2>1. Holds(out, i, other)
      BY <1>1, <1>2, IsAtIs
    <2>2. PICK j \in 1 .. Len(text) : Holds(text, j, other) /\ ~IsAt(text, j, secret)
      BY <1>1, <2>1 DEF Keeps, WasThere
    <2>3. IsAt(text, j, other)
      BY <2>2, IsAtIs
    <2> QED BY <2>2, <2>3 DEF HasNone
  <1> QED BY <1>2 DEF HasNone, out


-------------------------------------------------------------------------------
(* What replacing a key and cutting the content leave of a text.           *)

(* A text with one token in place of those from at up to end.              *)
CutOut(text, at, token, end) ==
  SubSeq(text, 1, at - 1) \o <<token>> \o SubSeq(text, end, Len(text))
IsCutOut(S, text, at, token, end, out) ==
  /\ out \in Seq(S) /\ Len(out) = at + (Len(text) - end + 1) /\ out[at] = token
  /\ \A i \in 1 .. at - 1 : out[i] = text[i]
  /\ \A i \in at + 1 .. Len(out) : out[i] = text[i - at + end - 1]

LEMMA CutOutIs ==
  ASSUME NEW S, NEW text \in Seq(S), NEW at \in 1 .. Len(text), NEW token \in S,
         NEW end \in at + 1 .. Len(text) + 1
  PROVE  IsCutOut(S, text, at, token, end, CutOut(text, at, token, end))
  <1> DEFINE L == Len(text)
             front == Part(text, 1, at - 1)
             back == Part(text, end, L)
             one == <<token>>
             both == front \o one
             out == both \o back
  <1>1. L \in Nat /\ one \in Seq(S) /\ Len(one) = 1 /\ one[1] = token
    BY LenProperties
  <1> HIDE DEF one
  <1>2. front \in Seq(S) /\ Len(front) = at - 1 /\ \A i \in 1 .. at - 1 : front[i] = text[i]
    <2>1. 1 \in 1 .. Len(text) + 1 /\ at - 1 \in 1 - 1 .. Len(text) /\ (at - 1) - 1 + 1 = at - 1
      BY <1>1
    <2>2. /\ front \in Seq(S) /\ Len(front) = (at - 1) - 1 + 1
          /\ \A i \in 1 .. (at - 1) - 1 + 1 : front[i] = text[1 + i - 1]
      BY <2>1, PartIs
    <2>3. \A i \in 1 .. at - 1 : 1 + i - 1 = i
      OBVIOUS
    <2> HIDE DEF front
    <2> QED BY <2>1, <2>2, <2>3
  <1>3. /\ back \in Seq(S) /\ Len(back) = L - end + 1
        /\ \A i \in 1 .. L - end + 1 : back[i] = text[end + i - 1]
    <2>1. end \in 1 .. Len(text) + 1 /\ L \in end - 1 .. Len(text)
      BY <1>1
    <2> QED BY <2>1, PartIs
  <1> HIDE DEF front, back
  <1>4. /\ both \in Seq(S) /\ Len(both) = Len(front) + Len(one)
        /\ \A i \in 1 .. Len(front) + Len(one) : both[i] = IF i <= Len(front) THEN front[i] ELSE one[i - Len(front)]
    BY <1>1, <1>2, ConcatProperties
  <1> HIDE DEF both
  <1>5. /\ out \in Seq(S) /\ Len(out) = Len(both) + Len(back)
        /\ \A i \in 1 .. Len(both) + Len(back) : out[i] = IF i <= Len(both) THEN both[i] ELSE back[i - Len(both)]
    <2>1. back \in Seq(S) /\ both \in Seq(S)
      BY <1>3, <1>4
    <2> QED BY <2>1, ConcatProperties
  <1> HIDE DEF out
  <1>6. Len(both) = at /\ Len(out) = at + (L - end + 1) /\ L - end + 1 \in Nat
    BY <1>1, <1>2, <1>3, <1>4, <1>5
  <1>7. out[at] = token
    <2>1. at \in 1 .. Len(both) + Len(back) /\ at <= Len(both)
      BY <1>6, <1>3
    <2>2. at \in 1 .. Len(front) + Len(one) /\ ~(at <= Len(front)) /\ at - Len(front) = 1
      BY <1>1, <1>2
    <2> QED BY <2>1, <2>2, <1>1, <1>4, <1>5
  <1>8. ASSUME NEW i \in 1 .. at - 1 PROVE out[i] = text[i]
    <2>1. i \in 1 .. Len(both) + Len(back) /\ i <= Len(both)
      BY <1>6, <1>3
    <2>2. i \in 1 .. Len(front) + Len(one) /\ i <= Len(front)
      BY <1>1, <1>2
    <2> QED BY <2>1, <2>2, <1>2, <1>4, <1>5
  <1>9. ASSUME NEW i \in at + 1 .. Len(out) PROVE out[i] = text[i - at + end - 1]
    <2>1. i \in 1 .. Len(both) + Len(back) /\ ~(i <= Len(both)) /\ i - Len(both) = i - at
      BY <1>6, <1>3
    <2>2. i - at \in 1 .. L - end + 1 /\ end + (i - at) - 1 = i - at + end - 1
      BY <1>6
    <2>3. out[i] = back[i - at]
      BY <2>1, <1>5
    <2>4. back[i - at] = text[end + (i - at) - 1]
      BY <2>2, <1>3
    <2> QED BY <2>2, <2>3, <2>4
  <1>10. out = CutOut(text, at, token, end)
    BY Zenon DEF CutOut, out, both, front, back, one, Part, L
  <1>11. Len(out) = at + (Len(text) - end + 1)
    BY <1>6 DEF L
  <1>12. IsCutOut(S, text, at, token, end, out)
    BY <1>5, <1>7, <1>8, <1>9, <1>11 DEF IsCutOut
  <1> QED BY <1>10, <1>12

(* A part of the new text without the token is a part of the old.          *)
LEMMA CutOutHasNone ==
  ASSUME NEW S, NEW text \in Seq(S), NEW at \in 1 .. Len(text), NEW token \in {Redacted, Dots},
         NEW end \in at + 1 .. Len(text) + 1, NEW out, IsCutOut(S, text, at, token, end, out),
         NEW other \in Seq(S), other # <<>>, IsPlainSecret(other), HasNone(text, other)
  PROVE  HasNone(out, other)
  <1> DEFINE L == Len(text)
             m == Len(other)
             l == Len(out)
  <1>1. L \in Nat /\ m \in Nat /\ m >= 1 /\ l = at + (L - end + 1) /\ l \in Nat
    <2>1. m \in Nat /\ L \in Nat /\ m # 0 /\ l \in Nat
      BY LenProperties, EmptySeq DEF IsCutOut
    <2> QED BY <2>1 DEF IsCutOut
  <1>2. /\ out \in Seq(S) /\ out[at] = token
        /\ \A i \in 1 .. at - 1 : out[i] = text[i]
        /\ \A i \in at + 1 .. l : out[i] = text[i - at + end - 1]
    BY DEF IsCutOut
  <1> SUFFICES ASSUME NEW i \in 1 .. Len(out), IsAt(out, i, other) PROVE FALSE
    BY DEF HasNone
  <1>3. i + m - 1 <= l /\ \A k \in 1 .. m : out[i + k - 1] = other[k]
    <2>1. Holds(out, i, other)
      BY <1>2, IsAtIs
    <2> QED BY <2>1 DEF Holds
  <1> HIDE DEF L, m, l
  <1>4. i + m - 1 < at \/ i > at
    <2> SUFFICES ASSUME i <= at, at <= i + m - 1 PROVE FALSE
      BY <1>1
    <2> DEFINE k == at - i + 1
    <2>1. k \in 1 .. m /\ i + k - 1 = at
      BY <1>1
    <2>2. out[at] = other[k]
      BY <2>1, <1>3
    <2>3. other[k] \notin {Redacted, Dots}
      BY <2>1 DEF IsPlainSecret, m
    <2> QED BY <2>2, <2>3, <1>2
  <1>5. CASE i + m - 1 < at
    <2>1. i \in 1 .. L /\ i + m - 1 <= L
      BY <1>5, <1>1 DEF L
    <2>2. ASSUME NEW k \in 1 .. m PROVE text[i + k - 1] = other[k]
      <3>1. i + k - 1 \in 1 .. at - 1
        BY <1>5, <1>1
      <3> QED BY <3>1, <1>2, <1>3
    <2>3. Holds(text, i, other) /\ i \in 1 .. Len(text)
      BY <2>1, <2>2 DEF Holds, L, m
    <2>4. IsAt(text, i, other)
      BY <2>3, IsAtIs
    <2> QED BY <2>3, <2>4 DEF HasNone
  <1>6. CASE i > at
    <2> DEFINE j == i - at + end - 1
    <2>1. j \in 1 .. L /\ j + m - 1 <= L
      BY <1>6, <1>1, <1>3 DEF L, l
    <2>2. ASSUME NEW k \in 1 .. m PROVE text[j + k - 1] = other[k]
      <3>1. i + k - 1 \in at + 1 .. l /\ (i + k - 1) - at + end - 1 = j + k - 1
        BY <1>6, <1>1, <1>3 DEF l
      <3>2. out[i + k - 1] = text[(i + k - 1) - at + end - 1]
        BY <3>1, <1>2
      <3> QED BY <3>1, <3>2, <1>3
    <2> HIDE DEF j
    <2>3. Holds(text, j, other) /\ j \in 1 .. Len(text)
      BY <2>1, <2>2 DEF Holds, L, m
    <2>4. IsAt(text, j, other)
      BY <2>3, IsAtIs
    <2> QED BY <2>3, <2>4 DEF HasNone
  <1> QED BY <1>4, <1>5, <1>6

(* The first member of a set of places.                                    *)
LEMMA FirstIs ==
  ASSUME NEW T, T \subseteq Nat, T # {}
  PROVE  First(T) \in T /\ \A t \in T : First(T) <= t
  <1>1. \E i \in T : \A j \in T : i <= j
    BY LeastMember
  <1> QED BY <1>1, Zenon DEF First

LEMMA KeyEndIs ==
  ASSUME NEW S, NEW text \in Seq(S), NEW from \in 1 .. Len(text) + 1
  PROVE  /\ KeyEnd(text, from) \in from .. Len(text) + 1
         /\ KeyEnd(text, from) <= Len(text) => text[KeyEnd(text, from)] = "blank"
  <1> DEFINE ends == {i \in from .. Len(text) : text[i] \in EndsKey} \cup {Len(text) + 1}
  <1>1. Len(text) \in Nat
    BY LenProperties
  <1>2. ends \subseteq Nat /\ ends # {}
    BY <1>1
  <1>3. First(ends) \in ends
    <2> HIDE DEF ends
    <2> QED BY <1>2, FirstIs
  <1>4. KeyEnd(text, from) = First(ends)
    BY DEF KeyEnd
  <1> DEFINE end == First(ends)
  <1>5. end \in ends
    BY <1>3
  <1> HIDE DEF end
  <1>6. end \in from .. Len(text) + 1 /\ (end <= Len(text) => text[end] = "blank")
    BY <1>1, <1>5 DEF EndsKey
  <1> QED BY <1>4, <1>6 DEF end


(* No key starts before the replacement, nor where it begins.              *)
LEMMA KeyIsCutOut ==
  ASSUME NEW S, NEW text \in Seq(S), NEW start \in Nat \ {0}, NEW at \in start .. Len(text),
         text[at] = "prefix", \A i \in start .. at - 1 : text[i] # "prefix", HasNoKey(text, start),
         NEW end \in at + 1 .. Len(text) + 1, NEW out, IsCutOut(S, text, at, Redacted, end, out)
  PROVE  HasNoKey(out, at + 1)
  <1>1. Len(text) \in Nat /\ Len(out) \in Nat
    BY LenProperties DEF IsCutOut
  <1>2. out[at] = Redacted /\ \A i \in 1 .. at - 1 : out[i] = text[i]
    BY DEF IsCutOut
  <1> SUFFICES ASSUME NEW i \in 1 .. (Len(out) - 1), i < at + 1, out[i] = "prefix", i = 1 \/ out[i - 1] # "letter"
               PROVE  out[i + 1] \in {"blank", Dots}
    BY DEF HasNoKey
  <1>3. i # at
    BY <1>2 DEF Redacted
  <1>4. i \in 1 .. at - 1
    BY <1>3, <1>1
  <1>5. text[i] = "prefix"
    BY <1>2, <1>4
  <1>6. i < start
    <2> SUFFICES ASSUME ~(i < start) PROVE FALSE
      OBVIOUS
    <2>1. i \in start .. at - 1
      BY <1>4
    <2> QED BY <2>1, <1>5
  <1>7. i = 1 \/ text[i - 1] # "letter"
    <2>1. CASE i = 1
      BY <2>1
    <2>2. CASE i # 1
      <3>1. i - 1 \in 1 .. at - 1
        BY <2>2, <1>4
      <3> QED BY <2>2, <3>1, <1>2
    <2> QED BY <2>1, <2>2
  <1>8. i \in 1 .. (Len(text) - 1)
    BY <1>1, <1>4
  <1>9. text[i + 1] \in {"blank", Dots}
    BY <1>5, <1>6, <1>7, <1>8 DEF HasNoKey
  <1>10. i + 1 # at
    BY <1>9 DEF Dots
  <1>11. i + 1 \in 1 .. at - 1
    BY <1>4, <1>10
  <1> QED BY <1>2, <1>9, <1>11

(* A prefix that starts no key is passed over.                             *)
LEMMA KeyIsNone ==
  ASSUME NEW S, NEW text \in Seq(S), NEW start \in Nat \ {0}, NEW at \in start .. Len(text),
         \A i \in start .. at - 1 : text[i] # "prefix", HasNoKey(text, start), ~KeyAt(text, at)
  PROVE  HasNoKey(text, at + 1)
  <1>1. Len(text) \in Nat
    BY LenProperties
  <1> SUFFICES ASSUME NEW i \in 1 .. (Len(text) - 1), i < at + 1, text[i] = "prefix", i = 1 \/ text[i - 1] # "letter"
               PROVE  text[i + 1] \in {"blank", Dots}
    BY DEF HasNoKey
  <1>2. CASE i < start
    BY <1>2 DEF HasNoKey
  <1>3. CASE ~(i < start)
    <2>1. i = at
      <3> SUFFICES ASSUME i # at PROVE FALSE
        OBVIOUS
      <3>1. i \in start .. at - 1
        BY <1>3
      <3> QED BY <3>1
    <2>2. at + 1 \in 1 .. Len(text) + 1 /\ at + 1 <= Len(text)
      BY <1>1, <2>1
    <2> DEFINE end == KeyEnd(text, at + 1)
    <2>3. end \in at + 1 .. Len(text) + 1 /\ (end <= Len(text) => text[end] = "blank")
      BY <2>2, KeyEndIs
    <2>4. ~(end > at + 1)
      BY <2>1 DEF KeyAt, IsBoundary
    <2> HIDE DEF end
    <2>5. end = i + 1 /\ end <= Len(text)
      BY <1>1, <2>1, <2>2, <2>3, <2>4
    <2> QED BY <2>3, <2>5
  <1> QED BY <1>2, <1>3

(* The content before the cut, and the dots.                               *)
LEMMA CutIs ==
  ASSUME NEW S, Dots \in S, NEW text \in Seq(S), NEW keep \in 1 .. Len(text) - 1, NEW out,
         out = Append(SubSeq(text, 1, keep), Dots)
  PROVE  IsCutOut(S, text, keep + 1, Dots, Len(text) + 1, out)
  <1> DEFINE front == Part(text, 1, keep)
  <1>1. Len(text) \in Nat
    BY LenProperties
  <1>2. front \in Seq(S) /\ Len(front) = keep /\ \A i \in 1 .. keep : front[i] = text[i]
    <2>1. 1 \in 1 .. Len(text) + 1 /\ keep \in 1 - 1 .. Len(text) /\ keep - 1 + 1 = keep
      BY <1>1
    <2>2. /\ front \in Seq(S) /\ Len(front) = keep - 1 + 1
          /\ \A i \in 1 .. keep - 1 + 1 : front[i] = text[1 + i - 1]
      BY <2>1, PartIs
    <2>3. \A i \in 1 .. keep : 1 + i - 1 = i
      OBVIOUS
    <2> HIDE DEF front
    <2> QED BY <2>1, <2>2, <2>3
  <1>3. out = Append(front, Dots)
    BY Zenon DEF Part
  <1> HIDE DEF front
  <1>4. /\ out \in Seq(S) /\ Len(out) = Len(front) + 1 /\ (\A i \in 1 .. Len(front) : out[i] = front[i])
        /\ out[Len(front) + 1] = Dots
    BY <1>2, <1>3, AppendProperties
  <1>5. keep + 1 + (Len(text) - (Len(text) + 1) + 1) = keep + 1 /\ (keep + 1) - 1 = keep
    BY <1>1
  <1>6. (keep + 1) + 1 .. Len(out) = {}
    BY <1>2, <1>4
  <1>7. \A i \in 1 .. (keep + 1) - 1 : out[i] = text[i]
    BY <1>2, <1>4, <1>5
  <1> QED BY <1>2, <1>4, <1>5, <1>6, <1>7 DEF IsCutOut

LEMMA CutHasNoKey ==
  ASSUME NEW S, NEW text \in Seq(S), NEW keep \in 1 .. Len(text) - 1, HasNoKey(text, Len(text)), NEW out,
         IsCutOut(S, text, keep + 1, Dots, Len(text) + 1, out)
  PROVE  HasNoKey(out, Len(out))
  <1>1. Len(text) \in Nat
    BY LenProperties
  <1>2. /\ Len(out) = keep + 1 /\ out[keep + 1] = Dots
        /\ \A i \in 1 .. keep : out[i] = text[i]
    <2>1. keep + 1 + (Len(text) - (Len(text) + 1) + 1) = keep + 1 /\ (keep + 1) - 1 = keep
      BY <1>1
    <2> QED BY <2>1 DEF IsCutOut
  <1> SUFFICES ASSUME NEW i \in 1 .. (Len(out) - 1), out[i] = "prefix", i = 1 \/ out[i - 1] # "letter"
               PROVE  out[i + 1] \in {"blank", Dots}
    BY DEF HasNoKey
  <1>3. i \in 1 .. keep
    BY <1>2
  <1>4. CASE i = keep
    BY <1>2, <1>4
  <1>5. CASE i # keep
    <2>1. i + 1 \in 1 .. keep /\ i \in 1 .. (Len(text) - 1) /\ i < Len(text)
      BY <1>1, <1>3, <1>5
    <2>2. i = 1 \/ text[i - 1] # "letter"
      <3>1. CASE i = 1
        BY <3>1
      <3>2. CASE i # 1
        <4>1. i - 1 \in 1 .. keep
          BY <3>2, <1>3
        <4> QED BY <3>2, <4>1, <1>2
      <3> QED BY <3>1, <3>2
    <2>3. text[i + 1] \in {"blank", Dots}
      BY <1>2, <1>3, <2>1, <2>2 DEF HasNoKey
    <2> QED BY <1>2, <2>1, <2>3
  <1> QED BY <1>4, <1>5

LEMMA DotsHaveNone ==
  ASSUME NEW S, Dots \in S, NEW other \in Seq(S), other # <<>>, IsPlainSecret(other)
  PROVE  HasNone(<<Dots>>, other) /\ HasNoKey(<<Dots>>, Len(<<Dots>>))
  <1> DEFINE out == <<Dots>>
  <1>1. out \in Seq(S) /\ Len(out) = 1 /\ out[1] = Dots
    OBVIOUS
  <1>2. Len(other) \in Nat /\ Len(other) >= 1
    <2>1. Len(other) \in Nat /\ Len(other) # 0
      BY LenProperties, EmptySeq
    <2> QED BY <2>1
  <1> HIDE DEF out
  <1>3. HasNone(out, other)
    <2> SUFFICES ASSUME NEW i \in 1 .. Len(out), IsAt(out, i, other) PROVE FALSE
      BY DEF HasNone
    <2>1. Holds(out, i, other)
      BY <1>1, IsAtIs
    <2>2. 1 \in 1 .. Len(other) /\ i + 1 - 1 = 1
      BY <1>1, <1>2
    <2>3. out[i + 1 - 1] = other[1]
      BY <2>1, <2>2 DEF Holds
    <2> QED BY <2>2, <2>3, <1>1 DEF IsPlainSecret
  <1>4. HasNoKey(out, Len(out))
    <2>1. 1 .. (Len(out) - 1) = {}
      BY <1>1
    <2> QED BY <2>1 DEF HasNoKey
  <1> QED BY <1>3, <1>4 DEF out


-------------------------------------------------------------------------------
(* What holds of a result on its way.                                      *)
Tokens == STRING \cup {Redacted, Dots}
Results ==
  [stage: {"secrets", "patterns", "format", "done"}, text: Seq(Tokens), details: Nat,
   start: Nat \ {0}, next: Nat \ {0}]

(* The secrets the loop has passed are gone, no key starts before the      *)
(* place the next is looked for, and what is done fits.                    *)
ResultInv ==
  /\ result \in Results /\ result.next <= Len(Secrets) + 1
  /\ result.stage # "secrets" => result.next = Len(Secrets) + 1
  /\ result.stage = "secrets" => result.start = 1
  /\ result.stage = "patterns" => result.start <= Len(result.text) + 1
  /\ \A k \in 1 .. Len(Secrets) : k < result.next => HasNone(result.text, Secrets[k])
  /\ result.stage \in {"secrets", "patterns"} => HasNoKey(result.text, result.start)
  /\ result.stage \in {"format", "done"} => HasNoKey(result.text, Len(result.text))
  /\ result.stage = "done" => Size(result.text, result.details) <= MaxChars \/ result.text = <<Dots>>

LEMMA ResultNumbers ==
  Details \subseteq Nat /\ Overhead \in Nat /\ MaxChars \in Nat /\ Margin \in Nat /\ Margin >= 1
  BY ResultConstants

LEMMA SecretIs ==
  /\ Len(Secrets) \in Nat
  /\ \A k \in 1 .. Len(Secrets) : Secrets[k] \in Seq(Tokens) /\ Secrets[k] # <<>> /\ IsPlainSecret(Secrets[k])
  <1>1. Secrets \in Seq(Seq(STRING) \ {<<>>})
    BY ResultConstants
  <1>2. Len(Secrets) \in Nat
    BY <1>1, LenProperties
  <1> SUFFICES ASSUME NEW k \in 1 .. Len(Secrets)
               PROVE  Secrets[k] \in Seq(Tokens) /\ Secrets[k] # <<>> /\ IsPlainSecret(Secrets[k])
    BY <1>2
  <1> DEFINE secret == Secrets[k]
  <1>3. secret \in Seq(STRING) \ {<<>>}
    BY <1>1, ElementOfSeq
  <1>4. IsPlainSecret(secret)
    BY ResultConstants DEF IsPlainSecret
  <1> HIDE DEF secret
  <1>5. secret \in Seq(Tokens)
    BY <1>3 DEF Tokens
  <1> QED BY <1>3, <1>4, <1>5 DEF secret

LEMMA OutputIs == ASSUME NEW text \in ToolOutputs PROVE text \in Seq(Tokens)
  <1>1. text \in Seq(STRING)
    BY ResultConstants
  <1> QED BY <1>1 DEF Tokens

LEMMA TokensAre == Redacted \in Tokens /\ Dots \in Tokens
  BY DEF Tokens

LEMMA SecretsAreMasked ==
  ASSUME ResultInv, RedactSecret
  PROVE  ResultInv' /\ GoesNearer
  <1> DEFINE text == result.text
             next == result.next
  <1>1. /\ result \in Results /\ result.stage = "secrets" /\ text \in Seq(Tokens) /\ next \in Nat \ {0}
        /\ result.start = 1 /\ next <= Len(Secrets) + 1 /\ Len(Secrets) \in Nat
    BY SecretIs DEF ResultInv, Results, RedactSecret
  <1>2. \A k \in 1 .. Len(Secrets) : k < next => HasNone(text, Secrets[k])
    BY DEF ResultInv
  <1>3. CASE next > Len(Secrets)
    <2>1. result' = [result EXCEPT !.stage = "patterns"]
      BY <1>3 DEF RedactSecret
    <2>2. /\ result'.stage = "patterns" /\ result'.text = text /\ result'.next = next /\ result'.start = 1
          /\ result' \in Results
      BY <1>1, <2>1 DEF Results
    <2>3. next = Len(Secrets) + 1 /\ Len(text) \in Nat
      BY <1>1, <1>3, LenProperties
    <2>4. 1 <= Len(text) + 1 /\ HasNoKey(text, 1)
      BY <1>1, <2>3 DEF HasNoKey
    <2> HIDE DEF text, next
    <2>5. ResultInv'
      BY <1>1, <1>2, <2>2, <2>3, <2>4 DEF ResultInv
    <2> QED BY <1>1, <2>2, <2>5 DEF GoesNearer
  <1>4. CASE ~(next > Len(Secrets))
    <2> DEFINE secret == Secrets[next]
               out == Masked(text, secret)
    <2>1. result' = [result EXCEPT !.next = @ + 1, !.text = Masked(@, Secrets[result.next])]
      BY <1>4 DEF RedactSecret
    <2>2. next \in 1 .. Len(Secrets)
      BY <1>1, <1>4
    <2>3. secret \in Seq(Tokens) /\ secret # <<>> /\ IsPlainSecret(secret)
      BY <2>2, SecretIs
    <2>4. out \in Seq(Tokens)
      BY <1>1, <2>3, MaskedKeeps, TokensAre
    <2>5. ASSUME NEW k \in 1 .. Len(Secrets), k < next + 1 PROVE HasNone(out, Secrets[k])
      <3>1. k = next \/ HasNone(text, Secrets[k])
        BY <1>1, <1>2, <2>5
      <3>2. Secrets[k] \in Seq(Tokens) /\ Secrets[k] # <<>> /\ IsPlainSecret(Secrets[k])
        BY SecretIs
      <3>3. Secrets[k] = secret \/ HasNone(text, Secrets[k])
        BY <3>1
      <3> HIDE DEF text, secret
      <3> QED BY <1>1, <2>3, <3>2, <3>3, MaskedHasNone, TokensAre
    <2>12. result' = [result EXCEPT !.next = next + 1, !.text = out]
      BY <2>1, Zenon
    <2>13. next + 1 \in Nat \ {0}
      BY <1>1
    <2> HIDE DEF out
    <2>6. /\ result'.stage = "secrets" /\ result'.text = out /\ result'.next = next + 1 /\ result'.start = 1
          /\ result' \in Results
      BY <1>1, <2>4, <2>12, <2>13 DEF Results
    <2>7. HasNoKey(out, 1)
      <3>1. \A i \in 1 .. (Len(out) - 1) : ~(i < 1)
        BY <2>4
      <3> QED BY <3>1 DEF HasNoKey
    <2> HIDE DEF text, next, secret
    <2>8. next + 1 <= Len(Secrets) + 1
      BY <1>1, <2>2
    <2>9. ResultInv'
      BY <2>5, <2>6, <2>7, <2>8 DEF ResultInv
    <2>10. /\ Remaining = Len(Secrets) + 1 - next /\ Remaining' = Len(Secrets) + 1 - (next + 1)
      BY <1>1, <2>6 DEF Remaining, next
    <2>11. Remaining \in Nat /\ Remaining' \in Nat /\ Remaining' < Remaining
      BY <1>1, <2>2, <2>10
    <2> QED BY <1>1, <2>6, <2>9, <2>11 DEF GoesNearer
  <1> QED BY <1>3, <1>4

LEMMA KeysAreReplaced ==
  ASSUME ResultInv, RedactPattern
  PROVE  ResultInv' /\ GoesNearer
  <1> DEFINE text == result.text
             start == result.start
             found == PrefixesFrom(text, start)
             at == First(found)
             L == Len(text)
  <1>1. /\ result \in Results /\ result.stage = "patterns" /\ text \in Seq(Tokens) /\ start \in Nat \ {0}
        /\ result.next = Len(Secrets) + 1 /\ start <= L + 1 /\ HasNoKey(text, start)
    BY DEF ResultInv, Results, RedactPattern
  <1>2. \A k \in 1 .. Len(Secrets) : HasNone(text, Secrets[k])
    <2>1. \A k \in 1 .. Len(Secrets) : k < Len(Secrets) + 1
      BY SecretIs
    <2> QED BY <1>1, <2>1 DEF ResultInv
  <1>3. L \in Nat /\ Len(Secrets) \in Nat
    BY <1>1, LenProperties, SecretIs
  <1>4. CASE found = {}
    <2>1. result' = [result EXCEPT !.stage = "format"]
      BY <1>4 DEF RedactPattern
    <2>2. /\ result'.stage = "format" /\ result'.text = text /\ result'.next = Len(Secrets) + 1
          /\ result' \in Results
      BY <1>1, <2>1 DEF Results
    <2>3. HasNoKey(text, L)
      <3> SUFFICES ASSUME NEW i \in 1 .. (Len(text) - 1), text[i] = "prefix", i = 1 \/ text[i - 1] # "letter"
                   PROVE  text[i + 1] \in {"blank", Dots}
        BY DEF HasNoKey
      <3>1. i < start
        <4> SUFFICES ASSUME ~(i < start) PROVE FALSE
          OBVIOUS
        <4>1. i \in start .. Len(text)
          BY <1>1, <1>3
        <4> QED BY <4>1, <1>4 DEF PrefixesFrom
      <3> QED BY <1>1, <3>1 DEF HasNoKey
    <2> HIDE DEF text, start, found, at
    <2>4. ResultInv'
      BY <1>2, <1>3, <2>2, <2>3 DEF ResultInv, L
    <2> QED BY <1>1, <2>2, <2>4 DEF GoesNearer
  <1>5. CASE found # {}
    <2> DEFINE end == KeyEnd(text, at + 1)
               out == IF KeyAt(text, at) THEN CutOut(text, at, Redacted, end) ELSE text
    <2>1. /\ at \in start .. L /\ text[at] = "prefix"
          /\ \A i \in start .. at - 1 : text[i] # "prefix"
      <3>1. found \subseteq Nat
        BY <1>1, <1>3 DEF PrefixesFrom
      <3>2. at \in found /\ \A i \in found : at <= i
        <4> HIDE DEF found
        <4> QED BY <1>5, <3>1, FirstIs
      <3> HIDE DEF at
      <3>3. at \in start .. L /\ text[at] = "prefix"
        BY <3>2 DEF PrefixesFrom
      <3>4. ASSUME NEW i \in start .. at - 1, text[i] = "prefix" PROVE FALSE
        <4>1. i \in start .. Len(text) /\ ~(at <= i)
          BY <1>1, <1>3, <3>3
        <4>2. i \in found
          BY <3>4, <4>1 DEF PrefixesFrom
        <4> QED BY <3>2, <4>1, <4>2
      <3> QED BY <3>3, <3>4
    <2>2. /\ result' = [result EXCEPT !.text = out, !.start = NextStart(at, out)]
      BY <1>5, Zenon DEF RedactPattern, CutOut
    <2> HIDE DEF found, at
    <2>3. at \in 1 .. Len(text) /\ at + 1 \in 1 .. Len(text) + 1
      BY <1>1, <1>3, <2>1
    <2> DEFINE Fine ==
                 /\ out \in Seq(Tokens) /\ Len(out) \in Nat /\ Len(out) <= L /\ at + 1 <= Len(out) + 1
                 /\ HasNoKey(out, at + 1) /\ \A k \in 1 .. Len(Secrets) : HasNone(out, Secrets[k])
    <2>4. ASSUME KeyAt(text, at) PROVE Fine
      <3>1. end \in at + 1 .. Len(text) + 1
        BY <1>1, <2>3, KeyEndIs
      <3>2. out = CutOut(text, at, Redacted, end)
        BY <2>4
      <3> HIDE DEF out, end
      <3>3. IsCutOut(Tokens, text, at, Redacted, end, out)
        <4> HIDE DEF text, start, L
        <4> QED BY <1>1, <2>3, <3>1, <3>2, CutOutIs, TokensAre
      <3>4. out \in Seq(Tokens) /\ Len(out) = at + (Len(text) - end + 1)
        BY <3>3 DEF IsCutOut
      <3>5. at + 1 <= Len(out) + 1 /\ Len(out) <= Len(text) /\ Len(out) \in Nat
        BY <1>3, <2>3, <3>1, <3>4
      <3>6. HasNoKey(out, at + 1)
        <4> HIDE DEF text, start
        <4>1. at \in start .. Len(text)
          BY <2>1 DEF L
        <4> QED BY <1>1, <2>1, <3>1, <3>3, <4>1, KeyIsCutOut
      <3>7. ASSUME NEW k \in 1 .. Len(Secrets) PROVE HasNone(out, Secrets[k])
        <4>1. Secrets[k] \in Seq(Tokens) /\ Secrets[k] # <<>> /\ IsPlainSecret(Secrets[k]) /\ HasNone(text, Secrets[k])
          BY <1>2, SecretIs
        <4> HIDE DEF text
        <4> QED BY <1>1, <2>3, <3>1, <3>3, <4>1, CutOutHasNone
      <3> QED BY <3>4, <3>5, <3>6, <3>7
    <2>5. ASSUME ~KeyAt(text, at) PROVE Fine
      <3>1. out = text
        BY <2>5
      <3>2. HasNoKey(text, at + 1)
        <4> HIDE DEF text, start
        <4>1. at \in start .. Len(text)
          BY <2>1 DEF L
        <4> QED BY <1>1, <2>1, <2>5, <4>1, KeyIsNone
      <3>3. at + 1 <= Len(text) + 1
        BY <1>3, <2>3
      <3>4. L <= L
        BY <1>3
      <3> HIDE DEF out, text
      <3> QED BY <1>1, <1>2, <1>3, <3>1, <3>2, <3>3, <3>4 DEF L
    <2>6. Fine
      <3> HIDE DEF Fine
      <3> QED BY <2>4, <2>5
    <2> HIDE DEF out, end
    <2>11. result' = [result EXCEPT !.text = out, !.start = at + 1] /\ at + 1 \in Nat \ {0}
      BY <2>2, <2>3 DEF NextStart
    <2>7. /\ result'.stage = "patterns" /\ result'.text = out /\ result'.start = at + 1
          /\ result'.next = Len(Secrets) + 1 /\ result' \in Results
      BY <1>1, <2>6, <2>11 DEF Results
    <2> HIDE DEF text, start
    <2>8. ResultInv'
      BY <1>3, <2>6, <2>7 DEF ResultInv
    <2>9. Remaining = L + 1 - start /\ Remaining' = Len(out) + 1 - (at + 1)
      BY <1>1, <2>7 DEF Remaining, text, start
    <2>10. Remaining \in Nat /\ Remaining' \in Nat /\ Remaining' < Remaining
      BY <1>1, <1>3, <2>1, <2>6, <2>9
    <2> QED BY <1>1, <2>7, <2>8, <2>10 DEF GoesNearer
  <1> QED BY <1>4, <1>5

LEMMA CutsFit ==
  ASSUME ResultInv, Format
  PROVE  ResultInv' /\ GoesNearer
  <1> DEFINE text == result.text
             details == result.details
             L == Len(text)
             size == Size(text, details)
             keep == Shortened(text, size - MaxChars)
  <1>1. /\ result \in Results /\ result.stage = "format" /\ text \in Seq(Tokens) /\ details \in Nat
        /\ result.next = Len(Secrets) + 1 /\ HasNoKey(text, L)
    BY DEF ResultInv, Results, Format
  <1>2. \A k \in 1 .. Len(Secrets) : HasNone(text, Secrets[k])
    <2>1. \A k \in 1 .. Len(Secrets) : k < Len(Secrets) + 1
      BY SecretIs
    <2> QED BY <1>1, <2>1 DEF ResultInv
  <1>3. L \in Nat /\ Len(Secrets) \in Nat /\ size \in Nat /\ size = Overhead + L + details
    <2>1. L \in Nat
      BY <1>1, LenProperties
    <2> HIDE DEF text, L, details
    <2>2. size = Overhead + L + details
      BY DEF Size, L
    <2> QED BY <1>1, <2>1, <2>2, SecretIs, ResultNumbers
  <1>4. CASE size <= MaxChars
    <2>1. result' = [result EXCEPT !.stage = "done"]
      BY <1>4 DEF Format
    <2>2. /\ result'.stage = "done" /\ result'.text = text /\ result'.next = Len(Secrets) + 1
          /\ result'.details = details /\ result' \in Results
      BY <1>1, <2>1 DEF Results
    <2> HIDE DEF text, details, L
    <2>3. ResultInv'
      BY <1>1, <1>2, <1>3, <1>4, <2>2 DEF ResultInv, L
    <2> QED BY <1>1, <2>2, <2>3 DEF GoesNearer
  <1>5. CASE ~(size <= MaxChars) /\ details > 0 /\ Size(text, 0) <= MaxChars
    <2>1. result' = [result EXCEPT !.stage = "done", !.details = 0]
      BY <1>5 DEF Format
    <2>2. /\ result'.stage = "done" /\ result'.text = text /\ result'.next = Len(Secrets) + 1
          /\ result'.details = 0 /\ result' \in Results
      BY <1>1, <2>1 DEF Results
    <2> HIDE DEF text, details, L
    <2>3. ResultInv'
      BY <1>1, <1>2, <1>3, <1>5, <2>2 DEF ResultInv, L
    <2> QED BY <1>1, <2>2, <2>3 DEF GoesNearer
  <1>6. CASE ~(size <= MaxChars) /\ ~(details > 0 /\ Size(text, 0) <= MaxChars) /\ keep = 0
    <2>1. result' = [result EXCEPT !.stage = "done", !.details = 0, !.text = <<Dots>>]
      BY <1>6 DEF Format
    <2> DEFINE out == <<Dots>>
    <2>2. out \in Seq(Tokens) /\ HasNoKey(out, Len(out))
          /\ \A k \in 1 .. Len(Secrets) : HasNone(out, Secrets[k])
      <3>1. out \in Seq(Tokens) /\ Len(out) = 1
        BY TokensAre
      <3>2. HasNoKey(out, Len(out))
        <4> HIDE DEF out
        <4>1. 1 .. (Len(out) - 1) = {}
          BY <3>1
        <4> QED BY <4>1 DEF HasNoKey
      <3>3. ASSUME NEW k \in 1 .. Len(Secrets) PROVE HasNone(out, Secrets[k])
        BY SecretIs, TokensAre, DotsHaveNone
      <3> HIDE DEF out
      <3> QED BY <3>1, <3>2, <3>3
    <2>3. result' = [result EXCEPT !.stage = "done", !.details = 0, !.text = out] /\ out = <<Dots>>
      BY <2>1
    <2> HIDE DEF out
    <2>4. /\ result'.stage = "done" /\ result'.text = out /\ result'.next = Len(Secrets) + 1
          /\ result' \in Results
      BY <1>1, <2>2, <2>3 DEF Results
    <2>5. ResultInv'
      BY <1>3, <2>2, <2>3, <2>4 DEF ResultInv
    <2> QED BY <1>1, <2>4, <2>5 DEF GoesNearer
  <1>7. CASE ~(size <= MaxChars) /\ ~(details > 0 /\ Size(text, 0) <= MaxChars) /\ keep # 0
    <2> DEFINE out == Append(SubSeq(text, 1, keep), Dots)
    <2>1. result' = [result EXCEPT !.text = out]
      BY <1>7 DEF Format
    <2>2. keep \in 1 .. L - 1
      <3> DEFINE excess == size - MaxChars
      <3>1. excess \in Int /\ excess >= 1 /\ Margin \in Nat /\ Margin >= 1
        BY <1>3, <1>7, ResultNumbers
      <3>2. keep = IF L <= excess + Margin THEN 0 ELSE L - (excess + Margin)
        BY DEF Shortened
      <3> HIDE DEF excess, keep, L
      <3> QED BY <1>3, <1>7, <3>1, <3>2
    <2> HIDE DEF keep
    <2>3. out = Append(SubSeq(text, 1, keep), Dots)
      OBVIOUS
    <2> HIDE DEF out, text
    <2>4. IsCutOut(Tokens, text, keep + 1, Dots, Len(text) + 1, out)
      BY <1>1, <2>2, <2>3, CutIs, TokensAre
    <2>5. out \in Seq(Tokens) /\ Len(out) = keep + 1 /\ Len(out) < L /\ Len(out) \in Nat
      <3>1. out \in Seq(Tokens) /\ Len(out) = keep + 1 + (Len(text) - (Len(text) + 1) + 1)
        BY <2>4 DEF IsCutOut
      <3>2. keep + 1 + (L - (L + 1) + 1) = keep + 1
        BY <1>3, <2>2
      <3>3. Len(out) = keep + 1
        BY <3>1, <3>2
      <3>4. Len(out) \in Nat
        BY <3>1, LenProperties
      <3>5. keep + 1 # L
        <4>1. Margin >= 1 /\ size - MaxChars >= 1 /\ Margin \in Nat /\ MaxChars \in Nat
          BY <1>3, <1>7, ResultNumbers
        <4>2. L > (size - MaxChars) + Margin /\ keep = L - ((size - MaxChars) + Margin)
          <5> DEFINE excess == size - MaxChars
          <5>1. excess \in Int /\ L \in Nat /\ Margin \in Nat
            BY <1>3, <4>1
          <5>2. keep = IF L <= excess + Margin THEN 0 ELSE L - (excess + Margin)
            BY DEF Shortened, keep
          <5> HIDE DEF excess, L
          <5>3. L > excess + Margin /\ keep = L - (excess + Margin)
            BY <1>7, <5>1, <5>2
          <5> QED BY <5>3 DEF excess
        <4> HIDE DEF size
        <4> QED BY <1>3, <4>1, <4>2
      <3> QED BY <1>3, <2>2, <3>1, <3>3, <3>4, <3>5
    <2>6. HasNoKey(out, Len(out))
      BY <1>1, <2>2, <2>4, CutHasNoKey
    <2>7. ASSUME NEW k \in 1 .. Len(Secrets) PROVE HasNone(out, Secrets[k])
      <3>1. /\ Secrets[k] \in Seq(Tokens) /\ Secrets[k] # <<>> /\ IsPlainSecret(Secrets[k]) /\ HasNone(text, Secrets[k])
        BY <1>2, SecretIs
      <3>2. /\ keep + 1 \in 1 .. Len(text) /\ Dots \in {Redacted, Dots}
            /\ Len(text) + 1 \in (keep + 1) + 1 .. Len(text) + 1
        BY <1>3, <2>2
      <3> QED BY <1>1, <2>4, <3>1, <3>2, CutOutHasNone
    <2>8. /\ result'.stage = "format" /\ result'.text = out /\ result'.next = Len(Secrets) + 1
          /\ result' \in Results
      BY <1>1, <2>1, <2>5 DEF Results
    <2>9. ResultInv'
      BY <1>3, <2>5, <2>6, <2>7, <2>8 DEF ResultInv
    <2>10. Remaining = L /\ Remaining' = Len(out)
      BY <1>1, <2>8 DEF Remaining, text
    <2> QED BY <1>1, <1>3, <2>5, <2>8, <2>9, <2>10 DEF GoesNearer
  <1> QED BY <1>4, <1>5, <1>6, <1>7

LEMMA ResultStarts == ResultInit => ResultInv
  <1> SUFFICES ASSUME ResultInit PROVE ResultInv
    OBVIOUS
  <1>1. /\ result.stage = "secrets" /\ result.start = 1 /\ result.next = 1 /\ result \in Results
    <2>1. /\ result \in [stage: {"secrets"}, text: ToolOutputs, details: Details, start: {1}, next: {1}]
          /\ result.text \in Seq(Tokens) /\ result.details \in Nat
      BY OutputIs, ResultNumbers DEF ResultInit
    <2> QED BY <2>1 DEF Results
  <1>2. Len(result.text) \in Nat
    BY <1>1, LenProperties DEF Results
  <1>3. HasNoKey(result.text, 1)
    <2>1. \A i \in 1 .. (Len(result.text) - 1) : ~(i < 1)
      BY <1>2
    <2> QED BY <2>1 DEF HasNoKey
  <1>4. 1 <= Len(Secrets) + 1 /\ \A k \in 1 .. Len(Secrets) : ~(k < 1)
    BY SecretIs
  <1> QED BY <1>1, <1>3, <1>4 DEF ResultInv


(* Whatever a tool returns, and whatever the secrets: a result that is     *)
(* done holds no secret and no key and is within the budget, or is only    *)
(* the dots (redact_secrets, redact_patterns, format_tool_result).         *)
THEOREM ResultsAreRight == ResultSpec => []DoneIsRight
  <1>1. ResultInv /\ [ResultNext]_resultVars => ResultInv'
    <2> SUFFICES ASSUME ResultInv, [ResultNext]_resultVars PROVE ResultInv'
      OBVIOUS
    <2>1. CASE ResultNext
      BY <2>1, SecretsAreMasked, KeysAreReplaced, CutsFit DEF ResultNext
    <2>2. CASE UNCHANGED resultVars
      BY <2>2 DEF resultVars, ResultInv
    <2> QED BY <2>1, <2>2
  <1>2. ResultInv => DoneIsRight
    <2> SUFFICES ASSUME ResultInv, result.stage = "done" PROVE DoneIsRight
      BY DEF DoneIsRight
    <2>1. \A k \in 1 .. Len(Secrets) : k < Len(Secrets) + 1
      BY SecretIs
    <2> QED BY <2>1 DEF ResultInv, DoneIsRight
  <1> QED BY ResultStarts, <1>1, <1>2, PTL DEF ResultSpec

(* Every turn of a loop leaves less to look at, or ends the loop: with     *)
(* what is left a natural number, no output keeps the loops from ending    *)
(* (redact_patterns' search_start, the re-cut of format_tool_result).      *)
THEOREM ResultsGoOn == ResultSpec => [][GoesNearer]_resultVars
  <1>1. ResultInv /\ [ResultNext]_resultVars => ResultInv' /\ [GoesNearer]_resultVars
    <2> SUFFICES ASSUME ResultInv, [ResultNext]_resultVars PROVE ResultInv' /\ [GoesNearer]_resultVars
      OBVIOUS
    <2>1. CASE ResultNext
      BY <2>1, SecretsAreMasked, KeysAreReplaced, CutsFit DEF ResultNext
    <2>2. CASE UNCHANGED resultVars
      BY <2>2 DEF resultVars, ResultInv
    <2> QED BY <2>1, <2>2
  <1> QED BY ResultStarts, <1>1, PTL DEF ResultSpec

===============================================================================
