--------------------------- MODULE PipelineProofs ----------------------------
(***************************************************************************)
(* What the pipelines' lock table, and the ingests that its keys keep from *)
(* running at once, promise. Of WorkflowLocks, for every set of leases and *)
(* lock keys, every lease length and every bound on the clock: who holds a *)
(* key, and that it implements LeaseTable. Of the ingests, for any number  *)
(* of runs, items, failures and restarts, what they leave behind. Of the   *)
(* history extension (HistoryIngest): the cursor passes no visit that has  *)
(* not been saved, the compacted files tell of all of them once no         *)
(* compaction is left to do, and no two page views share a visit while no  *)
(* run was cut short. Of another source (SourceIngest): the cursor passes  *)
(* only what its run has saved or named as passed.                         *)
(***************************************************************************)
EXTENDS WorkflowLocks, HistoryIngest, SourceIngest, WellFoundedInduction, TLAPS

-------------------------------------------------------------------------------
(* The lock table.                                                         *)

\* A clock reading in use is never ahead of the clock.
ReadingsArePast ==
  /\ \A l \in Leases : since[l] <= clock
  /\ sweeping <= clock

\* A row names a lease on its own key that has been acquired.
RowsAreAcquired ==
  \A k \in LockKeys :
    /\ rows[k].lease = NoLease => rows[k] = Absent
    /\ \A l \in Leases : rows[k].lease = l =>
         /\ LockKeyOf[l] = k
         /\ stage[l] \notin {"idle", "acquiring"}

\* The row of a lease in use expires no later than its next beat makes it.
BeatsExtend ==
  \A l \in Leases :
    (Executing(l) /\ rows[LockKeyOf[l]].lease = l) =>
      rows[LockKeyOf[l]].expires <= since[l] + LeaseSeconds

\* Who is not late: who reads, commits in time; who executes, holds a row that
\* outlasts the deadline of its next commit.
Deadlines ==
  \A l \in Leases \ late :
    /\ stage[l] \in {"acquiring", "beating"} => clock <= since[l] + MaxDelay
    /\ stage[l] = "holding" =>
         /\ clock <= since[l] + HeartbeatEvery
         /\ rows[LockKeyOf[l]].lease = l
         /\ since[l] + HeartbeatEvery + MaxDelay <= rows[LockKeyOf[l]].expires
    /\ stage[l] = "beating" =>
         /\ rows[LockKeyOf[l]].lease = l
         /\ since[l] + MaxDelay <= rows[LockKeyOf[l]].expires

IInv == TypeOK /\ ReadingsArePast /\ RowsAreAcquired /\ BeatsExtend /\ Deadlines
-----------------------------------------------------------------------------
LEMMA InitIInv == Init => IInv
  <1> SUFFICES ASSUME Init PROVE IInv
    OBVIOUS
  <1> USE LocksConstants DEF Init
  <1>1. TypeOK
    BY DEF TypeOK, Stages, Absent
  <1>2. ReadingsArePast /\ RowsAreAcquired
    BY DEF ReadingsArePast, RowsAreAcquired, Absent
  <1>3. BeatsExtend /\ Deadlines
    BY DEF BeatsExtend, Deadlines, Executing, Absent
  <1> QED
    BY <1>1, <1>2, <1>3 DEF IInv

LEMMA TypeStep ==
  ASSUME TypeOK, [Next]_vars
  PROVE  TypeOK'
  <1> USE LocksConstants DEF TypeOK, Stages, Absent
  <1>1. ASSUME NEW l \in Leases, BeginAcquire(l) PROVE TypeOK'
    BY <1>1 DEF BeginAcquire
  <1>2. ASSUME NEW l \in Leases, CommitAcquire(l) PROVE TypeOK'
    BY <1>2 DEF CommitAcquire
  <1>3. ASSUME NEW l \in Leases, RefuseAcquire(l) PROVE TypeOK'
    BY <1>3 DEF RefuseAcquire
  <1>4. ASSUME NEW l \in Leases, BeginBeat(l) PROVE TypeOK'
    BY <1>4 DEF BeginBeat
  <1>5. ASSUME NEW l \in Leases, CommitBeat(l) PROVE TypeOK'
    BY <1>5 DEF CommitBeat
  <1>6. ASSUME NEW l \in Leases, FailBeat(l) PROVE TypeOK'
    BY <1>6 DEF FailBeat
  <1>7. ASSUME NEW l \in Leases, StopBeats(l) PROVE TypeOK'
    BY <1>7 DEF StopBeats
  <1>8. ASSUME NEW l \in Leases, CommitRelease(l) PROVE TypeOK'
    BY <1>8 DEF CommitRelease
  <1>9. ASSUME NEW l \in Leases, Die(l) PROVE TypeOK'
    BY <1>9 DEF Die
  <1>10. CASE BeginSweep
    BY <1>10 DEF BeginSweep
  <1>11. CASE CommitSweep
    BY <1>11 DEF CommitSweep
  <1>12. CASE Tick
    BY <1>12 DEF Tick, Due
  <1>13. CASE UNCHANGED vars
    BY <1>13 DEF vars
  <1> QED
    BY <1>1, <1>2, <1>3, <1>4, <1>5, <1>6, <1>7, <1>8, <1>9, <1>10, <1>11,
       <1>12, <1>13 DEF Next

LEMMA InvStep ==
  ASSUME IInv, [Next]_vars
  PROVE  IInv'
  <1> USE LocksConstants, LeaseCoversHeartbeat
  <1>t. TypeOK'
    BY TypeStep DEF IInv
  <1> DEFINE Rest == ReadingsArePast /\ RowsAreAcquired /\ BeatsExtend /\ Deadlines
  <1>1. ASSUME NEW l \in Leases, BeginAcquire(l) PROVE Rest'
    BY <1>1, <1>t DEF BeginAcquire, IInv, TypeOK, ReadingsArePast, RowsAreAcquired,
         BeatsExtend, Deadlines, Executing, Absent
  <1>2. ASSUME NEW l \in Leases, CommitAcquire(l) PROVE Rest'
    BY <1>2, <1>t DEF CommitAcquire, Expired, IInv, TypeOK, ReadingsArePast,
         RowsAreAcquired, BeatsExtend, Deadlines, Executing, Absent
  <1>3. ASSUME NEW l \in Leases, RefuseAcquire(l) PROVE Rest'
    BY <1>3, <1>t DEF RefuseAcquire, IInv, TypeOK, ReadingsArePast, RowsAreAcquired,
         BeatsExtend, Deadlines, Executing, Absent
  <1>4. ASSUME NEW l \in Leases, BeginBeat(l) PROVE Rest'
    BY <1>4, <1>t DEF BeginBeat, IInv, TypeOK, ReadingsArePast, RowsAreAcquired,
         BeatsExtend, Deadlines, Executing, Absent
  <1>5. ASSUME NEW l \in Leases, CommitBeat(l) PROVE Rest'
    BY <1>5, <1>t DEF CommitBeat, IInv, TypeOK, ReadingsArePast, RowsAreAcquired,
         BeatsExtend, Deadlines, Executing, Absent
  <1>6. ASSUME NEW l \in Leases, FailBeat(l) PROVE Rest'
    BY <1>6, <1>t DEF FailBeat, IInv, TypeOK, ReadingsArePast, RowsAreAcquired,
         BeatsExtend, Deadlines, Executing, Absent
  <1>7. ASSUME NEW l \in Leases, StopBeats(l) PROVE Rest'
    BY <1>7, <1>t DEF StopBeats, IInv, TypeOK, ReadingsArePast, RowsAreAcquired,
         BeatsExtend, Deadlines, Executing, Absent
  <1>8. ASSUME NEW l \in Leases, CommitRelease(l) PROVE Rest'
    BY <1>8, <1>t DEF CommitRelease, IInv, TypeOK, ReadingsArePast, RowsAreAcquired,
         BeatsExtend, Deadlines, Executing, Absent
  <1>9. ASSUME NEW l \in Leases, Die(l) PROVE Rest'
    BY <1>9, <1>t DEF Die, IInv, TypeOK, ReadingsArePast, RowsAreAcquired,
         BeatsExtend, Deadlines, Executing, Absent
  <1>10. CASE BeginSweep
    BY <1>10, <1>t DEF BeginSweep, IInv, TypeOK, ReadingsArePast, RowsAreAcquired,
         BeatsExtend, Deadlines, Executing, Absent
  <1>11. CASE CommitSweep
    BY <1>11, <1>t DEF CommitSweep, Expired, IInv, TypeOK, ReadingsArePast,
         RowsAreAcquired, BeatsExtend, Deadlines, Executing, Absent
  <1>12. CASE Tick
    BY <1>12, <1>t DEF Tick, Due, IInv, TypeOK, ReadingsArePast, RowsAreAcquired,
         BeatsExtend, Deadlines, Executing, Absent
  <1>13. CASE UNCHANGED vars
    BY <1>13, <1>t DEF vars, IInv, TypeOK, ReadingsArePast, RowsAreAcquired,
         BeatsExtend, Deadlines, Executing, Absent
  <1> QED
    BY <1>t, <1>1, <1>2, <1>3, <1>4, <1>5, <1>6, <1>7, <1>8, <1>9, <1>10, <1>11,
       <1>12, <1>13 DEF Next, IInv

\* The inductive invariant holds in every reachable state.
THEOREM Invariance == Spec => []IInv
  <1>1. IInv /\ [Next]_vars => IInv'
    BY InvStep
  <1> QED
    BY InitIInv, <1>1, PTL DEF Spec

\* Type correctness of the timed lock manager.
THEOREM TypeCorrect == Spec => []TypeOK
  <1>1. IInv => TypeOK
    BY DEF IInv
  <1> QED
    BY Invariance, <1>1, PTL
-----------------------------------------------------------------------------
\* Runs that execute at the same time without being late have different lock
\* keys: both would be named by the one row of the key (Deadlines).
THEOREM Exclusion == Spec => []MutualExclusion
  <1>1. IInv => MutualExclusion
    BY DEF IInv, Deadlines, MutualExclusion, Executing
  <1> QED
    BY Invariance, <1>1, PTL

\* acquire() and cleanup_stale_locks() never remove a live row, however old
\* their clock readings: a reading lies in the past (ReadingsArePast), so a row
\* that is expired for the reading is expired now.
THEOREM LiveRowsAreSafe == Spec => LiveRowIsSafe
  <1> DEFINE Safe == \A k \in LockKeys :
               (rows[k].lease # NoLease /\ rows[k].expires >= clock
                  /\ rows'[k].lease # rows[k].lease)
               => stage[rows[k].lease] = "stopping"
  <1>1. IInv /\ [Next]_vars => [Safe]_vars
    <2> SUFFICES ASSUME IInv, Next, NEW k \in LockKeys,
                        rows[k].lease # NoLease, rows[k].expires >= clock,
                        rows'[k].lease # rows[k].lease
                 PROVE  stage[rows[k].lease] = "stopping"
      OBVIOUS
    <2> USE LocksConstants DEF IInv, TypeOK, ReadingsArePast
    <2>1. ASSUME NEW l \in Leases, CommitAcquire(l) PROVE FALSE
      BY <2>1 DEF CommitAcquire, Expired
    <2>2. CASE CommitSweep
      BY <2>2 DEF CommitSweep, Expired, Absent
    <2>3. ASSUME NEW l \in Leases, CommitRelease(l)
          PROVE  stage[rows[k].lease] = "stopping"
      BY <2>3 DEF CommitRelease
    <2>4. ASSUME NEW l \in Leases, CommitBeat(l) PROVE FALSE
      BY <2>4 DEF CommitBeat
    <2>5. ASSUME NEW l \in Leases,
                 BeginAcquire(l) \/ RefuseAcquire(l) \/ BeginBeat(l) \/ FailBeat(l)
                   \/ StopBeats(l) \/ Die(l)
          PROVE  FALSE
      BY <2>5 DEF BeginAcquire, RefuseAcquire, BeginBeat, FailBeat, StopBeats, Die
    <2>6. CASE BeginSweep \/ Tick
      BY <2>6 DEF BeginSweep, Tick
    <2> QED
      BY <2>1, <2>2, <2>3, <2>4, <2>5, <2>6 DEF Next
  <1> QED
    BY Invariance, <1>1, PTL DEF Spec, LiveRowIsSafe

\* heartbeat() never brings an expiry forward: the reading a beat commits was
\* taken after the commit the row's expiry stems from (BeatsExtend).
THEOREM LeasesAreOnlyExtended == Spec => LeaseOnlyExtended
  <1> DEFINE Longer == \A k \in LockKeys :
               (rows[k].lease # NoLease /\ rows'[k].lease = rows[k].lease)
               => rows'[k].expires >= rows[k].expires
  <1>1. IInv /\ [Next]_vars => [Longer]_vars
    <2> SUFFICES ASSUME IInv, Next, NEW k \in LockKeys,
                        rows[k].lease # NoLease, rows'[k].lease = rows[k].lease
                 PROVE  rows'[k].expires >= rows[k].expires
      OBVIOUS
    <2> USE LocksConstants DEF IInv, TypeOK
    <2>1. ASSUME NEW l \in Leases, CommitAcquire(l)
          PROVE  rows'[k].expires >= rows[k].expires
      BY <2>1 DEF CommitAcquire, RowsAreAcquired
    <2>2. CASE CommitSweep
      BY <2>2 DEF CommitSweep, Absent
    <2>3. ASSUME NEW l \in Leases, CommitRelease(l)
          PROVE  rows'[k].expires >= rows[k].expires
      BY <2>3 DEF CommitRelease, Absent
    <2>4. ASSUME NEW l \in Leases, CommitBeat(l)
          PROVE  rows'[k].expires >= rows[k].expires
      BY <2>4 DEF CommitBeat, BeatsExtend, Executing
    <2>5. ASSUME NEW l \in Leases,
                 BeginAcquire(l) \/ RefuseAcquire(l) \/ BeginBeat(l) \/ FailBeat(l)
                   \/ StopBeats(l) \/ Die(l)
          PROVE  rows'[k].expires >= rows[k].expires
      BY <2>5 DEF BeginAcquire, RefuseAcquire, BeginBeat, FailBeat, StopBeats, Die
    <2>6. CASE BeginSweep \/ Tick
      BY <2>6 DEF BeginSweep, Tick
    <2> QED
      BY <2>1, <2>2, <2>3, <2>4, <2>5, <2>6 DEF Next
  <1> QED
    BY Invariance, <1>1, PTL DEF Spec, LeaseOnlyExtended
-----------------------------------------------------------------------------
(* Refinement of LeaseTable: a row is live while its expiry is not past.   *)

LEMMA InitRefines == Init => Table!TableInit
  BY DEF Init, Holder, Live, Table!TableInit, Absent

LEMMA StepRefines ==
  ASSUME IInv, [Next]_vars
  PROVE  Table!TableNext \/ UNCHANGED <<Holder, Live>>
  <1> USE LocksConstants DEF IInv, TypeOK, ReadingsArePast
  <1>1. ASSUME NEW l \in Leases, CommitAcquire(l) PROVE Table!TableNext
    <2> DEFINE k == LockKeyOf[l]
               new == [lease |-> l, expires |-> since[l] + LeaseSeconds]
    <2>1. k \in LockKeys /\ k \notin Live
      BY <1>1 DEF CommitAcquire, Expired, RowsAreAcquired, Absent, Live
    <2>2. rows' = [rows EXCEPT ![k] = new] /\ clock' = clock
      BY <1>1 DEF CommitAcquire
    <2>3. Holder' = [Holder EXCEPT ![k] = l]
      BY <2>2 DEF Holder
    <2>4. CASE new.expires >= clock
      <3>1. Live' = Live \cup {k}
        BY <2>1, <2>2, <2>4 DEF Live
      <3>2. Table!Acquire(k, l, TRUE)
        BY <2>1, <2>3, <3>1 DEF Table!Acquire, Table!Stamp
      <3> QED
        BY <2>1, <3>2 DEF Table!TableNext
    <2>5. CASE ~(new.expires >= clock)
      <3>1. Live' = Live \ {k}
        BY <2>1, <2>2, <2>5 DEF Live
      <3>2. Table!Acquire(k, l, FALSE)
        BY <2>1, <2>3, <3>1 DEF Table!Acquire, Table!Stamp
      <3> QED
        BY <2>1, <3>2 DEF Table!TableNext
    <2> QED
      BY <2>4, <2>5
  <1>2. ASSUME NEW l \in Leases, CommitBeat(l)
        PROVE  Table!TableNext \/ UNCHANGED <<Holder, Live>>
    <2> DEFINE k == LockKeyOf[l]
               new == [lease |-> l, expires |-> since[l] + LeaseSeconds]
    <2>1. CASE rows[k].lease # l
      BY <1>2, <2>1 DEF CommitBeat, Holder, Live
    <2>2. CASE rows[k].lease = l
      <3>1. rows' = [rows EXCEPT ![k] = new] /\ clock' = clock /\ k \in LockKeys
        BY <1>2, <2>2 DEF CommitBeat
      <3>2. Holder[k] = l /\ Holder' = Holder
        BY <2>2, <3>1 DEF Holder
      <3>3. CASE new.expires >= clock
        <4>1. Live' = Live \cup {k}
          BY <3>1, <3>3 DEF Live
        <4>2. Table!Renew(k, l, TRUE)
          BY <3>2, <4>1 DEF Table!Renew, Table!Stamp
        <4> QED
          BY <3>1, <4>2 DEF Table!TableNext
      <3>4. CASE ~(new.expires >= clock)
        <4>1. Live' = Live \ {k}
          BY <3>1, <3>4 DEF Live
        <4>2. Table!Renew(k, l, FALSE)
          BY <3>2, <4>1 DEF Table!Renew, Table!Stamp
        <4> QED
          BY <3>1, <4>2 DEF Table!TableNext
      <3> QED
        BY <3>3, <3>4
    <2> QED
      BY <2>1, <2>2
  <1>3. ASSUME NEW l \in Leases, CommitRelease(l) PROVE Table!TableNext
    <2>1. Table!Release(LockKeyOf[l], l)
      BY <1>3 DEF CommitRelease, Table!Release, Absent, Holder, Live
    <2> QED
      BY <2>1 DEF Table!TableNext
  <1>4. CASE CommitSweep
    <2> DEFINE S == {k \in LockKeys : Expired(k, sweeping)}
    <2>1. S \in SUBSET LockKeys
      OBVIOUS
    <2>2. Table!Sweep(S)
      BY <1>4 DEF CommitSweep, Expired, Table!Sweep, Absent, Holder, Live
    <2> HIDE DEF S
    <2> QED
      BY <2>1, <2>2 DEF Table!TableNext
  <1>5. CASE Tick
    <2> DEFINE S == {k \in LockKeys : rows[k].expires < clock'}
    <2>1. S \in SUBSET LockKeys
      OBVIOUS
    <2>2. rows' = rows /\ clock' = clock + 1
      BY <1>5 DEF Tick
    <2>3. Table!Lapse(S)
      BY <2>2 DEF Table!Lapse, Holder, Live
    <2> HIDE DEF S
    <2> QED
      BY <2>1, <2>3 DEF Table!TableNext
  <1>6. ASSUME NEW l \in Leases,
               BeginAcquire(l) \/ RefuseAcquire(l) \/ BeginBeat(l) \/ FailBeat(l)
                 \/ StopBeats(l) \/ Die(l)
        PROVE  UNCHANGED <<Holder, Live>>
    BY <1>6 DEF BeginAcquire, RefuseAcquire, BeginBeat, FailBeat, StopBeats, Die,
                Holder, Live
  <1>7. CASE BeginSweep \/ UNCHANGED vars
    BY <1>7 DEF BeginSweep, vars, Holder, Live
  <1> QED
    BY <1>1, <1>2, <1>3, <1>4, <1>5, <1>6, <1>7 DEF Next

\* The timed lock manager implements the lease table that the dispatcher is
\* built on: every transaction is a table operation or changes nothing.
THEOREM RefinesLeaseTable == Spec => ImplementsLeaseTable
  <1>1. IInv /\ [Next]_vars => [Table!TableNext]_<<Holder, Live>>
    BY StepRefines
  <1> QED
    BY Invariance, InitRefines, <1>1, PTL
       DEF Spec, ImplementsLeaseTable, Table!TableSpec

Visited == [url : Urls, time : Nat]

-------------------------------------------------------------------------------
(* Page views.                                                             *)

(* A set of naturals has a least member, and below a bound a greatest one. *)
LEMMA LeastOfNaturals ==
  ASSUME NEW T, T \subseteq Nat, T # {}
  PROVE  \E least \in T : \A t \in T : least <= t
  <1>1. PICK least \in T : \A t \in T : <<t, least>> \notin OpToRel(<, Nat)
    BY WFMin, NatLessThanWellFounded, Zenon
  <1>2. \A t \in T : t \in Nat /\ least \in Nat /\ ~ (t < least)
    <2> TAKE t \in T
    <2>1. t \in Nat /\ least \in Nat
      OBVIOUS
    <2>2. <<t, least>> \in Nat \X Nat /\ <<t, least>>[1] = t /\ <<t, least>>[2] = least
      BY <2>1
    <2> QED
      BY <1>1, <2>1, <2>2, Zenon DEF OpToRel
  <1> QED
    BY <1>2

LEMMA GreatestOfNaturals ==
  ASSUME NEW T, T \subseteq Nat, T # {}, NEW bound \in Nat, \A t \in T : t <= bound
  PROVE  \E greatest \in T : \A t \in T : t <= greatest
  <1> DEFINE Gaps == {bound - t : t \in T}
  <1>1. Gaps \subseteq Nat /\ Gaps # {}
    <2>1. \A t \in T : bound - t \in Nat
      <3> TAKE t \in T
      <3>1. t \in Nat /\ t <= bound
        OBVIOUS
      <3> QED
        BY <3>1
    <2> QED
      BY <2>1
  <1>2. PICK least \in Gaps : \A gap \in Gaps : least <= gap
    <2> HIDE DEF Gaps
    <2> QED
      BY <1>1, LeastOfNaturals
  <1>3. PICK greatest \in T : least = bound - greatest
    OBVIOUS
  <1>4. \A t \in T : bound - greatest <= bound - t
    BY <1>2, <1>3
  <1>5. \A t \in T : t <= greatest
    BY <1>4
  <1> QED
    BY <1>5

(* Every visit of a batch is part of one of the rows made of it.           *)
LEMMA RowsCover ==
  ASSUME NEW batch, batch \subseteq Visited, NEW v \in batch
  PROVE  \E row \in Rows(batch) : v \in row
  <1> DEFINE Earlier == {w \in batch : w.url = v.url /\ w.time <= v.time}
             Times == {w.time : w \in Earlier}
             Firsts == {w \in Earlier : IsFirst(w, batch)}
             FirstTimes == {w.time : w \in Firsts}
  <1>1. /\ v \in Earlier /\ v.time \in Nat
        /\ \A w \in batch : w.time \in Nat
    BY DEF Visited
  <1>2. PICK w \in Earlier : \A u \in Earlier : w.time <= u.time
    <2>1. Times \subseteq Nat /\ Times # {}
      BY <1>1
    <2>2. PICK least \in Times : \A t \in Times : least <= t
      BY <2>1, LeastOfNaturals
    <2> QED
      BY <2>2
  <1>3. IsFirst(w, batch)
    <2> SUFFICES ASSUME NEW u \in batch, u.url = w.url, u.time < w.time
                 PROVE  FALSE
      BY DEF IsFirst
    <2>1. u \in Earlier
      BY <1>1
    <2> QED
      BY <1>1, <1>2, <2>1
  <1>4. PICK first \in Firsts : \A u \in Firsts : u.time <= first.time
    <2>1. /\ FirstTimes \subseteq Nat /\ FirstTimes # {}
          /\ \A t \in FirstTimes : t <= v.time
      BY <1>1, <1>3
    <2>2. PICK greatest \in FirstTimes : \A t \in FirstTimes : t <= greatest
      BY <1>1, <2>1, GreatestOfNaturals
    <2> QED
      BY <2>2
  <1>5. v \in Cluster(first, batch)
    <2> SUFFICES ASSUME NEW x \in batch, x.url = first.url, first.time < x.time,
                        x.time <= v.time, IsFirst(x, batch)
                 PROVE  FALSE
      BY DEF Cluster
    <2>1. x \in Firsts
      OBVIOUS
    <2> QED
      BY <1>1, <1>4, <2>1
  <1>6. Cluster(first, batch) \in Rows(batch)
    BY DEF Rows
  <1> QED
    BY <1>5, <1>6

LEMMA RowsAreVisits ==
  ASSUME NEW batch, batch \subseteq Visited
  PROVE  Rows(batch) \subseteq SUBSET Visited
  BY DEF Rows, Cluster

LEMMA MonthsAreMonths ==
  /\ \A time : Month(time) \in Months
  /\ \A views : MonthsOf(views) \subseteq Months
  BY DEF Month, Months, MonthsOf

-------------------------------------------------------------------------------
(* The inductive invariant: what a run of the extension and a request know *)
(* about what has been saved.                                              *)

SyncPlaces == {"new", "collect", "post", "await", "retry", "save", "over"}
SyncRuns == [at : SyncPlaces, since : Nat, started : Nat, left : SUBSET Visited,
             batch : SUBSET Visited, tries : Nat, posts : Nat]
Requests == [id : Syncs \X Nat, rows : SUBSET SUBSET Visited, unsaved : SUBSET Months]

HistoryTypeOK ==
  /\ tick \in Nat /\ cursor \in Nat
  /\ visits \subseteq Visited
  /\ syncs \in [Syncs -> SyncRuns]
  /\ handlers \subseteq Requests
  /\ events \in [Months -> SUBSET SUBSET Visited]

(* A row is in the compacted file of its month, or a compaction will put   *)
(* it there, or is known to have failed to.                                *)
Writing(m) == compactor.at = "writing" /\ Current(m)
Kept(m, row) ==
  \/ \E i \in DOMAIN compactions : m \in compactions[i]
  \/ Writing(m) /\ row \in compactor.rows
  \/ ~Writing(m) /\ (m \in compactor.months \cup stale \/ row \in compacted[m])
Told(v) == \E m \in Months : \E row \in events[m] : v \in row /\ Kept(m, row)

CoveredTo(time) == \A v \in visits : v.time <= time => Told(v)

(* A run that asks for what came after since may do so; a run that posts   *)
(* has in hand what is not told yet.                                       *)
Knows(run) ==
  /\ run.at \in {"new", "collect"} => run.posts = 0
  /\ run.at \notin {"new", "over"} => run.started <= tick
  /\ run.at = "collect" => run.since < tick /\ CoveredTo(run.since)
  /\ run.at \in {"post", "await", "retry", "save"} =>
       /\ run.started < tick
       /\ \A v \in visits : v.time <= run.started => Told(v) \/ v \in run.left
  /\ run.at = "save" => run.left = {}

(* The rows of the months a request is done with are saved.                *)
Tells(h) ==
  \A row \in h.rows : Month(Started(row)) \notin h.unsaved => row \in events[Month(Started(row))]

(* A run waits for the last request it made, which holds all of its batch. *)
Matches(h, s, run) ==
  h.id[1] = s /\ run.at # "over" =>
    /\ h.id[2] <= run.posts
    /\ run.at = "await" /\ h.id[2] = run.posts => \A v \in run.batch : \E row \in h.rows : v \in row

SyncInv ==
  /\ HistoryTypeOK
  /\ \A v \in visits : v.time < tick
  /\ cursor < tick /\ CoveredTo(cursor)
  /\ \A s \in Syncs : Knows(syncs[s])
  /\ \A h \in handlers : Tells(h)
  /\ \A h \in handlers, s \in Syncs : Matches(h, s, syncs[s])

(* What a step must leave true: nothing is saved and then forgotten.       *)
StillTold == \A v : Told(v) => Told(v)'

(* Nothing the invariant speaks of has changed but that requests are gone. *)
LEMMA HandlersShrink ==
  ASSUME SyncInv, StillTold, UNCHANGED <<tick, visits, cursor, syncs, events>>,
         handlers' \subseteq handlers
  PROVE  SyncInv'
  <1>1. HistoryTypeOK' /\ (\A v \in visits' : v.time < tick') /\ cursor' < tick' /\ CoveredTo(cursor)'
    BY DEF SyncInv, HistoryTypeOK, CoveredTo, StillTold
  <1>2. \A s \in Syncs : Knows(syncs[s])'
    BY DEF SyncInv, CoveredTo, Knows, StillTold
  <1>3. \A h \in handlers' : Tells(h)'
    BY DEF SyncInv, Tells
  <1>4. \A h \in handlers', s \in Syncs : Matches(h, s, syncs[s])'
    BY DEF SyncInv, Matches
  <1> QED
    BY <1>1, <1>2, <1>3, <1>4 DEF SyncInv

(* One run goes on, and may have made a request.                           *)
LEMMA RunGoesOn ==
  ASSUME SyncInv, StillTold, NEW s \in Syncs, NEW run \in SyncRuns,
         UNCHANGED <<tick, visits, events>>, syncs' = [syncs EXCEPT ![s] = run],
         cursor' \in Nat, cursor' < tick, CoveredTo(cursor'), Knows(run) \/ Knows(run)',
         handlers' \subseteq Requests,
         \A h \in handlers' : Tells(h) /\ Matches(h, s, run) /\ (h \notin handlers => h.id[1] = s)
  PROVE  SyncInv'
  <1>1. /\ syncs' \in [Syncs -> SyncRuns] /\ syncs'[s] = run
        /\ \A other \in Syncs \ {s} : syncs'[other] = syncs[other]
    BY DEF SyncInv, HistoryTypeOK
  <1>2. HistoryTypeOK'
    BY <1>1 DEF SyncInv, HistoryTypeOK
  <1>3. CoveredTo(cursor)'
    BY DEF CoveredTo, StillTold
  <1>4. \A other \in Syncs : Knows(syncs[other])'
    <2>1. Knows(run)'
      BY DEF Knows, CoveredTo, StillTold
    <2>2. \A other \in Syncs \ {s} : Knows(syncs[other])'
      BY <1>1 DEF SyncInv, Knows, CoveredTo, StillTold
    <2> QED
      BY <1>1, <2>1, <2>2
  <1>5. \A h \in handlers' : Tells(h)'
    BY DEF Tells
  <1>6. \A h \in handlers', other \in Syncs : Matches(h, other, syncs[other])'
    <2> TAKE h \in handlers', other \in Syncs
    <2>1. CASE other = s
      BY <1>1, <2>1 DEF Matches
    <2>2. CASE other # s /\ h \in handlers
      BY <1>1, <2>2 DEF SyncInv, Matches
    <2>3. CASE other # s /\ h \notin handlers
      BY <2>3 DEF Matches
    <2> QED
      BY <2>1, <2>2, <2>3
  <1> QED
    BY <1>2, <1>3, <1>4, <1>5, <1>6 DEF SyncInv

LEMMA NothingHappens ==
  ASSUME SyncInv, StillTold, UNCHANGED <<tick, visits, cursor, syncs, handlers, events>>
  PROVE  SyncInv'
  BY HandlersShrink

(* New visits are later than everything a run or the cursor speaks of.     *)
LEMMA TimeKeeps ==
  ASSUME SyncInv, StillTold, TimePasses
  PROVE  SyncInv'
  <1>1. /\ tick' = tick + 1 /\ UNCHANGED <<cursor, syncs, handlers, events>>
        /\ tick \in Nat /\ cursor \in Nat
    BY DEF TimePasses, serviceVars, SyncInv, HistoryTypeOK
  <1>2. /\ visits' \subseteq Visited /\ visits \subseteq visits'
        /\ \A v \in visits' : v \in visits \/ v.time = tick
    BY <1>1 DEF TimePasses, Visited, SyncInv, HistoryTypeOK
  <1>3. HistoryTypeOK'
    BY <1>1, <1>2 DEF SyncInv, HistoryTypeOK
  <1>4. \A v \in visits' : v.time \in Nat /\ v.time < tick'
    BY <1>1, <1>2 DEF SyncInv, Visited
  <1>5. ASSUME NEW time \in Nat, time < tick, CoveredTo(time)
        PROVE  CoveredTo(time)'
    BY <1>1, <1>2, <1>5 DEF CoveredTo, StillTold
  <1>6. \A s \in Syncs : Knows(syncs[s])'
    <2> TAKE s \in Syncs
    <2>1. PICK run \in SyncRuns : run = syncs[s] /\ run = syncs'[s] /\ Knows(run)
      BY <1>1 DEF SyncInv, HistoryTypeOK
    <2>2. run.since \in Nat /\ run.started \in Nat
      BY DEF SyncRuns
    <2>3. run.at = "collect" => run.since < tick' /\ CoveredTo(run.since)'
      BY <1>1, <1>5, <2>1, <2>2 DEF Knows
    <2>4. run.at \in {"post", "await", "retry", "save"} =>
            /\ run.started < tick'
            /\ \A v \in visits' : v.time <= run.started => Told(v)' \/ v \in run.left
      BY <1>1, <1>2, <2>1, <2>2 DEF Knows, StillTold
    <2>5. run.at \notin {"new", "over"} => run.started <= tick'
      BY <1>1, <2>1, <2>2 DEF Knows
    <2>6. Knows(run)'
      BY <1>1, <2>1, <2>3, <2>4, <2>5 DEF Knows
    <2> QED
      BY <2>1, <2>6
  <1> QED
    BY <1>1, <1>3, <1>4, <1>5, <1>6 DEF SyncInv, Tells, Matches

-------------------------------------------------------------------------------
(* The steps of the extension.                                             *)

LEMMA NewRuns ==
  /\ New \in SyncRuns /\ Over \in SyncRuns
  /\ New.posts = 0 /\ Over.at = "over"
  BY DEF New, Over, SyncRuns, SyncPlaces

LEMMA StartSyncKeeps ==
  ASSUME SyncInv, StillTold, NEW s \in Syncs, StartSync(s)
  PROVE  SyncInv'
  <1> DEFINE run == [New EXCEPT !.at = "collect", !.since = cursor, !.started = tick]
  <1>1. /\ syncs' = [syncs EXCEPT ![s] = run] /\ syncs[s].at = "new"
        /\ UNCHANGED <<tick, visits, events, cursor, handlers>>
    BY DEF StartSync, Continue, browserVars, serviceVars
  <1>2. /\ tick \in Nat /\ cursor \in Nat /\ cursor < tick /\ CoveredTo(cursor)
        /\ handlers \subseteq Requests /\ \A h \in handlers : Tells(h)
    BY DEF SyncInv, HistoryTypeOK
  <1>3. /\ run \in SyncRuns /\ run.at = "collect" /\ run.since = cursor
        /\ run.started = tick /\ run.posts = 0
    BY <1>2, NewRuns DEF SyncRuns, SyncPlaces
  <1> HIDE DEF run
  <1>4. Knows(run)
    BY <1>2, <1>3 DEF Knows
  <1>5. \A h \in handlers : Matches(h, s, run)
    BY <1>1, <1>3 DEF SyncInv, Knows, Matches
  <1> QED
    BY <1>1, <1>2, <1>3, <1>4, <1>5, RunGoesOn

LEMMA CollectKeeps ==
  ASSUME SyncInv, StillTold, NEW s \in Syncs, Collect(s)
  PROVE  SyncInv'
  <1>1. PICK old \in SyncRuns : old = syncs[s] /\ Knows(old)
    BY DEF SyncInv, HistoryTypeOK
  <1> DEFINE found == {v \in visits : old.since < v.time /\ v.time <= old.started}
             run == [old EXCEPT !.at = "post", !.left = found]
  <1>2. /\ syncs' = [syncs EXCEPT ![s] = run] /\ old.at = "collect" /\ old.started < tick
        /\ UNCHANGED <<tick, visits, events, cursor, handlers>>
    BY <1>1 DEF Collect, Continue, browserVars, serviceVars
  <1>3. /\ tick \in Nat /\ cursor \in Nat /\ cursor < tick /\ CoveredTo(cursor)
        /\ handlers \subseteq Requests /\ visits \subseteq Visited
        /\ \A h \in handlers : Tells(h) /\ Matches(h, s, old)
    BY <1>1 DEF SyncInv, HistoryTypeOK
  <1>4. /\ run \in SyncRuns /\ run.at = "post" /\ run.left = found
        /\ run.started = old.started /\ run.posts = old.posts
    BY <1>3 DEF SyncRuns, SyncPlaces
  <1>5. \A v \in visits : v.time <= old.started => Told(v) \/ v \in found
    <2>1. old.since \in Nat /\ old.started \in Nat /\ \A v \in visits : v.time \in Nat
      BY <1>3 DEF SyncRuns, Visited
    <2> QED
      BY <1>1, <1>2, <2>1 DEF Knows, CoveredTo
  <1> HIDE DEF run, found
  <1>6. Knows(run)
    BY <1>1, <1>2, <1>3, <1>4, <1>5 DEF Knows, SyncRuns
  <1>7. \A h \in handlers : Matches(h, s, run)
    BY <1>2, <1>3, <1>4 DEF Matches
  <1> QED
    BY <1>2, <1>3, <1>4, <1>6, <1>7, RunGoesOn

(* The batch a run sends is held by the request, and no older request is   *)
(* taken for it.                                                           *)
LEMMA SendBatchKeeps ==
  ASSUME SyncInv, StillTold, NEW s \in Syncs, NEW batch, batch \subseteq Visited,
         syncs[s].at \in {"post", "retry"}, SendBatch(s, batch),
         UNCHANGED <<tick, visits, events, cursor>>
  PROVE  SyncInv'
  <1>1. PICK old \in SyncRuns : old = syncs[s] /\ Knows(old)
    BY DEF SyncInv, HistoryTypeOK
  <1> DEFINE run == [old EXCEPT !.at = "await", !.batch = batch, !.tries = old.tries + 1,
                                !.posts = old.posts + 1]
             request == [id |-> <<s, run.posts>>, rows |-> Rows(batch),
                         unsaved |-> MonthsOf(Rows(batch))]
  <1>2. syncs' = [syncs EXCEPT ![s] = run] /\ handlers' = handlers \cup {request}
    BY <1>1 DEF SendBatch, Continue
  <1>3. /\ tick \in Nat /\ cursor \in Nat /\ cursor < tick /\ CoveredTo(cursor)
        /\ handlers \subseteq Requests
        /\ \A h \in handlers : Tells(h) /\ Matches(h, s, old)
    BY <1>1 DEF SyncInv, HistoryTypeOK
  <1>4. /\ run \in SyncRuns /\ run.at = "await" /\ run.left = old.left /\ run.batch = batch
        /\ run.started = old.started /\ run.posts = old.posts + 1 /\ old.posts \in Nat
    <2>1. /\ old.tries \in Nat /\ old.posts \in Nat /\ batch \in SUBSET Visited
          /\ "await" \in SyncPlaces
      BY DEF SyncRuns, SyncPlaces
    <2>2. old.tries + 1 \in Nat /\ old.posts + 1 \in Nat
      BY <2>1
    <2> DEFINE tries == old.tries + 1
               posts == old.posts + 1
    <2>3. run = [old EXCEPT !.at = "await", !.batch = batch, !.tries = tries, !.posts = posts]
      OBVIOUS
    <2> HIDE DEF tries, posts, run
    <2>4. tries \in Nat /\ posts \in Nat /\ posts = old.posts + 1
      BY <2>2 DEF tries, posts
    <2> QED
      BY <2>1, <2>3, <2>4 DEF SyncRuns
  <1>5. request \in Requests
    <2>1. run.posts \in Nat
      BY <1>4
    <2> QED
      BY <2>1, RowsAreVisits, MonthsAreMonths DEF Requests
  <1>6. Tells(request)
    BY DEF Tells, MonthsOf
  <1> HIDE DEF run
  <1>7. Matches(request, s, run)
    BY <1>4, RowsCover DEF Matches
  <1>8. request.id[1] = s
    OBVIOUS
  <1> HIDE DEF request
  <1>9. Knows(run)
    BY <1>1, <1>3, <1>4 DEF Knows, SyncRuns
  <1>10. \A h \in handlers : Matches(h, s, run)
    <2> SUFFICES ASSUME NEW h \in handlers, h.id[1] = s
                 PROVE  h.id[2] <= run.posts /\ h.id[2] # run.posts
      BY DEF Matches
    <2>1. h.id[2] <= old.posts /\ h.id[2] \in Nat
      BY <1>1, <1>3 DEF Matches, Requests
    <2> QED
      BY <1>4, <2>1
  <1>11. /\ handlers' \subseteq Requests
         /\ \A h \in handlers' :
               Tells(h) /\ Matches(h, s, run) /\ (h \notin handlers => h.id[1] = s)
    BY <1>2, <1>3, <1>5, <1>6, <1>7, <1>8, <1>10
  <1> QED
    BY <1>2, <1>3, <1>4, <1>9, <1>11, RunGoesOn

LEMMA PostKeeps ==
  ASSUME SyncInv, StillTold, NEW s \in Syncs, Post(s)
  PROVE  SyncInv'
  <1>1. UNCHANGED <<tick, visits, events, cursor>>
    BY DEF Post, browserVars, serviceVars
  <1>2. syncs[s].left \subseteq Visited /\ syncs[s].batch \subseteq Visited
    BY DEF SyncInv, HistoryTypeOK, SyncRuns
  <1>3. CASE syncs[s].at = "post"
    <2>1. PICK batch \in Batches(syncs[s].left) : SendBatch(s, batch)
      BY <1>3 DEF Post
    <2>2. batch \subseteq Visited
      BY <1>2, <2>1 DEF Batches
    <2> QED
      BY <1>1, <1>3, <2>1, <2>2, SendBatchKeeps
  <1>4. CASE syncs[s].at = "retry" /\ SendBatch(s, syncs[s].batch)
    BY <1>1, <1>2, <1>4, SendBatchKeeps
  <1> QED
    BY <1>3, <1>4 DEF Post

LEMMA GiveUpKeeps ==
  ASSUME SyncInv, StillTold, NEW s \in Syncs, GiveUp(s), UNCHANGED <<tick, visits, events, cursor>>,
         handlers' \subseteq handlers
  PROVE  SyncInv'
  <1>1. /\ tick \in Nat /\ cursor \in Nat /\ cursor < tick /\ CoveredTo(cursor)
        /\ handlers \subseteq Requests /\ \A h \in handlers : Tells(h)
    BY DEF SyncInv, HistoryTypeOK
  <1>2. syncs' = [syncs EXCEPT ![s] = Over]
    BY DEF GiveUp, Continue
  <1>3. Knows(Over) /\ \A h \in handlers : Matches(h, s, Over)
    BY NewRuns DEF Knows, Matches
  <1> QED
    BY <1>1, <1>2, <1>3, NewRuns, RunGoesOn

LEMMA FetchFailsKeeps ==
  ASSUME SyncInv, StillTold, NEW s \in Syncs, FetchFails(s)
  PROVE  SyncInv'
  <1>1. PICK old \in SyncRuns : old = syncs[s] /\ Knows(old)
    BY DEF SyncInv, HistoryTypeOK
  <1> DEFINE run == [old EXCEPT !.at = "retry"]
  <1>2. UNCHANGED <<tick, visits, events, cursor, handlers>> /\ old.at = "await"
    BY <1>1 DEF FetchFails, browserVars, serviceVars
  <1>3. CASE GiveUp(s)
    BY <1>2, <1>3, GiveUpKeeps
  <1>4. CASE syncs' = [syncs EXCEPT ![s] = run]
    <2>1. /\ tick \in Nat /\ cursor \in Nat /\ cursor < tick /\ CoveredTo(cursor)
          /\ handlers \subseteq Requests
          /\ \A h \in handlers : Tells(h) /\ Matches(h, s, old)
      BY <1>1 DEF SyncInv, HistoryTypeOK
    <2>2. /\ run \in SyncRuns /\ run.at = "retry" /\ run.left = old.left
          /\ run.started = old.started /\ run.posts = old.posts
      BY DEF SyncRuns, SyncPlaces
    <2> HIDE DEF run
    <2>3. Knows(run) /\ \A h \in handlers : Matches(h, s, run)
      BY <1>1, <1>2, <2>1, <2>2 DEF Knows, Matches
    <2> QED
      BY <1>2, <1>4, <2>1, <2>2, <2>3, RunGoesOn
  <1> QED
    BY <1>1, <1>3, <1>4 DEF FetchFails, Continue

LEMMA SetSuccessfulSyncKeeps ==
  ASSUME SyncInv, StillTold, NEW s \in Syncs, SetSuccessfulSync(s)
  PROVE  SyncInv'
  <1>1. PICK old \in SyncRuns : old = syncs[s] /\ Knows(old)
    BY DEF SyncInv, HistoryTypeOK
  <1>2. /\ syncs' = [syncs EXCEPT ![s] = Over] /\ old.at = "save" /\ cursor' = old.started
        /\ UNCHANGED <<tick, visits, events, handlers>>
    BY <1>1 DEF SetSuccessfulSync, Continue, browserVars, serviceVars
  <1>3. /\ cursor' \in Nat /\ cursor' < tick /\ CoveredTo(cursor')
    BY <1>1, <1>2 DEF Knows, CoveredTo, SyncRuns
  <1>4. /\ handlers \subseteq Requests /\ \A h \in handlers : Tells(h)
        /\ Knows(Over) /\ \A h \in handlers : Matches(h, s, Over)
    BY NewRuns DEF SyncInv, HistoryTypeOK, Knows, Matches
  <1> QED
    BY <1>2, <1>3, <1>4, NewRuns, RunGoesOn

-------------------------------------------------------------------------------
(* The steps of the service.                                               *)

LEMMA SaveMonthKeeps ==
  ASSUME SyncInv, StillTold, NEW h \in handlers, SaveMonth(h)
  PROVE  SyncInv'
  <1>1. PICK m \in h.unsaved :
          /\ events' = [events EXCEPT ![m] = @ \cup {row \in h.rows : Month(Started(row)) = m}]
          /\ Handle(h, [h EXCEPT !.unsaved = @ \ {m}])
    BY DEF SaveMonth
  <1> DEFINE next == [h EXCEPT !.unsaved = @ \ {m}]
  <1>2. /\ UNCHANGED <<tick, visits, cursor, syncs>> /\ handlers' = (handlers \ {h}) \cup {next}
    BY <1>1 DEF SaveMonth, Handle, browserVars, extensionVars
  <1>3. /\ h \in Requests /\ m \in Months /\ events \in [Months -> SUBSET SUBSET Visited]
        /\ tick \in Nat /\ handlers \subseteq Requests
    BY <1>1 DEF SyncInv, HistoryTypeOK, Requests
  <1>4. /\ next \in Requests /\ next.id = h.id /\ next.rows = h.rows
        /\ next.unsaved = h.unsaved \ {m}
    BY <1>3 DEF Requests
  <1> HIDE DEF next
  <1>5. /\ events' \in [Months -> SUBSET SUBSET Visited]
        /\ events'[m] = events[m] \cup {row \in h.rows : Month(Started(row)) = m}
        /\ \A n \in Months \ {m} : events'[n] = events[n]
    <2>1. h.rows \subseteq SUBSET Visited
      BY <1>3 DEF Requests
    <2> QED
      BY <1>1, <1>3, <2>1
  <1>7. HistoryTypeOK' /\ CoveredTo(cursor)'
    BY <1>2, <1>3, <1>4, <1>5 DEF SyncInv, HistoryTypeOK, CoveredTo, StillTold
  <1>8. \A s \in Syncs : Knows(syncs[s])'
    BY <1>2 DEF SyncInv, Knows, CoveredTo, StillTold
  <1>9. \A other \in handlers' : Tells(other)'
    <2> SUFFICES ASSUME NEW other \in handlers', NEW row \in other.rows,
                        Month(Started(row)) \notin other.unsaved
                 PROVE  row \in events'[Month(Started(row))]
      BY DEF Tells
    <2>1. Month(Started(row)) \in Months
      BY MonthsAreMonths
    <2>2. CASE other \in handlers
      BY <1>5, <2>1, <2>2 DEF SyncInv, Tells
    <2>3. CASE other = next
      BY <1>4, <1>5, <2>1, <2>3 DEF SyncInv, Tells
    <2> QED
      BY <1>2, <2>2, <2>3
  <1>10. \A other \in handlers', s \in Syncs : Matches(other, s, syncs[s])'
    BY <1>2, <1>4 DEF SyncInv, Matches
  <1> QED
    BY <1>2, <1>7, <1>8, <1>9, <1>10 DEF SyncInv

(* When all of a request is saved, so is the batch of the run that waits.  *)
LEMMA EnqueueCompactionKeeps ==
  ASSUME SyncInv, StillTold, compactions \in Seq(SUBSET Months),
         NEW h \in handlers, EnqueueCompaction(h)
  PROVE  SyncInv'
  <1>1. /\ UNCHANGED <<tick, visits, events, cursor>> /\ handlers' = handlers \ {h}
        /\ h.unsaved = {}
    BY DEF EnqueueCompaction, Respond, browserVars
  <1>2. CASE UNCHANGED syncs
    BY <1>1, <1>2, HandlersShrink
  <1>3. ASSUME NEW s \in Syncs, Awaits(s, h), Accepted(s)
        PROVE  SyncInv'
    <2>1. PICK old \in SyncRuns : old = syncs[s] /\ Knows(old)
      BY DEF SyncInv, HistoryTypeOK
    <2> DEFINE left == old.left \ old.batch
               run == [old EXCEPT !.at = IF left = {} THEN "save" ELSE "post",
                                  !.left = left, !.batch = {}, !.tries = 0]
    <2>2. /\ syncs' = [syncs EXCEPT ![s] = run] /\ old.at = "await"
          /\ h.id[1] = s /\ h.id[2] = old.posts
      BY <1>3, <2>1 DEF Accepted, Awaits, Continue, Id
    <2>3. /\ tick \in Nat /\ cursor \in Nat /\ cursor < tick /\ CoveredTo(cursor)
          /\ handlers \subseteq Requests
          /\ \A other \in handlers : Tells(other) /\ Matches(other, s, old)
      BY <2>1 DEF SyncInv, HistoryTypeOK
    <2>4. \A v \in old.batch : Told(v)'
      <3> TAKE v \in old.batch
      <3>1. PICK row \in h.rows : v \in row
        BY <2>2, <2>3 DEF Matches, Requests
      <3> DEFINE m == Month(Started(row))
      <3>2. row \in events'[m] /\ m \in Months
        BY <1>1, <2>3, <3>1, MonthsAreMonths DEF Tells
      <3>3. compactions' = Append(compactions, MonthsOf(h.rows)) /\ m \in MonthsOf(h.rows)
        BY <3>1 DEF EnqueueCompaction, MonthsOf
      <3> HIDE DEF m
      <3>4. Kept(m, row)'
        <4>1. Len(compactions) + 1 \in DOMAIN compactions'
              /\ compactions'[Len(compactions) + 1] = MonthsOf(h.rows)
          BY <3>3, MonthsAreMonths
        <4> QED
          BY <3>3, <4>1 DEF Kept
      <3> QED
        BY <3>1, <3>2, <3>4 DEF Told
    <2>5. /\ run \in SyncRuns /\ run.at \in {"save", "post"} /\ (run.at = "save" => run.left = {})
          /\ run.left = left /\ run.started = old.started /\ run.posts = old.posts
      BY DEF SyncRuns, SyncPlaces
    <2> HIDE DEF run
    <2>6. Knows(run)'
      BY <1>1, <2>1, <2>2, <2>3, <2>4, <2>5 DEF Knows, SyncRuns, StillTold
    <2>7. \A other \in handlers : Matches(other, s, run)
      BY <2>2, <2>3, <2>5 DEF Matches
    <2> QED
      BY <1>1, <2>2, <2>3, <2>5, <2>6, <2>7, RunGoesOn
  <1> QED
    BY <1>2, <1>3 DEF EnqueueCompaction, Respond

LEMMA IngestFailsKeeps ==
  ASSUME SyncInv, StillTold, NEW h \in handlers, IngestFails(h)
  PROVE  SyncInv'
  <1>1. /\ UNCHANGED <<tick, visits, events, cursor>> /\ handlers' = handlers \ {h}
    BY DEF IngestFails, Respond, browserVars, serviceVars
  <1>2. UNCHANGED syncs \/ \E s \in Syncs : GiveUp(s)
    BY DEF IngestFails, Respond
  <1> QED
    BY <1>1, <1>2, GiveUpKeeps, HandlersShrink

-------------------------------------------------------------------------------
LEMMA InvInit == HistoryInit => SyncInv
  <1> SUFFICES ASSUME HistoryInit
               PROVE  SyncInv
    OBVIOUS
  <1>1. HistoryTypeOK
    BY NewRuns DEF HistoryInit, HistoryTypeOK
  <1>2. CoveredTo(cursor) /\ \A s \in Syncs : Knows(syncs[s])
    BY NewRuns DEF HistoryInit, CoveredTo, Knows, New
  <1> QED
    BY <1>1, <1>2 DEF HistoryInit, SyncInv, HistoryTypeOK

LEMMA InvNext ==
  ASSUME SyncInv, StillTold, compactions \in Seq(SUBSET Months), [HistoryNext]_historyVars
  PROVE  SyncInv'
  <1>1. ASSUME NEW s \in Syncs,
               \/ StartSync(s) \/ Collect(s) \/ Post(s) \/ FetchFails(s)
               \/ SetSuccessfulSync(s) \/ SyncDies(s)
        PROVE  SyncInv'
    <2>1. CASE SyncDies(s)
      BY <2>1, GiveUpKeeps DEF SyncDies, browserVars, serviceVars
    <2> QED
      BY <1>1, <2>1, StartSyncKeeps, CollectKeeps, PostKeeps, FetchFailsKeeps,
         SetSuccessfulSyncKeeps
  <1>2. ASSUME NEW h \in handlers, SaveMonth(h) \/ EnqueueCompaction(h) \/ IngestFails(h)
        PROVE  SyncInv'
    BY <1>2, SaveMonthKeeps, EnqueueCompactionKeeps, IngestFailsKeeps
  <1>3. ASSUME NEW m \in Months, ReadMonth(m) \/ WriteMonth(m) \/ MonthFails(m)
        PROVE  SyncInv'
    BY <1>3, NothingHappens DEF ReadMonth, WriteMonth, MonthFails, browserVars, extensionVars
  <1>4. CASE QueueMaintenance \/ StartCompaction \/ CompactionDies
    BY <1>4, NothingHappens DEF QueueMaintenance, StartCompaction, CompactionDies,
         browserVars, extensionVars
  <1>5. CASE RestartService
    BY <1>5, HandlersShrink DEF RestartService, browserVars, extensionVars
  <1>6. CASE UNCHANGED historyVars
    BY <1>6, NothingHappens DEF historyVars
  <1> QED
    BY <1>1, <1>2, <1>3, <1>4, <1>5, <1>6, TimeKeeps DEF HistoryNext

-------------------------------------------------------------------------------
(* Page views are whole: of one address all visits between two of theirs.  *)
(* Two of one id are then the same, and none is lost when one per id is    *)
(* kept.                                                                   *)
AllRows == (UNION {events[m] : m \in Months}) \cup (UNION {h.rows : h \in handlers})

Interval(part) ==
  \A v, w \in part : \A x \in visits :
    x.url = v.url /\ x.url = w.url /\ v.time <= x.time /\ x.time <= w.time => x \in part
Whole(row) ==
  row # {} /\ row \subseteq visits /\ Interval(row) /\ \A v, w \in row : v.url = w.url

RunIsWhole(run) ==
  run.at \in {"post", "await", "retry", "save"} =>
    /\ \A v \in run.left : v \in visits /\ run.since < v.time /\ v.time <= run.started
    /\ Interval(run.left)
    /\ run.at \in {"await", "retry"} =>
         /\ run.batch \subseteq run.left /\ Interval(run.batch)
         /\ \A v \in run.batch, w \in run.left \ run.batch : w.time <= v.time

PagesAreWhole ==
  /\ \A row \in AllRows : Whole(row)
  /\ \A s \in Syncs : RunIsWhole(syncs[s])

(* The first and the last visit of a row.                                  *)
LEMMA RowHasEnds ==
  ASSUME SyncInv, NEW row, Whole(row)
  PROVE  /\ \E v \in row : v.time = Started(row)
         /\ \E v \in row : v.time = Ended(row)
         /\ \A v \in row : Started(row) <= v.time /\ v.time <= Ended(row)
  <1> DEFINE Times == {v.time : v \in row}
  <1>1. /\ Times \subseteq Nat /\ Times # {} /\ tick \in Nat
        /\ \A t \in Times : t <= tick
    BY DEF Whole, SyncInv, HistoryTypeOK, Visited
  <1>2. /\ \E first \in Times : \A t \in Times : first <= t
        /\ \E last \in Times : \A t \in Times : t <= last
    <2> HIDE DEF Times
    <2> QED
      BY <1>1, LeastOfNaturals, GreatestOfNaturals
  <1>3. Started(row) \in Times /\ \A v \in row : Started(row) <= v.time
    BY <1>2 DEF Started
  <1>4. Ended(row) \in Times /\ \A v \in row : v.time <= Ended(row)
    BY <1>2 DEF Ended
  <1> QED
    BY <1>3, <1>4

LEMMA IdsTellRows ==
  ASSUME SyncInv, NEW row, Whole(row), NEW other, Whole(other),
         PageViewId(row) = PageViewId(other)
  PROVE  row \subseteq other
  <1>1. /\ {v.url : v \in row} = {v.url : v \in other}
        /\ Started(row) = Started(other) /\ Ended(row) = Ended(other)
    BY DEF PageViewId
  <1>2. PICK first \in other, last \in other : first.time = Started(row) /\ last.time = Ended(row)
    BY <1>1, RowHasEnds
  <1> SUFFICES ASSUME NEW v \in row
               PROVE  v \in other
    OBVIOUS
  <1>3. first.time <= v.time /\ v.time <= last.time
    BY <1>2, RowHasEnds
  <1>4. v.url = first.url /\ v.url = last.url /\ v \in visits
    BY <1>1 DEF Whole
  <1> QED
    BY <1>3, <1>4 DEF Whole, Interval

LEMMA NoneIsDropped ==
  ASSUME SyncInv, NEW views, \A row \in views : Whole(row)
  PROVE  CompactRecords(views) = views
  <1>1. ASSUME NEW row \in views
        PROVE  (CHOOSE other \in views : PageViewId(other) = PageViewId(row)) = row
    <2> DEFINE chosen == CHOOSE other \in views : PageViewId(other) = PageViewId(row)
    <2>1. chosen \in views /\ PageViewId(chosen) = PageViewId(row)
      OBVIOUS
    <2> HIDE DEF chosen
    <2>2. chosen \subseteq row /\ row \subseteq chosen
      BY <2>1, IdsTellRows
    <2>3. chosen = row
      BY <2>2
    <2> QED
      BY <2>3 DEF chosen
  <1>2. \A id \in {PageViewId(row) : row \in views} :
          \E row \in views : id = PageViewId(row) /\ (CHOOSE other \in views : PageViewId(other) = id) = row
    BY <1>1
  <1> QED
    BY <1>1, <1>2 DEF CompactRecords

LEMMA SameVisit ==
  ASSUME NEW v \in Visited, NEW w \in Visited, v.url = w.url, v.time = w.time
  PROVE  v = w
  BY DEF Visited

(* The clusters of a batch are disjoint, and whole if the batch is.        *)
LEMMA ClustersAreApart ==
  ASSUME NEW batch, batch \subseteq Visited, NEW row \in Rows(batch), NEW other \in Rows(batch),
         row # other
  PROVE  row \cap other = {}
  <1>1. PICK v \in batch : IsFirst(v, batch) /\ row = Cluster(v, batch)
    BY DEF Rows
  <1>2. PICK w \in batch : IsFirst(w, batch) /\ other = Cluster(w, batch)
    BY DEF Rows
  <1> SUFFICES ASSUME NEW x \in row, x \in other
               PROVE  FALSE
    OBVIOUS
  <1>3. /\ x \in batch /\ x.url = v.url /\ x.url = w.url /\ v.time <= x.time /\ w.time <= x.time
        /\ v.time \in Nat /\ w.time \in Nat /\ x.time \in Nat
    BY <1>1, <1>2 DEF Cluster, Visited
  <1>4. ~ (v.time < w.time) /\ ~ (w.time < v.time)
    BY <1>1, <1>2, <1>3 DEF Cluster
  <1>5. v.time = w.time /\ v.url = w.url
    BY <1>3, <1>4
  <1>6. v = w
    BY <1>5, SameVisit
  <1> QED
    BY <1>1, <1>2, <1>6

LEMMA RowsArePartOf ==
  ASSUME NEW batch, NEW row \in Rows(batch)
  PROVE  row \subseteq batch
  BY DEF Rows, Cluster

LEMMA ClustersAreWhole ==
  ASSUME SyncInv, NEW batch, batch \subseteq visits, Interval(batch), NEW row \in Rows(batch)
  PROVE  Whole(row)
  <1>1. PICK v \in batch : IsFirst(v, batch) /\ row = Cluster(v, batch)
    BY DEF Rows
  <1>2. /\ batch \subseteq Visited /\ v \in Visited
        /\ \A w \in visits : w.time \in Nat
    BY DEF SyncInv, HistoryTypeOK, Visited
  <1>3. v \in row
    <2>1. v.time <= v.time /\ ~ \E x \in batch : v.time < x.time /\ x.time <= v.time
      BY <1>2
    <2> QED
      BY <1>1, <2>1 DEF Cluster
  <1>4. Interval(row)
    <2> SUFFICES ASSUME NEW x \in row, NEW y \in row, NEW z \in visits, z.url = x.url, z.url = y.url,
                        x.time <= z.time, z.time <= y.time
                 PROVE  z \in row
      BY DEF Interval
    <2>1. z \in batch
      BY RowsArePartOf DEF Interval
    <2>2. /\ x.url = v.url /\ v.time <= x.time
          /\ ~ \E u \in batch : u.url = v.url /\ IsFirst(u, batch) /\ v.time < u.time /\ u.time <= y.time
      BY <1>1 DEF Cluster
    <2>3. v.time \in Nat /\ x.time \in Nat /\ y.time \in Nat /\ z.time \in Nat
      BY <1>2, RowsArePartOf
    <2>4. v.time <= z.time
      BY <2>2, <2>3
    <2>5. ~ \E u \in batch : u.url = v.url /\ IsFirst(u, batch) /\ v.time < u.time /\ u.time <= z.time
      <3> SUFFICES ASSUME NEW u \in batch, u.url = v.url, IsFirst(u, batch), v.time < u.time, u.time <= z.time
                   PROVE  FALSE
        OBVIOUS
      <3>1. u.time \in Nat
        BY <1>2
      <3>2. u.time <= y.time
        BY <2>3, <3>1
      <3> QED
        BY <2>2, <3>2
    <2> QED
      BY <1>1, <2>1, <2>2, <2>4, <2>5 DEF Cluster
  <1>5. row \subseteq visits /\ \A w, x \in row : w.url = x.url
    BY <1>1, RowsArePartOf DEF Cluster
  <1> QED
    BY <1>3, <1>4, <1>5 DEF Whole

LEMMA RowsAreSomewhere ==
  /\ \A row : row \in AllRows <=> \/ \E m \in Months : row \in events[m]
                                  \/ \E h \in handlers : row \in h.rows
  /\ \A row : row \in AllRows' <=> \/ \E m \in Months : row \in events'[m]
                                   \/ \E h \in handlers' : row \in h.rows
  <1>1. ASSUME NEW f, NEW requests
        PROVE  \A row : row \in (UNION {f[m] : m \in Months}) \cup (UNION {h.rows : h \in requests})
                 <=> \/ \E m \in Months : row \in f[m]
                     \/ \E h \in requests : row \in h.rows
    <2> TAKE row
    <2>1. row \in UNION {f[m] : m \in Months} <=> \E m \in Months : row \in f[m]
      OBVIOUS
    <2>2. row \in UNION {h.rows : h \in requests} <=> \E h \in requests : row \in h.rows
      OBVIOUS
    <2> QED
      BY <2>1, <2>2
  <1> QED
    BY <1>1 DEF AllRows

(* What a request adds is what it was made of.                             *)
LEMMA RowsStay ==
  ASSUME SyncInv, NEW h \in handlers, SaveMonth(h) \/ EnqueueCompaction(h) \/ IngestFails(h)
  PROVE  AllRows' \subseteq AllRows
  <1>1. CASE SaveMonth(h)
    <2>1. PICK m \in h.unsaved :
            /\ events' = [events EXCEPT ![m] = @ \cup {row \in h.rows : Month(Started(row)) = m}]
            /\ handlers' = (handlers \ {h}) \cup {[h EXCEPT !.unsaved = @ \ {m}]}
      BY <1>1 DEF SaveMonth, Handle
    <2>2. h \in Requests /\ events \in [Months -> SUBSET SUBSET Visited]
      BY DEF SyncInv, HistoryTypeOK
    <2> DEFINE next == [h EXCEPT !.unsaved = @ \ {m}]
               added == {row \in h.rows : Month(Started(row)) = m}
    <2>3. next.rows = h.rows /\ added \subseteq h.rows
      BY <2>2 DEF Requests
    <2>4. \A n \in Months : events'[n] \subseteq events[n] \cup added
      BY <2>1, <2>2
    <2> HIDE DEF next, added
    <2>5. \A other \in handlers' : other.rows = h.rows \/ other \in handlers
      BY <2>1, <2>3 DEF next
    <2>6. \A n \in Months : \A row \in events'[n] : row \in AllRows
      BY <2>3, <2>4, RowsAreSomewhere
    <2>7. \A other \in handlers' : \A row \in other.rows : row \in AllRows
      BY <2>5, RowsAreSomewhere
    <2> QED
      BY <2>6, <2>7, RowsAreSomewhere
  <1>2. CASE EnqueueCompaction(h) \/ IngestFails(h)
    <2>1. handlers' \subseteq handlers /\ UNCHANGED events
      BY <1>2 DEF EnqueueCompaction, IngestFails, Respond, serviceVars
    <2> QED
      BY <2>1, RowsAreSomewhere
  <1> QED
    BY <1>1, <1>2

(* A part of the past stays whole when visits join the history.            *)
LEMMA IntervalsStay ==
  ASSUME SyncInv, [HistoryNext]_historyVars, NEW part, part \subseteq visits, Interval(part)
  PROVE  part \subseteq visits' /\ Interval(part)'
  <1>1. CASE TimePasses
    <2>1. /\ \A v \in visits' : v \in visits \/ v.time = tick
          /\ visits \subseteq visits' /\ tick \in Nat
          /\ \A v \in visits : v.time \in Nat /\ v.time < tick
      BY <1>1 DEF TimePasses, SyncInv, HistoryTypeOK, Visited
    <2> SUFFICES ASSUME NEW v \in part, NEW w \in part, NEW x \in visits', x.url = v.url, x.url = w.url,
                        v.time <= x.time, x.time <= w.time
                 PROVE  x \in part
      BY <2>1 DEF Interval
    <2>2. w.time \in Nat /\ w.time < tick
      BY <2>1
    <2>3. x.time # tick
      BY <2>1, <2>2
    <2> QED
      BY <2>1, <2>3 DEF Interval
  <1>2. CASE UNCHANGED visits
    BY <1>2 DEF Interval
  <1>3. TimePasses \/ UNCHANGED visits
    <2>1. ASSUME NEW s \in Syncs,
                 \/ StartSync(s) \/ Collect(s) \/ Post(s) \/ FetchFails(s)
                 \/ SetSuccessfulSync(s) \/ SyncDies(s)
          PROVE  UNCHANGED visits
      BY <2>1 DEF StartSync, Collect, Post, FetchFails, SetSuccessfulSync, SyncDies, browserVars
    <2>2. ASSUME NEW h \in handlers, SaveMonth(h) \/ EnqueueCompaction(h) \/ IngestFails(h)
          PROVE  UNCHANGED visits
      BY <2>2 DEF SaveMonth, EnqueueCompaction, IngestFails, browserVars
    <2>3. ASSUME NEW m \in Months, ReadMonth(m) \/ WriteMonth(m) \/ MonthFails(m)
          PROVE  UNCHANGED visits
      BY <2>3 DEF ReadMonth, WriteMonth, MonthFails, browserVars
    <2>4. ASSUME QueueMaintenance \/ StartCompaction \/ CompactionDies \/ RestartService
                 \/ UNCHANGED historyVars
          PROVE  UNCHANGED visits
      BY <2>4 DEF QueueMaintenance, StartCompaction, CompactionDies, RestartService,
                  historyVars, browserVars
    <2> QED
      BY <2>1, <2>2, <2>3, <2>4 DEF HistoryNext
  <1> QED
    BY <1>1, <1>2, <1>3

LEMMA WholeInit == HistoryInit => PagesAreWhole
  BY DEF HistoryInit, PagesAreWhole, AllRows, RunIsWhole, New

LEMMA WholeStep ==
  ASSUME SyncInv, PagesAreWhole, [HistoryNext]_historyVars
  PROVE  PagesAreWhole'
  <1>1. \A row \in AllRows : Whole(row)'
    BY IntervalsStay DEF PagesAreWhole, Whole
  <1>2. ASSUME NEW run \in SyncRuns, RunIsWhole(run)
        PROVE  RunIsWhole(run)'
    <2> SUFFICES ASSUME run.at \in {"post", "await", "retry", "save"}
                 PROVE  RunIsWhole(run)'
      BY DEF RunIsWhole
    <2>1. run.left \subseteq visits /\ Interval(run.left)
      BY <1>2 DEF RunIsWhole
    <2>2. run.left \subseteq visits' /\ Interval(run.left)'
      BY <2>1, IntervalsStay
    <2>3. run.at \in {"await", "retry"} => Interval(run.batch)'
      BY <1>2, <2>1, IntervalsStay DEF RunIsWhole
    <2> QED
      BY <1>2, <2>2, <2>3 DEF RunIsWhole
  <1>3. syncs \in [Syncs -> SyncRuns] /\ visits \subseteq Visited
    BY DEF SyncInv, HistoryTypeOK
  <1>4. ASSUME \A row \in AllRows' : row \in AllRows \/ Whole(row)', UNCHANGED syncs
        PROVE  PagesAreWhole'
    BY <1>1, <1>2, <1>3, <1>4 DEF PagesAreWhole
  <1>5. ASSUME NEW s \in Syncs, NEW run, syncs' = [syncs EXCEPT ![s] = run],
               RunIsWhole(run)', \A row \in AllRows' : row \in AllRows \/ Whole(row)'
        PROVE  PagesAreWhole'
    <2>1. \A other \in Syncs : syncs'[other] = IF other = s THEN run ELSE syncs[other]
      BY <1>3, <1>5
    <2>2. \A other \in Syncs : RunIsWhole(syncs[other])'
      <3> TAKE other \in Syncs
      <3>1. CASE other = s
        BY <1>5, <2>1, <3>1 DEF RunIsWhole
      <3>2. CASE other # s
        <4>1. RunIsWhole(syncs[other])'
          <5>1. PICK old \in SyncRuns : old = syncs[other] /\ RunIsWhole(old)
            BY <1>3 DEF PagesAreWhole
          <5>2. syncs'[other] = old
            BY <2>1, <3>2, <5>1
          <5>3. RunIsWhole(old)'
            BY <1>2, <5>1
          <5> QED
            BY <5>2, <5>3 DEF RunIsWhole
        <4> QED
          BY <4>1
      <3> QED
        BY <3>1, <3>2
    <2> QED
      BY <1>1, <1>5, <2>2 DEF PagesAreWhole
  <1>6. RunIsWhole(Over)'
    BY NewRuns DEF RunIsWhole
  <1>7. ASSUME UNCHANGED <<events, handlers>>
        PROVE  AllRows' \subseteq AllRows
    BY <1>7, RowsAreSomewhere
  <1>8. ASSUME NEW s \in Syncs, StartSync(s)
        PROVE  PagesAreWhole'
    <2>0. PICK run : run = [New EXCEPT !.at = "collect", !.since = cursor, !.started = tick]
      OBVIOUS
    <2>1. syncs' = [syncs EXCEPT ![s] = run] /\ UNCHANGED <<events, handlers>>
      BY <1>8, <2>0 DEF StartSync, Continue, serviceVars
    <2>2. run.at = "collect"
      BY <2>0 DEF New
    <2>3. RunIsWhole(run)'
      BY <2>2 DEF RunIsWhole
    <2> QED
      BY <1>5, <1>7, <2>1, <2>3
  <1>9. ASSUME NEW s \in Syncs, Collect(s)
        PROVE  PagesAreWhole'
    <2>1. PICK old \in SyncRuns : old = syncs[s]
      BY <1>3
    <2>0. PICK found : found = {v \in visits : old.since < v.time /\ v.time <= old.started}
      OBVIOUS
    <2> DEFINE run == [old EXCEPT !.at = "post", !.left = found]
    <2>2. syncs' = [syncs EXCEPT ![s] = run] /\ UNCHANGED <<events, handlers, visits>>
      BY <1>9, <2>1, <2>0 DEF Collect, Continue, serviceVars, browserVars
    <2>3. /\ run.at = "post" /\ run.left = found /\ run.since = old.since /\ run.started = old.started
          /\ old.since \in Nat /\ old.started \in Nat
      BY DEF SyncRuns
    <2>4. Interval(found)
      <3> SUFFICES ASSUME NEW v \in found, NEW w \in found, NEW x \in visits,
                          v.time <= x.time, x.time <= w.time
                   PROVE  x \in found
        BY DEF Interval
      <3>1. v.time \in Nat /\ w.time \in Nat /\ x.time \in Nat
        BY <1>3, <2>0 DEF Visited
      <3>2. old.since < v.time /\ w.time <= old.started
        BY <2>0
      <3> QED
        BY <2>0, <2>3, <3>1, <3>2
    <2> HIDE DEF run
    <2>5. RunIsWhole(run)'
      <3>1. Interval(found)'
        BY <2>2, <2>4 DEF Interval
      <3> QED
        BY <2>0, <2>2, <2>3, <3>1 DEF RunIsWhole
    <2> QED
      BY <1>5, <1>7, <2>2, <2>5
  <1>10. ASSUME NEW s \in Syncs, NEW batch, syncs[s].at \in {"post", "retry"}, SendBatch(s, batch),
                batch \subseteq syncs[s].left, Interval(batch),
                \A v \in batch, w \in syncs[s].left \ batch : w.time <= v.time,
                UNCHANGED <<visits, events>>
        PROVE  PagesAreWhole'
    <2>1. PICK old \in SyncRuns : old = syncs[s] /\ RunIsWhole(old)
      BY <1>3 DEF PagesAreWhole
    <2> DEFINE run == [old EXCEPT !.at = "await", !.batch = batch, !.tries = old.tries + 1,
                                  !.posts = old.posts + 1]
               request == [id |-> <<s, run.posts>>, rows |-> Rows(batch),
                           unsaved |-> MonthsOf(Rows(batch))]
    <2>2. syncs' = [syncs EXCEPT ![s] = run] /\ handlers' = handlers \cup {request}
      BY <1>10, <2>1 DEF SendBatch, Continue
    <2>3. /\ run.at = "await" /\ run.left = old.left /\ run.batch = batch
          /\ run.since = old.since /\ run.started = old.started
          /\ request.rows = Rows(batch)
      BY DEF SyncRuns
    <2> HIDE DEF run, request
    <2>4. batch \subseteq visits
      BY <1>10, <2>1 DEF RunIsWhole
    <2>5. \A row \in AllRows' : row \in AllRows \/ Whole(row)'
      <3> TAKE row \in AllRows'
      <3>1. row \in AllRows \/ row \in Rows(batch)
        BY <1>10, <2>2, <2>3, RowsAreSomewhere
      <3>2. row \in Rows(batch) => Whole(row)
        BY <1>10, <2>4, ClustersAreWhole
      <3>3. Whole(row) => Whole(row)'
        BY <1>10 DEF Whole, Interval
      <3> QED
        BY <3>1, <3>2, <3>3
    <2>6. RunIsWhole(run)'
      BY <1>10, <2>1, <2>3 DEF RunIsWhole, Interval
    <2> QED
      BY <1>5, <2>2, <2>5, <2>6
  <1>11. ASSUME NEW s \in Syncs, Post(s)
        PROVE  PagesAreWhole'
    <2>1. UNCHANGED <<visits, events>>
      BY <1>11 DEF Post, browserVars, serviceVars
    <2>2. RunIsWhole(syncs[s])
      BY DEF PagesAreWhole
    <2>3. CASE syncs[s].at = "post"
      <3>1. PICK batch \in Batches(syncs[s].left) : SendBatch(s, batch)
        BY <1>11, <2>3 DEF Post
      <3>2. /\ batch \subseteq syncs[s].left
            /\ \A v \in batch, w \in syncs[s].left \ batch : w.time <= v.time
        BY <3>1 DEF Batches
      <3>3. Interval(batch)
        <4> SUFFICES ASSUME NEW v \in batch, NEW w \in batch, NEW x \in visits,
                            x.url = v.url, x.url = w.url, v.time <= x.time, x.time <= w.time,
                            x \notin batch
                     PROVE  FALSE
          BY DEF Interval
        <4>1. x \in syncs[s].left
          BY <2>2, <2>3, <3>2 DEF RunIsWhole, Interval
        <4>2. v \in Visited /\ x \in Visited /\ v.time \in Nat /\ x.time \in Nat
          BY <1>3, <2>2, <2>3, <3>2 DEF RunIsWhole, Visited
        <4>3. x.time = v.time
          BY <3>2, <4>1, <4>2
        <4> QED
          BY <4>2, <4>3, SameVisit
      <3> QED
        BY <1>10, <2>1, <2>3, <3>1, <3>2, <3>3
    <2>4. CASE syncs[s].at = "retry" /\ SendBatch(s, syncs[s].batch)
      BY <1>10, <2>1, <2>2, <2>4 DEF RunIsWhole
    <2> QED
      BY <1>11, <2>3, <2>4 DEF Post
  <1>12. ASSUME NEW s \in Syncs, FetchFails(s) \/ SetSuccessfulSync(s) \/ SyncDies(s)
        PROVE  PagesAreWhole'
    <2>1. UNCHANGED <<visits, events, handlers>>
      BY <1>12 DEF FetchFails, SetSuccessfulSync, SyncDies, browserVars, serviceVars
    <2>2. CASE syncs' = [syncs EXCEPT ![s] = Over]
      BY <1>5, <1>6, <1>7, <2>1, <2>2
    <2>3. CASE syncs' = [syncs EXCEPT ![s] = [syncs[s] EXCEPT !.at = "retry"]] /\ syncs[s].at = "await"
      <3>1. PICK old \in SyncRuns : old = syncs[s] /\ RunIsWhole(old)
        BY <1>3 DEF PagesAreWhole
      <3> DEFINE run == [old EXCEPT !.at = "retry"]
      <3>2. /\ run.at = "retry" /\ run.left = old.left /\ run.batch = old.batch
            /\ run.since = old.since /\ run.started = old.started
        BY DEF SyncRuns
      <3>3. syncs' = [syncs EXCEPT ![s] = run]
        BY <2>3, <3>1
      <3> HIDE DEF run
      <3>4. RunIsWhole(run)'
        BY <2>1, <2>3, <3>1, <3>2 DEF RunIsWhole, Interval
      <3> QED
        BY <1>5, <1>7, <2>1, <3>3, <3>4
    <2> QED
      BY <1>12, <2>2, <2>3 DEF FetchFails, SetSuccessfulSync, SyncDies, GiveUp, Continue
  <1>13. ASSUME NEW h \in handlers, SaveMonth(h) \/ EnqueueCompaction(h) \/ IngestFails(h)
        PROVE  PagesAreWhole'
    <2>1. AllRows' \subseteq AllRows
      BY <1>13, RowsStay
    <2>2. UNCHANGED visits
      BY <1>13 DEF SaveMonth, EnqueueCompaction, IngestFails, browserVars
    <2>3. CASE UNCHANGED syncs
      BY <1>4, <2>1, <2>3
    <2>4. ASSUME NEW s \in Syncs, GiveUp(s)
          PROVE  PagesAreWhole'
      BY <1>5, <1>6, <2>1, <2>4 DEF GiveUp, Continue
    <2>5. ASSUME NEW s \in Syncs, Awaits(s, h), Accepted(s)
          PROVE  PagesAreWhole'
      <3>1. PICK old \in SyncRuns : old = syncs[s] /\ RunIsWhole(old) /\ old.at = "await"
        BY <1>3, <2>5 DEF PagesAreWhole, Awaits
      <3> DEFINE left == old.left \ old.batch
                 run == [old EXCEPT !.at = IF left = {} THEN "save" ELSE "post",
                                    !.left = left, !.batch = {}, !.tries = 0]
      <3>2. syncs' = [syncs EXCEPT ![s] = run]
        BY <2>5, <3>1 DEF Accepted, Continue
      <3>3. /\ run.at \in {"save", "post"} /\ run.left = left
            /\ run.since = old.since /\ run.started = old.started
        BY DEF SyncRuns
      <3>4. Interval(left)
        <4> SUFFICES ASSUME NEW v \in left, NEW w \in left, NEW x \in visits,
                            x.url = v.url, x.url = w.url, v.time <= x.time, x.time <= w.time,
                            x \notin left
                     PROVE  FALSE
          BY DEF Interval
        <4>1. x \in old.batch
          BY <3>1 DEF RunIsWhole, Interval
        <4>2. w \in Visited /\ x \in Visited /\ w.time \in Nat /\ x.time \in Nat
          BY <1>3, <3>1 DEF RunIsWhole, Visited
        <4>3. w.time <= x.time
          BY <3>1, <4>1 DEF RunIsWhole
        <4>4. x.time = w.time
          BY <4>2, <4>3
        <4>5. x = w
          BY <4>2, <4>4, SameVisit
        <4> QED
          BY <4>1, <4>5
      <3> HIDE DEF run
      <3>5. RunIsWhole(run)'
        <4>1. Interval(left)'
          BY <2>2, <3>4 DEF Interval
        <4> QED
          BY <2>2, <3>1, <3>3, <4>1 DEF RunIsWhole
      <3> QED
        BY <1>5, <2>1, <3>2, <3>5
    <2> QED
      BY <1>13, <2>3, <2>4, <2>5 DEF SaveMonth, EnqueueCompaction, IngestFails, Respond, extensionVars
  <1>14. ASSUME NEW m \in Months, ReadMonth(m) \/ WriteMonth(m) \/ MonthFails(m)
        PROVE  PagesAreWhole'
    <2>1. UNCHANGED <<events, handlers, syncs>>
      BY <1>14 DEF ReadMonth, WriteMonth, MonthFails, extensionVars
    <2> QED
      BY <1>4, <1>7, <2>1
  <1>15. CASE TimePasses \/ QueueMaintenance \/ StartCompaction \/ CompactionDies \/ RestartService
              \/ UNCHANGED historyVars
    <2>1. UNCHANGED <<events, syncs>> /\ handlers' \subseteq handlers
      BY <1>15 DEF TimePasses, QueueMaintenance, StartCompaction, CompactionDies, RestartService,
                   historyVars, extensionVars, serviceVars
    <2>2. AllRows' \subseteq AllRows
      BY <2>1, RowsAreSomewhere
    <2> QED
      BY <1>4, <2>1, <2>2
  <1> QED
    BY <1>8, <1>9, <1>11, <1>12, <1>13, <1>14, <1>15 DEF HistoryNext

-------------------------------------------------------------------------------
(* Compaction: a row that is kept stays kept.                              *)
CompactionTypeOK ==
  /\ compactions \in Seq(SUBSET Months) /\ stale \subseteq Months
  /\ compactor \in [at : {"idle", "reading", "writing"}, months : SUBSET Months,
                    rows : SUBSET SUBSET Visited]
  /\ compacted \in [Months -> SUBSET SUBSET Visited]

(* The files hold saved rows only, and a run that is about to write what   *)
(* it has read takes none away.                                            *)
FilesAreRead ==
  \A m \in Months :
    /\ compacted[m] \subseteq events[m]
    /\ Writing(m) => compacted[m] \subseteq compactor.rows /\ compactor.rows \subseteq events[m]

LEMMA OneIsCurrent ==
  ASSUME NEW m \in Months, NEW n \in Months, Current(m), Current(n)
  PROVE  m = n
  <1>1. m <= n /\ n <= m
    BY DEF Current
  <1> QED
    BY <1>1 DEF Months

LEMMA MonthIsDone ==
  ASSUME CompactionTypeOK, NEW m \in Months, Current(m), NextMonth(m)
  PROVE  /\ compactor' \in [at : {"idle", "reading", "writing"}, months : SUBSET Months,
                            rows : SUBSET SUBSET Visited]
         /\ compactor'.months = compactor.months \ {m}
         /\ compactor'.at # "writing"
  <1>1. CASE compactor.months = {m} /\ compactor' = NoCompaction
    BY <1>1 DEF NoCompaction
  <1>2. CASE compactor' = [compactor EXCEPT !.at = "reading", !.months = compactor.months \ {m}, !.rows = {}]
    BY <1>2 DEF CompactionTypeOK
  <1> QED
    BY <1>1, <1>2 DEF NextMonth

LEMMA MonthIsRead ==
  ASSUME SyncInv, PagesAreWhole, CompactionTypeOK, NEW m \in Months, ReadMonth(m)
  PROVE  \/ events[m] = {} /\ NextMonth(m)
         \/ /\ compactor' \in [at : {"idle", "reading", "writing"}, months : SUBSET Months,
                               rows : SUBSET SUBSET Visited]
            /\ compactor'.at = "writing" /\ compactor'.months = compactor.months
            /\ compactor'.rows = events[m]
  <1>1. CompactRecords(events[m]) = events[m]
    BY NoneIsDropped, RowsAreSomewhere DEF PagesAreWhole
  <1>2. CASE events[m] # {}
    <2>1. compactor' = [compactor EXCEPT !.at = "writing", !.rows = events[m]]
      BY <1>1, <1>2 DEF ReadMonth
    <2>2. events[m] \in SUBSET SUBSET Visited
      BY DEF SyncInv, HistoryTypeOK
    <2> QED
      BY <2>1, <2>2 DEF CompactionTypeOK
  <1> QED
    BY <1>2 DEF ReadMonth

(* What a step may do to the queue, the run and the files.                 *)
CompactionRests == UNCHANGED <<compactor, compacted, stale>>
CompactionEnds ==
  compactor' = NoCompaction /\ stale' = stale \cup compactor.months /\ UNCHANGED <<compactions, compacted>>
LEMMA CompactionSteps ==
  ASSUME SyncInv, CompactionTypeOK, [HistoryNext]_historyVars
  PROVE  \/ CompactionRests /\ UNCHANGED compactions
         \/ CompactionRests /\ \E months \in SUBSET Months : compactions' = Append(compactions, months)
         \/ StartCompaction
         \/ CompactionEnds
         \/ \E m \in Months : ReadMonth(m) \/ WriteMonth(m) \/ MonthFails(m)
  <1>1. ASSUME NEW s \in Syncs,
               \/ StartSync(s) \/ Collect(s) \/ Post(s) \/ FetchFails(s)
               \/ SetSuccessfulSync(s) \/ SyncDies(s)
        PROVE  CompactionRests /\ UNCHANGED compactions
    BY <1>1 DEF StartSync, Collect, Post, FetchFails, SetSuccessfulSync, SyncDies, serviceVars,
                CompactionRests
  <1>2. ASSUME NEW h \in handlers, SaveMonth(h) \/ EnqueueCompaction(h) \/ IngestFails(h)
        PROVE  /\ CompactionRests
               /\ \/ UNCHANGED compactions
                  \/ \E months \in SUBSET Months : compactions' = Append(compactions, months)
    BY <1>2, MonthsAreMonths DEF SaveMonth, EnqueueCompaction, IngestFails, serviceVars, CompactionRests
  <1>3. CASE TimePasses \/ UNCHANGED historyVars
    BY <1>3 DEF TimePasses, historyVars, serviceVars, CompactionRests
  <1>4. CASE QueueMaintenance
    BY <1>4 DEF QueueMaintenance, CompactionRests
  <1>5. CASE CompactionDies \/ RestartService
    BY <1>5 DEF CompactionDies, RestartService, CompactionEnds
  <1> QED
    BY <1>1, <1>2, <1>3, <1>4, <1>5 DEF HistoryNext

LEMMA EventsGrow ==
  ASSUME SyncInv, [HistoryNext]_historyVars, NEW m \in Months
  PROVE  events[m] \subseteq events'[m]
  <1>1. ASSUME NEW s \in Syncs,
               \/ StartSync(s) \/ Collect(s) \/ Post(s) \/ FetchFails(s)
               \/ SetSuccessfulSync(s) \/ SyncDies(s)
        PROVE  UNCHANGED events
    BY <1>1 DEF StartSync, Collect, Post, FetchFails, SetSuccessfulSync, SyncDies, serviceVars
  <1>2. ASSUME NEW h \in handlers, SaveMonth(h)
        PROVE  events[m] \subseteq events'[m]
    <2>1. events \in [Months -> SUBSET SUBSET Visited]
      BY DEF SyncInv, HistoryTypeOK
    <2> QED
      BY <1>2, <2>1 DEF SaveMonth
  <1>3. ASSUME NEW h \in handlers, EnqueueCompaction(h) \/ IngestFails(h)
        PROVE  UNCHANGED events
    BY <1>3 DEF EnqueueCompaction, IngestFails, serviceVars
  <1>4. ASSUME NEW n \in Months, ReadMonth(n) \/ WriteMonth(n) \/ MonthFails(n)
        PROVE  UNCHANGED events
    BY <1>4 DEF ReadMonth, WriteMonth, MonthFails
  <1>5. CASE TimePasses \/ QueueMaintenance \/ StartCompaction \/ CompactionDies \/ RestartService
             \/ UNCHANGED historyVars
    BY <1>5 DEF TimePasses, QueueMaintenance, StartCompaction, CompactionDies, RestartService,
                historyVars, serviceVars
  <1> QED
    BY <1>1, <1>2, <1>3, <1>4, <1>5 DEF HistoryNext

LEMMA KeptStays ==
  ASSUME SyncInv, PagesAreWhole, CompactionTypeOK, [HistoryNext]_historyVars,
         NEW m \in Months, NEW row \in events[m], Kept(m, row)
  PROVE  Kept(m, row)'
  <1>1. compactions \in Seq(SUBSET Months)
    BY DEF CompactionTypeOK
  <1>2. CASE CompactionRests /\ UNCHANGED compactions
    BY <1>2 DEF CompactionRests, Kept, Writing, Current
  <1>3. ASSUME CompactionRests, NEW months \in SUBSET Months, compactions' = Append(compactions, months)
        PROVE  Kept(m, row)'
    <2>1. \A i \in DOMAIN compactions : i \in DOMAIN compactions' /\ compactions'[i] = compactions[i]
      BY <1>1, <1>3
    <2> QED
      BY <1>3, <2>1 DEF CompactionRests, Kept, Writing, Current
  <1>4. CASE StartCompaction
    <2>1. /\ compactions # <<>> /\ compactions' = Tail(compactions) /\ UNCHANGED <<stale, compacted>>
          /\ compactor = NoCompaction
          /\ compactor'.at = "reading" /\ compactor'.months = Head(compactions)
      BY <1>4 DEF StartCompaction, NoCompaction
    <2>2. ~Writing(m) /\ ~Writing(m)' /\ compactor.months = {}
      BY <2>1 DEF Writing, NoCompaction
    <2>3. ASSUME NEW i \in DOMAIN compactions, m \in compactions[i]
          PROVE  Kept(m, row)'
      <3>1. CASE i = 1
        <4>1. m \in compactor'.months
          BY <2>1, <2>3, <3>1
        <4> QED
          BY <2>2, <4>1 DEF Kept
      <3>2. CASE i # 1
        <4>1. i - 1 \in DOMAIN compactions' /\ compactions'[i - 1] = compactions[i]
          BY <1>1, <2>1, <3>2
        <4> QED
          BY <2>3, <4>1 DEF Kept
      <3> QED
        BY <3>1, <3>2
    <2> QED
      BY <2>1, <2>2, <2>3 DEF Kept
  <1>5. CASE CompactionEnds
    <2>1. ~Writing(m)' /\ compactor'.months = {}
      BY <1>5 DEF CompactionEnds, Writing, NoCompaction
    <2>2. Writing(m) => m \in compactor.months
      BY DEF Writing, Current
    <2> QED
      BY <1>5, <2>1, <2>2 DEF CompactionEnds, Kept
  <1>6. ASSUME NEW n \in Months, ReadMonth(n)
        PROVE  Kept(m, row)'
    <2>1. /\ UNCHANGED <<compactions, compacted, stale>> /\ ~Writing(m) /\ Current(n)
      BY <1>6 DEF ReadMonth, Writing
    <2>2. CASE events[n] = {} /\ NextMonth(n)
      <3>1. m # n /\ compactor'.months = compactor.months \ {n} /\ ~Writing(m)'
        BY <2>1, <2>2, MonthIsDone DEF Writing
      <3> QED
        BY <2>1, <3>1 DEF Kept
    <2>3. CASE compactor'.at = "writing" /\ compactor'.months = compactor.months
               /\ compactor'.rows = events[n]
      <3>1. CASE m = n
        BY <2>1, <2>3, <3>1 DEF Kept, Writing, Current
      <3>2. CASE m # n
        <4>1. ~Writing(m)'
          BY <2>1, <2>3, <3>2, OneIsCurrent DEF Writing, Current
        <4> QED
          BY <2>1, <2>3, <4>1 DEF Kept
      <3> QED
        BY <3>1, <3>2
    <2> QED
      BY <1>6, <2>2, <2>3, MonthIsRead
  <1>7. ASSUME NEW n \in Months, WriteMonth(n)
        PROVE  Kept(m, row)'
    <2>1. /\ compactor.at = "writing" /\ Current(n) /\ UNCHANGED compactions
          /\ compacted' = [compacted EXCEPT ![n] = compactor.rows] /\ stale' = stale \ {n}
          /\ compactor'.months = compactor.months \ {n} /\ ~Writing(m)'
      BY <1>7, MonthIsDone DEF WriteMonth, Writing
    <2>2. compacted \in [Months -> SUBSET SUBSET Visited]
      BY DEF CompactionTypeOK
    <2>3. CASE m = n
      <3>1. Writing(m) /\ compacted'[m] = compactor.rows
        BY <2>1, <2>2, <2>3 DEF Writing
      <3> QED
        BY <2>1, <3>1 DEF Kept
    <2>4. CASE m # n
      <3>1. ~Writing(m) /\ compacted'[m] = compacted[m]
        BY <2>1, <2>2, <2>4, OneIsCurrent DEF Writing
      <3> QED
        BY <2>1, <2>4, <3>1 DEF Kept
    <2> QED
      BY <2>3, <2>4
  <1>8. ASSUME NEW n \in Months, MonthFails(n)
        PROVE  Kept(m, row)'
    <2>1. /\ Current(n) /\ UNCHANGED <<compactions, compacted>> /\ stale' = stale \cup {n}
          /\ compactor'.months = compactor.months \ {n} /\ ~Writing(m)'
      BY <1>8, MonthIsDone DEF MonthFails, Writing
    <2>2. Writing(m) => m = n
      BY <2>1, OneIsCurrent DEF Writing
    <2> QED
      BY <2>1, <2>2 DEF Kept
  <1> QED
    BY <1>2, <1>3, <1>4, <1>5, <1>6, <1>7, <1>8, CompactionSteps

LEMMA ToldStays ==
  ASSUME SyncInv, PagesAreWhole, CompactionTypeOK, [HistoryNext]_historyVars
  PROVE  StillTold
  <1> SUFFICES ASSUME NEW v, Told(v)
               PROVE  Told(v)'
    BY DEF StillTold
  <1>1. PICK m \in Months : \E row \in events[m] : v \in row /\ Kept(m, row)
    BY DEF Told
  <1>2. PICK row \in events[m] : v \in row /\ Kept(m, row)
    BY <1>1
  <1>3. Kept(m, row)' /\ row \in events'[m]
    BY <1>2, KeptStays, EventsGrow
  <1> QED
    BY <1>2, <1>3 DEF Told

LEMMA FilesInit == HistoryInit => CompactionTypeOK /\ FilesAreRead
  BY DEF HistoryInit, CompactionTypeOK, FilesAreRead, NoCompaction, Writing

LEMMA FilesStep ==
  ASSUME SyncInv, PagesAreWhole, CompactionTypeOK, FilesAreRead, [HistoryNext]_historyVars
  PROVE  CompactionTypeOK' /\ FilesAreRead'
  <1>1. /\ compactions \in Seq(SUBSET Months) /\ stale \subseteq Months
        /\ compacted \in [Months -> SUBSET SUBSET Visited]
        /\ compactor.months \subseteq Months /\ compactor.rows \in SUBSET SUBSET Visited
    BY DEF CompactionTypeOK
  <1>2. CASE CompactionRests /\ compactions' \in Seq(SUBSET Months)
    <2>1. CompactionTypeOK'
      BY <1>2 DEF CompactionRests, CompactionTypeOK
    <2>2. FilesAreRead'
      <3> SUFFICES ASSUME NEW m \in Months
                   PROVE  /\ compacted'[m] \subseteq events'[m]
                          /\ Writing(m)' => compacted'[m] \subseteq compactor'.rows
                                            /\ compactor'.rows \subseteq events'[m]
        BY DEF FilesAreRead
      <3>1. Writing(m)' => Writing(m)
        BY <1>2 DEF CompactionRests, Writing, Current
      <3> QED
        BY <1>2, <3>1, EventsGrow DEF CompactionRests, FilesAreRead
    <2> QED
      BY <2>1, <2>2
  <1>3. ASSUME compactor'.at # "writing", UNCHANGED <<compacted, events>>
        PROVE  FilesAreRead'
    BY <1>3 DEF FilesAreRead, Writing
  <1>4. CASE StartCompaction
    <2>1. Head(compactions) \in SUBSET Months /\ compactions' \in Seq(SUBSET Months)
      BY <1>1, <1>4 DEF StartCompaction
    <2>2. CompactionTypeOK'
      BY <1>4, <2>1 DEF CompactionTypeOK, StartCompaction, NoCompaction
    <2> QED
      BY <1>3, <1>4, <2>2 DEF StartCompaction, NoCompaction
  <1>5. CASE CompactionEnds
    <2>1. CompactionTypeOK'
      BY <1>1, <1>5 DEF CompactionTypeOK, CompactionEnds, NoCompaction
    <2>2. FilesAreRead'
      BY <1>5, EventsGrow DEF FilesAreRead, Writing, CompactionEnds, NoCompaction
    <2> QED
      BY <2>1, <2>2
  <1>6. ASSUME NEW n \in Months, ReadMonth(n)
        PROVE  CompactionTypeOK' /\ FilesAreRead'
    <2>1. /\ UNCHANGED <<compactions, compacted, stale, events>> /\ Current(n)
      BY <1>6 DEF ReadMonth
    <2>2. CASE NextMonth(n)
      BY <1>1, <1>3, <2>1, <2>2, MonthIsDone DEF CompactionTypeOK
    <2>3. CASE /\ compactor' \in [at : {"idle", "reading", "writing"}, months : SUBSET Months,
                                  rows : SUBSET SUBSET Visited]
               /\ compactor'.at = "writing" /\ compactor'.months = compactor.months
               /\ compactor'.rows = events[n]
      <3>1. \A m \in Months : Writing(m)' => m = n
        BY <2>1, <2>3, OneIsCurrent DEF Writing, Current
      <3> QED
        BY <1>1, <2>1, <2>3, <3>1 DEF CompactionTypeOK, FilesAreRead
    <2> QED
      BY <1>6, <2>2, <2>3, MonthIsRead
  <1>7. ASSUME NEW n \in Months, WriteMonth(n)
        PROVE  CompactionTypeOK' /\ FilesAreRead'
    <2>1. /\ Current(n) /\ Writing(n) /\ UNCHANGED <<compactions, events>> /\ stale' \subseteq Months
          /\ compacted' = [compacted EXCEPT ![n] = compactor.rows] /\ NextMonth(n)
      BY <1>1, <1>7 DEF WriteMonth, Writing
    <2>2. CompactionTypeOK'
      BY <1>1, <2>1, MonthIsDone DEF CompactionTypeOK
    <2>3. \A m \in Months : ~Writing(m)' /\ compacted'[m] \subseteq events[m]
      BY <1>1, <2>1, MonthIsDone DEF Writing, FilesAreRead
    <2> QED
      BY <2>1, <2>2, <2>3 DEF FilesAreRead
  <1>8. ASSUME NEW n \in Months, MonthFails(n)
        PROVE  CompactionTypeOK' /\ FilesAreRead'
    <2>1. /\ Current(n) /\ UNCHANGED <<compactions, compacted, events>> /\ stale' \subseteq Months
          /\ NextMonth(n)
      BY <1>1, <1>8 DEF MonthFails
    <2> QED
      BY <1>1, <1>3, <2>1, MonthIsDone DEF CompactionTypeOK
  <1>9. ASSUME NEW months \in SUBSET Months, compactions' = Append(compactions, months)
        PROVE  compactions' \in Seq(SUBSET Months)
    BY <1>1, <1>9
  <1> QED
    BY <1>1, <1>2, <1>4, <1>5, <1>6, <1>7, <1>8, <1>9, CompactionSteps

-------------------------------------------------------------------------------
(* Page views are apart, while no run was cut short and none met another:  *)
(* every row is older than what the one run collects, or is of what it has *)
(* posted.                                                                 *)
Past(row, time) == \A v \in row : v.time <= time
Behind(row, run) ==
  \/ Past(row, run.since)
  \/ /\ run.posts > 0 /\ run.at # "collect" /\ Past(row, run.started)
     /\ \/ row \cap run.left = {}
        \/ run.at \in {"await", "retry"} /\ row \in Rows(run.batch)
RunsAlone(s, run) ==
  run.at \notin {"new", "over"} =>
    /\ run.since = cursor /\ run.since < run.started
    /\ \A other \in Syncs : Active(other) => other = s
    /\ \A row \in AllRows : Behind(row, run)
RowsAreApart == \A row, other \in AllRows : row # other => row \cap other = {}
PagesAreApart ==
  ~cut => /\ RowsAreApart
          /\ \A s \in Syncs : RunsAlone(s, syncs[s])
          /\ (\A s \in Syncs : ~Active(s)) => \A row \in AllRows : Past(row, cursor)

LEMMA ApartRests ==
  ASSUME PagesAreApart, UNCHANGED <<syncs, cursor, cut>>, AllRows' \subseteq AllRows
  PROVE  PagesAreApart'
  BY DEF PagesAreApart, RowsAreApart, RunsAlone, Active

LEMMA ApartGoesOn ==
  ASSUME SyncInv, NEW s \in Syncs, NEW run \in SyncRuns, syncs' = [syncs EXCEPT ![s] = run],
         run.at \notin {"new", "over"}, run.since = cursor', run.since < run.started,
         \A other \in Syncs : Active(other) => other = s,
         \A row \in AllRows' : Behind(row, run), RowsAreApart'
  PROVE  PagesAreApart'
  <1>1. \A other \in Syncs : syncs'[other] = IF other = s THEN run ELSE syncs[other]
    BY DEF SyncInv, HistoryTypeOK
  <1>2. \A other \in Syncs : Active(other)' => other = s
    BY <1>1 DEF Active
  <1>3. Active(s)'
    BY <1>1 DEF Active
  <1>4. \A other \in Syncs : RunsAlone(other, syncs[other])'
    <2> TAKE other \in Syncs
    <2>1. CASE other = s
      <3>1. syncs'[other] = run
        BY <1>1, <2>1
      <3> QED
        BY <1>2, <2>1, <3>1 DEF RunsAlone
    <2>2. CASE other # s
      BY <1>2, <2>2 DEF RunsAlone, Active
    <2> QED
      BY <2>1, <2>2
  <1> QED
    BY <1>3, <1>4 DEF PagesAreApart

LEMMA ApartEnds ==
  ASSUME SyncInv, NEW s \in Syncs, syncs' = [syncs EXCEPT ![s] = Over],
         \A other \in Syncs : Active(other) => other = s,
         RowsAreApart, AllRows' \subseteq AllRows, \A row \in AllRows : Past(row, cursor')
  PROVE  PagesAreApart'
  <1>1. \A other \in Syncs : syncs'[other] = IF other = s THEN Over ELSE syncs[other]
    BY DEF SyncInv, HistoryTypeOK
  <1>2. \A other \in Syncs : ~Active(other)'
    BY <1>1 DEF Active, Over, New
  <1>3. \A other \in Syncs : RunsAlone(other, syncs[other])'
    BY <1>2 DEF Active, RunsAlone
  <1>4. RowsAreApart'
    BY DEF RowsAreApart
  <1> QED
    BY <1>3, <1>4 DEF PagesAreApart

(* A run that gives up before it has posted anything leaves no rows.       *)
LEMMA GiveUpIsApart ==
  ASSUME SyncInv, PagesAreApart, NEW s \in Syncs, Active(s), GiveUp(s), UNCHANGED cursor,
         AllRows' \subseteq AllRows
  PROVE  PagesAreApart'
  <1> SUFFICES ASSUME ~cut'
               PROVE  PagesAreApart'
    BY DEF PagesAreApart
  <1>1. /\ ~cut /\ ~ (syncs[s].posts > 0) /\ syncs' = [syncs EXCEPT ![s] = Over]
    BY DEF GiveUp, Continue
  <1>2. RowsAreApart /\ RunsAlone(s, syncs[s])
    BY <1>1 DEF PagesAreApart
  <1>3. \A row \in AllRows : Past(row, cursor)
    BY <1>1, <1>2 DEF RunsAlone, Behind, Active
  <1> QED
    BY <1>1, <1>2, <1>3, ApartEnds DEF RunsAlone, Active

LEMMA ApartInit == HistoryInit => PagesAreApart
  <1> SUFFICES ASSUME HistoryInit
               PROVE  PagesAreApart
    OBVIOUS
  <1>1. \A row : row \notin AllRows
    BY RowsAreSomewhere DEF HistoryInit
  <1> QED
    BY <1>1 DEF HistoryInit, PagesAreApart, RowsAreApart, RunsAlone, New

LEMMA PostIsApart ==
  ASSUME SyncInv, PagesAreWhole, PagesAreApart, NEW s \in Syncs, Post(s)
  PROVE  PagesAreApart'
  <1>1. /\ UNCHANGED <<visits, cursor, events, cut>>
        /\ syncs \in [Syncs -> SyncRuns] /\ visits \subseteq Visited
    BY DEF Post, browserVars, serviceVars, SyncInv, HistoryTypeOK
  <1> SUFFICES ASSUME ~cut
               PROVE  PagesAreApart'
    BY <1>1 DEF PagesAreApart
  <1>2. PICK old \in SyncRuns : old = syncs[s] /\ RunIsWhole(old) /\ RunsAlone(s, old)
    BY <1>1 DEF PagesAreApart, PagesAreWhole
  <1>3. PICK batch : /\ SendBatch(s, batch) /\ batch \subseteq old.left
                     /\ \/ old.at = "post"
                        \/ old.at = "retry" /\ batch = old.batch
    BY <1>2 DEF Post, Batches, RunIsWhole
  <1> DEFINE run == [old EXCEPT !.at = "await", !.batch = batch, !.tries = old.tries + 1,
                                !.posts = old.posts + 1]
             request == [id |-> <<s, run.posts>>, rows |-> Rows(batch),
                         unsaved |-> MonthsOf(Rows(batch))]
  <1>4. syncs' = [syncs EXCEPT ![s] = run] /\ handlers' = handlers \cup {request}
    BY <1>2, <1>3 DEF SendBatch, Continue
  <1>5. /\ run.at = "await" /\ run.left = old.left /\ run.batch = batch /\ run.posts = old.posts + 1
        /\ run.since = old.since /\ run.started = old.started
        /\ request.rows = Rows(batch)
        /\ old.since \in Nat /\ old.started \in Nat /\ old.posts \in Nat
    BY DEF SyncRuns
  <1>6. run \in SyncRuns
    <2>1. batch \in SUBSET Visited /\ old.tries + 1 \in Nat /\ old.posts + 1 \in Nat
      BY <1>3 DEF SyncRuns
    <2> HIDE DEF request
    <2> QED
      BY <2>1 DEF SyncRuns, SyncPlaces
  <1> HIDE DEF run, request
  <1>7. /\ old.since = cursor /\ old.since < old.started
        /\ \A other \in Syncs : Active(other) => other = s
        /\ \A row \in AllRows : Behind(row, old)
    BY <1>2, <1>3 DEF RunsAlone
  <1>8. \A row \in AllRows' : row \in AllRows \/ row \in Rows(batch)
    BY <1>1, <1>4, <1>5, RowsAreSomewhere
  <1>9. \A v \in batch : v \in old.left /\ v \in Visited /\ old.since < v.time /\ v.time <= old.started
    BY <1>1, <1>2, <1>3 DEF RunIsWhole
  <1>10. \A row \in AllRows' : Behind(row, run)
    <2> TAKE row \in AllRows'
    <2>1. CASE row \in AllRows
      BY <1>3, <1>5, <1>7, <2>1 DEF Behind
    <2>2. CASE row \in Rows(batch)
      <3>1. Past(row, run.started)
        BY <1>5, <1>9, <2>2, RowsArePartOf DEF Past
      <3> QED
        BY <1>5, <2>2, <3>1 DEF Behind
    <2> QED
      BY <1>8, <2>1, <2>2
  <1>11. RowsAreApart'
    <2>1. ASSUME NEW row \in AllRows, NEW other \in Rows(batch), row # other
          PROVE  row \cap other = {}
      <3>1. other \subseteq batch
        BY <2>1, RowsArePartOf
      <3>2. CASE Past(row, old.since)
        <4> SUFFICES ASSUME NEW v \in row, v \in other
                     PROVE  FALSE
          OBVIOUS
        <4>1. v.time <= old.since /\ old.since < v.time /\ v.time \in Nat
          BY <1>9, <3>1, <3>2 DEF Past, Visited
        <4> QED
          BY <1>5, <4>1
      <3>3. CASE row \cap old.left = {}
        BY <1>3, <3>1, <3>3
      <3>4. CASE row \in Rows(batch)
        <4>1. batch \subseteq Visited
          BY <1>9
        <4> QED
          BY <2>1, <3>4, <4>1, ClustersAreApart
      <3> QED
        BY <1>3, <1>7, <3>2, <3>3, <3>4 DEF Behind
    <2>2. ASSUME NEW row \in Rows(batch), NEW other \in Rows(batch), row # other
          PROVE  row \cap other = {}
      <3>1. batch \subseteq Visited
        BY <1>9
      <3> QED
        BY <2>2, <3>1, ClustersAreApart
    <2>3. RowsAreApart
      BY DEF PagesAreApart
    <2> QED
      BY <1>8, <2>1, <2>2, <2>3 DEF RowsAreApart
  <1> QED
    BY <1>1, <1>4, <1>5, <1>6, <1>7, <1>10, <1>11, ApartGoesOn

LEMMA ApartStep ==
  ASSUME SyncInv, PagesAreWhole, PagesAreApart, [HistoryNext]_historyVars
  PROVE  PagesAreApart'
  <1>1. syncs \in [Syncs -> SyncRuns] /\ tick \in Nat /\ cursor \in Nat /\ cursor < tick
    BY DEF SyncInv, HistoryTypeOK
  <1>2. ASSUME UNCHANGED <<events, handlers>>
        PROVE  AllRows' \subseteq AllRows
    BY <1>2, RowsAreSomewhere
  <1>3. ASSUME NEW s \in Syncs, StartSync(s)
        PROVE  PagesAreApart'
    <2> SUFFICES ASSUME ~cut'
                 PROVE  PagesAreApart'
      BY DEF PagesAreApart
    <2>0. PICK run : run = [New EXCEPT !.at = "collect", !.since = cursor, !.started = tick]
      OBVIOUS
    <2>1. /\ syncs' = [syncs EXCEPT ![s] = run] /\ UNCHANGED <<events, handlers, cursor>>
          /\ ~cut /\ \A other \in Syncs : ~Active(other)
      BY <1>3, <2>0 DEF StartSync, Continue, serviceVars
    <2>2. run \in SyncRuns /\ run.at = "collect" /\ run.since = cursor /\ run.started = tick
      BY <1>1, <2>0 DEF New, SyncRuns, SyncPlaces
    <2>3. RowsAreApart /\ \A row \in AllRows : Past(row, cursor)
      BY <2>1 DEF PagesAreApart
    <2>4. RowsAreApart' /\ \A row \in AllRows' : Behind(row, run)
      BY <1>2, <2>1, <2>2, <2>3 DEF RowsAreApart, Behind
    <2> QED
      BY <1>1, <2>1, <2>2, <2>4, ApartGoesOn
  <1>4. ASSUME NEW s \in Syncs, Collect(s)
        PROVE  PagesAreApart'
    <2> SUFFICES ASSUME ~cut
                 PROVE  PagesAreApart'
      BY <1>4 DEF PagesAreApart, Collect
    <2>1. PICK old \in SyncRuns : old = syncs[s] /\ RunsAlone(s, old) /\ Knows(old)
      BY <1>1 DEF PagesAreApart, SyncInv
    <2>2. PICK found : found = {v \in visits : old.since < v.time /\ v.time <= old.started}
      OBVIOUS
    <2> DEFINE run == [old EXCEPT !.at = "post", !.left = found]
    <2>3. /\ syncs' = [syncs EXCEPT ![s] = run] /\ UNCHANGED <<events, handlers, cursor>>
          /\ old.at = "collect"
      BY <1>4, <2>1, <2>2 DEF Collect, Continue, serviceVars
    <2>4. /\ run.at = "post" /\ run.since = old.since /\ run.started = old.started
      BY DEF SyncRuns
    <2>5. run \in SyncRuns
      <3>1. found \in SUBSET Visited
        BY <2>2 DEF SyncInv, HistoryTypeOK
      <3> QED
        BY <3>1 DEF SyncRuns, SyncPlaces
    <2> HIDE DEF run
    <2>6. /\ old.since = cursor /\ old.since < old.started
          /\ \A other \in Syncs : Active(other) => other = s
          /\ \A row \in AllRows : Past(row, old.since)
      BY <2>1, <2>3 DEF RunsAlone, Behind
    <2>7. RowsAreApart' /\ \A row \in AllRows' : Behind(row, run)
      BY <1>2, <2>3, <2>4, <2>6 DEF PagesAreApart, RowsAreApart, Behind
    <2> QED
      BY <2>3, <2>4, <2>5, <2>6, <2>7, ApartGoesOn
  <1>5. ASSUME NEW s \in Syncs, FetchFails(s)
        PROVE  PagesAreApart'
    <2>1. /\ UNCHANGED <<events, handlers, cursor>> /\ Active(s) /\ syncs[s].at = "await"
      BY <1>5 DEF FetchFails, serviceVars, Active
    <2>2. CASE GiveUp(s)
      BY <1>2, <2>1, <2>2, GiveUpIsApart
    <2>3. CASE syncs' = [syncs EXCEPT ![s] = [syncs[s] EXCEPT !.at = "retry"]] /\ UNCHANGED cut
      <3> SUFFICES ASSUME ~cut
                   PROVE  PagesAreApart'
        BY <2>3 DEF PagesAreApart
      <3>1. PICK old \in SyncRuns : old = syncs[s] /\ RunsAlone(s, old) /\ old.at = "await"
        BY <1>1, <2>1 DEF PagesAreApart
      <3> DEFINE run == [old EXCEPT !.at = "retry"]
      <3>2. /\ run.at = "retry" /\ run.left = old.left /\ run.batch = old.batch
            /\ run.since = old.since /\ run.started = old.started /\ run.posts = old.posts
            /\ run \in SyncRuns
        BY DEF SyncRuns, SyncPlaces
      <3>3. syncs' = [syncs EXCEPT ![s] = run]
        BY <2>3, <3>1
      <3> HIDE DEF run
      <3>4. /\ old.since = cursor /\ old.since < old.started
            /\ \A other \in Syncs : Active(other) => other = s
            /\ \A row \in AllRows : Behind(row, old)
        BY <3>1 DEF RunsAlone
      <3>5. \A row \in AllRows' : Behind(row, run)
        BY <1>2, <2>1, <3>1, <3>2, <3>4 DEF Behind
      <3>6. RowsAreApart'
        BY <1>2, <2>1 DEF PagesAreApart, RowsAreApart
      <3> QED
        BY <2>1, <3>2, <3>3, <3>4, <3>5, <3>6, ApartGoesOn
    <2> QED
      BY <1>5, <2>2, <2>3 DEF FetchFails, Continue
  <1>6. ASSUME NEW s \in Syncs, SetSuccessfulSync(s)
        PROVE  PagesAreApart'
    <2> SUFFICES ASSUME ~cut
                 PROVE  PagesAreApart'
      BY <1>6 DEF PagesAreApart, SetSuccessfulSync
    <2>1. PICK old \in SyncRuns : old = syncs[s] /\ RunsAlone(s, old) /\ RunIsWhole(old)
      BY <1>1 DEF PagesAreApart, PagesAreWhole
    <2>2. /\ syncs' = [syncs EXCEPT ![s] = Over] /\ UNCHANGED <<events, handlers>>
          /\ cursor' = old.started /\ old.at = "save"
      BY <1>6, <2>1 DEF SetSuccessfulSync, Continue, serviceVars
    <2>3. /\ old.since < old.started /\ old.since \in Nat /\ old.started \in Nat
          /\ \A other \in Syncs : Active(other) => other = s
          /\ \A row \in AllRows : Past(row, old.since) \/ Past(row, old.started)
      BY <2>1, <2>2 DEF RunsAlone, Behind, SyncRuns
    <2>4. \A row \in AllRows : Past(row, old.started)
      <3> TAKE row \in AllRows
      <3>1. \A v \in row : v.time \in Nat
        BY DEF PagesAreWhole, Whole, SyncInv, HistoryTypeOK, Visited
      <3>2. Past(row, old.since) => Past(row, old.started)
        BY <2>3, <3>1 DEF Past
      <3> QED
        BY <2>3, <3>2
    <2> QED
      BY <1>2, <2>2, <2>3, <2>4, ApartEnds DEF PagesAreApart
  <1>7. ASSUME NEW s \in Syncs, SyncDies(s)
        PROVE  PagesAreApart'
    BY <1>2, <1>7, GiveUpIsApart DEF SyncDies, serviceVars
  <1>8. ASSUME NEW h \in handlers, SaveMonth(h) \/ EnqueueCompaction(h) \/ IngestFails(h)
        PROVE  PagesAreApart'
    <2>1. AllRows' \subseteq AllRows /\ UNCHANGED cursor
      BY <1>8, RowsStay DEF SaveMonth, EnqueueCompaction, IngestFails, extensionVars
    <2>2. CASE UNCHANGED <<syncs, cut>>
      BY <2>1, <2>2, ApartRests
    <2>3. ASSUME NEW s \in Syncs, Awaits(s, h), GiveUp(s)
          PROVE  PagesAreApart'
      BY <2>1, <2>3, GiveUpIsApart DEF Awaits, Active
    <2>4. ASSUME NEW s \in Syncs, Awaits(s, h), Accepted(s), UNCHANGED cut
          PROVE  PagesAreApart'
      <3> SUFFICES ASSUME ~cut
                   PROVE  PagesAreApart'
        BY <2>4 DEF PagesAreApart
      <3>1. PICK old \in SyncRuns : old = syncs[s] /\ RunsAlone(s, old) /\ old.at = "await"
        BY <1>1, <2>4 DEF PagesAreApart, Awaits
      <3> DEFINE left == old.left \ old.batch
                 run == [old EXCEPT !.at = IF left = {} THEN "save" ELSE "post",
                                    !.left = left, !.batch = {}, !.tries = 0]
      <3>2. syncs' = [syncs EXCEPT ![s] = run]
        BY <2>4, <3>1 DEF Accepted, Continue
      <3>3. /\ run.at \in {"save", "post"} /\ run.left = left /\ run.posts = old.posts
            /\ run.since = old.since /\ run.started = old.started
        BY DEF SyncRuns
      <3>7. run \in SyncRuns
        BY DEF SyncRuns, SyncPlaces
      <3> HIDE DEF run
      <3>4. /\ old.since = cursor /\ old.since < old.started
            /\ \A other \in Syncs : Active(other) => other = s
            /\ \A row \in AllRows : Behind(row, old)
        BY <3>1 DEF RunsAlone
      <3>5. \A row \in AllRows' : Behind(row, run)
        <4> TAKE row \in AllRows'
        <4>1. Behind(row, old)
          BY <2>1, <3>4
        <4>2. row \in Rows(old.batch) => row \cap left = {}
          BY RowsArePartOf
        <4>3. row \cap old.left = {} => row \cap left = {}
          OBVIOUS
        <4> QED
          BY <3>1, <3>3, <4>1, <4>2, <4>3 DEF Behind
      <3>6. RowsAreApart'
        BY <2>1 DEF PagesAreApart, RowsAreApart
      <3> QED
        BY <2>1, <3>2, <3>3, <3>4, <3>5, <3>6, <3>7, ApartGoesOn
    <2> QED
      BY <1>8, <2>2, <2>3, <2>4 DEF SaveMonth, EnqueueCompaction, IngestFails, Respond, extensionVars
  <1>9. ASSUME NEW m \in Months, ReadMonth(m) \/ WriteMonth(m) \/ MonthFails(m)
        PROVE  PagesAreApart'
    BY <1>2, <1>9, ApartRests DEF ReadMonth, WriteMonth, MonthFails, extensionVars
  <1>10. CASE TimePasses \/ QueueMaintenance \/ StartCompaction \/ CompactionDies \/ RestartService
              \/ UNCHANGED historyVars
    <2>1. UNCHANGED <<events, syncs, cursor, cut>> /\ handlers' \subseteq handlers
      BY <1>10 DEF TimePasses, QueueMaintenance, StartCompaction, CompactionDies, RestartService,
                   historyVars, extensionVars, serviceVars
    <2>2. AllRows' \subseteq AllRows
      BY <2>1, RowsAreSomewhere
    <2> QED
      BY <2>1, <2>2, ApartRests
  <1> QED
    BY <1>3, <1>4, <1>5, <1>6, <1>7, <1>8, <1>9, <1>10, PostIsApart DEF HistoryNext

-------------------------------------------------------------------------------
(* What all of it comes to.                                                *)
HistoryInv == SyncInv /\ PagesAreWhole /\ CompactionTypeOK /\ FilesAreRead /\ PagesAreApart

THEOREM HistoryHolds == HistorySpec => []HistoryInv
  <1>1. HistoryInit => HistoryInv
    BY InvInit, WholeInit, FilesInit, ApartInit DEF HistoryInv
  <1>2. HistoryInv /\ [HistoryNext]_historyVars => HistoryInv'
    <2> SUFFICES ASSUME HistoryInv, [HistoryNext]_historyVars
                 PROVE  HistoryInv'
      OBVIOUS
    <2>1. StillTold /\ compactions \in Seq(SUBSET Months)
      BY ToldStays DEF HistoryInv, CompactionTypeOK
    <2>2. SyncInv'
      BY <2>1, InvNext DEF HistoryInv
    <2> QED
      BY <2>2, WholeStep, FilesStep, ApartStep DEF HistoryInv
  <1> QED
    BY <1>1, <1>2, PTL DEF HistorySpec

(* The cursor passes no visit that has not been saved, however requests    *)
(* are lost, repeated or cut short and however runs overlap.               *)
THEOREM CursorIsSafe == HistorySpec => []CursorIsCovered
  <1>1. HistoryInv => CursorIsCovered
    BY DEF HistoryInv, SyncInv, CoveredTo, Told, CursorIsCovered, SavedIn
  <1> QED
    BY <1>1, HistoryHolds, PTL

(* Of a visit up to the cursor a row is saved; when no compaction waits,   *)
(* runs or has failed, the compacted files tell of it; and while no run    *)
(* was cut short and none met another, no two of their rows share a visit. *)
THEOREM VisitsAreKept == HistorySpec => []VisitsArrive
  <1>1. HistoryInv => VisitsArrive
    <2> SUFFICES ASSUME HistoryInv
                 PROVE  VisitsArrive
      OBVIOUS
    <2>1. CursorIsCovered
      BY DEF HistoryInv, SyncInv, CoveredTo, Told, CursorIsCovered, SavedIn
    <2>2. CompactedIsComplete
      <3> SUFFICES ASSUME compactions = <<>>, compactor = NoCompaction, stale = {},
                          NEW v \in visits, v.time <= cursor
                   PROVE  SavedIn(compacted, v)
        BY DEF CompactedIsComplete
      <3>1. PICK m \in Months : \E row \in events[m] : v \in row /\ Kept(m, row)
        BY DEF HistoryInv, SyncInv, CoveredTo, Told
      <3>2. PICK row \in events[m] : v \in row /\ Kept(m, row)
        BY <3>1
      <3>3. row \in compacted[m]
        BY <3>2 DEF Kept, Writing, NoCompaction
      <3> QED
        BY <3>2, <3>3 DEF SavedIn
    <2>3. VisitsCountOnce
      <3>1. \A m \in Months : compacted[m] \subseteq AllRows
        BY RowsAreSomewhere DEF HistoryInv, FilesAreRead
      <3> QED
        BY <3>1 DEF HistoryInv, PagesAreApart, RowsAreApart, VisitsCountOnce
    <2> QED
      BY <2>1, <2>2, <2>3 DEF VisitsArrive
  <1> QED
    BY <1>1, HistoryHolds, PTL

-------------------------------------------------------------------------------
(* The ingest runs of the other sources.                                   *)

Spots == Repos \cup {"spotify", "github", "google"}
Items == [place : Spots, kind : {"pr", "commit", "item"}, time : Nat \ {0}, name : {1, 2}]
Runs == [at : {"idle", "read", "prs", "commits", "save", "state"}, since : Nat,
         left : SUBSET Spots, repo : Spots \cup {"none"}, prs : SUBSET Items,
         hand : SUBSET Items, latest : Nat, read : SUBSET (Spots \X {"pr", "commit"}),
         passed : SUBSET Items, failed : BOOLEAN]

IngestTypeOK ==
  /\ source \in {"spotify", "github", "google"}
  /\ now \in Nat \ {0} /\ reached \in Nat
  /\ made \subseteq Items /\ \A e \in made : e.time <= now
  /\ \A e \in made : e.place \in Places /\ e.kind \in Kinds
  /\ ingest \in Runs

(* The cursor, and what it will be, lie in the past; where the limit of a  *)
(* reading counts, they are the times of items.                            *)
Marks ==
  /\ reached <= now /\ ingest.latest <= now
  /\ source # "github" => reached = 0 \/ \E e \in made : e.time = reached
  /\ source # "github" /\ ingest.at \in {"save", "state"} =>
       \E e \in made : e.time = ingest.latest
  /\ source = "spotify" /\ ingest.at # "idle" => ingest.since = reached

(* What a run has in hand at which stage, and which lists it has read.     *)
SourceStages ==
  /\ ingest.at # "prs" => ingest.prs = {}
  /\ ingest.at \in {"idle", "state"} => ingest.hand = {}
  /\ ingest.at = "read" /\ source # "github" => ingest.hand = {}
  /\ ingest.prs \cup ingest.hand \subseteq Asked(ingest.since)
  /\ ingest.at \in {"prs", "commits"} => source = "github" /\ ingest.repo \in Repos
  /\ source = "github" /\ ingest.at \in {"save", "state"} => ingest.left = {}
  /\ source = "github" /\ ingest.at # "idle" /\ ~ingest.failed =>
       \A repo \in Repos \ ingest.left :
         /\ <<repo, "pr">> \in ingest.read
         /\ \/ <<repo, "commit">> \in ingest.read
            \/ repo = ingest.repo /\ ingest.at \in {"prs", "commits"}

Known(e) == e \in saved \cup missed \cup ingest.hand \cup ingest.prs \cup ingest.passed

(* Nothing is lost before the instant a run asks for, ...                  *)
BelowIsKnown ==
  ingest.at # "idle" => \A e \in Offered : ~IsAsked(e, ingest.since) => Known(e)
(* ... in the lists it has read, ...                                       *)
ReadIsKnown ==
  ingest.at # "idle" /\ ~ingest.failed =>
    \A e \in Offered : <<e.place, e.kind>> \in ingest.read => Known(e)
(* ... and up to the newest item of a reading that has a limit.            *)
FetchedIsKnown ==
  source # "github" /\ ingest.at \in {"save", "state"} /\ ~ingest.failed =>
    \A e \in Offered : ~IsAsked(e, ingest.latest) => Known(e)

SInv ==
  /\ IngestTypeOK /\ Marks /\ SourceStages
  /\ BelowIsKnown /\ ReadIsKnown /\ FetchedIsKnown
  /\ PassedItemsAreSaved /\ GitHubSavesOnce

LEMMA LatestIsGreatest ==
  ASSUME NEW items, items \subseteq Items, items # {}, NEW bound \in Nat,
         \A e \in items : e.time <= bound
  PROVE  \E e \in items : e.time = LatestOf(items)
  <1> DEFINE Times == {e.time : e \in items}
  <1>1. Times \subseteq Nat /\ Times # {} /\ \A t \in Times : t <= bound
    BY DEF Items
  <1>2. PICK greatest \in Times : \A t \in Times : t <= greatest
    <2> HIDE DEF Times
    <2> QED
      BY <1>1, GreatestOfNaturals
  <1>3. \E t \in Times : \A e \in items : e.time <= t
    BY <1>2
  <1>4. LatestOf(items) = CHOOSE t \in Times : \A e \in items : e.time <= t
    BY DEF LatestOf
  <1>5. LatestOf(items) \in Times
    BY <1>3, <1>4
  <1> QED
    BY <1>5

LEMMA LatestIsPast ==
  ASSUME NEW items, items \subseteq Items, NEW bound \in Nat,
         \A e \in items : e.time <= bound
  PROVE  LatestOf(items) \in Nat /\ LatestOf(items) <= bound
  <1>1. CASE items = {}
    BY <1>1 DEF LatestOf
  <1>2. CASE items # {}
    <2>1. PICK e \in items : e.time = LatestOf(items)
      BY <1>2, LatestIsGreatest
    <2> QED
      BY <2>1 DEF Items
  <1> QED
    BY <1>1, <1>2

LEMMA LaterIsOne == \A a, b \in Nat : Later(a, b) \in {a, b}
  BY DEF Later

LEMMA NothingRunsIsFine ==
  NoIngest \in Runs
  BY DEF NoIngest, Runs

LEMMA SInit == IngestInit => SInv
  <1> SUFFICES ASSUME IngestInit
               PROVE  SInv
    OBVIOUS
  <1>1. IngestTypeOK
    BY NothingRunsIsFine DEF IngestInit, IngestTypeOK
  <1>2. Marks /\ SourceStages /\ BelowIsKnown /\ ReadIsKnown /\ FetchedIsKnown
    BY DEF IngestInit, NoIngest, Marks, SourceStages, BelowIsKnown, ReadIsKnown, FetchedIsKnown
  <1>3. PassedItemsAreSaved /\ GitHubSavesOnce
    BY DEF IngestInit, PassedItemsAreSaved, GitHubSavesOnce
  <1> QED
    BY <1>1, <1>2, <1>3 DEF SInv

(* A run that ends without moving the cursor.                              *)
LEMMA EndsKeep ==
  ASSUME SInv, ingest' = NoIngest,
         UNCHANGED <<source, now, made, reached, saved, again, missed>>
  PROVE  SInv'
  <1>1. IngestTypeOK'
    BY NothingRunsIsFine DEF SInv, IngestTypeOK, Places, Kinds
  <1>2. (Marks /\ SourceStages /\ BelowIsKnown /\ ReadIsKnown /\ FetchedIsKnown)'
    BY DEF SInv, IngestTypeOK, NoIngest, Marks, SourceStages, BelowIsKnown, ReadIsKnown, FetchedIsKnown
  <1>3. (PassedItemsAreSaved /\ GitHubSavesOnce)'
    BY DEF SInv, PassedItemsAreSaved, GitHubSavesOnce, Offered, IsAsked
  <1> QED
    BY <1>1, <1>2, <1>3 DEF SInv

LEMMA TimeGoesOnKeeps == SInv /\ TimeGoesOn => SInv'
  <1> SUFFICES ASSUME SInv, TimeGoesOn
               PROVE  SInv'
    OBVIOUS
  <1> USE DEF SInv, TimeGoesOn
  <1>1. IngestTypeOK' /\ Marks'
    BY DEF IngestTypeOK, Places, Kinds, Marks, Items, Runs
  <1>2. (SourceStages /\ BelowIsKnown /\ ReadIsKnown /\ FetchedIsKnown)'
    BY DEF SourceStages, BelowIsKnown, ReadIsKnown, FetchedIsKnown, Known, Offered, Asked, IsAsked
  <1>3. (PassedItemsAreSaved /\ GitHubSavesOnce)'
    BY DEF PassedItemsAreSaved, GitHubSavesOnce, Offered, IsAsked
  <1> QED
    BY <1>1, <1>2, <1>3

LEMMA HappensKeeps == SInv /\ Happens => SInv'
  <1> SUFFICES ASSUME SInv, Happens
               PROVE  SInv'
    OBVIOUS
  <1>0. PICK e \in [place : Places, kind : Kinds, time : 1 .. now, name : {1, 2}] \ made :
          /\ e.kind = "commit" \/ e.time = now
          /\ e.kind # "item" => e.name = 1
          /\ source = "spotify" => \A f \in made : f.time < e.time
          /\ made' = made \cup {e}
          /\ ingest' = IF <<e.place, e.kind>> \in ingest.read \/ e.time < ingest.since
                       THEN [ingest EXCEPT !.passed = @ \cup {e}] ELSE ingest
          /\ missed' = IF e.kind = "commit" /\ e.time < reached THEN missed \cup {e} ELSE missed
    BY DEF Happens
  <1>1. /\ UNCHANGED <<source, now, reached, saved, again>>
        /\ e \in Items /\ e.time <= now /\ e.place \in Places /\ e.kind \in Kinds
        /\ now \in Nat /\ reached \in Nat /\ ingest \in Runs
    BY <1>0 DEF Happens, SInv, IngestTypeOK, Items, Places, Kinds, Spots
  <1>2. IngestTypeOK'
    BY <1>0, <1>1 DEF SInv, IngestTypeOK, Runs, Places, Kinds
  <1>3. /\ Offered' \subseteq Offered \cup {e}
        /\ missed \subseteq missed' /\ missed' \subseteq missed \cup {e}
        /\ ingest.passed \subseteq ingest'.passed
        /\ ingest'.at = ingest.at /\ ingest'.since = ingest.since /\ ingest'.left = ingest.left
        /\ ingest'.repo = ingest.repo /\ ingest'.prs = ingest.prs /\ ingest'.hand = ingest.hand
        /\ ingest'.latest = ingest.latest /\ ingest'.read = ingest.read
        /\ ingest'.failed = ingest.failed
    BY <1>0, <1>1 DEF Offered, Runs
  <1>4. Marks'
    BY <1>0, <1>1, <1>3 DEF SInv, Marks
  <1>5. SourceStages'
    <2>1. Asked(ingest.since) \subseteq Asked(ingest.since)'
      BY <1>0, <1>1, <1>3 DEF Asked, IsAsked
    <2> QED
      BY <2>1, <1>1, <1>3 DEF SInv, SourceStages
  <1>6. \A f : Known(f) => Known(f)'
    BY <1>1, <1>3 DEF Known
  <1>7. \A f, t : IsAsked(f, t)' = IsAsked(f, t)
    BY <1>1 DEF IsAsked
  <1>8. e.kind # "commit" /\ reached > 0 => IsAsked(e, reached)
    BY <1>0, <1>1 DEF SInv, Marks, IngestTypeOK, IsAsked, Items, Kinds
  <1>9. BelowIsKnown'
    <2>1. ~IsAsked(e, ingest.since) /\ ingest.at # "idle" => e.time < ingest.since
      <3>1. CASE source = "spotify"
        <4>1. ingest.at # "idle" => ingest.since = 0 \/ \E f \in made : f.time = ingest.since
          BY <3>1 DEF SInv, Marks
        <4> QED
          BY <4>1, <3>1, <1>0, <1>1 DEF IsAsked, Items
      <3>2. CASE source # "spotify"
        BY <3>2, <1>1 DEF IsAsked, Items, Runs
      <3> QED
        BY <3>1, <3>2
    <2>2. ~IsAsked(e, ingest.since) /\ ingest.at # "idle" => Known(e)'
      BY <2>1, <1>0, <1>1 DEF Known, Runs
    <2> QED
      BY <2>2, <1>3, <1>6, <1>7 DEF SInv, BelowIsKnown
  <1>10. ReadIsKnown'
    <2>1. <<e.place, e.kind>> \in ingest.read => Known(e)'
      BY <1>0, <1>1 DEF Known, Runs
    <2> QED
      BY <2>1, <1>3, <1>6 DEF SInv, ReadIsKnown
  <1>11. FetchedIsKnown'
    <2>1. source # "github" /\ ingest.at \in {"save", "state"} => IsAsked(e, ingest.latest)
      BY <1>0, <1>1 DEF SInv, Marks, IngestTypeOK, IsAsked, Items, Kinds, Runs
    <2> QED
      BY <2>1, <1>1, <1>3, <1>6, <1>7 DEF SInv, FetchedIsKnown
  <1>12. PassedItemsAreSaved'
    <2>1. e.kind = "commit" => source = "github"
      BY <1>1 DEF Kinds
    <2>2. reached > 0 /\ ~IsAsked(e, reached) => e \in missed'
      BY <2>1, <1>0, <1>1, <1>8 DEF IsAsked, Items
    <2> QED
      BY <2>2, <1>1, <1>3, <1>7 DEF SInv, PassedItemsAreSaved
  <1>13. GitHubSavesOnce'
    BY <1>1 DEF SInv, GitHubSavesOnce
  <1> QED
    BY <1>2, <1>4, <1>5, <1>9, <1>10, <1>11, <1>12, <1>13 DEF SInv

LEMMA StartIngestKeeps == SInv /\ StartIngest => SInv'
  <1> SUFFICES ASSUME SInv, StartIngest
               PROVE  SInv'
    OBVIOUS
  <1>0. PICK from \in {reached, 0} :
          /\ from = reached \/ source = "google"
          /\ ingest' = [NoIngest EXCEPT !.at = "read", !.since = Since(from), !.left = Places,
                                        !.passed = Asked(from) \ Asked(Since(from))]
    BY DEF StartIngest
  <1>1. UNCHANGED <<source, now, made, reached, saved, again, missed>>
    BY DEF StartIngest
  <1>2. /\ Since(from) \in Nat /\ Places \subseteq Spots
        /\ source = "spotify" => Since(from) = reached
    BY <1>0, IngestConstants DEF SInv, IngestTypeOK, Since, Later, Before, Places, Spots
  <1>3. /\ ingest' \in Runs /\ ingest'.at = "read" /\ ingest'.since = Since(from)
        /\ ingest'.left = Places /\ ingest'.read = {} /\ ingest'.hand = {} /\ ingest'.prs = {}
        /\ ingest'.latest = 0 /\ ingest'.passed = Asked(from) \ Asked(Since(from))
    BY <1>0, <1>2 DEF SInv, IngestTypeOK, NoIngest, Runs, Asked
  <1>4. IngestTypeOK'
    BY <1>1, <1>3 DEF SInv, IngestTypeOK, Places, Kinds
  <1>5. (Marks /\ SourceStages)'
    BY <1>1, <1>2, <1>3 DEF SInv, IngestTypeOK, Marks, SourceStages, Places
  <1>6. BelowIsKnown'
    <2> SUFFICES ASSUME NEW e \in Offered, ~IsAsked(e, Since(from))
                 PROVE  Known(e)'
      BY <1>1, <1>3 DEF BelowIsKnown, Offered, IsAsked
    <2>1. e \in made /\ e.time \in Nat \ {0}
      BY DEF SInv, IngestTypeOK, Items, Offered
    <2>2. CASE IsAsked(e, from)
      BY <2>1, <2>2, <1>3 DEF Asked, Known
    <2>3. CASE ~IsAsked(e, from)
      <3>1. from > 0 /\ from = reached
        BY <2>1, <2>3, <1>0 DEF IsAsked, SInv, IngestTypeOK
      <3> QED
        BY <3>1, <2>3, <1>1 DEF SInv, PassedItemsAreSaved, Known
    <2> QED
      BY <2>2, <2>3
  <1>7. (ReadIsKnown /\ FetchedIsKnown)'
    BY <1>3 DEF ReadIsKnown, FetchedIsKnown
  <1>8. (PassedItemsAreSaved /\ GitHubSavesOnce)'
    BY <1>1 DEF SInv, PassedItemsAreSaved, GitHubSavesOnce, Offered, IsAsked
  <1> QED
    BY <1>4, <1>5, <1>6, <1>7, <1>8 DEF SInv

LEMMA ReadItemsKeeps == SInv /\ ReadItems => SInv'
  <1> SUFFICES ASSUME SInv, ReadItems
               PROVE  SInv'
    OBVIOUS
  <1>0. PICK told \in SUBSET Asked(ingest.since) :
          ingest' = IF told = {} THEN NoIngest
                    ELSE [ingest EXCEPT !.at = "save", !.hand = told, !.latest = LatestOf(told),
                                        !.passed = @ \cup (Asked(ingest.since) \ told)]
    BY DEF ReadItems
  <1>1. /\ UNCHANGED <<source, now, made, reached, saved, again, missed>>
        /\ ingest.at = "read" /\ source # "github"
    BY DEF ReadItems
  <1>2. CASE told = {}
    BY <1>0, <1>1, <1>2, EndsKeep
  <1>3. CASE told # {}
    <2>1. /\ told \subseteq Items /\ told \subseteq made /\ ingest \in Runs /\ now \in Nat
          /\ Asked(ingest.since) \subseteq Items /\ \A e \in told : e.time <= now
      BY DEF SInv, IngestTypeOK, Asked
    <2>2. PICK last \in told : last.time = LatestOf(told)
      BY <1>3, <2>1, LatestIsGreatest
    <2>3. LatestOf(told) \in Nat /\ LatestOf(told) <= now
      BY <2>1, <2>2 DEF Items
    <2>4. /\ ingest' \in Runs /\ ingest'.at = "save" /\ ingest'.since = ingest.since
          /\ ingest'.read = ingest.read /\ ingest'.hand = told /\ ingest'.prs = ingest.prs
          /\ ingest'.latest = LatestOf(told)
          /\ ingest'.passed = ingest.passed \cup (Asked(ingest.since) \ told)
      BY <1>0, <1>3, <2>1, <2>3 DEF Runs
    <2>5. IngestTypeOK'
      BY <1>1, <2>4 DEF SInv, IngestTypeOK, Places, Kinds
    <2>6. Marks'
      BY <1>1, <2>1, <2>2, <2>3, <2>4 DEF SInv, Marks
    <2>7. SourceStages'
      BY <1>1, <2>4 DEF SInv, SourceStages, Asked, IsAsked
    <2>8. \A e \in Offered : Known(e)'
      <3> SUFFICES ASSUME NEW e \in Offered
                   PROVE  Known(e)'
        OBVIOUS
      <3>1. CASE IsAsked(e, ingest.since)
        BY <3>1, <2>4 DEF Known, Asked, Offered
      <3>2. CASE ~IsAsked(e, ingest.since)
        <4>1. Known(e)
          BY <3>2, <1>1 DEF SInv, BelowIsKnown
        <4> QED
          BY <4>1, <1>1, <2>4 DEF Known, SInv, SourceStages
      <3> QED
        BY <3>1, <3>2
    <2>9. (BelowIsKnown /\ ReadIsKnown /\ FetchedIsKnown)'
      BY <2>8, <1>1 DEF BelowIsKnown, ReadIsKnown, FetchedIsKnown, Offered
    <2>10. (PassedItemsAreSaved /\ GitHubSavesOnce)'
      BY <1>1 DEF SInv, PassedItemsAreSaved, GitHubSavesOnce, Offered, IsAsked
    <2> QED
      BY <2>5, <2>6, <2>7, <2>9, <2>10 DEF SInv
  <1> QED
    BY <1>2, <1>3

(* A step of a run that reads or saves, seen as what it does to what is    *)
(* known: nothing is let go of unless the run has failed.                  *)
LEMMA RunGoesOnKnowing ==
  ASSUME SInv, UNCHANGED <<source, now, made, reached, missed>>,
         ingest' \in Runs, ingest'.latest <= now, ingest.at # "idle", ingest'.at # "idle",
         ingest'.since = ingest.since, ingest.failed => ingest'.failed,
         saved \subseteq saved', source = "github" => again' = {},
         \A e \in Offered : ~IsAsked(e, ingest.since) /\ Known(e) => Known(e)',
         ~ingest'.failed => \A e \in Offered : Known(e) => Known(e)',
         ~ingest'.failed => \A e \in Offered :
            <<e.place, e.kind>> \in ingest'.read \ ingest.read => Known(e)',
         source # "github" => ingest'.latest = ingest.latest /\ ingest.at \in {"save", "state"},
         SourceStages'
  PROVE  SInv'
  <1>1. \A e, t : IsAsked(e, t)' = IsAsked(e, t)
    BY DEF IsAsked
  <1>2. Offered' = Offered
    BY DEF Offered
  <1>3. IngestTypeOK'
    BY DEF SInv, IngestTypeOK, Places, Kinds
  <1>4. Marks'
    BY DEF SInv, Marks, IngestTypeOK
  <1>5. BelowIsKnown'
    BY <1>1, <1>2 DEF SInv, BelowIsKnown
  <1>6. ReadIsKnown'
    BY <1>1, <1>2 DEF SInv, ReadIsKnown
  <1>7. FetchedIsKnown'
    BY <1>1, <1>2 DEF SInv, FetchedIsKnown
  <1>8. PassedItemsAreSaved'
    BY <1>1, <1>2 DEF SInv, PassedItemsAreSaved
  <1>9. GitHubSavesOnce'
    BY DEF GitHubSavesOnce
  <1> QED
    BY <1>3, <1>4, <1>5, <1>6, <1>7, <1>8, <1>9 DEF SInv

(* What a run that is not over has, for the steps it takes.                *)
LEMMA RunsOn ==
  ASSUME SInv, NEW kind, NEW repo
  PROVE  /\ ingest \in Runs /\ now \in Nat /\ Asked(ingest.since) \subseteq Items
         /\ ListOf(kind, repo) \subseteq Items /\ ListOf(kind, repo) \subseteq Asked(ingest.since)
         /\ LatestOf(ListOf(kind, repo)) \in Nat /\ LatestOf(ListOf(kind, repo)) <= now
         /\ Later(ingest.latest, LatestOf(ListOf(kind, repo))) \in Nat
         /\ Later(ingest.latest, LatestOf(ListOf(kind, repo))) <= now
  <1>1. /\ ingest \in Runs /\ now \in Nat /\ Asked(ingest.since) \subseteq Items
        /\ ListOf(kind, repo) \subseteq Asked(ingest.since)
        /\ \A e \in Asked(ingest.since) : e.time <= now
        /\ ingest.latest \in Nat /\ ingest.latest <= now
    BY DEF SInv, IngestTypeOK, Marks, Runs, Asked, ListOf
  <1>2. LatestOf(ListOf(kind, repo)) \in Nat /\ LatestOf(ListOf(kind, repo)) <= now
    BY <1>1, LatestIsPast
  <1>3. Later(ingest.latest, LatestOf(ListOf(kind, repo)))
          \in {ingest.latest, LatestOf(ListOf(kind, repo))}
    BY <1>1, <1>2, LaterIsOne
  <1> QED
    BY <1>1, <1>2, <1>3

LEMMA ReadPullRequestsKeeps ==
  ASSUME NEW repo \in Repos, SInv, ReadPullRequests(repo)
  PROVE  SInv'
  <1> DEFINE prs == ListOf("pr", repo)
  <1>1. /\ UNCHANGED <<source, now, made, reached, saved, again, missed>>
        /\ ingest.at = "read" /\ source = "github" /\ repo \in Spots
    BY DEF ReadPullRequests, Spots
  <1>2. /\ ingest \in Runs /\ prs \subseteq Items /\ prs \subseteq Asked(ingest.since)
        /\ Later(ingest.latest, LatestOf(prs)) \in Nat
        /\ Later(ingest.latest, LatestOf(prs)) <= now
    BY RunsOn
  <1>3. /\ ingest' \in Runs /\ ingest'.at = "prs" /\ ingest'.since = ingest.since
        /\ ingest'.left = ingest.left \ {repo} /\ ingest'.repo = repo /\ ingest'.prs = prs
        /\ ingest'.hand = ingest.hand /\ ingest'.latest <= now
        /\ ingest'.read = ingest.read \cup {<<repo, "pr">>}
        /\ ingest'.passed = ingest.passed /\ ingest'.failed = ingest.failed
    <2> DEFINE latest == Later(ingest.latest, LatestOf(prs))
    <2> HIDE DEF prs, latest
    <2>1. /\ ingest' = [ingest EXCEPT !.at = "prs", !.left = @ \ {repo}, !.repo = repo,
                                      !.prs = prs, !.latest = latest,
                                      !.read = @ \cup {<<repo, "pr">>}]
          /\ latest \in Nat /\ latest <= now
      BY <1>2 DEF ReadPullRequests, prs, latest
    <2>2. ingest.read \cup {<<repo, "pr">>} \in SUBSET (Spots \X {"pr", "commit"})
      BY <1>1, <1>2 DEF Runs
    <2> QED
      BY <2>1, <2>2, <1>1, <1>2 DEF Runs
  <1>4. SourceStages'
    <2>1. Asked(ingest.since)' = Asked(ingest.since)
      BY <1>1, <1>3 DEF Asked, IsAsked
    <2> QED
      BY <2>1, <1>1, <1>2, <1>3 DEF SInv, SourceStages
  <1>5. \A e : Known(e) => Known(e)'
    BY <1>1, <1>3 DEF SInv, SourceStages, Known
  <1>6. ASSUME NEW e \in Offered, <<e.place, e.kind>> \in ingest'.read \ ingest.read
        PROVE  Known(e)'
    <2>1. e.place = repo /\ e.kind = "pr"
      BY <1>3, <1>6
    <2>2. CASE IsAsked(e, ingest.since)
      BY <2>1, <2>2, <1>3 DEF ListOf, Asked, Offered, Known
    <2>3. CASE ~IsAsked(e, ingest.since)
      BY <2>3, <1>1, <1>5 DEF SInv, BelowIsKnown
    <2> QED
      BY <2>2, <2>3
  <1>7. source = "github" => again' = {}
    BY <1>1 DEF SInv, GitHubSavesOnce
  <1> QED
    BY <1>1, <1>3, <1>4, <1>5, <1>6, <1>7, RunGoesOnKnowing

LEMMA ReadCommitsKeeps == SInv /\ ReadCommits => SInv'
  <1> SUFFICES ASSUME SInv, ReadCommits
               PROVE  SInv'
    OBVIOUS
  <1> DEFINE commits == ListOf("commit", ingest.repo)
  <1>1. /\ UNCHANGED <<source, now, made, reached, saved, again, missed>>
        /\ ingest.at = "commits" /\ source = "github" /\ ingest.repo \in Repos
    BY DEF ReadCommits, SInv, SourceStages
  <1>2. /\ ingest \in Runs /\ commits \subseteq Items /\ commits \subseteq Asked(ingest.since)
        /\ Later(ingest.latest, LatestOf(commits)) \in Nat
        /\ Later(ingest.latest, LatestOf(commits)) <= now
    BY RunsOn
  <1>3. /\ ingest' \in Runs /\ ingest'.at = IF ingest.left = {} THEN "save" ELSE "read"
        /\ ingest'.since = ingest.since /\ ingest'.left = ingest.left
        /\ ingest'.repo = ingest.repo /\ ingest'.prs = ingest.prs
        /\ ingest'.hand = ingest.hand \cup commits /\ ingest'.latest <= now
        /\ ingest'.read = ingest.read \cup {<<ingest.repo, "commit">>}
        /\ ingest'.passed = ingest.passed /\ ingest'.failed = ingest.failed
    <2> DEFINE latest == Later(ingest.latest, LatestOf(commits))
               run == [ingest EXCEPT !.hand = @ \cup commits, !.latest = latest,
                                     !.read = @ \cup {<<ingest.repo, "commit">>}]
    <2> HIDE DEF commits, latest
    <2>1. ingest' = NextRepo(run) /\ latest \in Nat /\ latest <= now
      BY <1>2 DEF ReadCommits, commits, latest
    <2>2. ingest.read \cup {<<ingest.repo, "commit">>} \in SUBSET (Spots \X {"pr", "commit"})
      BY <1>1, <1>2 DEF Runs, Spots
    <2>3. ingest.hand \cup commits \in SUBSET Items
      BY <1>2 DEF Runs
    <2>4. run \in Runs
      BY <2>1, <2>2, <2>3, <1>2 DEF Runs
    <2>5. /\ run.since = ingest.since /\ run.left = ingest.left /\ run.repo = ingest.repo
          /\ run.prs = ingest.prs /\ run.hand = ingest.hand \cup commits
          /\ run.latest = latest /\ run.passed = ingest.passed /\ run.failed = ingest.failed
          /\ run.read = ingest.read \cup {<<ingest.repo, "commit">>}
      BY <1>2 DEF Runs
    <2> HIDE DEF run
    <2>6. ingest' = [run EXCEPT !.at = IF run.left = {} THEN "save" ELSE "read"]
      BY <2>1 DEF NextRepo
    <2> QED
      BY <2>1, <2>4, <2>5, <2>6 DEF Runs
  <1>4. SourceStages'
    <2>1. Asked(ingest.since)' = Asked(ingest.since)
      BY <1>1, <1>3 DEF Asked, IsAsked
    <2> QED
      BY <2>1, <1>1, <1>2, <1>3 DEF SInv, SourceStages
  <1>5. \A e : Known(e) => Known(e)'
    BY <1>1, <1>3 DEF Known
  <1>6. ASSUME NEW e \in Offered, <<e.place, e.kind>> \in ingest'.read \ ingest.read
        PROVE  Known(e)'
    <2>1. e.place = ingest.repo /\ e.kind = "commit"
      BY <1>3, <1>6
    <2>2. CASE IsAsked(e, ingest.since)
      BY <2>1, <2>2, <1>3 DEF ListOf, Asked, Offered, Known
    <2>3. CASE ~IsAsked(e, ingest.since)
      BY <2>3, <1>1, <1>5 DEF SInv, BelowIsKnown
    <2> QED
      BY <2>2, <2>3
  <1>7. source = "github" => again' = {}
    BY <1>1 DEF SInv, GitHubSavesOnce
  <1> QED
    BY <1>1, <1>3, <1>4, <1>5, <1>6, <1>7, RunGoesOnKnowing

LEMMA SavePullRequestsKeeps == SInv /\ SavePullRequests => SInv'
  <1> SUFFICES ASSUME SInv, SavePullRequests
               PROVE  SInv'
    OBVIOUS
  <1>1. /\ UNCHANGED <<source, now, made, reached, missed>>
        /\ ingest.at = "prs" /\ source = "github" /\ again = {}
        /\ ingest \in Runs /\ ingest.latest <= now
    BY DEF SavePullRequests, SInv, SourceStages, GitHubSavesOnce, IngestTypeOK, Marks
  <1>2. CASE ingest.prs = {} /\ ingest' = [ingest EXCEPT !.at = "commits"]
             /\ UNCHANGED <<saved, again>>
    <2>1. /\ ingest' \in Runs /\ ingest'.at = "commits" /\ ingest'.since = ingest.since
          /\ ingest'.left = ingest.left /\ ingest'.repo = ingest.repo
          /\ ingest'.prs = ingest.prs /\ ingest'.hand = ingest.hand
          /\ ingest'.latest = ingest.latest /\ ingest'.read = ingest.read
          /\ ingest'.passed = ingest.passed /\ ingest'.failed = ingest.failed
      BY <1>1, <1>2 DEF Runs
    <2>2. SourceStages'
      BY <1>1, <1>2, <2>1 DEF SInv, SourceStages, Asked, IsAsked
    <2>3. \A e : Known(e) => Known(e)'
      BY <1>1, <1>2, <2>1 DEF Known
    <2> QED
      BY <1>1, <1>2, <2>1, <2>2, <2>3, RunGoesOnKnowing
  <1>3. ASSUME NEW month, month \subseteq ingest.prs,
               \/ Put(month \ saved) /\ ingest' = [ingest EXCEPT !.prs = @ \ month]
               \/ /\ PutFails(month \ saved)
                  /\ ingest' = [ingest EXCEPT !.prs = @ \ month, !.passed = @ \cup month]
        PROVE  SInv'
    <2>1. /\ ingest' \in Runs /\ ingest'.at = "prs" /\ ingest'.since = ingest.since
          /\ ingest'.left = ingest.left /\ ingest'.repo = ingest.repo
          /\ ingest'.prs = ingest.prs \ month /\ ingest'.hand = ingest.hand
          /\ ingest'.latest = ingest.latest /\ ingest'.read = ingest.read
          /\ ingest'.failed = ingest.failed
      <3>1. /\ ingest.prs \ month \in SUBSET Items /\ ingest.passed \in SUBSET Items
            /\ ingest.passed \cup month \in SUBSET Items
        BY <1>1, <1>3 DEF Runs
      <3>2. CASE ingest' = [ingest EXCEPT !.prs = @ \ month]
        BY <3>1, <3>2, <1>1 DEF Runs
      <3>3. CASE ingest' = [ingest EXCEPT !.prs = @ \ month, !.passed = @ \cup month]
        BY <3>1, <3>3, <1>1 DEF Runs
      <3> QED
        BY <3>2, <3>3, <1>3
    <2>2. SourceStages'
      BY <1>1, <2>1 DEF SInv, SourceStages, Asked, IsAsked
    <2>3. /\ saved \subseteq saved' /\ again' = {} /\ ingest.passed \subseteq ingest'.passed
          /\ month \subseteq saved' \cup ingest'.passed
      BY <1>1, <1>3 DEF Put, PutFails, Runs
    <2>4. \A e : Known(e) => Known(e)'
      BY <1>1, <2>1, <2>3 DEF Known
    <2> QED
      BY <1>1, <2>1, <2>2, <2>3, <2>4, RunGoesOnKnowing
  <1>4. CASE \E e \in ingest.prs :
          LET month == InMonth(ingest.prs, MonthOf[e.time])
              rest  == [ingest EXCEPT !.prs = @ \ month] IN
          \/ Put(month \ saved) /\ ingest' = rest /\ UNCHANGED faults
          \/ PutFails(month \ saved) /\ ingest' = [rest EXCEPT !.passed = @ \cup month]
    <2>1. PICK e \in ingest.prs :
          LET month == InMonth(ingest.prs, MonthOf[e.time])
              rest  == [ingest EXCEPT !.prs = @ \ month] IN
          \/ Put(month \ saved) /\ ingest' = rest /\ UNCHANGED faults
          \/ PutFails(month \ saved) /\ ingest' = [rest EXCEPT !.passed = @ \cup month]
      BY <1>4
    <2> DEFINE m == InMonth(ingest.prs, MonthOf[e.time])
    <2>2. m \subseteq ingest.prs
      BY DEF InMonth
    <2>3. \/ Put(m \ saved) /\ ingest' = [ingest EXCEPT !.prs = @ \ m]
          \/ /\ PutFails(m \ saved)
             /\ ingest' = [ingest EXCEPT !.prs = @ \ m, !.passed = @ \cup m]
      BY <2>1
    <2> HIDE DEF m
    <2> QED
      BY <2>2, <2>3, <1>3
  <1> QED
    BY <1>2, <1>4 DEF SavePullRequests

LEMMA RepoFailsKeeps == SInv /\ RepoFails => SInv'
  <1> SUFFICES ASSUME SInv, RepoFails
               PROVE  SInv'
    OBVIOUS
  <1>1. /\ UNCHANGED <<source, now, made, reached, saved, again, missed>>
        /\ ingest.at \in {"prs", "commits"} /\ source = "github" /\ again = {}
        /\ ingest \in Runs /\ ingest.latest <= now
    BY DEF RepoFails, SInv, SourceStages, GitHubSavesOnce, IngestTypeOK, Marks
  <1>2. /\ ingest' \in Runs /\ ingest'.at = IF ingest.left = {} THEN "save" ELSE "read"
        /\ ingest'.since = ingest.since
        /\ ingest'.left = ingest.left /\ ingest'.repo = ingest.repo
        /\ ingest'.prs = {} /\ ingest'.hand = ingest.hand
        /\ ingest'.latest = ingest.latest /\ ingest'.read = ingest.read
        /\ ingest'.passed = ingest.passed /\ ingest'.failed
    BY <1>1 DEF RepoFails, NextRepo, Runs
  <1>3. SourceStages'
    BY <1>1, <1>2 DEF SInv, SourceStages, Asked, IsAsked
  <1>4. \A e : ~IsAsked(e, ingest.since) /\ Known(e) => Known(e)'
    BY <1>1, <1>2 DEF SInv, SourceStages, Known, Asked
  <1> QED
    BY <1>1, <1>2, <1>3, <1>4, RunGoesOnKnowing

LEMMA SaveItemsKeeps == SInv /\ SaveItems => SInv'
  <1> SUFFICES ASSUME SInv, SaveItems
               PROVE  SInv'
    OBVIOUS
  <1>1. /\ UNCHANGED <<source, now, made, reached, missed>>
        /\ ingest.at = "save" /\ (source = "github" => again = {})
        /\ ingest \in Runs /\ ingest.latest <= now
    BY DEF SaveItems, SInv, GitHubSavesOnce, IngestTypeOK, Marks
  <1>2. CASE ingest.hand = {} /\ ingest' = [ingest EXCEPT !.at = "state"]
             /\ UNCHANGED <<saved, again>>
    <2>1. /\ ingest' \in Runs /\ ingest'.at = "state" /\ ingest'.since = ingest.since
          /\ ingest'.left = ingest.left /\ ingest'.repo = ingest.repo
          /\ ingest'.prs = ingest.prs /\ ingest'.hand = ingest.hand
          /\ ingest'.latest = ingest.latest /\ ingest'.read = ingest.read
          /\ ingest'.passed = ingest.passed /\ ingest'.failed = ingest.failed
      BY <1>1, <1>2 DEF Runs
    <2>2. SourceStages'
      BY <1>1, <1>2, <2>1 DEF SInv, SourceStages, Asked, IsAsked
    <2>3. \A e : Known(e) => Known(e)'
      BY <1>1, <1>2, <2>1 DEF Known
    <2> QED
      BY <1>1, <1>2, <2>1, <2>2, <2>3, RunGoesOnKnowing
  <1>3. ASSUME NEW month, month \subseteq ingest.hand, NEW new, new \subseteq month,
               source = "github" => new = month \ saved, month \ saved \subseteq new,
               \/ Put(new) /\ ingest' = [ingest EXCEPT !.hand = @ \ month]
               \/ PutFails(new) /\ ingest' = [ingest EXCEPT !.hand = @ \ month, !.failed = TRUE]
        PROVE  SInv'
    <2>1. /\ ingest' \in Runs /\ ingest'.at = "save" /\ ingest'.since = ingest.since
          /\ ingest'.left = ingest.left /\ ingest'.repo = ingest.repo
          /\ ingest'.prs = ingest.prs /\ ingest'.hand = ingest.hand \ month
          /\ ingest'.latest = ingest.latest /\ ingest'.read = ingest.read
          /\ ingest'.passed = ingest.passed /\ (ingest.failed => ingest'.failed)
      <3>1. ingest.hand \ month \in SUBSET Items
        BY <1>1 DEF Runs
      <3>2. CASE ingest' = [ingest EXCEPT !.hand = @ \ month]
        BY <3>1, <3>2, <1>1 DEF Runs
      <3>3. CASE ingest' = [ingest EXCEPT !.hand = @ \ month, !.failed = TRUE]
        BY <3>1, <3>3, <1>1 DEF Runs
      <3> QED
        BY <3>2, <3>3, <1>3
    <2>2. SourceStages'
      BY <1>1, <2>1 DEF SInv, SourceStages, Asked, IsAsked
    <2>3. /\ saved \subseteq saved' /\ (source = "github" => again' = {})
          /\ month \subseteq saved' \/ ingest'.failed
      BY <1>1, <1>3 DEF Put, PutFails, Runs
    <2>4. \A e : ~IsAsked(e, ingest.since) /\ Known(e) => Known(e)'
      BY <1>1, <1>3, <2>1, <2>3 DEF Known, SInv, SourceStages, Asked
    <2>5. ~ingest'.failed => \A e : Known(e) => Known(e)'
      BY <1>1, <2>1, <2>3 DEF Known
    <2> QED
      BY <1>1, <2>1, <2>2, <2>3, <2>4, <2>5, RunGoesOnKnowing
  <1>4. CASE \E e \in ingest.hand :
          LET month == InMonth(ingest.hand, MonthOf[e.time])
              new   == IF source = "github" THEN month \ saved ELSE month
              rest  == [ingest EXCEPT !.hand = @ \ month] IN
          \/ Put(new) /\ ingest' = rest /\ UNCHANGED faults
          \/ PutFails(new) /\ ingest' = [rest EXCEPT !.failed = TRUE]
    <2>1. PICK e \in ingest.hand :
          LET month == InMonth(ingest.hand, MonthOf[e.time])
              new   == IF source = "github" THEN month \ saved ELSE month
              rest  == [ingest EXCEPT !.hand = @ \ month] IN
          \/ Put(new) /\ ingest' = rest /\ UNCHANGED faults
          \/ PutFails(new) /\ ingest' = [rest EXCEPT !.failed = TRUE]
      BY <1>4
    <2> DEFINE m == InMonth(ingest.hand, MonthOf[e.time])
               n == IF source = "github" THEN m \ saved ELSE m
    <2>2. m \subseteq ingest.hand /\ n \subseteq m /\ m \ saved \subseteq n
          /\ (source = "github" => n = m \ saved)
      BY DEF InMonth
    <2>3. \/ Put(n) /\ ingest' = [ingest EXCEPT !.hand = @ \ m]
          \/ PutFails(n) /\ ingest' = [ingest EXCEPT !.hand = @ \ m, !.failed = TRUE]
      BY <2>1
    <2> HIDE DEF m, n
    <2> QED
      BY <2>2, <2>3, <1>3
  <1> QED
    BY <1>2, <1>4 DEF SaveItems

(* The cursor moves: what it passes was known and is not in hand any more. *)
LEMMA SaveStateKeeps == SInv /\ SaveState => SInv'
  <1> SUFFICES ASSUME SInv, SaveState
               PROVE  SInv'
    OBVIOUS
  <1>1. CASE ingest.failed
    BY <1>1, EndsKeep DEF SaveState
  <1>2. CASE ~ingest.failed
    <2>1. /\ UNCHANGED <<source, now, made, saved, again>>
          /\ ingest.at = "state" /\ ingest' = NoIngest
          /\ reached' = IF ingest.latest = 0 THEN now ELSE ingest.latest
          /\ missed' = missed \cup {e \in ingest.passed : ~IsAsked(e, reached')}
      BY <1>2 DEF SaveState
    <2>2. reached' \in Nat /\ reached' <= now
      BY <2>1 DEF SInv, IngestTypeOK, Marks, Runs
    <2>3. IngestTypeOK'
      BY <2>1, <2>2, NothingRunsIsFine DEF SInv, IngestTypeOK, Places, Kinds
    <2>4. source # "github" => reached' = ingest.latest /\ \E e \in made : e.time = reached'
      BY <2>1 DEF SInv, IngestTypeOK, Marks, Items
    <2>5. Marks'
      BY <2>1, <2>2, <2>4 DEF SInv, IngestTypeOK, Marks, NoIngest
    <2>6. (SourceStages /\ BelowIsKnown /\ ReadIsKnown /\ FetchedIsKnown)'
      BY <2>1 DEF NoIngest, SourceStages, BelowIsKnown, ReadIsKnown, FetchedIsKnown
    <2>7. ASSUME NEW e \in Offered, ~IsAsked(e, reached')
          PROVE  e \in saved \cup missed'
      <3>1. CASE source = "github"
        <4>1. e.place \in Repos /\ e.kind \in {"pr", "commit"}
          BY <3>1 DEF SInv, IngestTypeOK, Places, Kinds, Offered
        <4>2. <<e.place, e.kind>> \in ingest.read
          BY <3>1, <4>1, <1>2, <2>1 DEF SInv, SourceStages
        <4> QED
          BY <4>2, <1>2, <2>1, <2>7 DEF SInv, ReadIsKnown, Known, SourceStages
      <3>2. CASE source # "github"
        BY <3>2, <1>2, <2>1, <2>4, <2>7 DEF SInv, FetchedIsKnown, Known, SourceStages
      <3> QED
        BY <3>1, <3>2
    <2>8. PassedItemsAreSaved'
      <3>1. Offered' = Offered /\ \A e : IsAsked(e, reached)' = IsAsked(e, reached')
        BY <2>1 DEF Offered, IsAsked
      <3> QED
        BY <2>1, <2>7, <3>1 DEF PassedItemsAreSaved
    <2>9. GitHubSavesOnce'
      BY <2>1 DEF SInv, GitHubSavesOnce
    <2> QED
      BY <2>3, <2>5, <2>6, <2>8, <2>9 DEF SInv
  <1> QED
    BY <1>1, <1>2

LEMMA SNext == SInv /\ [IngestNext]_ingestVars => SInv'
  <1> SUFFICES ASSUME SInv, [IngestNext]_ingestVars
               PROVE  SInv'
    OBVIOUS
  <1>1. CASE IngestDies
    BY <1>1, EndsKeep DEF IngestDies
  <1>2. CASE UNCHANGED ingestVars
    BY <1>2 DEF ingestVars, SInv, IngestTypeOK, Marks, SourceStages, BelowIsKnown, ReadIsKnown,
         FetchedIsKnown, Known, PassedItemsAreSaved, GitHubSavesOnce, Offered, Asked, IsAsked,
         Places, Kinds
  <1> QED
    BY <1>1, <1>2, TimeGoesOnKeeps, HappensKeeps, StartIngestKeeps, ReadItemsKeeps,
       ReadPullRequestsKeeps, SavePullRequestsKeeps, ReadCommitsKeeps, RepoFailsKeeps,
       SaveItemsKeeps, SaveStateKeeps DEF IngestNext

(* For any repositories, items, limits, windows and months, and however    *)
(* many failures: what the cursor of a source has passed has been saved,   *)
(* but for what the model names, and GitHub's items are saved once.        *)
THEOREM SourceItemsArrive == IngestSpec => []ItemsArrive
  <1>1. SInv => ItemsArrive
    BY DEF SInv, ItemsArrive
  <1> QED
    BY SInit, SNext, <1>1, PTL DEF IngestSpec
===============================================================================
