---------------------------- MODULE HistoryIngest -----------------------------
(***************************************************************************)
(* The way of a visit from the browser to the compacted files: the history *)
(* extension (background/sync.ts, history.ts, storage.ts) posts the visits *)
(* since its cursor in batches, the ingest endpoint of the pipelines       *)
(* service (api/browser_history.py, sources/browser_history) saves page    *)
(* views by month and asks for a compaction, and the runs of one lock key  *)
(* compact one after the other (sources/common/compaction.py).             *)
(*                                                                         *)
(* A visit is its address and its time; device, browser and profile are    *)
(* one. A row (a page view) is the set of visits it was made of. The       *)
(* history is shorter than one search returns (INITIAL_SYNC_LIMIT and      *)
(* INCREMENTAL_SEARCH_PAGE_SIZE), and the raw payload and the state of the *)
(* device, which are written and never read, are left out.                 *)
(***************************************************************************)
EXTENDS Naturals, Sequences, FiniteSets

CONSTANTS
  Urls,
  Syncs,         \* runs of runBrowserHistorySync, by alarm or by hand
  Window,        \* PAGE_VIEW_CLUSTER_WINDOW
  BatchSize,     \* MAX_ITEMS_PER_REQUEST
  MaxPosts,      \* MAX_POST_ATTEMPTS
  MonthEnd,      \* the last instant of the first of two months
  MaxTick,       \* bounds the model: the clock
  MaxMishaps,    \* bounds the model: failures
  MaxMaintenance \* bounds the model: runs of the maintenance workflow

ASSUME HistoryConstants ==
  /\ {Window, MonthEnd, MaxTick, MaxMishaps, MaxMaintenance} \subseteq Nat
  /\ {BatchSize, MaxPosts} \subseteq Nat \ {0}

VARIABLES
  tick,         \* the clock of the browser, in its milliseconds
  visits,       \* the browser's history
  cursor,       \* lastSuccessfulSyncAt in the extension's storage, 0 if none
  syncs,        \* the runs of the extension
  handlers,     \* requests the service works at
  events,       \* the rows saved, by month
  compactions,  \* runs that wait for the lock key: their months
  compactor,    \* the run that has it
  compacted,    \* the compacted file of each month
  stale,        \* months a compaction was asked for that failed since
  mishaps,      \* failures so far
  maintained,   \* runs of the maintenance workflow so far
  cut           \* a run was cut short after it posted, or met another one

historyVars == <<tick, visits, cursor, syncs, handlers, events, compactions, compactor,
                 compacted, stale, mishaps, maintained, cut>>
browserVars == <<tick, visits>>
extensionVars == <<cursor, syncs, cut>>
serviceVars == <<events, compactions, compactor, compacted, stale, maintained>>

Months == {1, 2}
Month(time) == IF time <= MonthEnd THEN 1 ELSE 2

New == [at |-> "new", since |-> 0, started |-> 0, left |-> {}, batch |-> {},
        tries |-> 0, posts |-> 0]
Over == [New EXCEPT !.at = "over"]
NoCompaction == [at |-> "idle", months |-> {}, rows |-> {}]

HistoryInit ==
  /\ tick = 1 /\ visits = {} /\ cursor = 0
  /\ syncs = [s \in Syncs |-> New] /\ handlers = {}
  /\ events = [m \in Months |-> {}] /\ compacted = [m \in Months |-> {}]
  /\ compactions = <<>> /\ compactor = NoCompaction
  /\ stale = {} /\ mishaps = 0 /\ maintained = 0 /\ cut = FALSE

Mishap == mishaps < MaxMishaps /\ mishaps' = mishaps + 1

-------------------------------------------------------------------------------
(* The browser.                                                            *)

(* A millisecond ends, with the visits that were made in it.               *)
TimePasses ==
  /\ tick < MaxTick
  /\ tick' = tick + 1
  /\ \E urls \in SUBSET Urls : visits' = visits \cup [url : urls, time : {tick}]
  /\ UNCHANGED <<cursor, syncs, handlers, serviceVars, mishaps, cut>>

-------------------------------------------------------------------------------
(* The extension.                                                          *)

Active(s) == syncs[s].at \notin {"new", "over"}
Continue(s, next) == syncs' = [syncs EXCEPT ![s] = next]
Id(s) == <<s, syncs[s].posts>>

(* The cursor is read, then the clock; the alarm at startup and "Sync now" *)
(* start runs that know nothing of each other.                             *)
StartSync(s) ==
  /\ syncs[s].at = "new"
  /\ Continue(s, [New EXCEPT !.at = "collect", !.since = cursor, !.started = tick])
  /\ cut' = (cut \/ \E other \in Syncs : Active(other))
  /\ UNCHANGED <<browserVars, cursor, handlers, serviceVars, mishaps>>

(* collectHistoryItems: visits made since then are dropped again. The      *)
(* history is taken to be read in a later millisecond than the run began   *)
(* in; a visit of that one millisecond that was made later is never sent.  *)
Collect(s) ==
  LET IsNew(v) == syncs[s].since < v.time /\ v.time <= syncs[s].started IN
  /\ syncs[s].at = "collect" /\ tick > syncs[s].started
  /\ Continue(s, [syncs[s] EXCEPT !.at = "post", !.left = {v \in visits : IsNew(v)}])
  /\ UNCHANGED <<browserVars, cursor, handlers, serviceVars, mishaps, cut>>

(* chunkItems over the visits, the newest first. One batch is posted even  *)
(* if it is empty.                                                         *)
Batches(left) ==
  {batch \in SUBSET left :
     /\ Cardinality(batch) <= BatchSize
     /\ Cardinality(batch) = BatchSize \/ batch = left
     /\ \A v \in batch, w \in left \ batch : w.time <= v.time}

(* transform_payload_to_page_view_rows: visits of one address that follow  *)
(* each other within the window are one page view.                         *)
IsFirst(v, batch) ==
  ~ \E w \in batch : w.url = v.url /\ w.time < v.time /\ v.time <= w.time + Window
Cluster(v, batch) ==
  {w \in batch :
     /\ w.url = v.url /\ v.time <= w.time
     /\ ~ \E x \in batch : /\ x.url = v.url /\ IsFirst(x, batch)
                           /\ v.time < x.time /\ x.time <= w.time}
Rows(batch) == {Cluster(v, batch) : v \in {w \in batch : IsFirst(w, batch)}}

Started(row) == CHOOSE t \in {v.time : v \in row} : \A v \in row : t <= v.time
Ended(row) == CHOOSE t \in {v.time : v \in row} : \A v \in row : v.time <= t
MonthsOf(rows) == {Month(Started(row)) : row \in rows}
PageViewId(row) == <<{v.url : v \in row}, Started(row), Ended(row)>>

SendBatch(s, batch) ==
  LET next == [syncs[s] EXCEPT !.at = "await", !.batch = batch, !.tries = @ + 1, !.posts = @ + 1] IN
  /\ Continue(s, next)
  /\ handlers' = handlers \cup
       {[id |-> <<s, next.posts>>, rows |-> Rows(batch), unsaved |-> MonthsOf(Rows(batch))]}

Post(s) ==
  /\ \/ syncs[s].at = "post" /\ \E batch \in Batches(syncs[s].left) : SendBatch(s, batch)
     \/ syncs[s].at = "retry" /\ SendBatch(s, syncs[s].batch)
  /\ UNCHANGED <<browserVars, cursor, serviceVars, mishaps, cut>>

GiveUp(s) == Continue(s, Over) /\ cut' = (cut \/ syncs[s].posts > 0)

(* "Failed to fetch": the request or its answer was lost. The service may  *)
(* be working at it all the same, or has gone down under it.               *)
FetchFails(s) ==
  /\ syncs[s].at = "await"
  /\ \/ Mishap
     \/ (\A h \in handlers : h.id # Id(s)) /\ UNCHANGED mishaps
  /\ IF syncs[s].tries < MaxPosts
     THEN Continue(s, [syncs[s] EXCEPT !.at = "retry"]) /\ UNCHANGED cut
     ELSE GiveUp(s)
  /\ UNCHANGED <<browserVars, cursor, handlers, serviceVars>>

(* An answer that is not lost: accepted, or an error, which is not retried.*)
Accepted(s) ==
  LET left == syncs[s].left \ syncs[s].batch IN
  Continue(s, [syncs[s] EXCEPT !.at = IF left = {} THEN "save" ELSE "post",
                               !.left = left, !.batch = {}, !.tries = 0])

(* Mutant: the cursor is set to the time at which the run has ended.       *)
SetSuccessfulSync_Late(s) ==
  /\ syncs[s].at = "save"
  /\ cursor' = tick
  /\ Continue(s, Over)
  /\ UNCHANGED <<browserVars, handlers, serviceVars, mishaps, cut>>

(* The cursor becomes the time at which the run began.                     *)
SetSuccessfulSync(s) ==
  /\ syncs[s].at = "save"
  /\ cursor' = syncs[s].started
  /\ Continue(s, Over)
  /\ UNCHANGED <<browserVars, handlers, serviceVars, mishaps, cut>>

(* The history or the storage fails, or the browser stops the worker.      *)
SyncDies(s) ==
  /\ Mishap
  /\ Active(s)
  /\ GiveUp(s)
  /\ UNCHANGED <<browserVars, cursor, handlers, serviceVars>>

-------------------------------------------------------------------------------
(* The endpoint: run_browser_history_ingest and the run it asks for.       *)

Awaits(s, h) == syncs[s].at = "await" /\ h.id = Id(s)
Handle(h, next) == handlers' = (handlers \ {h}) \cup {next}

(* An answer nobody waits for is gone; one that gets lost on its way is as *)
(* if the fetch had failed before it was given.                            *)
Respond(h, ok) ==
  /\ handlers' = handlers \ {h}
  /\ IF \E s \in Syncs : Awaits(s, h)
     THEN \E s \in Syncs : /\ Awaits(s, h)
                           /\ IF ok THEN Accepted(s) /\ UNCHANGED cut ELSE GiveUp(s)
     ELSE UNCHANGED <<syncs, cut>>

(* save_parquet: one object for the rows of a month, the later one first.  *)
SaveMonth(h) ==
  /\ \E m \in h.unsaved :
       /\ \A other \in h.unsaved : other <= m
       /\ events' = [events EXCEPT ![m] = @ \cup {row \in h.rows : Month(Started(row)) = m}]
       /\ Handle(h, [h EXCEPT !.unsaved = @ \ {m}])
  /\ UNCHANGED <<browserVars, extensionVars, compactions, compactor, compacted, stale,
                 mishaps, maintained>>

(* The run is asked for when all is saved, for the months of this batch.   *)
EnqueueCompaction(h) ==
  /\ h.unsaved = {}
  /\ compactions' = IF h.rows = {} THEN compactions ELSE Append(compactions, MonthsOf(h.rows))
  /\ Respond(h, TRUE)
  /\ UNCHANGED <<browserVars, cursor, events, compactor, compacted, stale, mishaps, maintained>>

(* A put or the INSERT of the run fails: 500, and what is saved stays.     *)
IngestFails(h) ==
  /\ Mishap
  /\ Respond(h, FALSE)
  /\ UNCHANGED <<browserVars, cursor, serviceVars>>

-------------------------------------------------------------------------------
(* Compaction: what waits for the lock key, and who has it.                *)

(* The workflow of every six hours, for this month and the one before.     *)
QueueMaintenance ==
  /\ maintained < MaxMaintenance
  /\ maintained' = maintained + 1
  /\ compactions' = Append(compactions, {Month(tick), Month(tick) - 1} \cap Months)
  /\ UNCHANGED <<browserVars, extensionVars, handlers, events, compactor, compacted, stale,
                 mishaps>>

StartCompaction ==
  /\ compactor = NoCompaction /\ compactions # <<>>
  /\ compactor' = [NoCompaction EXCEPT !.at = "reading", !.months = Head(compactions)]
  /\ compactions' = Tail(compactions)
  /\ UNCHANGED <<browserVars, extensionVars, handlers, events, compacted, stale, mishaps,
                 maintained>>

(* compact_records: of the rows of one id one is kept.                     *)
CompactRecords(rows) ==
  {CHOOSE row \in rows : PageViewId(row) = id : id \in {PageViewId(row) : row \in rows}}

Current(m) == m \in compactor.months /\ \A other \in compactor.months : m <= other
NextMonth(m) ==
  compactor' = IF compactor.months = {m} THEN NoCompaction
               ELSE [compactor EXCEPT !.at = "reading", !.months = @ \ {m}, !.rows = {}]

(* compact_month reads all objects of the month; without any it is done.   *)
ReadMonth(m) ==
  /\ compactor.at = "reading" /\ Current(m)
  /\ IF events[m] = {} THEN NextMonth(m)
     ELSE compactor' = [compactor EXCEPT !.at = "writing", !.rows = CompactRecords(events[m])]
  /\ UNCHANGED <<browserVars, extensionVars, handlers, events, compactions, compacted,
                 stale, mishaps, maintained>>

WriteMonth(m) ==
  /\ compactor.at = "writing" /\ Current(m)
  /\ compacted' = [compacted EXCEPT ![m] = compactor.rows]
  /\ stale' = stale \ {m}
  /\ NextMonth(m)
  /\ UNCHANGED <<browserVars, extensionVars, handlers, events, compactions, mishaps, maintained>>

(* A month that fails does not keep the run from the others.               *)
MonthFails(m) ==
  /\ Mishap
  /\ compactor.at # "idle" /\ Current(m)
  /\ stale' = stale \cup {m}
  /\ NextMonth(m)
  /\ UNCHANGED <<browserVars, extensionVars, handlers, events, compactions, compacted, maintained>>

(* The child that runs the step dies, or is killed at the step's timeout.  *)
CompactionDies ==
  /\ Mishap
  /\ compactor # NoCompaction
  /\ compactor' = NoCompaction /\ stale' = stale \cup compactor.months
  /\ UNCHANGED <<browserVars, extensionVars, handlers, events, compactions, compacted, maintained>>

(* The service goes down: requests end without an answer, the run that was *)
(* running has failed, and what waits is still there.                      *)
RestartService ==
  /\ Mishap
  /\ handlers # {} \/ compactor # NoCompaction
  /\ handlers' = {}
  /\ compactor' = NoCompaction /\ stale' = stale \cup compactor.months
  /\ UNCHANGED <<browserVars, extensionVars, events, compactions, compacted, maintained>>

-------------------------------------------------------------------------------
HistoryNext ==
  \/ TimePasses \/ QueueMaintenance \/ StartCompaction
  \/ CompactionDies \/ RestartService
  \/ \E s \in Syncs : \/ StartSync(s) \/ Collect(s) \/ Post(s) \/ FetchFails(s)
                      \/ SetSuccessfulSync(s) \/ SyncDies(s)
  \/ \E h \in handlers : SaveMonth(h) \/ EnqueueCompaction(h) \/ IngestFails(h)
  \/ \E m \in Months : ReadMonth(m) \/ WriteMonth(m) \/ MonthFails(m)

HistorySpec == HistoryInit /\ [][HistoryNext]_historyVars

-------------------------------------------------------------------------------
(* Properties.                                                             *)

(* Whatever is lost, repeated or cut short on the way, and however runs of *)
(* the extension overlap: a visit made up to the cursor has been saved, so *)
(* that no later run, which asks for what came after it, has to bring it.  *)
SavedIn(files, v) == \E m \in Months : \E row \in files[m] : v \in row
CursorIsCovered == \A v \in visits : v.time <= cursor => SavedIn(events, v)

(* When no compaction waits or runs, and none of a month has failed since, *)
(* the compacted files tell of every visit up to the cursor: also of one  *)
(* whose rows were saved while an earlier run was reading.                 *)
CompactedIsComplete ==
  compactions = <<>> /\ compactor = NoCompaction /\ stale = {} =>
    \A v \in visits : v.time <= cursor => SavedIn(compacted, v)

(* A visit is part of one page view, also when a batch was sent again; but *)
(* only while no run was cut short after a batch or met another one, since *)
(* the next run then cuts its batches, and with them the page views, in    *)
(* other places.                                                           *)
VisitsCountOnce ==
  ~cut => \A m, n \in Months : \A row \in compacted[m], other \in compacted[n] :
            row # other => row \cap other = {}

VisitsArrive == CursorIsCovered /\ CompactedIsComplete /\ VisitsCountOnce
===============================================================================
