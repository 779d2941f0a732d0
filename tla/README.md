# EgoGraph / EgoPulse: TLA+ models, checks and proofs

This directory holds TLA+ modules for the parts of this repository whose
correctness depends on order, timing, failures and restarts, the TLC
configurations that check them on small instances, and TLAPS proofs of the
theorems that matter most for every value of the constants. `PROJECT.json` maps
each definition to the lines it models and lists components, runs, mutants,
findings, hazards and theorems.

    tlc -workers 2 -config MCRunDispatcher_safe.cfg MCRunDispatcher
    tlapm RunDispatcherProofs.tla

## The system

The repository holds two services. **EgoGraph pipelines** (Python) runs
workflows that collect personal data, on a schedule and on request.
**EgoPulse** (Rust) is an agent that answers in a terminal, a web page, Discord
and Telegram, with a language model and tools.

| component | state it keeps | operations | with whom it interacts |
|---|---|---|---|
| pipelines: **workflow locks** `dispatching/lock_manager.py` | `workflow_locks` (lock_key, run, owner, lease_expires_at) | acquire, heartbeat, release, cleanup_stale_locks | dispatcher thread, one heartbeat thread per worker, service start |
| pipelines: **run queue and dispatcher** `run_dispatcher.py`, `run_repository.py`, `service.py` | `workflow_runs`, the dispatcher thread, `_worker_threads` | enqueue, lease, requeue, cancel, retry, run, start, stop | API threads and CLI processes, scheduler, lock table, step execution |
| pipelines: **step execution** `run_dispatcher.py`, `step_run_repository.py`, two executors | `step_runs`, child processes, result queues | insert, mark running, execute, record, retry, skip, reconcile | worker thread, child process |
| pipelines: **schedule triggers** `apscheduler_app.py` and repositories | `workflow_schedules.next_run_at`, `workflow_definitions.enabled`, APScheduler's jobs | register, sync, fire, enable, disable, reconcile at start | APScheduler's pool, API threads, CLI processes, run queue |
| pipelines: registry, HTTP API, CLI | none of their own | trigger, retry, cancel, enable, disable, ingest | run queue, triggers |
| browser extension and pipelines: **browser history** `background/*.ts`, `api/browser_history.py`, `sources/browser_history/*.py`, `sources/common/compaction.py` | the cursor in the extension's storage, page views by month, one compacted file per month | collect, post in batches, post again, save, ask for a compaction, compact, maintenance every six hours | the browser, HTTP, run queue (the two compaction workflows have one lock key) |
| pipelines: **spotify, github, google activity** `sources/*/` | one cursor per source (per account of YouTube), event files by month | read from the cursor on, save by month, move the cursor, compact | the service read, object storage; executed as steps, one run at a time |
| pipelines: local mirror | copies of compacted files | list, copy what differs in size | object storage |
| EgoPulse: **sessions and turns** `agent_loop/turn.rs`, `session.rs`, `storage.rs` | SQLite rows of chats, messages, sessions, tool_calls | process_turn, persist, reload on conflict, /new, /compact | language model, tools, channels |
| EgoPulse: **rounds of a turn** `turn.rs`, `guards.rs`, `formatting.rs`, `sanitizer.rs` | the turn's messages, rows of tool_calls | ask, correct, call tools, mask, shorten, persist | language model, tools, storage |
| EgoPulse: **state files** `storage.rs`, `assets.rs`, `soul_agents.rs` | the database file and its schema, images, SOUL.md | open and migrate, persist and restore an image | every process of EgoPulse |
| EgoPulse: **prompt files** `skills.rs`, `soul_agents.rs` | none: reads the user's files | build the system prompt, activate a skill | turns; the user edits the files |
| EgoPulse: **web run hub and streams** `web.rs`, `web/stream.rs`, `sse.rs`, `ws.rs` | run histories, broadcast channels, socket places | start, publish, subscribe with replay, lag, remove; upgrade, connect, chat.send, close | pages, sockets, turns |
| EgoPulse: **web sessions** `web/sessions.rs` | rows of chats | list, read, resolve a key | pages, turns, commands |
| EgoPulse: **LLM client** `llm/*.rs` | the parser of the event stream | translate, stream, rescue calls | provider, turns |
| EgoPulse: **tools and guards** `tools/*.rs` | files, processes, temporary files | read, write, edit, bash, grep, find, ls, guards | turns, the operating system |
| EgoPulse: **MCP client** `mcp.rs`, `mcp_adapter.rs` | connected servers, registered names | load, connect, register, call | tool registry, servers |
| EgoPulse: **configuration** `config/*.rs`, `llm_profile.rs`, `web/config.rs`, `setup/*.rs` | egopulse.config.yaml | load, resolve, change by command, page or wizard | every channel, environment |
| EgoPulse: **host and gateway** `main.rs`, `runtime.rs`, `gateway.rs` | channel tasks, systemd unit, status file | start, stop, install, update, restart, remove | systemd, channels |
| EgoPulse: **channels** `channels/*.rs`, `text.rs` | handlers of messages, line editor and history of the terminal | receive, filter, dispatch, split, post; browse, type, send | Discord, Telegram, user |
| backend, android app, deployment | - | - | see "Not modelled" |

Where things meet. In the pipelines service one dispatcher thread, one worker and
one heartbeat thread per run, APScheduler's thread and its pool, the threads of
the HTTP server, the processes of the CLI and a child process per step meet in one
SQLite file; a repository method is one transaction, and nothing spans two. In
EgoPulse every database method holds the connection's mutex for one call. Between
two calls a turn awaits a model or a tool for minutes, while other turns of the
chat, commands, other processes and the user's editor go on. A client reads a run
through a history and a broadcast channel, never from the turn itself. Files
(configuration, images, skills) are shared between processes without locks.

## What makes each modelled part correct

* locks - two runs of one lock key do not execute at once while leases are
  renewed in time; a live row is never taken, swept or deleted by somebody else,
  however old the clock reading a method works with.
* run queue - bounded concurrency, one execution per run, no run lost, stranded
  or brought back from a final status, whatever is cancelled, raises, crashes or
  restarts; each queued run is settled; a hung run holds up only its own lock key.
* steps - success is recorded only for complete work; order and retries; no
  child works for a finished run; a restart leaves nothing running.
* triggers - a slot that passed is fired or still on record for the next start;
  enabled workflows have jobs; a restart repairs what overlapping calls broke.
* browser history - a visit the cursor has passed is saved, and once no compaction waits
  or has failed the compacted files tell of it; it counts once.
* other sources - what no later run asks for is saved, whatever failed in the runs so
  far; what GitHub's lists repeat is saved once.
* sessions - whatever turns overlap, the snapshot the next turn starts from tells
  what the history lists, once and in order, and the model sees the question it is
  asked; a command acts on the chat it is typed in.
* rounds - a result follows the call it answers, the table says what the model was
  told, corrections are not stored, keys are masked and payloads fit.
* web - a reader sees a run once, in order and to its end; runs do not mix on a
  socket; a listed session opens.
* tools - what is cut off is told and can be reached; a timeout leaves no process;
  an edit changes what it names and nothing else; the two path guards agree.
* LLM and MCP clients - chunks make no difference; a call is rescued whole; a
  registered name reaches the tool it is named after.
* configuration - tokens of the environment stay out of the file, its own stay in it; what a command
  answers is true. State files - what a crash cut short does not stop the next
  process. Prompt files - the user's skill stands before a built-in one.
* host and channels - a dead channel takes the process down, an install that
  reported success took effect; a reply arrives in its order, and nothing the user
  typed is lost.

## Modules

Pipelines:

| module | models | state and actions against the code |
|---|---|---|
| `LeaseTable` | what the lock table promises, untimed | `holder`, `live`; `Acquire`, `Renew`, `Release`, `Sweep` are the four methods, `Lapse` is time |
| `WorkflowLocks` | `lock_manager.py` with its clock | each method is two actions: the clock reading (`Begin...`) and the transaction (`Commit...`), which waits for a mutex; `since` is the reading in use; `late` records who missed a deadline |
| `JobServer` | what a run queue promises: a run is started once, within the slots, alone on its lock key | `phase` |
| `RunDispatcher` | `run_dispatcher.py`, `run_repository.py`, `service.start/stop` | one action per transaction; `at`/`hand`/`blocked` are the locals of `_dispatch_available_runs`, `workers` the table `_worker_threads`, `cancels` the `cancel_run()` calls between their two transactions; `ahead` stands for the order of `queued_at`, which is read off the clock before the row is written (`stamped`) |
| `StepExecution` | `_execute_run`, `_execute_step`, the executors, the startup reconcile | `at` is the program counter of the worker thread, `child`/`payload` the process and its result queue |
| `ScheduleTrigger` | `apscheduler_app.py` | `firing` and `sync` are the program counters of `_enqueue_schedule_run` and `sync_jobs`; `due` is a history variable: the slot the trigger still owes |
| `HistoryIngest` | the way of a visit from the browser to the compacted files | `syncs[s]` holds the locals of `runBrowserHistorySync`, `handlers` the requests the service works at (also those nobody waits for any more), `compactions` the queued runs of the lock key, `compactor` the one that runs; a row is the set of visits it was made of; `stale` and `cut` are history variables |
| `SourceIngest` | a run of Spotify, GitHub or YouTube: `run_pipeline`, `run_account_pipeline` | `ingest` holds the locals of the run: `since`, the repositories `left`, pull requests (`prs`) and commits, plays or watches (`hand`) still to be saved, the newest time (`latest`); `reached` is the cursor in the state; `ingest.passed`, `missed` and `again` are history variables |

EgoPulse:

| module | models | state and actions against the code |
|---|---|---|
| `SessionTurns` | several turns of one chat: `turn.rs`, `session.rs`, `compaction.rs`, `/new` and `/compact` over `storage.rs` | one action per database method or await; `task[t].at` is the place in `process_turn_inner`, `messages` the local vector, `seen` the `updated_at` it read, `attempt` the retry after a conflict; a message is its role and the phases it tells of. `log` is the set of rows of `messages`, read by rank of their timestamps (`Recent`); `Merged` groups neighbours of one role, which is what appending them one by one to the last message comes to |
| `TurnLoop` | the rounds of one turn, its corrections, the tool_calls table | `loop` holds the locals of `process_turn_inner`; `elsewhere` counts changes of the row by others, `Rebased` is the reload after a conflict, `InsertCall` and `UpdateCall` the two writes of a call |
| `ToolResults` | masking (`sanitizer.rs`) and shortening (`formatting.rs`) of a result | one action per turn of a loop; a text is a sequence of tokens: key prefix, letter, mark, blank, and what is put in |
| `StateFiles` | opening and migrating the database, SOUL.md, images (`assets.rs`) | one action per statement or write; `process[p].at` is the place in `Database::new` or `persist_image_data_url`; `torn` records images a crash left half written |
| `PromptFiles` | the catalogue of skills, `activate_skill` (SOUL.md and AGENTS.md are not: each is read whole or not at all) | building a prompt reads the files of that moment; activating a skill looks through the directories and then reads the file again, with the user's edits in between; a scan of the directories is one step. `changed` records what was edited since a scan |
| `WebStreams` | the hub of runs, pages over SSE, sockets | `log` is what a run has published, `reader` a receiver with its replay; `ReplayAfter` and `Subscription` are `subscribe_with_replay`, `Lag` is `RecvError::Lagged`; `active` is `active_ws_connections` |
| `WebRequests` | the chats table and every form a session is named in | `chats` and `said`; `Context` is what a key of a client means to a turn, `HistoryOf` to a page |
| `FileTools` | read, write and edit over `text.rs` | one tool call is one action; `paging` is somebody who follows the offsets that read names. `TextParts` has what its texts and the streams of `LlmClient` have in common |
| `ToolCalls` | bash, grep, find, ls, the registry, both guards | `call[c].at` is the place in the tool's future, `group` the processes of the command, `printed` the pipe, `temp` the files with whole outputs |
| `LlmClient` | requests, event stream, answers, rescue of calls written as text | `parser` is `SseEventParser`; one action per chunk; the stream is cut anywhere |
| `McpClient` | merging of the files, connecting, naming, calls | names are sequences of parts, so that two tools may be offered under one name |
| `ConfigFile` | the file, its writers and its readers | `writer[w].at` is the place in a command or request, `wizard` the other process; `Loaded` lays the environment over the file, `Saved` takes it off |
| `Host` | the process, its channel tasks and its unit | a gateway command is the list of what it has yet to do; `manager` is what systemd has loaded |
| `ChannelMessages` | messages from arrival to the last chunk | `handler[m].at`; `Split` is `split_text`; `timeline` is what the chat shows |
| `TuiChat` | browser, line editor, history, the stored sessions, the turn in the background | `chat` is the chat on the screen, `sessions` the messages stored for each session; a turn stores its question and its answer (`TurnStores`, `TurnEnds`), other surfaces talk and clear (`OthersTalk`). `kept` and `loaded` are history variables: the draft, and what was on the screen when the chat was opened |

How they are composed. `RunDispatcher` instantiates `LeaseTable` for its lock rows;
`WorkflowLocks` implements the same `LeaseTable` with clocks, which is why the
dispatcher's model needs no clock: `HeartbeatsKeepUp` says whether a lease can
lapse under a live heartbeat thread, and `WorkflowLocks` says when that happens.
`StepExecution` opens the stage `running` of a worker. `RunDispatcher` implements
`JobServer`. `HistoryIngest` is what one lock key is for: it has a single compactor
because of `MutualExclusion`, and `MCWorkflowLocks` shows both; `SourceIngest` has a
single run for the same reason. `MCRestart` puts steps and triggers under one stop of the service.
`SessionTurns` and `TurnLoop` cut one function in two: the first has several turns
and leaves a round as one call with one result, the second has the round and lets
other turns change the row as they please (`Elsewhere`, `Clear`). `ToolResults`
opens a tool's return in `TurnLoop`, `ToolCalls` and `FileTools` what happens
before it, `LlmClient` the model's answer. `MCEgoPulse` puts the components of
EgoPulse into one run; it EXTENDS the modules there are theorems about and
instantiates the others. `MCRestart` and `MCWorkflowLocks` extend theirs likewise.

Operators named `X_Something` are mutants: `X` with a plausible bug, used to show
that a property notices it. They are not part of any specification.

## Runs

| run | instance | what it shows |
|---|---|---|
| `locks` | scene "locks": 3 leases on one key, lease 3, beat every 1, delay 1, clock to 6; "history": 2 runs of the extension, clock to 4 with a month's end after 1, batches of 2, 2 posts each, 1 failure or restart, 1 maintenance run; "sources": each of the three, 2 repositories, 3 instants in 2 months, 3 items, 2 per reading, a window of 1, 1 failure | two runs execute at once only when one of them was late; refinement of `LeaseTable`; visits are saved, compacted and counted once; items the cursor has passed are saved |
| `queue_safe` | 3 runs (two of one key), 2 slots, 1 restart, every call may raise | slots, exclusion, leases kept, results kept, refinement of `JobServer` |
| `queue_live` | 2 runs of one key (the first may never end), 1 of an unknown workflow, 2 slots, 1 restart | liveness of the queue and of a pass; no stranded row |
| `queue_cancel` | as `queue_safe`, no faults | **violated**: a cancelled run leaves CANCELED again |
| `restart` | scene "faults": 3 steps, 2 attempts, both executors, 2 restarts, every call may raise; "calm": the same without repository faults, 1 restart, fair; "cron": 2 schedules (slots 2 and 3 apart), clock to 7, 2 restarts, slow syncs | success is complete, results final, no late work, restarts converge; every run ends (calm); no slot of a coalescing workflow is lost (cron) |
| `steps_stale` | as scene "faults" | **violated**: a finished run with a step in status running |
| `schedule_api` | a cron and an interval trigger of one workflow, 2 API threads, no grace, clock to 3, 1 restart | jobs of enabled workflows survive overlapping syncs, a restart heals the rest |
| `schedule_cli` | 1 CLI process | **violated**: a workflow enabled from the CLI has no job in the service |
| `session_turns` | 2 turns of 2 tool rounds, 1 `/compact`, 1 `/new`, crashes, threshold 2, keep 1 | snapshot and history agree, nothing repeated or out of order, the question is asked |
| `session_new` | 1 turn, `/new` typed on Discord | **violated**: the session is as it was |
| `egopulse` | the scenes below | the properties of the other EgoPulse components |
| `setup_tokens` | a file with one provider and the page's token, 1 command, the wizard | **violated**: saving in the wizard writes the file without the token |

The run `egopulse` shows one component per scene; the others keep still in their
first state, so that the state space is the sum of the parts and not their product.
The interfaces between them are nondeterministic inputs of the component on the
stage (what a model answers, what a client sends, what a tool prints), so that a
scene allows at least what the neighbour can do.

| scene | instance | properties |
|---|---|---|
| page | 2 runs of up to 3 events, a page that loses its stream once, history and channel of 2 | `PageSeesInOrder`, `StreamEndsWithTheEnd` |
| socket, places | 2 runs on one socket; 2 sockets for 1 place | `SocketsHold` |
| sessions | 7 keys with none, one or two prefixes, by name and by chat:id; 4 chats | `ListedSessionsOpen` |
| files | 11 contents with every kind of line end, a mark, wide characters, long lines; 2 edits; pages of 2 lines or 4 bytes | `FilesAreFaithful` |
| tools | 1 call, lines of 3 sizes (one of them beyond what grep reads), 5 printed lines, tail of 2 lines or 5 bytes, 12 names | `ToolResultsAreHonest` |
| llm | 8 streams cut anywhere, 22 texts with raw calls, tags around them and blanks, 3 conversations | `AnswersAreWhole` |
| mcp | 2 servers, 4 files each of 4 contents, colliding names | `ServersAreReached` |
| commands, setup | 2 commands, or wizard and 1 command; file with 2 providers; environment with and without tokens; 2 starts | `EnvTokensStayOut`, `AnswersComeTrue` |
| service | 2 channels, 2 executables, 2 configuration files, 2 commands, signals or reboots | `InstallTakesEffect`, `FailureIsNoticed` |
| messages, send | 2 messages from every kind of origin; limit of 3 bytes, every text of up to 5 characters | `RepliesArriveWhole` |
| tui | 2 inputs of up to 2 characters (longer than one only those that begin with "/"), history of 2, 1 session with or without a question of others | `NothingTypedIsLost` |
| turns | 2 turns of 2 rounds with up to 2 calls, 2 call ids, 1 change from elsewhere | `TurnKeepsItsResults` |
| state | 2 processes, 2 images | `CrashLeavesFilesUsable` |
| results | every output of up to 5 tokens, one secret, budget 4 | `OutputsFit` |
| prompts | 3 directories (the user's, elsewhere in the workspace, built in), 3 contents, 2 edits, catalogue of 1 | `UserSkillsComeFirst` |

Bounds. Rows of different lock keys never meet in the lock manager, and three
clients of one key contain a holder, one who takes over and one who comes late.
Two runs of one key and one of another, with two slots, contain every relation
between two runs and fill the slots. Three steps give a first, a middle and a last
one; two attempts a first and a last. Two schedules with different periods come due
apart and together; seven clock values contain a slot of both. Of one address up to
three visits come over two months, which is more than a batch holds; two runs of the
extension follow each other or overlap, and one failure hits any step of either, of a
request or of a compaction. Three items over two months are more than one reading
gives, lie in both repositories, come before and after the lists of a run and in two
saves of which one may fail; three instants are more than the window. Two turns of two
rounds conflict at every phase and twice in a row (the other turn's question and
first call), and exceed the compaction threshold on either side of a conflict;
conflicts of three turns are conflicts with the last writer. In WebStreams a run is
one event longer than history and channel, so that replays are cut and receivers
lag, and it is also exactly as long, where nothing may be lost; a page that comes
back once meets the end of the run before, between and after. Limits of texts
(bytes of a message, lines of a page, the budget of a result) are a few characters,
and texts go beyond them by one and by two, with what changes a cut (newline, wide
character, blank, key) at every place. The wizard meets one command, two commands
meet each other: the lock of the file orders writers, and what goes wrong goes wrong
between a reader's read and write and one writer. Two channels give one that ends
and one that goes on. Two ids of calls give a new one and one used again. The
constants named Max... that have no counterpart in the code (clock, restarts, `/new`,
commands, deltas, drops, edits, turns, printed lines, sends) cut the model off and
nothing else.

Fairness. The dispatcher and worker threads are never starved (threads of one
process); a worker's run ends because every step has a timeout and the parent
terminates the child (`StepExecution` shows it); a lease nobody renews runs out; a
service that is down is started again (`Restart=always` in the systemd unit of
`docs/50.deploy/backend.md`). Crashes, cancels, enqueues and faults are never fair.
`HungSpec` takes fairness away from one worker. In `Host` the supervisor wakes every
two seconds and waits ten for a task (`Supervise`), and nothing else is fair:
neither a task that was told to stop nor a restart. In `ToolResults` the steps of
the one loop are taken while they can be: the question is whether the loop ends.

## Findings

The runs marked violated are recorded under `findings`. Reading the code for the
models showed more, which no run repeats:

* `_heartbeat_loop` swallows a failing heartbeat and `heartbeat()` does not notice
  that it updated no row, so a worker whose lease lapsed executes beside its
  successor (`MutualExclusion` is stated with `late` for that reason).
* `queued_at` is read before the mutex is waited for (`run_repository.py:59`, `:144`), so
  a run whose row is written later may stand before one that waits already
  (`EnqueueReads`, `RequeueReads`).
* for a run of an unknown workflow `_dispatch_once_in_background` returns `True`
  instead of an outcome; the caller raises `AttributeError` and the pass ends
  (`FailUnknown`).
* two overlapping `sync_jobs()` can end in `JobLookupError` with the jobs half
  removed (`AbortSync`, `OverlapsRegister`); a fire that asks for its job while a
  sync has it removed writes `next_run_at = NULL` over the new value.
* an interval trigger starts its interval anew at every sync and restart; coalescing
  is per trigger, not per workflow.
* after a crash between a step's failure and `_skip_remaining_steps`, later steps
  have no row. `WorkflowDefinition.timeout_seconds` is never enforced, and the
  document's transition RUNNING -> CANCELED does not exist.
* the diagram "StepRun Status" (`docs/20.egograph/pipelines/architecture.md:340-351`)
  disagrees with the code in two edges. `RUNNING --> SKIPPED: prev step failed` (:347):
  the row of a skipped step is inserted as skipped and was never queued or running
  (`run_dispatcher.py:360-368`). `FAILED --> RUNNING: retry` (:348): a retry inserts a
  row of its own with the next `attempt_no` (:286-295), a failed row stays failed.
  `StepResultsAreKept` states the rows' moves as the code makes them (`RowEdges`).
* a run of the extension that was cut short after a batch, or met another one, is
  followed by a run that cuts its batches elsewhere. Page views are made per batch and
  named by their start and end, so the rows overlap and a visit counts twice, where the
  extension's README (149-152) promises idempotent retries and no duplicates after
  partial failures (`cut` in `VisitsCountOnce`).
* `retry_run` copies no `result_summary`, so a retried compaction of an ingest has no
  months and succeeds with nothing done (`service.py:149`); the month waits for the
  maintenance workflow, which sees only this month and the last (`stale`).
* a visit made in the millisecond in which a run began, after the history was read, is
  never sent: the next run asks for later ones (`Collect` takes the history to be read
  in a later millisecond).
* GitHub has one cursor for all repositories, the newest time any list has shown
  (`github/ingest_pipeline.py:128`). What comes to a list after the run has read it is
  passed when a list read later shows something newer, and so is a commit made before,
  and pushed after, what the cursor has seen (`missed`).
* a failed save of pull requests is counted and does not hold the cursor back
  (`github/ingest_pipeline.py:193-199`, `SavePullRequests`), while
  `docs/99.archive/done_requirements/github_worklog_dwh.md:189` lets the cursor advance
  only when everything succeeded; the next reading starts behind them unless their
  last change is the newest one.
* more than 50 plays, or 1000 watches, between two runs: the older ones are passed. A
  YouTube account that was not read for 30 days loses what is older.
* YouTube is read from the newest watch on, inclusive, and nothing removes doubles
  from its event files: that watch is saved again by each run (`again`; the property
  speaks of GitHub only).
* `/compact` saves with no look at `updated_at`: a reply stored while it awaits the
  model is overwritten, and a session cleared meanwhile is back (`SaveCompacted`).
  `SnapshotMatchesLog` claims nothing after it. It also drops the last message if
  that is the assistant's.
* after a conflict a turn keeps only its newest message: tool results that were not
  persisted are dropped and the next request holds a call without a result
  (`RebasePhase`, `Rebased`). A turn that fails after its call leaves the same in the
  snapshot, and the cut of a compaction can part a call from its result. The reverse,
  a result without its call, does not happen (`ResultsFollowTheirCall`).
* `/new` deletes in two commits; after a crash in between, the next turn starts from
  the history that was to be deleted (`CrashInNew`, `Recent`).
* the history is ordered by timestamps taken before a compaction is awaited, so it
  may order two questions differently from the snapshot.
* the place of a socket whose upgrade fails is never given back (`UpgradeOutcome`).
* a read with a limit that begins at a line too long to show skips the lines behind
  it, and a fuzzy edit may take characters with it that the request does not name
  (`tools/files.rs`, `tools/text.rs`: `ReadsTile`, `EditsAreExact` say what is
  excluded).
* `find` asks fd for one result more than its limit and then removes refused ones:
  an answer may be short and say nothing (`CutIsKnown` names it).
* `grep` stops reading rg at 100 KB (`tools/search.rs:247-269`), then cuts lines to 500
  characters. When the cut lines are at most `limit` and come to less than 50 KB, the
  answer says "Some lines truncated" and not that matches behind the stop are missing,
  where `docs/30.egopulse/tools.md:188-190` promises a notice when the results are cut
  (`CutIsKnown`; the scene "tools" has it: one line longer than the reader's bytes and
  one behind it).
* the terminal takes the question of every failed turn off the screen, where a comment
  says only of those that were not stored (`channels/tui.rs:507`). Where the turn failed
  with its question stored, opening the chat again shows it, unanswered, and sending it
  again stores it twice (`TurnStores`, `Poll`). `/new` clears what is stored and leaves
  the screen (`EnterCommand`).
* a chunk of blanks only is refused by Discord and the reply ends there.
* `egopulse update` restarts the unit's executable, the path of the process that
  installed (`gateway.rs:332`), and the script puts the new binary where it finds a
  directory (`scripts/install-egopulse.sh:94-108`): where the two differ the update
  succeeds and the old binary goes on (`Replace`; `InstallTakesEffect` does not claim it).
* an install that broke off once the unit's file was there is taken up by the next as
  an update of one: the service is restarted and not enabled, so it does not come back
  after a reboot (`already_installed`, `gateway.rs:353`; `WriteUnit`).
* when an answer has a raw call and behind it one without an end, the text behind the
  first comes twice in what is kept of the answer (`strip_raw_tool_use_text` appends
  the rest once more after its `break`, `responses.rs:311`; `Stripped`).
* a tag of MiniMax (`<invoke>`) inside an argument of a call written as text is a space
  in the call that is run (`strip_minimax_tool_wrappers`, `responses.rs:191-198`;
  `Unwrapped`, named by `RescueIsWhole`).
* a streamed answer is passed on to the channel as it comes and kept trimmed: blanks
  passed on at its ends are not in the session (`openai.rs:225`; `StreamResult`).
* after `/provider <name>` in a channel's scope the model is the global default model
  where one is set, not the provider's default that `commands.md` promises (`Resolve`).
* skills are not looked for in `skills/` when `workspace/skills` does not exist
  (`discover_skill_dirs` returns before), which is so after a fresh installation:
  no built-in skill is offered then (`Discovered`). And `load_skill_checked` scans and
  then reads the file once more: when it was replaced in between, what stands there now
  is given out under the name that was asked for (`UserSkillsComeFirst` says only that
  the directory was changed).
* an image file that a crash left half written is taken for the image ever after
  (`torn`).
* a service that outlived a failed `disable` at uninstall, or was started again after one
  whose `daemon-reload` failed, is found running by the next install, which leaves it
  (`orphan`).

## Proofs

All theorems hold for every value of the constants that satisfies the modules'
assumptions.

* `PipelineProofs`, locks. `IInv` adds to the type invariant that readings lie in
  the past, that a row names a lease that was acquired on this key, that a beat
  only extends, and `Deadlines`: a client that is not late holds a row that
  outlasts its next deadline. `MutualExclusion` follows because one row cannot
  name two leases. The assumption is `LeaseCoversHeartbeat`: a heartbeat period
  and two call delays fit into a lease (30 s against 300 s in `config.py`).
  Exclusion alone is not inductive: it says nothing of how long a row lives.
  `LiveRowIsSafe`, `LeaseOnlyExtended` and the refinement of `LeaseTable` need no
  assumption on timing.
* `PipelineProofs`, browser history: the whole of `VisitsArrive`, in four layers that
  make up `HistoryInv`. `SyncInv`: what a run has yet to post is at least what is not
  saved of the time it asks for (`Knows`), a request has saved the rows of every month
  it is done with, and the request a run waits for is its last and holds its batch; from
  it `CursorIsSafe`. The cursor alone is not inductive: it moves on the word of a run.
  `PagesAreWhole`: a row is an unbroken stretch of visits of one address, so that
  merging rows by address and distance loses none and never tells of a visit between
  the two ends that is not in it. `FilesAreRead`: a compacted file holds saved rows
  only, and a compaction that is about to write has read all that the file holds.
  `PagesAreApart`: while no run was cut short, one run at a time is at work, it began
  where the rows end, and no two rows share a visit. That rows lose no visit of their
  batch (`RowsCover`) rests on the least and the greatest of bounded sets of naturals.
* `PipelineProofs`, other sources: `ItemsArrive`, for any repositories, items, months,
  limits and failures. `SInv`: an item before the instant a run asks for is saved, in
  the run's hands or named as passed (`BelowIsKnown`); while no repository and no month
  has failed so is every item of a list the run has read (`ReadIsKnown`) and, of a
  reading with a limit, every one up to its newest (`FetchedIsKnown`); at the end a
  GitHub run has read every list. The property alone is not inductive: where a run moves
  the cursor to is decided many steps before, and items come in between.
* `RunDispatcherProofs`. `IInv`: the run in the dispatcher's hand has no worker,
  attended runs have the status their stage says, a process that is down has no
  threads, slots (counted with the run in hand), the lock of each kept-alive run
  names it and is live, and running rows are owned. From it type correctness,
  `SlotBound`, `OneWorkerPerLockKey`, `WorkersHoldTheirLock`, `RunningIsOwned`,
  `SettledIsKept` and the refinement of `JobServer`.
  `PassesGetThrough` is what `PassTerminates` needs beside fairness: without repository
  faults the runs a pass may still take up never grow in number, and each return to the
  queue has let one go or added one to those refused, for a run refused its lock is not
  leased again in that pass (`HandIsNew`). `QueueIsFair`: from the moment a run's caller
  has read the clock nobody gets ahead of it, and whoever is leased before it while it
  waits unblocked has read the clock earlier (`NobodyOvertakes`); it rests on
  `LineIsOrdered`: of two runs whose times are read, written or not, one is ahead.
* `RestartProofs`, steps. `IInv`: which row is open at which program point, rows
  past the cursor are untouched, the parent waits for its child, the run's status
  at each point, and the shape of the rows. From it the properties of
  scene "faults" and `SettledRunHasNoRunningStep` without faults.
* `RestartProofs`, triggers. Type correctness for any callers of `sync_jobs()`.
  `SlotIsRemembered` and `RecordIsNotAhead` under `Alone` (no API thread, no CLI
  process: the main thread is the only caller), which is also the instance of the scene
  "cron"; with other callers they do not hold. `TriggerInv` says which actor may be where
  (`Phases`), that a job is never before its record and a firing is over before its job
  is due again (`JobFollowsRecord`), and that job, record and debt of a cron schedule
  lie on its grid in the order record, job or debt, next slot (`RecordCoversDebt`).
  `SlotIsRemembered` alone is not inductive: a fire that is about to write
  `job.next_run_time` must know that the job does not lie past what is owed. The lemmas
  on `FirstSlot` and `SlotAfter` say that the next slot is the least point of the grid
  after an instant. `OverlapsRegister` and `RestartHeals` hold for any number of API
  threads under `WithinService` (no CLI process, whose changes the service does not see:
  run `schedule_cli`), which is the instance of `schedule_api`. What makes overlapping
  calls harmless is `JobsAreComing`: a trigger of an enabled workflow without a job is
  still ahead of some call, on its way to that trigger. A start is right because its
  one caller leaves behind it, at each trigger it has passed, a job if and only if the
  workflow is enabled (`StartProceeds`).
* `SessionTurnsProofs`. For any number of turns, rounds, commands and `/new`, any
  thresholds, and conflicts, compactions and crashes at every point: the whole of
  `SnapshotTellsTheLog` and `QuestionIsAsked`. `IInv` rests on four ideas. A turn has
  said its first `Reach` phases and no other, and whatever is kept of it anywhere (row,
  history, another turn's messages) is among them (`PhasesAreOwn`): why nothing
  is repeated when a retry appends a phase. Every list of messages has each turn's
  phases in order (`AllInOrder`), and so has the history, whose timestamps differ and
  rise with the phases of a turn (`LogInOrder`): why the history may stand in for a
  missing row. A turn whose version is the session's, the one that would be let write,
  holds what the session tells and what it is about to say (`TurnsInStep`): why storing
  adds one phase to both and loses none. A stored question stays, unless it is cleared or
  cut (`QuestionsStay`). The two properties alone say nothing of what a turn holds while
  it waits. The lemmas say what appending, merging neighbours, summarising, cutting and
  reading the history do to what is told and to its order; that merging keeps both is
  shown with the least number of a group, not by induction over the messages.
* `AgentLoopProofs`, turns: `TurnKeepsItsResults`. For any ids of calls, any number of rounds,
  questions and changes of the session by others. `IInv`: in every list of messages a
  result follows its call with only results between; while calls are left to run, some
  message holds all of them and only results came since (`Awaits`); the message about to
  be stored is the last one and holds the calls to run; results are outputs and their
  rows say so, while the row of the running call is still pending; no correction is in
  the turn's messages, the session or the phase. `RowsTellTheResult` needs the pending
  row: it is why completing it cannot contradict an older result with the same id.
* `AgentLoopProofs`, tools: `ToolResultsAreHonest`, for any calls, programs, limits and
  timeouts. `ToolInv`: the file with the whole output is there until a result does
  without it (`FileKept`); a killed group gets no process any more, for its call has
  returned (`KilledIsGone`); and a grep that has stopped reading has killed rg and holds
  more lines or bytes than its answer may show (`ReadEnough`), so that the notice of the
  cut is sure to come unless lines were cut to make it fit. `CutsAreTold` alone is not inductive: that the reader stops is one
  step and the notice another. Without a notice a listing shows all it was given
  (`ListingTells`); for the bytes it takes that a sum of sizes is a number, which is
  induction over the lines (`SumIsNumber`). `RefusedByBoth` holds for any path: every
  name that `check_path` refuses is refused by `check_command_paths` as well. The
  assumptions (`ToolConstants`): limits and sizes are naturals, paths are texts.
* `AgentLoopProofs`, answers: `AnswersAreWhole`, for any streams and texts. `LlmInv`: of a
  stream that goes on, some beginning has been seen (`Seen`); the parser is what it would
  be had that come in one piece, no end mark was in it, and what was passed on is what
  counts of its events. That an answer is right at its end is not inductive without it.
  It rests on what the parser and `Deltas` make of two pieces, one behind the other
  (`PushedTwo`, `PushedLater`, `DeltasTwo`, `DeltasStopAtDone`), shown by induction over
  the pieces (`StepByStep`). A text of which every block has an end keeps none
  (`StrippedHasNone`), and only calls are rescued (`RawCallsAreCalls`), from the text
  without its tags, and trimming takes nothing else away (`TrimIs`). The assumption
  (`LlmConstants`): what a provider sends are texts.
* `AgentLoopProofs`, replies: `RepliesArriveWhole`, for any texts and any number of
  handlers. `ChannelInv` is about each handler and the chat (`Knows`): nothing is there
  before it sends; elsewhere than on Telegram one chunk less stands there than the number
  of the next; on Telegram no later chunk stands there, and the next itself at most as
  often as it was tried. Order alone is not inductive: a post that failed may stand in the
  chat, and only what the handler does next (stop, or try once more) keeps a third copy
  away. That the pieces make up the text is induction over where a piece begins, from the
  end of the text (`SplitIsReply`): a cut always advances, for a character fits
  (`ChunkFits`, `PieceFits`), which is what the assumption `ChannelConstants` says (the
  code: 2000 and 4096 bytes, a character takes at most 4).
* `TextProofs`, files: `FilesAreFaithful`, for any texts, limits, number of edits and
  inputs. `FileInv`: who pages through a file has been shown its lines up to the offset
  the last notice named, each once and in order (`Tiles`), or was told which line is too
  long; and the last edit is exact. That pages tile the file is not said by any single
  page: it needs that a notice names the line after the last one shown (`ResultGoesOn`,
  for a page of any length and a limit of bytes that cuts anywhere). An edit is exact in
  three steps. Old texts that are found once each are matched where they are, and the
  check for overlaps leaves them apart (`ExactAreLaid`, `LaidAreApart`). Replacing them
  from the last to the first, as `apply_edits_to_normalized_content` does, gives the
  text with each replaced in its place, however much longer or shorter the new ones are
  (`AppliedExact`): what is before a match has not moved when its turn comes. Restoring the line
  ends gives a text that reads the same and ends every line as the first one ended
  (`RestoredReads`). Byte offsets are counted over characters of any width; that two
  texts cannot meet in the middle of a character is `BytesBetween`. The assumption
  (`FileConstants`): a page has at least a line and texts are sequences of characters.
  Neither the property nor the theorem is about an edit whose old text is found only
  after quotes, dashes and blanks are made alike.
* `TextProofs`, results: `ResultsAreRight` and `ResultsGoOn`, the two halves of
  `OutputsFit` that are not about fairness: what is done is masked and fits, and every
  turn of a loop leaves less to look at. `ResultInv`: secrets the loop has passed are
  gone and stay gone, and no key starts before the place the search goes on from. Both
  are about what comes to stand side by side. Masking puts a replacement between what it
  joins, and what is found in the masked text without a replacement in it was there
  before, where the secret is not (`MaskedKeeps`, by induction from the end of the text);
  the same holds of replacing a key and of the cut before the dots (`CutOutHasNone`).
  What is said of keys ends where the search has
  come to, and a replacement before it must not make a key of what was none
  (`KeyIsCutOut`). The assumption (`ResultConstants`): no configured secret
  contains a replacement or the dots. The code does not check it; a secret that reads
  like a part of `[REDACTED:...]` would be found in its own replacement.
* `SurfaceProofs`, streams. For histories and channels of any size, runs of any length and
  any number of pages and sockets. `IInv`: what a log looks like at each stage of its
  run (`LogShape`), that a reader's replay is consecutive and ends where its receiver
  begins (`Cursors`), that what a page saw is in order, lies before its position and,
  while the run fits, ends right before it (`SeenInOrder`, `SeenWithoutGaps`), where
  the end of a run is for a reader (`EndIsSeen`), which run a socket's last frame
  tells of (`SocketLink`), and that places are counted. `PageSeesInOrder` alone is not
  inductive: the next id sent may repeat or skip one unless replay and receiver are
  known to meet. Log and cursors are linked by `Grows` (a log is only appended to),
  so a reader that does nothing keeps its place whatever the runs do. From it
  `PageSeesInOrder`, `StreamEndsWithTheEnd` and `SocketsHold`.
* `SurfaceProofs`, sessions: `ListedSessionsOpen`, for any names, also such as begin with a
  channel's name or look like a key. `RequestInv`: no two chats have one channel and
  external id, a chat's title is its external id without the channel, and what has
  messages was made with its channel in front. The assumption (`RequestConstants`): what
  clients send are texts.
* `SurfaceProofs`, terminal: `NothingTypedIsLost`, for any keys and any number of
  messages, of histories and of sessions, and whatever other surfaces store or clear. `TuiInv`: in the walk through
  the history the draft is what was typed when it began (`DraftIsKept`); the turn that
  runs is the last one, on the screen, and its prompt the last of the history
  (`PendingIsLast`); as long as nothing but turns was sent, the last of the history is
  the last turn's prompt (`LastIsRemembered`); and the screen is what was loaded and
  then inputs that are answered, but the one that is waited for (`ScreenIsAnswered`):
  the question a failed turn takes away is behind what was loaded (`Begins`). That a prompt can be
  recalled alone is not inductive: Enter forgets the oldest entry when the history is
  full, and the end of a turn must find its message. The assumption (`TuiConstants`): the
  history holds at least one entry (the code: 50).
* `HostProofs`, MCP: `ServersAreReached`. `McpInv`: each server's entry is that of the
  last readable file that defines it among those read so far; nothing is connected
  before all are read, no server twice or beside its failure, and the adapters are those
  of the connected ones. The assumption (`McpConstants`): a server offers a finite list
  of tools.
* `HostProofs`, configuration: `EnvTokensStayOut` and `AnswersComeTrue`. `ConfigInv`:
  every token in the file, and every token a configuration in hand would write back
  (its `file` field), was in the first file or typed by somebody; what a command was
  asked for stands in the configuration it is about to write. The lemmas follow the
  way through `Saved` and `Loaded`. The assumptions (`ConfigConstants`) are the shape of
  a file the loader accepts and that a provider or model that is set has a name.
* `HostProofs`, prompts: `UserSkillsComeFirst`, with edits at any moment. `PromptInv`: what
  a scan found (for the prompt, for a skill) still holds of every directory that was not
  changed since: nobody who comes before the one that was found offers the name, and it
  offers the name itself (`Looked`). A scan says so of the files of its moment
  (`ScanFinds`) and an edit adds what it changes (`ChangeKeeps`). That a prompt and an
  activation agree on the directory follows, for of two directories one comes before the
  other (`LooksAgree`). The assumption (`PromptConstants`): the directories are those of
  `discover_skill_dirs`.
* `HostProofs`, gateway: `InstallTakesEffect`, for any executables and configurations
  (`HostConstants`: no unit and a cut one are not units that say what to run). `HostInv` runs along what a command has
  yet to do: at each remaining list of steps which unit is written, which is loaded, and
  that a start ahead means the service is not wanted now (`InstallGoesOn`,
  `UpdateGoesOn`); who runs and is not wanted has a command at work that waits for its
  end (`StopsAreKept`); who is wanted without a unit is an orphan. The last part came
  out of the proof: `Start` was taken to find a unit, but where the `daemon-reload` of an
  uninstall failed (it is passed over), systemd still starts the service that was
  removed, and the next install leaves it running and reports success. That takes four
  commands and the scene gives two, so no run had met it; `orphan` covers it now.
  `FailuresGoOn` is what `FailureIsNoticed` needs beside fairness: a channel that has
  ended stays in sight of the supervisor until it closes the others, and each step of
  that closes one. `TaskInv`: only a process that watches or closes has channels.
* `HostProofs`, state files. For any number of processes and images, with a crash at any
  step. `StateInv`: the version is written last, and who is past it has the file and
  version 1 (`VersionIsLast`); an image's file is begun before a row or a snapshot
  refers to it, and a half file is being filled or torn (`ImagesAreBegun`). From it
  `WorkingHasTables`, `ReferencedImagesAreWhole` and `CrashLeavesFilesUsable`.

Where a proof needs a least number of some kind (a row of the history by rank, the
first message of a group, the ends of a page view), it takes it from the library's
`WFMin` over the naturals, which is a fact about sets and needs no operator parameter.
Where it needs induction, as for a sum over lines, it takes the least number at which
the claim would fail.

Only model-checked:

* liveness: `QueuedIsSettled`, `PassTerminates`, `CalmRunsSettle`, `FailureIsNoticed`,
  `OutputsFit`. The proof system has no rules for fairness and ENABLED. What they need
  beside it is proved for three of them (`PassesGetThrough`, `FailuresGoOn`,
  `ResultsGoOn` with `ResultsAreRight`); that the steps are then taken is left to TLC.
* what the findings' runs refute.

## Not modelled

* Of the modelled parts: log files, retry delays and result summaries;
  `last_scheduled_at` (display only); cron expressions (slots are multiples of a
  period); the join timeout of the heartbeat thread; grandchildren of a subprocess
  step; `dispatch_once`, which only tests call. In EgoPulse the text of messages and
  summaries (a summary is taken to tell of what it replaces), the archive of a
  compaction (written, never read), `sweep_unreferenced_images` (only a test calls
  it), drawing in the terminal, authentication and static files of the web server,
  the catalogue of models, the wizard's drawing, labels and limits of the
  configuration, argument parsing and the pattern languages of rg and fd.
* Of the browser history: the limit of the first sync (50000 visits) and the pages of a
  search (10000; the step from page to page skips visits of one instant), the options
  page, the raw payload and the device's state. A search is taken to find an address
  visited at the instant it ends at, and a stop of the service to end its children.
* Of the sources: raw copies, repository, video and channel master data (that they can
  fail a run is in the model), reviews and details of commits, the pages of a list (a
  list is read in one step), the elements of the YouTube page, and the monthly
  compaction of Spotify and GitHub, which is that of the browser history without its
  queue.
* The mirror: copies files one after the other and skips those of the same size.
* The backend: read-only queries through DuckDB; no state that changes.
* The android client: a program of its own beside the services, left out for its size.
* Errors, logging, deployment, scripts, documentation: no program state.

## Plan

1. done: the pipelines service, with its runs and proofs; EgoPulse, every component
   that keeps state; the browser history; the ingest of the other
   sources.
2. done: a theorem for every safety property the runs check, and for what the liveness
   properties need beside fairness where it says much (`PassesGetThrough`, `FailuresGoOn`,
   `ResultsGoOn`).
3. the monthly compaction of Spotify and GitHub, with its targets (this month and the
   last).
