---------------------------- MODULE SourceIngest -----------------------------
(***************************************************************************)
(* The runs that bring items from a service into the data lake up to a     *)
(* cursor: Spotify plays (sources/spotify/ingest_pipeline.py), commits and *)
(* pull requests of GitHub (sources/github/ingest_pipeline.py), YouTube    *)
(* watches (sources/google_activity/pipeline.py, one account: accounts     *)
(* share nothing). A behaviour shows one source; its runs have one lock    *)
(* key and so are never two at a time (MutualExclusion of WorkflowLocks).  *)
(*                                                                         *)
(* An item is where it is found, of which kind and when; a pull request    *)
(* item is one state of the one pull request of a repository. Raw copies   *)
(* and master data, which the cursor depends on only by failing, are a     *)
(* failure of the run; a commit without its details is still a commit.     *)
(***************************************************************************)
EXTENDS Naturals, FiniteSets

CONSTANTS
  Repos,        \* the user's repositories on GitHub
  RecentLimit,  \* RECENTLY_PLAYED_LIMIT
  MaxItems,     \* max_items of a YouTube run
  Lookback,     \* backfill_days, and the 30 days of a YouTube run
  MonthOf,      \* the partition an instant belongs to
  MaxNow, MaxMade, MaxFaults  \* bound the model: instants, items, failures

ASSUME IngestConstants ==
  /\ {RecentLimit, MaxItems, Lookback, MaxNow, MaxMade, MaxFaults} \subseteq Nat
  /\ DOMAIN MonthOf = 1 .. MaxNow

VARIABLES
  source,   \* "spotify", "github" or "google"
  now,
  made,     \* the items the service has come to know
  reached,  \* the cursor in the ingest state, 0 if there is none
  ingest,   \* the run
  saved,    \* the items in event files
  again,    \* those that were put into a second one
  faults,
  missed    \* items passed by the cursor in one of the ways named below

ingestVars == <<source, now, made, reached, ingest, saved, again, faults, missed>>

Places == IF source = "github" THEN Repos ELSE {source}
Kinds  == IF source = "github" THEN {"pr", "commit"} ELSE {"item"}

NoIngest == [at |-> "idle", since |-> 0, left |-> {}, repo |-> "none", prs |-> {}, hand |-> {},
             latest |-> 0, read |-> {}, passed |-> {}, failed |-> FALSE]

IngestInit ==
  /\ source \in {"spotify", "github", "google"}
  /\ now = 1 /\ made = {} /\ reached = 0
  /\ ingest = NoIngest /\ saved = {} /\ again = {}
  /\ faults = 0 /\ missed = {}

Fault == faults < MaxFaults /\ faults' = faults + 1
Later(a, b) == IF a < b THEN b ELSE a
LatestOf(items) == IF items = {} THEN 0
                   ELSE CHOOSE t \in {e.time : e \in items} : \A e \in items : e.time <= t

-------------------------------------------------------------------------------
(* The service.                                                            *)

(* Spotify gives plays after an instant, GitHub and the filter of the      *)
(* YouTube page what is not before it.                                     *)
IsAsked(e, since) == IF source = "spotify" THEN since < e.time ELSE since <= e.time
Asked(since) == {e \in made : IsAsked(e, since)}

(* A pull request is told of in its last state only.                       *)
Offered == {e \in made : e.kind = "pr" =>
                            ~ \E f \in made : f.place = e.place /\ f.kind = "pr" /\ e.time < f.time}

TimeGoesOn ==
  /\ now < MaxNow /\ now' = now + 1
  /\ UNCHANGED <<source, made, reached, ingest, saved, again, faults, missed>>

(* A commit has the time it was made at and comes with a push. What comes  *)
(* too late for the run is passed if the run moves the cursor beyond it.   *)
Happens ==
  /\ Cardinality(made) < MaxMade
  /\ \E e \in [place : Places, kind : Kinds, time : 1 .. now, name : {1, 2}] \ made :
       /\ e.kind = "commit" \/ e.time = now
       /\ e.kind # "item" => e.name = 1
       /\ source = "spotify" => \A f \in made : f.time < e.time
       /\ made' = made \cup {e}
       /\ ingest' = IF <<e.place, e.kind>> \in ingest.read \/ e.time < ingest.since
                    THEN [ingest EXCEPT !.passed = @ \cup {e}] ELSE ingest
       /\ missed' = IF e.kind = "commit" /\ e.time < reached THEN missed \cup {e} ELSE missed
  /\ UNCHANGED <<source, now, reached, saved, again, faults>>

-------------------------------------------------------------------------------
(* A run.                                                                  *)

Before(time) == IF time <= Lookback THEN 0 ELSE time - Lookback

(* _resolve_since_iso, _get_after_timestamp, and fetch_after of a YouTube  *)
(* run, which reads a state it cannot get as none.                         *)
Since(cursor) ==
  CASE source = "spotify" -> cursor
    [] source = "github" -> IF cursor = 0 THEN Before(now) ELSE cursor
    [] source = "google" -> Later(cursor, Before(now))

StartIngest ==
  /\ ingest = NoIngest
  /\ \E cursor \in {reached, 0} :
       /\ IF cursor = reached THEN UNCHANGED faults ELSE source = "google" /\ Fault
       /\ ingest' = [NoIngest EXCEPT !.at = "read", !.since = Since(cursor), !.left = Places,
                                     !.passed = Asked(cursor) \ Asked(Since(cursor))]
  /\ UNCHANGED <<source, now, made, reached, saved, again, missed>>

Limit == IF source = "spotify" THEN RecentLimit ELSE MaxItems

(* get_recently_played and collect_watch_history: the newest, up to a      *)
(* limit. Without any the run is over.                                     *)
ReadItems ==
  /\ ingest.at = "read" /\ source # "github"
  /\ \E told \in SUBSET Asked(ingest.since) :
       /\ Cardinality(told) <= Limit
       /\ Cardinality(told) = Limit \/ told = Asked(ingest.since)
       /\ \A e \in told, f \in Asked(ingest.since) \ told : f.time <= e.time
       /\ ingest' = IF told = {} THEN NoIngest
                    ELSE [ingest EXCEPT !.at = "save", !.hand = told, !.latest = LatestOf(told),
                                        !.passed = @ \cup (Asked(ingest.since) \ told)]
  /\ UNCHANGED <<source, now, made, reached, saved, again, faults, missed>>

ListOf(kind, repo) == {e \in Asked(ingest.since) \cap Offered : e.kind = kind /\ e.place = repo}

(* get_pull_requests; their times count for the cursor at once.            *)
ReadPullRequests(repo) ==
  /\ ingest.at = "read" /\ source = "github" /\ repo \in ingest.left
  /\ LET prs == ListOf("pr", repo) IN
     ingest' = [ingest EXCEPT !.at = "prs", !.left = @ \ {repo}, !.repo = repo, !.prs = prs,
                              !.latest = Later(@, LatestOf(prs)),
                              !.read = @ \cup {<<repo, "pr">>}]
  /\ UNCHANGED <<source, now, made, reached, saved, again, faults, missed>>

(* One object is put. It may be there although the put has failed.         *)
Put(items) == saved' = saved \cup items /\ again' = again \cup (items \cap saved)
PutFails(items) == items # {} /\ Fault /\ (Put(items) \/ UNCHANGED <<saved, again>>)

InMonth(items, m) == {e \in items : MonthOf[e.time] = m}

(* save_pr_events_parquet_with_stats leaves out what is saved already. If  *)
(* it fails, the records are counted, and the run goes on as before.       *)
SavePullRequests ==
  /\ ingest.at = "prs"
  /\ \/ /\ ingest.prs = {}
        /\ ingest' = [ingest EXCEPT !.at = "commits"]
        /\ UNCHANGED <<saved, again, faults>>
     \/ \E e \in ingest.prs :
          LET month == InMonth(ingest.prs, MonthOf[e.time])
              rest  == [ingest EXCEPT !.prs = @ \ month] IN
          \/ Put(month \ saved) /\ ingest' = rest /\ UNCHANGED faults
          \/ PutFails(month \ saved) /\ ingest' = [rest EXCEPT !.passed = @ \cup month]
  /\ UNCHANGED <<source, now, made, reached, missed>>

NextRepo(run) == [run EXCEPT !.at = IF run.left = {} THEN "save" ELSE "read"]

ReadCommits ==
  /\ ingest.at = "commits"
  /\ LET commits == ListOf("commit", ingest.repo) IN
     ingest' = NextRepo([ingest EXCEPT !.hand = @ \cup commits,
                                       !.latest = Later(@, LatestOf(commits)),
                                       !.read = @ \cup {<<ingest.repo, "commit">>}])
  /\ UNCHANGED <<source, now, made, reached, saved, again, faults, missed>>

(* A repository that raises is left where it is, for the others.           *)
RepoFails ==
  /\ Fault
  /\ ingest.at \in {"prs", "commits"}
  /\ ingest' = NextRepo([ingest EXCEPT !.prs = {}, !.failed = TRUE])
  /\ UNCHANGED <<source, now, made, reached, saved, again, missed>>

(* save_parquet, save_commits_parquet_with_stats: the months one after the *)
(* other, also after one of them has failed.                               *)
SaveItems ==
  /\ ingest.at = "save"
  /\ \/ /\ ingest.hand = {}
        /\ ingest' = [ingest EXCEPT !.at = "state"]
        /\ UNCHANGED <<saved, again, faults>>
     \/ \E e \in ingest.hand :
          LET month == InMonth(ingest.hand, MonthOf[e.time])
              new   == IF source = "github" THEN month \ saved ELSE month
              rest  == [ingest EXCEPT !.hand = @ \ month] IN
          \/ Put(new) /\ ingest' = rest /\ UNCHANGED faults
          \/ PutFails(new) /\ ingest' = [rest EXCEPT !.failed = TRUE]
  /\ UNCHANGED <<source, now, made, reached, missed>>

(* Mutant: the cursor moves although a month could not be saved.           *)
SaveState_Always ==
  /\ ingest.at = "state" /\ ingest' = NoIngest
  /\ reached' = IF ingest.latest = 0 THEN now ELSE ingest.latest
  /\ missed' = missed \cup {e \in ingest.passed : ~IsAsked(e, reached')}
  /\ UNCHANGED <<source, now, made, saved, again, faults>>

(* save_ingest_state, if all went well: the time of the newest item, and   *)
(* on GitHub, if there was none, of the clock.                             *)
SaveState ==
  /\ ingest.at = "state" /\ ingest' = NoIngest
  /\ IF ingest.failed THEN UNCHANGED <<reached, missed>>
     ELSE /\ reached' = IF ingest.latest = 0 THEN now ELSE ingest.latest
          /\ missed' = missed \cup {e \in ingest.passed : ~IsAsked(e, reached')}
  /\ UNCHANGED <<source, now, made, saved, again, faults>>

(* The service or the storage raises, master data cannot be completed, the *)
(* step is killed or the pipelines service stops.                          *)
IngestDies ==
  /\ Fault
  /\ ingest # NoIngest /\ ingest' = NoIngest
  /\ UNCHANGED <<source, now, made, reached, saved, again, missed>>

IngestNext ==
  \/ TimeGoesOn \/ Happens
  \/ StartIngest \/ ReadItems \/ SavePullRequests \/ ReadCommits
  \/ \E repo \in Repos : ReadPullRequests(repo)
  \/ RepoFails \/ SaveItems \/ SaveState \/ IngestDies

IngestSpec == IngestInit /\ [][IngestNext]_ingestVars

-------------------------------------------------------------------------------
(* Properties.                                                             *)

(* What no later run asks for has been saved, whatever failed in the runs  *)
(* so far and whichever months were saved when others were not. Passed are *)
(* only: on GitHub what came to a list after it was read by a run that     *)
(* moved the cursor beyond it, a commit pushed after a newer one was read, *)
(* pull requests whose save failed; plays and watches beyond the limit of  *)
(* one reading; what was older than the window of the reading.             *)
PassedItemsAreSaved ==
  \A e \in Offered : reached > 0 /\ ~IsAsked(e, reached) => e \in saved \cup missed

(* GitHub's items are put into event files once, also when a run that has  *)
(* saved a part of them is followed by another.                            *)
GitHubSavesOnce == source = "github" => again = {}

ItemsArrive == PassedItemsAreSaved /\ GitHubSavesOnce
===============================================================================
