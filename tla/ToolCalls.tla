------------------------------ MODULE ToolCalls -------------------------------
(***************************************************************************)
(* Tools of egopulse that run programs or list files: tools/shell.rs,      *)
(* tools/search.rs, the registry of tools/mod.rs, and the guards           *)
(* path_guard.rs and command_guard.rs that come before them. What a        *)
(* program prints is the sizes of its lines, what a search finds is        *)
(* entries, plain, long, or such that check_path refuses.                  *)
(***************************************************************************)
EXTENDS Naturals, Sequences, FiniteSets, SequencesExt, FiniteSetsExt

CONSTANTS
  Calls,              \* calls of tools, each is made once
  Sizes,              \* sizes of printed lines
  TailLines, TailBytes, \* DEFAULT_MAX_LINES, DEFAULT_MAX_BYTES
  LineLimit,          \* GREP_MAX_LINE_LENGTH
  Slack,              \* lines grep reads beyond its limit
  Limit,              \* of the results
  MaxPrinted,         \* bounds the model: lines a program prints
  Words, Commands     \* words: [abs, parts], of commands and paths; sequences of words

ASSUME ToolConstants ==
  /\ Sizes \subseteq Nat
  /\ {TailLines, TailBytes, LineLimit, Slack, Limit, MaxPrinted} \subseteq Nat
  /\ \A path \in Words : path \in [abs: BOOLEAN, parts: Seq(STRING)]

VARIABLES
  call,    \* per call: which tool, how far, and its result
  group,   \* per call: which processes of its group are alive
  printed, \* per call: the sizes of the lines printed so far
  reading, \* per call: lines grep has taken from the pipe, and whether it still reads
  temp     \* calls whose temporary file is on disk

toolVars == <<call, group, printed, reading, temp>>

NoResult == [is |-> "none", total |-> 0, shown |-> 0, told |-> FALSE, notices |-> {},
             hidden |-> FALSE, unread |-> FALSE]
Error == [NoResult EXCEPT !.is = "error"]

ToolInit ==
  /\ call = [c \in Calls |-> [tool |-> "none", at |-> "new", exit |-> "none", result |-> NoResult]]
  /\ group = [c \in Calls |-> {}]
  /\ printed = [c \in Calls |-> <<>>]
  /\ reading = [c \in Calls |-> [taken |-> 0, open |-> FALSE]]
  /\ temp = {}

-------------------------------------------------------------------------------
(* The guards. A name is made of lower case by Lower; names and what is    *)
(* blocked are those of path_guard.rs, one of each kind.                   *)

Lower(name) == CASE name = ".SSH" -> ".ssh" [] name = "ID_RSA" -> "id_rsa" [] OTHER -> name
BlockedDirs == {".ssh"}
BlockedSubpaths == {<<".config", "gcloud">>}
BlockedAbsolute == {<<"etc", "shadow">>}
IsBlockedFilename(name) == Lower(name) \in {"id_rsa", ".env"}
IsProcess(name) == name \in {"self", "1"}

(* normalize_path of an absolute path                                      *)
Normalized(parts) ==
  FoldLeft(LAMBDA done, part :
      CASE part = "." -> done
        [] part = ".." -> IF done = <<>> THEN done ELSE Front(done)
        [] OTHER -> Append(done, part), <<>>, parts)

Within(inner, parts) == \E i \in 1..(Len(parts) - Len(inner) + 1) : SubSeq(parts, i, i + Len(inner) - 1) = inner

(* check_path over is_blocked, of a path without symlinks; relative paths  *)
(* are looked at under a directory without blocked names.                  *)
CheckPath(path) ==
  LET parts == Normalized(path.parts) IN
  ~ \/ path.abs /\ parts \in BlockedAbsolute
    \/ path.abs /\ Len(parts) > 1 /\ parts[1] = "proc" /\ IsProcess(parts[2])
    \/ \E i \in DOMAIN parts : parts[i] \in BlockedDirs \/ IsBlockedFilename(parts[i])
    \/ \E sub \in BlockedSubpaths : Within(sub, parts)

(* check_command_paths, for every word of the command                      *)
CheckCommandPaths(words) ==
  \A w \in DOMAIN words :
    LET parts == [i \in DOMAIN words[w].parts |-> Lower(words[w].parts[i])]
        abs   == words[w].abs IN
    ~ \/ \E blocked \in BlockedAbsolute : abs /\ IsPrefix(blocked, parts)
      \/ \E i \in 2..Len(parts) : parts[i - 1] = "proc" /\ IsProcess(parts[i]) /\ (abs \/ i > 2)
      \/ \E i \in DOMAIN parts : IsBlockedFilename(parts[i])
      \/ \E i \in DOMAIN parts : parts[i] \in BlockedDirs
      \/ \E sub \in BlockedSubpaths : Within(sub, parts)

(* check_command of one segment: env and printenv as the command or inside *)
(* of a shell's -c or of eval, process files, set without an option.       *)
Word(name) == [abs |-> FALSE, parts |-> <<name>>]
CheckCommand(words) ==
  LET names == {Last(words[w].parts) : w \in DOMAIN words}
      first == words[1].parts IN
  ~ \/ words[1] = Word("env")
    \/ words[1] \in {Word("bash -c"), Word("eval")} /\ "env" \in names
    \/ \E w \in DOMAIN words : \E i \in 2..Len(words[w].parts) :
         words[w].parts[i - 1] = "proc" /\ IsProcess(words[w].parts[i])
    \/ words[1] = Word("set") /\ (Len(words) = 1 \/ words[2] # Word("-e"))

RefusedCommand(words) == ~CheckCommand(words) \/ ~CheckCommandPaths(words)

-------------------------------------------------------------------------------
(* What of an output fits.                                                 *)

(* the bytes of lines, and of the ends of lines between them               *)
Sum(sizes) ==
  LET upto[k \in 0..Len(sizes)] == IF k = 0 THEN 0 ELSE upto[k - 1] + sizes[k]
  IN upto[Len(sizes)]

Total(sizes) == IF sizes = <<>> THEN 0 ELSE Sum(sizes) + Len(sizes) - 1
LastLines(sizes, k) == SubSeq(sizes, Len(sizes) - k + 1, Len(sizes))

(* truncate_tail: the lines kept, the last one in part if it is too long   *)
Truncated(sizes) == Len(sizes) > TailLines \/ Total(sizes) > TailBytes
TailKept(sizes) ==
  Max({k \in 0..Min({Len(sizes), TailLines}) : Total(LastLines(sizes, k)) <= TailBytes})

Returned(c, result) == call' = [call EXCEPT ![c].at = "returned", ![c].result = result]

-------------------------------------------------------------------------------
(* ToolRegistry::execute: the tool of that name, or an error.              *)
Begin(c, tool) ==
  /\ call[c].at = "new"
  /\ call' = [call EXCEPT ![c].tool = tool, ![c].at = "begun"]
  /\ UNCHANGED <<group, printed, reading, temp>>

UnknownTool(c) ==
  /\ call[c].at = "new"
  /\ Returned(c, Error)
  /\ UNCHANGED <<group, printed, reading, temp>>

(* BashTool::execute up to the spawn; the shell opens the temporary file.  *)
SpawnBash(c) ==
  /\ call[c].tool = "bash" /\ call[c].at = "begun"
  /\ UNCHANGED <<printed, reading>>
  /\ \E command \in Commands, spawns \in BOOLEAN :
       IF RefusedCommand(command) \/ ~spawns \* no directory, no bash
       THEN Returned(c, Error) /\ UNCHANGED <<group, temp>>
       ELSE /\ call' = [call EXCEPT ![c].at = "running"]
            /\ group' = [group EXCEPT ![c] = {"child"}]
            /\ temp' = temp \cup {c}

(* GrepTool::execute up to the spawn, FindTool::execute likewise           *)
SpawnSearch(c) ==
  /\ call[c].tool \in {"grep", "find"} /\ call[c].at = "begun"
  /\ UNCHANGED <<printed, temp>>
  /\ \/ Returned(c, Error) /\ UNCHANGED <<group, reading>> \* a bad pattern, a refused path, no such program
     \/ /\ call' = [call EXCEPT ![c].at = "running"]
        /\ group' = [group EXCEPT ![c] = {"child"}]
        /\ reading' = [reading EXCEPT ![c].open = TRUE]

-------------------------------------------------------------------------------
(* The programs.                                                           *)

Emit(c) ==
  /\ group[c] # {}
  /\ Len(printed[c]) < MaxPrinted
  /\ \E size \in Sizes : printed' = [printed EXCEPT ![c] = Append(@, size)]
  /\ UNCHANGED <<call, group, reading, temp>>

Background(c) ==
  /\ call[c].tool = "bash" /\ "child" \in group[c]
  /\ group' = [group EXCEPT ![c] = @ \cup {"background"}]
  /\ UNCHANGED <<call, printed, reading, temp>>

(* rg and fd exit with success when nobody reads them any more.            *)
ProcessExits(c) ==
  /\ \/ /\ "child" \in group[c]
        /\ \E code \in {"success", "failure"} : call' = [call EXCEPT ![c].exit = code]
        /\ group' = [group EXCEPT ![c] = @ \ {"child"}]
     \/ /\ "background" \in group[c]
        /\ group' = [group EXCEPT ![c] = @ \ {"background"}]
        /\ UNCHANGED call
  /\ UNCHANGED <<printed, reading, temp>>

-------------------------------------------------------------------------------
(* bash.                                                                   *)

(* render_bash_output, bash_error_result: the temporary file stays only if *)
(* the result names it.                                                    *)
BashResult(c, is) ==
  [NoResult EXCEPT !.is = is, !.total = Len(printed[c]), !.told = Truncated(printed[c]),
     !.shown = IF Truncated(printed[c]) THEN TailKept(printed[c]) ELSE Len(printed[c])]

(* Mutant: the file is removed whether or not the result names it.         *)
Rendered_Removed(c, is) ==
  /\ Returned(c, BashResult(c, is))
  /\ temp' = temp \ {c}

Rendered(c, is) ==
  /\ Returned(c, BashResult(c, is))
  /\ temp' = IF Truncated(printed[c]) THEN temp ELSE temp \ {c}

(* The rest of BashTool::execute: the child has exited                     *)
FinishBash(c) ==
  /\ call[c].tool = "bash" /\ call[c].at = "running" /\ "child" \notin group[c]
  /\ \/ Rendered(c, IF call[c].exit = "success" THEN "success" ELSE "error")
     \/ Returned(c, Error) /\ UNCHANGED temp \* wait failed
  /\ UNCHANGED <<group, printed, reading>>

(* the timeout: kill_process_group, then what was printed so far           *)
TimeoutBash(c) ==
  /\ call[c].tool = "bash" /\ call[c].at = "running" /\ "child" \in group[c]
  /\ group' = [group EXCEPT ![c] = {}]
  /\ call' = [call EXCEPT ![c].at = "returned", ![c].exit = "killed", ![c].result = BashResult(c, "error")]
  /\ temp' = IF Truncated(printed[c]) THEN temp ELSE temp \ {c}
  /\ UNCHANGED <<printed, reading>>

-------------------------------------------------------------------------------
(* grep and find.                                                          *)

(* The task that reads rg's output: it stops, and closes the pipe, when it *)
(* has taken enough lines or bytes; then rg ends.                          *)
Enough(c, taken) ==
  \/ taken > Limit + Slack
  \/ Total(SubSeq(printed[c], 1, taken)) > 2 * TailBytes

TakeLine(c) ==
  /\ call[c].tool = "grep" /\ reading[c].open /\ reading[c].taken < Len(printed[c])
  /\ LET taken == reading[c].taken + 1 IN
     IF Enough(c, taken)
     THEN /\ reading' = [reading EXCEPT ![c] = [taken |-> taken, open |-> FALSE]]
          /\ group' = [group EXCEPT ![c] = {}]
          /\ call' = [call EXCEPT ![c].exit = IF group[c] = {} THEN @ ELSE "success"]
     ELSE /\ reading' = [reading EXCEPT ![c].taken = taken]
          /\ UNCHANGED <<group, call>>
  /\ UNCHANGED <<printed, temp>>

(* Of the entries found: cut to the limit and to the bytes of an answer,   *)
(* with a notice of every cut. FinishGrep's lines are cut as well.         *)
Listing(sizes, total) ==
  LET limited == SubSeq(sizes, 1, Min({Len(sizes), Limit}))
      fits    == Max({k \in 0..Len(limited) : Total(SubSeq(limited, 1, k)) <= TailBytes})
  IN [NoResult EXCEPT !.is = "success", !.total = total, !.shown = fits,
        !.notices = (IF Len(sizes) > Limit THEN {"limit"} ELSE {})
                      \cup (IF fits < Len(limited) THEN {"bytes"} ELSE {})]

Cut(sizes) == [k \in DOMAIN sizes |-> Min({sizes[k], LineLimit})]

(* What the reader left in the pipe when it had its bytes is not counted.   *)
GrepResult(c) ==
  LET taken == SubSeq(printed[c], 1, reading[c].taken) IN
  [Listing(Cut(taken), Len(printed[c])) EXCEPT
     !.unread = Total(taken) > 2 * TailBytes,
     !.notices = @ \cup IF \E k \in DOMAIN taken : taken[k] > LineLimit THEN {"lines"} ELSE {}]

(* The rest of GrepTool::execute, all that was printed having been read;   *)
(* rg that finds nothing exits with 1, a success here.                     *)
FinishGrep(c) ==
  /\ call[c].tool = "grep" /\ call[c].at = "running" /\ group[c] = {}
  /\ reading[c].open => reading[c].taken = Len(printed[c])
  /\ Returned(c, IF call[c].exit = "success" THEN GrepResult(c) ELSE Error)
  /\ reading' = [reading EXCEPT ![c].open = FALSE]
  /\ UNCHANGED <<group, printed, temp>>

TimeoutGrep(c) ==
  /\ call[c].tool = "grep" /\ call[c].at = "running" /\ group[c] # {}
  /\ group' = [group EXCEPT ![c] = {}]
  /\ call' = [call EXCEPT ![c].at = "returned", ![c].exit = "killed", ![c].result = Error]
  /\ reading' = [reading EXCEPT ![c].open = FALSE]
  /\ UNCHANGED <<printed, temp>>

(* The rest of FindTool::execute: fd was asked for one result more than    *)
(* the limit, and what check_path refuses is left out of its results, with *)
(* no word of it.                                                          *)
FinishFind(c) ==
  /\ call[c].tool = "find" /\ call[c].at = "running" /\ group[c] = {}
  /\ \E refused \in SUBSET DOMAIN printed[c] :
       LET found == SubSeq(printed[c], 1, Min({Len(printed[c]), Limit + 1}))
           left  == {k \in DOMAIN found : k \notin refused}
           total == Cardinality(DOMAIN printed[c] \ refused) IN
       /\ Cardinality(refused) <= 1
       /\ Returned(c, IF call[c].exit # "success" /\ printed[c] = <<>> THEN Error
                    ELSE [Listing([k \in 1..Cardinality(left) |->
                                     found[SetToSortSeq(left, <)[k]]], total)
                            EXCEPT !.hidden = refused # {}])
  /\ reading' = [reading EXCEPT ![c].open = FALSE]
  /\ UNCHANGED <<group, printed, temp>>

(* LsTool::execute: one call, all in one.                                  *)
List(c) ==
  /\ call[c].tool = "ls" /\ call[c].at = "begun"
  /\ \/ Returned(c, Error)
     \/ \E n \in 0..MaxPrinted : \E sizes \in [1..n -> Sizes] : Returned(c, Listing(sizes, n))
  /\ UNCHANGED <<group, printed, reading, temp>>

(* The turn that waits for the call is dropped. The child of bash and of   *)
(* grep dies with it (kill_on_drop), what it left in the background does   *)
(* not, nor does fd.                                                       *)
Drop(c) ==
  /\ call[c].at = "running"
  /\ call' = [call EXCEPT ![c].at = "dropped"]
  /\ group' = [group EXCEPT ![c] = IF call[c].tool = "find" THEN @ ELSE @ \ {"child"}]
  /\ reading' = [reading EXCEPT ![c].open = FALSE]
  /\ UNCHANGED <<printed, temp>>

ToolStep(c) ==
  \/ \E tool \in {"bash", "grep", "find", "ls"} : Begin(c, tool)
  \/ UnknownTool(c) \/ SpawnBash(c) \/ SpawnSearch(c)
  \/ Emit(c) \/ Background(c) \/ ProcessExits(c)
  \/ FinishBash(c) \/ TimeoutBash(c)
  \/ TakeLine(c) \/ FinishGrep(c) \/ TimeoutGrep(c) \/ FinishFind(c)
  \/ List(c) \/ Drop(c)

ToolNext == \E c \in Calls : ToolStep(c)

ToolSpec == ToolInit /\ [][ToolNext]_toolVars

-------------------------------------------------------------------------------
(* A file that the file tools refuse is refused to commands that name it   *)
(* as well, when both are given its path without . and ..: the two guards  *)
(* are written twice, over components and over the text of the command.    *)
GuardsAgree ==
  \A path \in Words :
    Normalized(path.parts) = path.parts /\ ~CheckPath(path) =>
      ~CheckCommandPaths(<<Word("cat"), path>>)

(* The result of bash shows all that was printed when it was made or names *)
(* a file that is there with all of it, and a file that no result names is *)
(* there only while its call runs, was dropped or could not wait.          *)
OutputIsReachable ==
  \A c \in Calls : call[c].tool = "bash" /\ call[c].at = "returned" =>
    LET result == call[c].result IN
    /\ result.shown < result.total => result.told /\ c \in temp /\ Len(printed[c]) >= result.total
    /\ c \in temp /\ ~result.told => result = Error

(* A command that ran out of time leaves no process of its group running.  *)
TimeoutKills == \A c \in Calls : call[c].exit = "killed" => group[c] = {}

(* Why a search may answer with less than there is: it says that its limit *)
(* or its bytes are reached; or, and then it does not say so, fd found an  *)
(* entry that is refused, which takes one of the results fd is asked for;  *)
(* or grep stopped reading at its bytes, and what it had read fits into an *)
(* answer only because long lines were cut. That lines were cut is told    *)
(* then, that matches are missing is not.                                  *)
CutIsKnown(result) ==
  \/ result.notices \cap {"limit", "bytes"} # {}
  \/ result.hidden
  \/ result.unread /\ "lines" \in result.notices

(* A search that answers with less than there is says so, with these two   *)
(* exceptions and no other.                                                *)
CutsAreTold ==
  \A c \in Calls : LET result == call[c].result IN
    call[c].tool \in {"grep", "find", "ls"} /\ result.shown < result.total => CutIsKnown(result)

(* The four of them: what is left out of a result is told and to be had    *)
(* (CutIsKnown has the exceptions), a killed command leaves nothing        *)
(* running, and no guard is a way round the other.                         *)
ToolResultsAreHonest == OutputIsReachable /\ TimeoutKills /\ CutsAreTold /\ GuardsAgree

===============================================================================
