------------------------------ MODULE MCEgoPulse ------------------------------
(***************************************************************************)
(* The components of EgoPulse for TLC, in one run. They meet at interfaces *)
(* that every module states for itself (what a turn answers, what a tool   *)
(* returns, what a client sends), so that they are looked at one at a      *)
(* time: the scene says which one is on the stage, and the others keep     *)
(* still in their first state.                                             *)
(*                                                                         *)
(* The web gateway has three scenes: two runs and a page, two runs and a   *)
(* socket, or two sockets and no run. A reader changes nothing another     *)
(* reader or the hub looks at. Histories and channels are shorter than a   *)
(* run: replays are cut and receivers lag. The configuration has two: two  *)
(* commands at once, or the wizard and one command. The channels have two: *)
(* messages, or texts to be sent.                                          *)
(***************************************************************************)
EXTENDS WebStreams, WebRequests, McpClient, ConfigFile, Host, TurnLoop, StateFiles, PromptFiles,
  TuiChat, ToolCalls, ChannelMessages, LlmClient, FileTools, ToolResults, Sequences, TLC

CONSTANTS
  r1, r2, p1, s1, s2, ca, cb, ia, ib,        \* runs, a page, sockets; calls, images
  note, picture, secret                      \* files

VARIABLES
  scene
-------------------------------------------------------------------------------
(* Sessions of the web gateway: what a client may send names a session, no *)
(* session or one of another channel, with and without prefixes.           *)
Key(channels, id, name) == [prefix |-> channels, chat |-> id, name |-> name]
MCKeys == {Key(<<>>, 0, ""), Key(<<>>, 0, "main"), Key(<<>>, 0, "a"), Key(<<"web">>, 0, "a"),
           Key(<<"web", "web">>, 0, "a"), Key(<<>>, 2, ""), Key(<<>>, 9, "")}
MCThreads == {Key(<<>>, 0, "7")}

(* Files: dashes of both kinds, blanks before an end of line, all ends of  *)
(* lines, a byte order mark, lines that are too long, too many lines.      *)
MCContents ==
  { <<"a", "-", "b">>, <<"a", "--", "b">>, <<"a", " ", "\n", "b", "--", "a">>,
    <<"bom", "a", "\r", "\n", "b", "\r", "\n">>, <<"a", "\n", "b", "\r", "\n", "a", "\r", "b">>,
    <<"a", "\n", "b", "\n", "a", "\n", "\n", "b">>, <<"a", "a", "a", "a", "a", "\n", "b", "\n", "a", "\n", "b">>,
    <<"b", "\n", "a", "a", "a", "a", "a">>, <<"a", "\n", "a", "--", "\n", "b">>, <<"a", "bom", "b", "\n">>, Picture, Binary }
MCEdits == [old: {<<>>, <<"a">>, <<"b">>, <<"a", "a">>, <<"-">>, <<"b", "-">>, <<"\n", "b">>},
            new: {<<>>, <<"a", "\r", "\n">>}]
EditOf(old, new) == [old |-> <<old>>, new |-> new]
MCInputs ==
  {[edits |-> <<e>>, legacy |-> <<>>] : e \in MCEdits}
    \cup {[edits |-> <<e1, e2>>, legacy |-> <<>>] : e1 \in MCEdits, e2 \in {e \in MCEdits : e.new = <<>>}}
    \cup {[edits |-> <<>>, legacy |-> <<e>>] : e \in MCEdits} \cup {[edits |-> <<>>, legacy |-> <<>>]}
    \cup {[edits |-> <<EditOf("b", <<>>), EditOf("a", <<"bom", "\r">>), EditOf("\n", <<"a">>)>>, legacy |-> <<>>]}

MCPaths == {note, picture, secret}
MCGuarded == {secret}
MCImagePaths == {picture}

(* One file at a time; what edits make is looked at and not edited again.  *)
FilesStep ==
  /\ lastCall.edits = <<>> /\ Cardinality({path \in DOMAIN files : files[path] # NoSuchFile}) <= 1
  /\ FileNext

(* Commands and paths, one of each kind that a guard tells apart.          *)
PathNames == {"src", ".ssh", ".SSH", "id_rsa", "ID_RSA", ".config", "gcloud", "etc", "shadow", "proc", "self", ".."}
W(name) == [abs |-> FALSE, parts |-> <<name>>]
MCWords == [abs: BOOLEAN, parts: [1..1 -> PathNames] \cup [1..2 -> PathNames] \cup [1..3 -> PathNames]]
MCCommands ==
  { <<W("cat"), W("src")>>, <<W("env")>>, <<W("bash -c"), W("env")>>, <<W("set")>>,
    <<W("set"), W("-e")>>, <<W("cat"), W(".ssh")>> }

(* Streams with every end of a line, an end mark at the end, in the middle *)
(* and missing, data that is no delta, that is cut short, that is blank.   *)
MCStreams ==
  { <<"data:", "a", "\r", "\n", "\r", "\n", "data:", "b", "\n", "\n", "data:", "[DONE]", "\n", "\n">>,
    <<"data:", "a", "\n", "data:", "b", "\n", ":", "\n", "\n", "data:", "[DONE]">>,
    <<"data:", "a", "\n", "\n", "data:", "[DONE]", "\r", "\n", "\n", "data:", "b", "\n", "\n">>,
    <<"data:", "{", "\n", "\n", "event", "\n", "data:", "b">>,
    <<"data:", " ", "\n", "\n", "data:", "a", " ", "b", " ", "\n", "\n", "data:", "[DONE]", "\n", "\n">>,
    <<"data:", " ", "\n", "\n", "data:", "[DONE]", "\n", "\n">>,
    <<"data:", "[DONE]", "\n", "\n">>, <<>> }
Line(role, asks, answers, text, image) ==
  [role |-> role, calls |-> asks, answers |-> answers, text |-> text, image |-> image]
User == Line("user", <<>>, 0, TRUE, FALSE)
Tool(k, image) == Line("tool", <<>>, k, TRUE, image)
RawCall(args) == <<"[tool_use:", "n", "(">> \o args \o <<")", "]">>
NoName == <<"[tool_use:", "(", ")", "]">>
MCTexts ==
  { <<>>, <<"x">>, RawCall(<<>>), RawCall(<<"{}">>), RawCall(<<"'", ")", "'">>), RawCall(<<"(">>), RawCall(<<"x">>),
    <<"x">> \o RawCall(<<"{}">>) \o <<"x">> \o RawCall(<<>>), RawCall(<<>>) \o RawCall(<<"x">>),
    <<"[tool_use:", "n", "(", ")", "x">> \o RawCall(<<"{}">>), RawCall(<<"{}">>) \o <<"[tool_use:", "n">>,
    NoName, NoName \o RawCall(<<>>),
    <<" ", "x", " ">>, <<" ">>, <<"<invoke>">>, <<" ", "x", "<invoke>", " ">>,
    <<" ", "<invoke>">> \o RawCall(<<" ", "{}", " ">>) \o <<"<invoke>", "x", " ">>,
    <<"[tool_use:", " ", "(", ")", "]">>, <<"[tool_use:", " ", "n", "(", ")", "<invoke>", " ", "]">>,
    RawCall(<<"'", "<invoke>", "'">>), <<"<invoke>">> \o RawCall(<<"x">>) }
MCHistories ==
  { <<User>>,
    <<User, Line("assistant", <<1, 2>>, 0, TRUE, FALSE), Tool(1, TRUE), Tool(2, FALSE)>>,
    <<User, Line("assistant", <<1, 2>>, 0, FALSE, FALSE), Tool(1, FALSE), Tool(2, FALSE)>> }

(* Two servers whose names and tools run into each other, four files.      *)
MCServers == {<<"a">>, <<"a", "b">>}
MCMcpFiles == {Broken, {}, {<<"a">>}, {<<"a">>, <<"a", "b">>}}
MCToolLists == {<<>>, << <<"b", "c">>, <<"c">> >>, << <<"c">>, <<"c">> >>}

(* A file with two providers and the page's channel, an environment with   *)
(* tokens and one without, commands for one channel and for all.           *)
Channel(enabled, token) == [enabled |-> enabled, token |-> token, provider |-> None, model |-> None]
Tokens(web, discord) == [web |-> web, discord |-> discord, telegram |-> None]
MCFile ==
  [provider |-> "openai", model |-> "gpt",
   providers |-> [openai |-> [url |-> "remote", key |-> "k1", model |-> "gpt"],
                  ollama |-> [url |-> "local", key |-> None, model |-> "llama"]],
   channels |-> [web |-> Channel(TRUE, "t1")]]
PutAsked(override, url) ==
  [kind |-> "put", provider |-> "ollama", model |-> None, id |-> "ollama", enabled |-> TRUE,
   update |-> [url |-> url, key |-> "*CLEAR*", model |-> "gpt"], override |-> override]
MCAsked ==
  [kind: {"provider"}, scope: {"global", "discord"}, id: {"ollama"}]
    \cup [kind: {"provider reset"}, scope: {"discord"}] \cup [kind: {"model reset"}, scope: {"global", "discord"}]
    \cup [kind: {"model"}, scope: {"global", "discord"}, model: {"llama"}]
    \cup {PutAsked(None, None), PutAsked("openai", "bad")}
MCPresets == [openai |-> [url |-> "remote", model |-> "gpt"], ollama |-> [url |-> "local", model |-> "llama"]]
NoTokens == [enabled |-> None, token |-> Tokens(None, None)]
MCEnvs == {NoTokens, [enabled |-> TRUE, token |-> Tokens("e1", "e2")]}

(* Messages from everywhere; texts with a wide character, one newline or   *)
(* two at a cut, commands with and without a mention.                      *)
Origin(surface, kind) ==
  [surface |-> surface, kind |-> kind, group |-> TRUE, listed |-> TRUE, mentioned |-> TRUE, bot |-> FALSE]
MCOrigins ==
  [surface: {"discord"}, kind: {"text"}, group: BOOLEAN, listed: BOOLEAN, mentioned: BOOLEAN, bot: {FALSE}]
    \cup {[Origin("discord", "text") EXCEPT !.bot = TRUE], Origin("discord", "interaction"),
          Origin("telegram", "text"), [Origin("telegram", "text") EXCEPT !.group = FALSE],
          [Origin("telegram", "text") EXCEPT !.mentioned = FALSE], Origin("telegram", "broadcast"),
          Origin("cli", "text"), Origin("adapter", "send")}
MCLines ==
  {<<>>, <<"x">>, <<" ">>, <<"/", "status">>, <<"<@", "x", ">", " ", "/", "x">>, <<"@", "x", "/", "/">>, <<"<@", "x">>}
MCReplies ==
  {<<>>, <<"a", "w">>, <<"w", "w", "a">>, <<"a", "\n", "a", "a", "a">>,
   <<"a", "a", "a", "\n", "\n", "a", "a", "a">>}
MCDrafts == UNION {[1..n -> {"a", "w", "\n"}] : n \in 0..5}

(* Every output of up to five tokens.                                      *)
MCOutputs == UNION {[1 .. n -> {"prefix", "letter", "mark", "blank"}] : n \in 0 .. 5}
MCSecrets == << <<"letter", "letter">> >>

(* Another surface's question that was not answered.                       *)
MCOthersSay == {<<[role |-> "user", text |-> <<"a">>]>>}

(* A directory of skills in every place.                                   *)
MCSkillDirs == [place: {"user", "workspace", "builtin"}, id: {1}]
MCSkillFiles == {[name |-> 1, usable |-> TRUE], [name |-> 2, usable |-> TRUE], [name |-> 1, usable |-> FALSE]}
-------------------------------------------------------------------------------
Web == {"page", "socket", "places"}
Scenes == Web \cup {"commands", "setup", "messages", "send", "sessions", "files", "tools", "llm", "mcp",
                    "service", "tui", "turns", "state", "results", "prompts"}

StillNew(sockets) == \A s \in sockets : socket[s].at = "new"
WebStep ==
  /\ Next
  /\ scene = "page" => StillNew(Sockets)'
  /\ scene = "socket" => StillNew(Sockets \ {s1})' /\ \A p \in Pages : reader'[p].at = "off"
  /\ scene = "places" => \A r \in Runs : run'[r].turn = "none"

ConfigStep ==
  /\ ConfigNext
  /\ scene = "commands" => wizard'.at = "closed"
  /\ scene = "setup" => writer'["w2"].at = "idle"

(* The first message is received first; send_text is looked at alone.      *)
ChatsStep ==
  \/ scene = "messages" /\ Handle("m1")
  \/ scene = "messages" /\ handler["m1"].at # "new" /\ Handle("m2")
  \/ scene = "send" /\ SendText("m1")
  \/ \E m \in {"m1", "m2"} : PostChunk(m)

(* Others talk and clear while the list of sessions is on the screen, and  *)
(* only what begins with a slash is longer than a character.               *)
TuiStep ==
  /\ TuiNext
  /\ OthersTalk => view = "browser"
  /\ Len(chat'.input) > 1 => chat'.input[1] = "/"

(* Where a component may begin in several states, one is taken off stage.  *)
EgoInit ==
  /\ scene \in Scenes
  /\ Init
  /\ RequestInit /\ FileInit /\ ToolInit /\ LlmInit
  /\ IF scene = "mcp" THEN TRUE ELSE sources = [f \in 1 .. 4 |-> {}]
  /\ McpInit
  /\ IF scene \in {"commands", "setup"} THEN TRUE ELSE env = NoTokens
  /\ ConfigInit
  /\ HostInit /\ ChannelInit
  /\ IF scene = "tui" THEN TRUE ELSE sessions = <<>>
  /\ TuiInit /\ LoopInit
  /\ StateInit /\ (scene # "state" => ~database.legacy /\ soul = "none")
  /\ IF scene = "results" THEN ResultInit
     ELSE result = [stage |-> "secrets", text |-> <<>>, details |-> 0, start |-> 1, next |-> 1]
  /\ IF scene = "prompts" THEN TRUE
     ELSE skills = [d \in MCSkillDirs |-> NoFile] /\ userDir = FALSE
  /\ PromptInit

EgoNext ==
  /\ UNCHANGED scene
  /\ IF scene \in Web THEN WebStep ELSE UNCHANGED vars
  /\ IF scene = "sessions" THEN RequestNext ELSE UNCHANGED requestVars
  /\ IF scene = "files" THEN FilesStep ELSE UNCHANGED textVars
  /\ IF scene = "tools" THEN ToolNext ELSE UNCHANGED toolVars
  /\ IF scene = "llm" THEN LlmNext ELSE UNCHANGED llmVars
  /\ IF scene = "mcp" THEN McpNext ELSE UNCHANGED mcpVars
  /\ IF scene \in {"commands", "setup"} THEN ConfigStep ELSE UNCHANGED configVars
  /\ IF scene = "service" THEN HostNext ELSE UNCHANGED hostVars
  /\ IF scene \in {"messages", "send"} THEN ChatsStep ELSE UNCHANGED channelVars
  /\ IF scene = "tui" THEN TuiStep ELSE UNCHANGED tuiVars
  /\ IF scene = "turns" THEN LoopNext ELSE UNCHANGED loopVars
  /\ IF scene = "state" THEN StateNext ELSE UNCHANGED fileVars
  /\ IF scene = "results" THEN ResultNext ELSE UNCHANGED resultVars
  /\ IF scene = "prompts" THEN PromptNext ELSE UNCHANGED promptVars

egoVars ==
  <<scene, vars, requestVars, textVars, toolVars,
    llmVars, mcpVars, configVars, hostVars, channelVars,
    tuiVars, loopVars, fileVars, result, promptVars>>

(* The fairness of HostSpec and ResultSpec, for their scenes.              *)
EgoSpec ==
  /\ EgoInit /\ [][EgoNext]_egoVars
  /\ WF_hostVars(scene = "service" /\ Supervise)
  /\ WF_resultVars(scene = "results" /\ ResultNext)
-------------------------------------------------------------------------------
(* Every output ends up masked and within the budget.                      *)
OutputsFit == scene = "results" => ResultsFit
===============================================================================
