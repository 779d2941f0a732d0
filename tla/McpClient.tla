------------------------------ MODULE McpClient -------------------------------
(***************************************************************************)
(* The MCP client of egopulse, mcp.rs and tools/mcp_adapter.rs: servers    *)
(* merged from files, connected one after another at the start, their      *)
(* tools offered under names without special characters, and calls that    *)
(* end with an answer or run out of time. Names are sequences of parts,    *)
(* so that a server "a" with a tool "b_c" and a server "a_b" with "c" are  *)
(* offered under one name.                                                 *)
(***************************************************************************)
EXTENDS Naturals, Sequences, FiniteSets, Functions

CONSTANTS
  Servers,    \* names of servers
  McpFiles,   \* what the files may define: servers, or Broken
  Broken,
  ToolLists,  \* lists of tools a server may answer with
  McpCalls    \* calls of tools, each is made once

VARIABLES
  sources,  \* global mcp.json, its mcp.d, mcp.json of the workspace, its mcp.d
  merged,   \* per server: the file that defines it, 0 if none; loaded: files read
  servers,  \* connected servers in order: [name, tools]
  failed,   \* servers that could not be connected
  adapters, \* tools registered: [name, idx, tool], by the place of the tool
  mcpCalls  \* per call: [at, adapter]

ASSUME McpConstants == \A tools \in ToolLists : Len(tools) \in Nat /\ DOMAIN tools = 1..Len(tools)

mcpVars == <<sources, merged, servers, failed, adapters, mcpCalls>>

McpInit ==
  /\ sources \in [1..4 -> McpFiles]
  /\ merged = [loaded |-> 0, from |-> [s \in Servers |-> 0]]
  /\ servers = <<>> /\ failed = {} /\ adapters = <<>>
  /\ mcpCalls = [c \in McpCalls |-> [at |-> "new", adapter |-> 0]]

-------------------------------------------------------------------------------
(* load_and_merge_mcp_configs: the next file; one that cannot be read is   *)
(* skipped, and a later definition of a server replaces an earlier one.    *)
LoadFile ==
  /\ merged.loaded < 4
  /\ LET next == merged.loaded + 1 IN
     merged' = [loaded |-> next, from |-> [s \in Servers |->
       IF sources[next] # Broken /\ s \in sources[next] THEN next ELSE merged.from[s]]]
  /\ UNCHANGED <<sources, servers, failed, adapters, mcpCalls>>

Configured == {s \in Servers : merged.from[s] # 0}
Tried == {servers[i].name : i \in DOMAIN servers} \cup failed
AllLoaded == merged.loaded = 4

(* sanitize_tool_name: mcp_<server>_<tool>                                 *)
FullName(server, tool) == server \o tool

(* McpManager::new drops a tool whose name another of the server has; the *)
(* others keep their places.                                               *)
Distinct(server, tools) ==
  LET first(k) == \A j \in 1 .. k - 1 : FullName(server, tools[j]) # FullName(server, tools[k])
  IN [k \in {k \in DOMAIN tools : first(k)} |-> tools[k]]

(* connect_server of the next server, in the order of a HashMap: it is     *)
(* connected when it answers and lists its tools in time.                  *)
ConnectServer(s) ==
  /\ AllLoaded /\ s \in Configured \ Tried
  /\ \E tools \in ToolLists : servers' = Append(servers, [name |-> s, tools |-> Distinct(s, tools)])
  /\ UNCHANGED <<sources, merged, failed, adapters, mcpCalls>>

ConnectFails(s) ==
  /\ AllLoaded /\ s \in Configured \ Tried
  /\ failed' = failed \cup {s}
  /\ UNCHANGED <<sources, merged, servers, adapters, mcpCalls>>

(* create_tool_adapters and register_tool: over the servers as connected,  *)
(* the first tool of a name. A tool's place is its server's and its own.   *)
ToolPlaces == UNION {{<<i, k>> : k \in DOMAIN servers[i].tools} : i \in DOMAIN servers}
Earlier(p, q) == p[1] < q[1] \/ (p[1] = q[1] /\ p[2] < q[2])
ToolAt(p) == servers[p[1]].tools[p[2]]
NameAt(p) == FullName(servers[p[1]].name, ToolAt(p))
Offered == {p \in ToolPlaces : \A q \in ToolPlaces : Earlier(q, p) => NameAt(q) # NameAt(p)}

(* Mutant: the index counts the adapters, and not the servers.             *)
Adapters_Counted ==
  [p \in Offered |->
     [name |-> NameAt(p), idx |-> Cardinality({q \in Offered : Earlier(q, p)}) + 1, tool |-> ToolAt(p)]]

Adapters == [p \in Offered |-> [name |-> NameAt(p), idx |-> p[1], tool |-> ToolAt(p)]]

RegisterTools ==
  /\ AllLoaded /\ Tried = Configured /\ adapters = <<>>
  /\ adapters' = Adapters
  /\ UNCHANGED <<sources, merged, servers, failed, mcpCalls>>

-------------------------------------------------------------------------------
(* McpToolAdapter::execute, execute_tool: the arguments are an object, and *)
(* the server is asked; an error of the tool itself is an answer, too.     *)
CallTool(c, k) ==
  /\ mcpCalls[c].at = "new" /\ k \in DOMAIN adapters
  /\ \E object \in BOOLEAN : mcpCalls' = [mcpCalls EXCEPT ![c] =
       [at |-> IF object /\ adapters[k].idx \in DOMAIN servers THEN "asked" ELSE "error", adapter |-> k]]
  /\ UNCHANGED <<sources, merged, servers, failed, adapters>>

ToolAnswers(c) ==
  /\ mcpCalls[c].at = "asked"
  /\ \E is \in {"success", "error"} : mcpCalls' = [mcpCalls EXCEPT ![c].at = is]
  /\ UNCHANGED <<sources, merged, servers, failed, adapters>>

CallTimesOut(c) ==
  /\ mcpCalls[c].at = "asked"
  /\ mcpCalls' = [mcpCalls EXCEPT ![c].at = "error"]
  /\ UNCHANGED <<sources, merged, servers, failed, adapters>>

McpNext ==
  \/ LoadFile \/ RegisterTools
  \/ \E s \in Servers : ConnectServer(s) \/ ConnectFails(s)
  \/ \E c \in McpCalls : (\E k \in DOMAIN adapters : CallTool(c, k)) \/ ToolAnswers(c) \/ CallTimesOut(c)

McpSpec == McpInit /\ [][McpNext]_mcpVars

-------------------------------------------------------------------------------
(* What is registered reaches the tool it is named after, on the server it *)
(* is of, whichever servers failed and in whatever order they came; names  *)
(* are not given twice, and no tool of a connected server is without one.  *)
AdaptersReachTheirTool ==
  /\ \A k \in DOMAIN adapters :
       LET a == adapters[k] IN
       /\ a.idx \in DOMAIN servers
       /\ a.tool \in Range(servers[a.idx].tools)
       /\ a.name = FullName(servers[a.idx].name, a.tool)
       /\ \A j \in DOMAIN adapters \ {k} : adapters[j].name # a.name
  /\ adapters # <<>> =>
       \A p \in ToolPlaces : \E k \in DOMAIN adapters : adapters[k].name = NameAt(p)

(* The workspace has the last word: a server is configured by the last     *)
(* readable file that defines it, and each configured server ends up       *)
(* connected or failed, never both.                                        *)
LastFileWins ==
  /\ AllLoaded => \A s \in Servers :
       LET defining == {i \in 1..4 : sources[i] # Broken /\ s \in sources[i]} IN
       IF defining = {} THEN merged.from[s] = 0
       ELSE merged.from[s] \in defining /\ \A i \in defining : i <= merged.from[s]
  /\ Tried \subseteq Configured
  /\ \A i, j \in DOMAIN servers :
       servers[i].name \notin failed /\ (servers[i].name = servers[j].name => i = j)

(* The last file that defines a server wins; its tools are reached.        *)
ServersAreReached == LastFileWins /\ AdaptersReachTheirTool
===============================================================================
