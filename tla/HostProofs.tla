-------------------------------- MODULE HostProofs ----------------------------
(***************************************************************************)
(* EgoPulse on its host: the servers it connects, the configuration it     *)
(* shares with commands and the wizard, the skills it tells the model of,  *)
(* its systemd service, and the files under the state root. One inductive  *)
(* invariant for each.                                                     *)
(***************************************************************************)
EXTENDS McpClient, ConfigFile, PromptFiles, Host, StateFiles,
  SequenceTheorems, WellFoundedInduction, TLAPS

(* A set of naturals has a least member.                                   *)
LEMMA LeastId ==
  ASSUME NEW T, T \subseteq Nat, T # {}
  PROVE  \E least \in T : \A t \in T : least <= t
  <1>1. PICK least \in T : \A t \in T : <<t, least>> \notin OpToRel(<, Nat)
    BY WFMin, NatLessThanWellFounded, Zenon
  <1>2. \A t \in T : t \in Nat /\ least \in Nat /\ ~ (t < least)
    <2> TAKE t \in T
    <2>1. t \in Nat /\ least \in Nat
      OBVIOUS
    <2>2. <<t, least>> \in Nat \X Nat /\ <<t, least>>[1] = t /\ <<t, least>>[2] = least
      BY <2>1
    <2> QED
      BY <1>1, <2>1, <2>2, Zenon DEF OpToRel
  <1> QED
    BY <1>2
-------------------------------------------------------------------------------
(***************************************************************************)
(* Servers and their tools.                                                *)
(***************************************************************************)

Connected == {[name |-> s, tools |-> Distinct(s, tools)] : s \in Servers, tools \in ToolLists}
Defining(s) == {i \in 1..4 : sources[i] # Broken /\ s \in sources[i]}

(* What has been read so far, of the files 1..loaded.                      *)
MergedInOrder ==
  /\ merged.loaded \in 0..4 /\ DOMAIN merged = {"loaded", "from"}
  /\ DOMAIN merged.from = Servers
  /\ \A s \in Servers :
       LET read == {i \in Defining(s) : i <= merged.loaded} IN
       IF read = {} THEN merged.from[s] = 0
       ELSE merged.from[s] \in read /\ \A i \in read : i <= merged.from[s]

(* Nothing is connected before all files are read, nothing is registered   *)
(* before every server was tried.                                          *)
ConnectedInOrder ==
  /\ servers \in Seq(Connected)
  /\ Tried # {} => AllLoaded
  /\ adapters # <<>> => AllLoaded /\ Tried = Configured /\ adapters = Adapters
  /\ Tried \subseteq Configured
  /\ \A i, j \in DOMAIN servers :
       servers[i].name \notin failed /\ (servers[i].name = servers[j].name => i = j)

McpInv == MergedInOrder /\ ConnectedInOrder
------------------------------------------------------------------------------
(* The places of tools are ordered, and of those with one name one is      *)
(* before the others.                                                      *)
LEMMA PlacesAreNumbers ==
  ASSUME servers \in Seq(Connected)
  PROVE  \A p \in ToolPlaces :
           /\ p[1] \in DOMAIN servers /\ p[2] \in DOMAIN servers[p[1]].tools
           /\ p[1] \in Nat /\ p[2] \in Nat /\ p = <<p[1], p[2]>>
  <1> SUFFICES ASSUME NEW i \in DOMAIN servers, NEW k \in DOMAIN servers[i].tools
               PROVE  i \in Nat /\ k \in Nat
    BY DEF ToolPlaces
  <1>1. servers[i] \in Connected /\ i \in Nat
    OBVIOUS
  <1>2. PICK s \in Servers, tools \in ToolLists : servers[i] = [name |-> s, tools |-> Distinct(s, tools)]
    BY <1>1 DEF Connected
  <1>3. DOMAIN Distinct(s, tools) \subseteq DOMAIN tools
    BY DEF Distinct
  <1> QED
    BY <1>1, <1>2, <1>3, McpConstants

LEMMA OneIsFirst ==
  ASSUME servers \in Seq(Connected), NEW P, P \subseteq ToolPlaces, P # {}
  PROVE  \E p \in P : \A q \in P : ~Earlier(q, p)
  <1>1. \A p \in P : p[1] \in Nat /\ p[2] \in Nat
    BY PlacesAreNumbers
  <1>2. PICK i \in {p[1] : p \in P} : \A j \in {p[1] : p \in P} : i <= j
    <2> DEFINE T == {p[1] : p \in P}
    <2>1. T \subseteq Nat /\ T # {}
      BY <1>1
    <2> HIDE DEF T
    <2>2. \E i \in T : \A j \in T : i <= j
      BY <2>1, LeastId
    <2> QED
      BY <2>2 DEF T
  <1>3. PICK k \in {p[2] : p \in {q \in P : q[1] = i}} : \A l \in {p[2] : p \in {q \in P : q[1] = i}} : k <= l
    <2> DEFINE T == {p[2] : p \in {q \in P : q[1] = i}}
    <2>1. T \subseteq Nat /\ T # {}
      BY <1>1, <1>2
    <2> HIDE DEF T
    <2>2. \E k \in T : \A l \in T : k <= l
      BY <2>1, LeastId
    <2> QED
      BY <2>2 DEF T
  <1>4. PICK p \in P : p[1] = i /\ p[2] = k
    BY <1>3
  <1>5. \A q \in P : ~Earlier(q, p)
    <2> TAKE q \in P
    <2>1. p[1] \in Nat /\ p[2] \in Nat /\ q[1] \in Nat /\ q[2] \in Nat
      BY <1>1
    <2>2. p[1] <= q[1]
      BY <1>2, <1>4
    <2>3. q[1] = p[1] => p[2] <= q[2]
      BY <1>3, <1>4
    <2> QED
      BY <2>1, <2>2, <2>3 DEF Earlier
  <1> QED
    BY <1>5

(* What is registered is what the property asks for.                       *)
LEMMA AdaptersReach ==
  ASSUME servers \in Seq(Connected), adapters \in {<<>>, Adapters}
  PROVE  AdaptersReachTheirTool
  <1>1. CASE adapters = <<>>
    <2>1. DOMAIN adapters = {}
      BY <1>1
    <2> QED
      BY <1>1, <2>1 DEF AdaptersReachTheirTool
  <1>2. CASE adapters = Adapters
    <2>1. /\ DOMAIN adapters = Offered
          /\ \A p \in Offered : adapters[p] = [name |-> NameAt(p), idx |-> p[1], tool |-> ToolAt(p)]
          /\ \A p \in Offered : adapters[p].name = NameAt(p) /\ adapters[p].idx = p[1] /\ adapters[p].tool = ToolAt(p)
      BY <1>2 DEF Adapters
    <2>2. \A p \in Offered : p \in ToolPlaces /\ \A q \in ToolPlaces : Earlier(q, p) => NameAt(q) # NameAt(p)
      BY DEF Offered
    <2>3. \A p, q \in Offered : p # q => NameAt(p) # NameAt(q)
      <3> SUFFICES ASSUME NEW p \in Offered, NEW q \in Offered, p # q PROVE NameAt(p) # NameAt(q)
        OBVIOUS
      <3>1. p[1] \in Nat /\ p[2] \in Nat /\ q[1] \in Nat /\ q[2] \in Nat /\ p = <<p[1], p[2]>> /\ q = <<q[1], q[2]>>
        BY <2>2, PlacesAreNumbers
      <3>2. p[1] # q[1] \/ p[2] # q[2]
        BY <3>1, Zenon
      <3>3. Earlier(p, q) \/ Earlier(q, p)
        BY <3>1, <3>2 DEF Earlier
      <3> QED
        BY <2>2, <3>3
    <2>4. \A p \in ToolPlaces : \E q \in Offered : NameAt(q) = NameAt(p)
      <3> TAKE p \in ToolPlaces
      <3> DEFINE P == {q \in ToolPlaces : NameAt(q) = NameAt(p)}
      <3>1. PICK q \in P : \A r \in P : ~Earlier(r, q)
        <4>1. P \subseteq ToolPlaces /\ P # {}
          OBVIOUS
        <4> QED
          BY <4>1, OneIsFirst
      <3>2. q \in Offered
        BY <3>1 DEF Offered
      <3> QED
        BY <3>1, <3>2
    <2>5. \A p \in Offered : p[1] \in DOMAIN servers /\ ToolAt(p) \in Range(servers[p[1]].tools)
      BY <2>2, PlacesAreNumbers DEF ToolAt, Range
    <2> QED
      BY <2>1, <2>3, <2>4, <2>5 DEF AdaptersReachTheirTool, NameAt
  <1> QED
    BY <1>1, <1>2
------------------------------------------------------------------------------
LEMMA McpInitHolds == McpInit => McpInv
  <1> SUFFICES ASSUME McpInit PROVE McpInv
    OBVIOUS
  <1>1. servers = <<>> /\ failed = {} /\ adapters = <<>> /\ merged.loaded = 0 /\ DOMAIN servers = {}
    BY DEF McpInit
  <1>2. MergedInOrder
    BY <1>1 DEF McpInit, MergedInOrder, Defining
  <1>3. <<>> \in Seq(Connected)
    OBVIOUS
  <1>4. ConnectedInOrder
    BY <1>1, <1>3 DEF ConnectedInOrder, Tried
  <1> QED
    BY <1>2, <1>4 DEF McpInv

LEMMA LoadKeeps == McpInv /\ LoadFile => McpInv'
  <1> SUFFICES ASSUME McpInv, LoadFile PROVE McpInv'
    OBVIOUS
  <1> USE DEF McpInv
  <1> DEFINE next == merged.loaded + 1
             From(s) == IF sources[next] # Broken /\ s \in sources[next] THEN next ELSE merged.from[s]
  <1>1. /\ merged.loaded \in 0..3 /\ next \in 1..4 /\ sources' = sources
        /\ merged' = [loaded |-> next, from |-> [s \in Servers |-> From(s)]]
        /\ UNCHANGED <<servers, failed, adapters>>
    BY DEF LoadFile, MergedInOrder
  <1>2. merged'.loaded = next /\ DOMAIN merged'.from = Servers /\ DOMAIN merged' = {"loaded", "from"}
        /\ \A s \in Servers : merged'.from[s] = From(s)
    BY <1>1
  <1>3. ASSUME NEW s \in Servers
        PROVE  LET read == {i \in Defining(s) : i <= next} IN
               IF read = {} THEN From(s) = 0 ELSE From(s) \in read /\ \A i \in read : i <= From(s)
    <2> DEFINE old == {i \in Defining(s) : i <= merged.loaded}
               new == {i \in Defining(s) : i <= next}
    <2>1. \A i \in Defining(s) : i \in 1..4
      BY DEF Defining
    <2>2. next \in Defining(s) <=> sources[next] # Broken /\ s \in sources[next]
      BY <1>1 DEF Defining
    <2>3. \A i \in 1..4 : i <= next <=> i <= merged.loaded \/ i = next
      BY <1>1
    <2>4. new = IF next \in Defining(s) THEN old \cup {next} ELSE old
      BY <2>1, <2>3, <1>1
    <2>5. IF old = {} THEN merged.from[s] = 0
          ELSE merged.from[s] \in old /\ \A i \in old : i <= merged.from[s]
      BY DEF MergedInOrder
    <2>6. \A i \in old : i <= next
      BY <2>1, <1>1
    <2> HIDE DEF old, new, next
    <2>7. CASE next \in Defining(s)
      <3>1. From(s) = next /\ new = old \cup {next}
        BY <2>2, <2>4, <2>7
      <3>2. next <= next
        BY <1>1
      <3> QED
        BY <3>1, <3>2, <2>6 DEF new
    <2>8. CASE next \notin Defining(s)
      <3>1. From(s) = merged.from[s] /\ new = old
        BY <2>2, <2>4, <2>8
      <3> QED
        BY <3>1, <2>5 DEF new
    <2> QED
      BY <2>7, <2>8
  <1>4. \A s : Defining(s)' = Defining(s)
    BY <1>1 DEF Defining
  <1>5. MergedInOrder'
    <2>1. \A s \in Servers : {i \in Defining(s)' : i <= merged'.loaded} = {i \in Defining(s) : i <= next}
      BY <1>2, <1>4
    <2> HIDE DEF From, next
    <2>2. \A s \in Servers : merged'.from[s] = From(s)
      BY <1>2
    <2>3. \A s \in Servers :
             LET read == {i \in Defining(s)' : i <= merged'.loaded} IN
             IF read = {} THEN merged'.from[s] = 0
             ELSE merged'.from[s] \in read /\ \A i \in read : i <= merged'.from[s]
      BY <2>1, <2>2, <1>3
    <2>4. merged'.loaded \in 0..4
      BY <1>1, <1>2
    <2> QED
      BY <1>2, <2>3, <2>4 DEF MergedInOrder
  <1>6. ~AllLoaded
    BY <1>1 DEF AllLoaded
  <1>7. Tried = {} /\ Tried' = Tried
    BY <1>1, <1>6 DEF ConnectedInOrder, Tried
  <1>8. adapters = <<>>
    BY <1>6 DEF ConnectedInOrder
  <1>9. ConnectedInOrder'
    <2>1. Connected' = Connected
      BY DEF Connected, Distinct, FullName
    <2> QED
      BY <1>1, <1>7, <1>8 DEF ConnectedInOrder
  <1> QED
    BY <1>5, <1>9

LEMMA SameMerge ==
  ASSUME McpInv, UNCHANGED <<sources, merged>>
  PROVE  MergedInOrder'
  BY DEF McpInv, MergedInOrder, Defining

LEMMA ConnectKeeps ==
  ASSUME McpInv, NEW s \in Servers, ConnectServer(s) \/ ConnectFails(s)
  PROVE  McpInv'
  <1> USE DEF McpInv
  <1>1. AllLoaded /\ s \in Configured /\ s \notin Tried /\ UNCHANGED <<sources, merged, adapters, mcpCalls>>
    BY DEF ConnectServer, ConnectFails
  <1>2. adapters = <<>>
    BY <1>1 DEF ConnectedInOrder
  <1>3. MergedInOrder' /\ AllLoaded' /\ Configured' = Configured
    BY <1>1, SameMerge DEF AllLoaded, Configured
  <1>4. servers \in Seq(Connected) /\ \A i \in DOMAIN servers : servers[i].name \in Tried
    BY DEF ConnectedInOrder, Tried
  <1>5. CASE ConnectFails(s)
    <2>1. failed' = failed \cup {s} /\ servers' = servers
      BY <1>5 DEF ConnectFails
    <2>2. Tried' = Tried \cup {s}
      BY <2>1 DEF Tried
    <2>3. \A i \in DOMAIN servers : servers[i].name # s
      BY <1>1, <1>4
    <2> QED
      <3>1. Connected' = Connected
        BY DEF Connected, Distinct, FullName
      <3>2. \A i, j \in DOMAIN servers :
              servers[i].name \notin failed \cup {s} /\ (servers[i].name = servers[j].name => i = j)
        BY <2>3 DEF ConnectedInOrder
      <3> QED
        BY <1>1, <1>2, <1>3, <2>1, <2>2, <3>1, <3>2 DEF ConnectedInOrder
  <1>6. CASE ConnectServer(s)
    <2>1. PICK tools \in ToolLists : servers' = Append(servers, [name |-> s, tools |-> Distinct(s, tools)])
      BY <1>6 DEF ConnectServer
    <2>2. failed' = failed
      BY <1>6 DEF ConnectServer
    <2>3. PICK new \in Connected : new = [name |-> s, tools |-> Distinct(s, tools)] /\ new.name = s
      <3>1. [name |-> s, tools |-> Distinct(s, tools)] \in Connected
        BY DEF Connected
      <3> QED
        BY <3>1
    <2>4. /\ servers' = Append(servers, new) /\ servers' \in Seq(Connected)
          /\ DOMAIN servers' = DOMAIN servers \cup {Len(servers) + 1} /\ servers'[Len(servers) + 1] = new
          /\ \A i \in DOMAIN servers : servers'[i] = servers[i]
      BY <1>4, <2>1, <2>3
    <2>5. Tried' = Tried \cup {s}
      <3>1. \A x : x \in Tried' <=> x \in failed \/ \E i \in DOMAIN servers' : servers'[i].name = x
        BY <2>2 DEF Tried
      <3>2. \A x : x \in Tried <=> x \in failed \/ \E i \in DOMAIN servers : servers[i].name = x
        BY DEF Tried
      <3> QED
        BY <3>1, <3>2, <2>3, <2>4
    <2>6. \A i \in DOMAIN servers : servers[i].name # s
      BY <1>1, <1>4
    <2>7. s \notin failed
      BY <1>1 DEF Tried
    <2>8. \A i, j \in DOMAIN servers' :
            servers'[i].name \notin failed' /\ (servers'[i].name = servers'[j].name => i = j)
      BY <2>2, <2>3, <2>4, <2>6, <2>7 DEF ConnectedInOrder
    <2>9. Connected' = Connected
      BY DEF Connected, Distinct, FullName
    <2> QED
      BY <1>1, <1>2, <1>3, <2>4, <2>5, <2>8, <2>9 DEF ConnectedInOrder
  <1> QED
    BY <1>5, <1>6

LEMMA SameAdapters ==
  ASSUME servers' = servers
  PROVE  Adapters' = Adapters
  BY DEF Adapters, Offered, ToolPlaces, NameAt, ToolAt, Earlier, FullName

LEMMA RegisterKeeps == McpInv /\ RegisterTools => McpInv'
  <1> SUFFICES ASSUME McpInv, RegisterTools PROVE McpInv'
    OBVIOUS
  <1> USE DEF McpInv
  <1>1. AllLoaded /\ Tried = Configured /\ adapters' = Adapters /\ UNCHANGED <<sources, merged, servers, failed>>
    BY DEF RegisterTools
  <1>2. Adapters' = Adapters
    BY <1>1, SameAdapters
  <1>3. Tried' = Tried /\ Configured' = Configured /\ AllLoaded'
    BY <1>1 DEF Tried, Configured, AllLoaded
  <1>4. Connected' = Connected
    BY DEF Connected, Distinct, FullName
  <1> QED
    BY <1>1, <1>2, <1>3, <1>4, SameMerge DEF ConnectedInOrder

LEMMA OthersKeep ==
  ASSUME McpInv, UNCHANGED <<sources, merged, servers, failed, adapters>>
  PROVE  McpInv'
  <1>1. Adapters' = Adapters
    BY SameAdapters
  <1>2. Tried' = Tried /\ Configured' = Configured /\ AllLoaded' = AllLoaded
    BY DEF Tried, Configured, AllLoaded
  <1>3. Connected' = Connected
    BY DEF Connected, Distinct, FullName
  <1> QED
    BY <1>1, <1>2, <1>3, SameMerge DEF McpInv, ConnectedInOrder

(* The last readable file that defines a server configures it, every       *)
(* server is connected or failed, once, and what is registered for it      *)
(* reaches it and the tool it is named after: for any servers, files and   *)
(* lists of tools, in any order the servers are connected in.              *)
THEOREM ServersReached == McpSpec => []ServersAreReached
  <1>1. McpInv /\ [McpNext]_mcpVars => McpInv'
    <2> SUFFICES ASSUME McpInv, [McpNext]_mcpVars PROVE McpInv'
      OBVIOUS
    <2>1. CASE LoadFile
      BY <2>1, LoadKeeps
    <2>2. CASE RegisterTools
      BY <2>2, RegisterKeeps
    <2>3. CASE \E s \in Servers : ConnectServer(s) \/ ConnectFails(s)
      BY <2>3, ConnectKeeps
    <2>4. CASE \/ \E c \in McpCalls : (\E k \in DOMAIN adapters : CallTool(c, k)) \/ ToolAnswers(c) \/ CallTimesOut(c)
               \/ UNCHANGED mcpVars
      BY <2>4, OthersKeep DEF CallTool, ToolAnswers, CallTimesOut, mcpVars
    <2> QED
      BY <2>1, <2>2, <2>3, <2>4 DEF McpNext
  <1>2. McpInv => ServersAreReached
    <2> SUFFICES ASSUME McpInv PROVE ServersAreReached
      OBVIOUS
    <2>1. servers \in Seq(Connected) /\ adapters \in {<<>>, Adapters}
      BY DEF McpInv, ConnectedInOrder
    <2>2. AdaptersReachTheirTool
      BY <2>1, AdaptersReach
    <2>3. ASSUME AllLoaded, NEW s \in Servers
          PROVE  LET defining == Defining(s) IN
                 IF defining = {} THEN merged.from[s] = 0
                 ELSE merged.from[s] \in defining /\ \A i \in defining : i <= merged.from[s]
      <3>1. {i \in Defining(s) : i <= merged.loaded} = Defining(s)
        BY <2>3 DEF AllLoaded, Defining
      <3> QED
        BY <3>1 DEF McpInv, MergedInOrder
    <2>4. LastFileWins
      BY <2>3 DEF LastFileWins, McpInv, ConnectedInOrder, Defining
    <2> QED
      BY <2>2, <2>4 DEF ServersAreReached
  <1> QED
    BY McpInitHolds, <1>1, <1>2, PTL DEF McpSpec
-------------------------------------------------------------------------------
(***************************************************************************)
(* The configuration. A token is owned by the file if it stood in the      *)
(* first file or was typed by somebody.                                    *)
(***************************************************************************)

OwnTokens == FileTokens \cup TokensIn(FirstFile) \cup {None}
Fields == {"provider", "model", "providers", "channels"}
EntryFields == {"enabled", "token", "file", "provider", "model"}

IsFile(f) == Fields \subseteq DOMAIN f /\ \A c \in DOMAIN f.channels : f.channels[c].token \in OwnTokens
IsEntry(entry) == EntryFields \subseteq DOMAIN entry /\ entry.file \in OwnTokens
IsConfig(config) == Fields \subseteq DOMAIN config /\ \A c \in DOMAIN config.channels : IsEntry(config.channels[c])

(* What was asked for stands in the configuration.                         *)
Stands(config, ask) ==
  /\ ask.kind = "provider" =>
       IF ask.scope = "global" THEN config.provider = ask.id
       ELSE ask.scope \in DOMAIN config.channels /\ config.channels[ask.scope].provider = ask.id
  /\ ask.kind = "model" =>
       IF ask.scope = "global" THEN config.model = ask.model
       ELSE ask.scope \in DOMAIN config.channels /\ config.channels[ask.scope].model = ask.model

WriterHolds(w) ==
  /\ writer[w].at \in {"checked", "changed", "saved"} => "ask" \in DOMAIN writer[w] /\ writer[w].ask \in Asked
  /\ writer[w].at \in {"changed", "saved"} =>
       "config" \in DOMAIN writer[w] /\ IsConfig(writer[w].config) /\ Stands(writer[w].config, writer[w].ask)

ConfigInv ==
  /\ file # None => IsFile(file)
  /\ DOMAIN writer = Writers
  /\ \A w \in Writers : WriterHolds(w)
-------------------------------------------------------------------------------
(* Maps of channels.                                                       *)
LEMMA PutMakes ==
  ASSUME NEW f, NEW x, NEW v
  PROVE  /\ DOMAIN Put(f, x, v) = {x} \cup DOMAIN f
         /\ Put(f, x, v)[x] = v
         /\ \A y \in DOMAIN f : y # x => Put(f, x, v)[y] = f[y]
  BY DEF Put

LEMMA LoadedIsConfig ==
  ASSUME NEW f, NEW e, IsFile(f)
  PROVE  /\ IsConfig(Loaded(f, e))
         /\ Loaded(f, e).provider = f.provider /\ Loaded(f, e).model = f.model
         /\ \A c \in DOMAIN f.channels :
              /\ c \in DOMAIN Loaded(f, e).channels
              /\ Loaded(f, e).channels[c].provider = f.channels[c].provider
              /\ Loaded(f, e).channels[c].model = f.channels[c].model
  <1> DEFINE over == Overridden(f.channels, e)
             From(c) == IF c \in DOMAIN f.channels THEN f.channels[c] ELSE Absent
  <1>1. /\ DOMAIN f.channels \subseteq DOMAIN over
        /\ \A c \in DOMAIN over :
             over[c] = [enabled |-> IF c = "web" THEN Option(e.enabled, From(c).enabled) ELSE From(c).enabled,
                        token |-> Option(e.token[c], From(c).token), file |-> From(c).token,
                        provider |-> From(c).provider, model |-> From(c).model]
    BY DEF Overridden
  <1>2. \A c \in DOMAIN over : /\ DOMAIN over[c] = EntryFields /\ over[c].file = From(c).token
                               /\ over[c].provider = From(c).provider /\ over[c].model = From(c).model
    <2> HIDE DEF over, From
    <2> QED
      BY <1>1 DEF EntryFields
  <1>3. \A c : From(c).token \in OwnTokens
    <2>1. Absent.token = None
      BY DEF Absent
    <2>2. \A c \in DOMAIN f.channels : f.channels[c].token \in OwnTokens
      BY DEF IsFile
    <2> TAKE c
    <2>3. CASE c \in DOMAIN f.channels
      BY <2>2, <2>3
    <2>4. CASE c \notin DOMAIN f.channels
      BY <2>1, <2>4 DEF OwnTokens
    <2> QED
      BY <2>3, <2>4
  <1> HIDE DEF over
  <1>4. /\ DOMAIN Loaded(f, e) = DOMAIN f /\ Loaded(f, e).channels = over
        /\ Loaded(f, e).provider = f.provider /\ Loaded(f, e).model = f.model
    BY DEF Loaded, IsFile, Fields, over
  <1>5. IsConfig(Loaded(f, e))
    BY <1>2, <1>3, <1>4 DEF IsConfig, IsEntry, IsFile
  <1> QED
    BY <1>1, <1>2, <1>4, <1>5

LEMMA SavedIsFile ==
  ASSUME NEW config, IsConfig(config)
  PROVE  /\ IsFile(Saved(config))
         /\ Saved(config).provider = config.provider /\ Saved(config).model = config.model
         /\ DOMAIN Saved(config).channels = DOMAIN config.channels
         /\ \A c \in DOMAIN config.channels :
              /\ Saved(config).channels[c].provider = config.channels[c].provider
              /\ Saved(config).channels[c].model = config.channels[c].model
  <1> DEFINE new == [c \in DOMAIN config.channels |->
                       [enabled |-> config.channels[c].enabled, token |-> config.channels[c].file,
                        provider |-> config.channels[c].provider, model |-> config.channels[c].model]]
  <1>1. /\ DOMAIN new = DOMAIN config.channels
        /\ \A c \in DOMAIN new : /\ new[c].token = config.channels[c].file /\ new[c].model = config.channels[c].model
                                 /\ new[c].provider = config.channels[c].provider
    OBVIOUS
  <1>2. Saved(config) = [config EXCEPT !.channels = new]
    BY DEF Saved
  <1> HIDE DEF new
  <1>3. /\ DOMAIN Saved(config) = DOMAIN config /\ Saved(config).channels = new
        /\ Saved(config).provider = config.provider /\ Saved(config).model = config.model
    BY <1>2 DEF IsConfig, Fields
  <1> QED
    BY <1>1, <1>3 DEF IsConfig, IsEntry, IsFile

LEMMA EntryIsOwn ==
  ASSUME NEW config, NEW scope, IsConfig(config)
  PROVE  IsEntry(Entry(config, scope))
  <1> DEFINE none == Put(Absent, "file", None)
  <1>1. DOMAIN Absent = {"enabled", "token", "provider", "model"}
    BY DEF Absent
  <1>2. DOMAIN none = {"file"} \cup DOMAIN Absent /\ none["file"] = None
    BY DEF Put
  <1>3. IsEntry(none)
    BY <1>1, <1>2 DEF IsEntry, EntryFields, OwnTokens
  <1> QED
    BY <1>3 DEF Entry, IsConfig

LEMMA WithEntryIsConfig ==
  ASSUME NEW config, NEW scope, NEW entry, IsConfig(config), IsEntry(entry)
  PROVE  /\ IsConfig(WithEntry(config, scope, entry))
         /\ WithEntry(config, scope, entry).provider = config.provider
         /\ WithEntry(config, scope, entry).model = config.model
         /\ scope \in DOMAIN WithEntry(config, scope, entry).channels
         /\ WithEntry(config, scope, entry).channels[scope] = entry
  <1> DEFINE with == WithEntry(config, scope, entry)
             new == Put(config.channels, scope, entry)
  <1>1. /\ DOMAIN new = {scope} \cup DOMAIN config.channels /\ new[scope] = entry
        /\ \A c \in DOMAIN config.channels : c # scope => new[c] = config.channels[c]
    BY DEF Put
  <1>2. with = [config EXCEPT !.channels = new]
    BY DEF WithEntry
  <1> HIDE DEF new, with
  <1>3. /\ DOMAIN with = DOMAIN config /\ with.channels = new
        /\ with.provider = config.provider /\ with.model = config.model
    BY <1>2 DEF IsConfig, Fields
  <1> QED
    BY <1>1, <1>3 DEF IsConfig, with

(* An entry with another provider, model or switch.                        *)
LEMMA EditedIsEntry ==
  ASSUME NEW entry, IsEntry(entry), NEW x, NEW y
  PROVE  /\ IsEntry([entry EXCEPT !.provider = x, !.model = y])
         /\ [entry EXCEPT !.provider = x, !.model = y].provider = x
         /\ IsEntry([entry EXCEPT !.model = y]) /\ [entry EXCEPT !.model = y].model = y
         /\ IsEntry([entry EXCEPT !.provider = x])
         /\ IsEntry([entry EXCEPT !.enabled = x])
  BY DEF IsEntry, EntryFields

LEMMA ChangedIsConfig ==
  ASSUME NEW config, IsConfig(config), NEW ask \in Asked,
         ask.kind \in {"provider", "provider reset", "model", "model reset", "put"}
  PROVE  IsConfig(Changed(config, ask)) /\ Stands(Changed(config, ask), ask)
  <1>0. \A scope : IsEntry(Entry(config, scope))
    BY EntryIsOwn
  <1>w. ASSUME NEW scope, NEW entry, IsEntry(entry)
        PROVE  /\ IsConfig(WithEntry(config, scope, entry))
               /\ scope \in DOMAIN WithEntry(config, scope, entry).channels
               /\ WithEntry(config, scope, entry).channels[scope] = entry
    <2>1. IsConfig(WithEntry(config, scope, entry)) /\ scope \in DOMAIN WithEntry(config, scope, entry).channels
      BY <1>w, WithEntryIsConfig, Zenon
    <2>2. WithEntry(config, scope, entry).channels = Put(config.channels, scope, entry)
      BY DEF WithEntry, IsConfig, Fields
    <2>3. Put(config.channels, scope, entry)[scope] = entry
      BY DEF Put
    <2> QED
      BY <2>1, <2>2, <2>3
  <1>g. ASSUME NEW x, NEW y
        PROVE  /\ IsConfig([config EXCEPT !.provider = x, !.model = y])
               /\ [config EXCEPT !.provider = x, !.model = y].provider = x
               /\ IsConfig([config EXCEPT !.model = y]) /\ [config EXCEPT !.model = y].model = y
    BY DEF IsConfig, Fields
  <1>1. CASE ask.kind = "provider"
    <2>1. Changed(config, ask) = SwitchProvider(config, ask.scope, ask.id)
      BY <1>1 DEF Changed
    <2> DEFINE all == [config EXCEPT !.provider = ask.id, !.model = None]
               one == [Entry(config, ask.scope) EXCEPT !.provider = ask.id, !.model = None]
               with == WithEntry(config, ask.scope, one)
    <2>2. CASE ask.scope = "global"
      <3>1. Changed(config, ask) = all
        BY <2>1, <2>2 DEF SwitchProvider
      <3>2. IsConfig(all) /\ all.provider = ask.id
        BY <1>g, Zenon
      <3> HIDE DEF all
      <3> QED
        BY <1>1, <2>2, <3>1, <3>2 DEF Stands
    <2>3. CASE ask.scope # "global"
      <3>1. Changed(config, ask) = with
        BY <2>1, <2>3 DEF SwitchProvider
      <3>2. IsEntry(one) /\ one.provider = ask.id
        BY <1>0 DEF IsEntry, EntryFields
      <3> HIDE DEF one
      <3>3. IsConfig(with) /\ ask.scope \in DOMAIN with.channels /\ with.channels[ask.scope] = one
        BY <3>2, <1>w, Zenon
      <3> HIDE DEF with
      <3> QED
        BY <1>1, <2>3, <3>1, <3>2, <3>3 DEF Stands
    <2> QED
      BY <2>2, <2>3
  <1>2. CASE ask.kind = "provider reset"
    <2>1. Changed(config, ask) = ResetProvider(config, ask.scope)
      BY <1>2 DEF Changed
    <2>2. IsConfig(ResetProvider(config, ask.scope))
      BY <1>0, EditedIsEntry, WithEntryIsConfig DEF ResetProvider
    <2> QED
      BY <1>2, <2>1, <2>2 DEF Stands
  <1>3. CASE ask.kind = "model"
    <2>1. Changed(config, ask) = SwitchModel(config, ask.scope, ask.model)
      BY <1>3 DEF Changed
    <2> DEFINE all == [config EXCEPT !.model = ask.model]
               one == [Entry(config, ask.scope) EXCEPT !.model = ask.model]
               with == WithEntry(config, ask.scope, one)
    <2>2. CASE ask.scope = "global"
      <3>1. Changed(config, ask) = all
        BY <2>1, <2>2 DEF SwitchModel
      <3>2. IsConfig(all) /\ all.model = ask.model
        BY <1>g, Zenon
      <3> HIDE DEF all
      <3> QED
        BY <1>3, <2>2, <3>1, <3>2 DEF Stands
    <2>3. CASE ask.scope # "global"
      <3>1. Changed(config, ask) = with
        BY <2>1, <2>3 DEF SwitchModel
      <3>2. IsEntry(one) /\ one.model = ask.model
        BY <1>0 DEF IsEntry, EntryFields
      <3> HIDE DEF one
      <3>3. IsConfig(with) /\ ask.scope \in DOMAIN with.channels /\ with.channels[ask.scope] = one
        BY <3>2, <1>w, Zenon
      <3> HIDE DEF with
      <3> QED
        BY <1>3, <2>3, <3>1, <3>2, <3>3 DEF Stands
    <2> QED
      BY <2>2, <2>3
  <1>4. CASE ask.kind = "model reset"
    <2>1. Changed(config, ask) = ResetModel(config, ask.scope)
      BY <1>4 DEF Changed
    <2>2. IsConfig(ResetModel(config, ask.scope))
      BY <1>0, <1>g, EditedIsEntry, WithEntryIsConfig DEF ResetModel
    <2> QED
      BY <1>4, <2>1, <2>2 DEF Stands
  <1>5. CASE ask.kind = "put"
    <2>1. Changed(config, ask) = PutConfig(config, ask)
      BY <1>5 DEF Changed
    <2> DEFINE providers == IF ask.update = None THEN config.providers
                            ELSE UpdateProvider(config.providers, ask.id, ask.update)
               base == [config EXCEPT !.model = ask.model, !.providers = providers,
                                      !.provider = IF ask.provider \in DOMAIN providers THEN ask.provider ELSE @]
               web == WithEntry(base, "web", [Entry(base, "web") EXCEPT !.enabled = ask.enabled])
    <2>2. DOMAIN base = DOMAIN config /\ base.channels = config.channels
      <3> HIDE DEF providers
      <3> QED
        BY DEF IsConfig, Fields
    <2>3. IsConfig(base)
      <3> HIDE DEF base
      <3> QED
        BY <2>2 DEF IsConfig
    <2> HIDE DEF base
    <2>4. IsConfig(web)
      BY <2>3, EntryIsOwn, EditedIsEntry, WithEntryIsConfig
    <2>5. PutConfig(config, ask) = IF ask.override = None THEN web
            ELSE WithEntry(web, "discord", [Entry(web, "discord") EXCEPT !.provider = ask.override])
      BY DEF PutConfig, base
    <2> HIDE DEF web
    <2> DEFINE bot == [Entry(web, "discord") EXCEPT !.provider = ask.override]
    <2>6. IsEntry(bot)
      BY <2>4, EntryIsOwn, EditedIsEntry, Zenon
    <2> HIDE DEF bot
    <2>7. IsConfig(WithEntry(web, "discord", bot))
      BY <2>4, <2>6, WithEntryIsConfig, Zenon
    <2>8. IsConfig(PutConfig(config, ask))
      BY <2>4, <2>5, <2>7 DEF bot
    <2> QED
      BY <1>5, <2>1, <2>8 DEF Stands
  <1> QED
    BY <1>1, <1>2, <1>3, <1>4, <1>5
-------------------------------------------------------------------------------
LEMMA ConfigInitHolds == ConfigInit => ConfigInv
  <1> SUFFICES ASSUME ConfigInit PROVE ConfigInv
    OBVIOUS
  <1>1. file # None => IsFile(file)
    <2> SUFFICES ASSUME file # None PROVE IsFile(file)
      OBVIOUS
    <2>1. file = FirstFile /\ FirstFile # None
      BY DEF ConfigInit
    <2>2. \A c \in DOMAIN FirstFile.channels : FirstFile.channels[c].token \in TokensIn(FirstFile) \cup {None}
      BY <2>1 DEF TokensIn
    <2> QED
      BY <2>1, <2>2, ConfigConstants DEF IsFile, Fields, OwnTokens
  <1>2. DOMAIN writer = Writers /\ \A w \in Writers : writer[w].at = "idle"
    BY DEF ConfigInit, Idle
  <1> QED
    BY <1>1, <1>2 DEF ConfigInv, WriterHolds

(* One writer goes on, the others and the file are left alone.             *)
LEMMA OneWriterGoesOn ==
  ASSUME ConfigInv, NEW w \in Writers, NEW next, writer' = [writer EXCEPT ![w] = next],
         next.at \in {"checked", "changed", "saved"} => "ask" \in DOMAIN next /\ next.ask \in Asked,
         next.at \in {"changed", "saved"} =>
           "config" \in DOMAIN next /\ IsConfig(next.config) /\ Stands(next.config, next.ask),
         file' # None => IsFile(file)'
  PROVE  ConfigInv'
  <1>1. DOMAIN writer' = Writers /\ writer'[w] = next /\ \A v \in Writers : v # w => writer'[v] = writer[v]
    BY DEF ConfigInv
  <1>2. \A config : IsConfig(config)' <=> IsConfig(config)
    BY DEF IsConfig, IsEntry, Fields, EntryFields, OwnTokens, TokensIn
  <1>3. \A v \in Writers : WriterHolds(v)'
    <2> TAKE v \in Writers
    <2>1. CASE v = w
      BY <1>1, <2>1 DEF WriterHolds, IsConfig, IsEntry, Fields, EntryFields, OwnTokens, TokensIn, Stands
    <2>2. CASE v # w
      <3>1. writer'[v] = writer[v]
        BY <1>1, <2>2
      <3>2. WriterHolds(v)
        BY DEF ConfigInv
      <3> QED
        BY <3>1, <3>2 DEF WriterHolds, IsConfig, IsEntry, Fields, EntryFields, OwnTokens, TokensIn, Stands
    <2> QED
      BY <2>1, <2>2
  <1> QED
    BY <1>1, <1>3 DEF ConfigInv

LEMMA SameFile ==
  ASSUME ConfigInv, file' = file
  PROVE  file' # None => IsFile(file)'
  BY DEF ConfigInv, IsFile, Fields, OwnTokens, TokensIn

LEMMA WritersKeep ==
  ASSUME ConfigInv, NEW w \in Writers, Receive(w) \/ Change(w) \/ Save(w) \/ Report(w)
  PROVE  ConfigInv'
  <1>0. WriterHolds(w) /\ w \in DOMAIN writer
    BY DEF ConfigInv
  <1>1. CASE Receive(w)
    <2>1. PICK ask \in Asked :
            \/ Failed(w) \/ Answered(w, None)
            \/ writer' = [writer EXCEPT ![w] = [at |-> "checked", ask |-> ask]]
      BY <1>1 DEF Receive
    <2>2. file' # None => IsFile(file)'
      BY <1>1, SameFile DEF Receive
    <2>3. PICK next \in {[at |-> "failed"], [at |-> "answered", reply |-> None], [at |-> "checked", ask |-> ask]} :
            writer' = [writer EXCEPT ![w] = next]
      BY <2>1 DEF Failed, Answered
    <2>4. /\ next.at \notin {"changed", "saved"}
          /\ next.at = "checked" => "ask" \in DOMAIN next /\ next.ask \in Asked
      BY <2>3
    <2> QED
      BY <2>2, <2>3, <2>4, OneWriterGoesOn
  <1>2. CASE Change(w)
    <2> DEFINE ask == writer[w].ask
               old == Loaded(file, env)
               new == Changed(old, ask)
               changed == [at |-> "changed", ask |-> ask, config |-> new]
    <2>1. ask \in Asked
      BY <1>0, <1>2 DEF Change, WriterHolds
    <2>2. file' # None => IsFile(file)'
      BY <1>2, SameFile DEF Change
    <2>3. CASE Failed(w)
      <3>1. writer' = [writer EXCEPT ![w] = [at |-> "failed"]]
        BY <2>3 DEF Failed
      <3>2. [at |-> "failed"].at \notin {"checked", "changed", "saved"}
        OBVIOUS
      <3> QED
        BY <2>2, <3>1, <3>2, OneWriterGoesOn
    <2>4. CASE Loads(file, env, TRUE) /\ writer' = [writer EXCEPT ![w] = changed]
      <3>1. IsFile(file)
        BY <2>4 DEF Loads, ConfigInv
      <3>2. IsConfig(old)
        BY <3>1, LoadedIsConfig
      <3> HIDE DEF old, ask
      <3>3. IsConfig(new) /\ Stands(new, ask)
        BY <2>1, <3>2, ChangedIsConfig, ConfigConstants
      <3> HIDE DEF new
      <3>4. changed.at = "changed" /\ DOMAIN changed = {"at", "ask", "config"} /\ changed.ask = ask /\ changed.config = new
        OBVIOUS
      <3> HIDE DEF changed
      <3> QED
        BY <2>1, <2>2, <2>4, <3>3, <3>4, OneWriterGoesOn
    <2> QED
      BY <1>2, <2>3, <2>4 DEF Change
  <1>3. CASE Save(w)
    <2> DEFINE saved == [writer[w] EXCEPT !.at = "saved"]
    <2>1. /\ "ask" \in DOMAIN writer[w] /\ writer[w].ask \in Asked
          /\ "config" \in DOMAIN writer[w] /\ IsConfig(writer[w].config) /\ Stands(writer[w].config, writer[w].ask)
      BY <1>0, <1>3 DEF Save, WriterHolds
    <2>2. file' = Saved(writer[w].config) /\ writer' = [writer EXCEPT ![w] = saved]
      BY <1>3 DEF Save
    <2>3. DOMAIN saved = DOMAIN writer[w] /\ saved.ask = writer[w].ask /\ saved.config = writer[w].config
      BY <2>1
    <2>4. IsFile(Saved(writer[w].config))
      BY <2>1, SavedIsFile
    <2>5. IsFile(file)'
      BY <2>2, <2>4 DEF IsFile, Fields, OwnTokens, TokensIn
    <2> HIDE DEF saved
    <2> QED
      BY <2>1, <2>2, <2>3, <2>5, OneWriterGoesOn
  <1>4. CASE Report(w)
    <2>1. \E next : writer' = [writer EXCEPT ![w] = next] /\ next.at \notin {"checked", "changed", "saved"}
      <3>1. Failed(w) \/ \E reply : Answered(w, reply)
        BY <1>4 DEF Report
      <3>2. /\ [at |-> "failed"].at \notin {"checked", "changed", "saved"}
            /\ \A reply : [at |-> "answered", reply |-> reply].at \notin {"checked", "changed", "saved"}
        OBVIOUS
      <3> QED
        BY <3>1, <3>2 DEF Failed, Answered
    <2>2. file' # None => IsFile(file)'
      BY <1>4, SameFile DEF Report
    <2> QED
      BY <2>1, <2>2, OneWriterGoesOn
  <1> QED
    BY <1>1, <1>2, <1>3, <1>4

LEMMA SameWriters ==
  ASSUME ConfigInv, writer' = writer, file' # None => IsFile(file)'
  PROVE  ConfigInv'
  BY DEF ConfigInv, WriterHolds, IsConfig, IsEntry, Fields, EntryFields, OwnTokens, TokensIn, Stands

LEMMA HostKeepsConfig ==
  ASSUME ConfigInv, StartHost \/ StopHost
  PROVE  ConfigInv'
  <1>1. file' # None => IsFile(file)'
    BY SameFile DEF StartHost, StopHost
  <1>2. CASE StartHost
    BY <1>1, <1>2, SameWriters DEF StartHost
  <1>3. CASE StopHost
    <2>1. writer' = [w \in Writers |-> IF writer[w].at \in {"idle", "answered"} THEN writer[w] ELSE [at |-> "failed"]]
      BY <1>3 DEF StopHost
    <2>2. DOMAIN writer' = Writers
      BY <2>1
    <2>3. \A w \in Writers : writer'[w].at \notin {"checked", "changed", "saved"}
      <3> TAKE w \in Writers
      <3>1. writer'[w] = IF writer[w].at \in {"idle", "answered"} THEN writer[w] ELSE [at |-> "failed"]
        BY <2>1
      <3>2. [at |-> "failed"].at = "failed"
        OBVIOUS
      <3> QED
        BY <3>1, <3>2
    <2> QED
      BY <1>1, <2>2, <2>3 DEF ConfigInv, WriterHolds
  <1> QED
    BY <1>2, <1>3

(* The wizard writes no token at all.                                      *)
LEMMA SetupWritesNone ==
  ASSUME NEW fields, NEW original
  PROVE  IsFile(Saved(SetupConfig(fields, original)))
  <1> DEFINE config == SetupConfig(fields, original)
             channels == SetupChannels(fields, original)
             new == [c \in DOMAIN channels |->
                       [enabled |-> channels[c].enabled, token |-> channels[c].file,
                        provider |-> channels[c].provider, model |-> channels[c].model]]
  <1>1. \A c \in DOMAIN channels : \E entry : channels[c] = Put(entry, "file", None)
    BY DEF SetupChannels
  <1>2. \A entry : Put(entry, "file", None).file = None
    BY DEF Put
  <1>3. \A c \in DOMAIN channels : channels[c].file = None
    BY <1>1, <1>2, Zenon
  <1>4. DOMAIN config = Fields /\ config.channels = channels
    BY DEF SetupConfig, Fields
  <1> HIDE DEF channels, config
  <1>5. DOMAIN new = DOMAIN channels /\ \A c \in DOMAIN new : new[c].token = None
    BY <1>3
  <1>6. Saved(config) = [config EXCEPT !.channels = new]
    BY <1>4 DEF Saved
  <1> HIDE DEF new
  <1>7. DOMAIN Saved(config) = Fields /\ Saved(config).channels = new
    BY <1>4, <1>6 DEF Fields
  <1>8. IsFile(Saved(config))
    BY <1>5, <1>7 DEF IsFile, OwnTokens
  <1> QED
    BY <1>8 DEF config

LEMMA WizardKeeps ==
  ASSUME ConfigInv, OpenWizard \/ PickProvider \/ EditField \/ SaveSetup \/ CancelWizard
  PROVE  ConfigInv'
  <1>1. CASE OpenWizard \/ PickProvider \/ EditField \/ CancelWizard
    BY <1>1, SameFile, SameWriters DEF OpenWizard, PickProvider, EditField, CancelWizard
  <1>2. CASE SaveSetup
    <2>1. file' = Saved(SetupConfig(wizard.fields, wizard.original)) /\ writer' = writer
      BY <1>2 DEF SaveSetup
    <2>2. IsFile(Saved(SetupConfig(wizard.fields, wizard.original)))
      BY SetupWritesNone
    <2>3. IsFile(file)'
      BY <2>1, <2>2 DEF IsFile, Fields, OwnTokens, TokensIn
    <2> QED
      BY <2>1, <2>3, SameWriters
  <1> QED
    BY <1>1, <1>2

LEMMA ConfigStepKeeps == ConfigInv /\ [ConfigNext]_configVars => ConfigInv'
  <1> SUFFICES ASSUME ConfigInv, [ConfigNext]_configVars PROVE ConfigInv'
    OBVIOUS
  <1>1. CASE \E w \in Writers : Receive(w) \/ Change(w) \/ Save(w) \/ Report(w)
    BY <1>1, WritersKeep
  <1>2. CASE StartHost \/ StopHost
    BY <1>2, HostKeepsConfig
  <1>3. CASE OpenWizard \/ PickProvider \/ EditField \/ SaveSetup \/ CancelWizard
    BY <1>3, WizardKeeps
  <1>4. CASE UNCHANGED configVars
    BY <1>4, SameFile, SameWriters DEF configVars
  <1> QED
    BY <1>1, <1>2, <1>3, <1>4 DEF ConfigNext

LEMMA ConfigHolds == ConfigSpec => []ConfigInv
  BY ConfigInitHolds, ConfigStepKeeps, PTL DEF ConfigSpec

(* The file holds no token but those somebody wrote into it, whatever the  *)
(* environments, the first file and the commands, and however they and the *)
(* wizard interleave.                                                      *)
THEOREM EnvTokensAreNotSaved == ConfigSpec => []EnvTokensStayOut
  <1>1. ConfigInv => EnvTokensStayOut
    BY DEF ConfigInv, IsFile, OwnTokens, EnvTokensStayOut, TokensIn
  <1> QED
    BY ConfigHolds, <1>1, PTL
-------------------------------------------------------------------------------
(* A reading of what was saved resolves to what was asked for.             *)
LEMMA ReadsBack ==
  ASSUME NEW config, NEW e, NEW ask \in Asked, IsConfig(config), Stands(config, ask), ask.kind \in {"provider", "model"}
  PROVE  TakesEffect(ask, Resolve(Loaded(Saved(config), e), ask.scope))
  <1> DEFINE f == Saved(config)
             read == Loaded(f, e)
             scope == ask.scope
  <1>1. /\ IsFile(f) /\ f.provider = config.provider /\ f.model = config.model
        /\ DOMAIN f.channels = DOMAIN config.channels
        /\ \A c \in DOMAIN config.channels :
             f.channels[c].provider = config.channels[c].provider /\ f.channels[c].model = config.channels[c].model
    BY SavedIsFile
  <1> HIDE DEF f
  <1>2. /\ read.provider = f.provider /\ read.model = f.model
        /\ \A c \in DOMAIN f.channels :
             /\ c \in DOMAIN read.channels
             /\ read.channels[c].provider = f.channels[c].provider /\ read.channels[c].model = f.channels[c].model
    BY <1>1, LoadedIsConfig
  <1> HIDE DEF read
  <1>3. CASE ask.kind = "provider"
    <2>1. ask.id # None
      BY <1>3, ConfigConstants
    <2>2. CASE scope = "global"
      <3>1. Resolve(read, scope).provider = read.provider
        BY <2>2 DEF Resolve, ResolveGlobal
      <3> QED
        BY <1>1, <1>2, <1>3, <2>2, <3>1 DEF Stands, TakesEffect, read, f
    <2>3. CASE scope # "global"
      <3>1. scope \in DOMAIN read.channels /\ read.channels[scope].provider = ask.id
        BY <1>1, <1>2, <1>3, <2>3 DEF Stands
      <3>2. Resolve(read, scope).provider = Option(read.channels[scope].provider, read.provider)
        BY <2>3, <3>1 DEF Resolve
      <3>3. Resolve(read, scope).provider = ask.id
        BY <2>1, <3>1, <3>2 DEF Option
      <3> QED
        BY <1>3, <3>3 DEF TakesEffect, read, f
    <2> QED
      BY <2>2, <2>3
  <1>4. CASE ask.kind = "model"
    <2>1. ask.model # None
      BY <1>4, ConfigConstants
    <2>2. CASE scope = "global"
      <3>1. Resolve(read, scope).model = Option(read.model, read.providers[read.provider].model)
        BY <2>2 DEF Resolve, ResolveGlobal
      <3>2. Resolve(read, scope).model = ask.model
        BY <1>1, <1>2, <1>4, <2>1, <2>2, <3>1 DEF Stands, Option
      <3> QED
        BY <1>4, <3>2 DEF TakesEffect, read, f
    <2>3. CASE scope # "global"
      <3>1. scope \in DOMAIN read.channels /\ read.channels[scope].model = ask.model
        BY <1>1, <1>2, <1>4, <2>3 DEF Stands
      <3>2. \E default : Resolve(read, scope).model = Option(read.channels[scope].model, default)
        BY <2>3, <3>1 DEF Resolve
      <3>3. Resolve(read, scope).model = ask.model
        BY <2>1, <3>1, <3>2 DEF Option
      <3> QED
        BY <1>4, <3>3 DEF TakesEffect, read, f
    <2> QED
      BY <2>2, <2>3
  <1> QED
    BY <1>3, <1>4

(* What a command answers holds for its scope while the file is the one it *)
(* wrote: nothing of the change is lost on the way through the file and    *)
(* the environment, whichever of both there are.                           *)
THEOREM AnswersHold == ConfigSpec => AnswersComeTrue
  <1>1. ASSUME ConfigInv, [ConfigNext]_configVars, NEW w \in Writers,
               writer[w].at = "saved", file = Saved(writer[w].config), writer[w]'.at = "answered"
        PROVE  TakesEffect(writer[w].ask, writer[w]'.reply.llm)
    <2> DEFINE ask == writer[w].ask
               config == writer[w].config
    <2>1. ask \in Asked /\ IsConfig(config) /\ Stands(config, ask)
      BY <1>1 DEF ConfigInv, WriterHolds
    <2>2. writer'[w] # writer[w] /\ DOMAIN writer = Writers
      BY <1>1 DEF ConfigInv
    <2>3. Report(w)
      <3>1. ASSUME NEW v \in Writers, v # w, Receive(v) \/ Change(v) \/ Save(v) \/ Report(v)
            PROVE  writer'[w] = writer[w]
        <4>1. \E next : writer' = [writer EXCEPT ![v] = next]
          BY <3>1 DEF Receive, Change, Save, Report, Failed, Answered
        <4> QED
          BY <3>1, <4>1, <2>2
      <3>2. ~Receive(w) /\ ~Change(w) /\ ~Save(w)
        BY <1>1 DEF Receive, Change, Save
      <3>3. ASSUME StopHost PROVE FALSE
        <4>1. writer'[w] = [at |-> "failed"]
          BY <1>1, <3>3 DEF StopHost
        <4> QED
          BY <1>1, <4>1
      <3>4. ~StartHost /\ ~OpenWizard /\ ~PickProvider /\ ~EditField /\ ~SaveSetup /\ ~CancelWizard /\ ~UNCHANGED configVars
        BY <2>2 DEF StartHost, OpenWizard, PickProvider, EditField, SaveSetup, CancelWizard, configVars
      <3> QED
        BY <1>1, <2>2, <3>1, <3>2, <3>3, <3>4 DEF ConfigNext
    <2>4. CASE ask.kind \in {"provider", "model"}
      <3> DEFINE llm == Resolve(Loaded(file, env), ask.scope)
      <3>1. \/ Failed(w)
            \/ \E default : Answered(w, [kind |-> ask.kind, llm |-> llm, default |-> default])
        BY <2>3, <2>4 DEF Report
      <3>2. ~Failed(w)
        <4> SUFFICES ASSUME Failed(w) PROVE FALSE
          OBVIOUS
        <4>1. writer'[w] = [at |-> "failed"]
          BY <2>2 DEF Failed
        <4> QED
          BY <1>1, <4>1
      <3>3. PICK default : Answered(w, [kind |-> ask.kind, llm |-> llm, default |-> default])
        BY <3>1, <3>2
      <3>4. writer'[w] = [at |-> "answered", reply |-> [kind |-> ask.kind, llm |-> llm, default |-> default]]
        BY <2>2, <3>3 DEF Answered
      <3> HIDE DEF llm
      <3>5. writer'[w].reply.llm = llm
        BY <3>4
      <3>6. TakesEffect(ask, llm)
        BY <1>1, <2>1, <2>4, ReadsBack DEF llm
      <3> QED
        BY <3>5, <3>6
    <2>5. CASE ask.kind \notin {"provider", "model"}
      BY <2>5 DEF TakesEffect
    <2> QED
      BY <2>4, <2>5
  <1>2. ConfigInv /\ [ConfigNext]_configVars =>
          [\A w \in Writers :
             writer[w].at = "saved" /\ file = Saved(writer[w].config) /\ writer[w]'.at = "answered"
               => TakesEffect(writer[w].ask, writer[w]'.reply.llm)]_configVars
    BY <1>1
  <1> QED
    BY ConfigHolds, <1>2, PTL DEF ConfigSpec, AnswersComeTrue
-------------------------------------------------------------------------------
(***************************************************************************)
(* Skills.                                                                 *)
(***************************************************************************)

LEMMA SkillPlacesAre ==
  /\ Range(SkillPlaces) = {"user", "workspace", "builtin"}
  /\ Rank("user") = 1 /\ Rank("workspace") = 2 /\ Rank("builtin") = 3
  <1>1. /\ DOMAIN SkillPlaces = 1..3
        /\ SkillPlaces[1] = "user" /\ SkillPlaces[2] = "workspace" /\ SkillPlaces[3] = "builtin"
    BY DEF SkillPlaces
  <1>2. \A i : i \in 1..3 <=> i = 1 \/ i = 2 \/ i = 3
    OBVIOUS
  <1>3. Range(SkillPlaces) = {"user", "workspace", "builtin"}
    BY <1>1, <1>2 DEF Range
  <1>4. Rank("user") = 1
    BY <1>1, <1>2 DEF Rank
  <1>5. Rank("workspace") = 2
    BY <1>1, <1>2 DEF Rank
  <1>6. Rank("builtin") = 3
    BY <1>1, <1>2 DEF Rank
  <1> QED
    BY <1>3, <1>4, <1>5, <1>6

(* Of the directories that offer a skill one is before all the others.     *)
LEMMA BestIsFirst ==
  ASSUME NEW dirs, dirs \subseteq SkillDirs, dirs # {}
  PROVE  /\ Best(dirs) \in dirs
         /\ \A d \in dirs : d # Best(dirs) => Before(Best(dirs), d)
  <1>1. \A d \in SkillDirs : d.place \in {"user", "workspace", "builtin"} /\ d.id \in Nat /\ Rank(d.place) \in 1..3
    BY SkillPlacesAre, PromptConstants
  <1>2. \A d, e \in SkillDirs : d.place = e.place /\ d.id = e.id => d = e
    BY PromptConstants
  <1>3. \A d, e \in SkillDirs : Rank(d.place) = Rank(e.place) => d.place = e.place
    BY <1>1, SkillPlacesAre
  <1> DEFINE Ranks == {Rank(d.place) : d \in dirs}
  <1>4. PICK first \in dirs : \A d \in dirs : Rank(first.place) <= Rank(d.place)
    <2>1. Ranks \subseteq Nat /\ Ranks # {}
      BY <1>1
    <2> HIDE DEF Ranks
    <2>2. PICK least \in Ranks : \A r \in Ranks : least <= r
      BY <2>1, LeastId
    <2> QED
      BY <2>2 DEF Ranks
  <1> DEFINE Same == {d \in dirs : d.place = first.place}
             Ids0 == {d.id : d \in Same}
  <1>5. PICK best \in Same : \A d \in Same : best.id <= d.id
    <2>1. Ids0 \subseteq Nat /\ Ids0 # {}
      BY <1>1
    <2> HIDE DEF Ids0
    <2>2. PICK least \in Ids0 : \A i \in Ids0 : least <= i
      BY <2>1, LeastId
    <2> QED
      BY <2>2 DEF Ids0
  <1>6. \A e \in dirs \ {best} : Before(best, e)
    <2> TAKE e \in dirs \ {best}
    <2>1. CASE e.place = best.place
      <3>1. e \in Same /\ e.id # best.id /\ best.id <= e.id
        BY <1>2, <1>5, <2>1
      <3> QED
        BY <1>1, <2>1, <3>1 DEF Before
    <2>2. CASE e.place # best.place
      <3>1. Rank(best.place) <= Rank(e.place) /\ Rank(best.place) # Rank(e.place)
        BY <1>3, <1>4, <1>5, <2>2
      <3> QED
        BY <1>1, <3>1 DEF Before
    <2> QED
      BY <2>1, <2>2
  <1>7. best \in dirs
    OBVIOUS
  <1>8. Best(dirs) \in dirs /\ \A e \in dirs \ {Best(dirs)} : Before(Best(dirs), e)
    BY <1>6, <1>7 DEF Best
  <1> QED
    BY <1>8

(* Two directories are in one order or the other, and are no missing file. *)
LEMMA OneIsBefore ==
  \A d, e \in SkillDirs : /\ d # e => Before(d, e) \/ Before(e, d)
                         /\ ~(Before(d, e) /\ Before(e, d))
  <1> SUFFICES ASSUME NEW d \in SkillDirs, NEW e \in SkillDirs
               PROVE  (d # e => Before(d, e) \/ Before(e, d)) /\ ~(Before(d, e) /\ Before(e, d))
    OBVIOUS
  <1>1. \A x \in {d, e} : x.place \in {"user", "workspace", "builtin"} /\ x.id \in Nat /\ Rank(x.place) \in 1..3
    BY SkillPlacesAre, PromptConstants
  <1>2. d.place = e.place /\ d.id = e.id => d = e
    BY PromptConstants
  <1>3. Rank(d.place) = Rank(e.place) => d.place = e.place
    BY <1>1, SkillPlacesAre
  <1> QED
    BY <1>1, <1>2, <1>3 DEF Before

LEMMA DirsAreNoFile == NoFile \notin SkillDirs
  BY PromptConstants DEF NoFile

(* A skill that is found is offered, and by no directory before.           *)
LEMMA FoundIsFirst ==
  ASSUME NEW n \in DOMAIN Discovered
  PROVE  Discovered[n] \in Offers(n) /\ \A d \in Offers(n) : ~Before(d, Discovered[n])
  <1>1. Discovered[n] = Best(Offers(n)) /\ Offers(n) # {} /\ Offers(n) \subseteq SkillDirs
    BY DEF Discovered, Offers
  <1>2. Best(Offers(n)) \in Offers(n) /\ \A d \in Offers(n) : d # Best(Offers(n)) => Before(Best(Offers(n)), d)
    BY <1>1, BestIsFirst
  <1>3. \A d \in Offers(n) : ~Before(d, Best(Offers(n)))
    BY <1>1, <1>2, OneIsBefore
  <1> QED
    BY <1>1, <1>2, <1>3

-------------------------------------------------------------------------------
(* What was found when the directories were looked through still holds of  *)
(* all that were not changed since: who is before it does not offer the    *)
(* name, and it offers the name itself.                                    *)
Looked(n, dir, changed) ==
  /\ \A d \in Offers(n) : dir = NoFile \/ Before(d, dir) => d \in changed
  /\ dir \in changed \cup Offers(n) \cup {NoFile}

PromptInv ==
  /\ skills \in [SkillDirs -> SkillFiles \cup {NoFile}]
  /\ prompt.changed \subseteq SkillDirs
  /\ \A n \in DOMAIN prompt.catalog :
       prompt.catalog[n] \in SkillDirs /\ Looked(n, prompt.catalog[n], prompt.changed)
  /\ prompt = [catalog |-> prompt.catalog, changed |-> prompt.changed]
  /\ skill \in [at : {"idle", "found", "told"}, name : Names \cup {0}, dir : SkillDirs \cup {NoFile},
                read : SkillFiles \cup {NoFile, NotFound}, changed : SUBSET SkillDirs]
  /\ skill.at # "idle" => Looked(skill.name, skill.dir, skill.changed)
  /\ skill.at = "found" => skill.dir \in SkillDirs
  /\ skill.at = "told" /\ skill.dir \in SkillDirs \ skill.changed => skill.read = skills[skill.dir]

LEMMA PromptBegins == PromptInit => PromptInv
  BY DEF PromptInit, PromptInv, NoPrompt, NoSkill

LEMMA FilesStay ==
  ASSUME UNCHANGED <<skills, userDir>>
  PROVE  \A n, dir, changed : Looked(n, dir, changed) => Looked(n, dir, changed)'
  BY DEF Looked, Offers, Scanned

(* A scan finds what it says, with nothing changed.                        *)
LEMMA ScanFinds ==
  ASSUME NEW n \in Names
  PROVE  /\ n \in DOMAIN Discovered => Discovered[n] \in SkillDirs /\ Looked(n, Discovered[n], {})
         /\ n \notin DOMAIN Discovered => Looked(n, NoFile, {})
  <1>1. CASE n \in DOMAIN Discovered
    <2>1. Discovered[n] \in Offers(n) /\ \A d \in Offers(n) : ~Before(d, Discovered[n])
      BY <1>1, FoundIsFirst
    <2>2. Discovered[n] \in SkillDirs /\ Discovered[n] # NoFile
      BY <2>1, DirsAreNoFile DEF Offers
    <2> QED
      BY <1>1, <2>1, <2>2 DEF Looked
  <1>2. CASE n \notin DOMAIN Discovered
    BY <1>2 DEF Discovered, Looked
  <1> QED
    BY <1>1, <1>2

(* What the user changes is known to be changed.                           *)
LEMMA ChangeKeeps ==
  ASSUME PromptInv, NEW dirs, dirs \subseteq SkillDirs, ChangeSkills(dirs),
         skills' \in [SkillDirs -> SkillFiles \cup {NoFile}],
         \A d \in SkillDirs \ dirs : skills'[d] = skills[d],
         \A d \in SkillDirs \ dirs : d.place \in Scanned' <=> d.place \in Scanned
  PROVE  PromptInv'
  <1>1. /\ prompt'.catalog = prompt.catalog /\ prompt'.changed = prompt.changed \cup dirs
        /\ prompt' = [catalog |-> prompt'.catalog, changed |-> prompt'.changed]
    BY DEF ChangeSkills, PromptInv
  <1>2. /\ skill' \in [at : {"idle", "found", "told"}, name : Names \cup {0}, dir : SkillDirs \cup {NoFile},
                       read : SkillFiles \cup {NoFile, NotFound}, changed : SUBSET SkillDirs]
        /\ skill'.at = skill.at /\ skill'.name = skill.name /\ skill'.dir = skill.dir /\ skill'.read = skill.read
        /\ skill'.changed = skill.changed \cup dirs
    BY DEF ChangeSkills, PromptInv
  <1>3. \A n : \A d \in SkillDirs \ dirs : d \in Offers(n)' <=> d \in Offers(n)
    BY DEF Offers
  <1>4. ASSUME NEW n, NEW dir, NEW changed, Looked(n, dir, changed)
        PROVE  /\ \A d \in Offers(n)' : dir = NoFile \/ Before(d, dir) => d \in changed \cup dirs
               /\ dir \in changed \cup dirs \cup Offers(n)' \cup {NoFile}
    <2>1. Offers(n) \subseteq SkillDirs /\ Offers(n)' \subseteq SkillDirs
      BY DEF Offers
    <2> QED
      BY <1>3, <1>4, <2>1 DEF Looked
  <1>5. \A n \in DOMAIN prompt.catalog : Looked(n, prompt.catalog[n], prompt.changed)
    BY DEF PromptInv
  <1>6. \A n \in DOMAIN prompt'.catalog : prompt'.catalog[n] \in SkillDirs /\ Looked(n, prompt.catalog[n], prompt.changed)'
    BY <1>1, <1>4, <1>5 DEF PromptInv, Looked
  <1>7. skill.at # "idle" => Looked(skill.name, skill.dir, skill.changed)'
    BY <1>2, <1>4 DEF PromptInv, Looked
  <1> QED
    BY <1>1, <1>2, <1>6, <1>7 DEF PromptInv

LEMMA PromptStep == PromptInv /\ [PromptNext]_promptVars => PromptInv'
  <1> SUFFICES ASSUME PromptInv, [PromptNext]_promptVars
               PROVE  PromptInv'
    OBVIOUS
  <1>1. CASE BuildPrompt
    <2>1. /\ prompt' = [catalog |-> Catalog, changed |-> {}]
          /\ UNCHANGED <<skills, userDir, skill>>
      BY <1>1 DEF BuildPrompt
    <2>2. \A n \in DOMAIN Catalog : n \in Names /\ n \in DOMAIN Discovered /\ Catalog[n] = Discovered[n]
      BY DEF Catalog, Discovered
    <2>3. \A n \in DOMAIN Catalog : Catalog[n] \in SkillDirs /\ Looked(n, Catalog[n], {})
      BY <2>2, ScanFinds
    <2> DEFINE catalog == Catalog
    <2>4. prompt'.catalog = catalog /\ prompt'.changed = {} /\ prompt' = [catalog |-> prompt'.catalog, changed |-> prompt'.changed]
      BY <2>1
    <2>5. \A n \in DOMAIN catalog : catalog[n] \in SkillDirs /\ Looked(n, catalog[n], {})
      BY <2>3
    <2> HIDE DEF catalog
    <2>6. \A n \in DOMAIN prompt'.catalog : prompt'.catalog[n] \in SkillDirs /\ Looked(n, prompt.catalog[n], prompt.changed)'
      BY <2>1, <2>4, <2>5 DEF Looked, Offers, Scanned
    <2>7. skill.at # "idle" => Looked(skill.name, skill.dir, skill.changed)'
      BY <2>1, FilesStay DEF PromptInv
    <2> QED
      BY <2>1, <2>4, <2>6, <2>7 DEF PromptInv
  <1>2. ASSUME NEW n \in Names, FindSkill(n)
        PROVE  PromptInv'
    <2>1. UNCHANGED <<skills, userDir, prompt>>
      BY <1>2 DEF FindSkill
    <2>2. \A m \in DOMAIN prompt.catalog : Looked(m, prompt.catalog[m], prompt.changed)'
      BY <2>1, FilesStay DEF PromptInv
    <2>3. CASE n \in DOMAIN Discovered
      <3>1. skill' = [at |-> "found", name |-> n, dir |-> Discovered[n], read |-> NoFile, changed |-> {}]
        BY <1>2, <2>3 DEF FindSkill
      <3>2. PICK dir \in SkillDirs : dir = Discovered[n] /\ Looked(n, dir, {})
        BY <2>3, ScanFinds
      <3>3. Looked(n, dir, {})'
        BY <2>1, <3>2 DEF Looked, Offers, Scanned
      <3>4. Looked(skill.name, skill.dir, skill.changed)'
        BY <3>1, <3>2, <3>3 DEF Looked
      <3> QED
        BY <2>1, <2>2, <3>1, <3>2, <3>4 DEF PromptInv
    <2>4. CASE n \notin DOMAIN Discovered
      <3>1. skill' = [at |-> "told", name |-> n, dir |-> NoFile, read |-> NotFound, changed |-> {}]
        BY <1>2, <2>4 DEF FindSkill
      <3>2. Looked(n, NoFile, {})'
        BY <2>1, <2>4, ScanFinds, FilesStay
      <3>3. Looked(skill.name, skill.dir, skill.changed)'
        BY <3>1, <3>2 DEF Looked
      <3>4. NoFile \notin SkillDirs
        BY DirsAreNoFile
      <3> QED
        BY <2>1, <2>2, <3>1, <3>3, <3>4 DEF PromptInv
    <2> QED
      BY <2>3, <2>4
  <1>3. CASE ReadSkill
    <2>1. /\ UNCHANGED <<skills, userDir, prompt>> /\ skill.at = "found" /\ skill.dir \in SkillDirs
      BY <1>3 DEF ReadSkill, PromptInv
    <2>2. PICK read \in SkillFiles \cup {NotFound} : read = IF skills[skill.dir] = NoFile THEN NotFound ELSE skills[skill.dir]
      BY <2>1 DEF PromptInv
    <2>3. skill' = [skill EXCEPT !.at = "told", !.read = read]
      BY <1>3, <2>2 DEF ReadSkill
    <2>4. /\ skill'.at = "told" /\ skill'.name = skill.name /\ skill'.dir = skill.dir /\ skill'.read = read
          /\ skill'.changed = skill.changed
          /\ skill' \in [at : {"idle", "found", "told"}, name : Names \cup {0}, dir : SkillDirs \cup {NoFile},
                         read : SkillFiles \cup {NoFile, NotFound}, changed : SUBSET SkillDirs]
      BY <2>3 DEF PromptInv
    <2>5. skill.dir \notin skill.changed => read = skills[skill.dir]
      <3>1. Looked(skill.name, skill.dir, skill.changed) /\ skill.dir # NoFile
        BY <2>1, DirsAreNoFile DEF PromptInv
      <3> QED
        BY <2>2, <3>1 DEF Looked, Offers
    <2>6. Looked(skill.name, skill.dir, skill.changed)'
      BY <2>1, <2>4, FilesStay DEF PromptInv, Looked
    <2>7. \A m \in DOMAIN prompt.catalog : Looked(m, prompt.catalog[m], prompt.changed)'
      BY <2>1, FilesStay DEF PromptInv
    <2> QED
      BY <2>1, <2>4, <2>5, <2>6, <2>7 DEF PromptInv
  <1>4. CASE MakeUserDir
    <2>1. \A d \in SkillDirs : d.place \in {"user", "workspace", "builtin"}
      BY SkillPlacesAre, PromptConstants
    <2>2. \A d \in SkillDirs : d.place = "workspace" => d.place \in Scanned' /\ d.place \in Scanned
      BY SkillPlacesAre DEF Scanned
    <2> QED
      BY <1>4, <2>2, ChangeKeeps DEF MakeUserDir, PromptInv
  <1>5. ASSUME NEW d \in SkillDirs, NEW c \in SkillFiles \cup {NoFile}, EditSkill(d, c)
        PROVE  PromptInv'
    <2>1. Scanned' = Scanned
      BY <1>5 DEF EditSkill, Scanned
    <2> QED
      BY <1>5, <2>1, ChangeKeeps DEF EditSkill, PromptInv
  <1>6. CASE UNCHANGED promptVars
    <2>1. UNCHANGED <<skills, userDir, prompt, skill>>
      BY <1>6 DEF promptVars
    <2> QED
      BY <2>1, FilesStay DEF PromptInv
  <1> QED
    BY <1>1, <1>2, <1>3, <1>4, <1>5, <1>6 DEF PromptNext

(* Of two that looked, each for the other's directory, one has seen what   *)
(* the other did, but for what was changed in between.                     *)
LEMMA LooksAgree ==
  ASSUME NEW n, NEW s \in SkillDirs \cup {NoFile}, NEW c \in SkillDirs, s # c,
         NEW first, NEW second, Looked(n, s, first), Looked(n, c, second)
  PROVE  {s, c} \cap (first \cup second) # {}
  <1> SUFFICES ASSUME s \notin first \cup second, c \notin first \cup second
               PROVE  FALSE
    OBVIOUS
  <1>1. c \in Offers(n) /\ (s = NoFile \/ s \in Offers(n))
    BY DirsAreNoFile DEF Looked
  <1>2. s # NoFile
    BY <1>1 DEF Looked
  <1>3. Before(s, c) \/ Before(c, s)
    BY <1>2, OneIsBefore
  <1> QED
    BY <1>1, <1>2, <1>3 DEF Looked

(* A skill that is activated is the one that outranks all of its name, but *)
(* for what was changed since, and it is the one the prompt has listed.    *)
THEOREM UsersComeFirst == PromptSpec => []UserSkillsComeFirst
  <1>1. PromptInv => UserSkillsComeFirst
    <2> SUFFICES ASSUME PromptInv, skill.at = "told"
                 PROVE  /\ \A d \in Offers(skill.name) :
                             skill.dir = NoFile \/ Outranks(d, skill.dir) => d \in skill.changed
                        /\ skill.dir # NoFile /\ skill.dir \notin skill.changed =>
                             skill.read # NotFound /\ skill.read.name = skill.name
                        /\ skill.name \in DOMAIN prompt.catalog /\ skill.dir # prompt.catalog[skill.name] =>
                             {skill.dir, prompt.catalog[skill.name]} \cap (prompt.changed \cup skill.changed) # {}
      BY DEF UserSkillsComeFirst
    <2>1. Looked(skill.name, skill.dir, skill.changed) /\ skill.dir \in SkillDirs \cup {NoFile}
      BY DEF PromptInv
    <2>2. \A d \in SkillDirs : skill.dir # NoFile /\ Outranks(d, skill.dir) => Before(d, skill.dir)
      BY <2>1, SkillPlacesAre, PromptConstants DEF Outranks, Before
    <2>3. \A d \in Offers(skill.name) : skill.dir = NoFile \/ Outranks(d, skill.dir) => d \in skill.changed
      BY <2>1, <2>2 DEF Looked, Offers
    <2>4. ASSUME skill.dir # NoFile, skill.dir \notin skill.changed
          PROVE  skill.read # NotFound /\ skill.read.name = skill.name
      <3>1. skill.dir \in Offers(skill.name) /\ skill.read = skills[skill.dir]
        BY <2>1, <2>4 DEF Looked, PromptInv
      <3>2. skill.read \in SkillFiles /\ skill.read.name = skill.name
        BY <2>1, <2>4, <3>1 DEF Offers, PromptInv
      <3> QED
        BY <3>2, PromptConstants
    <2>5. ASSUME skill.name \in DOMAIN prompt.catalog, skill.dir # prompt.catalog[skill.name]
          PROVE  {skill.dir, prompt.catalog[skill.name]} \cap (prompt.changed \cup skill.changed) # {}
      <3>1. prompt.catalog[skill.name] \in SkillDirs /\ Looked(skill.name, prompt.catalog[skill.name], prompt.changed)
        BY <2>5 DEF PromptInv
      <3>2. {skill.dir, prompt.catalog[skill.name]} \cap (skill.changed \cup prompt.changed) # {}
        BY <2>1, <2>5, <3>1, LooksAgree
      <3> QED
        BY <3>2
    <2> QED
      BY <2>3, <2>4, <2>5
  <1> QED
    BY PromptBegins, PromptStep, <1>1, PTL DEF PromptSpec
-------------------------------------------------------------------------------
(***************************************************************************)
(* The service and the commands that manage it. A command is followed      *)
(* through the list of steps it still has to do.                           *)
(***************************************************************************)

Steps == {"session", "config", "write", "reload", "apply", "start", "stop", "restart", "disable?", "reload?",
          "remove", "show", "replace", "installed?", "enable", "stopped"}
InstallTodos ==
  {<<"session", "config", "write", "reload", "apply">>, <<"config", "write", "reload", "apply">>,
   <<"write", "reload", "apply">>, <<"reload", "restart">>, <<"reload", "enable">>, <<"restart">>,
   <<"enable">>, <<"stopped", "start">>, <<"start">>, <<>>}
UpdateTodos ==
  {<<"replace", "installed?", "session", "restart">>, <<"installed?", "session", "restart">>,
   <<"session", "restart">>, <<"restart">>, <<"stopped", "start">>, <<"start">>, <<>>}

Loading == {<<"reload", "restart">>, <<"reload", "enable">>}   \* the unit is written
Applying == {<<"restart">>, <<"enable">>, <<"stopped", "start">>, <<"start">>}

HostTypeOK ==
  /\ unit \in Units /\ binary \in [HostExes -> Nat]
  /\ manager \in [loaded: Units, enabled: BOOLEAN, wanted: BOOLEAN, orphan: BOOLEAN]
  /\ service \in [at: {"down", "starting", "watching", "closing"}, unit: Units, binary: Nat]
  /\ command \in [action: Actions \cup {"none"}, todo: Seq(Steps), asked: Units,
                  outcome: {"none", "ok", "failed"}]
  /\ command.todo # <<>> => command.asked \in HostUnits

(* A service that nobody wants is stopped for, and is not started again.   *)
StopsAreKept ==
  /\ service.at # "down" /\ ~manager.wanted => Doing("stopped")
  /\ Doing("stopped") => ~manager.wanted
  /\ \A i \in 2..Len(command.todo) : command.todo[i] # "stopped"
  /\ manager.wanted /\ unit = NoUnit => manager.orphan

InstallGoesOn ==
  command.action = "install" =>
    /\ command.todo \in InstallTodos /\ command.asked \in HostUnits
    /\ command.todo \in Loading \cup Applying \/ command.outcome = "ok" => unit = command.asked
    /\ command.todo \in Applying \/ command.outcome = "ok" => manager.loaded = command.asked
    /\ command.todo \in {<<"reload", "enable">>, <<"enable">>} /\ ~manager.orphan => ~manager.wanted
    /\ command.todo = <<"start">> => ~manager.wanted
    /\ command.outcome = "ok" /\ service.at # "down" /\ ~manager.orphan => service.unit = command.asked

UpdateGoesOn ==
  command.action = "update" =>
    /\ command.todo \in UpdateTodos
    /\ command.todo = <<"start">> => ~manager.wanted
    /\ command.outcome = "ok" /\ service.at # "down" /\ unit # NoUnit =>
         service.binary = binary[service.unit.exe]

OutcomesAreLast == command.outcome = "ok" => command.todo = <<>>

HostInv == HostTypeOK /\ StopsAreKept /\ OutcomesAreLast /\ InstallGoesOn /\ UpdateGoesOn

-------------------------------------------------------------------------------
(* Lists of steps.                                                         *)
LEMMA StopsComeFirst ==
  ASSUME NEW S, NEW stop \in S, NEW first \in Seq(S), first # <<>>, first[1] = stop,
         \A i \in 2..Len(first) : first[i] # stop,
         NEW s \in Seq(S), \A i \in 1..Len(s) : s[i] # stop
  PROVE  LET all == first \o s IN
         /\ all \in Seq(S) /\ all # <<>> /\ Head(all) = stop
         /\ \A i \in 2..Len(all) : all[i] # stop
  <1> DEFINE all == first \o s
  <1>1. /\ all \in Seq(S) /\ Len(all) = Len(first) + Len(s)
        /\ Len(first) \in Nat /\ Len(s) \in Nat /\ 1 <= Len(first)
    BY ConcatProperties
  <1>2. \A i \in 1..Len(first) + Len(s) : all[i] = IF i <= Len(first) THEN first[i] ELSE s[i - Len(first)]
    BY ConcatProperties, Zenon
  <1> HIDE DEF all
  <1>3. all[1] = stop
    <2>1. 1 \in 1..Len(first) + Len(s)
      BY <1>1
    <2> QED
      BY <1>1, <1>2, <2>1, Zenon
  <1>4. ASSUME NEW i \in 2..Len(all)
        PROVE  all[i] # stop
    <2>1. i \in 1..Len(first) + Len(s)
      BY <1>1
    <2>2. CASE i <= Len(first)
      <3>1. i \in 2..Len(first)
        BY <1>1, <2>2
      <3> QED
        BY <1>2, <2>1, <2>2, <3>1, Zenon
    <2>3. CASE ~ (i <= Len(first))
      <3>1. i - Len(first) \in 1..Len(s)
        BY <1>1, <2>3
      <3> QED
        BY <1>2, <2>1, <2>3, <3>1, Zenon
    <2> QED
      BY <2>2, <2>3
  <1>5. all # <<>> /\ Head(all) = stop
    BY <1>1, <1>3
  <1> QED
    BY <1>1, <1>4, <1>5 DEF all

LEMMA ShortLists ==
  ASSUME NEW S, NEW a \in S, NEW b \in S, NEW c \in S, NEW d \in S, NEW e \in S
  PROVE  /\ <<a, b>> \in Seq(S) /\ <<a, b, c>> \in Seq(S) /\ <<a, b, c, d>> \in Seq(S)
         /\ <<a, b, c, d, e>> \in Seq(S)
  OBVIOUS

(* What a list goes on with.                                               *)
LEMMA ListsGoOn ==
  /\ Tail(<<"session", "config", "write", "reload", "apply">>) = <<"config", "write", "reload", "apply">>
  /\ Tail(<<"config", "write", "reload", "apply">>) = <<"write", "reload", "apply">>
  /\ Tail(<<"reload", "restart">>) = <<"restart">> /\ Tail(<<"reload", "enable">>) = <<"enable">>
  /\ Tail(<<"stopped", "start">>) = <<"start">>
  /\ Tail(<<"replace", "installed?", "session", "restart">>) = <<"installed?", "session", "restart">>
  /\ Tail(<<"installed?", "session", "restart">>) = <<"session", "restart">>
  /\ Tail(<<"session", "restart">>) = <<"restart">>
  /\ Tail(<<"enable">>) = <<>> /\ Tail(<<"start">>) = <<>> /\ Tail(<<"restart">>) = <<>>
  OBVIOUS

LEMMA ListsBegin ==
  /\ \A todo \in InstallTodos : todo # <<>> =>
       CASE Head(todo) = "session" -> todo = <<"session", "config", "write", "reload", "apply">>
         [] Head(todo) = "config"  -> todo = <<"config", "write", "reload", "apply">>
         [] Head(todo) = "write"   -> todo = <<"write", "reload", "apply">>
         [] Head(todo) = "reload"  -> todo \in Loading
         [] Head(todo) = "restart" -> todo = <<"restart">>
         [] Head(todo) = "enable"  -> todo = <<"enable">>
         [] Head(todo) = "stopped" -> todo = <<"stopped", "start">>
         [] OTHER                  -> todo = <<"start">> /\ Head(todo) = "start"
  /\ \A todo \in UpdateTodos : todo # <<>> =>
       CASE Head(todo) = "replace"    -> todo = <<"replace", "installed?", "session", "restart">>
         [] Head(todo) = "installed?" -> todo = <<"installed?", "session", "restart">>
         [] Head(todo) = "session"    -> todo = <<"session", "restart">>
         [] Head(todo) = "restart"    -> todo = <<"restart">>
         [] Head(todo) = "stopped"    -> todo = <<"stopped", "start">>
         [] OTHER                     -> todo = <<"start">> /\ Head(todo) = "start"
  BY DEF InstallTodos, UpdateTodos, Loading

LEMMA StopsAreFollowed == <<"stopped", "start">> \o <<>> = <<"stopped", "start">>
  <1>1. <<"stopped", "start">> \in Seq(Steps)
    <2>1. "stopped" \in Steps /\ "start" \in Steps
      BY DEF Steps
    <2> QED
      BY <2>1, ShortLists
  <1> QED
    BY <1>1, ConcatEmptySeq

LEMMA TodosAreSteps ==
  /\ \A action \in Actions : Todo(action) \in Seq(Steps) /\ Todo(action) # <<>>
  /\ \A action \in Actions : \A i \in 1..Len(Todo(action)) : Todo(action)[i] # "stopped"
  <1>1. /\ {"session", "config", "write", "reload", "apply", "start", "stop", "restart"} \subseteq Steps
        /\ {"disable?", "reload?", "remove", "show", "replace", "installed?"} \subseteq Steps
    BY DEF Steps
  <1>2. \A action \in Actions : Todo(action) \in Seq(Steps)
    BY <1>1, ShortLists DEF Actions, Todo
  <1>3. \A action \in Actions : Todo(action) # <<>> /\ \A i \in 1..Len(Todo(action)) : Todo(action)[i] # "stopped"
    BY DEF Actions, Todo
  <1> QED
    BY <1>2, <1>3

-------------------------------------------------------------------------------
(* The steps of the process.                                               *)
Services == [at: {"down", "starting", "watching", "closing"}, unit: Units, binary: Nat]

LEMMA ProcessKeeps ==
  ASSUME HostInv, UNCHANGED <<unit, manager, binary, command>>, service' \in Services,
         \/ service'.at = "down"
         \/ /\ service.at # "down"
            /\ service'.unit = service.unit /\ service'.binary = service.binary
         \/ service' = Launched /\ CanLaunch /\ manager.wanted
  PROVE  HostInv'
  <1>1. HostTypeOK' /\ OutcomesAreLast'
    BY DEF HostInv, HostTypeOK, OutcomesAreLast, Services
  <1>2. StopsAreKept'
    BY DEF HostInv, StopsAreKept, Doing, Launched, NotRunning
  <1>3. InstallGoesOn'
    BY DEF HostInv, InstallGoesOn, Launched, NotRunning
  <1>4. UpdateGoesOn'
    BY DEF HostInv, UpdateGoesOn, Launched, NotRunning
  <1> QED
    BY <1>1, <1>2, <1>3, <1>4 DEF HostInv

LEMMA StopsRunning ==
  HostInv => NotRunning \in Services /\ NotRunning.at = "down" /\ (CanLaunch => Launched \in Services)
  BY DEF HostInv, HostTypeOK, Services, NotRunning, Launched, CanLaunch, HostUnits, Units

LEMMA ProcessStep ==
  ASSUME HostInv,
         \/ AutoRestart \/ StartFails \/ StartChannels \/ DieInStatus
         \/ \E c \in HostChannels : ChannelEnds(c)
         \/ Supervise \/ Interrupt \/ Die \/ StopTimesOut \/ UNCHANGED hostVars
  PROVE  HostInv'
  <1>1. service \in Services
    BY DEF HostInv, HostTypeOK, Services
  <1>2. CASE AutoRestart
    BY <1>2, StopsRunning, ProcessKeeps DEF AutoRestart
  <1>3. CASE StartFails \/ DieInStatus \/ Return \/ Die \/ StopTimesOut
    BY <1>3, StopsRunning, ProcessKeeps DEF StartFails, DieInStatus, Return, Die, StopTimesOut, Exit
  <1>4. ASSUME UNCHANGED <<unit, manager, binary, command>>, service.at # "down",
               NEW at \in {"watching", "closing"}, service' = [service EXCEPT !.at = at]
        PROVE  HostInv'
    <2>1. /\ service' \in Services
          /\ service'.unit = service.unit /\ service'.binary = service.binary
      BY <1>1, <1>4 DEF Services
    <2> QED
      BY <1>4, <2>1, ProcessKeeps
  <1>5. CASE StartChannels \/ Notice
    BY <1>4, <1>5 DEF StartChannels, Notice
  <1>6. CASE Interrupt
    BY <1>4, <1>6, StopsRunning, ProcessKeeps DEF Interrupt, Exit
  <1>7. CASE UNCHANGED <<unit, manager, binary, command, service>>
    BY <1>1, <1>7, ProcessKeeps
  <1> QED
    BY <1>2, <1>3, <1>5, <1>6, <1>7 DEF Supervise, ChannelEnds, CloseTask, hostVars

-------------------------------------------------------------------------------
(* The steps of a command.                                                 *)
Commands == [action: Actions \cup {"none"}, todo: Seq(Steps), asked: Units,
             outcome: {"none", "ok", "failed"}]

LEMMA GoesOn ==
  ASSUME HostInv, NEW todo \in Seq(Steps), GoOn(todo)
  PROVE  /\ command' \in Commands
         /\ command'.action = command.action /\ command'.asked = command.asked
         /\ command'.todo = todo
         /\ todo = <<>> => command'.outcome = "ok"
         /\ todo # <<>> => command'.outcome = "none"
  <1>1. PICK old \in Commands : old = command
    BY DEF HostInv, HostTypeOK, Commands
  <1>2. PICK outcome \in {"none", "ok"} : outcome = IF todo = <<>> THEN "ok" ELSE "none"
    OBVIOUS
  <1>3. command' = [old EXCEPT !.todo = todo, !.outcome = outcome]
    BY <1>1, <1>2 DEF GoOn
  <1> QED
    BY <1>1, <1>2, <1>3 DEF Commands

(* What is left of a list does not begin with a stop.                      *)
LEMMA RestGoesOn ==
  ASSUME HostInv, command.todo # <<>>
  PROVE  Rest \in Seq(Steps) /\ \A i \in 1..Len(Rest) : Rest[i] # "stopped"
  <1>1. PICK todo \in Seq(Steps) : todo = command.todo /\ todo # <<>>
    BY DEF HostInv, HostTypeOK
  <1>2. /\ Tail(todo) \in Seq(Steps)
        /\ Len(Tail(todo)) = Len(todo) - 1 /\ Len(todo) \in Nat
        /\ \A i \in 1..Len(Tail(todo)) : Tail(todo)[i] = todo[i + 1]
    BY <1>1, HeadTailProperties
  <1>3. \A i \in 1..Len(Tail(todo)) : Tail(todo)[i] # "stopped"
    BY <1>1, <1>2 DEF HostInv, StopsAreKept
  <1> QED
    BY <1>1, <1>2, <1>3 DEF Rest

LEMMA NoStopNext ==
  ASSUME NEW todo \in Seq(Steps), \A i \in 1..Len(todo) : todo[i] # "stopped"
  PROVE  /\ ~ (todo # <<>> /\ Head(todo) = "stopped")
         /\ \A i \in 2..Len(todo) : todo[i] # "stopped"
  OBVIOUS

(* A step at which a command neither starts nor stops anything, and after  *)
(* which it goes on with a list in which nothing is waited for.            *)
LEMMA QuietKeeps ==
  ASSUME HostInv, command.todo # <<>>, Head(command.todo) # "stopped",
         NEW todo \in Seq(Steps), \A i \in 1..Len(todo) : todo[i] # "stopped",
         command' \in Commands, command'.todo = todo, command'.asked = command.asked,
         command'.outcome = "ok" => todo = <<>>,
         service' = service, binary' \in [HostExes -> Nat], unit' \in Units,
         manager' \in [loaded: Units, enabled: BOOLEAN, wanted: BOOLEAN, orphan: BOOLEAN],
         manager'.wanted = manager.wanted,
         manager'.wanted /\ unit' = NoUnit => manager'.orphan
  PROVE  HostTypeOK' /\ StopsAreKept' /\ OutcomesAreLast'
  <1>1. HostTypeOK'
    BY DEF HostInv, HostTypeOK, Commands
  <1>2. ~Doing("stopped")' /\ \A i \in 2..Len(command'.todo) : command'.todo[i] # "stopped"
    BY NoStopNext DEF Doing
  <1>3. StopsAreKept'
    BY <1>2 DEF HostInv, StopsAreKept, Doing
  <1> QED
    BY <1>1, <1>3 DEF OutcomesAreLast

LEMMA CommandTypes ==
  ASSUME HostInv
  PROVE  /\ command \in Commands /\ unit \in Units /\ binary \in [HostExes -> Nat]
         /\ manager \in [loaded: Units, enabled: BOOLEAN, wanted: BOOLEAN, orphan: BOOLEAN]
         /\ manager.wanted /\ unit = NoUnit => manager.orphan
         /\ command.todo # <<>> => command.asked \in HostUnits
  BY DEF HostInv, HostTypeOK, Commands, StopsAreKept

LEMMA StepFailsKeeps ==
  ASSUME HostInv, StepFails
  PROVE  HostInv'
  <1>1. /\ command.todo # <<>> /\ Head(command.todo) \notin {"stopped", "installed?"}
        /\ UNCHANGED <<manager, binary, service>> /\ unit' \in BrokenOff
    BY DEF StepFails
  <1>4. unit' \in Units /\ (unit' = unit \/ unit' # NoUnit)
    BY <1>1, CommandTypes, HostConstants DEF BrokenOff, Units
  <1>2. CASE Head(command.todo) \in {"disable?", "reload?"} /\ GoOn(Rest)
    <2>1. /\ command' \in Commands /\ command'.todo = Rest /\ command'.asked = command.asked
          /\ command'.action = command.action /\ (command'.outcome = "ok" => Rest = <<>>)
      BY <1>1, <1>2, RestGoesOn, GoesOn
    <2>2. HostTypeOK' /\ StopsAreKept' /\ OutcomesAreLast'
      BY <1>1, <1>4, <2>1, RestGoesOn, QuietKeeps, CommandTypes
    <2>3. command.action \notin {"install", "update"}
      BY <1>1, <1>2, ListsBegin DEF HostInv, InstallGoesOn, UpdateGoesOn, Loading
    <2> QED
      BY <2>1, <2>2, <2>3 DEF HostInv, InstallGoesOn, UpdateGoesOn
  <1>3. CASE command' = [command EXCEPT !.todo = <<>>, !.outcome = "failed"]
    <2>0. PICK todo \in Seq(Steps) : todo = <<>> /\ Len(todo) = 0
      BY EmptySeq
    <2>5. \A i \in 1..Len(todo) : todo[i] # "stopped"
      BY <2>0
    <2>1. /\ command' \in Commands /\ command'.todo = todo /\ command'.asked = command.asked
          /\ command'.action = command.action /\ command'.outcome = "failed"
      <3>1. PICK old \in Commands : old = command
        BY CommandTypes
      <3>2. command' = [old EXCEPT !.todo = todo, !.outcome = "failed"]
        BY <1>3, <2>0, <3>1
      <3> QED
        BY <3>1, <3>2 DEF Commands
    <2>2. HostTypeOK' /\ StopsAreKept' /\ OutcomesAreLast'
      BY <1>1, <1>4, <2>0, <2>1, <2>5, QuietKeeps, CommandTypes
    <2>3. InstallGoesOn'
      BY <1>1, <2>0, <2>1 DEF HostInv, InstallGoesOn, InstallTodos, Loading, Applying
    <2>4. UpdateGoesOn'
      BY <1>1, <2>0, <2>1 DEF HostInv, UpdateGoesOn, UpdateTodos
    <2> QED
      BY <2>2, <2>3, <2>4 DEF HostInv
  <1> QED
    BY <1>2, <1>3 DEF StepFails

LEMMA PassStepKeeps ==
  ASSUME HostInv, PassStep
  PROVE  HostInv'
  <1>1. /\ command.todo # <<>> /\ Head(command.todo) \in {"session", "config", "show"}
        /\ UNCHANGED <<unit, manager, binary, service>> /\ GoOn(Rest)
    BY DEF PassStep, Doing
  <1>2. /\ command' \in Commands /\ command'.todo = Rest /\ command'.asked = command.asked
        /\ command'.action = command.action /\ (command'.outcome = "ok" => Rest = <<>>)
    BY <1>1, RestGoesOn, GoesOn
  <1>3. HostTypeOK' /\ StopsAreKept' /\ OutcomesAreLast'
    BY <1>1, <1>2, RestGoesOn, QuietKeeps, CommandTypes
  <1>4. InstallGoesOn'
    <2> SUFFICES ASSUME command.action = "install"
                 PROVE  InstallGoesOn'
      BY <1>2 DEF InstallGoesOn
    <2>1. Rest \in {<<"config", "write", "reload", "apply">>, <<"write", "reload", "apply">>}
      BY <1>1, ListsBegin, ListsGoOn DEF HostInv, InstallGoesOn, Loading, Rest
    <2>2. Rest \in InstallTodos /\ Rest \notin Loading \cup Applying \cup {<<>>}
      BY <2>1 DEF InstallTodos, Loading, Applying
    <2>3. Rest \notin {<<"reload", "enable">>, <<"enable">>, <<"start">>} /\ command'.outcome # "ok"
      BY <1>2, <2>2 DEF Loading, Applying
    <2>4. command'.asked \in HostUnits
      BY <1>1, <1>2, CommandTypes
    <2> QED
      BY <1>2, <2>2, <2>3, <2>4 DEF InstallGoesOn
  <1>5. UpdateGoesOn'
    <2> SUFFICES ASSUME command.action = "update"
                 PROVE  UpdateGoesOn'
      BY <1>2 DEF UpdateGoesOn
    <2>1. Rest = <<"restart">>
      BY <1>1, ListsBegin, ListsGoOn DEF HostInv, UpdateGoesOn, Rest
    <2> QED
      BY <1>1, <1>2, <2>1 DEF HostInv, UpdateGoesOn, UpdateTodos
  <1> QED
    BY <1>3, <1>4, <1>5 DEF HostInv

LEMMA WriteUnitKeeps ==
  ASSUME HostInv, WriteUnit
  PROVE  HostInv'
  <1>1. PICK next \in {"restart", "enable"} : next = IF unit # NoUnit THEN "restart" ELSE "enable"
    OBVIOUS
  <1>2. /\ command.todo # <<>> /\ Head(command.todo) = "write"
        /\ unit' = command.asked /\ UNCHANGED <<manager, binary, service>> /\ GoOn(<<"reload", next>>)
    BY <1>1 DEF WriteUnit, Doing
  <1>3. <<"reload", next>> \in Seq(Steps)
    <2>1. "reload" \in Steps /\ next \in Steps
      BY DEF Steps
    <2> QED
      BY <2>1, ShortLists
  <1>4. /\ command' \in Commands /\ command'.todo = <<"reload", next>> /\ command'.asked = command.asked
        /\ command'.action = command.action /\ command'.outcome = "none"
    BY <1>2, <1>3, GoesOn
  <1>5. unit' \in HostUnits /\ unit' # NoUnit
    BY <1>2, CommandTypes, HostConstants
  <1>6. HostTypeOK' /\ StopsAreKept' /\ OutcomesAreLast'
    <2>1. \A i \in 1..Len(<<"reload", next>>) : <<"reload", next>>[i] # "stopped"
      OBVIOUS
    <2> QED
      BY <1>2, <1>3, <1>4, <1>5, <2>1, QuietKeeps, CommandTypes DEF Units
  <1>7. InstallGoesOn'
    <2>1. <<"reload", next>> \in InstallTodos /\ <<"reload", next>> \notin Applying
          /\ (<<"reload", next>> = <<"reload", "enable">> => unit = NoUnit)
      BY <1>1 DEF InstallTodos, Applying
    <2>2. <<"reload", next>> \notin {<<"enable">>, <<"start">>}
      OBVIOUS
    <2>3. unit = NoUnit /\ ~manager.orphan => ~manager.wanted
      BY DEF HostInv, StopsAreKept
    <2> QED
      BY <1>2, <1>4, <1>5, <2>1, <2>2, <2>3 DEF InstallGoesOn
  <1>8. UpdateGoesOn'
    BY <1>2, <1>4, ListsBegin DEF HostInv, UpdateGoesOn
  <1> QED
    BY <1>6, <1>7, <1>8 DEF HostInv

LEMMA DaemonReloadKeeps ==
  ASSUME HostInv, DaemonReload
  PROVE  HostInv'
  <1>1. /\ command.todo # <<>> /\ Head(command.todo) \in {"reload", "reload?"}
        /\ UNCHANGED <<unit, binary, service>> /\ GoOn(Rest)
        /\ manager' = [manager EXCEPT !.loaded = unit]
    BY DEF DaemonReload, Doing
  <1>2. /\ command' \in Commands /\ command'.todo = Rest /\ command'.asked = command.asked
        /\ command'.action = command.action /\ (command'.outcome = "ok" => Rest = <<>>)
    BY <1>1, RestGoesOn, GoesOn
  <1>3. /\ manager' \in [loaded: Units, enabled: BOOLEAN, wanted: BOOLEAN, orphan: BOOLEAN]
        /\ manager'.wanted = manager.wanted /\ manager'.orphan = manager.orphan
        /\ manager'.loaded = unit
    BY <1>1, CommandTypes
  <1>4. HostTypeOK' /\ StopsAreKept' /\ OutcomesAreLast'
    BY <1>1, <1>2, <1>3, RestGoesOn, QuietKeeps, CommandTypes
  <1>5. InstallGoesOn'
    <2> SUFFICES ASSUME command.action = "install"
                 PROVE  InstallGoesOn'
      BY <1>2 DEF InstallGoesOn
    <2>1. command.todo \in Loading /\ unit = command.asked
      BY <1>1, ListsBegin DEF HostInv, InstallGoesOn
    <2>2. \/ command.todo = <<"reload", "enable">> /\ Rest = <<"enable">>
          \/ command.todo = <<"reload", "restart">> /\ Rest = <<"restart">>
      BY <2>1, ListsGoOn DEF Loading, Rest
    <2>3. Rest = <<"enable">> /\ ~manager.orphan => ~manager.wanted
      BY <2>2 DEF HostInv, InstallGoesOn
    <2>4. Rest \in InstallTodos /\ Rest # <<>> /\ Rest # <<"reload", "enable">> /\ Rest # <<"start">>
      BY <2>2 DEF InstallTodos
    <2>5. command.asked \in HostUnits
      BY <1>1, CommandTypes
    <2> QED
      BY <1>1, <1>2, <1>3, <2>1, <2>3, <2>4, <2>5 DEF InstallGoesOn
  <1>6. UpdateGoesOn'
    BY <1>1, <1>2, ListsBegin DEF HostInv, UpdateGoesOn
  <1> QED
    BY <1>4, <1>5, <1>6 DEF HostInv

LEMMA RemoveUnitKeeps ==
  ASSUME HostInv, RemoveUnit
  PROVE  HostInv'
  <1>1. /\ command.todo # <<>> /\ Head(command.todo) = "remove"
        /\ unit' = NoUnit /\ UNCHANGED <<binary, service>> /\ GoOn(Rest)
        /\ manager' = [manager EXCEPT !.orphan = @ \/ manager.wanted]
    BY DEF RemoveUnit, Doing
  <1>2. /\ command' \in Commands /\ command'.todo = Rest /\ command'.asked = command.asked
        /\ command'.action = command.action /\ (command'.outcome = "ok" => Rest = <<>>)
    BY <1>1, RestGoesOn, GoesOn
  <1>3. /\ manager' \in [loaded: Units, enabled: BOOLEAN, wanted: BOOLEAN, orphan: BOOLEAN]
        /\ manager'.wanted = manager.wanted /\ (manager.wanted => manager'.orphan)
    BY <1>1, CommandTypes
  <1>4. HostTypeOK' /\ StopsAreKept' /\ OutcomesAreLast'
    BY <1>1, <1>2, <1>3, RestGoesOn, QuietKeeps, CommandTypes DEF Units
  <1>5. command.action \notin {"install", "update"}
    BY <1>1, ListsBegin DEF HostInv, InstallGoesOn, UpdateGoesOn, Loading
  <1> QED
    BY <1>2, <1>4, <1>5 DEF HostInv, InstallGoesOn, UpdateGoesOn

LEMMA ReplaceKeeps ==
  ASSUME HostInv, Replace
  PROVE  HostInv'
  <1>1. /\ command.todo # <<>> /\ Head(command.todo) = "replace"
        /\ binary' \in [HostExes -> Nat] /\ UNCHANGED <<unit, manager, service>> /\ GoOn(Rest)
    BY CommandTypes DEF Replace, Doing
  <1>2. /\ command' \in Commands /\ command'.todo = Rest /\ command'.asked = command.asked
        /\ command'.action = command.action /\ (command'.outcome = "ok" => Rest = <<>>)
    BY <1>1, RestGoesOn, GoesOn
  <1>3. HostTypeOK' /\ StopsAreKept' /\ OutcomesAreLast'
    BY <1>1, <1>2, RestGoesOn, QuietKeeps, CommandTypes
  <1>4. command.action # "install"
    BY <1>1, ListsBegin DEF HostInv, InstallGoesOn, Loading
  <1>5. UpdateGoesOn'
    <2> SUFFICES ASSUME command.action = "update"
                 PROVE  UpdateGoesOn'
      BY <1>2 DEF UpdateGoesOn
    <2>1. Rest = <<"installed?", "session", "restart">>
      BY <1>1, ListsBegin, ListsGoOn DEF HostInv, UpdateGoesOn, Rest
    <2> QED
      BY <1>1, <1>2, <2>1 DEF HostInv, UpdateGoesOn, UpdateTodos
  <1> QED
    BY <1>2, <1>3, <1>4, <1>5 DEF HostInv, InstallGoesOn

LEMMA IsInstalledKeeps ==
  ASSUME HostInv, IsInstalled
  PROVE  HostInv'
  <1>1. PICK todo : todo = IF unit = NoUnit THEN <<>> ELSE Rest
    OBVIOUS
  <1>2. /\ command.todo # <<>> /\ Head(command.todo) = "installed?"
        /\ UNCHANGED <<unit, manager, binary, service>> /\ GoOn(todo)
    BY <1>1 DEF IsInstalled, Doing
  <1>3. todo \in Seq(Steps) /\ \A i \in 1..Len(todo) : todo[i] # "stopped"
    BY <1>1, <1>2, RestGoesOn
  <1>4. /\ command' \in Commands /\ command'.todo = todo /\ command'.asked = command.asked
        /\ command'.action = command.action /\ (command'.outcome = "ok" => todo = <<>>)
    BY <1>2, <1>3, GoesOn
  <1>5. HostTypeOK' /\ StopsAreKept' /\ OutcomesAreLast'
    BY <1>2, <1>3, <1>4, QuietKeeps, CommandTypes
  <1>6. command.action # "install"
    BY <1>2, ListsBegin DEF HostInv, InstallGoesOn, Loading
  <1>7. UpdateGoesOn'
    <2> SUFFICES ASSUME command.action = "update"
                 PROVE  UpdateGoesOn'
      BY <1>4 DEF UpdateGoesOn
    <2>1. Rest = <<"session", "restart">>
      BY <1>2, ListsBegin, ListsGoOn DEF HostInv, UpdateGoesOn, Rest
    <2> QED
      BY <1>1, <1>2, <1>4, <2>1 DEF HostInv, UpdateGoesOn, UpdateTodos
  <1> QED
    BY <1>4, <1>5, <1>6, <1>7 DEF HostInv, InstallGoesOn

LEMMA StartKeeps ==
  ASSUME HostInv, Start
  PROVE  HostInv'
  <1>1. /\ command.todo # <<>> /\ Head(command.todo) \in {"start", "enable"}
        /\ UNCHANGED <<unit, binary>> /\ GoOn(Rest) /\ CanLaunch
        /\ service' = IF service.at = "down" THEN Launched ELSE service
        /\ manager' = [manager EXCEPT !.wanted = TRUE, !.enabled = @ \/ Doing("enable"),
                                      !.orphan = @ \/ unit = NoUnit]
    BY DEF Start, Doing
  <1>2. /\ command' \in Commands /\ command'.todo = Rest /\ command'.asked = command.asked
        /\ command'.action = command.action /\ (command'.outcome = "ok" => Rest = <<>>)
        /\ (Rest = <<>> => command'.outcome = "ok")
    BY <1>1, RestGoesOn, GoesOn
  <1>3. /\ manager'.wanted /\ (manager.orphan => manager'.orphan) /\ manager'.loaded = manager.loaded
        /\ (unit = NoUnit => manager'.orphan)
    BY <1>1, CommandTypes
  <1>4. manager' \in [loaded: Units, enabled: BOOLEAN, wanted: BOOLEAN, orphan: BOOLEAN]
    <2>1. Doing("enable") \in BOOLEAN
      BY DEF Doing
    <2> QED
      BY <1>1, <2>1, CommandTypes
  <1>5. HostTypeOK'
    <2>1. service' \in Services
      BY <1>1, StopsRunning DEF HostInv, HostTypeOK, Services
    <2> QED
      BY <1>1, <1>2, <1>4, <2>1, CommandTypes DEF HostTypeOK, Commands, Services
  <1>6. StopsAreKept'
    <2>1. ~Doing("stopped")' /\ \A i \in 2..Len(command'.todo) : command'.todo[i] # "stopped"
      BY <1>1, <1>2, RestGoesOn, NoStopNext DEF Doing
    <2> QED
      BY <1>1, <1>3, <2>1 DEF StopsAreKept
  <1>7. ~manager.wanted => service' = Launched
    BY <1>1 DEF HostInv, StopsAreKept, Doing
  <1>8. Launched.unit = manager.loaded /\ Launched.binary = binary[manager.loaded.exe]
    BY DEF Launched
  <1>9. InstallGoesOn'
    <2> SUFFICES ASSUME command.action = "install"
                 PROVE  InstallGoesOn'
      BY <1>2 DEF InstallGoesOn
    <2>1. command.todo \in {<<"start">>, <<"enable">>} /\ Rest = <<>>
      BY <1>1, ListsBegin, ListsGoOn DEF HostInv, InstallGoesOn, Loading, Rest
    <2>2. /\ unit = command.asked /\ manager.loaded = command.asked /\ command.asked \in HostUnits
          /\ (~manager.orphan => ~manager.wanted)
      BY <2>1 DEF HostInv, InstallGoesOn, Applying
    <2>3. ~manager'.orphan => service'.unit = command.asked
      BY <1>3, <1>7, <1>8, <2>2
    <2> QED
      BY <1>1, <1>2, <1>3, <2>1, <2>2, <2>3 DEF InstallGoesOn, InstallTodos
  <1>10. UpdateGoesOn'
    <2> SUFFICES ASSUME command.action = "update"
                 PROVE  UpdateGoesOn'
      BY <1>2 DEF UpdateGoesOn
    <2>1. command.todo = <<"start">> /\ Rest = <<>>
      BY <1>1, ListsBegin, ListsGoOn DEF HostInv, UpdateGoesOn, Rest
    <2>2. service' = Launched
      BY <1>7, <2>1 DEF HostInv, UpdateGoesOn
    <2> QED
      BY <1>1, <1>2, <1>8, <2>1, <2>2 DEF UpdateGoesOn, UpdateTodos
  <1>11. OutcomesAreLast'
    BY <1>2 DEF OutcomesAreLast
  <1> QED
    BY <1>5, <1>6, <1>9, <1>10, <1>11 DEF HostInv

LEMMA StopKeeps ==
  ASSUME HostInv, Stop
  PROVE  HostInv'
  <1>1. PICK step \in {"stop", "restart", "disable?"} :
          /\ command.todo # <<>> /\ Head(command.todo) = step
          /\ GoOn((IF step = "restart" THEN <<"stopped", "start">> ELSE <<"stopped">>) \o Rest)
          /\ manager' = [manager EXCEPT !.wanted = FALSE, !.orphan = FALSE,
                                        !.enabled = @ /\ step # "disable?"]
    BY DEF Stop, Doing
  <1> DEFINE first == IF step = "restart" THEN <<"stopped", "start">> ELSE <<"stopped">>
             todo == first \o Rest
  <1>2. /\ first \in Seq(Steps) /\ first # <<>> /\ first[1] = "stopped" /\ "stopped" \in Steps
        /\ \A i \in 2..Len(first) : first[i] # "stopped"
    <2>1. "stopped" \in Steps /\ "start" \in Steps
      BY DEF Steps
    <2>2. <<"stopped">> \in Seq(Steps) /\ <<"stopped", "start">> \in Seq(Steps)
      <3> HIDE DEF first, todo
      <3> QED
        BY <2>1, ShortLists
    <2>3. CASE step = "restart"
      BY <2>1, <2>2, <2>3
    <2>4. CASE step # "restart"
      BY <2>1, <2>2, <2>4
    <2> QED
      BY <2>3, <2>4
  <1>3. first = IF step = "restart" THEN <<"stopped", "start">> ELSE <<"stopped">>
    OBVIOUS
  <1> HIDE DEF first
  <1>4. /\ todo \in Seq(Steps) /\ todo # <<>> /\ Head(todo) = "stopped"
        /\ \A i \in 2..Len(todo) : todo[i] # "stopped"
    <2>1. PICK rest \in Seq(Steps) : rest = Rest /\ \A i \in 1..Len(rest) : rest[i] # "stopped"
      BY <1>1, RestGoesOn
    <2>2. todo = first \o rest
      BY <2>1
    <2> QED
      BY <1>2, <2>1, <2>2, StopsComeFirst
  <1>5. GoOn(todo)
    BY <1>1 DEF first
  <1> HIDE DEF todo
  <1>6. /\ command' \in Commands /\ command'.todo = todo /\ command'.asked = command.asked
        /\ command'.action = command.action /\ command'.outcome = "none"
    BY <1>4, <1>5, GoesOn
  <1>7. /\ manager' \in [loaded: Units, enabled: BOOLEAN, wanted: BOOLEAN, orphan: BOOLEAN]
        /\ ~manager'.wanted /\ manager'.loaded = manager.loaded
    BY <1>1, CommandTypes
  <1>8. UNCHANGED <<unit, binary>> /\ service' \in Services
    BY StopsRunning DEF Stop, Terminated, Exit, HostInv, HostTypeOK, Services
  <1>9. HostTypeOK' /\ OutcomesAreLast'
    BY <1>1, <1>6, <1>7, <1>8, CommandTypes DEF HostTypeOK, OutcomesAreLast, Commands, Services
  <1>10. StopsAreKept'
    BY <1>4, <1>6, <1>7 DEF StopsAreKept, Doing
  <1>11. command.todo = <<"restart">> => todo = <<"stopped", "start">>
    BY <1>1, <1>3, ListsGoOn, StopsAreFollowed DEF todo, Rest
  <1>12. InstallGoesOn'
    <2> SUFFICES ASSUME command.action = "install"
                 PROVE  InstallGoesOn'
      BY <1>6 DEF InstallGoesOn
    <2>1. command.todo = <<"restart">>
      BY <1>1, ListsBegin DEF HostInv, InstallGoesOn, Loading
    <2>2. /\ unit = command.asked /\ manager.loaded = command.asked /\ command.asked \in HostUnits
      BY <2>1 DEF HostInv, InstallGoesOn, Applying
    <2> QED
      BY <1>6, <1>7, <1>8, <1>11, <2>1, <2>2 DEF InstallGoesOn, InstallTodos
  <1>13. UpdateGoesOn'
    <2> SUFFICES ASSUME command.action = "update"
                 PROVE  UpdateGoesOn'
      BY <1>6 DEF UpdateGoesOn
    <2>1. command.todo = <<"restart">>
      BY <1>1, ListsBegin DEF HostInv, UpdateGoesOn
    <2> QED
      BY <1>6, <1>7, <1>11, <2>1 DEF UpdateGoesOn, UpdateTodos
  <1> QED
    BY <1>9, <1>10, <1>12, <1>13 DEF HostInv

LEMMA StoppedKeeps ==
  ASSUME HostInv, Stopped
  PROVE  HostInv'
  <1>1. /\ command.todo # <<>> /\ Head(command.todo) = "stopped" /\ service.at = "down"
        /\ UNCHANGED <<unit, manager, binary, service>> /\ GoOn(Rest)
    BY DEF Stopped, Doing
  <1>2. /\ command' \in Commands /\ command'.todo = Rest /\ command'.asked = command.asked
        /\ command'.action = command.action /\ (command'.outcome = "ok" => Rest = <<>>)
    BY <1>1, RestGoesOn, GoesOn
  <1>3. ~manager.wanted
    BY <1>1 DEF HostInv, StopsAreKept, Doing
  <1>4. HostTypeOK' /\ OutcomesAreLast'
    BY <1>1, <1>2, CommandTypes DEF HostInv, HostTypeOK, Commands, OutcomesAreLast
  <1>5. StopsAreKept'
    BY <1>1, <1>2, <1>3, RestGoesOn, NoStopNext DEF StopsAreKept, Doing
  <1>6. InstallGoesOn'
    <2> SUFFICES ASSUME command.action = "install"
                 PROVE  InstallGoesOn'
      BY <1>2 DEF InstallGoesOn
    <2>1. command.todo = <<"stopped", "start">> /\ Rest = <<"start">>
      BY <1>1, ListsBegin, ListsGoOn DEF HostInv, InstallGoesOn, Loading, Rest
    <2>2. /\ unit = command.asked /\ manager.loaded = command.asked /\ command.asked \in HostUnits
      BY <2>1 DEF HostInv, InstallGoesOn, Applying
    <2> QED
      BY <1>1, <1>2, <1>3, <2>1, <2>2 DEF InstallGoesOn, InstallTodos
  <1>7. UpdateGoesOn'
    <2> SUFFICES ASSUME command.action = "update"
                 PROVE  UpdateGoesOn'
      BY <1>2 DEF UpdateGoesOn
    <2>1. Rest = <<"start">>
      BY <1>1, ListsBegin, ListsGoOn DEF HostInv, UpdateGoesOn, Rest
    <2> QED
      BY <1>1, <1>2, <1>3, <2>1 DEF UpdateGoesOn, UpdateTodos
  <1> QED
    BY <1>4, <1>5, <1>6, <1>7 DEF HostInv

LEMMA GiveCommandKeeps ==
  ASSUME HostInv, GiveCommand
  PROVE  HostInv'
  <1>1. PICK action \in Actions, asked \in HostUnits :
          command' = [action |-> action, todo |-> Todo(action), asked |-> asked, outcome |-> "none"]
    BY DEF GiveCommand
  <1>2. command.todo = <<>> /\ UNCHANGED <<unit, manager, binary, service>>
    BY DEF GiveCommand
  <1>3. /\ command' \in Commands /\ command'.todo = Todo(action) /\ command'.asked \in HostUnits
        /\ command'.action = action /\ command'.outcome = "none"
    BY <1>1, TodosAreSteps DEF Commands, Units
  <1>4. HostTypeOK' /\ OutcomesAreLast'
    BY <1>2, <1>3, CommandTypes DEF HostInv, HostTypeOK, Commands, OutcomesAreLast
  <1>5. StopsAreKept'
    BY <1>2, <1>3, TodosAreSteps, NoStopNext DEF HostInv, StopsAreKept, Doing
  <1>6. InstallGoesOn'
    BY <1>2, <1>3 DEF InstallGoesOn, InstallTodos, Loading, Applying, Todo
  <1>7. UpdateGoesOn'
    BY <1>2, <1>3 DEF UpdateGoesOn, UpdateTodos, Todo
  <1> QED
    BY <1>4, <1>5, <1>6, <1>7 DEF HostInv

LEMMA RebootKeeps ==
  ASSUME HostInv, Reboot
  PROVE  HostInv'
  <1>1. /\ service' = NotRunning /\ command' = NoCommand /\ binary' = binary /\ unit' \in BrokenOff
        /\ manager' = [manager EXCEPT !.loaded = unit', !.orphan = FALSE,
                                      !.wanted = manager.enabled /\ unit' \in HostUnits]
    BY DEF Reboot, Exit
  <1>2. /\ manager' \in [loaded: Units, enabled: BOOLEAN, wanted: BOOLEAN, orphan: BOOLEAN]
        /\ (manager'.wanted => unit' # NoUnit) /\ unit' \in Units
    <2>1. unit' \in Units
      BY <1>1, CommandTypes DEF BrokenOff, Doing, Units
    <2> QED
      BY <1>1, <2>1, CommandTypes, HostConstants
  <1>3. NoCommand \in Commands /\ NoCommand.todo = <<>> /\ NoCommand.action = "none" /\ NoCommand.outcome = "none"
    BY DEF NoCommand, Commands, Units
  <1>4. HostTypeOK' /\ OutcomesAreLast'
    BY <1>1, <1>2, <1>3, StopsRunning, CommandTypes DEF HostTypeOK, Commands, Services, OutcomesAreLast
  <1>5. StopsAreKept'
    BY <1>1, <1>2, <1>3, StopsRunning DEF StopsAreKept, Doing
  <1> QED
    BY <1>1, <1>3, <1>4, <1>5 DEF HostInv, InstallGoesOn, UpdateGoesOn

-------------------------------------------------------------------------------
LEMMA HostBegins == HostInit => HostInv
  <1> SUFFICES ASSUME HostInit
               PROVE  HostInv
    OBVIOUS
  <1>1. NoCommand \in Commands /\ NoCommand.todo = <<>> /\ NoCommand.action = "none" /\ NoCommand.outcome = "none"
    BY DEF NoCommand, Commands, Units
  <1>2. NotRunning \in Services /\ NotRunning.at = "down"
    BY DEF NotRunning, Services, Units
  <1>3. HostTypeOK
    BY <1>1, <1>2 DEF HostInit, HostTypeOK, Commands, Services, Units
  <1>4. StopsAreKept
    BY <1>1, <1>2 DEF HostInit, StopsAreKept, Doing
  <1> QED
    BY <1>1, <1>3, <1>4 DEF HostInit, HostInv, OutcomesAreLast, InstallGoesOn, UpdateGoesOn

(* After an install or an update that reported success the service that    *)
(* runs is the one that was asked for, unless it runs without a unit.      *)
THEOREM InstallsTakeEffect == HostSpec => []InstallTakesEffect
  <1>1. HostInv /\ [HostNext]_hostVars => HostInv'
    BY ProcessStep, GiveCommandKeeps, RebootKeeps, StepFailsKeeps, PassStepKeeps, WriteUnitKeeps,
       DaemonReloadKeeps, RemoveUnitKeeps, StartKeeps, StopKeeps, StoppedKeeps, ReplaceKeeps,
       IsInstalledKeeps DEF HostNext, CommandStep
  <1>2. HostInv => InstallTakesEffect
    BY DEF HostInv, InstallGoesOn, UpdateGoesOn, InstallTakesEffect
  <1> QED
    BY HostBegins, <1>1, <1>2, PTL DEF HostSpec

(* The tasks of the channels, which are left to close.                     *)
TaskStates == {"off", "serving", "draining", "ended"}
StillOpen == {c \in HostChannels : tasks[c] # "off"}

(* Only a process that watches its channels or closes them has any.        *)
TaskInv ==
  /\ tasks \in [HostChannels -> TaskStates]
  /\ service.at \in {"down", "starting"} => tasks = NoTasks

(* A channel that has ended stays so in sight of the supervisor until it   *)
(* closes the others or the process is gone; who closes does nothing else, *)
(* and each step of it closes one, whether it drains or serves.            *)
FailureGoesOn ==
  /\ \A c \in HostChannels : tasks[c] = "ended" =>
       service'.at \in {"closing", "down"} \/ (service'.at = "watching" /\ tasks'[c] = "ended")
  /\ service.at = "closing" => service'.at = "down" \/ (service'.at = "closing" /\ StillOpen' \subseteq StillOpen)
  /\ Supervise => \/ service'.at = "down"
                  \/ (service.at = "watching" /\ service'.at = "closing")
                  \/ StillOpen' # StillOpen

LEMMA GoneGoesOn ==
  ASSUME TaskInv, Exit
  PROVE  TaskInv' /\ FailureGoesOn
  <1>1. service'.at = "down" /\ tasks' = NoTasks
    BY DEF Exit, NotRunning
  <1> QED
    BY <1>1 DEF TaskInv, FailureGoesOn, NoTasks, TaskStates

LEMMA SupervisionGoesOn ==
  ASSUME TaskInv, HostTypeOK, Supervise
  PROVE  TaskInv' /\ FailureGoesOn
  <1>1. CASE Return
    BY <1>1, GoneGoesOn DEF Return
  <1>2. CASE Notice
    <2>1. service.at = "watching" /\ service'.at = "closing"
      BY <1>2 DEF Notice, HostTypeOK
    <2>2. tasks' \in [HostChannels -> TaskStates]
      BY <1>2 DEF Notice, TaskInv, TaskStates
    <2> QED
      BY <2>1, <2>2 DEF TaskInv, FailureGoesOn
  <1>3. ASSUME NEW c \in HostChannels, CloseTask(c) PROVE TaskInv' /\ FailureGoesOn
    <2>1. /\ service.at = "closing" /\ service' = service /\ tasks[c] # "off"
          /\ tasks' = [tasks EXCEPT ![c] = "off"] /\ tasks \in [HostChannels -> TaskStates]
      BY <1>3 DEF CloseTask, TaskInv
    <2>2. tasks' \in [HostChannels -> TaskStates] /\ tasks'[c] = "off" /\ \A d \in HostChannels : d # c => tasks'[d] = tasks[d]
      BY <2>1 DEF TaskStates
    <2>3. StillOpen' \subseteq StillOpen /\ c \in StillOpen /\ c \notin StillOpen'
      BY <2>1, <2>2 DEF StillOpen
    <2> QED
      BY <2>1, <2>2, <2>3 DEF TaskInv, FailureGoesOn
  <1> QED
    BY <1>1, <1>2, <1>3 DEF Supervise

(* Where the service stays what it is and no task is closed.               *)
LEMMA SameGoesOn ==
  ASSUME TaskInv, ~Supervise, service' = service,
         tasks' \in [HostChannels -> TaskStates], service.at \in {"down", "starting"} => tasks' = NoTasks,
         \A c \in HostChannels : (tasks[c] = "off" => tasks'[c] = "off") /\ (tasks[c] = "ended" => tasks'[c] = "ended"),
         service.at \in {"down", "starting", "watching", "closing"}
  PROVE  TaskInv' /\ FailureGoesOn
  <1>1. StillOpen' \subseteq StillOpen
    BY DEF StillOpen
  <1>2. \A c \in HostChannels : tasks[c] = "ended" => service.at \notin {"down", "starting"}
    BY DEF TaskInv, NoTasks
  <1> QED
    BY <1>1, <1>2 DEF TaskInv, FailureGoesOn

LEMMA TerminatedGoesOn ==
  ASSUME TaskInv, HostTypeOK, Terminated, ~Supervise
  PROVE  TaskInv' /\ FailureGoesOn
  <1>1. CASE Exit
    BY <1>1, GoneGoesOn
  <1>2. CASE ~Exit
    <2>1. /\ tasks' = [tasks EXCEPT !["web"] = IF @ = "serving" THEN "draining" ELSE @] /\ service' = service
      BY <1>2 DEF Terminated
    <2>2. /\ tasks' \in [HostChannels -> TaskStates]
          /\ \A c \in HostChannels : (tasks[c] = "off" => tasks'[c] = "off") /\ (tasks[c] = "ended" => tasks'[c] = "ended")
      BY <2>1 DEF TaskInv, TaskStates
    <2>3. service.at \in {"down", "starting"} => tasks' = NoTasks
      <3> SUFFICES ASSUME service.at \in {"down", "starting"} PROVE tasks' = NoTasks
        OBVIOUS
      <3>1. tasks = NoTasks
        BY DEF TaskInv
      <3> QED
        BY <3>1, <2>1 DEF NoTasks
    <2>4. service.at \in {"down", "starting", "watching", "closing"}
      BY DEF HostTypeOK
    <2> QED
      BY <2>1, <2>2, <2>3, <2>4, SameGoesOn
  <1> QED
    BY <1>1, <1>2

(* The process that is started has no tasks yet.                           *)
LEMMA LaunchGoesOn ==
  ASSUME TaskInv, ~Supervise, service.at = "down", service' = Launched, tasks' = tasks
  PROVE  TaskInv' /\ FailureGoesOn
  <1>1. tasks = NoTasks
    BY DEF TaskInv
  <1> QED
    BY <1>1 DEF TaskInv, FailureGoesOn, NoTasks

LEMMA TasksGoOn == TaskInv /\ HostInv /\ [HostNext]_hostVars => TaskInv' /\ [FailureGoesOn]_hostVars
  <1> SUFFICES ASSUME TaskInv, HostInv, [HostNext]_hostVars PROVE TaskInv' /\ [FailureGoesOn]_hostVars
    OBVIOUS
  <1>1. HostTypeOK /\ service.at \in {"down", "starting", "watching", "closing"}
    BY DEF HostInv, HostTypeOK
  <1>2. CASE Supervise
    BY <1>1, <1>2, SupervisionGoesOn
  <1>3. CASE UNCHANGED hostVars
    BY <1>3 DEF hostVars, TaskInv, NoTasks
  <1>4. CASE ~Supervise /\ Exit
    BY <1>4, GoneGoesOn
  <1>5. CASE ~Supervise /\ ~Exit /\ service' = service /\ tasks' = tasks
    BY <1>1, <1>5, SameGoesOn DEF TaskInv
  <1>6. CASE ~Supervise /\ ~Exit /\ AutoRestart
    BY <1>6, LaunchGoesOn DEF AutoRestart
  <1>7. CASE ~Supervise /\ StartChannels
    <2>1. service.at = "starting" /\ service'.at = "watching" /\ tasks' \in [HostChannels -> TaskStates]
      BY <1>1, <1>7 DEF StartChannels, HostTypeOK, TaskStates
    <2>2. tasks = NoTasks
      BY <2>1 DEF TaskInv
    <2>3. \A c \in HostChannels : tasks[c] # "ended"
      BY <2>2 DEF NoTasks
    <2>4. TaskInv'
      BY <1>7, <2>1 DEF TaskInv, NoTasks
    <2>5. FailureGoesOn
      BY <1>7, <2>1, <2>3 DEF FailureGoesOn
    <2> QED
      BY <2>4, <2>5
  <1>8. CASE ~Supervise /\ DieInStatus
    BY <1>8 DEF DieInStatus, NotRunning, TaskInv, FailureGoesOn
  <1>9. ASSUME ~Supervise, NEW c \in HostChannels, ChannelEnds(c) PROVE TaskInv' /\ FailureGoesOn
    <2>1. /\ tasks[c] \in {"serving", "draining"} /\ tasks' = [tasks EXCEPT ![c] = "ended"] /\ service' = service
          /\ tasks \in [HostChannels -> TaskStates]
      BY <1>9 DEF ChannelEnds, TaskInv
    <2>2. service.at \notin {"down", "starting"}
      BY <2>1 DEF TaskInv, NoTasks
    <2>3. /\ tasks' \in [HostChannels -> TaskStates]
          /\ \A d \in HostChannels : (tasks[d] = "off" => tasks'[d] = "off") /\ (tasks[d] = "ended" => tasks'[d] = "ended")
      BY <2>1 DEF TaskStates
    <2> QED
      BY <1>1, <1>9, <2>1, <2>2, <2>3, SameGoesOn
  <1>10. CASE ~Supervise /\ ~Exit /\ Interrupt
    <2>1. /\ service.at = "watching" /\ service'.at \in {"watching", "closing"}
          /\ tasks' = [c \in HostChannels |-> IF tasks[c] = "serving" THEN "draining" ELSE tasks[c]]
      BY <1>1, <1>10 DEF Interrupt, HostTypeOK
    <2>2. /\ tasks' \in [HostChannels -> TaskStates]
          /\ \A c \in HostChannels : tasks[c] = "ended" => tasks'[c] = "ended"
      BY <2>1 DEF TaskInv, TaskStates
    <2> QED
      BY <1>10, <2>1, <2>2 DEF TaskInv, FailureGoesOn
  <1>11. CASE ~Supervise /\ ~Exit /\ Start
    BY <1>1, <1>5, <1>11, LaunchGoesOn DEF Start
  <1>12. CASE ~Supervise /\ Stop
    <2>1. Terminated \/ (service' = service /\ tasks' = tasks)
      BY <1>12 DEF Stop
    <2> QED
      BY <1>1, <1>4, <1>5, <1>12, <2>1, TerminatedGoesOn
  <1>13. CASE StartFails \/ Die \/ StopTimesOut \/ Reboot
    BY <1>13, <1>2, <1>4 DEF StartFails, Die, StopTimesOut, Reboot
  <1>14. CASE \/ GiveCommand \/ StepFails \/ PassStep \/ WriteUnit \/ DaemonReload \/ RemoveUnit
              \/ Stopped \/ Replace \/ IsInstalled
    <2>1. service' = service /\ tasks' = tasks
      BY <1>14 DEF GiveCommand, StepFails, PassStep, WriteUnit, DaemonReload, RemoveUnit, Stopped,
                   Replace, IsInstalled
    <2> QED
      BY <1>2, <1>4, <1>5, <2>1
  <1> QED
    BY <1>2, <1>3, <1>4, <1>6, <1>7, <1>8, <1>9, <1>10, <1>11, <1>12, <1>13, <1>14
       DEF HostNext, CommandStep

(* A channel that ends takes the process with it as soon as the supervisor *)
(* gets to run, whatever signals, crashes and commands come in between     *)
(* (start_channels, shutdown_channel_tasks).                               *)
THEOREM FailuresGoOn == HostSpec => [][FailureGoesOn]_hostVars
  <1>1. HostInv /\ [HostNext]_hostVars => HostInv'
    BY ProcessStep, GiveCommandKeeps, RebootKeeps, StepFailsKeeps, PassStepKeeps, WriteUnitKeeps,
       DaemonReloadKeeps, RemoveUnitKeeps, StartKeeps, StopKeeps, StoppedKeeps, ReplaceKeeps,
       IsInstalledKeeps DEF HostNext, CommandStep
  <1>2. HostInit => TaskInv
    BY DEF HostInit, TaskInv, NoTasks, TaskStates
  <1> QED
    BY HostBegins, <1>1, <1>2, TasksGoOn, PTL DEF HostSpec
-------------------------------------------------------------------------------
(***************************************************************************)
(* The files under the state root.                                         *)
(***************************************************************************)

Places == {"down", "version", "tables", "soul", "up", "open", "fill", "metadata", "store"}
Storing == {"open", "fill", "metadata", "store"}   \* a process that has an image in hand

StateTypeOK ==
  /\ database \in [file: BOOLEAN, legacy: BOOLEAN, tables: SUBSET Halves, version: {0, 1}]
  /\ images \in [Images -> {"none", "part", "whole"}]
  /\ referred \subseteq Images
  /\ process \in [Processes -> [at: Places, image: Images \cup {NoImage}]]
  /\ \A p \in Processes : process[p].at \in Storing => process[p].image \in Images

(* The version is written last, and nothing takes it back.                 *)
VersionIsLast ==
  /\ database.version = 1 => database.tables = Halves
  /\ \A p \in Processes :
       /\ process[p].at # "down" => database.file
       /\ process[p].at \notin {"down", "version", "tables"} => database.version = 1

(* The image's file was opened before anything refers to it; who has begun *)
(* to fill it is still there, or it is torn.                               *)
Filling(i) == \E p \in Processes : process[p].at = "fill" /\ process[p].image = i
ImagesAreBegun ==
  /\ \A i \in referred : images[i] # "none"
  /\ \A p \in Processes : process[p].at \in {"metadata", "store"} => images[process[p].image] # "none"
  /\ \A i \in Images : images[i] = "part" => i \in torn \/ Filling(i)

StateInv == StateTypeOK /\ VersionIsLast /\ ImagesAreBegun
-----------------------------------------------------------------------------
USE DEF SCHEMA_VERSION, Halves, Places, Storing, At, Go

LEMMA StateBegins == StateInit => StateInv
  <1> SUFFICES ASSUME StateInit PROVE StateInv
    OBVIOUS
  <1>1. /\ Down \in [at: Places, image: Images \cup {NoImage}] /\ Down.at = "down"
        /\ \A p \in Processes : process[p] = Down
        /\ process \in [Processes -> [at: Places, image: Images \cup {NoImage}]]
    BY DEF StateInit, Down
  <1>2. database.version = 0 /\ referred = {} /\ \A i \in Images : images[i] = "none"
    BY DEF StateInit
  <1>3. StateTypeOK
    BY <1>1 DEF StateInit, StateTypeOK
  <1> QED
    BY <1>1, <1>2, <1>3 DEF StateInv, VersionIsLast, ImagesAreBegun

(* A step that moves a process, and what may come of the images by it.     *)
LEMMA OneProcessMoves ==
  ASSUME StateInv, NEW p \in Processes, NEW next \in [at: Places, image: Images \cup {NoImage}],
         process' = [process EXCEPT ![p] = next],
         next.at \in Storing => next.image \in Images
  PROVE  /\ process' \in [Processes -> [at: Places, image: Images \cup {NoImage}]]
         /\ \A q \in Processes : process'[q].at \in Storing => process'[q].image \in Images
         /\ process'[p] = next /\ \A q \in Processes \ {p} : process'[q] = process[q]
  BY DEF StateInv, StateTypeOK

LEMMA SameDatabase ==
  ASSUME StateInv, NEW p \in Processes, database' = database,
         \A q \in Processes \ {p} : process'[q] = process[q],
         process'[p].at # "down" => process[p].at # "down",
         process'[p].at \notin {"down", "version", "tables"} => database.version = 1
  PROVE  VersionIsLast'
  BY DEF StateInv, VersionIsLast

LEMMA SameImages ==
  ASSUME StateInv, NEW p \in Processes, images' = images, referred' = referred, torn \subseteq torn',
         \A q \in Processes \ {p} : process'[q] = process[q],
         process'[p].at \in {"metadata", "store"} => images[process'[p].image] # "none",
         process[p].at = "fill" => process[p].image \in torn'
  PROVE  ImagesAreBegun'
  BY DEF StateInv, StateTypeOK, ImagesAreBegun, Filling

LEMMA StateStep == StateInv /\ [StateNext]_fileVars => StateInv'
  <1> SUFFICES ASSUME StateInv, [StateNext]_fileVars PROVE StateInv'
    OBVIOUS
  <1>1. /\ StateTypeOK /\ VersionIsLast /\ ImagesAreBegun
        /\ \A p \in Processes : process[p] \in [at: Places, image: Images \cup {NoImage}]
    BY DEF StateInv, StateTypeOK
  (* Opening the database.                                                 *)
  <1>2. ASSUME NEW p \in Processes, Open(p) \/ ReadVersion(p) \/ CreateTables(p) \/ SetVersion(p) \/ ProvisionSoul(p)
        PROVE  StateInv'
    <2>1. UNCHANGED <<images, referred, torn>>
      BY <1>2 DEF Open, ReadVersion, CreateTables, SetVersion, ProvisionSoul
    <2>2. PICK at \in {"version", "tables", "soul", "up"} :
             process' = [process EXCEPT ![p].at = at]
      <3>1. CASE CreateTables(p)
        BY <1>1, <3>1 DEF CreateTables, StateTypeOK
      <3> QED
        BY <1>2, <3>1 DEF Open, ReadVersion, SetVersion, ProvisionSoul
    <2>3. /\ process' \in [Processes -> [at: Places, image: Images \cup {NoImage}]]
          /\ process'[p].at = at /\ process[p].at \in {"down", "version", "tables", "soul"}
          /\ \A q \in Processes \ {p} : process'[q] = process[q]
      BY <1>1, <1>2, <2>2 DEF StateTypeOK, Open, ReadVersion, CreateTables, SetVersion, ProvisionSoul
    <2>4. \A q \in Processes : process'[q].at \in Storing => process'[q].image \in Images
      BY <1>1, <2>2, <2>3 DEF StateTypeOK
    <2>5. ImagesAreBegun'
      BY <2>1, <2>2, <2>3, SameImages
    <2>6. database' \in [file: BOOLEAN, legacy: BOOLEAN, tables: SUBSET Halves, version: {0, 1}] /\ VersionIsLast'
      <3>1. CASE Open(p)
        BY <1>1, <2>3, <3>1 DEF Open, StateTypeOK, VersionIsLast
      <3>2. CASE ReadVersion(p)
        BY <1>1, <2>3, <3>2 DEF ReadVersion, StateTypeOK, VersionIsLast
      <3>3. CASE CreateTables(p)
        BY <1>1, <2>3, <3>3 DEF CreateTables, Migrate, StateTypeOK, VersionIsLast
      <3>4. CASE SetVersion(p)
        BY <1>1, <2>3, <3>4 DEF SetVersion, StateTypeOK, VersionIsLast
      <3>5. CASE ProvisionSoul(p)
        BY <1>1, <2>3, <3>5 DEF ProvisionSoul, StateTypeOK, VersionIsLast
      <3> QED
        BY <1>2, <3>1, <3>2, <3>3, <3>4, <3>5
    <2> QED
      BY <1>1, <2>1, <2>3, <2>4, <2>5, <2>6 DEF StateInv, StateTypeOK
  (* An image is stored.                                                   *)
  <1>3. ASSUME NEW p \in Processes, UNCHANGED database, NEW next \in [at: Places, image: Images \cup {NoImage}],
               process' = [process EXCEPT ![p] = next], process[p].at \in Storing \cup {"up"},
               next.at \in Storing => next.image \in Images,
               images' \in [Images -> {"none", "part", "whole"}], referred' \subseteq Images, ImagesAreBegun'
        PROVE  StateInv'
    <2>1. /\ process' \in [Processes -> [at: Places, image: Images \cup {NoImage}]]
          /\ \A q \in Processes : process'[q].at \in Storing => process'[q].image \in Images
          /\ process'[p] = next /\ \A q \in Processes \ {p} : process'[q] = process[q]
      BY <1>3, OneProcessMoves
    <2>2. VersionIsLast'
      <3>1. database.version = 1 /\ process[p].at # "down"
        BY <1>1, <1>3 DEF VersionIsLast
      <3> QED
        BY <1>3, <2>1, <3>1, SameDatabase
    <2> QED
      BY <1>1, <1>3, <2>1, <2>2 DEF StateInv, StateTypeOK
  <1>4. ASSUME NEW p \in Processes, NEW image \in Images, PersistImage(p, image)
        PROVE  StateInv'
    <2> DEFINE next == [at |-> IF images[image] = "none" THEN "open" ELSE "metadata", image |-> image]
    <2>1. next \in [at: Places, image: Images \cup {NoImage}] /\ next.image = image
          /\ (next.at = "open" \/ (next.at = "metadata" /\ images[image] # "none"))
      OBVIOUS
    <2>2. process' = [process EXCEPT ![p] = next] /\ process[p].at = "up" /\ UNCHANGED <<database, images, referred, torn>>
      BY <1>4 DEF PersistImage
    <2> HIDE DEF next
    <2>3. process'[p] = next /\ \A q \in Processes \ {p} : process'[q] = process[q]
      BY <1>1, <2>2 DEF StateTypeOK
    <2>4. ImagesAreBegun'
      BY <2>1, <2>2, <2>3, SameImages
    <2> QED
      BY <1>1, <1>3, <2>1, <2>2, <2>4 DEF StateTypeOK
  (* A step of a process with its image.                                   *)
  <1>5. ASSUME NEW p \in Processes, process[p].at \in Storing,
               OpenImage(p) \/ FillImage(p) \/ WriteMetadata(p)
        PROVE  StateInv'
    <2>1. PICK at \in {"fill", "metadata", "store"} : process' = [process EXCEPT ![p].at = at]
      BY <1>5 DEF OpenImage, FillImage, WriteMetadata
    <2> DEFINE i == process[p].image
               next == [process[p] EXCEPT !.at = at]
    <2>2. i \in Images /\ next \in [at: Places, image: Images \cup {NoImage}] /\ next.at = at /\ next.image = i
          /\ process' = [process EXCEPT ![p] = next]
      BY <1>1, <1>5, <2>1 DEF StateTypeOK
    <2>3. process'[p].at = at /\ process'[p].image = i /\ \A q \in Processes \ {p} : process'[q] = process[q]
      BY <1>1, <2>2 DEF StateTypeOK
    <2>4. UNCHANGED <<database, referred, torn>>
      BY <1>5 DEF OpenImage, FillImage, WriteMetadata
    <2> HIDE DEF next
    <2>5. CASE OpenImage(p)
      <3>1. images' = [images EXCEPT ![i] = "part"] /\ process'[p].at = "fill"
        BY <1>1, <1>5, <2>5 DEF OpenImage, StateTypeOK
      <3>2. images' \in [Images -> {"none", "part", "whole"}] /\ images'[i] = "part"
            /\ \A j \in Images \ {i} : images'[j] = images[j]
        BY <1>1, <2>2, <3>1 DEF StateTypeOK
      <3>3. ImagesAreBegun'
        <4>1. \A j \in Images : images[j] # "none" => images'[j] # "none"
          BY <3>2
        <4>2. \A j \in Images : images'[j] = "part" => j \in torn' \/ Filling(j)'
          <5>1. Filling(i)'
            BY <2>3, <3>1 DEF Filling
          <5>2. process[p].at # "fill"
            BY <2>5 DEF OpenImage
          <5> QED
            BY <1>1, <2>3, <2>4, <3>2, <5>1, <5>2 DEF ImagesAreBegun, Filling
        <4> QED
          BY <1>1, <2>3, <2>4, <3>1, <4>1, <4>2 DEF ImagesAreBegun, StateTypeOK
      <3> QED
        BY <1>1, <1>3, <1>5, <2>2, <2>4, <3>2, <3>3 DEF StateTypeOK
    <2>6. CASE FillImage(p)
      <3>1. images' = [images EXCEPT ![i] = "whole"] /\ process'[p].at = "metadata"
        BY <1>1, <1>5, <2>6 DEF FillImage, StateTypeOK
      <3>2. images' \in [Images -> {"none", "part", "whole"}] /\ images'[i] = "whole"
            /\ \A j \in Images \ {i} : images'[j] = images[j]
        BY <1>1, <2>2, <3>1 DEF StateTypeOK
      <3>3. ImagesAreBegun'
        <4>1. \A j \in Images : images[j] # "none" => images'[j] # "none"
          BY <3>2
        <4>2. \A j \in Images : images'[j] = "part" => j \in torn' \/ Filling(j)'
          BY <1>1, <2>3, <2>4, <3>2 DEF ImagesAreBegun, Filling
        <4> QED
          BY <1>1, <2>2, <2>3, <2>4, <3>1, <3>2, <4>1, <4>2 DEF ImagesAreBegun, StateTypeOK
      <3> QED
        BY <1>1, <1>3, <1>5, <2>2, <2>4, <3>2, <3>3 DEF StateTypeOK
    <2>7. CASE WriteMetadata(p)
      <3>1. images' = images /\ process[p].at = "metadata" /\ process'[p].at = "store"
        BY <1>1, <1>5, <2>7 DEF WriteMetadata, StateTypeOK
      <3>2. ImagesAreBegun'
        BY <1>1, <2>3, <2>4, <3>1, SameImages DEF ImagesAreBegun
      <3> QED
        BY <1>1, <1>3, <1>5, <2>2, <2>4, <3>1, <3>2 DEF StateTypeOK
    <2> QED
      BY <1>5, <2>5, <2>6, <2>7
  (* The image is in the row, or the turn failed.                          *)
  <1>6. ASSUME NEW p \in Processes, WriteFails(p) \/ StoreSnapshot(p)
        PROVE  StateInv'
    <2> DEFINE next == [at |-> "up", image |-> NoImage]
               i == process[p].image
    <2>1. /\ process' = [process EXCEPT ![p] = next] /\ UNCHANGED <<database, images>>
          /\ process[p].at \in {"fill", "store"}
      BY <1>6 DEF WriteFails, StoreSnapshot
    <2>2. next \in [at: Places, image: Images \cup {NoImage}] /\ next.at = "up"
      OBVIOUS
    <2> HIDE DEF next
    <2>3. process'[p].at = "up" /\ \A q \in Processes \ {p} : process'[q] = process[q]
      BY <1>1, <2>1, <2>2 DEF StateTypeOK
    <2>4. CASE WriteFails(p)
      <3>1. referred' = referred /\ torn' = torn \cup {i}
        BY <2>4 DEF WriteFails
      <3>2. ImagesAreBegun'
        BY <2>1, <2>3, <3>1, SameImages
      <3> QED
        BY <1>1, <1>3, <2>1, <2>2, <3>1, <3>2 DEF StateTypeOK
    <2>5. CASE StoreSnapshot(p)
      <3>1. process[p].at = "store" /\ torn' = torn /\ referred' \in {referred, referred \cup {i}}
        BY <2>5 DEF StoreSnapshot
      <3>2. i \in Images /\ images[i] # "none"
        BY <1>1, <3>1 DEF StateTypeOK, ImagesAreBegun
      <3>3. ImagesAreBegun'
        BY <1>1, <2>1, <2>3, <3>1, <3>2 DEF ImagesAreBegun, Filling
      <3>4. referred' \subseteq Images
        BY <1>1, <3>1, <3>2 DEF StateTypeOK
      <3> QED
        BY <1>1, <1>3, <2>1, <2>2, <3>3, <3>4 DEF StateTypeOK
    <2> QED
      BY <1>6, <2>4, <2>5
  <1>7. ASSUME NEW p \in Processes, Crash(p)
        PROVE  StateInv'
    <2>1. /\ process' = [process EXCEPT ![p] = Down] /\ UNCHANGED <<database, images, referred>>
          /\ torn \subseteq torn' /\ (process[p].at = "fill" => process[p].image \in torn')
      BY <1>7 DEF Crash
    <2>2. Down \in [at: Places, image: Images \cup {NoImage}] /\ Down.at = "down"
      BY DEF Down
    <2>3. /\ process' \in [Processes -> [at: Places, image: Images \cup {NoImage}]]
          /\ \A q \in Processes : process'[q].at \in Storing => process'[q].image \in Images
          /\ process'[p] = Down /\ \A q \in Processes \ {p} : process'[q] = process[q]
      BY <2>1, <2>2, OneProcessMoves
    <2>4. ImagesAreBegun' /\ VersionIsLast'
      BY <2>1, <2>2, <2>3, SameImages, SameDatabase
    <2> QED
      BY <1>1, <2>1, <2>3, <2>4 DEF StateInv, StateTypeOK
  <1>8. CASE MoveLegacy
    <2>1. UNCHANGED <<images, referred, process, torn>> /\ ~database.file
      BY <1>8 DEF MoveLegacy
    <2>2. /\ database' \in [file: BOOLEAN, legacy: BOOLEAN, tables: SUBSET Halves, version: {0, 1}]
          /\ database'.version = 1 => database'.tables = Halves
      BY <1>8 DEF MoveLegacy
    <2>3. \A q \in Processes : process[q].at = "down"
      BY <1>1, <2>1 DEF VersionIsLast
    <2>4. VersionIsLast' /\ ImagesAreBegun'
      BY <1>1, <2>1, <2>2, <2>3 DEF VersionIsLast, ImagesAreBegun, Filling
    <2> QED
      BY <1>1, <2>1, <2>2, <2>4 DEF StateInv, StateTypeOK
  <1>9. CASE UNCHANGED <<database, images, referred, process, torn>>
    BY <1>1, <1>9 DEF StateInv, StateTypeOK, VersionIsLast, ImagesAreBegun, Filling
  <1> QED
    BY <1>2, <1>4, <1>5, <1>6, <1>7, <1>8, <1>9
      DEF StateNext, fileVars, LoadImage, OpenImage, FillImage, WriteMetadata
-----------------------------------------------------------------------------
(* Every reachable state satisfies the invariant.                          *)
THEOREM StateHolds == StateSpec => []StateInv
  <1> QED
    BY StateBegins, StateStep, PTL DEF StateSpec

(* A process that works finds every table, whoever made them and whatever  *)
(* died on the way: run_migrations writes the version last.                *)
THEOREM TablesAreThere == StateSpec => []WorkingHasTables
  <1>1. StateInv => WorkingHasTables
    BY DEF StateInv, VersionIsLast, WorkingHasTables
  <1> QED
    BY <1>1, StateHolds, PTL

(* What the stored session refers to is on disk, unless it was left torn:  *)
(* the file is opened and filled before the row is written.                *)
THEOREM ImagesAreThere == StateSpec => []ReferencedImagesAreWhole
  <1>1. StateInv => ReferencedImagesAreWhole
    <2> SUFFICES ASSUME StateInv, NEW i \in referred, images[i] # "whole", i \notin torn
                 PROVE  images[i] = "part" /\ \E p \in Processes : process[p] = [at |-> "fill", image |-> i]
      BY DEF ReferencedImagesAreWhole
    <2>1. images[i] = "part"
      BY DEF StateInv, StateTypeOK, ImagesAreBegun
    <2>2. PICK p \in Processes : process[p].at = "fill" /\ process[p].image = i
      BY <2>1 DEF StateInv, StateTypeOK, ImagesAreBegun, Filling
    <2>3. process[p] = [at |-> "fill", image |-> i]
      BY <2>2 DEF StateInv, StateTypeOK
    <2> QED
      BY <2>1, <2>3
  <1> QED
    BY <1>1, StateHolds, PTL

(* What the run checks of the files, in one: the two above.                *)
THEOREM CrashesAreSurvived == StateSpec => []CrashLeavesFilesUsable
  <1>1. WorkingHasTables /\ ReferencedImagesAreWhole => CrashLeavesFilesUsable
    BY DEF CrashLeavesFilesUsable
  <1> QED
    BY <1>1, TablesAreThere, ImagesAreThere, PTL
===============================================================================
