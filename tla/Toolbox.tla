------------------------------ MODULE Toolbox -------------------------------
(***************************************************************************)
(* Where an agent's tools come from and what becomes of them: the          *)
(* ToolRegistry with its discovery of missing tools                        *)
(* (orqest/autonomy/registry.py, orqest/mcp/discovery.py), the MCP         *)
(* connections and their manager (orqest/mcp/client.py, adapter.py), the   *)
(* AgentFactory and DynamicToolFactory that resolve the tools of a spec    *)
(* (orqest/autonomy/factory.py, tool_factory.py), and BaseAgent.add_tool   *)
(* with the cached agent it must drop (orqest/agents/base_agent.py).       *)
(*                                                                         *)
(* A tool object is known by its provider: the connection it was adapted   *)
(* for, or Local or Generated.  Requesters are concurrent users of         *)
(* get_or_discover ("registry") or discover_and_connect ("manager").       *)
(***************************************************************************)
EXTENDS Naturals, Sequences, FiniteSets

CONSTANTS
    Tools, Servers,
    AgentTools,  \* the tools the agent's spec names
    ServerTools, \* server -> the tools it lists
    Requesters,  \* requester -> "registry" or "manager"
    Found,       \* what a registry endpoint may answer: sequences of distinct servers
    MaxConns     \* bound: connections opened

ASSUME ToolsAssumption == Tools # {} /\ AgentTools \subseteq Tools
ASSUME ServersAssumption == Servers # {} /\ ServerTools \in [Servers -> SUBSET Tools]
ASSUME FoundAssumption == Found \subseteq Seq(Servers)
ASSUME MaxConnsAssumption == MaxConns \in Nat

VARIABLES
    conns,     \* connection -> its MCPConnection
    entries,   \* manager._connections in insertion order; a removed entry has conn 0
    closer,    \* disconnect_all: its place in the entries and their number at its start
    registry,  \* tool -> provider, None when not registered
    request,   \* requester -> the state of its request
    agent      \* an agent: its tools, and those of its cached pydantic-ai Agent

vars == <<conns, entries, closer, registry, request, agent>>

None == 0
Conns == 1..MaxConns
Local == MaxConns + 1
Generated == MaxConns + 2
Providers == Conns \cup {Local, Generated}
NoTools == [t \in AgentTools |-> None]

Unused == [server |-> CHOOSE s \in Servers : TRUE, pc |-> "unused", session |-> FALSE,
           approved |-> FALSE, raced |-> FALSE, superseded |-> FALSE]
Idle == [pc |-> "idle", tool |-> CHOOSE t \in Tools : TRUE, approved |-> FALSE,
         servers |-> <<>>, conn |-> None, todo |-> {}]

Entry(s) == {i \in DOMAIN entries : entries[i].server = s /\ entries[i].conn # None}
Listed == {entries[i].conn : i \in DOMAIN entries} \ {None}
Size == Cardinality(Listed)

Connections ==
    [server : Servers, pc : {"unused", "opening", "open", "closing", "closed", "failed"},
     session : BOOLEAN, approved : BOOLEAN, raced : BOOLEAN, superseded : BOOLEAN]
Requests ==
    [pc : {"idle", "gate", "search", "next", "connecting", "register"}, tool : Tools,
     approved : BOOLEAN, servers : Seq(Servers), conn : {None} \cup Conns, todo : SUBSET Tools]
Slots == [server : Servers, conn : {None} \cup Conns]
Toolset == [AgentTools -> {None} \cup Providers]

TypeOK ==
    /\ conns \in [Conns -> Connections]
    /\ entries \in Seq(Slots)
    /\ \A s \in Servers : Cardinality(Entry(s)) <= 1
    /\ closer \in [pos : Nat, size : Nat] /\ closer.pos <= Len(entries) + 1
    /\ registry \in [Tools -> {None} \cup Providers]
    /\ request \in [DOMAIN Requesters -> Requests]
    /\ agent \in [own : Toolset, cached : BOOLEAN, inner : Toolset]

Init ==
    /\ conns = [c \in Conns |-> Unused]
    /\ entries = <<>>
    /\ closer = [pos |-> 0, size |-> 0]
    /\ \E S \in SUBSET Tools : registry = [t \in Tools |-> IF t \in S THEN Local ELSE None]
    /\ request = [r \in DOMAIN Requesters |-> Idle]
    /\ agent = [own |-> NoTools, cached |-> FALSE, inner |-> NoTools]

-----------------------------------------------------------------------------
(* MCPServerManager and MCPConnection.                                     *)
Fresh == CHOOSE c \in Conns : conns[c].pc = "unused"
CanConnect == \E c \in Conns : conns[c].pc = "unused"

(* MCPConnection.connect up to the end of its handshakes. *)
Opening(s, approved) ==
    conns' = [conns EXCEPT ![Fresh] = [Unused EXCEPT !.server = s, !.pc = "opening",
                                                     !.approved = approved]]

(* Mutant of Store: a name keeps its first connection. *)
StoreFirst(c) ==
    entries' = IF Entry(conns[c].server) # {} THEN entries
               ELSE Append(entries, [server |-> conns[c].server, conn |-> c])

(* self._connections[config.name] = conn *)
Store(c) ==
    entries' = IF Entry(conns[c].server) # {}
               THEN [i \in DOMAIN entries |->
                        IF i \in Entry(conns[c].server) THEN [entries[i] EXCEPT !.conn = c] ELSE entries[i]]
               ELSE Append(entries, [server |-> conns[c].server, conn |-> c])

(* disconnect by name: the entry goes first, then the connection is closed. *)
Disconnect(s) ==
    /\ Entry(s) # {}
    /\ LET i == CHOOSE j \in Entry(s) : TRUE
       IN  /\ entries' = [entries EXCEPT ![i].conn = None]
           /\ conns' = [conns EXCEPT ![entries[i].conn].pc = IF @ = "open" THEN "closing" ELSE @]
    /\ UNCHANGED <<closer, registry, request, agent>>

DisconnectAll ==
    /\ closer.pos = 0 /\ Listed # {}
    /\ closer' = [pos |-> 1, size |-> Size]
    /\ UNCHANGED <<conns, entries, registry, request, agent>>

(* The loop of disconnect_all goes on once the connection at its place is  *)
(* closed: a dictionary whose size changed raises, past the last entry it  *)
(* is cleared.                                                             *)
CloserStep ==
    /\ closer.pos > 0
    /\ \A i \in 1..(closer.pos - 1) :
          i \in DOMAIN entries /\ entries[i].conn # None => conns[entries[i].conn].pc # "closing"
    /\ CASE Size # closer.size -> closer' = [pos |-> 0, size |-> 0] /\ UNCHANGED <<conns, entries>>
         [] Size = closer.size /\ closer.pos > Len(entries) ->
                closer' = [pos |-> 0, size |-> 0] /\ entries' = <<>> /\ UNCHANGED conns
         [] OTHER ->
                /\ closer' = [closer EXCEPT !.pos = @ + 1]
                /\ conns' = IF entries[closer.pos].conn = None THEN conns
                            ELSE [conns EXCEPT ![entries[closer.pos].conn].pc = IF @ = "open" THEN "closing" ELSE @]
                /\ UNCHANGED entries
    /\ UNCHANGED <<registry, request, agent>>

(* Mutant of Closed: an error while closing skips the reset. *)
ClosedUnlessError(c) ==
    /\ conns[c].pc = "closing"
    /\ \E ok \in BOOLEAN : conns' = [conns EXCEPT ![c].pc = "closed", ![c].session = ~ok]
    /\ UNCHANGED <<entries, closer, registry, request, agent>>

(* MCPConnection.disconnect ends; its finally forgets the session, whether *)
(* or not the transport could be closed.                                   *)
Closed(c) ==
    /\ conns[c].pc = "closing"
    /\ conns' = [conns EXCEPT ![c].pc = "closed", ![c].session = FALSE]
    /\ UNCHANGED <<entries, closer, registry, request, agent>>

-----------------------------------------------------------------------------
(* get_or_discover and discover_and_connect.                               *)
To(r, pc) == request' = [request EXCEPT ![r].pc = pc]
End(r) == request' = [request EXCEPT ![r] = Idle]

(* The error that makes DiscoveryHook.on_error ask for a tool. *)
ToolNotFound(t) == registry[t] = None

(* A tool that is registered is returned as it is, alive or not.  The      *)
(* manager's own discovery has no gate.                                    *)
Ask(r, t) ==
    /\ request[r].pc = "idle"
    /\ Requesters[r] = "registry" => ToolNotFound(t)
    /\ request' = [request EXCEPT ![r] = IF Requesters[r] = "registry"
                                          THEN [Idle EXCEPT !.pc = "gate", !.tool = t]
                                          ELSE [Idle EXCEPT !.pc = "search"]]
    /\ UNCHANGED <<conns, entries, closer, registry, agent>>

(* Mutant of Gate: a denied request is searched for, too. *)
GateIgnored(r) ==
    /\ request[r].pc = "gate"
    /\ \E allowed \in BOOLEAN :
          request' = [request EXCEPT ![r].pc = "search", ![r].approved = allowed]
    /\ UNCHANGED <<conns, entries, closer, registry, agent>>

(* permission.allow; DenyAll by default. *)
Gate(r) ==
    /\ request[r].pc = "gate"
    /\ request' = [request EXCEPT ![r].pc = "search", ![r].approved = TRUE] \/ End(r)
    /\ UNCHANGED <<conns, entries, closer, registry, agent>>

(* What the registry endpoints answer, which is nothing when they fail. *)
QueryRegistry == Found \cup {<<>>}

(* MCPDiscovery.search: endpoints that fail are skipped. *)
Search(r) ==
    /\ request[r].pc = "search"
    /\ \E found \in QueryRegistry : request' = [request EXCEPT ![r].pc = "next", ![r].servers = found]
    /\ UNCHANGED <<conns, entries, closer, registry, agent>>

(* The next server is tried; the manager passes over a name it has. *)
TryServer(r) ==
    LET q == request[r]
    IN  /\ q.pc = "next" /\ q.servers # <<>>
        /\ IF Requesters[r] = "manager" /\ Entry(Head(q.servers)) # {}
           THEN request' = [request EXCEPT ![r].servers = Tail(@)] /\ UNCHANGED conns
           ELSE /\ CanConnect
                /\ Opening(Head(q.servers), q.approved)
                /\ request' = [request EXCEPT ![r].pc = "connecting", ![r].conn = Fresh,
                                              ![r].servers = Tail(@)]
        /\ UNCHANGED <<entries, closer, registry, agent>>

(* The tools a connection adapts. *)
AdaptMany(c) == ServerTools[conns[c].server]

(* The connection is made and stored under its server's name. *)
Connected(r) ==
    LET c == request[r].conn
    IN  /\ request[r].pc = "connecting"
        /\ Store(c)
        /\ conns' = [d \in Conns |->
               IF d = c THEN [conns[c] EXCEPT !.pc = "open", !.session = TRUE, !.raced = closer.pos > 0]
               ELSE [conns[d] EXCEPT !.superseded = @ \/ (d \in Listed /\ d \notin Listed')]]
        /\ request' = [request EXCEPT ![r].pc = IF Requesters[r] = "registry" THEN "register" ELSE "next",
                                      ![r].todo = IF Requesters[r] = "registry"
                                                  THEN AdaptMany(c) ELSE {}]
        /\ UNCHANGED <<closer, registry, agent>>

(* Any of the handshakes fails: what was opened so far stays open. *)
ConnectFails(r) ==
    /\ request[r].pc = "connecting"
    /\ conns' = [conns EXCEPT ![request[r].conn].pc = "failed"]
    /\ To(r, "next")
    /\ UNCHANGED <<entries, closer, registry, agent>>

Register(t, p) == registry' = [registry EXCEPT ![t] = p]

(* One of the server's tools is registered, over any of its name; emitting *)
(* its audit event lets others run.                                        *)
RegisterFound(r) ==
    /\ request[r].pc = "register"
    /\ \E t \in request[r].todo :
          /\ Register(t, request[r].conn)
          /\ request' = [request EXCEPT ![r].todo = @ \ {t}]
    /\ UNCHANGED <<conns, entries, closer, agent>>

(* The requested tool is there by now, or the next server is tried. *)
CheckFound(r) ==
    /\ request[r].pc = "register" /\ request[r].todo = {}
    /\ IF registry[request[r].tool] # None THEN End(r) ELSE To(r, "next")
    /\ UNCHANGED <<conns, entries, closer, registry, agent>>

GiveUp(r) ==
    /\ request[r].pc = "next" /\ request[r].servers = <<>>
    /\ End(r)
    /\ UNCHANGED <<conns, entries, closer, registry, agent>>

(* ToolRegistry.remove *)
Remove(t) ==
    /\ registry[t] # None
    /\ registry' = [registry EXCEPT ![t] = None]
    /\ UNCHANGED <<conns, entries, closer, request, agent>>

-----------------------------------------------------------------------------
(* DynamicToolFactory.spawn: a tool around the code, or none for code that *)
(* does not pass the checks.                                               *)
GeneratedTool == {Generated, None}

(* AgentFactory.spawn: a ToolSpec takes what the registry holds now, a     *)
(* GeneratedToolSpec what DynamicToolFactory makes of it; a name that is   *)
(* not registered and an implementation that fails validation are dropped. *)
Resolve(t, generated) ==
    IF generated THEN GeneratedTool ELSE {registry[t]}

Spawn(G) ==
    /\ \E own \in Toolset :
          /\ \A t \in AgentTools : own[t] \in Resolve(t, t \in G)
          /\ agent' = [own |-> own, cached |-> FALSE, inner |-> NoTools]
    /\ UNCHANGED <<conns, entries, closer, registry, request>>

(* Mutant of AddTool: the cached agent is kept. *)
AddToolUnseen(t) ==
    /\ registry[t] \notin {None, agent.own[t]}
    /\ agent' = [agent EXCEPT !.own[t] = registry[t]]
    /\ UNCHANGED <<conns, entries, closer, registry, request>>

(* add_tool: the tool replaces its namesake, the cached agent is dropped. *)
AddTool(t) ==
    /\ registry[t] \notin {None, agent.own[t]}
    /\ agent' = [agent EXCEPT !.own[t] = registry[t], !.cached = FALSE, !.inner = NoTools]
    /\ UNCHANGED <<conns, entries, closer, registry, request>>

(* A run takes the cached agent, built from the tools of now if there is none. *)
StartRun ==
    /\ ~agent.cached
    /\ agent' = [agent EXCEPT !.cached = TRUE, !.inner = agent.own]
    /\ UNCHANGED <<conns, entries, closer, registry, request>>

(* A tool of provider p serves a call: one of a connection without a       *)
(* session answers with an error text instead, never with an exception.    *)
Serves(p) == p \in Conns => conns[p].session

-----------------------------------------------------------------------------
Next ==
    \/ \E s \in Servers : Disconnect(s)
    \/ DisconnectAll
    \/ CloserStep
    \/ \E c \in Conns : Closed(c)
    \/ \E r \in DOMAIN Requesters :
          \/ \E t \in Tools : Ask(r, t)
          \/ Gate(r)
          \/ Search(r)
          \/ TryServer(r)
          \/ Connected(r)
          \/ ConnectFails(r)
          \/ RegisterFound(r)
          \/ CheckFound(r)
          \/ GiveUp(r)
    \/ \E t \in Tools : Remove(t)
    \/ \E t \in AgentTools : AddTool(t)
    \/ \E G \in SUBSET AgentTools : Spawn(G)
    \/ StartRun

Spec == Init /\ [][Next]_vars

-----------------------------------------------------------------------------
(* The manager loses no connection it could close: one that is open is     *)
(* listed, unless a later one took its name from it, or it was made while  *)
(* disconnect_all was running.                                             *)
OpenIsListed ==
    \A c \in Conns : conns[c].pc = "open" /\ c \notin Listed => conns[c].raced \/ conns[c].superseded

(* The connections whose tools the registry or an agent holds. *)
Held == Conns \cap ({registry[t] : t \in Tools} \cup {agent.own[t] : t \in AgentTools} \cup
                    {agent.inner[t] : t \in AgentTools})

(* A tool that outlives its connection - in the registry or in an agent -  *)
(* is refused; what serves it is up.                                       *)
StaleIsRefused ==
    \A p \in Held :
        Serves(p) => conns[p].pc \in {"open", "closing"}

(* The registry holds no tool of a server that no approved request led to, *)
(* whatever the manager connects to on its own; neither do agents.         *)
OnlyApproved ==
    \A p \in Held : conns[p].approved

(* The state is well-formed - a name has one entry, the closer stays in    *)
(* the dictionary it walks - and a new run has the tools its agent has,    *)
(* however they were changed.                                              *)
Consistent == TypeOK /\ (agent.cached => agent.inner = agent.own)
=============================================================================
