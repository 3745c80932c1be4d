------------------------------ MODULE ToolRouter ------------------------------
(***************************************************************************)
(* The tool router of the server runtime: the union registry of tools with *)
(* one owner each, and the routing of calls to the owner's side.  Its four *)
(* maps have a mutex each; every section under a lock is one action, and   *)
(* registrations and calls of any threads interleave between them.         *)
(*                                                                         *)
(* Abstracted: definitions, arguments and results; a remote call is one    *)
(* step (ControlChannel has its detail); the peer of a server is the list  *)
(* of tools it offers when it is connected.                                *)
(***************************************************************************)
EXTENDS Naturals, Sequences, FiniteSets

CONSTANTS
  Tools,
  Servers,  \* names of MCP servers
  Calls,    \* calls ever made
  Lists,    \* lists of tools that clients register and servers offer
  Allowed,  \* GatePolicy: the tools allowed at each destination
  None

Destinations == {"local", "remote", "mcp"}

ASSUME RouterAssumption ==
  /\ Lists \subseteq Seq(Tools)
  /\ Allowed \in [Destinations -> SUBSET Tools]
  /\ None \notin Servers \cup Tools \cup Destinations

VARIABLES
  owner,     \* registry: where each tool is executed; None: unknown
  handlers,  \* local_handlers: tools with one
  server,    \* tool_server: the MCP server of a tool
  connected, \* mcp_servers
  adding,    \* register_local_tool is between its two sections
  joining,   \* connect_mcp_server is between its two sections
  call,      \* the calls: [pc, tool, via, dest, at]
  refused,   \* history: servers whose connection a collision stopped
  offered    \* history: tools a server offered

registry == <<owner, handlers, server, connected, adding, joining, refused, offered>>
routerVars == <<registry, call>>

CallStage == {"new", "called", "found", "lookup", "sent", "done", "denied", "failed"}

RouterInit ==
  /\ owner = [t \in Tools |-> None]
  /\ handlers = {}
  /\ server = [t \in Tools |-> None]
  /\ connected = {} /\ adding = {} /\ joining = {}
  /\ call = [c \in Calls |-> [pc |-> "new", tool |-> None, via |-> "loop", dest |-> None, at |-> None]]
  /\ refused = {}
  /\ offered = [s \in Servers |-> {}]

-------------------------------------------------------------------------------
(* Registration. *)

\* UnionRegistry::register: the same side may register a name again.
Free(t, side) == owner[t] \in {None, side}

\* A list is registered up to its first collision, and what precedes it stays.
Accepted(list, side) ==
  {list[i] : i \in {j \in DOMAIN list : \A k \in 1..j : Free(list[k], side)}}

Collides(list, side) == \E i \in DOMAIN list : ~Free(list[i], side)

Own(T, side) == owner' = [t \in Tools |-> IF t \in T THEN side ELSE owner[t]]

(* The two sections of register_local_tool. *)
RegisterLocalTool(t) ==
  /\ Free(t, "local")
  /\ Own({t}, "local")
  /\ adding' = adding \cup {t}
  /\ UNCHANGED <<handlers, server, connected, joining, call, refused, offered>>

(* Mutant of InsertHandler: a registration that came to nothing. *)
InsertNothing(t) ==
  /\ t \in adding
  /\ adding' = adding \ {t}
  /\ UNCHANGED <<owner, handlers, server, connected, joining, call, refused, offered>>

InsertHandler(t) ==
  /\ t \in adding
  /\ handlers' = handlers \cup {t}
  /\ adding' = adding \ {t}
  /\ UNCHANGED <<owner, server, connected, joining, call, refused, offered>>

RegisterClientTools(list) ==
  /\ Own(Accepted(list, "remote"), "remote")
  /\ UNCHANGED <<handlers, server, connected, adding, joining, call, refused, offered>>

(* connect_mcp_server up to the release of the two locks it registers      *)
(* under.  After a collision it returns.                                   *)
ConnectMcpServer(s, list) ==
  /\ s \notin joining
  /\ Own(Accepted(list, "mcp"), "mcp")
  /\ server' = [t \in Tools |-> IF t \in Accepted(list, "mcp") THEN s ELSE server[t]]
  /\ IF Collides(list, "mcp")
     THEN refused' = refused \cup {s} /\ UNCHANGED joining
     ELSE joining' = joining \cup {s} /\ UNCHANGED refused
  /\ offered' = [offered EXCEPT ![s] = @ \cup {list[i] : i \in DOMAIN list}]
  /\ UNCHANGED <<handlers, connected, adding, call>>

InsertServer(s) ==
  /\ s \in joining
  /\ joining' = joining \ {s}
  /\ connected' = connected \cup {s}
  /\ UNCHANGED <<owner, handlers, server, adding, call, refused, offered>>

-------------------------------------------------------------------------------
(* Calls. *)

GoTo(c, stage) == call' = [call EXCEPT ![c].pc = stage] /\ UNCHANGED registry

(* execute (tool loop, emit-tool-call) or execute_server_owned (HTTP). *)
Call(c, t, via) ==
  /\ call[c].pc = "new"
  /\ call' = [call EXCEPT ![c].pc = "called", ![c].tool = t, ![c].via = via]
  /\ UNCHANGED registry

(* Mutant of Denies: the HTTP endpoint reaches the client's tools. *)
DeniesUnlisted(c, dest) == dest = None \/ call[c].tool \notin Allowed[dest]

\* No owner, a client tool over HTTP, or the gate.
Denies(c, dest) ==
  \/ dest = None
  \/ call[c].via = "http" /\ dest = "remote"
  \/ call[c].tool \notin Allowed[dest]

Resolve(c) ==
  LET dest == owner[call[c].tool]
  IN  /\ call[c].pc = "called"
      /\ IF Denies(c, dest)
         THEN GoTo(c, "denied")
         ELSE /\ call' = [call EXCEPT ![c].pc = "found", ![c].dest = dest]
              /\ UNCHANGED registry

(* No handler, or arguments that cannot be parsed; what a handler reports  *)
(* as its error is an answer.                                              *)
ExecuteLocal(c) ==
  /\ call[c].pc = "found" /\ call[c].dest = "local"
  /\ GoTo(c, "failed") \/ (call[c].tool \in handlers /\ GoTo(c, "done"))

ExecuteRemote(c) ==
  /\ call[c].pc = "found" /\ call[c].dest = "remote"
  /\ \E outcome \in {"done", "denied", "failed"} : GoTo(c, outcome)

(* The two lookups of execute_mcp and its call of the server. *)
LookUpServer(c) ==
  /\ call[c].pc = "found" /\ call[c].dest = "mcp"
  /\ IF server[call[c].tool] = None
     THEN GoTo(c, "failed")
     ELSE /\ call' = [call EXCEPT ![c].pc = "lookup", ![c].at = server[call[c].tool]]
          /\ UNCHANGED registry

LookUpTransport(c) ==
  /\ call[c].pc = "lookup"
  /\ GoTo(c, IF call[c].at \in connected THEN "sent" ELSE "failed")

\* Arguments that cannot be parsed, an error of the transport, or an answer.
McpAnswers(c) ==
  /\ call[c].pc = "sent"
  /\ \E outcome \in {"done", "failed"} : GoTo(c, outcome)

RouterNext ==
  \/ \E t \in Tools : RegisterLocalTool(t) \/ InsertHandler(t)
  \/ \E list \in Lists : RegisterClientTools(list)
  \/ \E s \in Servers : InsertServer(s) \/ \E list \in Lists : ConnectMcpServer(s, list)
  \/ \E c \in Calls :
       \/ \E t \in Tools, via \in {"loop", "http"} : Call(c, t, via)
       \/ Resolve(c)
       \/ ExecuteLocal(c) \/ ExecuteRemote(c)
       \/ LookUpServer(c) \/ LookUpTransport(c) \/ McpAnswers(c)

RouterSpec == RouterInit /\ [][RouterNext]_routerVars

-------------------------------------------------------------------------------
(* Properties. *)

(* The maps have their types, and the registry and tool_server agree on    *)
(* which tools are on MCP servers, since both are locked together.         *)
RouterTypeOK ==
  /\ owner \in [Tools -> Destinations \cup {None}]
  /\ handlers \subseteq Tools /\ adding \subseteq Tools
  /\ server \in [Tools -> Servers \cup {None}]
  /\ \A t \in Tools : server[t] # None <=> owner[t] = "mcp"
  /\ connected \subseteq Servers /\ joining \subseteq Servers /\ refused \subseteq Servers
  /\ offered \in [Servers -> SUBSET Tools]
  /\ call \in [Calls -> [pc : CallStage, tool : Tools \cup {None}, via : {"loop", "http"},
                         dest : Destinations \cup {None}, at : Servers \cup {None}]]

(* A tool is locked to one side for good: a routing decision stays true    *)
(* after the registry's lock is released (DECISIONS_RUNTIME_BRIDGE.md:27). *)
OwnerFixed == [][\A t \in Tools : owner[t] # None => owner'[t] = owner[t]]_routerVars

(* A call only gets to the side that owns its tool now, if the gate allows *)
(* the tool there, over HTTP never to the client, and only to an MCP       *)
(* server that offered the tool, even if another one takes it over between *)
(* the two lookups.                                                        *)
RoutedToOwner ==
  \A c \in Calls : call[c].dest # None =>
    /\ call[c].dest = owner[call[c].tool]
    /\ call[c].tool \in Allowed[call[c].dest]
    /\ call[c].via = "http" => call[c].dest # "remote"
    /\ call[c].at # None => call[c].tool \in offered[call[c].at]

(* A tool with an owner can be executed, but for the moment between the    *)
(* two sections of its registration and the leftovers of a connection that *)
(* a name collision stopped halfway.                                       *)
OwnersCanServe ==
  /\ \A t \in Tools : owner[t] = "local" => t \in handlers \cup adding
  /\ \A t \in Tools : owner[t] = "mcp" => server[t] \in connected \cup joining \cup refused
===============================================================================
