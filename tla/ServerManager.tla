----------------------------- MODULE ServerManager -----------------------------
(***************************************************************************)
(* The manager of MCP servers (antikythera-tooling): one transport per     *)
(* server, made when the first call needs it.  A call looks the instance   *)
(* up, has it made without the lock when there is none, inserts it, and    *)
(* takes it out of the map in a locked section of its own: other calls     *)
(* come between any two of these.                                          *)
(*                                                                         *)
(* Abstracted: what transports are and do (the factory is a trait whose    *)
(* implementations are the host's), the texts of envelopes.                *)
(***************************************************************************)
EXTENDS Naturals

CONSTANTS
  ToolServers,   \* names calls may give
  Configured,    \* servers with a configuration
  Builtin,       \* servers whose transport is registered at construction
  MgrCalls,      \* invoke_tool, server_instructions and tool_metadata
  NoTransport

ASSUME ManagerAssumption ==
  /\ Configured \subseteq ToolServers /\ Builtin \subseteq ToolServers
  /\ NoTransport \notin MgrCalls \cup Builtin
  /\ MgrCalls \cap Builtin = {}

VARIABLES
  instances,  \* the transport of each server
  mgr,        \* each call: pc, server, the transport it works with
  seen        \* history: transports inserted while a call had its own made

mgrVars == <<instances, mgr, seen>>

\* A transport is named after the call that had it made, or after its server.
Transports == MgrCalls \cup Builtin
MgrEnded == {"invalid", "unconfigured", "failed", "done"}

ManagerInit ==
  /\ instances = [s \in ToolServers |-> IF s \in Builtin THEN s ELSE NoTransport]
  /\ mgr = [c \in MgrCalls |-> [pc |-> "idle", server |-> NoTransport, using |-> NoTransport]]
  /\ seen = [c \in MgrCalls |-> {}]

Goes(c, pc) == mgr' = [mgr EXCEPT ![c].pc = pc]

\* invoke_tool checks the envelope before it looks for the server.
InvokeTool(c, s, valid) ==
  /\ mgr[c].pc = "idle"
  /\ mgr' = [mgr EXCEPT ![c].pc = IF valid THEN "looking" ELSE "invalid", ![c].server = s]
  /\ UNCHANGED <<instances, seen>>

\* server_instructions and tool_metadata have no envelope.
AskServer(c, s) ==
  /\ mgr[c].pc = "idle"
  /\ mgr' = [mgr EXCEPT ![c].pc = "looking", ![c].server = s]
  /\ UNCHANGED <<instances, seen>>

(* Mutant of EnsureInstance: a configured server is connected anew.        *)
EnsureFresh(c) ==
  /\ mgr[c].pc = "looking"
  /\ Goes(c, IF mgr[c].server \in Configured THEN "creating"
             ELSE IF instances[mgr[c].server] # NoTransport THEN "ready"
             ELSE "unconfigured")
  /\ UNCHANGED <<instances, seen>>

\* The first locked section: is there an instance, and if not, a configuration?
EnsureInstance(c) ==
  /\ mgr[c].pc = "looking"
  /\ Goes(c, IF instances[mgr[c].server] # NoTransport THEN "ready"
             ELSE IF mgr[c].server \in Configured THEN "creating"
             ELSE "unconfigured")
  /\ UNCHANGED <<instances, seen>>

\* The factory answered: the new transport takes the place of what is there.
Insert(c) ==
  /\ mgr[c].pc = "creating"
  /\ instances' = [instances EXCEPT ![mgr[c].server] = c]
  /\ seen' = [d \in MgrCalls |->
                IF mgr[d].pc = "creating" /\ mgr[d].server = mgr[c].server
                THEN seen[d] \cup {c} ELSE seen[d]]
  /\ Goes(c, "ready")

\* The factory failed: nothing is inserted, and the next call tries again.
CreateFails(c) ==
  /\ mgr[c].pc = "creating" /\ Goes(c, "failed")
  /\ UNCHANGED <<instances, seen>>

\* The second locked section: the call keeps a handle of its own.
GetInstance(c) ==
  /\ mgr[c].pc = "ready"
  /\ mgr' = [mgr EXCEPT ![c].pc = "calling", ![c].using = instances[mgr[c].server]]
  /\ UNCHANGED <<instances, seen>>

CallEnds(c) ==
  /\ mgr[c].pc = "calling"
  /\ \E how \in {"done", "failed"} : Goes(c, how)
  /\ UNCHANGED <<instances, seen>>

ManagerNext ==
  \E c \in MgrCalls :
    \/ \E s \in ToolServers : AskServer(c, s) \/ \E valid \in BOOLEAN : InvokeTool(c, s, valid)
    \/ EnsureInstance(c) \/ Insert(c) \/ CreateFails(c) \/ GetInstance(c) \/ CallEnds(c)

ManagerSpec == ManagerInit /\ [][ManagerNext]_mgrVars

-------------------------------------------------------------------------------
ManagerTypeOK ==
  /\ instances \in [ToolServers -> Transports \cup {NoTransport}]
  /\ mgr \in [MgrCalls -> [pc : {"idle", "looking", "creating", "ready", "calling"} \cup MgrEnded,
                           server : ToolServers \cup {NoTransport},
                           using : Transports \cup {NoTransport}]]
  /\ seen \in [MgrCalls -> SUBSET MgrCalls]

(* A transport is replaced only by one that was already being made when it *)
(* was inserted (manager.rs:113-137): calls that race for the first use of *)
(* a server may leave a connection behind, a later call never does, and a  *)
(* builtin transport is never replaced.                                    *)
ReplacedByRivalsOnly ==
  [][\A s \in ToolServers :
       instances[s] # NoTransport /\ instances'[s] # instances[s] =>
         \E c \in MgrCalls : instances'[s] = c /\ instances[s] \in seen[c]]_mgrVars

===============================================================================
