------------------------------ MODULE AgentRouting ------------------------------
(***************************************************************************)
(* Which agent a task goes to: the registry of the multi-agent             *)
(* orchestrator, its routers, and the list of sessions it keeps            *)
(* (multi_agent/registry.rs, router.rs and session.rs, and their callers   *)
(* dispatch and dispatch_many).  Budget, permits and the run itself are in *)
(* TaskDispatch; here a run ends well or not.                              *)
(*                                                                         *)
(* The registry is a hash map: a router sees the agents in the order of    *)
(* its iteration, which is any order, and may change when an agent is      *)
(* added.                                                                  *)
(***************************************************************************)
EXTENDS Integers, FiniteSets, Functions, Sequences

CONSTANTS
  Agents,        \* ids an agent may be registered with
  Roles,
  RoutedTasks,
  Request,       \* of each task: the agent, the role and the session it asks for
  Batch,         \* the tasks of one call of dispatch_many, in their order
  Routers,       \* the routers a host may choose
  CounterWidth,  \* 2^64, the modulus of the counter of the round robin
  MaxManaged,    \* max_sessions
  SessionTtl,    \* session_ttl in ticks; Nothing for none
  Nothing        \* an Option that is None

RouterNames == {"direct", "round-robin", "first-available", "role"}

ManagedIds == {Request[t].session : t \in RoutedTasks} \ {Nothing}

ASSUME RoutingAssumption ==
  /\ IsFiniteSet(Agents) /\ IsFiniteSet(RoutedTasks)
  /\ Nothing \notin Agents \cup Roles
  /\ \A t \in RoutedTasks :
       Request[t].agent \in Agents \cup {Nothing} /\ Request[t].role \in Roles \cup {Nothing}
  /\ Batch \in Seq(RoutedTasks) /\ IsInjective(Batch)
  /\ Routers \subseteq RouterNames
  /\ CounterWidth \in Nat \ {0} /\ MaxManaged \in Nat
  /\ SessionTtl \in (Nat \ {0}) \cup {Nothing}

VARIABLES
  router,   \* the one the host chose
  counter,  \* of the round robin, the next number
  roleOf,   \* the registry: the role of each agent in it
  profiles, \* its agents in the order of the map
  routed,   \* each task: pc and the agent it was routed to
  managed,  \* sessions: agent, message count and time since the last activity
  share,    \* history: tasks each agent got since an agent was added
  wraps     \* history: how often the counter started over since then

registry == <<roleOf, profiles>>
routeVars == <<router, counter, registry, routed, managed, share, wraps>>

RouteInit ==
  /\ router \in Routers
  /\ counter = 0
  /\ roleOf = <<>> /\ profiles = <<>>
  /\ routed = [t \in RoutedTasks |-> [pc |-> "new", agent |-> Nothing]]
  /\ managed = <<>>
  /\ share = [a \in Agents |-> 0] /\ wraps = 0

Registered == DOMAIN roleOf

At(t, pc) == routed[t].pc = pc

\* The map is iterated in an order of its own.
Orders(S) == Injection(1..Cardinality(S), S)

\* register_agent takes the orchestrator by value, so no task is under way.  A
\* second agent of one id replaces the first, in its place.
RegisterAgent(a, role) ==
  /\ \A t \in RoutedTasks : At(t, "new") \/ At(t, "done")
  /\ roleOf' = [b \in Registered \cup {a} |-> IF b = a THEN role ELSE roleOf[b]]
  /\ IF a \in Registered
     THEN UNCHANGED <<profiles, share, wraps>>
     ELSE /\ profiles' \in Orders(Registered \cup {a})
          /\ share' = [b \in Agents |-> 0] /\ wraps' = 0
  /\ UNCHANGED <<router, counter, routed, managed>>

-------------------------------------------------------------------------------
(* AgentRouter::route *)

\* The first in the order of the map of the agents in S, if one is there.
FirstOf(S) ==
  {profiles[i] : i \in {i \in DOMAIN profiles :
     profiles[i] \in S /\ \A j \in 1..(i - 1) : profiles[j] \notin S}}

\* No agent, or one.  A role that is missing or that nobody has gives none.
Choice(t) ==
  CASE router = "direct" -> FirstOf({Request[t].agent})
    [] router = "first-available" -> FirstOf(Agents)
    [] router = "role" -> FirstOf({a \in Registered : roleOf[a] = Request[t].role})
    [] router = "round-robin" ->
         IF profiles = <<>> THEN {} ELSE {profiles[(counter % Len(profiles)) + 1]}

\* fetch_add of an atomic counter; the other routers have no state.
Turn ==
  IF router = "round-robin" /\ profiles # <<>>
  THEN /\ counter' = (counter + 1) % CounterWidth
       /\ wraps' = IF counter' = 0 THEN wraps + 1 ELSE wraps
  ELSE UNCHANGED <<counter, wraps>>

(* Mutant of RouteTo: the tasks of a batch do not turn the counter.        *)
RouteToStill(t, next) ==
  /\ IF t \in Range(Batch) THEN UNCHANGED <<counter, wraps>> ELSE Turn
  /\ IF Choice(t) = {}
     THEN routed' = [routed EXCEPT ![t].pc = "done"] /\ UNCHANGED share
     ELSE \E a \in Choice(t) :
            /\ routed' = [routed EXCEPT ![t] = [pc |-> next, agent |-> a]]
            /\ share' = [share EXCEPT ![a] = @ + 1]
  /\ UNCHANGED <<router, registry, managed>>

RouteTo(t, next) ==
  /\ Turn
  /\ IF Choice(t) = {}
     THEN routed' = [routed EXCEPT ![t].pc = "done"] /\ UNCHANGED share
     ELSE \E a \in Choice(t) :
            /\ routed' = [routed EXCEPT ![t] = [pc |-> next, agent |-> a]]
            /\ share' = [share EXCEPT ![a] = @ + 1]
  /\ UNCHANGED <<router, registry, managed>>

-------------------------------------------------------------------------------
(* OrchestratorSessionManager, one mutex around each operation *)

Fresh(a) == [agent |-> a, messages |-> 0, idle |-> 0]

Lapsed(s) == SessionTtl # Nothing /\ managed[s].idle >= SessionTtl

\* Only a full list is rid of the sessions that lapsed.
Remaining ==
  IF Cardinality(DOMAIN managed) >= MaxManaged
  THEN {s \in DOMAIN managed : ~Lapsed(s)} ELSE DOMAIN managed

\* A session of another agent is refreshed and stays that agent's; one for
\* which there is no room is an error that dispatch does not look at.
GetOrCreate(s, a) ==
  managed' =
    IF s \in DOMAIN managed THEN [managed EXCEPT ![s].idle = 0]
    ELSE [x \in Remaining \cup (IF Cardinality(Remaining) < MaxManaged THEN {s} ELSE {}) |->
            IF x = s THEN Fresh(a) ELSE managed[x]]

RecordMessage(s) ==
  managed' = IF s \in DOMAIN managed
             THEN [managed EXCEPT ![s].messages = @ + 1, ![s].idle = 0] ELSE managed

RemoveManaged(s) ==
  /\ s \in DOMAIN managed
  /\ managed' = Restrict(managed, DOMAIN managed \ {s})
  /\ UNCHANGED <<router, counter, registry, routed, share, wraps>>

-------------------------------------------------------------------------------
(* dispatch and dispatch_many *)

\* A task of its own is routed when it has its permit.
RouteTask(t) ==
  /\ t \notin Range(Batch) /\ At(t, "new")
  /\ RouteTo(t, IF Request[t].session = Nothing THEN "running" ELSE "routed")

\* The tasks of a batch are routed in their order before any of them begins;
\* their sessions are not tracked.
RouteInBatch(i) ==
  /\ At(Batch[i], "new")
  /\ \A j \in 1..(i - 1) : ~At(Batch[j], "new")
  /\ RouteTo(Batch[i], "running")

TrackSession(t) ==
  /\ At(t, "routed")
  /\ GetOrCreate(Request[t].session, routed[t].agent)
  /\ routed' = [routed EXCEPT ![t].pc = "running"]
  /\ UNCHANGED <<router, counter, registry, share, wraps>>

\* A batch begins when all of it is routed.  The result of a run that failed
\* names no session.
EndTask(t, success) ==
  /\ At(t, "running")
  /\ t \in Range(Batch) => \A u \in Range(Batch) : ~At(u, "new")
  /\ routed' = [routed EXCEPT ![t].pc = "done"]
  /\ IF success /\ t \notin Range(Batch) /\ Request[t].session # Nothing
     THEN RecordMessage(Request[t].session) ELSE UNCHANGED managed
  /\ UNCHANGED <<router, counter, registry, share, wraps>>

\* Time passes, up to the time to live.
SessionsAge ==
  /\ SessionTtl # Nothing
  /\ managed' = [s \in DOMAIN managed |->
       [managed[s] EXCEPT !.idle = IF Lapsed(s) THEN @ ELSE @ + 1]]
  /\ UNCHANGED <<router, counter, registry, routed, share, wraps>>

RouteNext ==
  \/ \E a \in Agents, role \in Roles : RegisterAgent(a, role)
  \/ \E t \in RoutedTasks : RouteTask(t) \/ TrackSession(t)
  \/ \E i \in DOMAIN Batch : RouteInBatch(i)
  \/ \E t \in RoutedTasks, success \in BOOLEAN : EndTask(t, success)
  \/ \E s \in ManagedIds : RemoveManaged(s)
  \/ SessionsAge

RouteSpec == RouteInit /\ [][RouteNext]_routeVars

-------------------------------------------------------------------------------
(* Properties *)

RouteTypeOK ==
  /\ router \in Routers /\ counter \in 0..(CounterWidth - 1)
  /\ roleOf \in [Registered -> Roles] /\ Registered \subseteq Agents
  /\ profiles \in Orders(Registered)
  /\ routed \in [RoutedTasks -> [pc : {"new", "routed", "running", "done"},
                                 agent : Agents \cup {Nothing}]]
  /\ DOMAIN managed \subseteq ManagedIds /\ Cardinality(DOMAIN managed) <= MaxManaged
  /\ share \in [Agents -> Nat] /\ wraps \in Nat

(* "Distributes tasks evenly across registered agents" (router.rs:100): of *)
(* the tasks since the last agent was added, whoever dispatched them and   *)
(* however the calls interleave, no agent got two more than another -- but *)
(* for one more each time the counter overflowed, where an agent's turn    *)
(* comes early.                                                            *)
RoundRobinEven ==
  router = "round-robin" =>
    \A a, b \in Registered : share[a] <= share[b] + 1 + wraps
===============================================================================
