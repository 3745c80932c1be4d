---------------------------- MODULE MCHostLibraries ---------------------------
(***************************************************************************)
(* Configuration for the libraries a host links: the rate limiter, the     *)
(* secret manager, the agent with its session store, the logger, and of    *)
(* the orchestrator the routing and the guardrails.  They share no state:  *)
(* the initial state chooses one, and only that one takes steps.  The      *)
(* state space is the sum of theirs.                                       *)
(***************************************************************************)
EXTENDS RateLimiter, HostAgent, SecretManager, LogStream, TaskGuards,
        AgentRouting

CONSTANTS
  r1,             \* an agent run
  g1, g2,         \* guarded tasks
  q1, q2, q3, q4, \* routed tasks
  a1, a2, w1, w2, \* agents and their roles
  s1, s2,         \* sessions
  u1, u2, u3      \* subscribers of the log

VARIABLE part  \* the component that takes steps

-------------------------------------------------------------------------------
(* RateLimiter: a tick is 100 seconds at most.  The minute is one that     *)
(* began, the idle timeout is longer, and the hour and the day are longer  *)
(* still, in the order of the code.                                        *)

Limit(m, h, d, b, n, on) ==
  [enabled |-> on, limit |-> [w \in Windows |-> CASE w = "minute" -> m
                                                   [] w = "hour" -> h
                                                   [] w = "day" -> d],
   burst |-> b, sessions |-> n]

Usual == Limit(1, 2, 2, 0, 2, TRUE)
Bursty == Limit(2, 1, 1, 1, 1, TRUE)
Off == Limit(1, 2, 2, 0, 2, FALSE)

AllConfigs == {Usual, Bursty, Off}

Sizes == [w \in Windows |-> CASE w = "minute" -> 2 [] w = "hour" -> 4 [] w = "day" -> 5]

(* HostAgent: a run that may call one tool, and one that may call none.    *)

TheSteps == [r \in Runs |-> IF r = r1 THEN 1 ELSE 0]

(* SecretManager: without a thread, with one and fewer versions, with one  *)
(* and no limit on versions, and without one and no versions at all.       *)

SecretsAs(auto, versioning, n, age) ==
  [enabled |-> TRUE, auto_rotate |-> auto, versioning |-> versioning,
   max_versions |-> n, max_age |-> age]

ByHand == SecretsAs(FALSE, TRUE, 2, 2)
SecretSettings == {ByHand, SecretsAs(TRUE, TRUE, 1, 1), SecretsAs(TRUE, FALSE, 1, 2),
                   SecretsAs(FALSE, TRUE, 0, 2)}

(* LogStream: a subscriber is nothing but a name, so they come in the      *)
(* order of theirs.                                                        *)

InOrder ==
  \A i \in 1..2 : LET come == <<u1, u2, u3>> IN
    receiver'[come[i]] = "none" => receiver'[come[i + 1]] = "none"

(* TaskGuards: two chains, which ask the rate limit before and after       *)
(* others; one task has too long a timeout, one too large a budget.        *)

TheChains ==
  {<<"timeout", "rate_limit", "budget">>, <<"budget", "rate_limit", "cancellation">>}

ThePolicy == [max_timeout_ms |-> 1, require_timeout |-> FALSE,
              max_task_steps |-> 0, require_budget |-> FALSE]

TheFields == [t \in GuardedTasks |->
  [timeout_ms |-> IF t = g1 THEN 2 ELSE Absent, budget_steps |-> Absent,
   max_steps |-> IF t = g2 THEN 1 ELSE Absent]]

(* AgentRouting: two tasks of their own, with a session each, and a batch. *)

Asks ==
  (q1 :> [agent |-> a1, role |-> w1, session |-> s1]) @@
  (q2 :> [agent |-> a2, role |-> w2, session |-> s2]) @@
  [t \in RoutedTasks |-> [agent |-> Nothing, role |-> Nothing, session |-> Nothing]]

OneBatch == <<q3, q4>>

-------------------------------------------------------------------------------
MCInit ==
  /\ part \in {"rate", "agent", "secrets", "log", "guards", "routing"}
  /\ RateInit /\ AgentInit /\ SecretInit /\ LogInit /\ GuardInit /\ RouteInit
  /\ part # "guards" => chain[1] = "budget"
  /\ part # "routing" => router = "direct"

\* Everything but what the named component keeps stays as it is.
Only(name) ==
  /\ part = name /\ UNCHANGED part
  /\ name # "rate" => UNCHANGED rateVars
  /\ name # "agent" => UNCHANGED agentVars
  /\ name # "secrets" => UNCHANGED secretVars
  /\ name # "log" => UNCHANGED logVars
  /\ name # "guards" => UNCHANGED guardVars
  /\ name # "routing" => UNCHANGED routeVars

MCNext ==
  \/ Only("rate") /\ RateNext
  \/ Only("agent") /\ AgentNext
  \/ Only("secrets") /\ SecretNext
  \/ Only("log") /\ LogNext /\ InOrder
  \/ Only("guards") /\ GuardNext
  \/ Only("routing") /\ RouteNext

MCVars == <<part, rateVars, agentVars, secretVars, logVars, guardVars, routeVars>>

\* The fairness of each component, of the steps it takes here.
MCFairness ==
  /\ WF_MCVars(Only("rate") /\ Tick) /\ WF_MCVars(Only("rate") /\ Cleanup)
  /\ \A t \in Loggers : WF_MCVars(Only("log") /\ LogStep(t))
  /\ \A s \in Subscribers : WF_MCVars(Only("log") /\ Receive(s))

MCSpec == MCInit /\ [][MCNext]_MCVars /\ MCFairness

===============================================================================
