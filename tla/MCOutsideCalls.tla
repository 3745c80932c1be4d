---------------------------- MODULE MCOutsideCalls ----------------------------
(***************************************************************************)
(* Configuration for the components whose calls leave the process: the     *)
(* stdio transport, the manager of MCP servers, and the LLM proxy.  They   *)
(* share no state: the initial state chooses one, and only that one takes  *)
(* steps.  The state space is the sum of theirs.                           *)
(***************************************************************************)
EXTENDS McpStdio, ServerManager, LlmProxy

CONSTANT m1  \* a request for a model

VARIABLE part  \* the component that takes steps

-------------------------------------------------------------------------------
(* LlmProxy: one request is streamed, and the stream says that it is done, *)
(* or just ends; the others compete for the quota.                         *)

TheStreams == {<<"delta", "other", "delta", "done">>, <<"delta", "delta">>}
TheWays == [c \in LlmCalls |-> IF c = m1 THEN {"stream", "stub"} ELSE {"call"}]

-------------------------------------------------------------------------------
MCInit ==
  /\ part \in {"stdio", "manager", "llm"}
  /\ Init /\ ManagerInit /\ LlmInit

\* Everything but what the named component keeps stays as it is.
Only(name) ==
  /\ part = name /\ UNCHANGED part
  /\ name # "stdio" => UNCHANGED vars
  /\ name # "manager" => UNCHANGED mgrVars
  /\ name # "llm" => UNCHANGED llmVars

MCNext ==
  \/ Only("stdio") /\ Next
  \/ Only("manager") /\ ManagerNext
  \/ Only("llm") /\ LlmNext

MCVars == <<part, vars, mgrVars, llmVars>>

\* The fairness of each component, of the steps it takes here.
MCFairness ==
  /\ WF_MCVars(Only("stdio") /\ Connecting)
  /\ \A r \in Requests : WF_MCVars(Only("stdio") /\ Step(r))
  /\ \A c \in LlmCalls : WF_MCVars(Only("llm") /\ Pump(c))

MCSpec == MCInit /\ [][MCNext]_MCVars /\ MCFairness

===============================================================================
