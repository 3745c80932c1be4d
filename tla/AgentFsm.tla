------------------------------- MODULE AgentFsm -------------------------------
(***************************************************************************)
(* The typed finite state machine of the agent loop.  The runner keeps its *)
(* own copy of the enum in wasm_agent/types.rs; the domain crate holds the *)
(* original in fsm.rs.  Both define the same eleven edges.                 *)
(***************************************************************************)

FsmState ==
  {"Idle", "UserTurnPrepared", "LlmStreaming", "LlmCommitted",
   "ToolRequested", "ToolResultProcessed", "Final"}

(* The transition table of can_transition_to. *)
Edges ==
  { <<"Idle", "UserTurnPrepared">>,
    <<"UserTurnPrepared", "LlmStreaming">>,
    <<"LlmStreaming", "LlmCommitted">>,
    <<"LlmCommitted", "ToolRequested">>,
    <<"LlmCommitted", "Final">>,
    <<"LlmCommitted", "Idle">>,
    <<"ToolRequested", "ToolResultProcessed">>,
    <<"ToolResultProcessed", "LlmStreaming">>,
    <<"ToolResultProcessed", "Final">>,
    <<"ToolResultProcessed", "Idle">>,
    <<"Final", "Idle">> }

CanTransition(from, to) == <<from, to>> \in Edges

(* transition_to: an illegal edge is refused and leaves the state as it is. *)
TransitionTo(from, to) == IF CanTransition(from, to) THEN to ELSE from
===============================================================================
