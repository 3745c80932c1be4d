------------------------------- MODULE ToolLoop -------------------------------
(***************************************************************************)
(* The tool loop of the server runtime (run_tool_loop): the host that      *)
(* drives the agent runner of one core.  A core is owned by its thread, so *)
(* the runs of the loop on it follow one another; each step of the loop    *)
(* is one exported function of the runner, and time passes between them    *)
(* while the model and the tools work.                                     *)
(*                                                                         *)
(* Abstracted: prompts and contents; the gates, providers and the router,  *)
(* which answer or fail; the tool_result events of the runner, of which    *)
(* only the tools they name matter.                                        *)
(***************************************************************************)
EXTENDS AgentRunner

CONSTANTS
  Tools,
  Known,    \* those the union registry pushed to the runner
  Builtins, \* those the composite executes itself
  Timed,    \* those whose execution the router gives up after its TTL
  MaxRuns   \* bound on the runs of the loop on this core

ASSUME LoopAssumption ==
  /\ Known \subseteq Tools /\ Builtins \subseteq Tools /\ Timed \subseteq Tools
  /\ MaxRuns \in Nat

VARIABLES
  pc,      \* of run_tool_loop: idle, prepare, ask, drain, execute or feed
  sess,    \* the session of the run
  limit,   \* its max_steps
  round,   \* its `step`
  tool,    \* the tool of the call under way
  own,     \* tools of tool_result events in SessionRuntime.events, undrained
  queued,  \* the same in pending_events
  runs,    \* history: runs started
  asked,   \* history: turns prepared in the run
  served,  \* history: executions of the call under way
  swapped, \* history: a hook replaced the action of the call under way
  fed      \* history: the last tool whose result each session was fed

events == <<own, queued>>
history == <<runs, asked, served, swapped, fed>>
loopVars == <<vars, pc, sess, limit, round, tool, events, history>>

Stage == {"idle", "prepare", "ask", "drain", "execute", "feed"}
Actions == {"final", "retry", "malformed", "call"}

LoopInit ==
  /\ Init
  /\ pc = "idle" /\ round = 0
  /\ sess \in Sessions /\ limit = DefaultSteps /\ tool \in Tools
  /\ own = [s \in Sessions |-> {}]
  /\ queued = [s \in Sessions |-> {}]
  /\ runs = 0 /\ asked = 0 /\ served = 0 /\ swapped = FALSE
  /\ fed = [s \in Sessions |-> {}]

-------------------------------------------------------------------------------
(* The events of the runner. *)

\* A session that left memory in the call took its own events with it.
Remaining(Gone) == [s \in Sessions |-> IF s \in live' \ Gone THEN own[s] ELSE {}]

(* validate_tool_call and execute_builtin sort the calls of the model. *)
Kind(t) ==
  IF t \notin Known THEN "call_unknown"
  ELSE IF t \in Builtins THEN "call_builtin" ELSE "call_host"

ReplyOf(action, t) == IF action = "call" THEN Kind(t) ELSE action

\* What the call did counts, since the session may have been created in it.
Counts(c) == rt'[sess].counters[c] > Ensured(sess, IdleSessions).counters[c]

-------------------------------------------------------------------------------
(* The loop. *)

Fail == pc' = "idle"

(* init(config) with the max_steps of the run, which a session already in  *)
(* memory does not take over, then register_tools.                         *)
Start(s, n) ==
  /\ pc = "idle" /\ runs < MaxRuns
  /\ Configure(s, [defaults EXCEPT !.maxSteps = n], maxInMemory)
  /\ pc' = "prepare" /\ sess' = s /\ limit' = n /\ round' = 0
  /\ own' = Remaining({})
  /\ runs' = runs + 1 /\ asked' = 0
  /\ UNCHANGED <<tool, queued, served, swapped, fed>>

Exhaust ==
  /\ pc = "prepare" /\ round >= limit
  /\ Fail
  /\ UNCHANGED <<vars, sess, limit, round, tool, events, history>>

(* An archived session and a hook that aborts are errors. *)
Prepare(hook) ==
  /\ pc = "prepare" /\ round < limit
  /\ PrepareUserTurn(sess, hook)
  /\ pc' = IF hook = "pass" /\ sess \in live' THEN "ask" ELSE "idle"
  /\ own' = Remaining(IdleSessions)
  /\ asked' = asked + 1
  /\ UNCHANGED <<sess, limit, round, tool, queued, runs, served, swapped, fed>>

(* The gate denies the call, the provider is unknown or the call fails. *)
AskFails ==
  /\ pc = "ask" /\ Fail
  /\ UNCHANGED <<vars, sess, limit, round, tool, events, history>>

\* Where the loop goes with the action of a CommitResult; the model asked for
\* a builtin that the composite has executed, or not.
Follow(action, t, builtin) ==
  /\ pc' = IF action = "call" THEN "drain" ELSE "idle"
  /\ tool' = IF action = "call" THEN t ELSE tool
  /\ served' = IF builtin THEN 1 ELSE 0
  /\ queued' = IF builtin THEN [queued EXCEPT ![sess] = @ \cup {t}] ELSE queued

(* Mutant of CommitTaken: the loop takes a retry for a call. *)
CommitTakenOn(action, t) ==
  /\ pc = "ask"
  /\ CommitLlmResponse(sess, ReplyOf(action, t), "pass")
  /\ Counts("commits") /\ ReplyOf(action, t) # "call_unknown"
  /\ Follow(IF action = "retry" THEN "call" ELSE action, t, ReplyOf(action, t) = "call_builtin")
  /\ own' = Remaining(IdleSessions)
  /\ swapped' = FALSE
  /\ UNCHANGED <<sess, limit, round, runs, asked, fed>>

(* commit_llm_response of the reply, which the hooks let pass. *)
CommitTaken(action, t) ==
  /\ pc = "ask"
  /\ CommitLlmResponse(sess, ReplyOf(action, t), "pass")
  /\ Counts("commits") /\ ReplyOf(action, t) # "call_unknown"
  /\ Follow(action, t, ReplyOf(action, t) = "call_builtin")
  /\ own' = Remaining(IdleSessions)
  /\ swapped' = FALSE
  /\ UNCHANGED <<sess, limit, round, runs, asked, fed>>

(* decide-action puts another action in its place, whose tool nobody       *)
(* validates.                                                              *)
CommitSwapped(action, t, other, u) ==
  LET builtin == other = "call" /\ u \in Builtins
  IN  /\ pc = "ask"
      /\ CommitLlmResponse(sess, ReplyOf(action, t), IF builtin THEN "override_builtin" ELSE "override")
      /\ Counts("commits") /\ ReplyOf(action, t) # "call_unknown"
      /\ Follow(other, u, builtin)
      /\ own' = Remaining(IdleSessions)
      /\ swapped' = TRUE
      /\ UNCHANGED <<sess, limit, round, runs, asked, fed>>

(* The commit fails: the runner refuses the reply, its tool is unknown, or *)
(* a hook aborts.                                                          *)
CommitFails(action, t, hook) ==
  /\ pc = "ask"
  /\ CommitLlmResponse(sess, ReplyOf(action, t), hook)
  /\ ~Counts("commits") \/ ReplyOf(action, t) = "call_unknown" \/ hook = "abort"
  /\ Fail
  /\ own' = Remaining(IdleSessions)
  /\ UNCHANGED <<sess, limit, round, tool, queued, history>>

(* The composite rejects its builtin's arguments: the call is booked, and  *)
(* commit_llm_response fails.                                              *)
BuiltinFails(t) ==
  /\ pc = "ask" /\ Kind(t) = "call_builtin"
  /\ CommitLlmResponse(sess, "call_host", "pass")
  /\ Fail
  /\ own' = Remaining(IdleSessions)
  /\ UNCHANGED <<sess, limit, round, tool, queued, history>>

\* drain_events of a session with nothing in pending_events.
DrainNothing == pending[sess] = NoEvents /\ UNCHANGED vars

(* Mutants of InBand: only the runtime's events are looked at; the first   *)
(* event is enough, whatever its tool.                                     *)
InBandOwn == tool \in own[sess]
InBandAny == own[sess] \cup queued[sess] # {}

InBand == tool \in own[sess] \cup queued[sess]

(* The events are drained, and one of them says whether the call has been  *)
(* executed already.                                                       *)
Drain ==
  /\ pc = "drain"
  /\ DrainEvents(sess) \/ DrainNothing
  /\ own' = [own EXCEPT ![sess] = {}]
  /\ queued' = [queued EXCEPT ![sess] = {}]
  /\ IF InBand THEN pc' = "prepare" /\ round' = round + 1
               ELSE pc' = "execute" /\ round' = round
  /\ UNCHANGED <<sess, limit, tool, history>>

(* router.execute: a failure of the tool is a result, any other an error. *)
Execute ==
  /\ pc = "execute"
  /\ pc' = "feed" /\ served' = served + 1
  /\ UNCHANGED <<vars, sess, limit, round, tool, events, runs, asked, swapped, fed>>

ExecuteFails ==
  /\ pc = "execute" /\ Fail
  /\ UNCHANGED <<vars, sess, limit, round, tool, events, history>>

(* Mutant of Feed: a result that is refused is fed again. *)
FeedAgain(hook) ==
  /\ pc = "feed"
  /\ ProcessToolResult(sess, hook)
  /\ own' = [Remaining(IdleSessions) EXCEPT ![sess] = IF Counts("results") THEN @ \cup {tool} ELSE @]
  /\ IF Counts("results")
     THEN pc' = "prepare" /\ round' = round + 1 /\ fed' = [fed EXCEPT ![sess] = {tool}]
     ELSE UNCHANGED <<pc, round, fed>>
  /\ UNCHANGED <<sess, limit, tool, queued, runs, asked, served, swapped>>

(* feed_tool_result: a result the runner or a hook refuses is an error.    *)
Feed(hook) ==
  /\ pc = "feed"
  /\ ProcessToolResult(sess, hook)
  /\ own' = [Remaining(IdleSessions) EXCEPT ![sess] = IF Counts("results") THEN @ \cup {tool} ELSE @]
  /\ IF Counts("results")
     THEN pc' = "prepare" /\ round' = round + 1 /\ fed' = [fed EXCEPT ![sess] = {tool}]
     ELSE Fail /\ UNCHANGED <<round, fed>>
  /\ UNCHANGED <<sess, limit, tool, queued, runs, asked, served, swapped>>

TimePasses ==
  /\ Tick
  /\ UNCHANGED <<pc, sess, limit, round, tool, events, history>>

Run ==
  \/ Exhaust
  \/ \E hook \in {"pass", "abort"} : Prepare(hook) \/ Feed(hook)
  \/ AskFails
  \/ \E action \in Actions, t \in Tools :
       \/ CommitTaken(action, t)
       \/ \E other \in {"final", "retry", "call"}, u \in Tools : CommitSwapped(action, t, other, u)
       \/ \E hook \in Hook : CommitFails(action, t, hook)
  \/ \E t \in Tools : BuiltinFails(t)
  \/ Drain
  \/ Execute \/ ExecuteFails

LoopNext == (\E s \in Sessions, n \in StepLimits : Start(s, n)) \/ Run \/ TimePasses

LoopSpec == LoopInit /\ [][LoopNext]_loopVars

\* Nothing ends the wait for a provider, nor the execution of a tool that the
\* router does not time.
Untimed == pc = "ask" \/ (pc = "execute" /\ tool \notin Timed)

\* The core thread is scheduled, and goes on unless it waits without a limit.
FairLoopSpec == LoopSpec /\ WF_loopVars(~Untimed /\ Run)

-------------------------------------------------------------------------------
(* Properties. *)

(* The loop has its types, and a run in progress has a session. *)
LoopTypeOK ==
  /\ pc \in Stage /\ sess \in Sessions /\ tool \in Tools
  /\ limit \in StepLimits /\ round \in 0..limit
  /\ own \in [Sessions -> SUBSET Tools] /\ queued \in [Sessions -> SUBSET Tools]
  /\ runs \in 0..MaxRuns /\ asked \in Nat /\ served \in Nat /\ swapped \in BOOLEAN
  /\ fed \in [Sessions -> SUBSET Tools]

(* A tool is executed by the composite or by the host, never by both, and  *)
(* never twice for one call of the model (loop_owner.rs:163-172).          *)
ExecutedOnce == served <= 1

(* The loop and the FSM of the runner keep in step: while the loop waits   *)
(* for the model a reply may come, and while it has a call on its hands a  *)
(* result may -- unless the session was archived under it or a hook        *)
(* swapped the action.                                                     *)
LoopMatchesFsm ==
  sess \in live =>
    /\ pc = "ask" => rt[sess].fsm = "LlmStreaming"
    /\ pc \in {"drain", "execute", "feed"} /\ ~swapped => rt[sess].fsm = "ToolRequested"

(* A call that nobody executes names the tool whose result the session was *)
(* fed last: no other event can be mistaken for its result.                *)
SkippedOnlyOnRepeat ==
  pc = "prepare" /\ round > 0 /\ served = 0 => fed[sess] = {tool}

(* A run prepares at most its max_steps turns, in-band rounds and actions  *)
(* a hook put in place, which cost the runner no step, included.           *)
TurnsBounded == asked <= limit

(* Every run ends, whatever the model, the hooks and the tools answer --   *)
(* unless it is left waiting for ever for one answer of the provider or    *)
(* for one execution that nothing times out.                               *)
RunsEnd == []<>(pc = "idle") \/ <>[](pc = "ask") \/ <>[](pc = "execute" /\ tool \notin Timed)

(* Builtins run inside the composite and every other tool in the host      *)
(* (loop_owner.rs:8-12): the loop goes on after a call only when it has    *)
(* been executed.                                                          *)
EveryCallExecuted == pc = "prepare" /\ round > 0 => served = 1
===============================================================================
