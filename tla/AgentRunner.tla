------------------------------ MODULE AgentRunner ------------------------------
(***************************************************************************)
(* The agent runner that the WASM component exports: a process-wide        *)
(* AgentRunnerRuntime behind one mutex.  Every exported function locks it  *)
(* for its whole body, so each function is one atomic action here.  The    *)
(* environment is the host, which may call any function on any session at  *)
(* any time, and the clock.                                                *)
(*                                                                         *)
(* Abstracted: texts (a reply of the model is what the parser makes of     *)
(* it), the message history (its length), the rolling summary (how many    *)
(* messages it was made from; its text is cut to summary_max_chars), the   *)
(* buffered stream (its number of chunks), the queue of pending events     *)
(* (how many of each kind the host acts upon), telemetry that no property  *)
(* reads.                                                                  *)
(***************************************************************************)
EXTENDS Integers, FiniteSets, AgentFsm

CONSTANTS
  Sessions,       \* the session identifiers hosts use
  \* What a fresh runtime has, and what init(config_json) may set it to:
  DefaultSteps, StepLimits, \* AgentConfig.max_steps
  DefaultTimeout, Timeouts, \* AgentConfig.session_timeout_secs; 0: never idle
  DefaultCap, Caps,         \* max_in_memory_sessions
  Policies,       \* the context policies that hosts set, or give with a request
  HostTimes,      \* the times that hosts give to sweep_idle_sessions
  \* Bounds of the explored instance, all of them guards of the actions:
  Ticks,          \* by how much the clock may advance at a time
  MaxTime,        \* and how far
  MaxTurns,       \* prepared turns of one incarnation of a session
  MaxRecords,     \* its step counter, which tool results may push past its limit
  MaxMsgs,        \* its message history
  MaxChunks,      \* its buffered stream
  MaxPending,     \* undrained pending events of each kind, per session
  MaxWritten      \* messages ever written under one identifier

\* ContextPolicy: summarize_after_messages, max_history_messages, and whether
\* truncation_strategy is KeepBalanced.
ContextPolicy == [after : Nat, retain : Nat, balanced : BOOLEAN]

ASSUME RunnerAssumption ==
  /\ IsFiniteSet(Sessions)
  /\ DefaultSteps \in StepLimits /\ StepLimits \subseteq Nat
  /\ DefaultTimeout \in Timeouts /\ Timeouts \subseteq Nat
  /\ DefaultCap \in Nat \ {0} /\ Caps \subseteq Nat \ {0}
  /\ Policies \subseteq ContextPolicy /\ HostTimes \subseteq Nat
  /\ Ticks \subseteq Nat /\ MaxTime \in Nat /\ MaxTurns \in Nat /\ MaxRecords \in Nat /\ MaxMsgs \in Nat
  /\ MaxChunks \in Nat /\ MaxPending \in Nat /\ MaxWritten \in Nat

VARIABLES
  live,        \* identifiers in `sessions`
  rt,          \* their SessionRuntime; Blank for the others
  archived,    \* identifiers in `archived_sessions`
  pending,     \* `pending_events`, counted by kind
  defaults,    \* `default_config`
  maxInMemory, \* `max_in_memory_sessions`
  now,         \* the clock
  \* History variables, read by properties only:
  written,     \* messages added to the history of a session since its reset
  forgotten,   \* of those, messages that a cut of the history left nowhere
  handed       \* of those, messages in snapshots the host has drained

settings == <<defaults, maxInMemory>>
ghosts == <<written, forgotten, handed>>
vars == <<live, rt, archived, pending, settings, now, ghosts>>

-------------------------------------------------------------------------------
(* Data. *)

(* What process_llm_response makes of a reply: a final answer, a tool call *)
(* the registry rejects, a tool call the host executes, one a builtin      *)
(* executes in process, a retry, or nothing it understands.                *)
Call == {"call_unknown", "call_host", "call_builtin"}
Reply == {"final", "retry", "malformed"} \cup Call

(* Verdict of the logic and runtime hooks at one point of the pipeline.    *)
(* An override matters to the state only where it replaces the action, and *)
(* there only by calling a builtin tool or by not calling one.             *)
Hook == {"pass", "override", "override_builtin", "abort"}

(* The TelemetryCounters the properties read, named for short. *)
Counter == {"prepared", "commits", "retries", "requests", "results", "finals"}
Bump(counters, K) == [c \in Counter |-> IF c \in K THEN counters[c] + 1 ELSE counters[c]]

(* Each session has the configuration it was created with; covered counts  *)
(* the messages that only its rolling summary stands for.                  *)
Config == [maxSteps : StepLimits, timeout : Timeouts]
SessionRuntime ==
  [config : Config, fsm : FsmState, step : Nat, msgs : Nat, covered : Nat,
   chunks : Nat, touched : Nat, counters : [Counter -> Nat]]

DefaultConfig == [maxSteps |-> DefaultSteps, timeout |-> DefaultTimeout]

(* The entry of a session that is not in memory. *)
Blank ==
  [config |-> DefaultConfig, fsm |-> "Idle", step |-> 0, msgs |-> 0, covered |-> 0,
   chunks |-> 0, touched |-> 0, counters |-> [c \in Counter |-> 0]]

(* SessionRuntime::new(config), which stamps last_touched_ms. *)
Fresh(config) == [Blank EXCEPT !.config = config, !.touched = now]

PendingEvents == [snapshots : Nat, msgs : Nat, restores : Nat, builtins : Nat]
NoEvents == [snapshots |-> 0, msgs |-> 0, restores |-> 0, builtins |-> 0]

Touch(r) == [r EXCEPT !.touched = now]

Larger(a, b) == IF a >= b THEN a ELSE b

(* maybe_update_summary cuts a history of n messages.  The new summary     *)
(* tells the n - Retain oldest and replaces the one before it.             *)
Retain(policy) == Larger(policy.retain, 1)
Cuts(n, policy) == n > policy.after /\ n > Retain(policy)

(* KeepNewest keeps the last Retain messages; KeepBalanced the first third *)
(* of as many, and the rest of them from the end.                          *)
Head(policy) == IF policy.balanced THEN Larger(Retain(policy) \div 3, 1) ELSE 0
Tail(policy) == Larger(Retain(policy) - Head(policy), 1)

Kept(n, policy) == IF Cuts(n, policy) THEN Head(policy) + Tail(policy) ELSE n

(* The messages that the new summary alone stands for. *)
Told(n, policy) == Larger(n - Retain(policy) - Head(policy), 0)

CutShort(r, policy) ==
  IF ~Cuts(r.msgs, policy) THEN r
  ELSE [r EXCEPT !.msgs = Kept(r.msgs, policy), !.covered = Told(r.msgs, policy)]

(* What the cut leaves nowhere: what the summary before it told, and what  *)
(* KeepBalanced drops between the end of the summary and the tail.         *)
Forgets(r, policy) ==
  IF ~Cuts(r.msgs, policy) THEN 0
  ELSE r.covered + (r.msgs - Kept(r.msgs, policy) - Told(r.msgs, policy))

-------------------------------------------------------------------------------
(* Archival. *)

(* sweep_idle_sessions: sessions past their timeout with no buffered stream. *)
IdleAt(time) ==
  {s \in live : /\ rt[s].config.timeout > 0 /\ rt[s].chunks = 0
                /\ time > rt[s].touched + rt[s].config.timeout}
IdleSessions == IdleAt(now)

(* The runtime that ensure_session returns for s once Gone is archived,    *)
(* and the caller has touched.                                             *)
Ensured(s, Gone) == IF s \in live \ Gone THEN Touch(rt[s]) ELSE Fresh(defaults)

(* Mutant of Evictable: a session with a buffered stream may be evicted. *)
EvictableStreaming(Resident, s) == Resident \ {s}

(* Sessions that enforce_capacity may archive while s is protected. *)
Evictable(Resident, s) == {x \in Resident \ {s} : rt[x].chunks = 0}

(* Mutant of Victims: evicts the most recently touched first. *)
VictimsNewest(Resident, s, cap) ==
  LET E == Evictable(Resident, s)
  IN  {V \in SUBSET E :
         /\ \A v \in V, x \in E \ V : rt[v].touched >= rt[x].touched
         /\ \/ Cardinality(Resident) - Cardinality(V) = cap
            \/ V = {} /\ Cardinality(Resident) <= cap
            \/ V = E /\ Cardinality(Resident) - Cardinality(V) > cap}

(* enforce_capacity: the sets the eviction loop may archive while s is     *)
(* protected.  It stops at the limit or when every other session is        *)
(* streaming, and always takes the least recently touched; equals are      *)
(* taken in hash order, so any of them may go.                             *)
Victims(Resident, s, cap) ==
  LET E == Evictable(Resident, s)
  IN  {V \in SUBSET E :
         /\ \A v \in V, x \in E \ V : rt[v].touched <= rt[x].touched
         /\ \/ Cardinality(Resident) - Cardinality(V) = cap
            \/ V = {} /\ Cardinality(Resident) <= cap
            \/ V = E /\ Cardinality(Resident) - Cardinality(V) > cap}

(* Mutant of QueueSnapshots: archives without the SessionArchived event. *)
QueueSnapshotsSilent(Gone) == pending

(* archive_session for each member of Gone: out of `sessions`, into        *)
(* `archived_sessions`, its snapshot, history and summary, queued as a     *)
(* SessionArchived event.                                                  *)
Snapshot(x) == [pending[x] EXCEPT !.snapshots = @ + 1, !.msgs = @ + rt[x].msgs + rt[x].covered]
QueueSnapshots(Gone) ==
  [x \in Sessions |-> IF x \in Gone THEN Snapshot(x) ELSE pending[x]]

(* The bounds of the instance. *)
Bounded(r) ==
  /\ r.counters["prepared"] <= MaxTurns /\ r.step <= MaxRecords
  /\ r.msgs <= MaxMsgs /\ r.chunks <= MaxChunks

(* A call that leaves session s resident with runtime r, having archived   *)
(* Gone on its way.                                                        *)
Store(s, r, Gone) ==
  /\ Bounded(r)
  /\ live' = (live \ Gone) \cup {s}
  /\ rt' = [x \in Sessions |-> IF x = s THEN r ELSE IF x \in Gone THEN Blank ELSE rt[x]]
  /\ archived' = archived \cup Gone

(* The call wrote n messages into the history of s. *)
Write(s, n) ==
  /\ written[s] + n <= MaxWritten
  /\ written' = [written EXCEPT ![s] = @ + n]
  /\ UNCHANGED <<forgotten, handed>>

Queue(events) ==
  /\ \A x \in Sessions : /\ events[x].snapshots <= MaxPending
                         /\ events[x].restores <= MaxPending
                         /\ events[x].builtins <= MaxPending
  /\ pending' = events

-------------------------------------------------------------------------------
(* The processor: what a reply or a tool result does to a session. *)

(* Mutant of Accepts: the step limit is off by one. *)
AcceptsAtLimit(r) == r.step <= r.config.maxSteps /\ CanTransition(r.fsm, "LlmCommitted")

(* process_llm_response goes through only below the step limit of the      *)
(* session and from LlmStreaming; otherwise it fails and changes nothing.  *)
Accepts(r) == r.step < r.config.maxSteps /\ CanTransition(r.fsm, "LlmCommitted")

Decided(r, reply) ==
  LET committed == TransitionTo(r.fsm, "LlmCommitted")
  IN  IF ~Accepts(r) THEN r
      ELSE CASE reply = "malformed" -> [r EXCEPT !.fsm = committed]
             [] reply = "final" -> [r EXCEPT !.fsm = TransitionTo(committed, "Final")]
             [] reply = "retry" -> [r EXCEPT !.fsm = TransitionTo(committed, "Idle")]
             [] OTHER -> [r EXCEPT !.fsm = TransitionTo(committed, "ToolRequested"),
                                   !.step = @ + 1]

(* Mutant of Forced: assigns the state instead of asking transition_to. *)
ForcedAssigned(r, state) == [r EXCEPT !.fsm = state]

(* The guards of the callers: force the expected state where the table     *)
(* allows it and go on in either case.                                     *)
Forced(r, state) == [r EXCEPT !.fsm = TransitionTo(r.fsm, state)]

(* commit_llm_response once the processor accepted the reply: counters and *)
(* the assistant message; a call of an unknown tool stops before both.     *)
Booked(r, reply) ==
  CASE reply = "final" -> [r EXCEPT !.counters = Bump(@, {"commits", "finals"}), !.msgs = @ + 1]
    [] reply = "retry" -> [r EXCEPT !.counters = Bump(@, {"commits", "retries"})]
    [] reply = "call_unknown" -> [r EXCEPT !.counters = Bump(@, {"commits"})]
    [] OTHER -> [r EXCEPT !.counters = Bump(@, {"commits", "requests"}), !.msgs = @ + 1]

(* processor::process_tool_result: the result is recorded and the step     *)
(* counted before the transition is tried.                                 *)
Recorded(r) == [r EXCEPT !.step = @ + 1, !.msgs = @ + 1]
Processed(r) == [r EXCEPT !.fsm = TransitionTo(r.fsm, "ToolResultProcessed"),
                          !.counters = Bump(@, {"results"})]

(* prepare_user_turn: whatever its state, the session restarts from Idle   *)
(* and walks to LlmStreaming.                                              *)
Prepared(r) ==
  [r EXCEPT !.fsm = TransitionTo(TransitionTo("Idle", "UserTurnPrepared"), "LlmStreaming"),
            !.counters = Bump(@, {"prepared"})]

-------------------------------------------------------------------------------
(* The exported functions. *)

Init ==
  /\ live = {} /\ archived = {}
  /\ rt = [s \in Sessions |-> Blank]
  /\ pending = [s \in Sessions |-> NoEvents]
  /\ defaults = DefaultConfig /\ maxInMemory = DefaultCap
  /\ now = 0
  /\ written = [s \in Sessions |-> 0]
  /\ forgotten = [s \in Sessions |-> 0]
  /\ handed = [s \in Sessions |-> 0]

(* init(config_json): no idle sweep; a session already in memory is kept   *)
(* as it is, its configuration too, any other starts blank, archived       *)
(* before or not.                                                          *)
Configure(s, config, cap) ==
  \E V \in Victims(live \cup {s}, s, cap) :
    /\ defaults' = config /\ maxInMemory' = cap
    /\ Store(s, IF s \in live THEN rt[s] ELSE Fresh(config), V)
    /\ Queue(QueueSnapshots(V))
    /\ UNCHANGED <<now, ghosts>>

\* Whatever config_json leaves out stays as it is.
InitRunner(s) ==
  \E config \in Config, cap \in Caps \cup {maxInMemory} : Configure(s, config, cap)

(* prepare_user_turn of a session that is archived and not in memory. *)
RequestRestore(s) ==
  LET Gone == IdleSessions
  IN  /\ s \notin live \ Gone
      /\ s \in archived \cup Gone
      /\ live' = live \ Gone
      /\ rt' = [x \in Sessions |-> IF x \in Gone THEN Blank ELSE rt[x]]
      /\ archived' = archived \cup Gone
      /\ Queue([QueueSnapshots(Gone) EXCEPT ![s].restores = @ + 1])
      /\ UNCHANGED <<settings, now, ghosts>>

(* prepare_user_turn of any other session, under the policy of the request *)
(* or the default one, which set_context_policy and init change.  A hook   *)
(* error aborts the call after the session was prepared and before the     *)
(* capacity is enforced.                                                   *)
PrepareTurn(s, hook, policy) ==
  LET Gone == IdleSessions
      Resident == (live \ Gone) \cup {s}
      r == Ensured(s, Gone)
  IN  /\ s \in live \ Gone \/ s \notin archived \cup Gone
      /\ \E V \in IF hook = "abort" THEN {{}} ELSE Victims(Resident, s, maxInMemory) :
           /\ Store(s, CutShort(Prepared(r), policy), Gone \cup V)
           /\ Queue(QueueSnapshots(Gone \cup V))
      /\ forgotten' = [forgotten EXCEPT ![s] = @ + Forgets(r, policy)]
      /\ UNCHANGED <<settings, now, written, handed>>

PrepareUserTurn(s, hook) ==
  \/ RequestRestore(s)
  \/ \E policy \in Policies : PrepareTurn(s, hook, policy)

AppendLlmChunk(s) ==
  LET Gone == IdleSessions
      r == Ensured(s, Gone)
      streaming == IF r.fsm = "UserTurnPrepared" THEN Forced(r, "LlmStreaming") ELSE r
  IN  /\ Store(s, [streaming EXCEPT !.chunks = @ + 1], Gone)
      /\ Queue(QueueSnapshots(Gone))
      /\ UNCHANGED <<settings, now, ghosts>>

(* commit_llm_response.  The user message is written first and stays when  *)
(* the call fails; the buffered stream is cleared only when it gets past   *)
(* the hooks.                                                              *)
CommitLlmResponse(s, reply, hook) ==
  LET Gone == IdleSessions
      user == [Ensured(s, Gone) EXCEPT !.msgs = @ + 1]
      r == Forced(user, "LlmStreaming")
      decided == Decided(r, reply)
      fails == ~Accepts(r) \/ reply = "malformed"
      booked == IF fails THEN decided ELSE Booked(decided, reply)
      stops == fails \/ reply = "call_unknown" \/ hook = "abort"
      builtin == ~stops /\ (hook = "override_builtin" \/ (reply = "call_builtin" /\ hook = "pass"))
      events == QueueSnapshots(Gone)
  IN  /\ written[s] < MaxWritten
      /\ Write(s, 1 + (booked.msgs - r.msgs))
      /\ Store(s, IF stops THEN booked ELSE [booked EXCEPT !.chunks = 0], Gone)
      /\ Queue(IF builtin THEN [events EXCEPT ![s].builtins = @ + 1] ELSE events)
      /\ UNCHANGED <<settings, now>>

(* commit_llm_stream: the reply is the join of the buffered chunks, and no *)
(* chunks join to the empty text, which is a final answer.                 *)
CommitLlmStream(s, reply, hook) ==
  /\ s \notin live \/ rt[s].chunks = 0 => reply = "final"
  /\ CommitLlmResponse(s, reply, hook)

(* process_llm_response: the processor without the bookkeeping.  A hook    *)
(* that overrides or aborts answers in its place.                          *)
ProcessLlmResponse(s, reply) ==
  LET Gone == IdleSessions
      r == Forced(Ensured(s, Gone), "LlmStreaming")
  IN  /\ Store(s, IF reply = "of_hook" THEN r ELSE Decided(r, reply), Gone)
      /\ Queue(QueueSnapshots(Gone))
      /\ UNCHANGED <<settings, now, ghosts>>

(* process_tool_result: a result that arrives in another state than        *)
(* ToolRequested is refused only after it was recorded.                    *)
ProcessToolResult(s, hook) ==
  LET Gone == IdleSessions
      r == Ensured(s, Gone)
      recorded == Recorded(Forced(r, "ToolRequested"))
      done == IF CanTransition(recorded.fsm, "ToolResultProcessed")
              THEN Processed(recorded)
              ELSE recorded
  IN  /\ Store(s, IF hook = "abort" THEN r ELSE done, Gone)
      /\ Queue(QueueSnapshots(Gone))
      /\ Write(s, IF hook = "abort" THEN 0 ELSE 1)
      /\ UNCHANGED <<settings, now>>

(* The export sweep_idle_sessions(now_unix_ms), at the time the host says  *)
(* or else now, as do the calls that are refused after their sweep.        *)
SweepIdleSessions(time) ==
  LET Gone == IdleAt(time)
  IN  /\ Gone # {}
      /\ live' = live \ Gone
      /\ rt' = [x \in Sessions |-> IF x \in Gone THEN Blank ELSE rt[x]]
      /\ archived' = archived \cup Gone
      /\ Queue(QueueSnapshots(Gone))
      /\ UNCHANGED <<settings, now, ghosts>>

(* get_telemetry_snapshot: creates the session it is asked about. *)
TelemetrySnapshot(s) ==
  LET Gone == IdleSessions
  IN  /\ Store(s, Ensured(s, Gone), Gone)
      /\ Queue(QueueSnapshots(Gone))
      /\ UNCHANGED <<settings, now, ghosts>>

DrainEvents(s) ==
  /\ pending[s] # NoEvents
  /\ pending' = [pending EXCEPT ![s] = NoEvents]
  /\ handed' = [handed EXCEPT ![s] = @ + pending[s].msgs]
  /\ UNCHANGED <<live, rt, archived, settings, now, written, forgotten>>

ResetSession(s) ==
  /\ live' = live \ {s}
  /\ rt' = [rt EXCEPT ![s] = Blank]
  /\ archived' = archived \ {s}
  /\ pending' = [pending EXCEPT ![s] = NoEvents]
  /\ written' = [written EXCEPT ![s] = 0]
  /\ forgotten' = [forgotten EXCEPT ![s] = 0]
  /\ handed' = [handed EXCEPT ![s] = 0]
  /\ UNCHANGED <<settings, now>>

Tick ==
  /\ \E d \in Ticks : now' = now + d
  /\ now' <= MaxTime
  /\ UNCHANGED <<live, rt, archived, pending, settings, ghosts>>

Next ==
  \/ \E s \in Sessions :
       \/ InitRunner(s)
       \/ \E hook \in {"pass", "abort"} : PrepareUserTurn(s, hook) \/ ProcessToolResult(s, hook)
       \/ \E reply \in Reply, hook \in Hook :
            \/ CommitLlmResponse(s, reply, hook)
            \/ CommitLlmStream(s, reply, hook)
       \/ \E reply \in Reply \cup {"of_hook"} : ProcessLlmResponse(s, reply)
       \/ AppendLlmChunk(s)
       \/ TelemetrySnapshot(s)
       \/ DrainEvents(s)
       \/ ResetSession(s)
  \/ \E time \in HostTimes \cup {now} : SweepIdleSessions(time)
  \/ Tick

Spec == Init /\ [][Next]_vars

-------------------------------------------------------------------------------
(* Properties. *)

(* Every variable of the runtime has its type. *)
TypeOK ==
  /\ live \subseteq Sessions /\ archived \subseteq Sessions
  /\ rt \in [Sessions -> SessionRuntime]
  /\ \A s \in Sessions \ live : rt[s] = Blank
  /\ pending \in [Sessions -> PendingEvents]
  /\ defaults \in Config /\ maxInMemory \in Nat \ {0} /\ now \in Nat
  /\ written \in [Sessions -> Nat]
  /\ forgotten \in [Sessions -> Nat]
  /\ handed \in [Sessions -> Nat]

(* A prepared turn or a processed tool result lets at most one reply of    *)
(* the model be committed: a host that repeats commit_llm_response, or     *)
(* mixes it with process_llm_response, never has a second reply booked     *)
(* for the same turn (the FSM guard and process_llm_response).             *)
Armed(r) == IF r.fsm \in {"LlmStreaming", "ToolResultProcessed"} THEN 1 ELSE 0
EachTurnCommittedOnce ==
  \A s \in Sessions : rt[s].counters["commits"] + Armed(rt[s]) <= rt[s].counters["prepared"] + rt[s].counters["results"]

(* The counters behind get_slo_snapshot agree: every commit is at most one *)
(* of an answer, a retry and a tool request, so no rate exceeds one, and   *)
(* every tool request and result was paid for with a step.                 *)
CountersAgree ==
  \A s \in Sessions :
    /\ rt[s].counters["finals"] + rt[s].counters["retries"] + rt[s].counters["requests"] <= rt[s].counters["commits"]
    /\ rt[s].counters["requests"] + rt[s].counters["results"] <= rt[s].step

(* No message disappears but in a cut of the history: what was written     *)
(* under an identifier since its reset is in the history in memory, told   *)
(* by the rolling summary of that history, in a snapshot still queued for  *)
(* the host or in one the host drained -- over idle sweeps, capacity       *)
(* evictions, failed commits and re-creations in any order -- or it was    *)
(* forgotten: told by a summary that another one has replaced, or dropped  *)
(* between the summary and the tail that KeepBalanced keeps.               *)
MessagesConserved ==
  \A s \in Sessions :
    written[s] = rt[s].msgs + rt[s].covered + forgotten[s] + pending[s].msgs + handed[s]

(* The step limit a session was created with bounds its tool rounds for    *)
(* its whole life in memory: resets of the FSM, repeated or refused tool   *)
(* results, failed commits and later configurations never open a round     *)
(* beyond it.                                                              *)
ToolRoundsWithinLimit ==
  \A s \in live :
    rt[s].counters["requests"] + rt[s].counters["results"] <= rt[s].config.maxSteps + 1

(* A session with a buffered stream is never archived, by the idle sweep   *)
(* or by the pressure of other sessions: only its reset drops it, and only *)
(* its own commit clears the stream.                                       *)
StreamSurvives ==
  [][\A s \in live : rt[s].chunks > 0 =>
       \/ s \in live' /\ rt'[s].chunks >= rt[s].chunks
       \/ s \in live' /\ rt'[s].counters["commits"] > rt[s].counters["commits"]
       \/ s \notin live' /\ s \notin archived']_vars

(* Sweep and eviction go by last_touched_ms: when a session is archived,   *)
(* every session touched longer ago goes with it, streams, or is touched   *)
(* by the call -- except that init spares its session without touching it, *)
(* and that the sweep takes each session by its own timeout, so that one   *)
(* created under a longer timeout, or none, outlives a younger one.        *)
Overlooked(s) ==
  {t \in live \cap live' : rt[t].chunks = 0 /\ rt[t].touched < rt[s].touched /\ rt'[t] = rt[t]}
Outlives(t, s, time) == s \in IdleAt(time) /\ t \notin IdleAt(time)
OldestGoFirst ==
  [][\A s \in (live \cap archived') \ live' : \A t \in Overlooked(s) :
       \/ InitRunner(t)
       \/ Outlives(t, s, now)
       \/ \E time \in HostTimes : SweepIdleSessions(time) /\ Outlives(t, s, time)]_vars
===============================================================================
