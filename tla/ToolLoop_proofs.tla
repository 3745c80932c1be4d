--------------------------- MODULE ToolLoop_proofs ---------------------------
(***************************************************************************)
(* Theorems about ToolLoop, for any sessions, tools and limits: the loop   *)
(* is one of the hosts AgentRunner allows, so what is proved of the runner *)
(* holds under it, and the loop's own properties.                          *)
(***************************************************************************)
EXTENDS ToolLoop, AgentRunner_proofs

-------------------------------------------------------------------------------
(* The loop is a host of the runner. *)

HostOK == sess \in Sessions /\ defaults \in Config

LEMMA HostInit == LoopInit => HostOK
  BY DefaultsTyped DEF LoopInit, Init, HostOK

LEMMA RepliesAreReplies ==
  ASSUME NEW action \in Actions, NEW t \in Tools
  PROVE  ReplyOf(action, t) \in Reply
  BY DEF Actions, ReplyOf, Kind, Reply, Call

(* What a step of the loop does to the runner. *)
LEMMA HostStep ==
  ASSUME HostOK, LoopNext
  PROVE  [Next]_vars
<1>1. CASE \E s \in Sessions, n \in StepLimits : Start(s, n)
  <2>1. PICK s \in Sessions, n \in StepLimits : Start(s, n)
    BY <1>1
  <2>2. [defaults EXCEPT !.maxSteps = n] \in Config
    BY DEF HostOK, Config
  <2>3. InitRunner(s)
    BY <2>1, <2>2 DEF Start, InitRunner
  <2> QED BY <2>3 DEF Next
<1>2. CASE TimePasses
  BY <1>2 DEF TimePasses, Next
<1>3. CASE Run
  <2>1. CASE \E hook \in {"pass", "abort"} : Prepare(hook) \/ Feed(hook)
    BY <2>1 DEF Prepare, Feed, Next, HostOK
  <2>2. CASE \E action \in Actions, t \in Tools :
               \/ CommitTaken(action, t)
               \/ \E other \in {"final", "retry", "call"}, u \in Tools : CommitSwapped(action, t, other, u)
               \/ \E hook \in Hook : CommitFails(action, t, hook)
    <3>1. PICK action \in Actions, t \in Tools :
               \/ CommitTaken(action, t)
               \/ \E other \in {"final", "retry", "call"}, u \in Tools : CommitSwapped(action, t, other, u)
               \/ \E hook \in Hook : CommitFails(action, t, hook)
      BY <2>2
    <3>2. \E hook \in Hook : CommitLlmResponse(sess, ReplyOf(action, t), hook)
      BY <3>1 DEF CommitTaken, CommitSwapped, CommitFails, Hook
    <3> QED BY <3>2, RepliesAreReplies DEF Next, HostOK
  <2>3. CASE \E t \in Tools : BuiltinFails(t)
    <3>1. CommitLlmResponse(sess, "call_host", "pass")
      BY <2>3 DEF BuiltinFails
    <3>2. "call_host" \in Reply /\ "pass" \in Hook
      BY DEF Reply, Call, Hook
    <3> QED BY <3>1, <3>2 DEF Next, HostOK
  <2>4. CASE Drain
    BY <2>4 DEF Drain, DrainNothing, Next, HostOK
  <2>5. CASE Exhaust \/ AskFails \/ Execute \/ ExecuteFails
    BY <2>5 DEF Exhaust, AskFails, Execute, ExecuteFails
  <2> QED BY <1>3, <2>1, <2>2, <2>3, <2>4, <2>5 DEF Run
<1> QED BY <1>1, <1>2, <1>3 DEF LoopNext

LEMMA HostKept ==
  ASSUME HostOK, RunnerInv, [LoopNext]_loopVars
  PROVE  HostOK'
<1>1. [Next]_vars
  BY HostStep DEF loopVars
<1>2. defaults' \in Config
  BY <1>1, NextInv DEF RunnerInv, OthersOK
<1>3. sess' \in Sessions
  BY DEF HostOK, loopVars, LoopNext, Start, Run, TimePasses, Exhaust, Prepare, AskFails, CommitTaken,
         CommitSwapped, CommitFails, BuiltinFails, Drain, Execute, ExecuteFails, Feed
<1> QED BY <1>2, <1>3 DEF HostOK

(* The loop only does to the runner what AgentRunner lets a host do. *)
THEOREM ImplementsRunner == LoopSpec => Spec
<1>1. LoopInit => Init /\ RunnerInv
  BY InitInv DEF LoopInit
<1>2. HostOK /\ RunnerInv /\ [LoopNext]_loopVars => HostOK' /\ RunnerInv' /\ [Next]_vars
  <2> SUFFICES ASSUME HostOK, RunnerInv, [LoopNext]_loopVars
               PROVE  HostOK' /\ RunnerInv' /\ [Next]_vars
    OBVIOUS
  <2>1. [Next]_vars
    BY HostStep DEF loopVars
  <2> QED BY <2>1, HostKept, NextInv
<1> QED BY <1>1, <1>2, HostInit, PTL DEF LoopSpec, Spec

(* No message of a session is lost under the loop, whenever it fails and   *)
(* whichever sessions its runs evict, but in the cuts of its history.      *)
THEOREM LoopLosesNoMessage == LoopSpec => []MessagesConserved
  BY ImplementsRunner, NoMessageLost, PTL

(* No second reply is booked for a turn or a tool result of the loop. *)
THEOREM LoopCommitsOnce == LoopSpec => []EachTurnCommittedOnce
  BY ImplementsRunner, CommittedOnce, PTL

-------------------------------------------------------------------------------
(* max_steps bounds the turns of a run. *)

Turns ==
  /\ pc \in Stage /\ limit \in StepLimits /\ limit \in Nat /\ round \in Nat /\ asked \in Nat
  /\ round <= limit
  /\ asked <= limit
  /\ pc = "prepare" => asked = round
  /\ pc \in {"ask", "drain", "execute", "feed"} => asked = round + 1

LEMMA TurnsStep ==
  ASSUME Turns, [LoopNext]_loopVars
  PROVE  Turns'
<1> USE RunnerAssumption DEF Turns, Stage, Fail
<1>1. ASSUME NEW s \in Sessions, NEW n \in StepLimits, Start(s, n) PROVE Turns'
  BY <1>1 DEF Start
<1>2. ASSUME NEW hook, Prepare(hook) PROVE Turns'
  BY <1>2 DEF Prepare
<1>3. ASSUME NEW hook, Feed(hook) PROVE Turns'
  BY <1>3 DEF Feed
<1>4. ASSUME NEW action \in Actions, NEW t \in Tools, CommitTaken(action, t) PROVE Turns'
  BY <1>4 DEF CommitTaken, Follow
<1>5. ASSUME NEW action \in Actions, NEW t \in Tools, NEW other, NEW u \in Tools,
             CommitSwapped(action, t, other, u)
      PROVE  Turns'
  BY <1>5 DEF CommitSwapped, Follow
<1>6. ASSUME NEW action \in Actions, NEW t \in Tools, NEW hook \in Hook, CommitFails(action, t, hook)
      PROVE  Turns'
  BY <1>6 DEF CommitFails, history
<1>7. ASSUME NEW t \in Tools, BuiltinFails(t) PROVE Turns'
  BY <1>7 DEF BuiltinFails, history
<1>8. CASE Drain
  BY <1>8 DEF Drain, history
<1>9. CASE Exhaust \/ AskFails \/ Execute \/ ExecuteFails \/ TimePasses \/ UNCHANGED loopVars
  BY <1>9 DEF Exhaust, AskFails, Execute, ExecuteFails, TimePasses, loopVars, history
<1> QED BY <1>1, <1>2, <1>3, <1>4, <1>5, <1>6, <1>7, <1>8, <1>9 DEF LoopNext, Run

(* A run prepares at most its max_steps turns, whatever the hooks put in   *)
(* place of the replies.                                                   *)
THEOREM TurnsAreBounded == LoopSpec => []TurnsBounded
<1>1. LoopInit => Turns
  BY RunnerAssumption DEF LoopInit, Turns, Stage
<1>2. Turns => TurnsBounded
  BY DEF Turns, TurnsBounded
<1> QED BY <1>1, <1>2, TurnsStep, PTL DEF LoopSpec

-------------------------------------------------------------------------------
(* A call is executed at most once: an execution in the composite leaves   *)
(* its event in the queue until the loop looks for it.                     *)

Served ==
  /\ sess \in Sessions /\ DOMAIN queued = Sessions
  /\ served \in {0, 1}
  /\ pc = "drain" /\ served = 1 => tool \in queued[sess]
  /\ pc = "execute" => served = 0

LEMMA ServedStep ==
  ASSUME Served, [LoopNext]_loopVars
  PROVE  Served'
<1> USE DEF Served, Fail
<1>1. ASSUME NEW s \in Sessions, NEW n \in StepLimits, Start(s, n) PROVE Served'
  BY <1>1 DEF Start
<1>2. ASSUME NEW hook, Prepare(hook) PROVE Served'
  BY <1>2 DEF Prepare
<1>3. ASSUME NEW hook, Feed(hook) PROVE Served'
  BY <1>3 DEF Feed
<1>4. ASSUME NEW action \in Actions, NEW t \in Tools, CommitTaken(action, t) PROVE Served'
  <2>1. ReplyOf(action, t) = "call_builtin" => action = "call"
    BY DEF ReplyOf, Actions
  <2> QED BY <1>4, <2>1 DEF CommitTaken, Follow
<1>5. ASSUME NEW action \in Actions, NEW t \in Tools, NEW other, NEW u \in Tools,
             CommitSwapped(action, t, other, u)
      PROVE  Served'
  BY <1>5 DEF CommitSwapped, Follow
<1>6. ASSUME NEW action \in Actions, NEW t \in Tools, NEW hook \in Hook, CommitFails(action, t, hook)
      PROVE  Served'
  BY <1>6 DEF CommitFails, history
<1>7. ASSUME NEW t \in Tools, BuiltinFails(t) PROVE Served'
  BY <1>7 DEF BuiltinFails, history
<1>8. CASE Drain
  BY <1>8 DEF Drain, InBand, history
<1>9. CASE Execute
  BY <1>9 DEF Execute, events
<1>10. CASE Exhaust \/ AskFails \/ ExecuteFails \/ TimePasses \/ UNCHANGED loopVars
  BY <1>10 DEF Exhaust, AskFails, ExecuteFails, TimePasses, loopVars, history, events
<1> QED BY <1>1, <1>2, <1>3, <1>4, <1>5, <1>6, <1>7, <1>8, <1>9, <1>10 DEF LoopNext, Run

(* No call is executed both by the composite and by the host. *)
THEOREM NeverExecutedTwice == LoopSpec => []ExecutedOnce
<1>1. LoopInit => Served
  BY DEF LoopInit, Served
<1>2. Served => ExecutedOnce
  BY DEF Served, ExecutedOnce
<1> QED BY <1>1, <1>2, ServedStep, PTL DEF LoopSpec

-------------------------------------------------------------------------------
(* What the events of a session say.  No other tool than the one whose     *)
(* result the session was fed last is named by an event of an earlier      *)
(* round, and a call the composite executed is named until the next drain. *)

LoopTyped ==
  /\ pc \in Stage /\ sess \in Sessions /\ tool \in Tools
  /\ own \in [Sessions -> SUBSET Tools] /\ queued \in [Sessions -> SUBSET Tools]
  /\ fed \in [Sessions -> SUBSET Tools] /\ swapped \in BOOLEAN /\ runs \in 0..MaxRuns

\* The one event that no feed put there.
Executed(s) == IF pc = "drain" /\ s = sess /\ served = 1 THEN {tool} ELSE {}

EventsInv ==
  /\ LoopTyped /\ Served /\ round \in Nat
  /\ \A s \in Sessions : /\ own[s] \subseteq fed[s]
                         /\ queued[s] \subseteq fed[s] \cup Executed(s)
                         /\ \A t, u \in fed[s] : t = u
  /\ pc \in {"execute", "feed"} => own[sess] = {} /\ queued[sess] = {}
  /\ pc = "feed" => served = 1
  /\ SkippedOnlyOnRepeat

\* A step of the runner only takes events away from a session.
LEMMA RemainingShrinks ==
  ASSUME own \in [Sessions -> SUBSET Tools], NEW Gone
  PROVE  /\ Remaining(Gone) \in [Sessions -> SUBSET Tools]
         /\ \A s \in Sessions : Remaining(Gone)[s] \subseteq own[s]
BY DEF Remaining

LEMMA EventsStep ==
  ASSUME EventsInv, [LoopNext]_loopVars
  PROVE  EventsInv'
<1> USE DEF Fail, Stage
<1>1. LoopTyped /\ Served /\ round \in Nat /\ MaxRuns \in Nat
  BY LoopAssumption DEF EventsInv
<1>2. Served'
  BY ServedStep DEF EventsInv
<1> HIDE DEF Served
<1>3. ASSUME NEW s \in Sessions, NEW n \in StepLimits, Start(s, n)
      PROVE  EventsInv'
  <2>1. /\ own' \in [Sessions -> SUBSET Tools] /\ \A x \in Sessions : own'[x] \subseteq own[x]
    BY <1>1, <1>3, RemainingShrinks DEF LoopTyped, Start
  <2> QED
    BY <1>1, <1>2, <1>3, <2>1 DEF Start, EventsInv, LoopTyped, Executed, SkippedOnlyOnRepeat
<1>4. ASSUME NEW hook, Prepare(hook)
      PROVE  EventsInv'
  <2>1. /\ own' \in [Sessions -> SUBSET Tools] /\ \A x \in Sessions : own'[x] \subseteq own[x]
    BY <1>1, <1>4, RemainingShrinks DEF LoopTyped, Prepare
  <2> QED
    BY <1>1, <1>2, <1>4, <2>1 DEF Prepare, EventsInv, LoopTyped, Executed, SkippedOnlyOnRepeat
<1>5. ASSUME NEW action \in Actions, NEW t \in Tools, NEW builtin \in BOOLEAN,
             pc = "ask", Follow(action, t, builtin), builtin => action = "call",
             own' = Remaining(IdleSessions), swapped' \in BOOLEAN,
             UNCHANGED <<sess, round, runs, fed>>
      PROVE  EventsInv'
  <2>1. /\ own' \in [Sessions -> SUBSET Tools] /\ \A x \in Sessions : own'[x] \subseteq own[x]
    BY <1>1, <1>5, RemainingShrinks DEF LoopTyped
  <2>2. queued' \in [Sessions -> SUBSET Tools] /\ tool' \in Tools
    BY <1>1, <1>5 DEF LoopTyped, Follow
  <2>3. \A x \in Sessions : queued'[x] \subseteq queued[x] \cup Executed(x)'
    BY <1>1, <1>5 DEF LoopTyped, Follow, Executed
  <2>4. \A x \in Sessions : queued[x] \subseteq fed[x]
    BY <1>5 DEF EventsInv, Executed
  <2>5. pc' \in {"drain", "idle"}
    BY <1>5 DEF Follow
  <2>6. \A x \in Sessions : queued'[x] \subseteq fed'[x] \cup Executed(x)'
    BY <1>5, <2>3, <2>4
  <2> QED
    BY <1>1, <1>2, <1>5, <2>1, <2>2, <2>5, <2>6 DEF EventsInv, LoopTyped, SkippedOnlyOnRepeat
<1>6. ASSUME NEW action \in Actions, NEW t \in Tools, CommitTaken(action, t)
      PROVE  EventsInv'
  <2>1. ReplyOf(action, t) = "call_builtin" => action = "call"
    BY DEF ReplyOf, Actions
  <2> QED
    BY <1>5, <1>6, <2>1 DEF CommitTaken
<1>7. ASSUME NEW action \in Actions, NEW t \in Tools,
             NEW other \in {"final", "retry", "call"}, NEW u \in Tools,
             CommitSwapped(action, t, other, u)
      PROVE  EventsInv'
  <2>1. other \in Actions
    BY DEF Actions
  <2> QED
    BY <1>5, <1>7, <2>1 DEF CommitSwapped
<1>8. ASSUME pc' = "idle", own' = Remaining(IdleSessions), pc = "ask",
             UNCHANGED <<sess, round, tool, queued, history>>
      PROVE  EventsInv'
  <2>1. /\ own' \in [Sessions -> SUBSET Tools] /\ \A x \in Sessions : own'[x] \subseteq own[x]
    BY <1>1, <1>8, RemainingShrinks DEF LoopTyped
  <2> QED
    BY <1>1, <1>2, <1>8, <2>1 DEF EventsInv, LoopTyped, Executed, SkippedOnlyOnRepeat, history
<1>9. ASSUME NEW action, NEW t, NEW hook, CommitFails(action, t, hook) \/ BuiltinFails(t)
      PROVE  EventsInv'
  BY <1>8, <1>9 DEF CommitFails, BuiltinFails
<1>10. CASE Drain
  <2>1. \A x \in Sessions \ {sess} : own'[x] = own[x] /\ queued'[x] = queued[x]
    BY <1>1, <1>10 DEF Drain, LoopTyped
  <2>2. own'[sess] = {} /\ queued'[sess] = {}
    BY <1>1, <1>10 DEF Drain, LoopTyped
  <2>3. pc' = "prepare" /\ served = 0 => tool \in fed[sess]
    BY <1>1, <1>10 DEF Drain, InBand, EventsInv, LoopTyped, Executed
  <2>4. SkippedOnlyOnRepeat'
    BY <1>1, <1>10, <2>3 DEF Drain, SkippedOnlyOnRepeat, EventsInv, LoopTyped, history
  <2>5. /\ own' \in [Sessions -> SUBSET Tools] /\ queued' \in [Sessions -> SUBSET Tools]
        /\ pc \in {"drain"} /\ pc' \in {"prepare", "execute"} /\ round' \in Nat
    BY <1>1, <1>10 DEF Drain, LoopTyped
  <2> QED
    BY <1>1, <1>2, <1>10, <2>1, <2>2, <2>4, <2>5 DEF Drain, EventsInv, LoopTyped, Executed, history
<1>11. ASSUME NEW hook, Feed(hook)
       PROVE  EventsInv'
  <2>1. /\ Remaining(IdleSessions) \in [Sessions -> SUBSET Tools]
        /\ \A x \in Sessions : Remaining(IdleSessions)[x] \subseteq own[x]
    BY <1>1, RemainingShrinks DEF LoopTyped
  <2>2. own[sess] = {} /\ queued[sess] = {} /\ served = 1 /\ pc = "feed"
    BY <1>11 DEF Feed, EventsInv
  <2> DEFINE left == Remaining(IdleSessions)
  <2> HIDE DEF left
  <2>3. CASE Counts("results")
    <3>1. /\ own' = [left EXCEPT ![sess] = @ \cup {tool}] /\ fed' = [fed EXCEPT ![sess] = {tool}]
          /\ pc' = "prepare" /\ round' = round + 1
          /\ UNCHANGED <<sess, tool, queued, runs, served, swapped>>
      BY <1>11, <2>3 DEF Feed, left
    <3>2. left[sess] = {} /\ left \in [Sessions -> SUBSET Tools]
          /\ \A x \in Sessions : left[x] \subseteq own[x]
      BY <1>1, <2>1, <2>2 DEF LoopTyped, left
    <3> QED
      BY <1>1, <1>2, <2>2, <3>1, <3>2 DEF EventsInv, LoopTyped, Executed, SkippedOnlyOnRepeat
  <2>4. CASE ~Counts("results")
    <3>1. own' = [left EXCEPT ![sess] = @] /\ pc' = "idle"
          /\ UNCHANGED <<sess, tool, queued, runs, served, swapped, fed, round>>
      BY <1>11, <2>4 DEF Feed, left
    <3>2. own' \in [Sessions -> SUBSET Tools] /\ \A x \in Sessions : own'[x] \subseteq own[x]
      BY <1>1, <2>1, <3>1 DEF LoopTyped, left
    <3> QED
      BY <1>1, <1>2, <2>2, <3>1, <3>2 DEF EventsInv, LoopTyped, Executed, SkippedOnlyOnRepeat
  <2> QED
    BY <2>3, <2>4
<1>12. CASE Execute
  <2>1. served' = 1
    BY <1>12 DEF Execute, EventsInv, Served
  <2> QED
    BY <1>1, <1>2, <1>12, <2>1
    DEF Execute, EventsInv, LoopTyped, Executed, SkippedOnlyOnRepeat, events
<1>13. CASE Exhaust \/ AskFails \/ ExecuteFails \/ TimePasses \/ UNCHANGED loopVars
  BY <1>1, <1>2, <1>13
  DEF Exhaust, AskFails, ExecuteFails, TimePasses, loopVars, history, events,
    EventsInv, LoopTyped, Executed, SkippedOnlyOnRepeat
<1> QED
  BY <1>3, <1>4, <1>6, <1>7, <1>9, <1>10, <1>11, <1>12, <1>13 DEF LoopNext, Run

LEMMA EventsAlways == LoopSpec => []EventsInv
<1>1. LoopInit => EventsInv
  <2> SUFFICES ASSUME LoopInit
               PROVE  EventsInv
    OBVIOUS
  <2>1. LoopTyped
    <3>3. runs = 0 /\ swapped = FALSE /\ pc = "idle"
      BY DEF LoopInit
    <3>4. MaxRuns \in Nat
      BY LoopAssumption
    <3>5. 0 \in 0..MaxRuns
      BY <3>4
    <3>1. runs = 0 /\ 0 \in 0..MaxRuns /\ swapped \in BOOLEAN /\ pc \in Stage
      BY <3>3, <3>5 DEF Stage
    <3>2. \A f \in {own, queued, fed} : f = [s \in Sessions |-> {}]
      BY DEF LoopInit
    <3> QED
      BY <3>1, <3>2 DEF LoopInit, LoopTyped
  <2>2. Served /\ pc = "idle" /\ round = 0 /\ SkippedOnlyOnRepeat
    BY DEF LoopInit, Served, SkippedOnlyOnRepeat
  <2>3. \A s \in Sessions : own[s] = {} /\ queued[s] = {} /\ fed[s] = {}
    BY DEF LoopInit
  <2> QED
    BY <2>1, <2>2, <2>3 DEF EventsInv
<1> QED BY <1>1, EventsStep, PTL DEF LoopSpec

(* The loop keeps its types. *)
THEOREM LoopTypeCorrect == LoopSpec => []LoopTypeOK
<1>1. EventsInv /\ Turns => LoopTypeOK
  BY RunnerAssumption DEF EventsInv, LoopTyped, Turns, Served, LoopTypeOK
<1>2. LoopInit => Turns
  BY RunnerAssumption DEF LoopInit, Turns, Stage
<1> QED BY <1>1, <1>2, EventsAlways, TurnsStep, PTL DEF LoopSpec

(* A call that nobody executes repeats the tool that the session was fed   *)
(* last (loop_owner.rs:163-172), whatever sessions, tools and hooks.       *)
THEOREM OnlyRepeatsAreSkipped == LoopSpec => []SkippedOnlyOnRepeat
<1>1. EventsInv => SkippedOnlyOnRepeat
  BY DEF EventsInv
<1> QED BY <1>1, EventsAlways, PTL

-------------------------------------------------------------------------------
(* The loop and the FSM of the runner. *)

\* What the runner does with the steps of the loop that matter here.
LEMMA EnsuredTyped ==
  ASSUME TypeOK, NEW s \in Sessions, NEW Gone
  PROVE  Ensured(s, Gone) \in SessionRuntime
<1>1. /\ Blank \in SessionRuntime /\ rt[s] \in SessionRuntime /\ now \in Nat /\ defaults \in Config
  BY BlankRuntime DEF TypeOK, RuntimeOK
<1> QED BY <1>1, FreshRuntime DEF Ensured, Touch, SessionRuntime, RuntimeOK

LEMMA PreparedStreams ==
  ASSUME TypeOK, NEW s \in Sessions, PrepareUserTurn(s, "pass"), s \in live'
  PROVE  rt'[s].fsm = "LlmStreaming"
<1>1. CASE RequestRestore(s)
  BY <1>1 DEF RequestRestore
<1>2. ASSUME NEW policy \in Policies, PrepareTurn(s, "pass", policy)
      PROVE  rt'[s].fsm = "LlmStreaming"
  <2> DEFINE r == Ensured(s, IdleSessions)
             p == Prepared(r)
             k == Kept(p.msgs, policy)
             t == Told(p.msgs, policy)
  <2>1. rt'[s] = CutShort(p, policy)
    BY <1>2 DEF PrepareTurn, Store
  <2>2. r \in SessionRuntime
    BY EnsuredTyped
  <2> HIDE DEF r
  <2>3. /\ p.fsm = TransitionTo(TransitionTo("Idle", "UserTurnPrepared"), "LlmStreaming")
        /\ "fsm" \in DOMAIN p
    BY <2>2 DEF Prepared, SessionRuntime
  <2>4. rt'[s] \in {p, [p EXCEPT !.msgs = k, !.covered = t]}
    BY <2>1 DEF CutShort
  <2> HIDE DEF p, k, t
  <2>5. rt'[s].fsm = p.fsm
    BY <2>3, <2>4
  <2> QED
    BY <2>3, <2>5 DEF TransitionTo, CanTransition, Edges
<1> QED
  BY <1>1, <1>2 DEF PrepareUserTurn

LEMMA CommittedCallRequests ==
  ASSUME TypeOK, NEW s \in Sessions, NEW reply \in {"call_builtin", "call_host"},
         CommitLlmResponse(s, reply, "pass"),
         rt'[s].counters["commits"] > Ensured(s, IdleSessions).counters["commits"]
  PROVE  rt'[s].fsm = "ToolRequested"
<1> DEFINE old == Ensured(s, IdleSessions)
           user == [old EXCEPT !.msgs = @ + 1]
           r == Forced(user, "LlmStreaming")
           decided == Decided(r, reply)
           fails == ~Accepts(r)
           booked == IF fails THEN decided ELSE Booked(decided, reply)
<1>1. old \in SessionRuntime
  BY EnsuredTyped
<1>2. rt'[s].fsm = booked.fsm /\ rt'[s].counters = booked.counters
  <2>1. rt'[s] = booked \/ rt'[s] = [booked EXCEPT !.chunks = 0]
    BY DEF CommitLlmResponse, Store
  <2>2. "chunks" \in DOMAIN booked /\ "fsm" \in DOMAIN booked /\ "counters" \in DOMAIN booked
    BY <1>1 DEF Booked, Decided, Forced, SessionRuntime
  <2> HIDE DEF booked
  <2> QED
    BY <2>1, <2>2
<1> HIDE DEF old
<1>3. r.counters = old.counters
  BY <1>1 DEF Forced, SessionRuntime
<1>4. CASE fails
  <2>1. booked = r
    BY <1>4 DEF Decided
  <2>2. old.counters["commits"] \in Nat
    BY <1>1 DEF SessionRuntime, Counter
  <2>3. rt'[s].counters["commits"] > old.counters["commits"]
    BY DEF old
  <2> HIDE DEF booked
  <2>4. rt'[s].counters = old.counters
    BY <1>2, <1>3, <2>1
  <2> QED
    BY <2>2, <2>3, <2>4
<1>5. CASE ~fails
  <2>1. r.fsm = "LlmStreaming"
    BY <1>5 DEF Accepts, CanTransition, Edges
  <2> QED
    BY <1>1, <1>2, <1>5, <2>1
    DEF Booked, Decided, TransitionTo, CanTransition, Edges, Forced, SessionRuntime
<1> QED
  BY <1>4, <1>5

LoopFsmInv == sess \in Sessions /\ LoopMatchesFsm

LEMMA LoopFsmStep ==
  ASSUME TypeOK, LoopFsmInv, [LoopNext]_loopVars
  PROVE  LoopFsmInv'
<1> USE DEF LoopFsmInv, LoopMatchesFsm, Fail
<1>1. ASSUME NEW s \in Sessions, NEW n \in StepLimits, Start(s, n) PROVE LoopFsmInv'
  BY <1>1 DEF Start
<1>2. ASSUME NEW hook, Prepare(hook) PROVE LoopFsmInv'
  <2>1. CASE hook = "pass" /\ sess \in live'
    <3>1. rt'[sess].fsm = "LlmStreaming"
      BY <1>2, <2>1, PreparedStreams DEF Prepare
    <3> QED
      BY <1>2, <2>1, <3>1 DEF Prepare
  <2>2. CASE ~(hook = "pass" /\ sess \in live')
    BY <1>2, <2>2 DEF Prepare
  <2> QED
    BY <2>1, <2>2
<1>3. ASSUME NEW hook, Feed(hook) PROVE LoopFsmInv'
  BY <1>3 DEF Feed
<1>4. ASSUME NEW action \in Actions, NEW t \in Tools, CommitTaken(action, t) PROVE LoopFsmInv'
  <2>1. CASE action = "call"
    <3>1. ReplyOf(action, t) \in {"call_builtin", "call_host"}
      BY <1>4, <2>1 DEF CommitTaken, ReplyOf, Kind
    <3>2. rt'[sess].fsm = "ToolRequested"
      BY <1>4, <3>1, CommittedCallRequests DEF CommitTaken, Counts
    <3> QED
      BY <1>4, <2>1, <3>2 DEF CommitTaken, Follow
  <2>2. CASE action # "call"
    BY <1>4, <2>2 DEF CommitTaken, Follow
  <2> QED
    BY <2>1, <2>2
<1>5. ASSUME NEW action, NEW t, NEW other, NEW u, CommitSwapped(action, t, other, u)
      PROVE  LoopFsmInv'
  BY <1>5 DEF CommitSwapped, Follow
<1>6. ASSUME NEW action, NEW t, NEW hook, CommitFails(action, t, hook) \/ BuiltinFails(t)
      PROVE  LoopFsmInv'
  BY <1>6 DEF CommitFails, BuiltinFails, history
<1>7. CASE Drain
  <2>1. UNCHANGED <<live, rt>>
    BY <1>7 DEF Drain, DrainEvents, DrainNothing, vars
  <2> QED
    BY <1>7, <2>1 DEF Drain, history
<1>8. CASE Exhaust \/ AskFails \/ Execute \/ ExecuteFails \/ TimePasses \/ UNCHANGED loopVars
  <2>1. UNCHANGED <<live, rt>>
    BY <1>8 DEF Exhaust, AskFails, Execute, ExecuteFails, TimePasses, Tick, loopVars, vars
  <2> QED
    BY <1>8, <2>1
    DEF Exhaust, AskFails, Execute, ExecuteFails, TimePasses, loopVars, history
<1> QED
  BY <1>1, <1>2, <1>3, <1>4, <1>5, <1>6, <1>7, <1>8 DEF LoopNext, Run

(* While the loop waits for the model the runner takes a reply, and while  *)
(* it has a call on its hands the runner takes a result (loop_owner.rs and *)
(* the FSM guards of wasm_agent), unless a hook swapped the action.        *)
THEOREM LoopFollowsFsm == LoopSpec => []LoopMatchesFsm
<1>1. LoopInit => LoopFsmInv
  BY DEF LoopInit, LoopFsmInv, LoopMatchesFsm
<1>2. LoopFsmInv => LoopMatchesFsm
  BY DEF LoopFsmInv
<1>3. TypeOK /\ LoopFsmInv /\ [LoopNext]_loopVars => LoopFsmInv'
  BY LoopFsmStep
<1> QED BY <1>1, <1>2, <1>3, ImplementsRunner, TypeCorrect, PTL DEF LoopSpec
===============================================================================
