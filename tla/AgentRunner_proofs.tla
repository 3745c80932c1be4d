-------------------------- MODULE AgentRunner_proofs --------------------------
(***************************************************************************)
(* Theorems about AgentRunner, for any set of sessions and any limits.     *)
(*                                                                         *)
(* The argument is local: RuntimeOK is what holds of one SessionRuntime,   *)
(* every function of the model that makes a runtime preserves it, and      *)
(* every action stores a runtime so made or a blank one.                   *)
(***************************************************************************)
EXTENDS AgentRunner, TLAPS

(* The counters of one runtime.  Rounds is the strengthening that the step *)
(* limit needs: a round is only open while there is a step left for it.    *)
Committed(r) == r.counters["commits"] + Armed(r) <= r.counters["prepared"] + r.counters["results"]
Counted(r) ==
  /\ r.counters["finals"] + r.counters["retries"] + r.counters["requests"] <= r.counters["commits"]
  /\ r.counters["requests"] + r.counters["results"] <= r.step
Rounds(r) ==
  /\ r.counters["requests"] + r.counters["results"] <= r.config.maxSteps + 1
  /\ r.fsm \in {"ToolRequested", "LlmCommitted"} =>
       r.counters["requests"] + r.counters["results"] <= r.config.maxSteps

RuntimeOK(r) ==
  /\ r \in SessionRuntime
  /\ r.fsm # "UserTurnPrepared"
  /\ Committed(r) /\ Counted(r) /\ Rounds(r)

(* What TypeOK and RuntimeOK say of the session table, and the rest. *)
TableOK ==
  /\ live \subseteq Sessions /\ archived \subseteq Sessions
  /\ rt \in [Sessions -> SessionRuntime]
  /\ \A s \in Sessions \ live : rt[s] = Blank
  /\ \A s \in Sessions : RuntimeOK(rt[s])
OthersOK ==
  /\ pending \in [Sessions -> PendingEvents]
  /\ defaults \in Config /\ maxInMemory \in Nat \ {0} /\ now \in Nat
  /\ written \in [Sessions -> Nat]
  /\ forgotten \in [Sessions -> Nat]
  /\ handed \in [Sessions -> Nat]

(* The inductive invariant. *)
RunnerInv == TableOK /\ OthersOK /\ MessagesConserved

(* The messages a runtime stands for: its history and its summary.         *)
Carried(r) == r.msgs + r.covered
SameHistory(r, q) == q.msgs = r.msgs /\ q.covered = r.covered

USE DEF FsmState, Edges, CanTransition, TransitionTo

-------------------------------------------------------------------------------
(* Runtimes. *)

LEMMA StepsNat ==
  ASSUME NEW r \in SessionRuntime
  PROVE  /\ r.config \in Config /\ r.config.maxSteps \in Nat
         /\ Carried(r) \in Nat /\ r.msgs \in Nat /\ r.covered \in Nat
<1>1. r.config \in Config /\ r.msgs \in Nat /\ r.covered \in Nat
  BY DEF SessionRuntime
<1>2. r.config.maxSteps \in StepLimits
  BY <1>1 DEF Config
<1>3. r.config.maxSteps \in Nat
  BY <1>2, RunnerAssumption
<1>4. Carried(r) \in Nat
  BY <1>1 DEF Carried
<1> QED BY <1>1, <1>3, <1>4

LEMMA DefaultsTyped == DefaultConfig \in Config
BY RunnerAssumption DEF DefaultConfig, Config

LEMMA BlankRuntime ==
  /\ RuntimeOK(Blank)
  /\ Blank.msgs = 0 /\ Blank.covered = 0 /\ Carried(Blank) = 0
<1>1. Blank \in SessionRuntime
  BY DefaultsTyped DEF Blank, SessionRuntime, Counter
<1>2. Blank.config.maxSteps \in Nat
  BY <1>1, StepsNat
<1> QED BY <1>1, <1>2 DEF RuntimeOK, Blank, Counter, Committed, Armed, Counted, Rounds, Carried

LEMMA FreshRuntime ==
  ASSUME NEW config \in Config, now \in Nat
  PROVE  /\ RuntimeOK(Fresh(config))
         /\ Carried(Fresh(config)) = 0 /\ Fresh(config).touched = now /\ Fresh(config).chunks = 0
<1> DEFINE q == Fresh(config)
<1>1. /\ q \in SessionRuntime
      /\ q.counters = Blank.counters /\ q.fsm = "Idle" /\ q.step = 0 /\ q.chunks = 0
      /\ q.msgs = 0 /\ q.covered = 0 /\ q.touched = now
  BY DefaultsTyped DEF Fresh, Blank, SessionRuntime, Counter
<1>2. q.config.maxSteps \in Nat
  BY <1>1, StepsNat
<1>3. \A c \in Counter : q.counters[c] = 0
  BY <1>1 DEF Blank
<1> HIDE DEF q
<1>4. RuntimeOK(q)
  BY <1>1, <1>2, <1>3 DEF RuntimeOK, Counter, Committed, Armed, Counted, Rounds
<1> QED BY <1>1, <1>4 DEF Carried, q

LEMMA TouchedRuntime ==
  ASSUME NEW r, RuntimeOK(r), now \in Nat
  PROVE  RuntimeOK(Touch(r)) /\ SameHistory(r, Touch(r))
BY DEF RuntimeOK, Touch, SessionRuntime, Counter, Committed, Armed, Counted, Rounds, SameHistory

(* The guards of the callers keep a runtime sound, whatever its state. *)
LEMMA ForcedRuntime ==
  ASSUME NEW r, RuntimeOK(r), NEW f \in {"LlmStreaming", "ToolRequested"}
  PROVE  RuntimeOK(Forced(r, f)) /\ SameHistory(r, Forced(r, f))
BY DEF RuntimeOK, Forced, SessionRuntime, Counter, Committed, Armed, Counted, Rounds, SameHistory

(* What RuntimeOK is not about may change freely. *)
LEMMA MessageRuntime ==
  ASSUME NEW r, RuntimeOK(r), NEW n \in Nat
  PROVE  LET q == [r EXCEPT !.msgs = n]
         IN  RuntimeOK(q) /\ q.msgs = n /\ q.covered = r.covered
BY DEF RuntimeOK, SessionRuntime, Counter, Committed, Armed, Counted, Rounds

LEMMA ChunksRuntime ==
  ASSUME NEW r, RuntimeOK(r), NEW n \in Nat
  PROVE  RuntimeOK([r EXCEPT !.chunks = n]) /\ SameHistory(r, [r EXCEPT !.chunks = n])
BY DEF RuntimeOK, SessionRuntime, Counter, Committed, Armed, Counted, Rounds, SameHistory

(* A cut keeps and tells no more than there was, under either strategy.    *)
LEMMA CutBounds ==
  ASSUME NEW n \in Nat, NEW policy \in ContextPolicy, Cuts(n, policy)
  PROVE  /\ Kept(n, policy) \in Nat /\ Told(n, policy) \in Nat
         /\ Kept(n, policy) + Told(n, policy) <= n
<1> DEFINE k == Retain(policy)
           h == Head(policy)
           t == Tail(policy)
<1>1. k \in Nat /\ k >= 1 /\ k < n
  BY DEF ContextPolicy, Retain, Larger, Cuts
<1>2. k \div 3 \in Nat /\ k \div 3 <= k
  BY <1>1
<1>3. h \in Nat /\ h <= k
  BY <1>1, <1>2 DEF Head, Larger
<1>4. t \in Nat /\ t >= 1 /\ (t = k - h \/ (t = 1 /\ h = k))
  BY <1>1, <1>3 DEF Tail, Larger
<1>5. Kept(n, policy) = h + t
  BY DEF Kept
<1>6. Told(n, policy) \in Nat /\ (Told(n, policy) = n - k - h \/ Told(n, policy) = 0)
  BY <1>1, <1>3 DEF Told, Larger
<1> HIDE DEF k, h, t
<1> QED BY <1>1, <1>3, <1>4, <1>5, <1>6

(* maybe_update_summary keeps a runtime sound, and what it leaves is the   *)
(* history and the summary from before less what it forgets.               *)
LEMMA CutRuntime ==
  ASSUME NEW r, RuntimeOK(r), NEW policy \in ContextPolicy
  PROVE  /\ RuntimeOK(CutShort(r, policy)) /\ Forgets(r, policy) \in Nat
         /\ Carried(CutShort(r, policy)) + Forgets(r, policy) = Carried(r)
<1> DEFINE k == Kept(r.msgs, policy)
           t == Told(r.msgs, policy)
           q == [r EXCEPT !.msgs = k, !.covered = t]
<1>1. r \in SessionRuntime /\ r.msgs \in Nat /\ r.covered \in Nat
  BY StepsNat DEF RuntimeOK
<1>2. CASE ~Cuts(r.msgs, policy)
  BY <1>1, <1>2 DEF CutShort, Forgets, Carried
<1>3. CASE Cuts(r.msgs, policy)
  <2>1. k \in Nat /\ t \in Nat /\ k + t <= r.msgs
    BY <1>1, <1>3, CutBounds
  <2>2. CutShort(r, policy) = q /\ Forgets(r, policy) = r.covered + (r.msgs - k - t)
    BY <1>3 DEF CutShort, Forgets
  <2> HIDE DEF k, t
  <2>3. RuntimeOK(q) /\ q.msgs = k /\ q.covered = t
    BY <1>1, <2>1 DEF RuntimeOK, SessionRuntime, Counter, Committed, Armed, Counted, Rounds
  <2> HIDE DEF q
  <2> QED BY <1>1, <2>1, <2>2, <2>3 DEF Carried
<1> QED BY <1>2, <1>3

(* Bump counts up what it names and keeps the rest. *)
LEMMA BumpType ==
  ASSUME NEW counters \in [Counter -> Nat], NEW K
  PROVE  /\ Bump(counters, K) \in [Counter -> Nat]
         /\ \A c \in Counter :
              Bump(counters, K)[c] = IF c \in K THEN counters[c] + 1 ELSE counters[c]
BY DEF Bump

LEMMA PreparedRuntime ==
  ASSUME NEW r, RuntimeOK(r)
  PROVE  RuntimeOK(Prepared(r)) /\ SameHistory(r, Prepared(r))
<1> DEFINE q == Prepared(r)
           b == Bump(r.counters, {"prepared"})
<1>1. r \in SessionRuntime /\ r.counters \in [Counter -> Nat]
  BY DEF RuntimeOK, SessionRuntime
<1>2. b \in [Counter -> Nat]
      /\ b["prepared"] = r.counters["prepared"] + 1
      /\ \A c \in Counter \ {"prepared"} : b[c] = r.counters[c]
  BY <1>1, BumpType DEF Counter
<1> HIDE DEF b
<1>3. /\ q \in SessionRuntime /\ q.config = r.config
      /\ q.fsm = "LlmStreaming" /\ q.step = r.step /\ q.counters = b
      /\ q.msgs = r.msgs /\ q.covered = r.covered
  BY <1>1, <1>2 DEF Prepared, SessionRuntime, b
<1> HIDE DEF q
<1>4. RuntimeOK(q)
  BY <1>1, <1>2, <1>3 DEF RuntimeOK, SessionRuntime, Counter, Committed, Armed, Counted, Rounds
<1> QED BY <1>3, <1>4 DEF q, SameHistory

(* process_llm_response keeps a runtime sound, accepted or not. *)
LEMMA DecidedRuntime ==
  ASSUME NEW r, RuntimeOK(r), NEW reply \in Reply
  PROVE  RuntimeOK(Decided(r, reply)) /\ SameHistory(r, Decided(r, reply))
<1>1. CASE ~Accepts(r)
  BY <1>1 DEF Decided, SameHistory
<1>2. CASE Accepts(r)
  <2> DEFINE f == IF reply = "malformed" THEN "LlmCommitted" ELSE IF reply = "final" THEN "Final"
                  ELSE IF reply = "retry" THEN "Idle" ELSE "ToolRequested"
             n == IF reply \in Call THEN r.step + 1 ELSE r.step
             q == [r EXCEPT !.fsm = f, !.step = n]
  <2>1. /\ r \in SessionRuntime /\ r.fsm = "LlmStreaming"
        /\ r.step < r.config.maxSteps /\ r.config.maxSteps \in Nat
    BY <1>2, StepsNat DEF RuntimeOK, Accepts
  <2>2. Decided(r, reply) = q
    <3>1. CASE reply \in Call
      BY <1>2, <2>1, <3>1 DEF Decided, Call, SessionRuntime
    <3>2. CASE reply \notin Call
      <4>1. [r EXCEPT !.fsm = f] = [r EXCEPT !.fsm = f, !.step = r.step]
        BY <2>1 DEF SessionRuntime
      <4> QED BY <1>2, <2>1, <3>2, <4>1 DEF Decided, Call, Reply
    <3> QED BY <3>1, <3>2
  <2>3. f \in FsmState \ {"UserTurnPrepared", "LlmStreaming", "ToolResultProcessed"}
        /\ n \in Nat /\ n >= r.step
    BY <2>1 DEF SessionRuntime
  <2> HIDE DEF f, n
  <2>4. /\ q \in SessionRuntime /\ q.config = r.config
        /\ q.fsm = f /\ q.step = n /\ q.counters = r.counters
        /\ q.msgs = r.msgs /\ q.covered = r.covered
    BY <2>1, <2>3 DEF SessionRuntime
  <2> HIDE DEF q
  <2>5. RuntimeOK(q)
    BY <2>1, <2>3, <2>4
       DEF RuntimeOK, SessionRuntime, Counter, Committed, Armed, Counted, Rounds
  <2> QED BY <2>2, <2>4, <2>5 DEF SameHistory
<1> QED BY <1>1, <1>2

(* The bookkeeping of commit_llm_response finds the room that the accepted *)
(* reply left: it was armed before and is not any more.                    *)
LEMMA BookedRuntime ==
  ASSUME NEW r, RuntimeOK(r), NEW reply \in Reply, Accepts(r), reply # "malformed"
  PROVE  /\ RuntimeOK(Booked(Decided(r, reply), reply))
         /\ Booked(Decided(r, reply), reply).msgs \in {r.msgs, r.msgs + 1}
         /\ Booked(Decided(r, reply), reply).covered = r.covered
<1> DEFINE d == Decided(r, reply)
           K == CASE reply = "final" -> {"commits", "finals"} [] reply = "retry" -> {"commits", "retries"}
                  [] reply = "call_unknown" -> {"commits"} [] OTHER -> {"commits", "requests"}
           b == Bump(r.counters, K)
           m == IF reply \in {"retry", "call_unknown"} THEN r.msgs ELSE r.msgs + 1
           q == [d EXCEPT !.counters = b, !.msgs = m]
<1>1. /\ r \in SessionRuntime /\ r.fsm = "LlmStreaming"
      /\ r.step < r.config.maxSteps /\ r.config.maxSteps \in Nat
  BY StepsNat DEF RuntimeOK, Accepts
<1>2. /\ d \in SessionRuntime /\ d.config = r.config
      /\ d.msgs = r.msgs /\ d.covered = r.covered /\ d.counters = r.counters
      /\ d.fsm = (IF reply = "final" THEN "Final" ELSE IF reply = "retry" THEN "Idle" ELSE "ToolRequested")
      /\ d.step = (IF reply \in Call THEN r.step + 1 ELSE r.step)
  <2>1. d \in SessionRuntime /\ d.msgs = r.msgs /\ d.covered = r.covered
    BY DecidedRuntime DEF RuntimeOK, SameHistory
  <2>2. CASE reply = "final"
    BY <1>1, <2>1, <2>2 DEF Decided, SessionRuntime, Call
  <2>3. CASE reply = "retry"
    BY <1>1, <2>1, <2>3 DEF Decided, SessionRuntime, Call
  <2>4. CASE reply \in Call
    BY <1>1, <2>1, <2>4 DEF Decided, SessionRuntime, Call
  <2> QED BY <2>2, <2>3, <2>4 DEF Reply
<1> HIDE DEF d
<1>3. Booked(d, reply) = q
  <2>1. CASE reply \in {"retry", "call_unknown"}
    <3>1. [d EXCEPT !.counters = b] = [d EXCEPT !.counters = b, !.msgs = d.msgs]
      BY <1>2 DEF SessionRuntime
    <3> QED BY <1>2, <2>1, <3>1 DEF Booked
  <2>2. CASE reply \notin {"retry", "call_unknown"}
    BY <1>2, <2>2 DEF Booked
  <2> QED BY <2>1, <2>2
<1>4. /\ b \in [Counter -> Nat]
      /\ \A c \in Counter : b[c] = IF c \in K THEN r.counters[c] + 1 ELSE r.counters[c]
      /\ m \in {r.msgs, r.msgs + 1} /\ m \in Nat
  BY <1>1, BumpType DEF SessionRuntime
<1> HIDE DEF b, m
<1>5. /\ q \in SessionRuntime /\ q.config = r.config /\ q.covered = r.covered
      /\ q.fsm = d.fsm /\ q.step = d.step /\ q.msgs = m /\ q.counters = b
  BY <1>2, <1>4 DEF SessionRuntime
<1> HIDE DEF q
<1>6. RuntimeOK(q)
  <2>1. r.counters \in [Counter -> Nat] /\ r.step \in Nat
    BY <1>1 DEF SessionRuntime
  <2>2. /\ r.counters["commits"] + 1 <= r.counters["prepared"] + r.counters["results"]
        /\ Counted(r)
    BY <1>1 DEF RuntimeOK, Committed, Armed
  <2>3. CASE reply = "final"
    BY <1>1, <1>2, <1>4, <1>5, <2>1, <2>2, <2>3
       DEF RuntimeOK, Counter, Committed, Armed, Counted, Rounds, Call
  <2>4. CASE reply = "retry"
    BY <1>1, <1>2, <1>4, <1>5, <2>1, <2>2, <2>4
       DEF RuntimeOK, Counter, Committed, Armed, Counted, Rounds, Call
  <2>5. CASE reply = "call_unknown"
    BY <1>1, <1>2, <1>4, <1>5, <2>1, <2>2, <2>5
       DEF RuntimeOK, Counter, Committed, Armed, Counted, Rounds, Call
  <2>6. CASE reply \in {"call_host", "call_builtin"}
    BY <1>1, <1>2, <1>4, <1>5, <2>1, <2>2, <2>6
       DEF RuntimeOK, Counter, Committed, Armed, Counted, Rounds, Call
  <2> QED BY <2>3, <2>4, <2>5, <2>6 DEF Reply, Call
<1> QED BY <1>3, <1>4, <1>5, <1>6 DEF d

LEMMA RecordedRuntime ==
  ASSUME NEW r, RuntimeOK(r)
  PROVE  /\ RuntimeOK(Recorded(r))
         /\ Recorded(r).msgs = r.msgs + 1 /\ Recorded(r).covered = r.covered
         /\ Recorded(r).fsm = r.fsm /\ Recorded(r).config = r.config
         /\ Recorded(r).counters = r.counters /\ Recorded(r).step = r.step + 1
<1> DEFINE n == r.step + 1
           m == r.msgs + 1
           q == [r EXCEPT !.step = n, !.msgs = m]
<1>1. r \in SessionRuntime
  BY DEF RuntimeOK
<1>2. n \in Nat /\ m \in Nat /\ n >= r.step /\ Recorded(r) = q
  BY <1>1 DEF Recorded, SessionRuntime
<1> HIDE DEF n, m
<1>3. /\ q \in SessionRuntime /\ q.config = r.config /\ q.covered = r.covered
      /\ q.fsm = r.fsm /\ q.step = n /\ q.msgs = m /\ q.counters = r.counters
  BY <1>1, <1>2 DEF SessionRuntime
<1> HIDE DEF q
<1>4. RuntimeOK(q)
  BY <1>1, <1>2, <1>3 DEF RuntimeOK, SessionRuntime, Counter, Committed, Armed, Counted, Rounds
<1> QED BY <1>2, <1>3, <1>4 DEF n, m

(* A round may be closed because its step was recorded just before. *)
LEMMA ProcessedRuntime ==
  ASSUME NEW r, RuntimeOK(r), r.fsm = "ToolRequested"
  PROVE  /\ RuntimeOK(Processed(Recorded(r)))
         /\ Processed(Recorded(r)).msgs = r.msgs + 1 /\ Processed(Recorded(r)).covered = r.covered
<1> DEFINE p == Recorded(r)
           b == Bump(p.counters, {"results"})
           q == [p EXCEPT !.fsm = "ToolResultProcessed", !.counters = b]
<1>1. /\ RuntimeOK(p) /\ p.msgs = r.msgs + 1 /\ p.covered = r.covered
      /\ p.fsm = "ToolRequested" /\ p.config = r.config
      /\ p.counters = r.counters /\ p.step = r.step + 1
  BY RecordedRuntime
<1> HIDE DEF p
<1>2. p \in SessionRuntime /\ p.counters \in [Counter -> Nat]
  BY <1>1 DEF RuntimeOK, SessionRuntime
<1>3. b \in [Counter -> Nat]
      /\ \A c \in Counter : b[c] = IF c = "results" THEN p.counters[c] + 1 ELSE p.counters[c]
  BY <1>2, BumpType
<1>6. Processed(p) = q
  BY <1>1 DEF Processed
<1> HIDE DEF b
<1>4. /\ q \in SessionRuntime /\ q.config = p.config /\ q.covered = p.covered
      /\ q.fsm = "ToolResultProcessed" /\ q.step = p.step /\ q.msgs = p.msgs /\ q.counters = b
  BY <1>2, <1>3 DEF SessionRuntime
<1> HIDE DEF q
<1>5. RuntimeOK(q)
  <2>1. r.counters["requests"] + r.counters["results"] <= r.step
        /\ r.counters["requests"] + r.counters["results"] <= r.config.maxSteps
        /\ r \in SessionRuntime /\ r.config.maxSteps \in Nat
    BY StepsNat DEF RuntimeOK, Counted, Rounds
  <2> QED BY <1>1, <1>2, <1>3, <1>4, <2>1
        DEF RuntimeOK, SessionRuntime, Counter, Committed, Armed, Counted, Rounds
<1> QED BY <1>1, <1>4, <1>5, <1>6 DEF p
-------------------------------------------------------------------------------
(* The store. *)

LEMMA EnsuredRuntime ==
  ASSUME RunnerInv, NEW s \in Sessions, NEW Gone
  PROVE  /\ RuntimeOK(Ensured(s, Gone))
         /\ Carried(Ensured(s, Gone)) = IF s \in Gone THEN 0 ELSE Carried(rt[s])
         /\ Ensured(s, Gone).msgs \in Nat /\ Ensured(s, Gone).covered \in Nat
<1>1. /\ RuntimeOK(rt[s]) /\ now \in Nat /\ defaults \in Config
      /\ s \notin live => rt[s] = Blank
  BY DEF RunnerInv, TableOK, OthersOK
<1>2. RuntimeOK(Ensured(s, Gone))
  BY <1>1, FreshRuntime, TouchedRuntime DEF Ensured
<1>3. Carried(Ensured(s, Gone)) = IF s \in Gone THEN 0 ELSE Carried(rt[s])
  <2>1. CASE s \in live \ Gone
    BY <1>1, <2>1, TouchedRuntime DEF Ensured, Carried, SameHistory
  <2>2. CASE s \notin live \ Gone
    BY <1>1, <2>2, FreshRuntime, BlankRuntime DEF Ensured
  <2> QED BY <2>1, <2>2
<1> QED BY <1>2, <1>3, StepsNat DEF RuntimeOK

LEMMA StoredTable ==
  ASSUME TableOK, NEW s \in Sessions, NEW r, RuntimeOK(r), NEW Gone \in SUBSET Sessions,
         Store(s, r, Gone)
  PROVE  TableOK'
<1>1. \A x \in Sessions : rt'[x] = IF x = s THEN r ELSE IF x \in Gone THEN Blank ELSE rt[x]
  BY DEF Store
<1>2. \A x \in Sessions : RuntimeOK(rt'[x])
  BY <1>1, BlankRuntime DEF TableOK
<1>3. rt' \in [Sessions -> SessionRuntime]
  <2>1. \A x \in Sessions : rt'[x] \in SessionRuntime
    BY <1>2 DEF RuntimeOK
  <2> QED BY <2>1 DEF Store
<1>4. live' \subseteq Sessions /\ archived' \subseteq Sessions
  BY DEF Store, TableOK
<1>5. \A x \in Sessions \ live' : rt'[x] = Blank
  BY <1>1 DEF Store, TableOK
<1> QED BY <1>2, <1>3, <1>4, <1>5 DEF TableOK, RuntimeOK, Committed, Counted, Rounds, Armed

(* Sessions that are only archived: sweep_idle_sessions and the refused    *)
(* prepare_user_turn.                                                      *)
LEMMA SweptTable ==
  ASSUME TableOK, NEW Gone \in SUBSET Sessions,
         live' = live \ Gone, archived' = archived \cup Gone,
         rt' = [x \in Sessions |-> IF x \in Gone THEN Blank ELSE rt[x]]
  PROVE  TableOK'
<1>1. \A x \in Sessions : rt'[x] = IF x \in Gone THEN Blank ELSE rt[x]
  OBVIOUS
<1>2. \A x \in Sessions : RuntimeOK(rt'[x])
  BY <1>1, BlankRuntime DEF TableOK
<1>3. rt' \in [Sessions -> SessionRuntime]
  <2>1. \A x \in Sessions : rt'[x] \in SessionRuntime
    BY <1>2 DEF RuntimeOK
  <2> QED BY <2>1
<1>4. \A x \in Sessions \ live' : rt'[x] = Blank
  BY <1>1 DEF TableOK
<1> QED BY <1>2, <1>3, <1>4 DEF TableOK, RuntimeOK, Committed, Counted, Rounds, Armed

LEMMA QueuedType ==
  ASSUME pending \in [Sessions -> PendingEvents], rt \in [Sessions -> SessionRuntime],
         NEW Gone
  PROVE  /\ QueueSnapshots(Gone) \in [Sessions -> PendingEvents]
         /\ \A x \in Sessions : QueueSnapshots(Gone)[x].msgs =
                pending[x].msgs + (IF x \in Gone THEN Carried(rt[x]) ELSE 0)
<1>1. ASSUME NEW x \in Sessions
      PROVE  Snapshot(x) \in PendingEvents /\ Snapshot(x).msgs = pending[x].msgs + Carried(rt[x])
  <2> DEFINE e == pending[x]
             m == rt[x].msgs
             c == rt[x].covered
             n == e.msgs + m + c
             k == e.snapshots + 1
             q == [e EXCEPT !.snapshots = k, !.msgs = n]
  <2>1. e \in PendingEvents /\ n \in Nat /\ k \in Nat /\ n = e.msgs + Carried(rt[x])
    BY DEF SessionRuntime, PendingEvents, Carried
  <2>2. Snapshot(x) = q
    BY DEF Snapshot
  <2> HIDE DEF e, k, n
  <2>3. q \in PendingEvents /\ q.msgs = n
    BY <2>1 DEF PendingEvents
  <2> QED BY <2>1, <2>2, <2>3 DEF e
<1>2. \A x \in Sessions : QueueSnapshots(Gone)[x] = IF x \in Gone THEN Snapshot(x) ELSE pending[x]
  BY DEF QueueSnapshots
<1>3. QueueSnapshots(Gone) \in [Sessions -> PendingEvents]
  BY <1>1 DEF QueueSnapshots
<1>4. \A x \in Sessions : pending[x].msgs \in Nat
  BY DEF PendingEvents
<1> QED BY <1>1, <1>2, <1>3, <1>4

(* The accounting of messages over one stored session: n messages written, *)
(* k forgotten, and what Gone held moved into the queued snapshots.        *)
LEMMA StoredMessages ==
  ASSUME RunnerInv, NEW s \in Sessions, NEW r, RuntimeOK(r), NEW Gone,
         NEW n \in Nat, NEW k \in Nat,
         Store(s, r, Gone),
         \A x \in Sessions : pending'[x].msgs = QueueSnapshots(Gone)[x].msgs,
         written' = [written EXCEPT ![s] = @ + n],
         forgotten' = [forgotten EXCEPT ![s] = @ + k],
         handed' = handed,
         Carried(r) + k = (IF s \in Gone THEN 0 ELSE Carried(rt[s])) + n
  PROVE  MessagesConserved'
<1>1. \A x \in Sessions : rt'[x] = IF x = s THEN r ELSE IF x \in Gone THEN Blank ELSE rt[x]
  BY DEF Store
<1>2. \A x \in Sessions : pending'[x].msgs = pending[x].msgs + (IF x \in Gone THEN Carried(rt[x]) ELSE 0)
  BY QueuedType DEF RunnerInv, TableOK, OthersOK
<1>3. \A x \in Sessions :
        /\ Carried(rt[x]) \in Nat /\ pending[x].msgs \in Nat /\ handed[x] \in Nat
        /\ written[x] \in Nat /\ forgotten[x] \in Nat
  BY StepsNat DEF RunnerInv, TableOK, OthersOK, PendingEvents
<1>4. Carried(Blank) = 0 /\ Carried(r) \in Nat
  BY BlankRuntime, StepsNat DEF RuntimeOK
<1>5. \A x \in Sessions :
        /\ written'[x] = written[x] + (IF x = s THEN n ELSE 0)
        /\ forgotten'[x] = forgotten[x] + (IF x = s THEN k ELSE 0)
  BY <1>3 DEF RunnerInv, OthersOK
<1>6. \A x \in Sessions :
        written[x] = Carried(rt[x]) + forgotten[x] + pending[x].msgs + handed[x]
  BY DEF RunnerInv, MessagesConserved, Carried
<1>7. ASSUME NEW x \in Sessions
      PROVE  written'[x] = Carried(rt'[x]) + forgotten'[x] + pending'[x].msgs + handed'[x]
  <2>1. CASE x = s
    <3> DEFINE g == IF s \in Gone THEN Carried(rt[s]) ELSE 0
    <3>1. /\ written'[s] = written[s] + n /\ forgotten'[s] = forgotten[s] + k
          /\ rt'[s] = r /\ pending'[s].msgs = pending[s].msgs + g
      BY <1>1, <1>2, <1>5
    <3>2. Carried(r) + k + g = Carried(rt[s]) + n /\ g \in Nat
      BY <1>3, <1>4
    <3>3. written[s] = Carried(rt[s]) + forgotten[s] + pending[s].msgs + handed[s]
      BY <1>6
    <3>4. Carried(rt'[s]) = Carried(r) /\ handed'[s] = handed[s]
      BY <3>1
    <3> HIDE DEF g
    <3>5. /\ Carried(rt[s]) \in Nat /\ pending[s].msgs \in Nat /\ handed[s] \in Nat
          /\ written[s] \in Nat /\ forgotten[s] \in Nat
      BY <1>3
    <3>6. \A a, b, c, d, e, f \in Nat :
            b + k + g = a + n /\ c = a + d + e + f => c + n = b + (d + k) + (e + g) + f
      BY <3>2
    <3>7. written[s] + n = Carried(r) + (forgotten[s] + k) + (pending[s].msgs + g) + handed[s]
      BY <1>4, <3>2, <3>3, <3>5, <3>6
    <3> QED BY <2>1, <3>1, <3>4, <3>7
  <2>2. CASE x # s
    BY <1>1, <1>2, <1>3, <1>4, <1>5, <1>6, <2>2
  <2> QED BY <2>1, <2>2
<1> QED BY <1>7 DEF MessagesConserved, Carried

(* A call that stores s preserves the invariant if the runtime it stores   *)
(* is sound and accounts for its messages.                                 *)
LEMMA StoreStep ==
  ASSUME RunnerInv, NEW s \in Sessions, NEW r, RuntimeOK(r), NEW Gone \in SUBSET Sessions,
         NEW n \in Nat, NEW k \in Nat,
         Store(s, r, Gone),
         pending' \in [Sessions -> PendingEvents],
         \A x \in Sessions : pending'[x].msgs = QueueSnapshots(Gone)[x].msgs,
         defaults' \in Config, maxInMemory' \in Nat \ {0}, now' = now,
         written' = [written EXCEPT ![s] = @ + n],
         forgotten' = [forgotten EXCEPT ![s] = @ + k],
         handed' = handed,
         Carried(r) + k = (IF s \in Gone THEN 0 ELSE Carried(rt[s])) + n
  PROVE  RunnerInv'
<1>1. TableOK'
  BY StoredTable DEF RunnerInv
<1>2. MessagesConserved'
  BY StoredMessages
<1>3. OthersOK'
  BY DEF RunnerInv, OthersOK
<1> QED BY <1>1, <1>2, <1>3 DEF RunnerInv

(* The same for a call that writes and forgets nothing. *)
LEMMA QuietStep ==
  ASSUME RunnerInv, NEW s \in Sessions, NEW r, RuntimeOK(r), NEW Gone \in SUBSET Sessions,
         Store(s, r, Gone), Queue(QueueSnapshots(Gone)),
         defaults' \in Config, maxInMemory' \in Nat \ {0}, UNCHANGED <<now, ghosts>>,
         Carried(r) = IF s \in Gone THEN 0 ELSE Carried(rt[s])
  PROVE  RunnerInv'
<1>1. written' = [written EXCEPT ![s] = @ + 0] /\ forgotten' = [forgotten EXCEPT ![s] = @ + 0]
  BY DEF ghosts, RunnerInv, OthersOK
<1>2. /\ pending' \in [Sessions -> PendingEvents]
      /\ \A x \in Sessions : pending'[x].msgs = QueueSnapshots(Gone)[x].msgs
  BY QueuedType DEF Queue, RunnerInv, TableOK, OthersOK
<1>3. Carried(r) \in Nat
  BY StepsNat DEF RuntimeOK
<1>4. Carried(r) + 0 = (IF s \in Gone THEN 0 ELSE Carried(rt[s])) + 0
  BY <1>3
<1> QED BY <1>1, <1>2, <1>4, StoreStep, 0 \in Nat DEF ghosts

-------------------------------------------------------------------------------
(* The actions. *)

LEMMA ArchivedSubset ==
  ASSUME RunnerInv
  PROVE  /\ IdleSessions \in SUBSET Sessions
         /\ \A time : IdleAt(time) \in SUBSET Sessions
         /\ \A Resident \in SUBSET Sessions, s \in Sessions : \A cap :
              \A V \in Victims(Resident, s, cap) : V \in SUBSET Sessions /\ s \notin V
BY DEF RunnerInv, TableOK, IdleSessions, IdleAt, Victims, Evictable

LEMMA InitInv == Init => RunnerInv
<1> SUFFICES ASSUME Init PROVE RunnerInv
  OBVIOUS
<1>1. \A s \in Sessions : rt[s] = Blank /\ RuntimeOK(rt[s])
  BY BlankRuntime DEF Init
<1>2. TableOK
  <2>1. Blank \in SessionRuntime
    BY BlankRuntime DEF RuntimeOK
  <2> QED BY <1>1, <2>1 DEF TableOK, Init
<1>3. OthersOK
  BY RunnerAssumption, DefaultsTyped DEF OthersOK, Init, NoEvents, PendingEvents
<1>4. MessagesConserved
  BY <1>1 DEF MessagesConserved, Init, Blank, NoEvents
<1> QED BY <1>2, <1>3, <1>4 DEF RunnerInv

(* The limit that init sets is as sound as the one it may leave. *)
LEMMA CapTyped ==
  ASSUME RunnerInv, NEW cap \in Caps \cup {maxInMemory}
  PROVE  cap \in Nat \ {0}
BY RunnerAssumption DEF RunnerInv, OthersOK

LEMMA ConfigureInv ==
  ASSUME RunnerInv, NEW s \in Sessions, NEW config \in Config, NEW cap \in Caps \cup {maxInMemory},
         Configure(s, config, cap)
  PROVE  RunnerInv'
<1> DEFINE r == IF s \in live THEN rt[s] ELSE Fresh(config)
<1>1. PICK V \in Victims(live \cup {s}, s, cap) :
        /\ defaults' = config /\ maxInMemory' = cap
        /\ Store(s, r, V)
        /\ Queue(QueueSnapshots(V))
        /\ UNCHANGED <<now, ghosts>>
  BY DEF Configure
<1>2. V \in SUBSET Sessions /\ s \notin V
  BY ArchivedSubset DEF RunnerInv, TableOK
<1>3. RuntimeOK(r) /\ Carried(r) = Carried(rt[s])
  BY BlankRuntime, FreshRuntime DEF RunnerInv, TableOK, OthersOK
<1> HIDE DEF r
<1>4. defaults' \in Config /\ maxInMemory' \in Nat \ {0}
  BY <1>1, CapTyped
<1> QED BY <1>1, <1>2, <1>3, <1>4, QuietStep

(* The actions that archive idle sessions and store none. *)
LEMMA SweepInv ==
  ASSUME RunnerInv, NEW Gone \in SUBSET Sessions,
         live' = live \ Gone, archived' = archived \cup Gone,
         rt' = [x \in Sessions |-> IF x \in Gone THEN Blank ELSE rt[x]],
         pending' \in [Sessions -> PendingEvents],
         \A x \in Sessions : pending'[x].msgs = QueueSnapshots(Gone)[x].msgs,
         UNCHANGED <<settings, now, ghosts>>
  PROVE  RunnerInv'
<1>1. TableOK'
  BY SweptTable DEF RunnerInv
<1>2. OthersOK'
  BY DEF RunnerInv, OthersOK, ghosts, settings
<1>3. ASSUME NEW x \in Sessions
      PROVE  written'[x] = Carried(rt'[x]) + forgotten'[x] + pending'[x].msgs + handed'[x]
  <2>1. pending'[x].msgs = pending[x].msgs + (IF x \in Gone THEN Carried(rt[x]) ELSE 0)
    BY QueuedType DEF RunnerInv, TableOK, OthersOK
  <2>2. Carried(rt'[x]) = IF x \in Gone THEN 0 ELSE Carried(rt[x])
    BY BlankRuntime
  <2>3. written[x] = Carried(rt[x]) + forgotten[x] + pending[x].msgs + handed[x]
    BY DEF RunnerInv, MessagesConserved, Carried
  <2>4. Carried(rt[x]) \in Nat /\ pending[x].msgs \in Nat /\ handed[x] \in Nat /\ forgotten[x] \in Nat
    BY StepsNat DEF RunnerInv, TableOK, OthersOK, PendingEvents
  <2> QED BY <2>1, <2>2, <2>3, <2>4 DEF ghosts
<1> QED BY <1>1, <1>2, <1>3 DEF RunnerInv, MessagesConserved, Carried

LEMMA RequestRestoreInv ==
  ASSUME RunnerInv, NEW s \in Sessions, RequestRestore(s)
  PROVE  RunnerInv'
<1> DEFINE Gone == IdleSessions
           Q == QueueSnapshots(Gone)
           e == Q[s]
           n == e.restores + 1
           q == [e EXCEPT !.restores = n]
<1>1. Gone \in SUBSET Sessions
  BY ArchivedSubset
<1>2. Q \in [Sessions -> PendingEvents]
  BY QueuedType DEF RunnerInv, TableOK, OthersOK
<1>3. /\ live' = live \ Gone /\ archived' = archived \cup Gone
      /\ rt' = [x \in Sessions |-> IF x \in Gone THEN Blank ELSE rt[x]]
      /\ pending' = [Q EXCEPT ![s] = q]
      /\ UNCHANGED <<settings, now, ghosts>>
  BY DEF RequestRestore, Queue
<1>4. e \in PendingEvents /\ n \in Nat
  BY <1>2 DEF PendingEvents
<1> HIDE DEF n, e
<1>5. q \in PendingEvents /\ q.msgs = e.msgs
  BY <1>4 DEF PendingEvents
<1> HIDE DEF q, Q
<1>6. /\ pending' \in [Sessions -> PendingEvents]
      /\ \A x \in Sessions : pending'[x].msgs = Q[x].msgs
  BY <1>2, <1>3, <1>5 DEF e
<1> HIDE DEF Gone
<1> QED BY <1>1, <1>3, <1>6, SweepInv DEF Q

LEMMA SweepIdleInv ==
  ASSUME RunnerInv, NEW time, SweepIdleSessions(time)
  PROVE  RunnerInv'
<1> DEFINE Gone == IdleAt(time)
<1>1. Gone \in SUBSET Sessions
  BY ArchivedSubset
<1>2. QueueSnapshots(Gone) \in [Sessions -> PendingEvents]
  BY QueuedType DEF RunnerInv, TableOK, OthersOK
<1>3. /\ live' = live \ Gone /\ archived' = archived \cup Gone
      /\ rt' = [x \in Sessions |-> IF x \in Gone THEN Blank ELSE rt[x]]
      /\ pending' = QueueSnapshots(Gone)
      /\ UNCHANGED <<settings, now, ghosts>>
  BY DEF SweepIdleSessions, Queue
<1> HIDE DEF Gone
<1> QED BY <1>1, <1>2, <1>3, SweepInv

LEMMA PrepareTurnInv ==
  ASSUME RunnerInv, NEW s \in Sessions, NEW hook, NEW policy \in Policies,
         PrepareTurn(s, hook, policy)
  PROVE  RunnerInv'
<1> DEFINE Gone == IdleSessions
           Resident == (live \ Gone) \cup {s}
           r == Ensured(s, Gone)
           k == Forgets(r, policy)
           p == Prepared(r)
           q == CutShort(p, policy)
<1>1. PICK V \in IF hook = "abort" THEN {{}} ELSE Victims(Resident, s, maxInMemory) :
        /\ Store(s, q, Gone \cup V)
        /\ Queue(QueueSnapshots(Gone \cup V))
  BY DEF PrepareTurn
<1>2. Gone \cup V \in SUBSET Sessions /\ s \notin V
  <2>1. Resident \in SUBSET Sessions /\ Gone \in SUBSET Sessions
    BY ArchivedSubset DEF RunnerInv, TableOK
  <2>2. CASE hook = "abort"
    BY <1>1, <2>1, <2>2
  <2>3. CASE hook # "abort"
    BY <1>1, <2>1, <2>3, ArchivedSubset
  <2> QED BY <2>2, <2>3
<1>3. RuntimeOK(r) /\ Carried(r) = (IF s \in Gone THEN 0 ELSE Carried(rt[s])) /\ Carried(r) \in Nat
  BY EnsuredRuntime, StepsNat DEF RuntimeOK
<1>4. /\ forgotten' = [forgotten EXCEPT ![s] = @ + k]
      /\ UNCHANGED <<settings, now, written, handed>>
  BY DEF PrepareTurn
<1> HIDE DEF Gone, r
<1>5. RuntimeOK(p) /\ SameHistory(r, p)
  BY <1>3, PreparedRuntime
<1>6. k = Forgets(p, policy) /\ Carried(p) = Carried(r)
  BY <1>5 DEF Forgets, SameHistory, Carried
<1> HIDE DEF p
<1>7. RuntimeOK(q) /\ k \in Nat /\ Carried(q) + k = Carried(r)
  BY <1>5, <1>6, CutRuntime, RunnerAssumption
<1> HIDE DEF k, q
<1>8. /\ pending' \in [Sessions -> PendingEvents]
      /\ \A x \in Sessions : pending'[x].msgs = QueueSnapshots(Gone \cup V)[x].msgs
  BY <1>1, QueuedType DEF Queue, RunnerInv, TableOK, OthersOK
<1>9. /\ written' = [written EXCEPT ![s] = @ + 0]
      /\ defaults' \in Config /\ maxInMemory' \in Nat \ {0}
  BY <1>4 DEF RunnerInv, OthersOK, settings
<1>10. Carried(q) + k = (IF s \in Gone \cup V THEN 0 ELSE Carried(rt[s])) + 0
  BY <1>2, <1>3, <1>7
<1> QED BY <1>1, <1>2, <1>4, <1>7, <1>8, <1>9, <1>10, StoreStep, 0 \in Nat

LEMMA AppendLlmChunkInv ==
  ASSUME RunnerInv, NEW s \in Sessions, AppendLlmChunk(s)
  PROVE  RunnerInv'
<1> DEFINE Gone == IdleSessions
           r == Ensured(s, Gone)
           n == r.chunks + 1
           q == [r EXCEPT !.chunks = n]
<1>1. RuntimeOK(r) /\ Carried(r) = (IF s \in Gone THEN 0 ELSE Carried(rt[s]))
  BY EnsuredRuntime
<1>2. Gone \in SUBSET Sessions
  BY ArchivedSubset
<1>3. r.fsm # "UserTurnPrepared" /\ r \in SessionRuntime
  BY <1>1 DEF RuntimeOK
<1>4. /\ Store(s, q, Gone)
      /\ Queue(QueueSnapshots(Gone))
      /\ UNCHANGED <<settings, now, ghosts>>
  BY <1>3 DEF AppendLlmChunk
<1>5. n \in Nat
  BY <1>3 DEF SessionRuntime
<1> HIDE DEF Gone, r, n
<1>6. RuntimeOK(q) /\ Carried(q) = Carried(r)
  BY <1>1, <1>3, <1>5, ChunksRuntime DEF SameHistory, Carried
<1> HIDE DEF q
<1>7. defaults' \in Config /\ maxInMemory' \in Nat \ {0}
  BY <1>4 DEF RunnerInv, OthersOK, settings
<1> QED BY <1>1, <1>2, <1>4, <1>6, <1>7, QuietStep

LEMMA TelemetrySnapshotInv ==
  ASSUME RunnerInv, NEW s \in Sessions, TelemetrySnapshot(s)
  PROVE  RunnerInv'
<1> DEFINE Gone == IdleSessions
           r == Ensured(s, Gone)
<1>1. RuntimeOK(r) /\ Carried(r) = (IF s \in Gone THEN 0 ELSE Carried(rt[s]))
  BY EnsuredRuntime
<1>2. Gone \in SUBSET Sessions /\ defaults \in Config /\ maxInMemory \in Nat \ {0}
  BY ArchivedSubset DEF RunnerInv, OthersOK
<1>3. Store(s, r, Gone) /\ Queue(QueueSnapshots(Gone)) /\ UNCHANGED <<settings, now, ghosts>>
  BY DEF TelemetrySnapshot
<1> HIDE DEF Gone, r
<1> QED BY <1>1, <1>2, <1>3, QuietStep DEF settings

LEMMA ProcessLlmResponseInv ==
  ASSUME RunnerInv, NEW s \in Sessions, NEW reply \in Reply \cup {"of_hook"},
         ProcessLlmResponse(s, reply)
  PROVE  RunnerInv'
<1> DEFINE Gone == IdleSessions
           e == Ensured(s, Gone)
           r == Forced(e, "LlmStreaming")
           q == IF reply = "of_hook" THEN r ELSE Decided(r, reply)
<1>1. RuntimeOK(e) /\ Carried(e) = (IF s \in Gone THEN 0 ELSE Carried(rt[s]))
  BY EnsuredRuntime
<1>2. Gone \in SUBSET Sessions /\ defaults \in Config /\ maxInMemory \in Nat \ {0}
  BY ArchivedSubset DEF RunnerInv, OthersOK
<1>3. Store(s, q, Gone) /\ Queue(QueueSnapshots(Gone)) /\ UNCHANGED <<settings, now, ghosts>>
  BY DEF ProcessLlmResponse
<1> HIDE DEF Gone, e
<1>4. RuntimeOK(r) /\ Carried(r) = Carried(e)
  BY <1>1, ForcedRuntime DEF SameHistory, Carried
<1> HIDE DEF r
<1>5. RuntimeOK(q) /\ Carried(q) = Carried(e)
  BY <1>4, DecidedRuntime DEF SameHistory, Carried
<1> HIDE DEF q
<1> QED BY <1>1, <1>2, <1>3, <1>5, QuietStep DEF settings

(* The runtime that commit_llm_response books, before the stream is        *)
(* cleared.                                                                *)
LEMMA CommittedRuntime ==
  ASSUME NEW r, RuntimeOK(r), NEW reply \in Reply
  PROVE  LET decided == Decided(r, reply)
             fails == ~Accepts(r) \/ reply = "malformed"
             booked == IF fails THEN decided ELSE Booked(decided, reply)
         IN  RuntimeOK(booked) /\ booked.msgs \in {r.msgs, r.msgs + 1} /\ booked.covered = r.covered
<1>1. CASE ~Accepts(r) \/ reply = "malformed"
  BY <1>1, DecidedRuntime DEF SameHistory
<1>2. CASE ~(~Accepts(r) \/ reply = "malformed")
  BY <1>2, BookedRuntime
<1> QED BY <1>1, <1>2

LEMMA CommitLlmResponseInv ==
  ASSUME RunnerInv, NEW s \in Sessions, NEW reply \in Reply, NEW hook,
         CommitLlmResponse(s, reply, hook)
  PROVE  RunnerInv'
<1> DEFINE Gone == IdleSessions
           e == Ensured(s, Gone)
           m == e.msgs + 1
           user == [e EXCEPT !.msgs = m]
           r == Forced(user, "LlmStreaming")
           decided == Decided(r, reply)
           fails == ~Accepts(r) \/ reply = "malformed"
           booked == IF fails THEN decided ELSE Booked(decided, reply)
           stops == fails \/ reply = "call_unknown" \/ hook = "abort"
           builtin == ~stops /\ (hook = "override_builtin" \/ (reply = "call_builtin" /\ hook = "pass"))
           Q == QueueSnapshots(Gone)
           q == IF stops THEN booked ELSE [booked EXCEPT !.chunks = 0]
           n == 1 + (booked.msgs - r.msgs)
<1>1. /\ Store(s, q, Gone)
      /\ Queue(IF builtin THEN [Q EXCEPT ![s].builtins = @ + 1] ELSE Q)
      /\ Write(s, n)
      /\ UNCHANGED <<settings, now>>
  BY DEF CommitLlmResponse
<1>2. /\ RuntimeOK(e) /\ Carried(e) = (IF s \in Gone THEN 0 ELSE Carried(rt[s]))
      /\ e.msgs \in Nat /\ e.covered \in Nat
  BY EnsuredRuntime
<1>3. Gone \in SUBSET Sessions
  BY ArchivedSubset
<1>4. Q \in [Sessions -> PendingEvents]
  BY QueuedType DEF RunnerInv, TableOK, OthersOK
<1> HIDE DEF Gone, e
<1>5. RuntimeOK(user) /\ user.msgs = m /\ user.covered = e.covered /\ m \in Nat
  BY <1>2, MessageRuntime
<1> HIDE DEF user
<1>6. RuntimeOK(r) /\ r.msgs = m /\ r.covered = e.covered
  BY <1>5, ForcedRuntime DEF SameHistory
<1> HIDE DEF r, m
<1>7. RuntimeOK(booked) /\ booked.msgs \in {r.msgs, r.msgs + 1} /\ booked.covered = r.covered
  BY <1>6, CommittedRuntime
<1> HIDE DEF booked, stops
<1>8. RuntimeOK(q) /\ q.msgs = booked.msgs /\ q.covered = booked.covered
  BY <1>7, ChunksRuntime, 0 \in Nat DEF SameHistory
<1> HIDE DEF q, builtin
<1>9. n \in Nat /\ Carried(q) + 0 = (IF s \in Gone THEN 0 ELSE Carried(rt[s])) + n
  <2>1. /\ r.msgs = e.msgs + 1 /\ e.msgs \in Nat /\ e.covered \in Nat
        /\ q.covered = e.covered /\ q.msgs = booked.msgs
    BY <1>2, <1>6, <1>7, <1>8 DEF m
  <2>2. n \in Nat /\ q.msgs = e.msgs + n
    BY <1>7, <2>1
  <2>3. Carried(q) + 0 = Carried(e) + n
    BY <2>1, <2>2 DEF Carried
  <2> QED BY <1>2, <2>2, <2>3
<1> HIDE DEF n
<1>10. /\ pending' \in [Sessions -> PendingEvents]
       /\ \A x \in Sessions : pending'[x].msgs = Q[x].msgs
  <2> DEFINE v == Q[s]
             k == v.builtins + 1
             w == [v EXCEPT !.builtins = k]
  <2>1. v \in PendingEvents /\ k \in Nat
    BY <1>4 DEF PendingEvents
  <2>2. pending' = IF builtin THEN [Q EXCEPT ![s] = w] ELSE Q
    BY <1>1 DEF Queue
  <2> HIDE DEF k, v
  <2>3. w \in PendingEvents /\ w.msgs = v.msgs
    BY <2>1 DEF PendingEvents
  <2> HIDE DEF w, Q
  <2> QED BY <1>4, <2>2, <2>3 DEF v
<1> HIDE DEF Q
<1>11. /\ written' = [written EXCEPT ![s] = @ + n]
       /\ forgotten' = [forgotten EXCEPT ![s] = @ + 0]
       /\ handed' = handed
       /\ defaults' \in Config /\ maxInMemory' \in Nat \ {0} /\ now' = now
  BY <1>1 DEF Write, RunnerInv, OthersOK, settings
<1> QED BY <1>1, <1>3, <1>8, <1>9, <1>10, <1>11, StoreStep, 0 \in Nat DEF Q

LEMMA ProcessToolResultInv ==
  ASSUME RunnerInv, NEW s \in Sessions, NEW hook, ProcessToolResult(s, hook)
  PROVE  RunnerInv'
<1> DEFINE Gone == IdleSessions
           r == Ensured(s, Gone)
           f == Forced(r, "ToolRequested")
           recorded == Recorded(f)
           done == IF CanTransition(recorded.fsm, "ToolResultProcessed")
                   THEN Processed(recorded) ELSE recorded
           q == IF hook = "abort" THEN r ELSE done
           n == IF hook = "abort" THEN 0 ELSE 1
<1>1. /\ Store(s, q, Gone)
      /\ Queue(QueueSnapshots(Gone))
      /\ Write(s, n)
      /\ UNCHANGED <<settings, now>>
  BY DEF ProcessToolResult
<1>2. /\ RuntimeOK(r) /\ Carried(r) = (IF s \in Gone THEN 0 ELSE Carried(rt[s]))
      /\ r.msgs \in Nat /\ r.covered \in Nat
  BY EnsuredRuntime
<1>3. Gone \in SUBSET Sessions
  BY ArchivedSubset
<1> HIDE DEF Gone, r
<1>4. RuntimeOK(f) /\ SameHistory(r, f)
  BY <1>2, ForcedRuntime
<1> HIDE DEF f
<1>5. /\ RuntimeOK(recorded) /\ recorded.msgs = f.msgs + 1 /\ recorded.covered = f.covered
      /\ recorded.fsm = f.fsm
  BY <1>4, RecordedRuntime
<1>6. RuntimeOK(done) /\ done.msgs = f.msgs + 1 /\ done.covered = f.covered
  <2>1. CASE f.fsm = "ToolRequested"
    BY <1>4, <1>5, <2>1, ProcessedRuntime
  <2>2. CASE f.fsm # "ToolRequested"
    BY <1>5, <2>2
  <2> QED BY <2>1, <2>2
<1> HIDE DEF done
<1>7. RuntimeOK(q) /\ q.msgs = r.msgs + n /\ q.covered = r.covered /\ n \in Nat
  BY <1>2, <1>4, <1>6 DEF SameHistory
<1> HIDE DEF q, n
<1>8. Carried(q) + 0 = (IF s \in Gone THEN 0 ELSE Carried(rt[s])) + n
  BY <1>2, <1>7 DEF Carried
<1>9. /\ pending' \in [Sessions -> PendingEvents]
      /\ \A x \in Sessions : pending'[x].msgs = QueueSnapshots(Gone)[x].msgs
  BY <1>1, QueuedType DEF Queue, RunnerInv, TableOK, OthersOK
<1>10. /\ written' = [written EXCEPT ![s] = @ + n]
       /\ forgotten' = [forgotten EXCEPT ![s] = @ + 0]
       /\ handed' = handed
       /\ defaults' \in Config /\ maxInMemory' \in Nat \ {0} /\ now' = now
  BY <1>1 DEF Write, RunnerInv, OthersOK, settings
<1> QED BY <1>1, <1>3, <1>7, <1>8, <1>9, <1>10, StoreStep, 0 \in Nat

LEMMA DrainEventsInv ==
  ASSUME RunnerInv, NEW s \in Sessions, DrainEvents(s)
  PROVE  RunnerInv'
<1>1. NoEvents \in PendingEvents /\ NoEvents.msgs = 0
  BY DEF NoEvents, PendingEvents
<1>2. \A x \in Sessions :
        /\ Carried(rt[x]) \in Nat /\ pending[x].msgs \in Nat /\ handed[x] \in Nat
        /\ written[x] \in Nat /\ forgotten[x] \in Nat
  BY StepsNat DEF RunnerInv, TableOK, OthersOK, PendingEvents
<1>3. TableOK'
  BY DEF DrainEvents, RunnerInv, TableOK, RuntimeOK, Committed, Counted, Rounds, Armed
<1>4. OthersOK'
  BY <1>1, <1>2 DEF DrainEvents, RunnerInv, OthersOK, settings
<1>5. MessagesConserved'
  <2> SUFFICES ASSUME NEW x \in Sessions
               PROVE  written'[x] = Carried(rt'[x]) + forgotten'[x] + pending'[x].msgs + handed'[x]
    BY DEF MessagesConserved, Carried
  <2>1. written[x] = Carried(rt[x]) + forgotten[x] + pending[x].msgs + handed[x]
    BY DEF RunnerInv, MessagesConserved, Carried
  <2>2. UNCHANGED <<rt, written, forgotten>>
    BY DEF DrainEvents
  <2>3. /\ pending'[x].msgs = IF x = s THEN 0 ELSE pending[x].msgs
        /\ handed'[x] = IF x = s THEN handed[x] + pending[x].msgs ELSE handed[x]
    BY <1>1 DEF DrainEvents, RunnerInv, OthersOK
  <2> QED BY <1>2, <2>1, <2>2, <2>3
<1> QED BY <1>3, <1>4, <1>5 DEF RunnerInv

LEMMA ResetSessionInv ==
  ASSUME RunnerInv, NEW s \in Sessions, ResetSession(s)
  PROVE  RunnerInv'
<1>1. NoEvents \in PendingEvents /\ NoEvents.msgs = 0 /\ Blank.msgs = 0 /\ Blank.covered = 0
  BY DEF NoEvents, PendingEvents, Blank
<1>2. \A x \in Sessions : rt'[x] = IF x = s THEN Blank ELSE rt[x]
  BY DEF ResetSession, RunnerInv, TableOK
<1>3. \A x \in Sessions : RuntimeOK(rt'[x])
  BY <1>2, BlankRuntime DEF RunnerInv, TableOK
<1>4. rt' \in [Sessions -> SessionRuntime]
  <2>1. Blank \in SessionRuntime
    BY BlankRuntime DEF RuntimeOK
  <2> QED BY <2>1 DEF ResetSession, RunnerInv, TableOK
<1>5. TableOK'
  <2>1. \A x \in Sessions \ live' : rt'[x] = Blank
    BY <1>2 DEF ResetSession, RunnerInv, TableOK
  <2>2. live' \subseteq Sessions /\ archived' \subseteq Sessions
    BY DEF ResetSession, RunnerInv, TableOK
  <2> QED BY <1>3, <1>4, <2>1, <2>2 DEF TableOK, RuntimeOK, Committed, Counted, Rounds, Armed
<1>6. OthersOK'
  BY <1>1 DEF ResetSession, RunnerInv, OthersOK, settings
<1>7. MessagesConserved'
  <2> SUFFICES ASSUME NEW x \in Sessions
               PROVE  written'[x] = rt'[x].msgs + rt'[x].covered + forgotten'[x] + pending'[x].msgs + handed'[x]
    BY DEF MessagesConserved
  <2>1. CASE x = s
    BY <1>1, <1>2, <2>1 DEF ResetSession, RunnerInv, OthersOK
  <2>2. CASE x # s
    BY <1>2, <2>2 DEF ResetSession, RunnerInv, OthersOK, MessagesConserved
  <2> QED BY <2>1, <2>2
<1> QED BY <1>5, <1>6, <1>7 DEF RunnerInv

LEMMA IdleStepInv ==
  ASSUME RunnerInv, Tick \/ UNCHANGED vars
  PROVE  RunnerInv'
<1>1. UNCHANGED <<live, rt, archived, pending, defaults, maxInMemory, ghosts>> /\ now' \in Nat
  BY RunnerAssumption DEF Tick, vars, ghosts, settings, RunnerInv, OthersOK
<1>2. TableOK'
  BY <1>1 DEF RunnerInv, TableOK, RuntimeOK, Committed, Counted, Rounds, Armed
<1>3. OthersOK' /\ MessagesConserved'
  BY <1>1 DEF RunnerInv, OthersOK, MessagesConserved, ghosts
<1> QED BY <1>2, <1>3 DEF RunnerInv

-------------------------------------------------------------------------------
(* The theorems. *)

LEMMA NextInv == RunnerInv /\ [Next]_vars => RunnerInv'
<1> SUFFICES ASSUME RunnerInv, [Next]_vars PROVE RunnerInv'
  OBVIOUS
<1>1. ASSUME NEW s \in Sessions, InitRunner(s)
      PROVE  RunnerInv'
  BY <1>1, ConfigureInv DEF InitRunner
<1>2. ASSUME NEW s \in Sessions, NEW hook, PrepareUserTurn(s, hook)
      PROVE  RunnerInv'
  BY <1>2, PrepareTurnInv, RequestRestoreInv DEF PrepareUserTurn
<1>3. ASSUME NEW s \in Sessions, NEW hook, ProcessToolResult(s, hook)
      PROVE  RunnerInv'
  BY <1>3, ProcessToolResultInv
<1>4. ASSUME NEW s \in Sessions, NEW reply \in Reply, NEW hook,
             CommitLlmResponse(s, reply, hook) \/ CommitLlmStream(s, reply, hook)
      PROVE  RunnerInv'
  BY <1>4, CommitLlmResponseInv DEF CommitLlmStream
<1>5. ASSUME NEW s \in Sessions, NEW reply \in Reply \cup {"of_hook"}, ProcessLlmResponse(s, reply)
      PROVE  RunnerInv'
  BY <1>5, ProcessLlmResponseInv
<1>6. ASSUME NEW s \in Sessions, AppendLlmChunk(s) \/ TelemetrySnapshot(s)
      PROVE  RunnerInv'
  BY <1>6, AppendLlmChunkInv, TelemetrySnapshotInv
<1>7. ASSUME NEW s \in Sessions, DrainEvents(s) \/ ResetSession(s)
      PROVE  RunnerInv'
  BY <1>7, DrainEventsInv, ResetSessionInv
<1>8. ASSUME NEW time, SweepIdleSessions(time)
      PROVE  RunnerInv'
  BY <1>8, SweepIdleInv
<1>9. CASE Tick \/ UNCHANGED vars
  BY <1>9, IdleStepInv
<1> QED BY <1>1, <1>2, <1>3, <1>4, <1>5, <1>6, <1>7, <1>8, <1>9 DEF Next

(* The inductive invariant holds throughout. *)
THEOREM Soundness == Spec => []RunnerInv
<1>1. Init => RunnerInv
  BY InitInv
<1>2. RunnerInv /\ [Next]_vars => RunnerInv'
  BY NextInv
<1> QED BY <1>1, <1>2, PTL DEF Spec

(* Every variable of the runtime keeps its type; in particular a session   *)
(* that is not in memory leaves nothing behind there.                      *)
THEOREM TypeCorrect == Spec => []TypeOK
<1>1. RunnerInv => TypeOK
  BY DEF RunnerInv, TableOK, OthersOK, TypeOK
<1> QED BY <1>1, Soundness, PTL

(* No second reply is ever booked for the same prepared turn or tool       *)
(* result, whatever the host repeats and whatever is archived meanwhile.   *)
THEOREM CommittedOnce == Spec => []EachTurnCommittedOnce
<1>1. RunnerInv => EachTurnCommittedOnce
  BY DEF RunnerInv, TableOK, RuntimeOK, Committed, EachTurnCommittedOnce
<1> QED BY <1>1, Soundness, PTL

(* The counters that get_slo_snapshot divides agree, so none of its rates  *)
(* exceeds one.                                                            *)
THEOREM CountersConsistent == Spec => []CountersAgree
<1>1. RunnerInv => CountersAgree
  BY DEF RunnerInv, TableOK, RuntimeOK, Counted, CountersAgree
<1> QED BY <1>1, Soundness, PTL

(* The max_steps a session was created with bounds its tool rounds while   *)
(* it is in memory, whatever init makes of later sessions.                 *)
THEOREM StepLimit == Spec => []ToolRoundsWithinLimit
<1>1. RunnerInv => ToolRoundsWithinLimit
  BY DEF RunnerInv, TableOK, RuntimeOK, Rounds, ToolRoundsWithinLimit
<1> QED BY <1>1, Soundness, PTL

(* Archival, eviction, failed commits and re-creation lose no message: the *)
(* messages that are nowhere are those a cut of the history forgot, for    *)
(* any context policies.                                                   *)
THEOREM NoMessageLost == Spec => []MessagesConserved
<1>1. RunnerInv => MessagesConserved
  BY DEF RunnerInv
<1> QED BY <1>1, Soundness, PTL
-------------------------------------------------------------------------------
(* Who is archived, and whose stream survives.  The argument is about one  *)
(* call: whom it may archive (Archives) and how the runtime it stores      *)
(* relates to the one it found (Alike, Onward).                            *)

(* Gone does not stream, and no session that does not stream either was    *)
(* left behind though it was touched longer ago -- but for the session s   *)
(* of the call, and those whose own timeout was not over at that time.     *)
Archives(s, Gone, time) ==
  /\ Gone \subseteq {x \in live : rt[x].chunks = 0}
  /\ \A x \in Gone, t \in live \ (Gone \cup {s}) :
       rt[t].chunks = 0 => rt[t].touched >= rt[x].touched \/ Outlives(t, x, time)

Alike(r, q) ==
  /\ q.touched = r.touched /\ q.chunks = r.chunks
  /\ q.counters["commits"] = r.counters["commits"]
Onward(r, q) ==
  q.chunks >= r.chunks \/ q.counters["commits"] > r.counters["commits"]

(* No session was touched in the future. *)
TouchedByNow == \A s \in Sessions : rt[s].touched <= now
OrderInv == RunnerInv /\ TouchedByNow

(* What one step does to the session table: a call for s, a call that only *)
(* archives, a reset, or nothing.                                          *)
CallFor(s) ==
  /\ now' = now
  /\ \E r \in SessionRuntime, Gone \in SUBSET Sessions :
       /\ Store(s, r, Gone) /\ Archives(s, Gone, now)
       /\ s \notin Gone => Onward(rt[s], r)
       /\ \/ r.touched = now
          \/ r = rt[s] /\ s \in live /\ InitRunner(s)
OnlyArchives ==
  /\ now' = now
  /\ \E Gone \in SUBSET Sessions : \E s, time :
       /\ time = now \/ (time \in HostTimes /\ SweepIdleSessions(time))
       /\ Archives(s, Gone, time) /\ s \notin live \ Gone
       /\ live' = live \ Gone /\ archived' = archived \cup Gone
       /\ rt' = [x \in Sessions |-> IF x \in Gone THEN Blank ELSE rt[x]]
TableStep ==
  \/ \E s \in Sessions : CallFor(s) \/ ResetSession(s)
  \/ OnlyArchives
  \/ UNCHANGED <<live, rt, archived>> /\ now' \in Nat /\ now' >= now

LEMMA AlikeRuntimes ==
  ASSUME NEW r, RuntimeOK(r)
  PROVE  /\ \A f : Alike(r, Forced(r, f))
         /\ \A reply \in Reply : Alike(r, Decided(r, reply))
         /\ \A n : Alike(r, [r EXCEPT !.msgs = n])
         /\ Alike(r, Recorded(r)) /\ Alike(r, Processed(r))
         /\ Alike(r, Prepared(r))
         /\ \A policy : Alike(r, CutShort(r, policy))
<1>1. r \in SessionRuntime /\ r.counters \in [Counter -> Nat]
  BY DEF RuntimeOK, SessionRuntime
<1>2. \A f : Alike(r, Forced(r, f))
  BY <1>1 DEF SessionRuntime, Alike, Forced
<1>3. ASSUME NEW reply \in Reply PROVE Alike(r, Decided(r, reply))
  <2>1. CASE ~Accepts(r)
    BY <2>1 DEF Decided, Alike
  <2>2. CASE Accepts(r) /\ reply = "malformed"
    BY <1>1, <2>2 DEF SessionRuntime, Alike, Decided
  <2>3. CASE Accepts(r) /\ reply = "final"
    BY <1>1, <2>3 DEF SessionRuntime, Alike, Decided
  <2>4. CASE Accepts(r) /\ reply = "retry"
    BY <1>1, <2>4 DEF SessionRuntime, Alike, Decided
  <2>5. CASE Accepts(r) /\ reply \in Call
    BY <1>1, <2>5 DEF SessionRuntime, Alike, Decided, Call
  <2> QED BY <2>1, <2>2, <2>3, <2>4, <2>5 DEF Reply
<1>4. \A n : Alike(r, [r EXCEPT !.msgs = n])
  BY <1>1 DEF SessionRuntime, Alike
<1>5. Alike(r, Recorded(r))
  BY <1>1 DEF SessionRuntime, Alike, Recorded
<1>6. \A K : "commits" \notin K => Bump(r.counters, K)["commits"] = r.counters["commits"]
  BY <1>1 DEF Bump, Counter
<1>7. Alike(r, Processed(r))
  <2> DEFINE b == Bump(r.counters, {"results"})
             f == TransitionTo(r.fsm, "ToolResultProcessed")
  <2>1. b["commits"] = r.counters["commits"]
    BY <1>6
  <2>2. Processed(r) = [r EXCEPT !.fsm = f, !.counters = b]
    BY DEF Processed
  <2> HIDE DEF b, f
  <2> QED BY <1>1, <2>1, <2>2 DEF SessionRuntime, Alike
<1>8. Alike(r, Prepared(r))
  <2> DEFINE b == Bump(r.counters, {"prepared"})
             f == TransitionTo(TransitionTo("Idle", "UserTurnPrepared"), "LlmStreaming")
  <2>1. b["commits"] = r.counters["commits"]
    BY <1>6
  <2>2. Prepared(r) = [r EXCEPT !.fsm = f, !.counters = b]
    BY DEF Prepared
  <2> HIDE DEF b, f
  <2> QED BY <1>1, <2>1, <2>2 DEF SessionRuntime, Alike
<1>9. ASSUME NEW policy PROVE Alike(r, CutShort(r, policy))
  <2> DEFINE k == Kept(r.msgs, policy)
             t == Told(r.msgs, policy)
  <2>1. CutShort(r, policy) \in {r, [r EXCEPT !.msgs = k, !.covered = t]}
    BY DEF CutShort
  <2> HIDE DEF k, t
  <2> QED BY <1>1, <2>1 DEF SessionRuntime, Alike
<1> QED BY <1>2, <1>3, <1>4, <1>5, <1>7, <1>8, <1>9

(* A booked reply counts as a commit. *)
LEMMA BookedAhead ==
  ASSUME NEW r, RuntimeOK(r), NEW reply \in Reply, reply # "malformed"
  PROVE  /\ Booked(r, reply).touched = r.touched
         /\ Booked(r, reply).chunks = r.chunks
         /\ Booked(r, reply).counters["commits"] > r.counters["commits"]
<1>1. r \in SessionRuntime /\ r.counters \in [Counter -> Nat]
  BY DEF RuntimeOK, SessionRuntime
<1>2. \A K : "commits" \in K => Bump(r.counters, K)["commits"] > r.counters["commits"]
  BY <1>1 DEF Bump, Counter
<1> DEFINE m == r.msgs + 1
           Out(K) == {[r EXCEPT !.counters = Bump(r.counters, K), !.msgs = m],
                      [r EXCEPT !.counters = Bump(r.counters, K)]}
<1>3. ASSUME NEW K, "commits" \in K, NEW q \in Out(K)
      PROVE  q.touched = r.touched /\ q.chunks = r.chunks
             /\ q.counters["commits"] > r.counters["commits"]
  <2> DEFINE b == Bump(r.counters, K)
  <2>1. b["commits"] > r.counters["commits"]
    BY <1>2, <1>3
  <2>2. q \in {[r EXCEPT !.counters = b, !.msgs = m], [r EXCEPT !.counters = b]}
    BY <1>3
  <2> HIDE DEF b, m
  <2> QED BY <1>1, <2>1, <2>2 DEF SessionRuntime
<1>4. \E K : "commits" \in K /\ Booked(r, reply) \in Out(K)
  <2>1. CASE reply = "final"
    <3> WITNESS {"commits", "finals"}
    <3> QED BY <1>1, <2>1 DEF Booked, SessionRuntime
  <2>2. CASE reply = "retry"
    <3> WITNESS {"commits", "retries"}
    <3> QED BY <1>1, <2>2 DEF Booked, SessionRuntime
  <2>3. CASE reply = "call_unknown"
    <3> WITNESS {"commits"}
    <3> QED BY <1>1, <2>3 DEF Booked, SessionRuntime
  <2>4. CASE reply \in {"call_host", "call_builtin"}
    <3> WITNESS {"commits", "requests"}
    <3> QED BY <1>1, <2>4 DEF Booked, SessionRuntime
  <2> QED BY <2>1, <2>2, <2>3, <2>4 DEF Reply, Call
<1> HIDE DEF m, Out
<1> QED BY <1>3, <1>4

(* Whom the idle sweep may archive, and whom the eviction after it. *)
LEMMA IdleArchives ==
  ASSUME RunnerInv, NEW time \in Nat, NEW s
  PROVE  Archives(s, IdleAt(time), time) /\ IdleAt(time) \in SUBSET Sessions
<1>1. IdleAt(time) \subseteq {x \in live : rt[x].chunks = 0} /\ live \subseteq Sessions
  BY DEF IdleAt, RunnerInv, TableOK
<1> QED BY <1>1 DEF Archives, Outlives

LEMMA EvictionArchives ==
  ASSUME RunnerInv, NEW s \in Sessions, NEW Gone, NEW time, Archives(s, Gone, time), NEW cap,
         NEW V \in Victims((live \ Gone) \cup {s}, s, cap)
  PROVE  Archives(s, Gone \cup V, time) /\ Gone \cup V \in SUBSET Sessions
<1> DEFINE E == Evictable((live \ Gone) \cup {s}, s)
<1>1. /\ V \subseteq E
      /\ \A v \in V, x \in E \ V : rt[v].touched <= rt[x].touched
  BY DEF Victims
<1>2. E = {x \in (live \ Gone) \ {s} : rt[x].chunks = 0}
  BY DEF Evictable
<1>3. live \subseteq Sessions /\ \A x \in live : rt[x].touched \in Nat
  BY DEF RunnerInv, TableOK, SessionRuntime
<1> HIDE DEF E
<1>4. Gone \cup V \subseteq {x \in live : rt[x].chunks = 0}
  BY <1>1, <1>2 DEF Archives
<1>5. ASSUME NEW x \in Gone \cup V, NEW t \in live \ ((Gone \cup V) \cup {s}), rt[t].chunks = 0
      PROVE  rt[t].touched >= rt[x].touched \/ Outlives(t, x, time)
  <2>1. CASE x \in Gone
    BY <1>5, <2>1 DEF Archives
  <2>2. CASE x \in V
    <3>1. t \in E \ V
      BY <1>2, <1>5
    <3>2. rt[x].touched <= rt[t].touched /\ rt[x].touched \in Nat /\ rt[t].touched \in Nat
      BY <1>1, <1>3, <1>4, <1>5, <2>2, <3>1
    <3> QED BY <3>2
  <2> QED BY <2>1, <2>2
<1> QED BY <1>3, <1>4, <1>5 DEF Archives

(* The runtime a call finds, stamped with the present. *)
LEMMA EnsuredAhead ==
  ASSUME RunnerInv, NEW s \in Sessions, NEW Gone
  PROVE  /\ Ensured(s, Gone).touched = now
         /\ s \notin Gone => /\ Ensured(s, Gone).chunks = rt[s].chunks
                             /\ Ensured(s, Gone).counters = rt[s].counters
<1>1. /\ Blank \in SessionRuntime /\ rt[s] \in SessionRuntime
      /\ s \notin live => rt[s] = Blank
  BY BlankRuntime DEF RuntimeOK, RunnerInv, TableOK
<1>2. Touch(rt[s]).touched = now /\ Touch(rt[s]).chunks = rt[s].chunks /\ Touch(rt[s]).counters = rt[s].counters
  BY <1>1 DEF Touch, SessionRuntime
<1>3. LET f == Fresh(defaults)
      IN  f.touched = now /\ f.chunks = Blank.chunks /\ f.counters = Blank.counters
  BY <1>1 DEF Fresh, SessionRuntime
<1> QED BY <1>1, <1>2, <1>3 DEF Ensured

(* The shape common to the calls: the idle are archived, perhaps others    *)
(* with them, and the runtime found is stored with what the call did.      *)
LEMMA CallStores ==
  ASSUME RunnerInv, NEW s \in Sessions, NEW Gone, NEW More, NEW q,
         RuntimeOK(q), q.touched = now, now' = now,
         Archives(s, Gone \cup More, now), Gone \cup More \in SUBSET Sessions,
         Store(s, q, Gone \cup More),
         \/ q.chunks >= Ensured(s, Gone).chunks
         \/ q.counters["commits"] > Ensured(s, Gone).counters["commits"]
  PROVE  CallFor(s)
<1> DEFINE A == Gone \cup More
<1>1. q \in SessionRuntime
  BY DEF RuntimeOK
<1>2. s \notin A => Onward(rt[s], q)
  BY EnsuredAhead DEF Onward
<1>3. /\ Store(s, q, A) /\ Archives(s, A, now) /\ A \in SUBSET Sessions
  OBVIOUS
<1> HIDE DEF A
<1> QED BY <1>1, <1>2, <1>3 DEF CallFor

LEMMA ConfigureTable ==
  ASSUME OrderInv, NEW s \in Sessions, NEW config \in Config, NEW cap \in Caps \cup {maxInMemory},
         Configure(s, config, cap)
  PROVE  CallFor(s)
<1> DEFINE q == IF s \in live THEN rt[s] ELSE Fresh(config)
<1>0. RunnerInv /\ now \in Nat /\ rt[s] \in SessionRuntime /\ RuntimeOK(rt[s])
  BY DEF OrderInv, RunnerInv, TableOK, OthersOK
<1>1. PICK V \in Victims(live \cup {s}, s, cap) : Store(s, q, V) /\ now' = now
  BY DEF Configure
<1>2. Archives(s, {}, now) /\ (live \ {}) \cup {s} = live \cup {s} /\ {} \cup V = V
  BY DEF Archives
<1>3. Archives(s, V, now) /\ V \in SUBSET Sessions
  <2>1. V \in Victims((live \ {}) \cup {s}, s, cap)
    BY <1>2
  <2>2. Archives(s, {} \cup V, now) /\ {} \cup V \in SUBSET Sessions
    BY <1>0, <1>2, <2>1, EvictionArchives, Zenon
  <2> QED BY <1>2, <2>2
<1>4. q \in SessionRuntime
  BY <1>0, FreshRuntime DEF RuntimeOK
<1>5. s \notin live => /\ Fresh(config).touched = now /\ Fresh(config).chunks = 0
                       /\ rt[s].chunks = 0
  BY <1>0, FreshRuntime DEF RunnerInv, TableOK, Blank
<1>6. Onward(rt[s], q)
  <2>1. rt[s].chunks \in Nat
    BY <1>0 DEF SessionRuntime
  <2> QED BY <1>5, <2>1 DEF Onward
<1>7. \/ q.touched = now
      \/ q = rt[s] /\ s \in live /\ InitRunner(s)
  BY <1>5 DEF InitRunner
<1> HIDE DEF q
<1> QED BY <1>1, <1>3, <1>4, <1>6, <1>7 DEF CallFor

LEMMA RequestRestoreTable ==
  ASSUME RunnerInv, NEW s \in Sessions, RequestRestore(s)
  PROVE  OnlyArchives
<1>1. now \in Nat
  BY DEF RunnerInv, OthersOK
<1>2. Archives(s, IdleSessions, now) /\ IdleSessions \in SUBSET Sessions
  BY <1>1, IdleArchives DEF IdleSessions
<1> QED BY <1>2 DEF RequestRestore, OnlyArchives

LEMMA SweepTable ==
  ASSUME RunnerInv, NEW time \in HostTimes \cup {now}, SweepIdleSessions(time)
  PROVE  OnlyArchives
<1>1. time \in Nat
  BY RunnerAssumption DEF RunnerInv, OthersOK
<1>2. \A s : Archives(s, IdleAt(time), time) /\ IdleAt(time) \in SUBSET Sessions
  BY <1>1, IdleArchives
<1>3. PICK s : s \notin Sessions
  BY NoSetContainsEverything
<1>4. s \notin live
  BY <1>3 DEF RunnerInv, TableOK
<1> QED BY <1>2, <1>4 DEF SweepIdleSessions, OnlyArchives

(* Sessions past their timeout go with no one else. *)
LEMMA SweptFirst ==
  ASSUME RunnerInv, NEW s \in Sessions
  PROVE  /\ RuntimeOK(Ensured(s, IdleSessions))
         /\ Ensured(s, IdleSessions).touched = now
         /\ Archives(s, IdleSessions, now) /\ IdleSessions \in SUBSET Sessions
<1>1. now \in Nat
  BY DEF RunnerInv, OthersOK
<1> QED BY <1>1, IdleArchives, EnsuredRuntime, EnsuredAhead DEF IdleSessions

LEMMA PrepareTurnTable ==
  ASSUME RunnerInv, NEW s \in Sessions, NEW hook, NEW policy \in Policies,
         PrepareTurn(s, hook, policy)
  PROVE  CallFor(s)
<1> DEFINE Gone == IdleSessions
           r == Ensured(s, Gone)
           p == Prepared(r)
           q == CutShort(p, policy)
<1>1. PICK V \in IF hook = "abort" THEN {{}} ELSE Victims((live \ Gone) \cup {s}, s, maxInMemory) :
        Store(s, q, Gone \cup V)
  BY DEF PrepareTurn
<1>2. now' = now
  BY DEF PrepareTurn
<1>3. /\ RuntimeOK(r) /\ r.touched = now
      /\ Archives(s, Gone, now) /\ Gone \in SUBSET Sessions
  BY SweptFirst
<1>5. Archives(s, Gone \cup V, now) /\ Gone \cup V \in SUBSET Sessions
  <2>1. CASE hook = "abort"
    <3>1. Gone \cup V = Gone
      BY <1>1, <2>1
    <3> QED BY <1>3, <3>1
  <2>2. CASE hook # "abort"
    <3>1. V \in Victims((live \ Gone) \cup {s}, s, maxInMemory)
      BY <1>1, <2>2
    <3> HIDE DEF Gone
    <3> QED BY <1>3, <3>1, EvictionArchives
  <2> QED BY <2>1, <2>2
<1> HIDE DEF Gone, r
<1>6. RuntimeOK(p) /\ Alike(r, p)
  BY <1>3, PreparedRuntime, AlikeRuntimes
<1> HIDE DEF p
<1>7. RuntimeOK(q) /\ Alike(p, q)
  BY <1>6, CutRuntime, AlikeRuntimes, RunnerAssumption
<1> HIDE DEF q
<1>8. q.touched = now /\ q.chunks >= r.chunks
  BY <1>3, <1>6, <1>7 DEF Alike, RuntimeOK, SessionRuntime
<1> QED BY <1>1, <1>2, <1>5, <1>7, <1>8, CallStores DEF r

(* The calls that archive the idle and nobody else. *)
LEMMA QuietCall ==
  ASSUME RunnerInv, NEW s \in Sessions, NEW q, RuntimeOK(q), q.touched = now, now' = now,
         Store(s, q, IdleSessions),
         \/ q.chunks >= Ensured(s, IdleSessions).chunks
         \/ q.counters["commits"] > Ensured(s, IdleSessions).counters["commits"]
  PROVE  CallFor(s)
<1>1. /\ Archives(s, IdleSessions, now) /\ IdleSessions \in SUBSET Sessions
      /\ IdleSessions \cup {} = IdleSessions
  BY SweptFirst
<1> QED BY <1>1, CallStores

LEMMA AppendLlmChunkTable ==
  ASSUME RunnerInv, NEW s \in Sessions, AppendLlmChunk(s)
  PROVE  CallFor(s)
<1> DEFINE r == Ensured(s, IdleSessions)
           n == r.chunks + 1
           q == [r EXCEPT !.chunks = n]
<1>1. RuntimeOK(r) /\ r.touched = now
  BY SweptFirst
<1>2. r.fsm # "UserTurnPrepared" /\ r \in SessionRuntime
  BY <1>1 DEF RuntimeOK
<1>3. Store(s, q, IdleSessions) /\ now' = now
  BY <1>2 DEF AppendLlmChunk
<1>4. n \in Nat /\ r.chunks \in Nat /\ n >= r.chunks
  BY <1>2 DEF SessionRuntime
<1> HIDE DEF r, n
<1>5. RuntimeOK(q) /\ q.touched = r.touched /\ q.chunks = n
  BY <1>1, <1>2, <1>4, ChunksRuntime DEF SessionRuntime
<1> HIDE DEF q
<1> QED BY <1>1, <1>3, <1>4, <1>5, QuietCall DEF r

LEMMA TelemetrySnapshotTable ==
  ASSUME RunnerInv, NEW s \in Sessions, TelemetrySnapshot(s)
  PROVE  CallFor(s)
<1> DEFINE r == Ensured(s, IdleSessions)
<1>1. RuntimeOK(r) /\ r.touched = now /\ r.chunks \in Nat
  BY SweptFirst DEF RuntimeOK, SessionRuntime
<1>2. Store(s, r, IdleSessions) /\ now' = now /\ r.chunks >= r.chunks
  BY <1>1 DEF TelemetrySnapshot
<1> QED BY <1>1, <1>2, QuietCall

LEMMA ProcessLlmResponseTable ==
  ASSUME RunnerInv, NEW s \in Sessions, NEW reply \in Reply \cup {"of_hook"},
         ProcessLlmResponse(s, reply)
  PROVE  CallFor(s)
<1> DEFINE e == Ensured(s, IdleSessions)
           r == Forced(e, "LlmStreaming")
           q == IF reply = "of_hook" THEN r ELSE Decided(r, reply)
<1>1. RuntimeOK(e) /\ e.touched = now /\ e.chunks \in Nat
  BY SweptFirst DEF RuntimeOK, SessionRuntime
<1>2. Store(s, q, IdleSessions) /\ now' = now
  BY DEF ProcessLlmResponse
<1> HIDE DEF e
<1>3. RuntimeOK(r) /\ Alike(e, r)
  BY <1>1, ForcedRuntime, AlikeRuntimes
<1> HIDE DEF r
<1>4. RuntimeOK(q) /\ Alike(r, q)
  BY <1>3, DecidedRuntime, AlikeRuntimes DEF Alike
<1>5. q.touched = now /\ q.chunks >= e.chunks
  BY <1>1, <1>3, <1>4 DEF Alike
<1> HIDE DEF q
<1> QED BY <1>2, <1>4, <1>5, QuietCall DEF e

LEMMA CommitLlmResponseTable ==
  ASSUME RunnerInv, NEW s \in Sessions, NEW reply \in Reply, NEW hook,
         CommitLlmResponse(s, reply, hook)
  PROVE  CallFor(s)
<1> DEFINE e == Ensured(s, IdleSessions)
           m == e.msgs + 1
           user == [e EXCEPT !.msgs = m]
           r == Forced(user, "LlmStreaming")
           decided == Decided(r, reply)
           fails == ~Accepts(r) \/ reply = "malformed"
           booked == IF fails THEN decided ELSE Booked(decided, reply)
           stops == fails \/ reply = "call_unknown" \/ hook = "abort"
           q == IF stops THEN booked ELSE [booked EXCEPT !.chunks = 0]
<1>1. Store(s, q, IdleSessions) /\ now' = now
  BY DEF CommitLlmResponse
<1>2. RuntimeOK(e) /\ e.touched = now /\ e.chunks \in Nat /\ m \in Nat
  BY SweptFirst DEF RuntimeOK, SessionRuntime
<1> HIDE DEF e, m
<1>3. RuntimeOK(user) /\ Alike(e, user)
  BY <1>2, MessageRuntime, AlikeRuntimes
<1> HIDE DEF user
<1>4. RuntimeOK(r) /\ Alike(user, r)
  BY <1>3, ForcedRuntime, AlikeRuntimes
<1> HIDE DEF r
<1>5. RuntimeOK(decided) /\ Alike(r, decided)
  BY <1>4, DecidedRuntime, AlikeRuntimes
<1>6. RuntimeOK(booked)
  BY <1>4, CommittedRuntime
<1> HIDE DEF decided
<1>7. CASE fails
  <2>1. q = decided
    BY <1>7
  <2> HIDE DEF q, fails, booked
  <2>2. q.touched = now /\ q.chunks >= e.chunks
    BY <1>2, <1>3, <1>4, <1>5, <2>1 DEF Alike
  <2> QED BY <1>1, <1>5, <2>1, <2>2, QuietCall DEF e
<1>8. CASE ~fails
  <2>1. reply # "malformed" /\ booked = Booked(decided, reply)
    BY <1>8
  <2> HIDE DEF booked, fails
  <2>2. /\ booked.touched = decided.touched
        /\ booked.counters["commits"] > decided.counters["commits"]
    BY <1>5, <2>1, BookedAhead
  <2>3. RuntimeOK(q) /\ q.touched = booked.touched /\ q.counters = booked.counters
    <3>1. booked \in SessionRuntime
      BY <1>6 DEF RuntimeOK
    <3> HIDE DEF stops
    <3> QED BY <1>6, <3>1, ChunksRuntime DEF SessionRuntime
  <2> HIDE DEF q
  <2>4. q.touched = now /\ q.counters["commits"] > e.counters["commits"]
    BY <1>2, <1>3, <1>4, <1>5, <2>2, <2>3 DEF Alike
  <2> QED BY <1>1, <2>3, <2>4, QuietCall DEF e
<1> QED BY <1>7, <1>8

LEMMA ProcessToolResultTable ==
  ASSUME RunnerInv, NEW s \in Sessions, NEW hook, ProcessToolResult(s, hook)
  PROVE  CallFor(s)
<1> DEFINE r == Ensured(s, IdleSessions)
           f == Forced(r, "ToolRequested")
           recorded == Recorded(f)
           done == IF CanTransition(recorded.fsm, "ToolResultProcessed")
                   THEN Processed(recorded) ELSE recorded
           q == IF hook = "abort" THEN r ELSE done
<1>1. Store(s, q, IdleSessions) /\ now' = now
  BY DEF ProcessToolResult
<1>2. RuntimeOK(r) /\ r.touched = now /\ r.chunks \in Nat
  BY SweptFirst DEF RuntimeOK, SessionRuntime
<1> HIDE DEF r
<1>3. RuntimeOK(f) /\ Alike(r, f)
  BY <1>2, ForcedRuntime, AlikeRuntimes
<1> HIDE DEF f
<1>4. RuntimeOK(recorded) /\ recorded.fsm = f.fsm /\ Alike(f, recorded)
  BY <1>3, RecordedRuntime, AlikeRuntimes
<1>5. RuntimeOK(done) /\ Alike(recorded, done)
  <2>1. CASE f.fsm = "ToolRequested"
    <3>1. done = Processed(recorded)
      BY <1>4, <2>1
    <3> QED BY <1>3, <1>4, <2>1, <3>1, ProcessedRuntime, AlikeRuntimes
  <2>2. CASE f.fsm # "ToolRequested"
    <3>1. done = recorded
      BY <1>4, <2>2
    <3> QED BY <1>4, <3>1 DEF Alike
  <2> QED BY <2>1, <2>2
<1> HIDE DEF recorded, done
<1>6. RuntimeOK(q) /\ q.touched = now /\ q.chunks >= r.chunks
  BY <1>2, <1>3, <1>4, <1>5 DEF Alike
<1> HIDE DEF q
<1> QED BY <1>1, <1>6, QuietCall DEF r

(* Every step of the runner does one of these to the session table. *)
LEMMA EveryStepTable ==
  ASSUME OrderInv, [Next]_vars
  PROVE  TableStep
<1>0. RunnerInv /\ now \in Nat
  BY DEF OrderInv, RunnerInv, OthersOK
<1>1. ASSUME NEW s \in Sessions, InitRunner(s)
      PROVE  TableStep
  BY <1>1, ConfigureTable DEF InitRunner, TableStep
<1>2. ASSUME NEW s \in Sessions, NEW hook, PrepareUserTurn(s, hook)
      PROVE  TableStep
  BY <1>0, <1>2, PrepareTurnTable, RequestRestoreTable DEF PrepareUserTurn, TableStep
<1>3. ASSUME NEW s \in Sessions, NEW hook, ProcessToolResult(s, hook)
      PROVE  TableStep
  BY <1>0, <1>3, ProcessToolResultTable DEF TableStep
<1>4. ASSUME NEW s \in Sessions, NEW reply \in Reply, NEW hook,
             CommitLlmResponse(s, reply, hook) \/ CommitLlmStream(s, reply, hook)
      PROVE  TableStep
  BY <1>0, <1>4, CommitLlmResponseTable DEF CommitLlmStream, TableStep
<1>5. ASSUME NEW s \in Sessions, NEW reply \in Reply \cup {"of_hook"}, ProcessLlmResponse(s, reply)
      PROVE  TableStep
  BY <1>0, <1>5, ProcessLlmResponseTable DEF TableStep
<1>6. ASSUME NEW s \in Sessions, AppendLlmChunk(s) \/ TelemetrySnapshot(s)
      PROVE  TableStep
  BY <1>0, <1>6, AppendLlmChunkTable, TelemetrySnapshotTable DEF TableStep
<1>7. ASSUME NEW s \in Sessions, ResetSession(s)
      PROVE  TableStep
  BY <1>7 DEF TableStep
<1>8. ASSUME NEW time \in HostTimes \cup {now}, SweepIdleSessions(time)
      PROVE  TableStep
  BY <1>0, <1>8, SweepTable DEF TableStep
<1>9. ASSUME NEW s \in Sessions, DrainEvents(s)
      PROVE  TableStep
  BY <1>0, <1>9 DEF DrainEvents, TableStep
<1>10. CASE Tick
  <2>1. PICK d \in Ticks : now' = now + d
    BY <1>10 DEF Tick
  <2>2. d \in Nat
    BY RunnerAssumption
  <2>3. UNCHANGED <<live, rt, archived>> /\ now' \in Nat /\ now' >= now
    BY <1>0, <1>10, <2>1, <2>2 DEF Tick
  <2> QED BY <2>3 DEF TableStep
<1>11. CASE UNCHANGED vars
  BY <1>0, <1>11 DEF vars, TableStep
<1> QED BY <1>1, <1>2, <1>3, <1>4, <1>5, <1>6, <1>7, <1>8, <1>9, <1>10, <1>11 DEF Next

LEMMA TouchedInit == Init => TouchedByNow
BY DEF Init, TouchedByNow, Blank

LEMMA TouchedStep ==
  ASSUME OrderInv, TableStep
  PROVE  TouchedByNow'
<1>1. /\ rt \in [Sessions -> SessionRuntime] /\ now \in Nat
      /\ \A x \in Sessions : rt[x].touched \in Nat /\ rt[x].touched <= now
  BY DEF OrderInv, RunnerInv, TableOK, OthersOK, TouchedByNow, SessionRuntime
<1>2. Blank.touched = 0
  BY DEF Blank
<1>3. ASSUME NEW s \in Sessions, CallFor(s)
      PROVE  TouchedByNow'
  <2>1. PICK r \in SessionRuntime, Gone \in SUBSET Sessions :
          Store(s, r, Gone) /\ (r.touched = now \/ r = rt[s])
    BY <1>3 DEF CallFor
  <2>2. now' = now /\ \A x \in Sessions : rt'[x] = IF x = s THEN r ELSE IF x \in Gone THEN Blank ELSE rt[x]
    BY <1>3, <2>1 DEF CallFor, Store
  <2> QED BY <1>1, <1>2, <2>1, <2>2 DEF TouchedByNow
<1>4. ASSUME NEW s \in Sessions, ResetSession(s)
      PROVE  TouchedByNow'
  <2>1. now' = now /\ \A x \in Sessions : rt'[x] = IF x = s THEN Blank ELSE rt[x]
    BY <1>1, <1>4 DEF ResetSession
  <2> QED BY <1>1, <1>2, <2>1 DEF TouchedByNow
<1>5. CASE OnlyArchives
  <2>1. PICK Gone \in SUBSET Sessions : rt' = [x \in Sessions |-> IF x \in Gone THEN Blank ELSE rt[x]]
    BY <1>5 DEF OnlyArchives
  <2>2. now' = now /\ \A x \in Sessions : rt'[x] = IF x \in Gone THEN Blank ELSE rt[x]
    BY <1>5, <2>1 DEF OnlyArchives
  <2> QED BY <1>1, <1>2, <2>2 DEF TouchedByNow
<1>6. CASE UNCHANGED <<live, rt, archived>> /\ now' \in Nat /\ now' >= now
  BY <1>1, <1>6 DEF TouchedByNow
<1> QED BY <1>3, <1>4, <1>5, <1>6 DEF TableStep

LEMMA StreamStep ==
  ASSUME OrderInv, TableStep
  PROVE  \A s \in live : rt[s].chunks > 0 =>
           \/ s \in live' /\ rt'[s].chunks >= rt[s].chunks
           \/ s \in live' /\ rt'[s].counters["commits"] > rt[s].counters["commits"]
           \/ s \notin live' /\ s \notin archived'
<1> SUFFICES ASSUME NEW s \in live, rt[s].chunks > 0
             PROVE  \/ s \in live' /\ rt'[s].chunks >= rt[s].chunks
                    \/ s \in live' /\ rt'[s].counters["commits"] > rt[s].counters["commits"]
                    \/ s \notin live' /\ s \notin archived'
  OBVIOUS
<1>1. s \in Sessions /\ rt[s].chunks \in Nat /\ rt \in [Sessions -> SessionRuntime]
  BY DEF OrderInv, RunnerInv, TableOK, SessionRuntime
<1>2. ASSUME NEW p \in Sessions, CallFor(p)
      PROVE  s \in live' /\ Onward(rt[s], rt'[s])
  <2>1. PICK r \in SessionRuntime, Gone \in SUBSET Sessions :
          Store(p, r, Gone) /\ Archives(p, Gone, now) /\ (p \notin Gone => Onward(rt[p], r))
    BY <1>2 DEF CallFor
  <2>2. s \notin Gone
    BY <1>1, <2>1 DEF Archives
  <2>3. s \in live' /\ rt'[s] = IF s = p THEN r ELSE rt[s]
    BY <1>1, <2>1, <2>2 DEF Store
  <2>4. Onward(rt[s], rt[s])
    BY <1>1 DEF Onward
  <2> QED BY <2>1, <2>2, <2>3, <2>4
<1>3. ASSUME NEW p \in Sessions, ResetSession(p)
      PROVE  \/ s \in live' /\ rt'[s].chunks >= rt[s].chunks
             \/ s \notin live' /\ s \notin archived'
  <2>1. CASE s = p
    BY <1>3, <2>1 DEF ResetSession
  <2>2. CASE s # p
    <3>1. rt'[s] = rt[s] /\ s \in live'
      BY <1>1, <1>3, <2>2 DEF ResetSession
    <3> QED BY <1>1, <3>1
  <2> QED BY <2>1, <2>2
<1>4. CASE OnlyArchives
  <2>1. PICK Gone, p, time :
          /\ Gone \in SUBSET Sessions
          /\ Archives(p, Gone, time) /\ live' = live \ Gone
          /\ rt' = [x \in Sessions |-> IF x \in Gone THEN Blank ELSE rt[x]]
    BY <1>4 DEF OnlyArchives
  <2>2. s \notin Gone
    BY <1>1, <2>1 DEF Archives
  <2>3. s \in live' /\ rt'[s] = rt[s]
    BY <1>1, <2>1, <2>2
  <2> QED BY <1>1, <2>3
<1>5. CASE UNCHANGED <<live, rt, archived>>
  BY <1>1, <1>5
<1> QED BY <1>2, <1>3, <1>4, <1>5 DEF TableStep, Onward

(* Why t may stay though s, touched after it, is archived. *)
Spared(t, s) ==
  \/ InitRunner(t)
  \/ Outlives(t, s, now)
  \/ \E time \in HostTimes : SweepIdleSessions(time) /\ Outlives(t, s, time)

LEMMA OldestStep ==
  ASSUME OrderInv, TableStep
  PROVE  \A s \in (live \cap archived') \ live' : \A t \in Overlooked(s) : Spared(t, s)
<1> SUFFICES ASSUME NEW s \in (live \cap archived') \ live', NEW t \in Overlooked(s)
             PROVE  Spared(t, s)
  OBVIOUS
<1>1. /\ t \in live /\ t \in live' /\ rt[t].chunks = 0
      /\ rt[t].touched < rt[s].touched /\ rt'[t] = rt[t]
  BY DEF Overlooked
<1>2. /\ s \in Sessions /\ t \in Sessions /\ rt \in [Sessions -> SessionRuntime]
      /\ rt[s].touched \in Nat /\ rt[t].touched \in Nat /\ now \in Nat /\ rt[s].touched <= now
  BY <1>1 DEF OrderInv, RunnerInv, TableOK, OthersOK, TouchedByNow, SessionRuntime
<1>3. ASSUME NEW p \in Sessions, CallFor(p)
      PROVE  Spared(t, s)
  <2>1. PICK r \in SessionRuntime, Gone \in SUBSET Sessions :
          /\ Store(p, r, Gone) /\ Archives(p, Gone, now)
          /\ r.touched = now \/ InitRunner(p)
    BY <1>3 DEF CallFor
  <2>2. /\ live' = (live \ Gone) \cup {p}
        /\ rt'[t] = IF t = p THEN r ELSE IF t \in Gone THEN Blank ELSE rt[t]
    BY <1>2, <2>1 DEF Store
  <2>3. s \in Gone
    BY <2>2
  <2>4. CASE t = p
    <3>1. r = rt[t]
      BY <1>1, <2>2, <2>4
    <3>2. r.touched # now
      BY <1>1, <1>2, <3>1
    <3> QED BY <2>1, <2>4, <3>2 DEF Spared
  <2>5. CASE t # p
    <3>1. t \in live \ (Gone \cup {p})
      BY <1>1, <2>2, <2>5
    <3>2. rt[t].touched >= rt[s].touched \/ Outlives(t, s, now)
      BY <1>1, <2>1, <2>3, <3>1 DEF Archives
    <3> QED BY <1>1, <1>2, <3>2 DEF Spared
  <2> QED BY <2>4, <2>5
<1>4. ASSUME NEW p \in Sessions, ResetSession(p)
      PROVE  FALSE
  BY <1>4 DEF ResetSession
<1>5. CASE OnlyArchives
  <2>1. PICK Gone, p, time :
          /\ Gone \in SUBSET Sessions
          /\ time = now \/ (time \in HostTimes /\ SweepIdleSessions(time))
          /\ Archives(p, Gone, time) /\ p \notin live \ Gone /\ live' = live \ Gone
    BY <1>5 DEF OnlyArchives
  <2>2. s \in Gone /\ t \in live \ (Gone \cup {p})
    BY <1>1, <2>1
  <2>3. rt[t].touched >= rt[s].touched \/ Outlives(t, s, time)
    BY <1>1, <2>1, <2>2 DEF Archives
  <2>4. Outlives(t, s, time)
    BY <1>1, <1>2, <2>3
  <2> QED BY <2>1, <2>4 DEF Spared
<1>6. CASE UNCHANGED <<live, rt, archived>>
  BY <1>6
<1> QED BY <1>3, <1>4, <1>5, <1>6 DEF TableStep

LEMMA OrderSoundness == Spec => []OrderInv
<1>1. Init => OrderInv
  BY InitInv, TouchedInit DEF OrderInv
<1>2. OrderInv /\ [Next]_vars => OrderInv'
  BY NextInv, EveryStepTable, TouchedStep DEF OrderInv
<1> QED BY <1>1, <1>2, PTL DEF Spec

(* Neither the idle sweep nor the capacity eviction ever takes a session   *)
(* whose stream is still buffered, and no call of another session clears   *)
(* it: append_llm_chunk's text reaches its own commit or its own reset.    *)
THEOREM StreamsKept == Spec => StreamSurvives
<1>1. OrderInv /\ [Next]_vars =>
        [\A s \in live : rt[s].chunks > 0 =>
           \/ s \in live' /\ rt'[s].chunks >= rt[s].chunks
           \/ s \in live' /\ rt'[s].counters["commits"] > rt[s].counters["commits"]
           \/ s \notin live' /\ s \notin archived']_vars
  BY EveryStepTable, StreamStep
<1> QED BY <1>1, OrderSoundness, PTL DEF Spec, StreamSurvives

(* Archival goes by last_touched_ms, however sweeps, evictions and calls   *)
(* interleave: no session is archived while one touched longer ago, that   *)
(* could have gone, stays untouched -- but the one init spares, and those  *)
(* whose own timeout is not over when a sweep takes a younger session.     *)
THEOREM ArchivedByAge == Spec => OldestGoFirst
<1>1. OrderInv /\ [Next]_vars =>
        [\A s \in (live \cap archived') \ live' : \A t \in Overlooked(s) :
           \/ InitRunner(t)
           \/ Outlives(t, s, now)
           \/ \E time \in HostTimes : SweepIdleSessions(time) /\ Outlives(t, s, time)]_vars
  BY EveryStepTable, OldestStep DEF Spared
<1> QED BY <1>1, OrderSoundness, PTL DEF Spec, OldestGoFirst
===============================================================================
