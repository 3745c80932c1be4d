------------------------------- MODULE HostAgent -------------------------------
(***************************************************************************)
(* The agent of the core crate (application/agent/runner.rs) and the       *)
(* client it talks through (application/client): runs share one client,    *)
(* whose session store is behind a mutex that no call holds while the      *)
(* model answers.  A history is pruned in two locked sections, and others  *)
(* may come between them.                                                  *)
(*                                                                         *)
(* Abstracted: texts, attachments, domain events, the token and tool       *)
(* statistics of sessions.  CallTools is left out: the parser never makes  *)
(* one.  The model, the tools and the rate limiter are external.           *)
(***************************************************************************)
EXTENDS SessionStore

CONSTANTS
  Runs,            \* agent runs
  Ids,             \* session ids that runs may be given
  Unset,           \* no session id
  MaxSteps,        \* max_steps of the options of each run
  MaxJsonRetries,  \* 3
  Costs,           \* of the answers of the model; questions cost 1
  MaxPrunes        \* bound: calls of prune_session

\* A run that is given no session id gets one of its own at its first call.
SessionIds == Ids \cup Runs

ASSUME AgentAssumption ==
  /\ Runs \cap Ids = {} /\ Unset \notin SessionIds
  /\ MaxSteps \in [Runs -> Nat] /\ MaxJsonRetries \in Nat /\ MaxPrunes \in Nat
  /\ Costs \subseteq Nat

VARIABLES
  store,      \* the SessionStore
  run,        \* each run: where it is, its session and its counters
  prune,      \* prune_session between its sections: session and new history
  prunes,
  persisted,  \* history: every message that was ever pushed
  forgotten,  \* history: messages that an eviction or a prune chose to drop
  unseen      \* history: messages pushed between the sections of a prune

agentVars == <<store, run, prune, prunes, persisted, forgotten, unseen>>
agentHistory == <<persisted, forgotten, unseen>>

RunEnded == {"done", "error", "dropped"}
NoPrune == [sid |-> Unset, messages |-> <<>>]

AgentInit ==
  /\ store = NewStore(SessionIds)
  /\ run = [r \in Runs |-> [pc |-> "idle", sid |-> Unset, left |-> MaxSteps[r], retries |-> 0,
                            calls |-> 0, charges |-> 0, rounds |-> 0]]
  /\ prune = NoPrune /\ prunes = 0
  /\ persisted = {} /\ forgotten = {} /\ unseen = {}

Evicted(new) == UNION {Range(store.history[s]) : s \in store.has \ new.has}

-------------------------------------------------------------------------------
(* Agent::run *)

\* The limiter is asked before anything else; a run without a session id is
\* charged to "default".
Begin(r, sid, allowed) ==
  /\ run[r].pc = "idle"
  /\ run' = [run EXCEPT ![r].pc = IF allowed THEN "turn" ELSE "error",
                        ![r].sid = sid,
                        ![r].charges = IF allowed THEN 1 ELSE 0]
  /\ UNCHANGED <<store, prune, prunes, agentHistory>>

\* The limiter again, before the call of a turn.
Refused(r) ==
  /\ run[r].pc = "turn"
  /\ run' = [run EXCEPT ![r].pc = "error"]
  /\ UNCHANGED <<store, prune, prunes, agentHistory>>

\* McpClient::chat: prepare_chat reads the history, then the model is called.
\* A correction (pc "retry") is sent without asking the limiter.
Ask(r) ==
  /\ run[r].pc \in {"turn", "retry"}
  /\ run' = [run EXCEPT ![r].pc = "waiting",
                        ![r].sid = IF @ = Unset THEN r ELSE @,
                        ![r].calls = @ + 1,
                        ![r].charges = IF run[r].pc = "turn" THEN @ + 1 ELSE @]
  /\ UNCHANGED <<store, prune, prunes, agentHistory>>

\* The model refuses: nothing of the turn is kept.
ModelFails(r) ==
  /\ run[r].pc = "waiting"
  /\ run' = [run EXCEPT ![r].pc = "error"]
  /\ UNCHANGED <<store, prune, prunes, agentHistory>>

Exchange(r, cost) ==
  << [by |-> r, call |-> run[r].calls, role |-> "user", cost |-> 1],
     [by |-> r, call |-> run[r].calls, role |-> "assistant", cost |-> cost] >>

(* Mutant of Decide: the counter of corrections is never compared.         *)
DecideRetries(r, directive) ==
  CASE directive = "garbage" ->
         [run[r] EXCEPT !.pc = "retry", !.retries = @ + 1]
    [] directive = "final" ->
         [run[r] EXCEPT !.pc = "done", !.retries = 0]
    [] directive = "call_tool" ->
         IF run[r].left = 0 THEN [run[r] EXCEPT !.pc = "error"]
         ELSE [run[r] EXCEPT !.pc = "tool", !.left = @ - 1, !.rounds = @ + 1, !.retries = 0]

\* What the run does next: correct the model, end, or call the tool.
Decide(r, directive) ==
  CASE directive = "garbage" ->
         IF run[r].retries < MaxJsonRetries
         THEN [run[r] EXCEPT !.pc = "retry", !.retries = @ + 1]
         ELSE [run[r] EXCEPT !.pc = "error"]
    [] directive = "final" ->
         [run[r] EXCEPT !.pc = "done", !.retries = 0]
    [] directive = "call_tool" ->
         IF run[r].left = 0 THEN [run[r] EXCEPT !.pc = "error"]
         ELSE [run[r] EXCEPT !.pc = "tool", !.left = @ - 1, !.rounds = @ + 1, !.retries = 0]

\* complete_chat pushes the question and the answer in one locked section; then
\* the answer is parsed.
Reply(r, directive, cost) ==
  /\ run[r].pc = "waiting"
  /\ store' = PushMessages(store, run[r].sid, Exchange(r, cost))
  /\ run' = [run EXCEPT ![r] = Decide(r, directive)]
  /\ persisted' = persisted \cup Range(Exchange(r, cost))
  /\ forgotten' = forgotten \cup Evicted(store')
  /\ unseen' = IF prune.sid = run[r].sid THEN unseen \cup Range(Exchange(r, cost)) ELSE unseen
  /\ UNCHANGED <<prune, prunes>>

\* The tool ran, successfully or not: its result is the next question.
ToolReturns(r) ==
  /\ run[r].pc = "tool"
  /\ run' = [run EXCEPT ![r].pc = "turn"]
  /\ UNCHANGED <<store, prune, prunes, agentHistory>>

\* It is unknown or bound to no server, or the call of its server failed.
ToolFails(r) ==
  /\ run[r].pc = "tool"
  /\ run' = [run EXCEPT ![r].pc = "error"]
  /\ UNCHANGED <<store, prune, prunes, agentHistory>>

\* The host drops the future at an await.
RunDropped(r) ==
  /\ run[r].pc \in {"turn", "retry", "waiting", "tool"}
  /\ run' = [run EXCEPT ![r].pc = "dropped"]
  /\ UNCHANGED <<store, prune, prunes, agentHistory>>

-------------------------------------------------------------------------------
(* McpClient::prune_session *)

\* The first section reads the history and chooses what remains.
PruneReads(s) ==
  LET old == store.history[s]
      new == PruneMessages(old)
  IN
  /\ prune = NoPrune /\ prunes < MaxPrunes
  /\ s \in store.has /\ Len(new) < Len(old)
  /\ prune' = [sid |-> s, messages |-> new]
  /\ prunes' = prunes + 1
  /\ forgotten' = forgotten \cup (Range(old) \ Range(new))
  /\ UNCHANGED <<store, run, persisted, unseen>>

\* The second section replaces the history by what the first one chose; it
\* makes the session anew if it was evicted in between.
PruneReplaces ==
  /\ prune # NoPrune
  /\ store' = ReplaceHistory(store, prune.sid, prune.messages)
  /\ prune' = NoPrune
  /\ forgotten' = forgotten \cup Evicted(store')
  /\ UNCHANGED <<run, prunes, persisted, unseen>>

AgentNext ==
  \/ \E r \in Runs :
       \/ \E sid \in Ids \cup {Unset}, allowed \in BOOLEAN : Begin(r, sid, allowed)
       \/ Refused(r) \/ Ask(r) \/ ModelFails(r)
       \/ \E directive \in {"garbage", "final", "call_tool"}, cost \in Costs :
            Reply(r, directive, cost)
       \/ ToolReturns(r) \/ ToolFails(r) \/ RunDropped(r)
  \/ \E s \in SessionIds : PruneReads(s)
  \/ PruneReplaces

AgentSpec == AgentInit /\ [][AgentNext]_agentVars

-------------------------------------------------------------------------------
AgentTypeOK ==
  /\ store.has \subseteq SessionIds
  /\ Range(store.order) \subseteq SessionIds
  /\ \A s \in SessionIds : Range(store.history[s]) \subseteq persisted
  /\ \A r \in Runs :
       /\ run[r].pc \in {"idle", "turn", "retry", "waiting", "tool"} \cup RunEnded
       /\ run[r].sid \in SessionIds \cup {Unset}
       /\ run[r].left \in 0..MaxSteps[r] /\ run[r].retries \in 0..MaxJsonRetries
  /\ prune.sid \in SessionIds \cup {Unset} /\ prunes \in 0..MaxPrunes

(* The access order and the session manager name the same sessions, each   *)
(* once, and no more than there is room for (session_store/mod.rs:88-102): *)
(* through creations, evictions in the middle of a run, and a prune of a   *)
(* session that was evicted meanwhile.                                     *)
SessionsInStep ==
  /\ IsInjective(store.order)
  /\ Range(store.order) = store.has
  /\ MaxSessions > 0 => Len(store.order) <= MaxSessions

(* A run ends after a number of calls of the model that its options and    *)
(* the limit on corrections fix (runner.rs:217-223, json_retry.rs:47-101): *)
(* each tool round may be followed by a fresh set of corrections, no more. *)
CallsBounded ==
  \A r \in Runs :
    /\ run[r].rounds + run[r].left = MaxSteps[r]
    /\ run[r].calls <= (run[r].rounds + 1) * (MaxJsonRetries + 1)

(* A message that was pushed stays in the history of its session until an  *)
(* eviction or a prune chooses it (client_chat.rs:213-231), with one       *)
(* exception: what is pushed between the two sections of a prune, which    *)
(* replaces the history by one it chose before.                            *)
NothingElseVanishes ==
  persisted \ (forgotten \cup unseen) \subseteq
    UNION {Range(store.history[s]) : s \in SessionIds}
===============================================================================
