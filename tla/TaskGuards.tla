------------------------------- MODULE TaskGuards -------------------------------
(***************************************************************************)
(* The guardrail chain around a task: the built-in guardrails, asked in    *)
(* the order of the chain before the task, before each attempt and after   *)
(* its result, until one of them refuses.  The context of a task is one    *)
(* moment's: time and cancellation are read before the chain is asked, so  *)
(* that tasks reach the queue of the rate limit in any order of their      *)
(* times.                                                                  *)
(*                                                                         *)
(* The order of a chain is its host's.  What the budget guardrail does     *)
(* with the budget all tasks share is in TaskDispatch.                     *)
(***************************************************************************)
EXTENDS Integers, FiniteSets, SequencesExt

CONSTANTS
  GuardedTasks,
  Chains,        \* the chains a host may build, of names of guardrails
  Policy,        \* of the timeout and the budget guardrail
  Fields,        \* timeout_ms, budget_steps and max_steps of each task, the
                 \* last its own or its agent's
  StepCounts,    \* what a run may use
  GuardLimit,    \* max_tasks
  GuardWindow,   \* window_ms
  MaxClock,      \* bound: the latest time
  Absent         \* an Option that is None

Guardrails == {"timeout", "budget", "rate_limit", "cancellation"}

ASSUME GuardAssumption ==
  /\ IsFiniteSet(GuardedTasks)
  /\ Chains \subseteq Seq(Guardrails)
  /\ StepCounts \subseteq Nat
  /\ GuardLimit \in Nat /\ GuardWindow \in Nat \ {0} /\ MaxClock \in Nat
  /\ Policy \in [max_timeout_ms : Nat, require_timeout : BOOLEAN,
                 max_task_steps : Nat \cup {Absent}, require_budget : BOOLEAN]
  /\ Fields \in [GuardedTasks -> [timeout_ms : Nat \cup {Absent},
                 budget_steps : Nat \cup {Absent}, max_steps : Nat \cup {Absent}]]

VARIABLES
  chain,       \* the one the host built
  now_unix_ms, \* the wall clock
  cancel,      \* the cancellation token
  guard,       \* each task: pc and its GuardrailContext
  seen_at_ms,  \* the queue of the rate limit
  accepted     \* history: each task the rate limit let pass, with its time

guardVars == <<chain, now_unix_ms, cancel, guard, seen_at_ms, accepted>>

GuardInit ==
  /\ chain \in Chains
  /\ now_unix_ms = 0 /\ cancel = FALSE
  /\ guard = [t \in GuardedTasks |-> [pc |-> "new", at |-> 0, cancelled |-> FALSE]]
  /\ seen_at_ms = <<>> /\ accepted = {}

GuardTick ==
  /\ now_unix_ms < MaxClock
  /\ now_unix_ms' = now_unix_ms + 1
  /\ UNCHANGED <<chain, cancel, guard, seen_at_ms, accepted>>

CancelAll ==
  /\ ~cancel /\ cancel' = TRUE
  /\ UNCHANGED <<chain, now_unix_ms, guard, seen_at_ms, accepted>>

TakeContext(t) ==
  /\ guard[t].pc = "new"
  /\ guard' = [guard EXCEPT ![t] = [pc |-> "context", at |-> now_unix_ms, cancelled |-> cancel]]
  /\ UNCHANGED <<chain, now_unix_ms, cancel, seen_at_ms, accepted>>

-------------------------------------------------------------------------------
(* The guardrails *)

TimeoutRefuses(t) ==
  IF Fields[t].timeout_ms = Absent THEN Policy.require_timeout
  ELSE Fields[t].timeout_ms > Policy.max_timeout_ms

RequestedSteps(t) ==
  IF Fields[t].budget_steps # Absent THEN Fields[t].budget_steps ELSE Fields[t].max_steps

BudgetRefuses(t) ==
  \/ Policy.require_budget /\ Fields[t].budget_steps = Absent
  \/ /\ Policy.max_task_steps # Absent /\ RequestedSteps(t) # Absent
     /\ RequestedSteps(t) > Policy.max_task_steps

Expired(at, now) == at <= now - GuardWindow

(* Mutant of TrimExpired: a time leaves while its window still holds it.   *)
TrimEarly(times, now) ==
  LET Alive == {i \in DOMAIN times : ~Expired(times[i] - 1, now)} IN
  IF Alive = {} THEN <<>>
  ELSE SubSeq(times, CHOOSE i \in Alive : \A j \in Alive : i <= j, Len(times))

\* Times leave from the front, up to the first that is not expired.
TrimExpired(times, now) ==
  LET Alive == {i \in DOMAIN times : ~Expired(times[i], now)} IN
  IF Alive = {} THEN <<>>
  ELSE SubSeq(times, CHOOSE i \in Alive : \A j \in Alive : i <= j, Len(times))

Full(t) == Len(TrimExpired(seen_at_ms, guard[t].at)) >= GuardLimit

PreRefuses(guardrail, t) ==
  CASE guardrail = "timeout" -> TimeoutRefuses(t)
    [] guardrail = "budget" -> BudgetRefuses(t)
    [] guardrail = "rate_limit" -> Full(t)
    [] guardrail = "cancellation" -> guard[t].cancelled

-------------------------------------------------------------------------------
(* The chain *)

\* The guardrails that are asked: all up to the first that refuses.
Asked(t) ==
  {chain[i] : i \in {i \in DOMAIN chain : \A j \in 1..(i - 1) : ~PreRefuses(chain[j], t)}}

Move(t, pc) == guard' = [guard EXCEPT ![t].pc = pc]

\* check_pre.  The rate limit is asked under its mutex; a task that a later
\* guardrail refuses has taken a place in its window all the same.
CheckPre(t) ==
  /\ guard[t].pc = "context"
  /\ Move(t, IF \E g \in Asked(t) : PreRefuses(g, t) THEN "refused" ELSE "begun")
  /\ IF "rate_limit" \in Asked(t)
     THEN LET live == TrimExpired(seen_at_ms, guard[t].at) IN
          IF Full(t) THEN seen_at_ms' = live /\ UNCHANGED accepted
          ELSE /\ seen_at_ms' = Append(live, guard[t].at)
               /\ accepted' = accepted \cup {<<t, guard[t].at>>}
     ELSE UNCHANGED <<seen_at_ms, accepted>>
  /\ UNCHANGED <<chain, now_unix_ms, cancel>>

\* check_mid, before each attempt, with a context of its own.  The task looks at
\* the token itself right after: with the guardrail or without, it stops.
CheckMid(t) ==
  /\ guard[t].pc = "begun"
  /\ Move(t, IF cancel THEN "refused" ELSE "running")
  /\ UNCHANGED <<chain, now_unix_ms, cancel, seen_at_ms, accepted>>

\* No guardrail is asked about an attempt that failed or timed out.
AttemptFails(t, again) ==
  /\ guard[t].pc = "running"
  /\ Move(t, IF again THEN "begun" ELSE "done")
  /\ UNCHANGED <<chain, now_unix_ms, cancel, seen_at_ms, accepted>>

\* check_post of a success: more steps than a task may take are refused.
CheckPost(t, steps) ==
  /\ guard[t].pc = "running"
  /\ Move(t, IF /\ "budget" \in Range(chain)
                /\ Policy.max_task_steps # Absent /\ steps > Policy.max_task_steps
             THEN "refused" ELSE "done")
  /\ UNCHANGED <<chain, now_unix_ms, cancel, seen_at_ms, accepted>>

GuardNext ==
  \/ GuardTick \/ CancelAll
  \/ \E t \in GuardedTasks :
       \/ TakeContext(t) \/ CheckPre(t) \/ CheckMid(t)
       \/ \E again \in BOOLEAN : AttemptFails(t, again)
       \/ \E steps \in StepCounts : CheckPost(t, steps)

GuardSpec == GuardInit /\ [][GuardNext]_guardVars

-------------------------------------------------------------------------------
GuardTypeOK ==
  /\ chain \in Chains /\ now_unix_ms \in 0..MaxClock /\ cancel \in BOOLEAN
  /\ guard \in [GuardedTasks ->
                 [pc : {"new", "context", "begun", "running", "refused", "done"},
                  at : 0..MaxClock, cancelled : BOOLEAN]]
  /\ accepted \subseteq GuardedTasks \X (0..MaxClock)

\* The latest time any check went by.
Latest_ms ==
  LET Times == {a[2] : a \in accepted} IN
  IF Times = {} THEN 0 ELSE CHOOSE n \in Times : \A m \in Times : m <= n

(* "at most N tasks per M ms" (builtin.rs:262-265) of the window that ends *)
(* at the latest time a task was let through with, although tasks reach    *)
(* the queue out of the order of their times, and times are dropped by the *)
(* clock of whichever task comes.  Of earlier windows it does not hold: a  *)
(* late task finds times dropped that its own window shares with others.   *)
LatestWindowHolds ==
  Cardinality({a \in accepted : ~Expired(a[2], Latest_ms)}) <= GuardLimit
===============================================================================
