---------------------------- MODULE TaskDispatch ----------------------------
(***************************************************************************)
(* The multi-agent orchestrator of antikythera-core: dispatch,             *)
(* dispatch_many and pipeline (orchestrator/mod.rs), prepare_dispatch,     *)
(* execute_task (orchestrator/runtime.rs), the scheduler's modes           *)
(* (scheduler.rs), the shared budget (budget.rs), the cancellation token   *)
(* and the budget guardrail (guardrails/builtin.rs).                       *)
(*                                                                         *)
(* Each batch is a call of dispatch_many (or pipeline); the other tasks    *)
(* come each from a caller of dispatch on the same orchestrator.           *)
(* Every task is a future that may run on a thread of its own: one action  *)
(* is the code between two accesses to what the tasks share.  An agent's   *)
(* run is one step that takes some number of reasoning steps and succeeds, *)
(* fails or runs into the task's timeout.                                  *)
(***************************************************************************)
EXTENDS Integers, FiniteSets, Sequences

CONSTANTS
  Tasks,
  Batches,        \* of each: tasks in submission order, mode, workers
  MaxConcurrent,  \* max_concurrent_tasks; None is a limit that is never met
  MaxSteps,       \* max_total_steps
  MaxTasks,       \* max_total_tasks
  MaxRetries,     \* max_retries of every task's retry policy
  Condition,      \* its RetryCondition: "Always", "OnTransient", "Never"
  AttemptMax,     \* u8::MAX, where the attempt counter saturates
  RunSteps,       \* most steps that one run of an agent takes
  Unroutable,     \* tasks the router finds no agent for
  Deadlined,      \* tasks that carry a deadline
  Guarded         \* whether the chain holds a BudgetGuardrail

ASSUME TasksFinite == IsFiniteSet(Tasks)

ASSUME LimitsAreNumbers ==
  /\ {MaxConcurrent, MaxSteps, MaxTasks, RunSteps} \subseteq Nat
  /\ AttemptMax \in Nat \ {0}
  /\ MaxRetries \in 0..AttemptMax

Modes == {"Sequential", "Concurrent", "Auto", "Parallel", "Pipeline"}

ASSUME BatchesOfTasks ==
  /\ \A b \in Batches : b.tasks \in Seq(Tasks) /\ b.mode \in Modes /\ b.workers \in Nat
  /\ {Unroutable, Deadlined} \subseteq SUBSET Tasks
  /\ Condition \in {"Always", "OnTransient", "Never"}
  /\ Guarded \in BOOLEAN

VARIABLES
  dispatched, consumed,   \* the counters of OrchestratorBudget
  cancelled,              \* the flag behind every CancellationToken
  free, queue,            \* the semaphore: permits left, tasks in line
  pc, attempt, result,    \* of each task
  used,                   \* steps_used of a result not yet recorded
  admitted,               \* history: tasks past the task budget
  begun, late             \* history: tasks under way when cancel came, runs
                          \* of each task that began after it

shared == <<dispatched, consumed, cancelled>>
slots == <<free, queue>>
history == <<admitted, begun, late>>
vars == <<shared, slots, pc, attempt, result, used, history>>

Kinds == {"Success", "Failure", "BudgetExhausted", "DeadlineExceeded",
          "Cancelled", "Transient", "Permanent", "Panicked"}

Holds == {"granted", "cleared", "ready", "running", "recording"}

PC == {"new", "counted", "within", "waiting", "done"} \cup Holds

Holding == {t \in Tasks : pc[t] \in Holds}

-----------------------------------------------------------------------------
Permits == IF MaxConcurrent = 0 THEN 1 ELSE MaxConcurrent

Init ==
  /\ dispatched = 0 /\ consumed = 0 /\ cancelled = FALSE
  /\ free = Permits /\ queue = <<>>
  /\ pc = [t \in Tasks |-> "new"]
  /\ attempt = [t \in Tasks |-> 0]
  /\ result = [t \in Tasks |-> {}]
  /\ used = [t \in Tasks |-> 0]
  /\ admitted = {} /\ begun = {}
  /\ late = [t \in Tasks |-> 0]

StepsExhausted == consumed >= MaxSteps

TasksExhausted == dispatched >= MaxTasks

In(t, b) == \E i \in DOMAIN b.tasks : b.tasks[i] = t

Earlier(t, b) ==
  {u \in Tasks : \E i, j \in DOMAIN b.tasks : i < j /\ b.tasks[i] = u /\ b.tasks[j] = t}

Active(b) == {t \in Tasks : In(t, b) /\ pc[t] \notin {"new", "done"}}

\* Whether the scheduler of a batch lets a task of it begin.
Scheduled(t, b) ==
  CASE b.mode = "Sequential" -> \A u \in Earlier(t, b) : pc[u] = "done"
    [] b.mode = "Pipeline" -> \A u \in Earlier(t, b) : result[u] = {"Success"}
    [] b.mode = "Parallel" -> Cardinality(Active(b)) < IF b.workers = 0 THEN 1 ELSE b.workers
    [] OTHER -> TRUE

Goto(t, l) == pc' = [pc EXCEPT ![t] = l]

\* The task's future returns.
End(t, kind) ==
  /\ Goto(t, "done")
  /\ result' = [result EXCEPT ![t] = {kind}]

-----------------------------------------------------------------------------
(* prepare_dispatch *)

(* Mutant of Start: the dispatch is not counted. *)
StartUncounted(t) ==
  /\ pc[t] = "new"
  /\ \A b \in Batches : In(t, b) => Scheduled(t, b)
  /\ Goto(t, "counted")
  /\ UNCHANGED <<shared, slots, attempt, result, used, history>>

Start(t) ==
  /\ pc[t] = "new"
  /\ \A b \in Batches : In(t, b) => Scheduled(t, b)
  /\ dispatched' = dispatched + 1
  /\ Goto(t, "counted")
  /\ UNCHANGED <<consumed, cancelled, slots, attempt, result, used, history>>

WithinTasks(t) ==
  /\ pc[t] = "counted"
  /\ ~TasksExhausted
  /\ admitted' = admitted \cup {t}
  /\ Goto(t, "within")
  /\ UNCHANGED <<shared, slots, attempt, result, used, begun, late>>

\* Passing the step guard and joining the line of the semaphore are one
\* action: the line is ordered by when the guard was passed.
WithinSteps(t) ==
  /\ pc[t] = "within"
  /\ ~StepsExhausted
  /\ Goto(t, "waiting")
  /\ queue' = Append(queue, t)
  /\ UNCHANGED <<shared, free, attempt, result, used, history>>

Refuse(t) ==
  /\ \/ pc[t] = "counted" /\ TasksExhausted
     \/ pc[t] = "within" /\ StepsExhausted
  /\ End(t, "BudgetExhausted")
  /\ UNCHANGED <<shared, slots, attempt, used, history>>

(* Mutant of Acquire: no permit is waited for. *)
AcquireFreely(t) ==
  /\ pc[t] = "waiting"
  /\ queue # <<>> /\ Head(queue) = t
  /\ free' = free - 1
  /\ queue' = Tail(queue)
  /\ Goto(t, "granted")
  /\ UNCHANGED <<shared, attempt, result, used, history>>

\* tokio's semaphore serves its waiters in order.
Acquire(t) ==
  /\ pc[t] = "waiting"
  /\ queue # <<>> /\ Head(queue) = t
  /\ free > 0
  /\ free' = free - 1
  /\ queue' = Tail(queue)
  /\ Goto(t, "granted")
  /\ UNCHANGED <<shared, attempt, result, used, history>>

-----------------------------------------------------------------------------
(* execute_task.  Every result that is not a success reports no steps. *)

Give(t, kind, steps) ==
  /\ Goto(t, "recording")
  /\ result' = [result EXCEPT ![t] = {kind}]
  /\ used' = [used EXCEPT ![t] = steps]

PreRejects == Guarded /\ (StepsExhausted \/ TasksExhausted)

(* Mutant of PostRejects: it forgets the steps of the result. *)
PostRejectsLate(steps) == Guarded /\ consumed > MaxSteps

PostRejects(steps) == Guarded /\ consumed + steps > MaxSteps

PreCheck(t) ==
  /\ pc[t] = "granted"
  /\ \/ t \in Unroutable /\ Give(t, "Failure", 0)
     \/ t \notin Unroutable /\ PreRejects /\ Give(t, "BudgetExhausted", 0)
     \/ t \notin Unroutable /\ ~PreRejects /\ t \in Deadlined /\ Give(t, "DeadlineExceeded", 0)
     \/ t \notin Unroutable /\ ~PreRejects /\ Goto(t, "cleared") /\ UNCHANGED <<result, used>>
  /\ UNCHANGED <<shared, slots, attempt, history>>

\* The cancellation checks, before the first attempt and before every other.
StopCancelled(t) ==
  /\ pc[t] = "cleared"
  /\ cancelled
  /\ Give(t, "Cancelled", 0)
  /\ UNCHANGED <<shared, slots, attempt, history>>

NextAttempt(t) ==
  /\ pc[t] = "cleared"
  /\ ~cancelled
  /\ attempt' = [attempt EXCEPT ![t] = IF @ = AttemptMax THEN @ ELSE @ + 1]
  /\ Goto(t, "ready")
  /\ UNCHANGED <<shared, slots, result, used, history>>

Run(t) ==
  /\ pc[t] = "ready"
  /\ Goto(t, "running")
  /\ late' = [late EXCEPT ![t] = @ + IF cancelled THEN 1 ELSE 0]
  /\ UNCHANGED <<shared, slots, attempt, result, used, admitted, begun>>

Succeed(t, steps) ==
  /\ pc[t] = "running"
  /\ IF PostRejects(steps) THEN Give(t, "BudgetExhausted", 0) ELSE Give(t, "Success", steps)
  /\ UNCHANGED <<shared, slots, attempt, admitted, begun, late>>

ShouldRetry(t, kind) ==
  /\ attempt[t] <= MaxRetries
  /\ \/ Condition = "Always"
     \/ Condition = "OnTransient" /\ kind = "Transient"

(* Mutant of Break: a retry begins without the check for cancellation. *)
BreakRetries(t, kind) ==
  /\ pc[t] = "running"
  /\ IF ShouldRetry(t, kind)
     THEN Goto(t, "ready") /\ UNCHANGED <<result, used>>
     ELSE Give(t, kind, 0)
  /\ UNCHANGED <<shared, slots, attempt, admitted, begun, late>>

\* An error of the agent, or the timeout of the task, which is transient.
Break(t, kind) ==
  /\ pc[t] = "running"
  /\ IF ShouldRetry(t, kind)
     THEN Goto(t, "cleared") /\ UNCHANGED <<result, used>>
     ELSE Give(t, kind, 0)
  /\ UNCHANGED <<shared, slots, attempt, admitted, begun, late>>

\* A panic ends a spawned task, whose handle gives an anonymous failure; the
\* permit is released as the future is dropped.
Panic(t) ==
  /\ pc[t] = "running"
  /\ \E b \in Batches : In(t, b) /\ b.mode \in {"Auto", "Parallel"}
  /\ End(t, "Panicked")
  /\ free' = free + 1
  /\ UNCHANGED <<shared, queue, attempt, used, history>>

(* Mutant of Record: a failure keeps its permit. *)
RecordHolds(t) ==
  /\ pc[t] = "recording"
  /\ consumed' = consumed + used[t]
  /\ used' = [used EXCEPT ![t] = 0]
  /\ free' = IF result[t] = {"Success"} THEN free + 1 ELSE free
  /\ \E kind \in result[t] : End(t, kind)
  /\ UNCHANGED <<dispatched, cancelled, queue, attempt, history>>

\* The permit lives until the steps are recorded.
Record(t) ==
  /\ pc[t] = "recording"
  /\ consumed' = consumed + used[t]
  /\ used' = [used EXCEPT ![t] = 0]
  /\ free' = free + 1
  /\ \E kind \in result[t] : End(t, kind)
  /\ UNCHANGED <<dispatched, cancelled, queue, attempt, history>>

Cancel ==
  /\ ~cancelled
  /\ cancelled' = TRUE
  /\ begun' = {t \in Tasks : pc[t] # "new"}
  /\ UNCHANGED <<dispatched, consumed, slots, pc, attempt, result, used,
                 admitted, late>>

-----------------------------------------------------------------------------
EndRun(t) ==
  \/ \E steps \in 0..RunSteps : Succeed(t, steps)
  \/ \E kind \in {"Transient", "Permanent"} : Break(t, kind)

TaskStep(t) ==
  \/ Start(t) \/ WithinTasks(t) \/ WithinSteps(t) \/ Refuse(t) \/ Acquire(t)
  \/ PreCheck(t) \/ StopCancelled(t) \/ NextAttempt(t) \/ Run(t)
  \/ EndRun(t) \/ Panic(t) \/ Record(t)

Next == Cancel \/ \E t \in Tasks : TaskStep(t)

Spec == Init /\ [][Next]_vars

\* The runtime polls every task that can go on, and a run of an agent ends:
\* by itself or by the timeout of its task.
FairSpec == Spec /\ \A t \in Tasks : WF_vars(TaskStep(t))

-----------------------------------------------------------------------------
(* Properties *)

TypeOK ==
  /\ dispatched \in Nat /\ consumed \in Nat /\ free \in Nat
  /\ cancelled \in BOOLEAN
  /\ queue \in Seq(Tasks)
  /\ pc \in [Tasks -> PC]
  /\ attempt \in [Tasks -> 0..AttemptMax]
  /\ result \in [Tasks -> SUBSET Kinds]
  /\ used \in [Tasks -> Nat] /\ late \in [Tasks -> Nat]
  /\ admitted \subseteq Tasks /\ begun \subseteq Tasks

\* Every permit of the semaphore is free or held by one task, whichever way
\* tasks end: so never more than max_concurrent_tasks run.
PermitsConserved == free + Cardinality(Holding) = Permits

\* The tasks that pass the task budget never get to max_total_tasks, however
\* their increments and loads of the counter interleave (orchestrator/mod.rs:91):
\* each counts itself first, so the one that reaches the limit is refused.
TaskCap == admitted # {} => Cardinality(admitted) < MaxTasks

\* After cancel, a task under way begins at most one more run of its agent
\* (the one whose check was already behind it), and any other task none.
CancelStops ==
  \A t \in Tasks : late[t] <= IF t \in begun THEN 1 ELSE 0

\* With the budget guardrail the budget of steps is exceeded by at most
\* one result for every permit but one: a result passes the post-check on a
\* counter that lacks those of other holders only, as the permit is kept
\* until the steps are recorded.  One task at a time, and it is exact.
StepOverrunBounded ==
  Guarded => consumed <= MaxSteps + (Permits - 1) * RunSteps

\* The tasks of a pipeline behind the first one that failed.
Skipped(t) ==
  \E b \in Batches : b.mode = "Pipeline" /\
    \E u \in Earlier(t, b) : pc[u] = "done" /\ result[u] # {"Success"}

\* Every task is answered, but for those a pipeline leaves out: no permit is
\* lost, no retry goes on for ever, no line is left standing.
EveryTaskAnswered == <>(\A t \in Tasks : pc[t] = "done" \/ Skipped(t))

\* The permits are a pool that every task enters at most once.
Pool == INSTANCE BoundedPool WITH
          Members <- Tasks, Size <- Permits, inside <- Holding,
          gone <- {t \in Tasks : pc[t] = "done"}

PoolSpec == Pool!Spec
=============================================================================
