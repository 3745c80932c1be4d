------------------------- MODULE TaskDispatch_proofs -------------------------
(***************************************************************************)
(* What holds of the multi-agent orchestrator for every set of tasks and   *)
(* agents, every limit and every mode.  TaskDispatch: its types, the       *)
(* conservation of permits, the cap on dispatched tasks, the effect of     *)
(* cancel, that the permits are a BoundedPool, and how far the step budget *)
(* is exceeded.  TaskGuards: its types and the window of the rate limit.   *)
(* AgentRouting: its types and the turns of the round robin.               *)
(***************************************************************************)
EXTENDS TaskDispatch, TaskGuards, AgentRouting, FiniteSetTheorems, SequenceTheorems,
        WellFoundedInduction, TLAPS

USE DEF shared, slots, history

(***************************************************************************)
(* Types                                                                   *)
(***************************************************************************)

\* The number of permits is a number.
LEMMA PermitsType == Permits \in Nat \ {0}
  BY LimitsAreNumbers DEF Permits

\* Init is of the types.
LEMMA InitType == Init => TypeOK
<1> SUFFICES ASSUME Init PROVE TypeOK
  OBVIOUS
<1>1. attempt \in [Tasks -> 0..AttemptMax]
  BY LimitsAreNumbers DEF Init
<1>2. free \in Nat
  BY PermitsType DEF Init
<1>3. pc \in [Tasks -> PC] /\ result \in [Tasks -> SUBSET Kinds]
  BY DEF Init, PC
<1>4. used \in [Tasks -> Nat] /\ late \in [Tasks -> Nat]
  BY DEF Init
<1>5. queue \in Seq(Tasks)
  BY EmptySeq DEF Init
<1> QED
  BY <1>1, <1>2, <1>3, <1>4, <1>5 DEF Init, TypeOK

\* The end of a task keeps the types of what it changes.
LEMMA EndType ==
  ASSUME TypeOK, NEW t \in Tasks, NEW kind \in Kinds, End(t, kind)
  PROVE  /\ pc' \in [Tasks -> PC]
         /\ result' \in [Tasks -> SUBSET Kinds]
  BY DEF TypeOK, End, Goto, PC

\* So does a result that waits to be recorded.
LEMMA GiveType ==
  ASSUME TypeOK, NEW t \in Tasks, NEW kind \in Kinds, NEW steps \in Nat, Give(t, kind, steps)
  PROVE  /\ pc' \in [Tasks -> PC]
         /\ result' \in [Tasks -> SUBSET Kinds]
         /\ used' \in [Tasks -> Nat]
  BY DEF TypeOK, Give, Goto, PC, Holds

\* Every step keeps the types.
LEMMA NextType == TypeOK /\ [Next]_vars => TypeOK'
<1> SUFFICES ASSUME TypeOK, [Next]_vars PROVE TypeOK'
  OBVIOUS
<1>0. CASE UNCHANGED vars
  BY <1>0 DEF TypeOK, vars
<1>1. CASE Cancel
  BY <1>1 DEF TypeOK, Cancel
<1>2. ASSUME NEW t \in Tasks, TaskStep(t) PROVE TypeOK'
  <2>1. CASE Start(t)
    BY <2>1 DEF TypeOK, Start, Goto, PC
  <2>2. CASE WithinTasks(t)
    BY <2>2 DEF TypeOK, WithinTasks, Goto, PC
  <2>3. CASE WithinSteps(t)
    BY <2>3 DEF TypeOK, WithinSteps, Goto, PC
  <2>4. CASE Refuse(t)
    <3>1. "BudgetExhausted" \in Kinds
      BY DEF Kinds
    <3>2. /\ pc' \in [Tasks -> PC]
          /\ result' \in [Tasks -> SUBSET Kinds]
      BY <2>4, <3>1, EndType DEF Refuse
    <3> QED
      BY <2>4, <3>2 DEF TypeOK, Refuse
  <2>5. CASE Acquire(t)
    <3>1. free' \in Nat
      BY <2>5 DEF TypeOK, Acquire
    <3>2. queue' \in Seq(Tasks)
      <4>1. queue \in Seq(Tasks) /\ queue # <<>> /\ queue' = Tail(queue)
        BY <2>5, Zenon DEF TypeOK, Acquire
      <4>2. Tail(queue) \in Seq(Tasks)
        BY <4>1, HeadTailProperties
      <4> QED
        BY <4>1, <4>2
    <3> QED
      BY <2>5, <3>1, <3>2 DEF TypeOK, Acquire, Goto, PC, Holds
  <2>6. CASE PreCheck(t)
    <3>1. {"Failure", "BudgetExhausted", "DeadlineExceeded"} \subseteq Kinds
      BY DEF Kinds
    <3>2. CASE Goto(t, "cleared") /\ UNCHANGED <<result, used>>
      BY <2>6, <3>2 DEF TypeOK, PreCheck, Goto, PC, Holds
    <3>3. ASSUME NEW kind \in Kinds, Give(t, kind, 0) PROVE TypeOK'
      BY <2>6, <3>3, GiveType DEF TypeOK, PreCheck
    <3> QED
      BY <2>6, <3>1, <3>2, <3>3 DEF PreCheck
  <2>7. CASE StopCancelled(t)
    <3>1. "Cancelled" \in Kinds
      BY DEF Kinds
    <3> QED
      BY <2>7, <3>1, GiveType DEF TypeOK, StopCancelled
  <2>8. CASE NextAttempt(t)
    <3>1. attempt' \in [Tasks -> 0..AttemptMax]
      BY <2>8, LimitsAreNumbers DEF TypeOK, NextAttempt
    <3> QED
      BY <2>8, <3>1 DEF TypeOK, NextAttempt, Goto, PC, Holds
  <2>9. CASE Run(t)
    BY <2>9 DEF TypeOK, Run, Goto, PC, Holds
  <2>10. CASE EndRun(t)
    <3>3. {"Success", "BudgetExhausted", "Transient", "Permanent"} \subseteq Kinds
      BY DEF Kinds
    <3>4. ASSUME NEW steps \in 0..RunSteps, Succeed(t, steps)
          PROVE  TypeOK'
      <4>0. steps \in Nat
        BY LimitsAreNumbers
      <4>1. \E kind \in Kinds, n \in Nat : Give(t, kind, n)
        BY <3>3, <3>4, <4>0 DEF Succeed
      <4>2. /\ pc' \in [Tasks -> PC]
            /\ result' \in [Tasks -> SUBSET Kinds]
            /\ used' \in [Tasks -> Nat]
        BY <4>1, GiveType
      <4> QED
        BY <3>4, <4>2 DEF TypeOK, Succeed
    <3>5. ASSUME NEW kind \in {"Transient", "Permanent"}, Break(t, kind)
          PROVE  TypeOK'
      <4>2. /\ pc' \in [Tasks -> PC]
            /\ result' \in [Tasks -> SUBSET Kinds]
            /\ used' \in [Tasks -> Nat]
        <5>1. CASE ShouldRetry(t, kind)
          BY <3>5, <5>1 DEF TypeOK, Break, Goto, PC, Holds
        <5>2. CASE ~ShouldRetry(t, kind)
          <6>1. Give(t, kind, 0)
            BY <3>5, <5>2 DEF Break
          <6>2. kind \in Kinds /\ 0 \in Nat
            BY <3>3
          <6> QED
            BY <6>1, <6>2, GiveType
        <5> QED
          BY <5>1, <5>2
      <4> QED
        BY <3>5, <4>2 DEF TypeOK, Break
    <3> QED
      BY <2>10, <3>4, <3>5 DEF EndRun
  <2>11. CASE Panic(t)
    <3>1. "Panicked" \in Kinds
      BY DEF Kinds
    <3> QED
      <4>1. /\ pc' \in [Tasks -> PC]
            /\ result' \in [Tasks -> SUBSET Kinds]
        BY <2>11, <3>1, EndType DEF Panic
      <4>2. free' \in Nat
        BY <2>11 DEF TypeOK, Panic
      <4> QED
        BY <2>11, <4>1, <4>2 DEF TypeOK, Panic
  <2>12. CASE Record(t)
    <3>1. \E kind \in Kinds : End(t, kind)
      BY <2>12 DEF TypeOK, Record
    <3>2. /\ consumed' \in Nat
          /\ used' \in [Tasks -> Nat]
          /\ free' \in Nat
      BY <2>12 DEF TypeOK, Record
    <3> QED
      BY <2>12, <3>1, <3>2, EndType DEF TypeOK, Record
  <2> QED
    BY <1>2, <2>1, <2>2, <2>3, <2>4, <2>5, <2>6, <2>7, <2>8, <2>9, <2>10, <2>11, <2>12
       DEF TaskStep
<1> QED
  BY <1>0, <1>1, <1>2 DEF Next

\* The orchestrator keeps its types.
THEOREM TypeCorrect == Spec => []TypeOK
<1>1. Init => TypeOK
  BY InitType
<1>2. TypeOK /\ [Next]_vars => TypeOK'
  BY NextType
<1> QED
  BY <1>1, <1>2, PTL DEF Spec

(***************************************************************************)
(* Permits                                                                 *)
(***************************************************************************)

\* A step leaves the permits and their holders alone, or one task takes a
\* permit (Acquire), or one gives it back (Panic, Record).
LEMMA HoldersStep ==
  ASSUME TypeOK, [Next]_vars
  PROVE  \/ Holding' = Holding /\ free' = free
         \/ \E t \in Tasks :
              /\ t \notin Holding /\ Holding' = Holding \cup {t}
              /\ free > 0 /\ free' = free - 1
              /\ pc[t] = "waiting"
         \/ \E t \in Tasks :
              /\ t \in Holding /\ Holding' = Holding \ {t}
              /\ free' = free + 1
              /\ pc'[t] = "done"
<1> DEFINE Same == Holding' = Holding /\ free' = free
<1>0. CASE UNCHANGED vars
  BY <1>0 DEF vars, Holding
<1>1. CASE Cancel
  BY <1>1 DEF Cancel, Holding
<1>2. ASSUME NEW t \in Tasks, TaskStep(t), ~Acquire(t), ~Panic(t), ~Record(t) PROVE Same
  <2>1. CASE Start(t)
    BY <2>1 DEF TypeOK, Start, Goto, Holding, Holds
  <2>2. CASE WithinTasks(t)
    BY <2>2 DEF TypeOK, WithinTasks, Goto, Holding, Holds
  <2>3. CASE WithinSteps(t)
    BY <2>3 DEF TypeOK, WithinSteps, Goto, Holding, Holds
  <2>4. CASE Refuse(t)
    BY <2>4 DEF TypeOK, Refuse, End, Goto, Holding, Holds
  <2>5. CASE PreCheck(t)
    BY <2>5 DEF TypeOK, PreCheck, Give, Goto, Holding, Holds
  <2>6. CASE StopCancelled(t)
    BY <2>6 DEF TypeOK, StopCancelled, Give, Goto, Holding, Holds
  <2>7. CASE NextAttempt(t)
    BY <2>7 DEF TypeOK, NextAttempt, Goto, Holding, Holds
  <2>8. CASE Run(t)
    BY <2>8 DEF TypeOK, Run, Goto, Holding, Holds
  <2>9. CASE EndRun(t)
    BY <2>9 DEF TypeOK, EndRun, Succeed, Break, Give, Goto, Holding, Holds
  <2> QED
    BY <1>2, <2>1, <2>2, <2>3, <2>4, <2>5, <2>6, <2>7, <2>8, <2>9 DEF TaskStep
<1>3. ASSUME NEW t \in Tasks, Acquire(t)
      PROVE  /\ t \notin Holding /\ Holding' = Holding \cup {t}
             /\ free > 0 /\ free' = free - 1
             /\ pc[t] = "waiting"
  BY <1>3 DEF TypeOK, Acquire, Goto, Holding, Holds
<1>4. ASSUME NEW t \in Tasks, Panic(t) \/ Record(t)
      PROVE  /\ t \in Holding /\ Holding' = Holding \ {t}
             /\ free' = free + 1
             /\ pc'[t] = "done"
  BY <1>4 DEF TypeOK, Panic, Record, End, Goto, Holding, Holds
<1> QED
  BY <1>0, <1>1, <1>2, <1>3, <1>4 DEF Next

\* There are finitely many holders.
LEMMA HoldersFinite == IsFiniteSet(Holding) /\ Cardinality(Holding) \in Nat
<1>1. Holding \subseteq Tasks
  BY DEF Holding
<1>2. IsFiniteSet(Holding)
  BY <1>1, TasksFinite, FS_Subset
<1> QED
  BY <1>2, FS_CardinalityType

\* Every step conserves the permits.
LEMMA PermitsStep ==
  ASSUME TypeOK, PermitsConserved, [Next]_vars
  PROVE  PermitsConserved'
<1>1. free \in Nat /\ Permits \in Nat /\ Permits' = Permits
  BY PermitsType DEF TypeOK, Permits
<1>2. CASE Holding' = Holding /\ free' = free
  BY <1>1, <1>2 DEF PermitsConserved
<1>3. ASSUME NEW t \in Tasks, t \notin Holding, Holding' = Holding \cup {t}, free' = free - 1
      PROVE  PermitsConserved'
  <2>1. Cardinality(Holding') = Cardinality(Holding) + 1
    BY <1>3, HoldersFinite, FS_AddElement
  <2> QED
    BY <1>1, <1>3, <2>1, HoldersFinite DEF PermitsConserved
<1>4. ASSUME NEW t \in Tasks, t \in Holding, Holding' = Holding \ {t}, free' = free + 1
      PROVE  PermitsConserved'
  <2>1. Cardinality(Holding') = Cardinality(Holding) - 1
    BY <1>4, HoldersFinite, FS_RemoveElement
  <2> QED
    BY <1>1, <1>4, <2>1, HoldersFinite DEF PermitsConserved
<1> QED
  BY <1>2, <1>3, <1>4, HoldersStep

\* At first all permits are free.
LEMMA PermitsInit == Init => PermitsConserved
<1> SUFFICES ASSUME Init PROVE PermitsConserved
  OBVIOUS
<1>1. Holding = {}
  BY DEF Init, Holding, Holds
<1> QED
  BY <1>1, FS_EmptySet, PermitsType DEF Init, PermitsConserved

\* No permit is lost or made up, whichever way tasks end.
THEOREM PermitsAreConserved == Spec => []PermitsConserved
<1>1. Init => TypeOK /\ PermitsConserved
  BY InitType, PermitsInit
<1>2. (TypeOK /\ PermitsConserved) /\ [Next]_vars => (TypeOK /\ PermitsConserved)'
  BY NextType, PermitsStep
<1> QED
  BY <1>1, <1>2, PTL DEF Spec

(***************************************************************************)
(* The permits as a pool                                                   *)
(***************************************************************************)

Gone == {t \in Tasks : pc[t] = "done"}

\* A step ends at most one task: a holder that gives its permit back, or one
\* that was refused before it took any.
LEMMA GoneStep ==
  ASSUME TypeOK, [Next]_vars
  PROVE  \/ Gone' = Gone /\ Holding' \subseteq Holding /\ Holding' = Holding
         \/ \E t \in Tasks :
              /\ t \notin Gone /\ t \notin Holding
              /\ Holding' = Holding \cup {t} /\ Gone' = Gone /\ free > 0
         \/ \E t \in Tasks :
              /\ t \in Holding /\ Holding' = Holding \ {t} /\ Gone' = Gone \cup {t}
         \/ \E t \in Tasks :
              /\ t \notin Gone /\ t \notin Holding
              /\ Holding' = Holding /\ Gone' = Gone \cup {t}
<1>0. CASE UNCHANGED vars
  BY <1>0 DEF vars, Holding, Gone
<1>1. CASE Cancel
  BY <1>1 DEF Cancel, Holding, Gone
<1>2. ASSUME NEW t \in Tasks, TaskStep(t), ~Acquire(t), ~Panic(t), ~Record(t), ~Refuse(t)
      PROVE  Gone' = Gone /\ Holding' = Holding
  <2>1. CASE Start(t)
    BY <2>1 DEF TypeOK, Start, Goto, Holding, Holds, Gone
  <2>2. CASE WithinTasks(t)
    BY <2>2 DEF TypeOK, WithinTasks, Goto, Holding, Holds, Gone
  <2>3. CASE WithinSteps(t)
    BY <2>3 DEF TypeOK, WithinSteps, Goto, Holding, Holds, Gone
  <2>5. CASE PreCheck(t)
    BY <2>5 DEF TypeOK, PreCheck, Give, Goto, Holding, Holds, Gone
  <2>6. CASE StopCancelled(t)
    BY <2>6 DEF TypeOK, StopCancelled, Give, Goto, Holding, Holds, Gone
  <2>7. CASE NextAttempt(t)
    BY <2>7 DEF TypeOK, NextAttempt, Goto, Holding, Holds, Gone
  <2>8. CASE Run(t)
    BY <2>8 DEF TypeOK, Run, Goto, Holding, Holds, Gone
  <2>9. CASE EndRun(t)
    BY <2>9 DEF TypeOK, EndRun, Succeed, Break, Give, Goto, Holding, Holds, Gone
  <2> QED
    BY <1>2, <2>1, <2>2, <2>3, <2>5, <2>6, <2>7, <2>8, <2>9 DEF TaskStep
<1>3. ASSUME NEW t \in Tasks, Acquire(t)
      PROVE  /\ t \notin Gone /\ t \notin Holding
             /\ Holding' = Holding \cup {t} /\ Gone' = Gone /\ free > 0
  BY <1>3 DEF TypeOK, Acquire, Goto, Holding, Holds, Gone
<1>4. ASSUME NEW t \in Tasks, Panic(t) \/ Record(t)
      PROVE  t \in Holding /\ Holding' = Holding \ {t} /\ Gone' = Gone \cup {t}
  BY <1>4 DEF TypeOK, Panic, Record, End, Goto, Holding, Holds, Gone
<1>5. ASSUME NEW t \in Tasks, Refuse(t)
      PROVE  /\ t \notin Gone /\ t \notin Holding
             /\ Holding' = Holding /\ Gone' = Gone \cup {t}
  BY <1>5 DEF TypeOK, Refuse, End, Goto, Holding, Holds, Gone
<1> QED
  BY <1>0, <1>1, <1>2, <1>3, <1>4, <1>5 DEF Next

\* Every step of the orchestrator is a step of the pool or none: a task takes
\* a permit only where the pool has room.
LEMMA PoolStep ==
  ASSUME TypeOK, PermitsConserved, [Next]_vars
  PROVE  [Pool!Next]_<<Holding, Gone>>
<1>1. CASE Gone' = Gone /\ Holding' = Holding
  BY <1>1
<1>2. ASSUME NEW t \in Tasks, t \notin Gone, t \notin Holding,
             Holding' = Holding \cup {t}, Gone' = Gone, free > 0
      PROVE  Pool!Enter(t)
  <2>1. Cardinality(Holding) < Permits
    BY <1>2, PermitsType, HoldersFinite DEF TypeOK, PermitsConserved
  <2>2. t \notin Holding \cup {u \in Tasks : pc[u] = "done"}
    BY <1>2 DEF Gone
  <2>3. UNCHANGED {u \in Tasks : pc[u] = "done"}
    BY <1>2 DEF Gone
  <2> QED
    BY <1>2, <2>1, <2>2, <2>3 DEF Pool!Enter, Cardinality, Pool!Cardinality
<1>3. ASSUME NEW t \in Tasks, t \in Holding, Holding' = Holding \ {t}, Gone' = Gone \cup {t}
      PROVE  Pool!Leave(t)
  BY <1>3 DEF Pool!Leave, Gone
<1>4. ASSUME NEW t \in Tasks, t \notin Gone, t \notin Holding,
             Holding' = Holding, Gone' = Gone \cup {t}
      PROVE  Pool!TurnAway(t)
  BY <1>4 DEF Pool!TurnAway, Gone
<1> QED
  BY <1>1, <1>2, <1>3, <1>4, GoneStep DEF Pool!Next

\* At first the pool is empty.
LEMMA PoolInit == Init => Pool!Init
  BY DEF Init, Pool!Init, Holding, Holds

\* The orchestrator implements a pool of max_concurrent_tasks places that
\* every task enters at most once.
THEOREM ImplementsPool == Spec => PoolSpec
<1>1. Init => TypeOK /\ PermitsConserved /\ Pool!Init
  BY InitType, PermitsInit, PoolInit
<1>2. (TypeOK /\ PermitsConserved) /\ [Next]_vars => (TypeOK /\ PermitsConserved)'
  BY NextType, PermitsStep
<1>3. (TypeOK /\ PermitsConserved) /\ [Next]_vars
        => [Pool!Next]_<<Holding, {t \in Tasks : pc[t] = "done"}>>
  BY PoolStep DEF Gone
<1> QED
  BY <1>1, <1>2, <1>3, PTL DEF Spec, PoolSpec, Pool!Spec

(***************************************************************************)
(* The task budget                                                         *)
(***************************************************************************)

Counted == {t \in Tasks : pc[t] # "new"}

\* The counter is the number of tasks that began, and only those are admitted.
CountInv ==
  /\ dispatched = Cardinality(Counted)
  /\ admitted \subseteq Counted
  /\ TaskCap

\* Only Start adds to the counted tasks.
LEMMA CountedStep ==
  ASSUME TypeOK, [Next]_vars
  PROVE  \/ /\ Counted' = Counted /\ dispatched' = dispatched
            /\ admitted' = admitted
         \/ \E t \in Tasks :
              /\ t \notin Counted /\ Counted' = Counted \cup {t}
              /\ dispatched' = dispatched + 1 /\ admitted' = admitted
         \/ \E t \in Tasks :
              /\ t \in Counted /\ Counted' = Counted /\ dispatched' = dispatched
              /\ dispatched < MaxTasks /\ admitted' = admitted \cup {t}
<1>0. CASE UNCHANGED vars
  BY <1>0 DEF vars, Counted
<1>1. CASE Cancel
  BY <1>1 DEF Cancel, Counted
<1>2. ASSUME NEW t \in Tasks, TaskStep(t), ~Start(t), ~WithinTasks(t)
      PROVE  Counted' = Counted /\ dispatched' = dispatched /\ admitted' = admitted
  <2>3. CASE WithinSteps(t)
    BY <2>3 DEF TypeOK, WithinSteps, Goto, Counted
  <2>4. CASE Refuse(t)
    BY <2>4 DEF TypeOK, Refuse, End, Goto, Counted
  <2>5. CASE PreCheck(t)
    BY <2>5 DEF TypeOK, PreCheck, Give, Goto, Counted
  <2>6. CASE StopCancelled(t)
    BY <2>6 DEF TypeOK, StopCancelled, Give, Goto, Counted
  <2>7. CASE NextAttempt(t)
    BY <2>7 DEF TypeOK, NextAttempt, Goto, Counted
  <2>8. CASE Run(t)
    BY <2>8 DEF TypeOK, Run, Goto, Counted
  <2>9. CASE EndRun(t)
    BY <2>9 DEF TypeOK, EndRun, Succeed, Break, Give, Goto, Counted
  <2>10. CASE Acquire(t)
    BY <2>10 DEF TypeOK, Acquire, Goto, Counted
  <2>11. CASE Panic(t)
    BY <2>11 DEF TypeOK, Panic, End, Goto, Counted
  <2>12. CASE Record(t)
    BY <2>12 DEF TypeOK, Record, End, Goto, Counted
  <2> QED
    BY <1>2, <2>3, <2>4, <2>5, <2>6, <2>7, <2>8, <2>9, <2>10, <2>11, <2>12 DEF TaskStep
<1>3. ASSUME NEW t \in Tasks, Start(t)
      PROVE  /\ t \notin Counted /\ Counted' = Counted \cup {t}
             /\ dispatched' = dispatched + 1 /\ admitted' = admitted
  BY <1>3 DEF TypeOK, Start, Goto, Counted
<1>4. ASSUME NEW t \in Tasks, WithinTasks(t)
      PROVE  /\ t \in Counted /\ Counted' = Counted /\ dispatched' = dispatched
             /\ dispatched < MaxTasks /\ admitted' = admitted \cup {t}
  BY <1>4, LimitsAreNumbers DEF TypeOK, WithinTasks, TasksExhausted, Goto, Counted
<1> QED
  BY <1>0, <1>1, <1>2, <1>3, <1>4 DEF Next

\* Every step keeps the count.
LEMMA CountStep ==
  ASSUME TypeOK, CountInv, [Next]_vars
  PROVE  CountInv'
<1>1. IsFiniteSet(Counted)
  BY TasksFinite, FS_Subset DEF Counted
<1>2. CASE Counted' = Counted /\ dispatched' = dispatched /\ admitted' = admitted
  BY <1>2 DEF CountInv, TaskCap
<1>3. ASSUME NEW t \in Tasks, t \notin Counted, Counted' = Counted \cup {t},
             dispatched' = dispatched + 1, admitted' = admitted
      PROVE  CountInv'
  <2>1. Cardinality(Counted') = Cardinality(Counted) + 1
    BY <1>1, <1>3, FS_AddElement
  <2> QED
    BY <1>3, <2>1 DEF CountInv, TaskCap
<1>4. ASSUME NEW t \in Tasks, t \in Counted, Counted' = Counted, dispatched' = dispatched,
             dispatched < MaxTasks, admitted' = admitted \cup {t}
      PROVE  CountInv'
  <2>1. admitted' \subseteq Counted
    BY <1>4 DEF CountInv
  <2>2. Cardinality(admitted') <= Cardinality(Counted)
    BY <1>1, <2>1, FS_Subset
  <2>3. /\ Cardinality(Counted) = dispatched /\ dispatched \in Nat
        /\ MaxTasks \in Nat /\ Cardinality(admitted') \in Nat
    BY <1>1, <2>1, FS_Subset, FS_CardinalityType, LimitsAreNumbers DEF CountInv, TypeOK
  <2>4. TaskCap'
    BY <1>4, <2>2, <2>3 DEF TaskCap
  <2> QED
    BY <1>4, <2>1, <2>3, <2>4 DEF CountInv
<1> QED
  BY <1>2, <1>3, <1>4, CountedStep

\* At first nothing is counted.
LEMMA CountInit == Init => CountInv
<1> SUFFICES ASSUME Init PROVE CountInv
  OBVIOUS
<1>1. Counted = {} /\ admitted = {} /\ dispatched = 0
  BY DEF Init, Counted
<1> QED
  BY <1>1, FS_EmptySet, LimitsAreNumbers DEF CountInv, TaskCap

\* The tasks that pass the task budget stay below max_total_tasks, since
\* each counts itself before it compares.
THEOREM TasksAreCapped == Spec => []TaskCap
<1>1. Init => TypeOK /\ CountInv
  BY InitType, CountInit
<1>2. (TypeOK /\ CountInv) /\ [Next]_vars => (TypeOK /\ CountInv)'
  BY NextType, CountStep
<1>3. CountInv => TaskCap
  BY DEF CountInv
<1> QED
  BY <1>1, <1>2, <1>3, PTL DEF Spec

(***************************************************************************)
(* Cancellation                                                            *)
(***************************************************************************)

\* A run after cancel is the one whose check was behind it when cancel came:
\* once it began its task never again stands between the check and the run,
\* and a task that began after cancel never passes the check.
CancelInv ==
  \A t \in Tasks :
    /\ ~cancelled => late[t] = 0
    /\ cancelled /\ t \notin begun => late[t] = 0 /\ pc[t] \notin {"ready", "running"}
    /\ late[t] > 0 => late[t] = 1 /\ pc[t] # "ready"

\* Every step keeps it.
LEMMA CancelStep ==
  ASSUME TypeOK, CancelInv, [Next]_vars
  PROVE  CancelInv'
<1>0. CASE UNCHANGED vars
  BY <1>0 DEF vars, CancelInv
<1>1. CASE Cancel
  BY <1>1 DEF TypeOK, CancelInv, Cancel
<1>2. ASSUME NEW t \in Tasks, TaskStep(t) PROVE CancelInv'
  <2>1. CASE Run(t)
    BY <2>1 DEF TypeOK, CancelInv, Run, Goto
  <2>2. CASE NextAttempt(t)
    BY <2>2 DEF TypeOK, CancelInv, NextAttempt, Goto
  <2>3. CASE /\ UNCHANGED <<cancelled, begun, late>>
             /\ \E l \in PC \ {"ready", "running"} : Goto(t, l)
    BY <2>3 DEF TypeOK, CancelInv, Goto
  <2>4. /\ {"counted", "within", "waiting", "done", "granted", "cleared", "recording"}
             \subseteq PC \ {"ready", "running"}
    BY DEF PC, Holds
  <2>5. ASSUME ~Run(t), ~NextAttempt(t)
        PROVE  /\ UNCHANGED <<cancelled, begun, late>>
               /\ \E l \in PC \ {"ready", "running"} : Goto(t, l)
    BY <1>2, <2>4, <2>5
       DEF TaskStep, Start, WithinTasks, WithinSteps, Refuse, Acquire, PreCheck,
           StopCancelled, EndRun, Succeed, Break, Panic, Record, End, Give
  <2> QED
    BY <2>1, <2>2, <2>3, <2>5
<1> QED
  BY <1>0, <1>1, <1>2 DEF Next

\* At first nothing ran.
LEMMA CancelInit == Init => CancelInv
  BY DEF Init, CancelInv

\* After cancel a task under way runs its agent at most once more, and any
\* other task never.
THEOREM CancellationStops == Spec => []CancelStops
<1>1. Init => TypeOK /\ CancelInv
  BY InitType, CancelInit
<1>2. (TypeOK /\ CancelInv) /\ [Next]_vars => (TypeOK /\ CancelInv)'
  BY NextType, CancelStep
<1>3. TypeOK /\ CancelInv => CancelStops
  <2> SUFFICES ASSUME TypeOK, CancelInv, NEW t \in Tasks
               PROVE  late[t] <= IF t \in begun THEN 1 ELSE 0
    BY DEF CancelStops
  <2>1. late[t] \in Nat
    BY DEF TypeOK
  <2>2. late[t] <= 1
    BY <2>1 DEF CancelInv
  <2>3. t \notin begun => late[t] = 0
    BY <2>1 DEF CancelInv
  <2> QED
    BY <2>1, <2>2, <2>3
<1> QED
  BY <1>1, <1>2, <1>3, PTL DEF Spec

(***************************************************************************)
(* The budget of steps                                                     *)
(***************************************************************************)

\* Tasks whose result passed the post-check and is not recorded yet.
Unrecorded == {t \in Tasks : used[t] > 0}

StepBound == MaxSteps + (Permits - 1) * RunSteps

\* A result that waits to be recorded takes what a run may take, and its task
\* has its permit.
UsedInv ==
  \A t \in Tasks : used[t] <= RunSteps /\ (used[t] > 0 => pc[t] = "recording")

\* What is still to be recorded fits: each result counted in full, or all in
\* full but one, the one that passed the post-check last.
OverrunInv ==
  Guarded =>
    \/ consumed + RunSteps * Cardinality(Unrecorded) <= StepBound
    \/ \E t \in Unrecorded :
         consumed + used[t] + RunSteps * (Cardinality(Unrecorded) - 1) <= StepBound

\* Products of two numbers, which the provers take as they are elsewhere.
LEMMA OneMoreTime ==
  ASSUME NEW r \in Nat, NEW n \in Nat
  PROVE  r * n \in Nat /\ r * (n + 1) = r * n + r
  OBVIOUS

\* A product grows with its factor.
LEMMA TimesGrows ==
  ASSUME NEW r \in Nat, NEW m \in Nat, NEW n \in Nat, m <= n
  PROVE  r * m <= r * n
<1>1. r * (n - m) \in Nat /\ r * n = r * m + r * (n - m)
  OBVIOUS
<1> QED
  BY <1>1

\* A step leaves the counter and the results alone, adds a result that passed
\* the post-check, or records one.
LEMMA UsedStep ==
  ASSUME TypeOK, UsedInv, [Next]_vars
  PROVE  /\ UsedInv'
         /\ \/ used' = used /\ consumed' = consumed
            \/ \E t \in Tasks, steps \in 1..RunSteps :
                 /\ used[t] = 0 /\ t \in Holding
                 /\ used' = [used EXCEPT ![t] = steps] /\ consumed' = consumed
                 /\ Guarded => consumed + steps <= MaxSteps
            \/ \E t \in Unrecorded :
                 used' = [used EXCEPT ![t] = 0] /\ consumed' = consumed + used[t]
<1> DEFINE Kept == /\ UsedInv'
                   /\ \/ used' = used /\ consumed' = consumed
                      \/ \E t \in Tasks, steps \in 1..RunSteps :
                           /\ used[t] = 0 /\ t \in Holding
                           /\ used' = [used EXCEPT ![t] = steps] /\ consumed' = consumed
                           /\ Guarded => consumed + steps <= MaxSteps
                      \/ \E t \in Unrecorded :
                           used' = [used EXCEPT ![t] = 0] /\ consumed' = consumed + used[t]
<1> SUFFICES Kept
  OBVIOUS
<1>a. RunSteps \in Nat /\ MaxSteps \in Nat
  BY LimitsAreNumbers
<1>0. CASE UNCHANGED vars
  BY <1>0 DEF vars, UsedInv
<1>1. CASE Cancel
  BY <1>1 DEF Cancel, UsedInv
<1>2. ASSUME NEW t \in Tasks, pc[t] # "recording", used' = used, consumed' = consumed,
             NEW l \in PC, Goto(t, l)
      PROVE  Kept
  BY <1>2 DEF TypeOK, UsedInv, Goto
<1>3. ASSUME NEW t \in Tasks, pc[t] # "recording", NEW kind \in Kinds, Give(t, kind, 0),
             consumed' = consumed
      PROVE  Kept
  <2>1. used[t] = 0 /\ used' = used
    BY <1>3 DEF TypeOK, UsedInv, Give
  <2> QED
    BY <1>3, <2>1 DEF TypeOK, UsedInv, Give, Goto
<1>4. ASSUME NEW t \in Tasks, NEW steps \in 0..RunSteps, Succeed(t, steps)
      PROVE  Kept
  <2>1. used[t] = 0 /\ t \in Holding /\ pc[t] = "running" /\ consumed' = consumed
    <3>1. pc[t] = "running" /\ consumed' = consumed
      BY <1>4 DEF Succeed
    <3>2. used[t] \in Nat /\ ~(used[t] > 0)
      BY <3>1 DEF TypeOK, UsedInv
    <3> QED
      BY <3>1, <3>2 DEF Holding, Holds
  <2>2. CASE PostRejects(steps) \/ steps = 0
    <3>1. \E kind \in Kinds : Give(t, kind, 0)
      BY <1>4, <2>2 DEF Succeed, Kinds
    <3> QED
      BY <1>3, <2>1, <3>1
  <2>3. CASE ~PostRejects(steps) /\ steps > 0
    <3>1. Give(t, "Success", steps) /\ steps \in 1..RunSteps /\ consumed \in Nat
      BY <1>4, <1>a, <2>3 DEF Succeed, TypeOK
    <3>2. used' = [used EXCEPT ![t] = steps] /\ pc' = [pc EXCEPT ![t] = "recording"]
      BY <3>1 DEF Give, Goto
    <3>3. Guarded => consumed + steps <= MaxSteps
      BY <1>a, <2>3, <3>1 DEF PostRejects
    <3>4. UsedInv'
      BY <1>a, <3>1, <3>2 DEF TypeOK, UsedInv
    <3> QED
      BY <2>1, <3>1, <3>2, <3>3, <3>4
  <2> QED
    BY <1>a, <2>2, <2>3
<1>5. ASSUME NEW t \in Tasks, Record(t)
      PROVE  Kept
  <2>1. /\ used' = [used EXCEPT ![t] = 0] /\ consumed' = consumed + used[t]
        /\ used[t] \in Nat /\ consumed \in Nat
        /\ pc' = [pc EXCEPT ![t] = "done"]
    BY <1>5 DEF TypeOK, Record, End, Goto
  <2>2. UsedInv'
    BY <1>a, <2>1 DEF TypeOK, UsedInv
  <2>3. CASE used[t] = 0
    BY <2>1, <2>2, <2>3 DEF TypeOK
  <2>4. CASE used[t] > 0
    BY <2>1, <2>2, <2>4 DEF Unrecorded
  <2> HIDE DEF Kept
  <2> QED
    BY <2>1, <2>3, <2>4
<1>6. ASSUME NEW t \in Tasks, TaskStep(t), ~Record(t) PROVE Kept
  <2>1. {"counted", "within", "waiting", "done", "granted", "cleared", "ready", "running"}
          \subseteq PC
    BY DEF PC, Holds
  <2>2. CASE Start(t) \/ WithinTasks(t) \/ WithinSteps(t) \/ Refuse(t) \/ Acquire(t)
    BY <1>2, <2>1, <2>2 DEF Start, WithinTasks, WithinSteps, Refuse, End, Acquire
  <2>3. CASE PreCheck(t)
    BY <1>2, <1>3, <2>1, <2>3 DEF PreCheck, Kinds
  <2>4. CASE StopCancelled(t)
    BY <1>3, <2>4 DEF StopCancelled, Kinds
  <2>5. CASE NextAttempt(t) \/ Run(t) \/ Panic(t)
    BY <1>2, <2>1, <2>5 DEF NextAttempt, Run, Panic, End
  <2>6. ASSUME NEW kind \in {"Transient", "Permanent"}, Break(t, kind) PROVE Kept
    BY <1>2, <1>3, <2>1, <2>6 DEF Break, Kinds
  <2> QED
    BY <1>4, <1>6, <2>2, <2>3, <2>4, <2>5, <2>6 DEF TaskStep, EndRun
<1> QED
  BY <1>0, <1>1, <1>5, <1>6 DEF Next

\* The results that wait are finitely many.
LEMMA UnrecordedFinite == IsFiniteSet(Unrecorded) /\ Cardinality(Unrecorded) \in Nat
<1>1. IsFiniteSet(Unrecorded)
  BY TasksFinite, FS_Subset DEF Unrecorded
<1> QED
  BY <1>1, FS_CardinalityType

\* Every step keeps the overrun within its bound.
LEMMA OverrunStep ==
  ASSUME TypeOK, PermitsConserved, UsedInv, OverrunInv, [Next]_vars
  PROVE  OverrunInv'
<1> DEFINE n == Cardinality(Unrecorded)
           r == RunSteps
<1>a. /\ r \in Nat /\ n \in Nat /\ MaxSteps \in Nat /\ consumed \in Nat
      /\ Permits \in Nat \ {0} /\ used \in [Tasks -> Nat]
  BY LimitsAreNumbers, PermitsType, UnrecordedFinite DEF TypeOK
<1>b. StepBound' = StepBound /\ StepBound = MaxSteps + (Permits - 1) * r /\ StepBound \in Nat
  BY <1>a, OneMoreTime DEF StepBound, Permits
<1> SUFFICES ASSUME Guarded PROVE OverrunInv'
  BY DEF OverrunInv
<1>1. CASE used' = used /\ consumed' = consumed
  BY <1>1, <1>b DEF OverrunInv, Unrecorded
<1>2. ASSUME NEW t \in Tasks, NEW steps \in 1..RunSteps, used[t] = 0, t \in Holding,
             used' = [used EXCEPT ![t] = steps], consumed' = consumed,
             consumed + steps <= MaxSteps
      PROVE  OverrunInv'
  <2>1. t \notin Unrecorded /\ Unrecorded' = Unrecorded \cup {t} /\ used'[t] = steps
    BY <1>a, <1>2 DEF Unrecorded
  <2>2. Cardinality(Unrecorded') = n + 1
    BY <2>1, UnrecordedFinite, FS_AddElement
  <2>3. n <= Permits - 1
    <3>1. Unrecorded \cup {t} \subseteq Holding
      BY <1>2 DEF UsedInv, Unrecorded, Holding, Holds
    <3>2. Cardinality(Unrecorded') <= Cardinality(Holding)
      BY <2>1, <3>1, HoldersFinite, FS_Subset
    <3>3. Cardinality(Holding) <= Permits
      BY <1>a, HoldersFinite DEF TypeOK, PermitsConserved
    <3> QED
      BY <1>a, <2>2, <3>2, <3>3, HoldersFinite
  <2>4. r * n <= r * (Permits - 1)
    BY <1>a, <2>3, TimesGrows
  <2>5. r * (Permits - 1) = (Permits - 1) * r
    BY <1>a
  <2>6. consumed' + used'[t] + r * (Cardinality(Unrecorded') - 1) <= StepBound'
    <3> DEFINE a == r * n
               b == (Permits - 1) * r
    <3>1. a \in Nat /\ b \in Nat /\ a <= b /\ StepBound = MaxSteps + b
      BY <1>a, <1>b, <2>4, <2>5, OneMoreTime
    <3>2. Cardinality(Unrecorded') - 1 = n
      BY <1>a, <2>2
    <3>3. r * (Cardinality(Unrecorded') - 1) = a
      BY <3>2
    <3> HIDE DEF a, b
    <3> QED
      BY <1>a, <1>b, <1>2, <2>1, <3>1, <3>3
  <2> QED
    BY <2>1, <2>6 DEF OverrunInv
<1>3. ASSUME NEW t \in Unrecorded, used' = [used EXCEPT ![t] = 0], consumed' = consumed + used[t]
      PROVE  OverrunInv'
  <2>1. /\ Unrecorded' = Unrecorded \ {t} /\ used[t] \in Nat /\ used[t] <= r
        /\ \A u \in Unrecorded : u # t => used'[u] = used[u] /\ used[u] \in Nat
    BY <1>a, <1>3 DEF Unrecorded, UsedInv
  <2>2. Cardinality(Unrecorded') = n - 1 /\ n - 1 \in Nat
    <3>1. Cardinality(Unrecorded') = n - 1
      BY <1>3, <2>1, UnrecordedFinite, FS_RemoveElement
    <3>2. Cardinality(Unrecorded') \in Nat
      BY <2>1, UnrecordedFinite, FS_Subset, FS_CardinalityType
    <3> QED
      BY <3>1, <3>2
  <2> DEFINE m == r * (n - 1)
  <2>3. m \in Nat /\ r * n = m + r
    BY <1>a, <2>2, OneMoreTime
  <2>4. CASE consumed + r * n <= StepBound
    <3>1. consumed' + m <= StepBound'
      <4> HIDE DEF m
      <4> QED
        BY <1>a, <1>b, <1>3, <2>1, <2>3, <2>4
    <3> QED
      BY <2>2, <3>1 DEF OverrunInv
  <2>5. CASE consumed + used[t] + m <= StepBound
    BY <1>b, <1>3, <2>2, <2>5 DEF OverrunInv
  <2>6. ASSUME NEW u \in Unrecorded, u # t, consumed + used[u] + m <= StepBound
        PROVE  OverrunInv'
    <3>1. n - 1 # 0
      <4>1. u \in Unrecorded'
        BY <2>1, <2>6
      <4>2. IsFiniteSet(Unrecorded')
        BY <2>1, UnrecordedFinite, FS_Subset
      <4> QED
        BY <2>2, <4>1, <4>2, FS_EmptySet
    <3> DEFINE k == r * (n - 2)
    <3>2. n - 2 \in Nat /\ (n - 2) + 1 = n - 1 /\ (n - 1) - 1 = n - 2
      BY <1>a, <2>2, <3>1
    <3>3. k \in Nat /\ m = k + r
      BY <1>a, <3>2, OneMoreTime
    <3>4. r * (Cardinality(Unrecorded') - 1) = k
      BY <2>2, <3>2
    <3>5. consumed' + used'[u] + k <= StepBound'
      <4> HIDE DEF m, k
      <4> QED
        BY <1>a, <1>b, <1>3, <2>1, <2>6, <3>3
    <3> QED
      BY <2>1, <2>6, <3>4, <3>5 DEF OverrunInv
  <2> QED
    BY <2>4, <2>5, <2>6 DEF OverrunInv
<1> QED
  BY <1>1, <1>2, <1>3, UsedStep

\* At first nothing waits to be recorded.
LEMMA OverrunInit == Init => UsedInv /\ OverrunInv
<1> SUFFICES ASSUME Init PROVE UsedInv /\ OverrunInv
  OBVIOUS
<1>1. UsedInv /\ Unrecorded = {} /\ consumed = 0
  BY LimitsAreNumbers DEF Init, UsedInv, Unrecorded
<1>2. Cardinality(Unrecorded) = 0
  BY <1>1, FS_EmptySet
<1>3. (Permits - 1) * RunSteps \in Nat /\ RunSteps * 0 = 0 /\ MaxSteps \in Nat
  BY PermitsType, LimitsAreNumbers
<1> QED
  BY <1>1, <1>2, <1>3 DEF OverrunInv, StepBound

\* With the budget guardrail the step budget is exceeded by at most one result
\* for every permit but one.
THEOREM OverrunIsBounded == Spec => []StepOverrunBounded
<1>1. Init => TypeOK /\ PermitsConserved /\ UsedInv /\ OverrunInv
  BY InitType, PermitsInit, OverrunInit
<1>2. (TypeOK /\ PermitsConserved /\ UsedInv /\ OverrunInv) /\ [Next]_vars
        => (TypeOK /\ PermitsConserved /\ UsedInv /\ OverrunInv)'
  BY NextType, PermitsStep, UsedStep, OverrunStep
<1>3. TypeOK /\ OverrunInv => StepOverrunBounded
  <2> SUFFICES ASSUME TypeOK, OverrunInv, Guarded PROVE consumed <= StepBound
    BY DEF StepOverrunBounded, StepBound
  <2>1. /\ consumed \in Nat /\ StepBound \in Int /\ used \in [Tasks -> Nat]
        /\ RunSteps \in Nat /\ Cardinality(Unrecorded) \in Nat
    BY PermitsType, LimitsAreNumbers, UnrecordedFinite DEF TypeOK, StepBound
  <2>2. ASSUME NEW n \in Nat, consumed + RunSteps * n <= StepBound PROVE consumed <= StepBound
    BY <2>1, <2>2, OneMoreTime
  <2>3. ASSUME NEW t \in Unrecorded,
               consumed + used[t] + RunSteps * (Cardinality(Unrecorded) - 1) <= StepBound
        PROVE  consumed <= StepBound
    <3>1. Cardinality(Unrecorded) - 1 \in Nat
      BY <2>1, UnrecordedFinite, FS_EmptySet
    <3>2. RunSteps * (Cardinality(Unrecorded) - 1) \in Nat /\ used[t] \in Nat
      BY <2>1, <3>1, OneMoreTime DEF Unrecorded
    <3> QED
      BY <2>1, <2>3, <3>2
  <2> QED
    BY <2>1, <2>2, <2>3 DEF OverrunInv
<1> QED
  BY <1>1, <1>2, <1>3, PTL DEF Spec

(***************************************************************************)
(* The window of the rate limit                                            *)
(***************************************************************************)

\* Tasks the rate limit let pass, in the window that ends with the latest.
InWindow == {a \in accepted : ~Expired(a[2], Latest_ms)}

\* Each of them has a place of its own in the queue, which holds its time.
Placed(f) ==
  /\ f \in [InWindow -> 1..Len(seen_at_ms)]
  /\ \A a \in InWindow : seen_at_ms[f[a]] = a[2]
  /\ \A a, b \in InWindow : f[a] = f[b] => a = b

WindowInv ==
  /\ seen_at_ms \in Seq(Nat) /\ Len(seen_at_ms) <= GuardLimit
  /\ \E f : Placed(f)

\* A set of numbers that is not empty has a least element.
LEMMA Least ==
  ASSUME NEW A, A \subseteq Nat, A # {}
  PROVE  \E m \in A : \A k \in A : m <= k
<1> DEFINE R == OpToRel(<, Nat)
<1>1. \A x, y \in Nat : y < x => <<y, x>> \in R
  BY DEF OpToRel
<1>2. IsWellFoundedOn(R, Nat)
  BY NatLessThanWellFounded
<1> HIDE DEF R
<1>3. PICK m \in A : \A k \in A : ~(<<k, m>> \in R)
  BY <1>2, WFMin
<1>4. ASSUME NEW k \in A PROVE m <= k
  <2>1. m \in Nat /\ k \in Nat /\ ~(k < m)
    BY <1>1, <1>3
  <2> QED
    BY <2>1
<1> QED
  BY <1>4

\* One that has a bound has a greatest.
LEMMA GreatestBelow ==
  ASSUME NEW n \in Nat, NEW A, A \subseteq 0..n, A # {}
  PROVE  \E m \in A : \A k \in A : k <= m
<1> DEFINE B == {n - a : a \in A}
<1>1. B \subseteq Nat /\ B # {}
  <2>1. \A a \in A : n - a \in Nat
    OBVIOUS
  <2> QED
    BY <2>1
<1>2. \A a \in A : n - a \in B
  OBVIOUS
<1>3. \A x \in B : \E a \in A : x = n - a
  OBVIOUS
<1> HIDE DEF B
<1>4. PICK x \in B : \A y \in B : x <= y
  BY <1>1, Least
<1>5. PICK m \in A : x = n - m
  BY <1>3
<1> QED
  BY <1>2, <1>4, <1>5

\* What is trimmed is a number of times in front, all of them expired; all of the
\* queue, or up to one that is not.
LEMMA Trimmed ==
  ASSUME NEW q \in Seq(Nat), NEW now \in Nat
  PROVE  /\ TrimExpired(q, now) \in Seq(Nat)
         /\ \E k \in 0..Len(q) :
              /\ Len(TrimExpired(q, now)) = Len(q) - k
              /\ \A i \in 1..(Len(q) - k) : TrimExpired(q, now)[i] = q[i + k]
              /\ \A j \in 1..k : Expired(q[j], now)
<1> DEFINE Alive == {i \in DOMAIN q : ~Expired(q[i], now)}
           T == TrimExpired(q, now)
<1>1. DOMAIN q = 1..Len(q) /\ Len(q) \in Nat
  BY LenProperties
<1>2. CASE Alive = {}
  <2>1. T = <<>>
    BY <1>2 DEF TrimExpired
  <2>2. T \in Seq(Nat) /\ Len(T) = 0
    BY <2>1, EmptySeq
  <2>3. \A j \in 1..Len(q) : Expired(q[j], now)
    BY <1>1, <1>2
  <2> HIDE DEF T
  <2> QED
    BY <1>1, <2>2, <2>3 DEF T
<1>3. CASE Alive # {}
  <2> DEFINE m == CHOOSE i \in Alive : \A j \in Alive : i <= j
  <2>1. m \in Alive /\ \A j \in Alive : m <= j
    <3>1. Alive \subseteq Nat
      BY <1>1
    <3>2. \E i \in Alive : \A j \in Alive : i <= j
      BY <1>3, <3>1, Least
    <3> QED
      BY <3>2
  <2>2. T = SubSeq(q, m, Len(q))
    BY <1>3 DEF TrimExpired
  <2>3. m \in 1..Len(q)
    BY <1>1, <2>1
  <2>4. \A j \in 1..(m - 1) : Expired(q[j], now)
    BY <1>1, <2>1, <2>3
  <2> HIDE DEF m
  <2>5. /\ T \in Seq(Nat) /\ Len(T) = Len(q) - (m - 1)
        /\ \A i \in 1..(Len(q) - (m - 1)) : T[i] = q[i + (m - 1)]
    BY <1>1, <2>2, <2>3, SubSeqProperties
  <2>6. m - 1 \in 0..Len(q)
    BY <1>1, <2>3
  <2> HIDE DEF T
  <2> QED
    BY <2>4, <2>5, <2>6 DEF T
<1> QED
  BY <1>2, <1>3

\* The latest time of a set of tasks that were let through.
LatestOf(A) ==
  LET Times == {a[2] : a \in A} IN
  IF Times = {} THEN 0 ELSE CHOOSE n \in Times : \A m \in Times : m <= n

\* It is one of theirs, and none is later.
LEMMA LatestIsGreatest ==
  ASSUME NEW A, A \subseteq GuardedTasks \X (0..MaxClock)
  PROVE  /\ LatestOf(A) \in 0..MaxClock
         /\ \A a \in A : a[2] <= LatestOf(A)
         /\ IF A = {} THEN LatestOf(A) = 0 ELSE \E a \in A : a[2] = LatestOf(A)
<1> DEFINE Times == {a[2] : a \in A}
<1>0. MaxClock \in Nat
  BY GuardAssumption
<1>1. Times \subseteq 0..MaxClock
  OBVIOUS
<1>2. \A a \in A : a[2] \in Times
  OBVIOUS
<1>3. \A n \in Times : \E a \in A : a[2] = n
  OBVIOUS
<1>4. LatestOf(A) = IF Times = {} THEN 0 ELSE CHOOSE n \in Times : \A m \in Times : m <= n
  BY DEF LatestOf
<1> HIDE DEF Times
<1>6. CASE Times = {}
  <2>1. A = {} /\ LatestOf(A) = 0
    BY <1>2, <1>4, <1>6
  <2> QED
    BY <1>0, <2>1
<1>7. CASE Times # {}
  <2>1. \E n \in Times : \A m \in Times : m <= n
    BY <1>0, <1>1, <1>7, GreatestBelow
  <2>2. LatestOf(A) \in Times /\ \A m \in Times : m <= LatestOf(A)
    BY <1>4, <1>7, <2>1
  <2>3. A # {}
    BY <1>3, <1>7
  <2> QED
    BY <1>1, <1>2, <1>3, <2>2, <2>3
<1> QED
  BY <1>6, <1>7

\* Every step keeps the types.
LEMMA GuardType ==
  ASSUME GuardTypeOK, [GuardNext]_guardVars
  PROVE  GuardTypeOK'
<1> DEFINE Stages == {"new", "context", "begun", "running", "refused", "done"}
<1>0. MaxClock \in Nat
  BY GuardAssumption
<1>1. CASE UNCHANGED guardVars
  BY <1>1 DEF GuardTypeOK, guardVars
<1>2. CASE GuardTick
  BY <1>0, <1>2 DEF GuardTypeOK, GuardTick
<1>3. CASE CancelAll
  BY <1>3 DEF GuardTypeOK, CancelAll
<1>4. ASSUME NEW t \in GuardedTasks, NEW stage \in Stages, Move(t, stage)
      PROVE  guard' \in [GuardedTasks -> [pc : Stages, at : 0..MaxClock, cancelled : BOOLEAN]]
  BY <1>4 DEF GuardTypeOK, Move
<1>5. ASSUME NEW t \in GuardedTasks, TakeContext(t) PROVE GuardTypeOK'
  BY <1>5 DEF GuardTypeOK, TakeContext
<1>6. ASSUME NEW t \in GuardedTasks, CheckPre(t) PROVE GuardTypeOK'
  <2>1. \E stage \in Stages : Move(t, stage)
    BY <1>6 DEF CheckPre
  <2>2. accepted' \subseteq accepted \cup {<<t, guard[t].at>>}
    BY <1>6 DEF CheckPre
  <2>3. guard[t].at \in 0..MaxClock
    BY DEF GuardTypeOK
  <2> QED
    BY <1>4, <1>6, <2>1, <2>2, <2>3 DEF GuardTypeOK, CheckPre
<1>7. ASSUME NEW t \in GuardedTasks, CheckMid(t) PROVE GuardTypeOK'
  BY <1>4, <1>7 DEF GuardTypeOK, CheckMid
<1>8. ASSUME NEW t \in GuardedTasks, NEW again \in BOOLEAN, AttemptFails(t, again)
      PROVE  GuardTypeOK'
  BY <1>4, <1>8 DEF GuardTypeOK, AttemptFails
<1>9. ASSUME NEW t \in GuardedTasks, NEW steps \in StepCounts, CheckPost(t, steps)
      PROVE  GuardTypeOK'
  BY <1>4, <1>9 DEF GuardTypeOK, CheckPost
<1> QED
  BY <1>1, <1>2, <1>3, <1>5, <1>6, <1>7, <1>8, <1>9 DEF GuardNext

\* A task the rate limit refuses leaves the queue as it is, since a queue that is
\* full when it was trimmed was not trimmed; any other step but the one that lets
\* a task pass does not touch it.
LEMMA WindowStep ==
  ASSUME GuardTypeOK, WindowInv, [GuardNext]_guardVars
  PROVE  \/ seen_at_ms' = seen_at_ms /\ accepted' = accepted
         \/ \E c \in 0..MaxClock, t \in GuardedTasks :
              /\ Len(TrimExpired(seen_at_ms, c)) < GuardLimit
              /\ seen_at_ms' = Append(TrimExpired(seen_at_ms, c), c)
              /\ accepted' = accepted \cup {<<t, c>>}
<1>1. ASSUME NEW t \in GuardedTasks, CheckPre(t), "rate_limit" \in Asked(t), Full(t)
      PROVE  seen_at_ms' = seen_at_ms /\ accepted' = accepted
  <2> DEFINE q == seen_at_ms
             T == TrimExpired(q, guard[t].at)
  <2>0. GuardLimit \in Nat /\ MaxClock \in Nat
    BY GuardAssumption
  <2>1. q \in Seq(Nat) /\ Len(q) \in Nat /\ Len(q) <= GuardLimit /\ guard[t].at \in Nat
    BY <2>0, LenProperties DEF WindowInv, GuardTypeOK
  <2>2. Len(T) >= GuardLimit /\ q' = T /\ accepted' = accepted
    BY <1>1 DEF CheckPre, Full
  <2>3. /\ T \in Seq(Nat)
        /\ \E k \in 0..Len(q) :
             Len(T) = Len(q) - k /\ \A i \in 1..(Len(q) - k) : T[i] = q[i + k]
    BY <2>1, Trimmed
  <2>4. Len(T) = Len(q) /\ \A i \in 1..Len(q) : T[i] = q[i]
    <3> HIDE DEF T
    <3>1. PICK k \in 0..Len(q) :
             Len(T) = Len(q) - k /\ \A i \in 1..(Len(q) - k) : T[i] = q[i + k]
      BY <2>3
    <3>2. k = 0
      BY <2>0, <2>1, <2>2, <3>1
    <3>3. \A i \in 1..Len(q) : i + 0 = i /\ i \in 1..(Len(q) - 0)
      BY <2>1
    <3> QED
      BY <2>1, <3>1, <3>2, <3>3
  <2> HIDE DEF T
  <2>5. T = q
    BY <2>1, <2>3, <2>4, SeqEqual
  <2> QED
    BY <2>2, <2>5
<1>2. ASSUME NEW t \in GuardedTasks, CheckPre(t), "rate_limit" \in Asked(t), ~Full(t)
      PROVE  /\ guard[t].at \in 0..MaxClock
             /\ Len(TrimExpired(seen_at_ms, guard[t].at)) < GuardLimit
             /\ seen_at_ms' = Append(TrimExpired(seen_at_ms, guard[t].at), guard[t].at)
             /\ accepted' = accepted \cup {<<t, guard[t].at>>}
  <2> DEFINE T == TrimExpired(seen_at_ms, guard[t].at)
  <2>1. GuardLimit \in Nat /\ guard[t].at \in 0..MaxClock /\ MaxClock \in Nat
    BY GuardAssumption DEF GuardTypeOK
  <2>2. T \in Seq(Nat) /\ Len(T) \in Nat
    <3>1. seen_at_ms \in Seq(Nat) /\ guard[t].at \in Nat
      BY <2>1 DEF WindowInv
    <3> QED
      BY <3>1, Trimmed, LenProperties
  <2>3. ~(Len(T) >= GuardLimit)
    BY <1>2 DEF Full
  <2> HIDE DEF T
  <2>4. Len(T) < GuardLimit
    BY <2>1, <2>2, <2>3
  <2> USE DEF T
  <2> QED
    BY <1>2, <2>1, <2>4 DEF CheckPre
<1>3. ASSUME NEW t \in GuardedTasks, CheckPre(t), "rate_limit" \notin Asked(t)
      PROVE  seen_at_ms' = seen_at_ms /\ accepted' = accepted
  BY <1>3 DEF CheckPre
<1>4. ASSUME ~(\E t \in GuardedTasks : CheckPre(t))
      PROVE  seen_at_ms' = seen_at_ms /\ accepted' = accepted
  BY <1>4 DEF GuardNext, guardVars, GuardTick, CancelAll, TakeContext, CheckMid, AttemptFails,
              CheckPost
<1> QED
  BY <1>1, <1>2, <1>3, <1>4

\* So the window keeps its places.
LEMMA WindowKeeps ==
  ASSUME GuardTypeOK, WindowInv, [GuardNext]_guardVars
  PROVE  WindowInv'
<1>1. CASE seen_at_ms' = seen_at_ms /\ accepted' = accepted
  <2>1. InWindow' = InWindow
    BY <1>1 DEF InWindow, Latest_ms
  <2>2. PICK f : Placed(f)
    BY DEF WindowInv
  <2>3. Placed(f)'
    BY <1>1, <2>1, <2>2 DEF Placed
  <2> QED
    BY <1>1, <2>3 DEF WindowInv
<1>2. ASSUME NEW c \in 0..MaxClock, NEW t \in GuardedTasks,
             Len(TrimExpired(seen_at_ms, c)) < GuardLimit,
             seen_at_ms' = Append(TrimExpired(seen_at_ms, c), c),
             accepted' = accepted \cup {<<t, c>>}
      PROVE  WindowInv'
  <2> DEFINE q == seen_at_ms
             T == TrimExpired(q, c)
             new == <<t, c>>
  <2>0. /\ GuardLimit \in Nat /\ MaxClock \in Nat /\ GuardWindow \in Nat /\ c \in Nat
        /\ q \in Seq(Nat) /\ Len(q) \in Nat /\ new[2] = c
    BY GuardAssumption, LenProperties DEF WindowInv
  <2>1. PICK f : Placed(f)
    BY DEF WindowInv
  <2>2. T \in Seq(Nat) /\ Len(T) \in Nat
    BY <2>0, Trimmed, LenProperties
  <2>3. PICK k \in 0..Len(q) :
          /\ Len(T) = Len(q) - k
          /\ \A i \in 1..(Len(q) - k) : T[i] = q[i + k]
          /\ \A j \in 1..k : Expired(q[j], c)
    BY <2>0, Trimmed
  <2>4. /\ \A a \in accepted : a[2] <= Latest_ms /\ a[2] \in 0..MaxClock
        /\ Latest_ms \in 0..MaxClock
    <3>1. Latest_ms = LatestOf(accepted)
      BY DEF Latest_ms, LatestOf
    <3>2. accepted \subseteq GuardedTasks \X (0..MaxClock)
      BY DEF GuardTypeOK
    <3> QED
      BY <3>1, <3>2, LatestIsGreatest
  <2>5. /\ Latest_ms' \in 0..MaxClock /\ c <= Latest_ms'
        /\ Latest_ms <= Latest_ms'
    <3>1. Latest_ms = LatestOf(accepted) /\ Latest_ms' = LatestOf(accepted')
      BY DEF Latest_ms, LatestOf
    <3>2. /\ accepted \subseteq GuardedTasks \X (0..MaxClock)
          /\ accepted' \subseteq GuardedTasks \X (0..MaxClock)
      BY GuardType DEF GuardTypeOK
    <3>3. Latest_ms' \in 0..MaxClock /\ \A a \in accepted' : a[2] <= Latest_ms'
      BY <3>1, <3>2, LatestIsGreatest
    <3>4. c <= Latest_ms'
      BY <1>2, <2>0, <3>3
    <3>5. CASE accepted = {}
      <4>1. Latest_ms = 0
        BY <3>1, <3>2, <3>5, LatestIsGreatest
      <4> QED
        BY <2>0, <3>3, <3>4, <4>1
    <3>6. CASE accepted # {}
      <4>1. PICK a \in accepted : a[2] = Latest_ms
        BY <3>1, <3>2, <3>6, LatestIsGreatest
      <4> QED
        BY <1>2, <3>3, <3>4, <4>1
    <3> QED
      BY <3>5, <3>6
  <2> HIDE DEF T
  <2>6. ASSUME NEW a \in InWindow', a # new
        PROVE  a \in InWindow /\ f[a] \in (k + 1)..Len(q) /\ q[f[a]] = a[2]
    <3>1. a \in accepted /\ a[2] \in 0..MaxClock /\ ~(a[2] <= Latest_ms' - GuardWindow)
      BY <1>2, <2>4, <2>6 DEF InWindow, Expired
    <3>2. ~(a[2] <= Latest_ms - GuardWindow) /\ ~(a[2] <= c - GuardWindow)
      BY <2>0, <2>4, <2>5, <3>1
    <3>3. a \in InWindow
      BY <3>1, <3>2 DEF InWindow, Expired
    <3>4. f[a] \in 1..Len(q) /\ q[f[a]] = a[2]
      BY <2>1, <3>3 DEF Placed
    <3>5. f[a] \notin 1..k
      BY <2>3, <3>2, <3>4 DEF Expired
    <3> QED
      BY <2>0, <2>3, <3>3, <3>4, <3>5
  <2> DEFINE g == [a \in InWindow' |-> IF a = new THEN Len(T) + 1 ELSE f[a] - k]
  <2>7. /\ seen_at_ms' \in Seq(Nat) /\ Len(seen_at_ms') = Len(T) + 1
        /\ seen_at_ms'[Len(T) + 1] = c
        /\ \A i \in 1..Len(T) : seen_at_ms'[i] = T[i]
    BY <1>2, <2>0, <2>2, AppendProperties DEF T
  <2>8. ASSUME NEW a \in InWindow', a # new
        PROVE  g[a] = f[a] - k /\ g[a] \in 1..Len(T) /\ seen_at_ms'[g[a]] = a[2]
    <3>1. g[a] = f[a] - k /\ f[a] \in (k + 1)..Len(q) /\ q[f[a]] = a[2]
      BY <2>6, <2>8
    <3>2. f[a] - k \in 1..(Len(q) - k) /\ (f[a] - k) + k = f[a]
      BY <2>0, <2>3, <3>1
    <3>3. T[f[a] - k] = a[2] /\ f[a] - k \in 1..Len(T)
      BY <2>3, <3>1, <3>2
    <3> QED
      BY <2>7, <3>1, <3>3
  <2>9. new \in InWindow' => g[new] = Len(T) + 1
    OBVIOUS
  <2> PICK h : h = g
    OBVIOUS
  <2>10. Placed(h)'
    <3>1. g \in [InWindow' -> 1..(Len(T) + 1)]
      BY <2>2, <2>8, <2>9
    <3>2. \A a \in InWindow' : seen_at_ms'[g[a]] = a[2]
      BY <2>0, <2>7, <2>8, <2>9
    <3>3. ASSUME NEW a \in InWindow', NEW b \in InWindow', g[a] = g[b] PROVE a = b
      <4>1. CASE a # new /\ b # new
        <5>1. f[a] = f[b]
          <6>1. /\ g[a] = f[a] - k /\ g[b] = f[b] - k /\ f[a] \in Int /\ f[b] \in Int /\ k \in Int
            BY <2>0, <2>3, <2>6, <2>8, <4>1
          <6>2. g[a] = g[b]
            BY <3>3
          <6>3. \A x, y \in Int : x - k = y - k => x = y
            BY <6>1
          <6> HIDE DEF g
          <6> QED
            BY <6>1, <6>2, <6>3
        <5> QED
          BY <2>1, <2>6, <4>1, <5>1 DEF Placed
      <4>2. ASSUME NEW x \in InWindow', x # new PROVE g[x] # Len(T) + 1
        BY <2>2, <2>8, <4>2
      <4> QED
        BY <2>9, <3>3, <4>1, <4>2
    <3> HIDE DEF g
    <3> QED
      BY <2>7, <3>1, <3>2, <3>3 DEF Placed
  <2>11. Len(seen_at_ms') <= GuardLimit
    BY <1>2, <2>0, <2>2, <2>7 DEF T
  <2> HIDE DEF g
  <2> QED
    BY <2>7, <2>10, <2>11 DEF WindowInv
<1> QED
  BY <1>1, <1>2, WindowStep

\* At first the window is empty.
LEMMA WindowInit == GuardInit => GuardTypeOK /\ WindowInv
<1> SUFFICES ASSUME GuardInit PROVE GuardTypeOK /\ WindowInv
  OBVIOUS
<1>1. MaxClock \in Nat /\ GuardLimit \in Nat
  BY GuardAssumption
<1>2. GuardTypeOK
  <2>0. now_unix_ms \in 0..MaxClock
    BY <1>1 DEF GuardInit
  <2>1. /\ chain \in Chains /\ now_unix_ms \in 0..MaxClock /\ cancel \in BOOLEAN
        /\ accepted \subseteq GuardedTasks \X (0..MaxClock)
    BY <2>0, Zenon DEF GuardInit
  <2>2. guard \in [GuardedTasks ->
                    [pc : {"new", "context", "begun", "running", "refused", "done"},
                     at : 0..MaxClock, cancelled : BOOLEAN]]
    BY <1>1 DEF GuardInit
  <2> QED
    BY <2>1, <2>2 DEF GuardTypeOK
<1>3. InWindow = {} /\ seen_at_ms = <<>> /\ Len(<<>>) = 0
  BY EmptySeq DEF GuardInit, InWindow
<1>4. Placed([a \in {} |-> 0])
  BY <1>3 DEF Placed
<1>5. seen_at_ms \in Seq(Nat)
  BY <1>3, EmptySeq
<1> QED
  BY <1>1, <1>2, <1>3, <1>4, <1>5 DEF WindowInv

(* The guardrails keep their types: a task is asked at a time of the clock *)
(* and with the token as it was then (guardrails/chain.rs).                *)
THEOREM GuardsTyped == GuardSpec => []GuardTypeOK
<1>1. GuardInit => GuardTypeOK /\ WindowInv
  BY WindowInit
<1>2. (GuardTypeOK /\ WindowInv) /\ [GuardNext]_guardVars => (GuardTypeOK /\ WindowInv)'
  BY GuardType, WindowKeeps
<1> QED
  BY <1>1, <1>2, PTL DEF GuardSpec

\* The limit holds of the window that ends with the latest task let through,
\* although tasks come to the queue out of the order of their times.
THEOREM LatestWindowIsBounded == GuardSpec => []LatestWindowHolds
<1>1. GuardInit => GuardTypeOK /\ WindowInv
  BY WindowInit
<1>2. (GuardTypeOK /\ WindowInv) /\ [GuardNext]_guardVars => (GuardTypeOK /\ WindowInv)'
  BY GuardType, WindowKeeps
<1>3. WindowInv => LatestWindowHolds
  <2> SUFFICES ASSUME WindowInv PROVE Cardinality(InWindow) <= GuardLimit
    BY DEF LatestWindowHolds, InWindow
  <2> DEFINE n == Len(seen_at_ms)
  <2>1. n \in Nat /\ n <= GuardLimit /\ GuardLimit \in Nat
    BY GuardAssumption, LenProperties DEF WindowInv
  <2>2. PICK f : Placed(f)
    BY DEF WindowInv
  <2>3. f \in Injection(InWindow, 1..n)
    BY <2>2 DEF Placed, Injection, IsInjective
  <2>4. IsFiniteSet(1..n) /\ Cardinality(1..n) = n
    <3>1. 1 \in Int /\ n \in Int
      BY <2>1
    <3>2. IsFiniteSet(1..n) /\ Cardinality(1..n) = IF 1 > n THEN 0 ELSE n - 1 + 1
      BY <3>1, FS_Interval, Zenon
    <3> QED
      BY <2>1, <3>2
  <2>5. IsFiniteSet(InWindow) /\ Cardinality(InWindow) <= n
    BY <2>3, <2>4, FS_Injection
  <2>6. Cardinality(InWindow) \in Nat
    BY <2>5, FS_CardinalityType
  <2> QED
    BY <2>1, <2>5, <2>6
<1> QED
  BY <1>1, <1>2, <1>3, PTL DEF GuardSpec

(***************************************************************************)
(* The turns of the round robin                                            *)
(***************************************************************************)

\* A number has one quotient and one remainder.
LEMMA RemainderUnique ==
  ASSUME NEW n \in Nat \ {0}, NEW q \in Int, NEW r \in 0..(n - 1), NEW x \in Int, x = n * q + r
  PROVE  x % n = r
<1> DEFINE p == x \div n
           s == x % n
<1>1. p \in Int /\ s \in 0..(n - 1) /\ n * q + r = n * p + s
  OBVIOUS
<1> HIDE DEF p, s
<1>2. n * (q - p) = s - r
  BY <1>1
<1>3. q - p = 0
  <2>1. CASE q - p >= 1
    <3>1. n * (q - p) >= n
      BY <1>1, <2>1
    <3> QED
      BY <1>1, <1>2, <3>1
  <2>2. CASE q - p <= -1
    <3>1. n * (q - p) <= -n
      BY <1>1, <2>2
    <3> QED
      BY <1>1, <1>2, <3>1
  <2> QED
    BY <1>1, <2>1, <2>2
<1>4. s = r
  BY <1>1, <1>2, <1>3
<1> QED
  BY <1>4 DEF s

\* The position of the next number is the next position.
LEMMA NextRemainder ==
  ASSUME NEW n \in Nat \ {0}, NEW c \in Nat
  PROVE  (c + 1) % n = IF (c % n) + 1 = n THEN 0 ELSE (c % n) + 1
<1> DEFINE q == c \div n
           r == c % n
<1>1. q \in Int /\ r \in 0..(n - 1) /\ c = n * q + r
  OBVIOUS
<1> HIDE DEF q, r
<1>2. CASE r + 1 = n
  <2>1. c + 1 = n * (q + 1) + 0 /\ q + 1 \in Int /\ 0 \in 0..(n - 1)
    BY <1>1, <1>2
  <2>2. (c + 1) % n = 0
    BY <2>1, RemainderUnique
  <2> QED
    BY <1>2, <2>2 DEF r
<1>3. CASE r + 1 # n
  <2>1. c + 1 = n * q + (r + 1) /\ r + 1 \in 0..(n - 1)
    BY <1>1, <1>3
  <2>2. (c + 1) % n = r + 1
    BY <1>1, <2>1, RemainderUnique
  <2> QED
    BY <1>3, <2>2 DEF r
<1> QED
  BY <1>2, <1>3

\* An order of a finite set names each of its members at one position.
LEMMA OrderOfAll ==
  ASSUME NEW S, IsFiniteSet(S), NEW order \in Orders(S)
  PROVE  /\ Len(order) \in Nat /\ order \in [1..Len(order) -> S]
         /\ \A i, j \in 1..Len(order) : order[i] = order[j] => i = j
         /\ \A a \in S : \E i \in 1..Len(order) : order[i] = a
         /\ order = <<>> <=> Len(order) = 0
<1> DEFINE n == Cardinality(S)
<1>1. n \in Nat
  BY FS_CardinalityType
<1>2. order \in [1..n -> S] /\ \A i, j \in 1..n : order[i] = order[j] => i = j
  BY DEF Orders, Injection, IsInjective
<1>3. order \in Seq(S)
  BY <1>1, <1>2, SeqDef
<1>4. Len(order) \in Nat /\ DOMAIN order = 1..Len(order)
  BY <1>3, LenProperties
<1>5. Len(order) = n
  <2> DEFINE l == Len(order)
  <2>1. 1..l = 1..n /\ l \in Nat
    BY <1>2, <1>4
  <2> HIDE DEF l, n
  <2>2. l # 0 => l \in 1..n
    BY <1>1, <2>1
  <2>3. n # 0 => n \in 1..l
    BY <1>1, <2>1
  <2>4. l = n
    BY <1>1, <2>1, <2>2, <2>3
  <2> QED
    BY <2>4 DEF l
<1>6. IsFiniteSet(1..n) /\ Cardinality(1..n) = n
  <2>1. 1 \in Int /\ n \in Int
    BY <1>1
  <2>2. IsFiniteSet(1..n) /\ Cardinality(1..n) = IF 1 > n THEN 0 ELSE n - 1 + 1
    BY <2>1, FS_Interval, Zenon
  <2> HIDE DEF n
  <2> QED
    BY <1>1, <2>2
<1>7. order \in Surjection(1..n, S)
  <2>1. order \in Injection(1..n, S)
    BY DEF Orders
  <2> QED
    BY <1>6, <2>1, FS_Injection
<1>8. \A a \in S : \E i \in 1..n : order[i] = a
  BY <1>7 DEF Surjection
<1>9. order = <<>> <=> Len(order) = 0
  BY <1>3, <1>4, EmptySeq
<1> HIDE DEF n
<1> QED
  BY <1>1, <1>2, <1>5, <1>8, <1>9

RoutingTypes ==
  /\ counter \in 0..(CounterWidth - 1) /\ wraps \in Nat /\ share \in [Agents -> Nat]
  /\ Registered \subseteq Agents /\ profiles \in Orders(Registered)

\* Positions that had their turn in the present round, which began at position
\* s, when it is the turn of position p; both count from 0.
HadTurn(i, s, p) ==
  IF s <= p THEN s < i /\ i <= p ELSE s < i \/ i <= p

\* Since the counter last started over each agent got q tasks, or one more.
DealtFrom(old, q, s) ==
  /\ old \in [Registered -> Nat] /\ q \in Nat /\ s \in 0..(Len(profiles) - 1)
  /\ \A a, b \in Registered : old[a] <= old[b] + wraps
  /\ \A i \in 1..Len(profiles) :
       share[profiles[i]] = old[profiles[i]] + q +
         (IF HadTurn(i, s, counter % Len(profiles)) THEN 1 ELSE 0)

Dealt == profiles # <<>> => \E old, q, s : DealtFrom(old, q, s)

TurnsInv == RoutingTypes /\ (router = "round-robin" => Dealt)

\* An agent and its successor in the order of the turns.
LEMMA TurnAdvances ==
  ASSUME NEW n \in Nat \ {0}, NEW p \in 0..(n - 1), NEW s \in 0..(n - 1),
         NEW m \in Int, m = IF p + 1 = n THEN 0 ELSE p + 1
  PROVE  /\ m \in 0..(n - 1) /\ p + 1 \in 1..n /\ ~HadTurn(p + 1, s, p)
         /\ IF m = s
            THEN \A i \in 1..n : ~HadTurn(i, s, m) /\ (i # p + 1 => HadTurn(i, s, p))
            ELSE \A i \in 1..n : HadTurn(i, s, m) <=> HadTurn(i, s, p) \/ i = p + 1
<1>1. m \in 0..(n - 1) /\ p + 1 \in 1..n /\ ~HadTurn(p + 1, s, p)
  BY DEF HadTurn
<1>2. CASE m = s
  <2>1. ASSUME NEW i \in 1..n PROVE ~HadTurn(i, s, m) /\ (i # p + 1 => HadTurn(i, s, p))
    BY <1>2 DEF HadTurn
  <2> QED
    BY <1>1, <1>2, <2>1
<1>3. CASE m # s
  <2>1. ASSUME NEW i \in 1..n PROVE HadTurn(i, s, m) <=> HadTurn(i, s, p) \/ i = p + 1
    BY <1>3 DEF HadTurn
  <2> QED
    BY <1>1, <1>3, <2>1
<1> QED
  BY <1>2, <1>3

\* The agent whose turn it is gets one more task.
TurnTaken ==
  /\ RoutingTypes /\ profiles # <<>> /\ Dealt
  /\ router = "round-robin" /\ Turn /\ UNCHANGED registry
  /\ share' = [share EXCEPT ![profiles[(counter % Len(profiles)) + 1]] = @ + 1]
  /\ share' \in [Agents -> Nat]

\* So the shares stay even.
LEMMA TurnDeals ==
  ASSUME TurnTaken
  PROVE  Dealt'
<1> DEFINE n == Len(profiles)
           p == counter % n
           m == IF p + 1 = n THEN 0 ELSE p + 1
<1>0. /\ CounterWidth \in Nat \ {0} /\ counter \in Nat /\ wraps \in Nat
      /\ Registered' = Registered /\ profiles' = profiles /\ share \in [Agents -> Nat]
      /\ Registered \subseteq Agents
  BY RoutingAssumption DEF TurnTaken, RoutingTypes, registry, Registered
<1>1. /\ n \in Nat \ {0} /\ profiles \in [1..n -> Registered]
      /\ \A i, j \in 1..n : profiles[i] = profiles[j] => i = j
      /\ \A a \in Registered : \E i \in 1..n : profiles[i] = a
  <2>1. IsFiniteSet(Registered) /\ profiles \in Orders(Registered)
    BY RoutingAssumption, FS_Subset DEF TurnTaken, RoutingTypes
  <2> QED
    BY <2>1, OrderOfAll DEF TurnTaken
<1>2. p \in 0..(n - 1) /\ (counter + 1) % n = m
  <2> HIDE DEF n
  <2>1. n \in Nat \ {0} /\ counter \in Nat
    BY <1>0, <1>1
  <2>2. p \in 0..(n - 1)
    BY <2>1
  <2>3. (counter + 1) % n = IF (counter % n) + 1 = n THEN 0 ELSE (counter % n) + 1
    BY <2>1, NextRemainder
  <2> QED
    BY <2>2, <2>3
<1>3. PICK old, q, s : DealtFrom(old, q, s)
  BY DEF TurnTaken, Dealt
<1>4. /\ old \in [Registered -> Nat] /\ q \in Nat /\ s \in 0..(n - 1)
      /\ \A a, b \in Registered : old[a] <= old[b] + wraps
      /\ \A i \in 1..n : share[profiles[i]] = old[profiles[i]] + q + (IF HadTurn(i, s, p) THEN 1 ELSE 0)
  BY <1>3 DEF DealtFrom
<1>5. counter' = (counter + 1) % CounterWidth /\ wraps' = IF counter' = 0 THEN wraps + 1 ELSE wraps
  BY DEF TurnTaken, Turn
<1> HIDE DEF n, p
<1>6. /\ m \in 0..(n - 1) /\ p + 1 \in 1..n /\ ~HadTurn(p + 1, s, p)
      /\ IF m = s
         THEN \A i \in 1..n : ~HadTurn(i, s, m) /\ (i # p + 1 => HadTurn(i, s, p))
         ELSE \A i \in 1..n : HadTurn(i, s, m) <=> HadTurn(i, s, p) \/ i = p + 1
  <2>1. m = IF p + 1 = n THEN 0 ELSE p + 1
    OBVIOUS
  <2>2. n \in Nat \ {0} /\ p \in 0..(n - 1) /\ s \in 0..(n - 1)
    BY <1>1, <1>2, <1>4
  <2>3. m \in Int
    BY <2>2
  <2> HIDE DEF m
  <2> QED
    BY <2>1, <2>2, <2>3, TurnAdvances
<1> HIDE DEF m
<1> PICK q2 : q2 = IF m = s THEN q + 1 ELSE q
  OBVIOUS
\* Each agent's share, after the turn.
<1>7. \A i \in 1..n : share'[profiles[i]] = old[profiles[i]] + q2 +
                        (IF HadTurn(i, s, m) THEN 1 ELSE 0)
  <2> SUFFICES ASSUME NEW i \in 1..n
               PROVE  share'[profiles[i]] = old[profiles[i]] + q2 +
                        (IF HadTurn(i, s, m) THEN 1 ELSE 0)
    OBVIOUS
  <2>1. /\ profiles[i] \in Agents /\ profiles[i] \in Registered
        /\ old[profiles[i]] \in Nat /\ share[profiles[i]] \in Nat
    BY <1>0, <1>1, <1>4
  <2>2. share[profiles[i]] = old[profiles[i]] + q + (IF HadTurn(i, s, p) THEN 1 ELSE 0)
    BY <1>4
  <2>3. share' = [share EXCEPT ![profiles[p + 1]] = @ + 1]
    BY DEF TurnTaken, p, n
  <2>4. CASE i = p + 1
    <3>1. share'[profiles[i]] = share[profiles[i]] + 1
      BY <1>0, <2>1, <2>3, <2>4
    <3>2. ~HadTurn(i, s, p) /\ (IF m = s THEN ~HadTurn(i, s, m) ELSE HadTurn(i, s, m))
      BY <1>6, <2>4
    <3> QED
      BY <1>4, <2>1, <2>2, <3>1, <3>2
  <2>5. CASE i # p + 1
    <3>1. profiles[i] # profiles[p + 1]
      BY <1>1, <1>6, <2>5
    <3>2. share'[profiles[i]] = share[profiles[i]]
      BY <1>0, <2>1, <2>3, <3>1
    <3>3. IF m = s THEN HadTurn(i, s, p) /\ ~HadTurn(i, s, m)
          ELSE HadTurn(i, s, m) <=> HadTurn(i, s, p)
      BY <1>6, <2>5
    <3>4. CASE m = s
      BY <1>4, <2>1, <2>2, <3>2, <3>3, <3>4
    <3>5. CASE m # s
      <4>1. q2 = q
        BY <3>5
      <4>2. CASE HadTurn(i, s, p)
        BY <2>2, <3>2, <3>3, <3>5, <4>1, <4>2
      <4>3. CASE ~HadTurn(i, s, p)
        BY <2>2, <3>2, <3>3, <3>5, <4>1, <4>3
      <4> QED
        BY <4>2, <4>3
    <3> QED
      BY <3>4, <3>5
  <2> QED
    BY <2>4, <2>5
<1>8. q2 \in Nat
  BY <1>4
<1>9. CASE counter' = 0
  <2>0. PICK new : new = [a \in Registered |-> share'[a]]
    OBVIOUS
  <2>1. new \in [Registered -> Nat] /\ \A a \in Registered : new[a] = share'[a]
    BY <1>0, <2>0 DEF TurnTaken
  <2>2. ASSUME NEW a \in Registered, NEW b \in Registered PROVE new[a] <= new[b] + wraps'
    <3>1. PICK i \in 1..n : profiles[i] = a
      BY <1>1
    <3>2. PICK j \in 1..n : profiles[j] = b
      BY <1>1
    <3> PICK x \in 0..1 : x = IF HadTurn(i, s, m) THEN 1 ELSE 0
      OBVIOUS
    <3> PICK y \in 0..1 : y = IF HadTurn(j, s, m) THEN 1 ELSE 0
      OBVIOUS
    <3>3. new[a] = old[a] + q2 + x /\ new[b] = old[b] + q2 + y
      BY <1>7, <2>1, <3>1, <3>2
    <3>4. old[a] \in Nat /\ old[b] \in Nat /\ old[a] <= old[b] + wraps
      BY <1>4
    <3>5. wraps' = wraps + 1
      BY <1>5, <1>9
    <3> DEFINE oa == old[a]
               ob == old[b]
    <3>6. oa \in Nat /\ ob \in Nat /\ oa <= ob + wraps /\ wraps \in Nat /\ q2 \in Nat
      BY <1>0, <1>8, <3>4
    <3>7. new[a] = oa + q2 + x /\ new[b] = ob + q2 + y
      BY <3>3
    <3> HIDE DEF oa, ob
    <3>8. oa + q2 + x <= ob + q2 + y + (wraps + 1)
      BY <3>6
    <3> QED
      BY <3>5, <3>7, <3>8
  <2>3. 0 % n = 0
    BY <1>1
  <2>4. \A i \in 1..n : share'[profiles[i]] = new[profiles[i]] + 0 +
                          (IF HadTurn(i, 0, 0) THEN 1 ELSE 0)
    <3>1. \A i \in 1..n : ~HadTurn(i, 0, 0)
      BY DEF HadTurn
    <3>2. \A i \in 1..n : new[profiles[i]] = share'[profiles[i]] /\ new[profiles[i]] \in Nat
      BY <1>1, <2>1
    <3> QED
      BY <3>1, <3>2
  <2>5. counter' % n = 0
    BY <1>9, <2>3
  <2>6. DealtFrom(new, 0, 0)'
    <3>1. new \in [Registered -> Nat] /\ 0 \in 0..(n - 1) /\ n' = n
      BY <1>0, <1>1, <2>1 DEF n
    <3>2. \A i \in 1..n : share'[profiles[i]] = new[profiles[i]] + 0 +
                      (IF HadTurn(i, 0, counter' % n) THEN 1 ELSE 0)
      BY <2>4, <2>5
    <3> QED
      BY <1>0, <2>2, <3>1, <3>2 DEF DealtFrom, n
  <2> QED
    BY <2>6 DEF Dealt
<1>10. CASE counter' # 0
  <2>1. counter' = counter + 1
    <3>1. counter \in 0..(CounterWidth - 1)
      BY DEF TurnTaken, RoutingTypes
    <3>2. CASE counter + 1 = CounterWidth
      BY <1>0, <1>5, <1>10, <3>2
    <3>3. CASE counter + 1 # CounterWidth
      BY <1>0, <1>5, <3>1, <3>3
    <3> QED
      BY <3>2, <3>3
  <2>2. counter' % n = m /\ wraps' = wraps
    BY <1>2, <1>5, <1>10, <2>1
  <2>3. DealtFrom(old, q2, s)'
    <3>1. \A i \in 1..n : share'[profiles[i]] = old[profiles[i]] + q2 +
                      (IF HadTurn(i, s, counter' % n) THEN 1 ELSE 0)
      BY <1>7, <2>2
    <3> QED
      BY <1>0, <1>4, <1>8, <2>2, <3>1 DEF DealtFrom, n
  <2> QED
    BY <2>3 DEF Dealt
<1> QED
  BY <1>9, <1>10

\* At first no agent is registered and nobody has a task.
LEMMA TurnsInit == RouteInit => TurnsInv
<1> SUFFICES ASSUME RouteInit PROVE TurnsInv
  OBVIOUS
<1>1. counter = 0 /\ wraps = 0 /\ profiles = <<>> /\ share = [a \in Agents |-> 0]
  BY DEF RouteInit
<1>2. Registered = {}
  BY DEF RouteInit, Registered
<1>3. CounterWidth \in Nat \ {0}
  BY RoutingAssumption
<1>4. profiles \in Orders(Registered)
  <2>1. Cardinality({}) = 0 /\ 1..0 = {}
    BY FS_EmptySet
  <2>2. <<>> \in [{} -> {}]
    BY EmptySeq, SeqDef
  <2> QED
    BY <1>1, <1>2, <2>1, <2>2 DEF Orders, Injection, IsInjective
<1> QED
  BY <1>1, <1>2, <1>3, <1>4 DEF TurnsInv, RoutingTypes, Dealt

\* An agent that is new begins the distribution anew.
LEMMA RegistrationDeals ==
  ASSUME TurnsInv, NEW a \in Agents, NEW role \in Roles, RegisterAgent(a, role)
  PROVE  TurnsInv'
<1>1. Registered' = Registered \cup {a}
  BY DEF RegisterAgent, Registered
<1>2. router' = router /\ counter' = counter
  BY DEF RegisterAgent
<1>3. CASE a \in Registered
  <2>1. Registered' = Registered /\ profiles' = profiles /\ share' = share /\ wraps' = wraps
    BY <1>1, <1>3 DEF RegisterAgent
  <2> QED
    BY <1>2, <2>1 DEF TurnsInv, RoutingTypes, Dealt, DealtFrom
<1>4. CASE a \notin Registered
  <2>1. /\ profiles' \in Orders(Registered') /\ Registered' \subseteq Agents
        /\ wraps' = 0 /\ share' = [b \in Agents |-> 0] /\ counter \in Nat
        /\ counter \in 0..(CounterWidth - 1)
    BY <1>1, <1>4, RoutingAssumption DEF RegisterAgent, TurnsInv, RoutingTypes
  <2>2. RoutingTypes'
    BY <1>2, <2>1 DEF RoutingTypes
  <2>3. ASSUME profiles' # <<>> PROVE Dealt'
    <3> PICK n : n = Len(profiles')
      OBVIOUS
    <3>1. n \in Nat \ {0} /\ profiles' \in [1..n -> Registered']
      <4>1. IsFiniteSet(Registered')
        BY <2>1, RoutingAssumption, FS_Subset
      <4> QED
        BY <2>1, <2>3, <4>1, OrderOfAll
    <3> PICK s : s = counter % n
      OBVIOUS
    <3>2. s \in 0..(n - 1)
      BY <2>1, <3>1
    <3> PICK old : old = [b \in Registered' |-> 0]
      OBVIOUS
    <3>3. \A i \in 1..n : ~HadTurn(i, s, s)
      BY <3>1, <3>2 DEF HadTurn
    <3>4. \A i \in 1..n : share'[profiles'[i]] = 0 /\ old[profiles'[i]] = 0
      BY <2>1, <3>1
    <3>5. DealtFrom(old, 0, s)'
      BY <1>2, <2>1, <3>2, <3>3, <3>4 DEF DealtFrom
    <3> QED
      BY <3>5 DEF Dealt
  <2> QED
    BY <2>2, <2>3 DEF TurnsInv, Dealt
<1> QED
  BY <1>3, <1>4

\* A task that is routed takes a turn of the round robin, and no other router's.
LEMMA RouteToDeals ==
  ASSUME TurnsInv, NEW t \in RoutedTasks, NEW next, RouteTo(t, next)
  PROVE  TurnsInv'
<1>1. /\ RoutingTypes /\ CounterWidth \in Nat \ {0}
      /\ router' = router /\ roleOf' = roleOf /\ profiles' = profiles
  BY RoutingAssumption DEF TurnsInv, RouteTo, registry
<1>2. share' \in [Agents -> Nat]
  <2>1. CASE share' = share
    BY <1>1, <2>1 DEF RoutingTypes
  <2>2. ASSUME NEW a, share' = [share EXCEPT ![a] = @ + 1] PROVE share' \in [Agents -> Nat]
    <3>1. share \in [Agents -> Nat]
      BY <1>1 DEF RoutingTypes
    <3>2. CASE a \in Agents
      BY <2>2, <3>1, <3>2
    <3>3. CASE a \notin Agents
      <4>1. share' = share
        BY <2>2, <3>1, <3>3
      <4> QED
        BY <3>1, <4>1
    <3> QED
      BY <3>2, <3>3
  <2>3. share' = share \/ \E a : share' = [share EXCEPT ![a] = @ + 1]
    BY Zenon DEF RouteTo
  <2> QED
    BY <2>1, <2>2, <2>3
<1>3. counter' \in 0..(CounterWidth - 1) /\ wraps' \in Nat
  <2>1. CASE UNCHANGED <<counter, wraps>>
    BY <1>1, <2>1 DEF RoutingTypes
  <2>2. CASE /\ counter' = (counter + 1) % CounterWidth
             /\ wraps' = IF counter' = 0 THEN wraps + 1 ELSE wraps
    BY <1>1, <2>2 DEF RoutingTypes
  <2> QED
    BY <2>1, <2>2 DEF RouteTo, Turn
<1>4. Registered' = Registered
  BY <1>1 DEF Registered
<1>5. RoutingTypes'
  BY <1>1, <1>2, <1>3, <1>4 DEF RoutingTypes
<1>6. ASSUME router = "round-robin", profiles # <<>> PROVE Dealt'
  <2>1. Choice(t) = {profiles[(counter % Len(profiles)) + 1]}
    BY <1>6 DEF Choice
  <2>2. share' = [share EXCEPT ![profiles[(counter % Len(profiles)) + 1]] = @ + 1]
    BY <2>1 DEF RouteTo
  <2>3. TurnTaken
    BY <1>1, <1>2, <1>6, <2>2 DEF TurnTaken, TurnsInv, RouteTo
  <2> QED
    BY <2>3, TurnDeals
<1> QED
  BY <1>1, <1>5, <1>6 DEF TurnsInv, Dealt

\* Every step keeps the turns.
LEMMA TurnsKept ==
  ASSUME TurnsInv, [RouteNext]_routeVars
  PROVE  TurnsInv'
<1>1. CASE UNCHANGED <<router, counter, registry, share, wraps>>
  BY <1>1 DEF TurnsInv, RoutingTypes, Dealt, DealtFrom, registry, Registered
<1>2. ASSUME NEW a \in Agents, NEW role \in Roles, RegisterAgent(a, role) PROVE TurnsInv'
  BY <1>2, RegistrationDeals
<1>3. ASSUME NEW t \in RoutedTasks, RouteTask(t) PROVE TurnsInv'
  BY <1>3, RouteToDeals DEF RouteTask
<1>4. ASSUME NEW i \in DOMAIN Batch, RouteInBatch(i) PROVE TurnsInv'
  <2>1. Batch[i] \in RoutedTasks
    BY RoutingAssumption, LenProperties
  <2> QED
    BY <1>4, <2>1, RouteToDeals DEF RouteInBatch
<1>5. CASE UNCHANGED routeVars
  BY <1>1, <1>5 DEF routeVars
<1>6. ASSUME NEW t \in RoutedTasks, NEW success \in BOOLEAN,
             TrackSession(t) \/ EndTask(t, success)
      PROVE  TurnsInv'
  BY <1>1, <1>6 DEF TrackSession, EndTask
<1>7. ASSUME NEW s \in ManagedIds, RemoveManaged(s) PROVE TurnsInv'
  BY <1>1, <1>7 DEF RemoveManaged
<1>8. CASE SessionsAge
  BY <1>1, <1>8 DEF SessionsAge
<1> QED
  BY <1>2, <1>3, <1>4, <1>5, <1>6, <1>7, <1>8 DEF RouteNext

\* The round robin is even for any agents, tasks and width of its counter.
THEOREM RoundRobinIsEven == RouteSpec => []RoundRobinEven
<1>1. TurnsInv => RoundRobinEven
  <2> SUFFICES ASSUME TurnsInv, router = "round-robin",
                      NEW a \in Registered, NEW b \in Registered
               PROVE  share[a] <= share[b] + 1 + wraps
    BY DEF RoundRobinEven
  <2>1. RoutingTypes /\ IsFiniteSet(Registered)
    BY RoutingAssumption, FS_Subset DEF TurnsInv, RoutingTypes
  <2>2. /\ \A i \in 1..Len(profiles) : profiles[i] \in Registered
        /\ \A c \in Registered : \E i \in 1..Len(profiles) : profiles[i] = c
        /\ Len(profiles) \in Nat /\ (profiles = <<>> <=> Len(profiles) = 0)
    BY <2>1, OrderOfAll DEF RoutingTypes
  <2>3. PICK i \in 1..Len(profiles), j \in 1..Len(profiles) : profiles[i] = a /\ profiles[j] = b
    BY <2>2
  <2>4. profiles # <<>>
    BY <2>2, <2>3
  <2>5. PICK old, q, s : DealtFrom(old, q, s)
    BY <2>4 DEF TurnsInv, Dealt
  <2>6. old[a] \in Nat /\ old[b] \in Nat /\ q \in Nat /\ wraps \in Nat /\ old[a] <= old[b] + wraps
    BY <2>1, <2>5 DEF DealtFrom, RoutingTypes
  <2>7. PICK x \in 0..1 : share[a] = old[a] + q + x
    BY <2>3, <2>5 DEF DealtFrom
  <2>8. PICK y \in 0..1 : share[b] = old[b] + q + y
    BY <2>3, <2>5 DEF DealtFrom
  <2> DEFINE oa == old[a]
             ob == old[b]
  <2>9. /\ oa \in Nat /\ ob \in Nat /\ q \in Nat /\ wraps \in Nat /\ oa <= ob + wraps
        /\ share[a] = oa + q + x /\ share[b] = ob + q + y
    BY <2>6, <2>7, <2>8
  <2> HIDE DEF oa, ob
  <2> QED
    BY <2>9
<1> QED
  BY <1>1, TurnsInit, TurnsKept, PTL DEF RouteSpec
\* A task on its way to its session names one, and the list has room for
\* every session in it.
ListInv ==
  /\ TurnsInv /\ router \in Routers /\ roleOf \in [Registered -> Roles]
  /\ routed \in [RoutedTasks -> [pc : {"new", "routed", "running", "done"},
                                 agent : Agents \cup {Nothing}]]
  /\ \A t \in RoutedTasks : At(t, "routed") => Request[t].session # Nothing
  /\ DOMAIN managed \subseteq ManagedIds /\ Cardinality(DOMAIN managed) <= MaxManaged

LEMMA ManagedFinite ==
  /\ IsFiniteSet(ManagedIds)
  /\ \A S \in SUBSET ManagedIds :
       /\ IsFiniteSet(S) /\ Cardinality(S) \in Nat
       /\ \A T \in SUBSET S : Cardinality(T) <= Cardinality(S)
<1>1. IsFiniteSet(ManagedIds)
  <2> DEFINE f == [t \in RoutedTasks |-> Request[t].session]
             All == {f[t] : t \in RoutedTasks}
  <2>1. IsFiniteSet(RoutedTasks)
    BY RoutingAssumption
  <2>2. f \in Surjection(RoutedTasks, All)
    BY DEF Surjection, Range
  <2> HIDE DEF f
  <2>3. IsFiniteSet(All)
    BY <2>1, <2>2, FS_Surjection
  <2>4. ManagedIds \in SUBSET All
    BY DEF ManagedIds, f
  <2> HIDE DEF All
  <2> QED
    BY <2>3, <2>4, FS_Subset
<1>2. ASSUME NEW S \in SUBSET ManagedIds
      PROVE  /\ IsFiniteSet(S) /\ Cardinality(S) \in Nat
             /\ \A T \in SUBSET S : Cardinality(T) <= Cardinality(S)
  <2>1. IsFiniteSet(S)
    BY <1>1, FS_Subset
  <2> QED
    BY <2>1, FS_Subset, FS_CardinalityType
<1> QED
  BY <1>1, <1>2

\* Routers choose among the agents of the registry.
LEMMA ChosenAreAgents ==
  ASSUME ListInv, NEW t \in RoutedTasks
  PROVE  Choice(t) \subseteq Agents
<1>1. /\ Registered \subseteq Agents /\ profiles \in Orders(Registered)
      /\ counter \in Nat /\ router \in RouterNames
  BY RoutingAssumption DEF ListInv, TurnsInv, RoutingTypes
<1>2. IsFiniteSet(Registered)
  BY <1>1, RoutingAssumption, FS_Subset
<1>3. /\ \A i \in 1..Len(profiles) : profiles[i] \in Agents
      /\ Len(profiles) \in Nat /\ (profiles = <<>> <=> Len(profiles) = 0)
      /\ DOMAIN profiles = 1..Len(profiles)
  BY <1>1, <1>2, OrderOfAll DEF Orders, Injection
<1>4. \A S : FirstOf(S) \subseteq Agents
  BY <1>3 DEF FirstOf
<1>5. profiles # <<>> => (counter % Len(profiles)) + 1 \in 1..Len(profiles)
  BY <1>1, <1>3
<1> QED
  BY <1>1, <1>3, <1>4, <1>5 DEF Choice, RouterNames

LEMMA RouteToLists ==
  ASSUME ListInv, NEW t \in RoutedTasks, NEW next \in {"routed", "running"}, RouteTo(t, next),
         next = "routed" => Request[t].session # Nothing
  PROVE  ListInv'
<1>1. TurnsInv'
  BY RouteToDeals DEF ListInv
<1>2. /\ router' = router /\ roleOf' = roleOf /\ managed' = managed
      /\ Registered' = Registered
  BY DEF RouteTo, registry, Registered
<1>3. \/ routed' = [routed EXCEPT ![t].pc = "done"]
      \/ \E a \in Agents : routed' = [routed EXCEPT ![t] = [pc |-> next, agent |-> a]]
  BY ChosenAreAgents DEF RouteTo
<1> DEFINE TasksOK ==
             /\ routed' \in [RoutedTasks -> [pc : {"new", "routed", "running", "done"},
                                             agent : Agents \cup {Nothing}]]
             /\ \A u \in RoutedTasks : routed'[u].pc = "routed" => Request[u].session # Nothing
<1>4. TasksOK
  <2>1. CASE routed' = [routed EXCEPT ![t].pc = "done"]
    BY <2>1 DEF ListInv, At
  <2>2. ASSUME NEW a \in Agents, routed' = [routed EXCEPT ![t] = [pc |-> next, agent |-> a]]
        PROVE  TasksOK
    BY <2>2 DEF ListInv, At
  <2> HIDE DEF TasksOK
  <2> QED
    BY <1>3, <2>1, <2>2
<1> QED
  BY <1>1, <1>2, <1>4 DEF ListInv, At

\* A session is added only if there is room for it among those that remain.
LEMMA CreatedFits ==
  ASSUME ListInv, NEW s \in ManagedIds, NEW a, GetOrCreate(s, a)
  PROVE  DOMAIN managed' \subseteq ManagedIds /\ Cardinality(DOMAIN managed') <= MaxManaged
<1> DEFINE D == DOMAIN managed
           R == Remaining
           room == Cardinality(R) < MaxManaged
<1>1. MaxManaged \in Nat /\ D \in SUBSET ManagedIds /\ Cardinality(D) <= MaxManaged
  BY RoutingAssumption DEF ListInv
<1>2. R \in SUBSET D
  BY DEF Remaining
<1>3. IsFiniteSet(R) /\ Cardinality(R) \in Nat /\ Cardinality(R) <= Cardinality(D)
      /\ Cardinality(D) \in Nat
  BY <1>1, <1>2, ManagedFinite
<1>4. CASE s \in D
  BY <1>1, <1>4 DEF GetOrCreate
<1>5. CASE s \notin D
  <2>1. DOMAIN managed' = R \cup (IF room THEN {s} ELSE {})
    BY <1>5 DEF GetOrCreate
  <2>2. Cardinality(R \cup {s}) = Cardinality(R) + 1
    BY <1>2, <1>3, <1>5, FS_AddElement
  <2> HIDE DEF D, R
  <2>3. CASE room
    BY <1>1, <1>2, <1>3, <2>1, <2>2, <2>3
  <2>4. CASE ~room
    <3>1. DOMAIN managed' = R
      BY <2>1, <2>4
    <3> QED
      BY <1>1, <1>2, <1>3, <3>1
  <2> QED
    BY <2>3, <2>4
<1> QED
  BY <1>4, <1>5

LEMMA ListKept ==
  ASSUME ListInv, [RouteNext]_routeVars
  PROVE  ListInv'
<1>1. TurnsInv'
  BY TurnsKept DEF ListInv
<1> DEFINE Held == DOMAIN managed' \subseteq ManagedIds /\ Cardinality(DOMAIN managed') <= MaxManaged
           TasksOK ==
             /\ routed' \in [RoutedTasks -> [pc : {"new", "routed", "running", "done"},
                                             agent : Agents \cup {Nothing}]]
             /\ \A u \in RoutedTasks : routed'[u].pc = "routed" => Request[u].session # Nothing
<1>2. ASSUME UNCHANGED <<router, registry>>, TasksOK, Held
      PROVE  ListInv'
  BY <1>1, <1>2 DEF ListInv, At, registry, Registered
<1>3. routed' = routed => TasksOK
  BY DEF ListInv, At
<1>4. DOMAIN managed' = DOMAIN managed => Held
  BY DEF ListInv
<1>5. ASSUME NEW a \in Agents, NEW role \in Roles, RegisterAgent(a, role) PROVE ListInv'
  <2>1. roleOf' \in [Registered' -> Roles]
    BY <1>5 DEF RegisterAgent, ListInv, Registered
  <2> QED
    BY <1>1, <1>5, <2>1 DEF RegisterAgent, ListInv, At
<1>6. ASSUME NEW t \in RoutedTasks, RouteTask(t) PROVE ListInv'
  BY <1>6, RouteToLists DEF RouteTask
<1>7. ASSUME NEW i \in DOMAIN Batch, RouteInBatch(i) PROVE ListInv'
  <2>1. Batch[i] \in RoutedTasks
    BY RoutingAssumption, LenProperties
  <2> QED
    BY <1>7, <2>1, RouteToLists DEF RouteInBatch
<1>8. ASSUME NEW t \in RoutedTasks, TrackSession(t) PROVE ListInv'
  <2>1. Request[t].session \in ManagedIds
    BY <1>8 DEF TrackSession, ListInv, ManagedIds
  <2>2. Held
    BY <1>8, <2>1, CreatedFits DEF TrackSession
  <2>3. TasksOK
    BY <1>8 DEF TrackSession, ListInv, At
  <2> HIDE DEF Held, TasksOK
  <2> QED
    BY <1>2, <1>8, <2>2, <2>3 DEF TrackSession
<1>9. ASSUME NEW t \in RoutedTasks, NEW success \in BOOLEAN, EndTask(t, success) PROVE ListInv'
  <2>1. DOMAIN managed' = DOMAIN managed
    BY <1>9 DEF EndTask, RecordMessage
  <2>2. TasksOK
    BY <1>9 DEF EndTask, ListInv, At
  <2> HIDE DEF Held, TasksOK
  <2> QED
    BY <1>2, <1>4, <1>9, <2>1, <2>2 DEF EndTask
<1>10. ASSUME NEW s \in ManagedIds, RemoveManaged(s) PROVE ListInv'
  <2>1. DOMAIN managed' = DOMAIN managed \ {s}
    BY <1>10 DEF RemoveManaged, Restrict
  <2>2. Cardinality(DOMAIN managed') <= Cardinality(DOMAIN managed)
    BY <2>1, ManagedFinite DEF ListInv
  <2>3. Cardinality(DOMAIN managed) \in Nat /\ Cardinality(DOMAIN managed') \in Nat
    BY <2>1, ManagedFinite DEF ListInv
  <2>4. Held
    BY <2>1, <2>2, <2>3, RoutingAssumption DEF ListInv
  <2> HIDE DEF Held, TasksOK
  <2> QED
    BY <1>2, <1>3, <1>10, <2>4 DEF RemoveManaged
<1>11. CASE SessionsAge
  <2>1. DOMAIN managed' = DOMAIN managed
    BY <1>11 DEF SessionsAge
  <2> HIDE DEF Held, TasksOK
  <2> QED
    BY <1>2, <1>3, <1>4, <1>11, <2>1 DEF SessionsAge
<1>12. CASE UNCHANGED routeVars
  <2> HIDE DEF Held, TasksOK
  <2> QED
    BY <1>2, <1>3, <1>4, <1>12 DEF routeVars
<1> QED
  BY <1>5, <1>6, <1>7, <1>8, <1>9, <1>10, <1>11, <1>12 DEF RouteNext

(* Registry, routes and the list of sessions keep their types: the list    *)
(* never exceeds max_sessions, whatever lapses and is removed between, and *)
(* a router names only agents of the registry (session.rs:73-121,          *)
(* router.rs:60-214).                                                      *)
THEOREM RoutingTyped == RouteSpec => []RouteTypeOK
<1>1. RouteInit => ListInv
  <2> SUFFICES ASSUME RouteInit PROVE ListInv
    OBVIOUS
  <2>1. TurnsInv
    BY TurnsInit
  <2>2. DOMAIN managed = {} /\ Registered = {} /\ roleOf \in [Registered -> Roles]
    BY DEF RouteInit, Registered
  <2>3. Cardinality(DOMAIN managed) <= MaxManaged
    BY <2>2, FS_EmptySet, RoutingAssumption
  <2> QED
    BY <2>1, <2>2, <2>3 DEF RouteInit, ListInv, At
<1>2. ListInv /\ [RouteNext]_routeVars => ListInv'
  BY ListKept
<1>3. ListInv => RouteTypeOK
  BY DEF ListInv, TurnsInv, RoutingTypes, RouteTypeOK
<1> QED
  BY <1>1, <1>2, <1>3, PTL DEF RouteSpec
===============================================================================
