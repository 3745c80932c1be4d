-------------------------- MODULE HostLibraries_proofs --------------------------
(***************************************************************************)
(* Proofs about the libraries a host links: the access order of the        *)
(* session store, the calls of an agent run and where its messages are,    *)
(* what the secret manager serves, the buffer of a logger and the list of  *)
(* its subscribers, and what the rate limiter lets through, for any runs,  *)
(* limits, settings and threads.                                           *)
(***************************************************************************)
EXTENDS HostAgent, SecretManager, LogStream, RateLimiter, Subsequences_proofs,
        WellFoundedInduction

-------------------------------------------------------------------------------
(* Sequences without repetition. *)

LEMMA AppendNew ==
  ASSUME NEW S, NEW q \in Seq(S), NEW x \in S, IsInjective(q), x \notin Range(q)
  PROVE  /\ Append(q, x) \in Seq(S) /\ IsInjective(Append(q, x))
         /\ Range(Append(q, x)) = Range(q) \cup {x}
         /\ Len(Append(q, x)) = Len(q) + 1
<1> DEFINE a == Append(q, x)
<1>1. /\ a \in Seq(S) /\ Len(a) = Len(q) + 1 /\ a[Len(q) + 1] = x
      /\ \A i \in 1..Len(q) : a[i] = q[i]
  BY AppendProperties
<1>2. Len(q) \in Nat /\ DOMAIN q = 1..Len(q) /\ DOMAIN a = 1..(Len(q) + 1)
  BY <1>1, LenProperties
<1> HIDE DEF a
<1>3. \A i \in DOMAIN q : q[i] # x
  BY DEF Range
<1>4. IsInjective(a)
  BY <1>1, <1>2, <1>3 DEF IsInjective
<1>5. Range(a) = Range(q) \cup {x}
  <2>1. Range(a) \subseteq Range(q) \cup {x}
    BY <1>1, <1>2 DEF Range
  <2>2. Range(q) \subseteq Range(a)
    BY <1>1, <1>2 DEF Range
  <2>3. x \in Range(a)
    <3>1. Len(q) + 1 \in DOMAIN a
      BY <1>2
    <3> QED
      BY <1>1, <3>1 DEF Range
  <2> QED
    BY <2>1, <2>2, <2>3
<1> QED
  BY <1>1, <1>4, <1>5 DEF a

LEMMA RemovedOnce ==
  ASSUME NEW S, NEW q \in Seq(S), NEW pos \in 1..Len(q), IsInjective(q)
  PROVE  /\ RemoveAt(q, pos) \in Seq(S) /\ IsInjective(RemoveAt(q, pos))
         /\ Range(RemoveAt(q, pos)) = Range(q) \ {q[pos]}
         /\ Len(RemoveAt(q, pos)) = Len(q) - 1
         /\ \A i \in 1..(pos - 1) : RemoveAt(q, pos)[i] = q[i]
<1> DEFINE n == Len(q)
           left == SubSeq(q, 1, pos - 1)
           right == SubSeq(q, pos + 1, n)
           r == RemoveAt(q, pos)
<1>1. n \in Nat /\ DOMAIN q = 1..n /\ pos \in Int /\ \A i \in 1..n : q[i] \in S
  BY LenProperties, ElementOfSeq
<1>2. /\ left \in Seq(S) /\ Len(left) = pos - 1
      /\ \A i \in 1..(pos - 1) : left[i] = q[i]
  <2>1. \A i \in 1..(pos - 1) : q[i] \in S
    BY <1>1
  <2> QED
    BY <1>1, <2>1, SubSeqProperties, Z3
<1>3. /\ right \in Seq(S) /\ Len(right) = n - pos
      /\ \A i \in 1..(n - pos) : right[i] = q[pos + i]
  <2>1. \A i \in (pos + 1)..n : q[i] \in S
    BY <1>1
  <2>2. /\ right \in Seq(S)
        /\ Len(right) = IF pos + 1 <= n THEN n - (pos + 1) + 1 ELSE 0
        /\ \A i \in 1..(n - (pos + 1) + 1) : right[i] = q[(pos + 1) + i - 1]
    BY <1>1, <2>1, SubSeqProperties
  <2> HIDE DEF right
  <2>3. pos \in Int /\ n \in Int /\ pos <= n
    BY <1>1
  <2>4. Len(right) = n - pos
    <3>1. CASE pos + 1 <= n
      BY <2>2, <2>3, <3>1
    <3>2. CASE ~(pos + 1 <= n)
      BY <2>2, <2>3, <3>2
    <3> QED
      BY <3>1, <3>2
  <2>5. ASSUME NEW i \in 1..(n - pos)
        PROVE  right[i] = q[pos + i]
    <3>1. i \in 1..(n - (pos + 1) + 1) /\ (pos + 1) + i - 1 = pos + i
      BY <2>3
    <3> QED
      BY <2>2, <3>1
  <2> QED
    BY <2>2, <2>4, <2>5
<1>4. r = left \o right
  BY DEF RemoveAt
<1> HIDE DEF left, right, r
<1>5. /\ r \in Seq(S) /\ Len(r) = n - 1
      /\ \A i \in 1..(n - 1) : r[i] = IF i <= pos - 1 THEN left[i] ELSE right[i - (pos - 1)]
  <2>1. /\ r \in Seq(S) /\ Len(r) = Len(left) + Len(right)
        /\ \A i \in 1..(Len(left) + Len(right)) :
             r[i] = IF i <= Len(left) THEN left[i] ELSE right[i - Len(left)]
    BY <1>2, <1>3, <1>4, ConcatProperties
  <2>2. Len(left) = pos - 1 /\ Len(left) + Len(right) = n - 1
    BY <1>1, <1>2, <1>3
  <2> QED
    BY <2>1, <2>2
<1>6. \A i \in 1..(n - 1) : r[i] = IF i < pos THEN q[i] ELSE q[i + 1]
  BY <1>1, <1>2, <1>3, <1>5
<1>7. DOMAIN r = 1..(n - 1)
  BY <1>5, LenProperties
<1>8. IsInjective(r)
  <2> DEFINE at(i) == IF i < pos THEN i ELSE i + 1
  <2>1. \A i \in 1..(n - 1) : at(i) \in 1..n /\ r[i] = q[at(i)]
    BY <1>1, <1>6
  <2>2. \A i, j \in 1..(n - 1) : at(i) = at(j) => i = j
    BY <1>1
  <2>3. \A i, j \in 1..n : q[i] = q[j] => i = j
    BY <1>1 DEF IsInjective
  <2> HIDE DEF at
  <2> QED
    BY <1>7, <2>1, <2>2, <2>3 DEF IsInjective
<1>9. Range(r) = Range(q) \ {q[pos]}
  <2>1. ASSUME NEW i \in 1..(n - 1)
        PROVE  r[i] \in Range(q) \ {q[pos]}
    <3>1. PICK j \in 1..n : j # pos /\ r[i] = q[j]
      BY <1>1, <1>6
    <3> QED
      BY <1>1, <3>1 DEF Range, IsInjective
  <2>2. ASSUME NEW j \in 1..n, j # pos
        PROVE  q[j] \in Range(r)
    <3>1. CASE j < pos
      <4>1. j \in 1..(n - 1) /\ r[j] = q[j]
        BY <1>1, <1>6, <3>1
      <4> QED
        BY <1>7, <4>1 DEF Range
    <3>2. CASE j > pos
      <4>1. j - 1 \in 1..(n - 1) /\ r[j - 1] = q[j]
        BY <1>1, <1>6, <3>2
      <4> QED
        BY <1>7, <4>1 DEF Range
    <3> QED
      BY <1>1, <2>2, <3>1, <3>2
  <2> QED
    BY <1>1, <1>7, <2>1, <2>2 DEF Range
<1>10. \A i \in 1..(pos - 1) : r[i] = q[i]
  BY <1>1, <1>6
<1> QED
  BY <1>5, <1>8, <1>9, <1>10 DEF r

LEMMA TailOnce ==
  ASSUME NEW S, NEW q \in Seq(S), q # <<>>, IsInjective(q)
  PROVE  /\ Tail(q) \in Seq(S) /\ IsInjective(Tail(q)) /\ Head(q) \in Range(q)
         /\ Range(Tail(q)) = Range(q) \ {Head(q)} /\ Len(Tail(q)) = Len(q) - 1
<1> DEFINE t == Tail(q)
<1>1. /\ t \in Seq(S) /\ Len(t) = Len(q) - 1 /\ \A i \in 1..Len(t) : t[i] = q[i + 1]
  BY HeadTailProperties
<1>2. /\ Len(q) \in Nat \ {0} /\ DOMAIN q = 1..Len(q) /\ DOMAIN t = 1..(Len(q) - 1)
      /\ Head(q) = q[1] /\ 1 \in DOMAIN q
  BY <1>1, LenProperties, EmptySeq
<1> HIDE DEF t
<1>3. IsInjective(t)
  BY <1>1, <1>2 DEF IsInjective
<1>4. Range(t) \subseteq Range(q) \ {q[1]}
  BY <1>1, <1>2 DEF Range, IsInjective
<1>5. ASSUME NEW j \in 1..Len(q), j # 1
      PROVE  q[j] \in Range(t)
  <2>1. j - 1 \in 1..(Len(q) - 1) /\ t[j - 1] = q[j]
    BY <1>1, <1>2, <1>5
  <2> QED
    BY <1>2, <2>1 DEF Range
<1>6. Range(q) \ {q[1]} \subseteq Range(t)
  BY <1>2, <1>5 DEF Range
<1> QED
  BY <1>1, <1>2, <1>3, <1>4, <1>6 DEF t, Range
-------------------------------------------------------------------------------
(* The session store. *)

StoreShape(st) ==
  /\ st = [has |-> st.has, history |-> st.history, order |-> st.order]
  /\ st.has \subseteq SessionIds /\ st.order \in Seq(SessionIds)

InStep(st) ==
  /\ IsInjective(st.order)
  /\ Range(st.order) = st.has
  /\ MaxSessions > 0 => Len(st.order) <= MaxSessions

LEMMA MoveToBackOnce ==
  ASSUME NEW q \in Seq(SessionIds), NEW s \in SessionIds, IsInjective(q), Contains(q, s)
  PROVE  /\ MoveToBack(q, s) \in Seq(SessionIds) /\ IsInjective(MoveToBack(q, s))
         /\ Range(MoveToBack(q, s)) = Range(q) /\ Len(MoveToBack(q, s)) = Len(q)
<1> DEFINE pos == CHOOSE i \in DOMAIN q : q[i] = s
           rest == RemoveAt(q, pos)
<1>1. DOMAIN q = 1..Len(q) /\ Len(q) \in Nat
  BY LenProperties
<1>2. pos \in 1..Len(q) /\ q[pos] = s
  BY <1>1 DEF Contains
<1>3. MoveToBack(q, s) = Append(rest, s)
  BY DEF MoveToBack
<1> HIDE DEF pos
<1>4. /\ rest \in Seq(SessionIds) /\ IsInjective(rest)
      /\ Range(rest) = Range(q) \ {s} /\ Len(rest) = Len(q) - 1
  BY <1>2, RemovedOnce
<1> HIDE DEF rest
<1>5. s \in Range(q)
  BY <1>1, <1>2 DEF Range
<1>6. /\ Append(rest, s) \in Seq(SessionIds) /\ IsInjective(Append(rest, s))
      /\ Range(Append(rest, s)) = Range(rest) \cup {s}
      /\ Len(Append(rest, s)) = Len(rest) + 1
  BY <1>4, AppendNew
<1> QED
  BY <1>1, <1>3, <1>4, <1>5, <1>6

\* Whatever happens to the histories, a session that is touched and made if
\* need be leaves the order and the manager in step.
LEMMA TouchOrCreateInStep ==
  ASSUME NEW st, StoreShape(st), InStep(st), NEW s \in SessionIds
  PROVE  StoreShape(TouchOrCreate(st, s)) /\ InStep(TouchOrCreate(st, s))
<1> DEFINE q == st.order
           touched == Touch(st, s)
           made == TouchOrCreate(st, s)
<1>1. /\ q \in Seq(SessionIds) /\ IsInjective(q) /\ Range(q) = st.has
      /\ st.has \subseteq SessionIds /\ MaxSessions \in Nat
      /\ MaxSessions > 0 => Len(q) <= MaxSessions
      /\ Len(q) \in Nat /\ DOMAIN q = 1..Len(q)
  BY StoreAssumption, LenProperties DEF StoreShape, InStep
<1>2. Contains(q, s) <=> s \in Range(q)
  BY <1>1 DEF Contains, Range
<1>3. /\ touched = [has |-> touched.has, history |-> touched.history, order |-> touched.order]
      /\ touched.order \in Seq(SessionIds) /\ IsInjective(touched.order)
      /\ Range(touched.order) = touched.has \cup {s} /\ touched.has \subseteq SessionIds
      /\ MaxSessions > 0 => Len(touched.order) <= MaxSessions
  <2>1. CASE Contains(q, s)
    <3>1. touched = [st EXCEPT !.order = MoveToBack(q, s)]
      BY <2>1 DEF Touch
    <3>2. touched = [has |-> st.has, history |-> st.history, order |-> MoveToBack(q, s)]
      BY <3>1 DEF StoreShape
    <3> HIDE DEF touched
    <3> QED
      BY <1>1, <1>2, <2>1, <3>2, MoveToBackOnce
  <2>2. CASE ~Contains(q, s) /\ Len(q) >= MaxSessions /\ q # <<>>
    <3>1. touched = [DeleteSession(st, Head(q)) EXCEPT !.order = Append(Tail(@), s)]
      BY <2>2 DEF Touch
    <3>2. /\ touched = [has |-> st.has \ {Head(q)}, history |-> touched.history,
                        order |-> Append(Tail(q), s)]
      BY <3>1 DEF StoreShape, DeleteSession
    <3> HIDE DEF touched
    <3>3. /\ Tail(q) \in Seq(SessionIds) /\ IsInjective(Tail(q))
          /\ Range(Tail(q)) = st.has \ {Head(q)} /\ Len(Tail(q)) = Len(q) - 1
      BY <1>1, <2>2, TailOnce
    <3>4. s \notin Range(Tail(q))
      BY <1>1, <1>2, <2>2, <3>3
    <3>5. /\ Append(Tail(q), s) \in Seq(SessionIds) /\ IsInjective(Append(Tail(q), s))
          /\ Range(Append(Tail(q), s)) = Range(Tail(q)) \cup {s}
          /\ Len(Append(Tail(q), s)) = Len(Tail(q)) + 1
      BY <3>3, <3>4, AppendNew
    <3>6. /\ touched.has = st.has \ {Head(q)} /\ touched.order = Append(Tail(q), s)
          /\ touched = [has |-> touched.has, history |-> touched.history, order |-> touched.order]
      BY <3>2
    <3>7. Len(touched.order) = Len(q)
      BY <1>1, <3>3, <3>5, <3>6
    <3> QED
      BY <1>1, <3>3, <3>5, <3>6, <3>7
  <2>3. CASE ~Contains(q, s) /\ ~(Len(q) >= MaxSessions /\ q # <<>>)
    <3>1. touched = [st EXCEPT !.order = Append(@, s)]
      BY <2>3 DEF Touch
    <3>2. touched = [has |-> st.has, history |-> st.history, order |-> Append(q, s)]
      BY <3>1 DEF StoreShape
    <3> HIDE DEF touched
    <3>3. /\ Append(q, s) \in Seq(SessionIds) /\ IsInjective(Append(q, s))
          /\ Range(Append(q, s)) = Range(q) \cup {s} /\ Len(Append(q, s)) = Len(q) + 1
      BY <1>1, <1>2, <2>3, AppendNew
    <3>4. MaxSessions > 0 => Len(q) + 1 <= MaxSessions
      <4>1. q = <<>> => Len(q) = 0
        BY EmptySeq
      <4> QED
        BY <1>1, <2>3, <4>1
    <3> QED
      BY <1>1, <3>2, <3>3, <3>4
  <2> QED
    BY <2>1, <2>2, <2>3
<1>4. made = IF s \in touched.has THEN touched
             ELSE [touched EXCEPT !.has = @ \cup {s}, !.history[s] = <<>>]
  BY DEF TouchOrCreate
<1> HIDE DEF touched, made
<1>5. made = [has |-> touched.has \cup {s}, history |-> made.history, order |-> touched.order]
  <2>1. CASE s \in touched.has
    BY <1>3, <1>4, <2>1
  <2>2. CASE s \notin touched.has
    BY <1>3, <1>4, <2>2
  <2> QED
    BY <2>1, <2>2
<1>6. /\ made.has = touched.has \cup {s} /\ made.order = touched.order
      /\ made = [has |-> made.has, history |-> made.history, order |-> made.order]
  BY <1>5
<1>7. StoreShape(made) /\ InStep(made)
  BY <1>3, <1>6 DEF StoreShape, InStep
<1> QED
  BY <1>7 DEF made

LEMMA StoreKeeps ==
  ASSUME NEW st, StoreShape(st), InStep(st), NEW s \in SessionIds, NEW messages
  PROVE  /\ StoreShape(PushMessages(st, s, messages)) /\ InStep(PushMessages(st, s, messages))
         /\ StoreShape(ReplaceHistory(st, s, messages)) /\ InStep(ReplaceHistory(st, s, messages))
<1> DEFINE made == TouchOrCreate(st, s)
           push == PushMessages(st, s, messages)
           replace == ReplaceHistory(st, s, messages)
<1>1. StoreShape(made) /\ InStep(made)
  BY TouchOrCreateInStep
<1>2. /\ push = [made EXCEPT !.history[s] = @ \o messages]
      /\ replace = [made EXCEPT !.history[s] = messages]
  BY DEF PushMessages, ReplaceHistory
<1> HIDE DEF made, push, replace
<1>3. /\ push = [has |-> made.has, history |-> push.history, order |-> made.order]
      /\ replace = [has |-> made.has, history |-> replace.history, order |-> made.order]
  BY <1>1, <1>2 DEF StoreShape
<1>4. /\ StoreShape(push) /\ InStep(push) /\ StoreShape(replace) /\ InStep(replace)
  BY <1>1, <1>3 DEF StoreShape, InStep
<1> QED
  BY <1>4 DEF push, replace
-------------------------------------------------------------------------------
(* HostAgent *)

RunStages == {"idle", "turn", "retry", "waiting", "tool"} \cup RunEnded
RunRecord ==
  [pc : RunStages, sid : SessionIds \cup {Unset}, left : Nat, retries : Nat,
   calls : Nat, charges : Nat, rounds : Nat]

\* The calls that the tool rounds of a run so far have paid for.
Paid(x) == x.rounds * (MaxJsonRetries + 1)

\* Where a run stands with its calls: x is its record.
Accounts(r, x) ==
  /\ x.rounds + x.left = MaxSteps[r] /\ x.retries <= MaxJsonRetries
  /\ x.pc \in {"idle", "turn", "tool"} => x.calls <= Paid(x) /\ x.retries = 0
  /\ x.pc = "retry" => x.calls <= Paid(x) + x.retries
  /\ x.pc = "waiting" => x.calls <= Paid(x) + x.retries + 1 /\ x.sid \in SessionIds
  /\ x.calls <= Paid(x) + (MaxJsonRetries + 1)

AgentInv ==
  /\ run \in [Runs -> RunRecord] /\ \A r \in Runs : Accounts(r, run[r])
  /\ StoreShape(store) /\ InStep(store)
  /\ prune = NoPrune \/ prune.sid \in SessionIds

LEMMA PaidGrows ==
  ASSUME NEW n \in Nat, NEW m \in Nat
  PROVE  /\ n * (m + 1) \in Nat /\ (n + 1) * (m + 1) = n * (m + 1) + (m + 1)
         /\ 0 * (m + 1) = 0
OBVIOUS

\* One run moves.
LEMMA RunMoves ==
  ASSUME AgentInv, NEW r \in Runs, NEW new \in RunRecord, Accounts(r, new),
         run' = [run EXCEPT ![r] = new],
         StoreShape(store'), InStep(store'), UNCHANGED prune
  PROVE  AgentInv'
<1>1. /\ run' \in [Runs -> RunRecord] /\ run'[r] = new
      /\ \A q \in Runs \ {r} : run'[q] = run[q]
  BY DEF AgentInv
<1>2. \A q \in Runs : Accounts(q, run'[q])
  BY <1>1 DEF AgentInv
<1>3. (\A q \in Runs : Accounts(q, run[q]))'
  BY <1>2 DEF Accounts, Paid
<1>4. (StoreShape(store) /\ InStep(store))'
  BY DEF StoreShape, InStep
<1> QED
  BY <1>1, <1>3, <1>4 DEF AgentInv, NoPrune
\* A run ends, or comes back from its tool.
LEMMA StageMoves ==
  ASSUME AgentInv, NEW r \in Runs, NEW p \in RunStages, UNCHANGED <<store, prune>>,
         run' = [run EXCEPT ![r].pc = p],
         p \in RunEnded \/ (p = "turn" /\ run[r].pc = "tool")
  PROVE  AgentInv'
<1> DEFINE new == [run[r] EXCEPT !.pc = p]
<1>1. run[r] \in RunRecord /\ Accounts(r, run[r])
  BY DEF AgentInv
<1>2. /\ new \in RunRecord /\ run' = [run EXCEPT ![r] = new]
      /\ new.pc = p /\ new.sid = run[r].sid /\ new.left = run[r].left
      /\ new.retries = run[r].retries /\ new.calls = run[r].calls /\ new.rounds = run[r].rounds
  BY <1>1 DEF RunRecord, AgentInv
<1> HIDE DEF new
<1>3. Paid(new) = Paid(run[r])
  BY <1>2 DEF Paid
<1>4. Accounts(r, new)
  BY <1>1, <1>2, <1>3 DEF Accounts, RunEnded
<1>5. (StoreShape(store) /\ InStep(store))'
  BY DEF AgentInv, StoreShape, InStep
<1> QED
  BY <1>2, <1>4, <1>5, RunMoves

LEMMA BeginPreserves ==
  ASSUME AgentInv, NEW r \in Runs, NEW sid \in Ids \cup {Unset}, NEW allowed \in BOOLEAN,
         Begin(r, sid, allowed)
  PROVE  AgentInv'
<1> DEFINE new == [run[r] EXCEPT !.pc = IF allowed THEN "turn" ELSE "error",
                                 !.sid = sid, !.charges = IF allowed THEN 1 ELSE 0]
<1>1. run[r] \in RunRecord /\ Accounts(r, run[r]) /\ run[r].pc = "idle"
  BY DEF AgentInv, Begin
<1>2. run' = [run EXCEPT ![r] = new]
  BY DEF Begin, AgentInv, RunRecord
<1>3. /\ new \in RunRecord /\ new.pc \in {"turn", "error"} /\ new.left = run[r].left
      /\ new.retries = run[r].retries /\ new.calls = run[r].calls /\ new.rounds = run[r].rounds
  BY <1>1 DEF RunRecord, RunStages, RunEnded, SessionIds
<1> HIDE DEF new
<1>4. Paid(new) = Paid(run[r])
  BY <1>3 DEF Paid
<1>5. Accounts(r, new)
  BY <1>1, <1>3, <1>4 DEF Accounts
<1>6. UNCHANGED <<store, prune>> /\ (StoreShape(store) /\ InStep(store))'
  BY DEF Begin, AgentInv, StoreShape, InStep
<1> QED
  BY <1>2, <1>3, <1>5, <1>6, RunMoves

LEMMA AskPreserves ==
  ASSUME AgentInv, NEW r \in Runs, Ask(r)
  PROVE  AgentInv'
<1> DEFINE new == [run[r] EXCEPT !.pc = "waiting", !.sid = IF @ = Unset THEN r ELSE @,
                                 !.calls = @ + 1,
                                 !.charges = IF run[r].pc = "turn" THEN @ + 1 ELSE @]
<1>1. run[r] \in RunRecord /\ Accounts(r, run[r]) /\ run[r].pc \in {"turn", "retry"}
  BY DEF AgentInv, Ask
<1>2. run' = [run EXCEPT ![r] = new]
  BY DEF Ask, AgentInv, RunRecord
<1>3. /\ new \in RunRecord /\ new.pc = "waiting" /\ new.sid \in SessionIds
      /\ new.left = run[r].left /\ new.retries = run[r].retries
      /\ new.calls = run[r].calls + 1 /\ new.rounds = run[r].rounds
  <2> PICK calls \in Nat, charges \in Nat, sid \in SessionIds :
        /\ calls = run[r].calls + 1
        /\ charges = IF run[r].pc = "turn" THEN run[r].charges + 1 ELSE run[r].charges
        /\ sid = IF run[r].sid = Unset THEN r ELSE run[r].sid
    BY <1>1 DEF RunRecord, SessionIds
  <2>1. new = [run[r] EXCEPT !.pc = "waiting", !.sid = sid, !.calls = calls, !.charges = charges]
    OBVIOUS
  <2> HIDE DEF new
  <2> QED
    BY <1>1, <2>1 DEF RunRecord, RunStages
<1> HIDE DEF new
<1>4. Paid(new) = Paid(run[r]) /\ Paid(new) \in Nat /\ MaxJsonRetries \in Nat
  BY <1>1, <1>3, AgentAssumption, PaidGrows DEF Paid, RunRecord
<1>5. Accounts(r, new)
  <2>1. /\ run[r].calls \in Nat /\ run[r].retries \in Nat /\ Paid(run[r]) \in Nat
        /\ run[r].calls <= Paid(run[r]) + run[r].retries
        /\ run[r].retries <= MaxJsonRetries
    BY <1>1, <1>4 DEF Accounts, RunRecord
  <2>2. /\ new.calls <= Paid(new) + new.retries + 1
        /\ new.calls <= Paid(new) + (MaxJsonRetries + 1)
    BY <1>3, <1>4, <2>1
  <2> QED
    BY <1>1, <1>3, <2>2 DEF Accounts
<1>6. UNCHANGED <<store, prune>> /\ (StoreShape(store) /\ InStep(store))'
  BY DEF Ask, AgentInv, StoreShape, InStep
<1> QED
  BY <1>2, <1>3, <1>5, <1>6, RunMoves

\* What a run does with an answer costs no call that is not accounted for.
LEMMA DecideAccounts ==
  ASSUME NEW r \in Runs, run[r] \in RunRecord, Accounts(r, run[r]), run[r].pc = "waiting",
         NEW directive \in {"garbage", "final", "call_tool"}
  PROVE  Decide(r, directive) \in RunRecord /\ Accounts(r, Decide(r, directive))
<1> DEFINE old == run[r]
           new == Decide(r, directive)
<1>1. /\ MaxJsonRetries \in Nat /\ Paid(old) \in Nat /\ old.rounds \in Nat /\ old.left \in Nat
      /\ old.calls \in Nat /\ old.retries \in Nat /\ MaxSteps[r] \in Nat
      /\ (old.rounds + 1) * (MaxJsonRetries + 1) = Paid(old) + (MaxJsonRetries + 1)
  BY AgentAssumption, PaidGrows DEF RunRecord, Paid
<1>2. /\ old.rounds + old.left = MaxSteps[r] /\ old.retries <= MaxJsonRetries
      /\ old.calls <= Paid(old) + old.retries + 1
      /\ old.calls <= Paid(old) + (MaxJsonRetries + 1)
  BY DEF Accounts
<1>3. CASE directive = "garbage" /\ old.retries < MaxJsonRetries
  <2> PICK n \in Nat : n = old.retries + 1
    BY <1>1
  <2>1. new = [old EXCEPT !.pc = "retry", !.retries = n]
    BY <1>3 DEF Decide
  <2>2. /\ new \in RunRecord /\ new.pc = "retry" /\ new.left = old.left
        /\ new.retries = n /\ new.calls = old.calls /\ new.rounds = old.rounds
    BY <2>1 DEF RunRecord, RunStages
  <2> HIDE DEF new
  <2>3. Paid(new) = Paid(old)
    BY <2>2 DEF Paid
  <2>4. Accounts(r, new)
    <3>1. new.calls <= Paid(new) + new.retries /\ new.retries <= MaxJsonRetries
      BY <1>1, <1>2, <1>3, <2>2, <2>3
    <3> QED
      BY <1>2, <2>2, <2>3, <3>1 DEF Accounts
  <2> QED
    BY <2>2, <2>4 DEF new
<1>4. CASE \/ directive = "garbage" /\ ~(old.retries < MaxJsonRetries)
           \/ directive = "call_tool" /\ old.left = 0
           \/ directive = "final"
  <2>1. /\ new \in RunRecord /\ new.pc \in {"done", "error"} /\ new.left = old.left
        /\ new.retries <= MaxJsonRetries /\ new.calls = old.calls /\ new.rounds = old.rounds
    <3>1. CASE directive = "final"
      <4>1. new = [old EXCEPT !.pc = "done", !.retries = 0]
        BY <3>1 DEF Decide
      <4> QED
        <5>1. 0 \in Nat /\ 0 <= MaxJsonRetries
          BY <1>1
        <5>2. /\ new \in RunRecord /\ new.pc = "done" /\ new.left = old.left
              /\ new.retries = 0 /\ new.calls = old.calls /\ new.rounds = old.rounds
          BY <4>1, <5>1 DEF RunRecord, RunStages, RunEnded
        <5> QED
          BY <5>1, <5>2
    <3>2. CASE directive # "final"
      <4>1. new = [old EXCEPT !.pc = "error"]
        BY <1>4, <3>2 DEF Decide
      <4> QED
        BY <4>1, <1>2 DEF RunRecord, RunStages, RunEnded
    <3> QED
      BY <3>1, <3>2
  <2> HIDE DEF new
  <2>2. Paid(new) = Paid(old)
    BY <2>1 DEF Paid
  <2>3. Accounts(r, new)
    BY <1>2, <2>1, <2>2 DEF Accounts
  <2> QED
    BY <2>1, <2>3 DEF new
<1>5. CASE directive = "call_tool" /\ old.left # 0
  <2>1. old.left - 1 \in Nat /\ old.rounds + 1 \in Nat
    BY <1>1, <1>5
  <2> DEFINE left_now == old.left - 1
             rounds_now == old.rounds + 1
             none == 0
  <2>2. /\ left_now \in Nat /\ rounds_now \in Nat /\ none \in Nat
        /\ left_now = old.left - 1 /\ rounds_now = old.rounds + 1 /\ none = 0
    BY <2>1
  <2>3. new = [old EXCEPT !.pc = "tool", !.left = left_now, !.rounds = rounds_now,
                          !.retries = none]
    BY <1>5 DEF Decide
  <2> HIDE DEF left_now, rounds_now, none
  <2>4. /\ new \in RunRecord /\ new.pc = "tool" /\ new.left = left_now
        /\ new.retries = none /\ new.calls = old.calls /\ new.rounds = rounds_now
    BY <2>2, <2>3 DEF RunRecord, RunStages
  <2> HIDE DEF new
  <2>5. Paid(new) = Paid(old) + (MaxJsonRetries + 1)
    BY <1>1, <2>2, <2>4 DEF Paid
  <2>6. Accounts(r, new)
    <3> HIDE DEF old
    <3>1. new.rounds + new.left = MaxSteps[r] /\ new.retries = 0 /\ new.retries <= MaxJsonRetries
      BY <1>1, <1>2, <2>2, <2>4
    <3>2. new.calls <= Paid(new)
      BY <1>1, <1>2, <2>4, <2>5
    <3>3. new.calls \in Nat /\ Paid(new) \in Nat
      BY <1>1, <2>4, <2>5
    <3>4. new.calls <= Paid(new) + (MaxJsonRetries + 1)
      BY <1>1, <3>2, <3>3
    <3> HIDE DEF Paid
    <3> QED
      BY <2>4, <3>1, <3>2, <3>4 DEF Accounts
  <2> QED
    BY <2>4, <2>6 DEF new
<1> QED
  BY <1>3, <1>4, <1>5

LEMMA ReplyPreserves ==
  ASSUME AgentInv, NEW r \in Runs, NEW directive \in {"garbage", "final", "call_tool"},
         NEW cost \in Costs, Reply(r, directive, cost)
  PROVE  AgentInv'
<1>1. /\ run[r] \in RunRecord /\ Accounts(r, run[r]) /\ run[r].pc = "waiting"
      /\ run[r].sid \in SessionIds
  BY DEF AgentInv, Reply, Accounts
<1>2. /\ run' = [run EXCEPT ![r] = Decide(r, directive)] /\ UNCHANGED prune
      /\ store' = PushMessages(store, run[r].sid, Exchange(r, cost))
  BY DEF Reply
<1>3. Decide(r, directive) \in RunRecord /\ Accounts(r, Decide(r, directive))
  BY <1>1, DecideAccounts
<1>4. StoreShape(store') /\ InStep(store')
  BY <1>1, <1>2, StoreKeeps DEF AgentInv
<1> QED
  BY <1>2, <1>3, <1>4, RunMoves

LEMMA PrunePreserves ==
  ASSUME AgentInv, PruneReplaces \/ \E s \in SessionIds : PruneReads(s)
  PROVE  AgentInv'
<1>1. UNCHANGED run
  BY DEF PruneReplaces, PruneReads
<1>2. (run \in [Runs -> RunRecord] /\ \A r \in Runs : Accounts(r, run[r]))'
  BY <1>1 DEF AgentInv, Accounts, Paid
<1>3. CASE PruneReplaces
  <2>1. prune.sid \in SessionIds /\ prune' = NoPrune
    BY <1>3 DEF PruneReplaces, AgentInv
  <2>2. StoreShape(store') /\ InStep(store')
    BY <1>3, <2>1, StoreKeeps DEF PruneReplaces, AgentInv
  <2>3. (StoreShape(store) /\ InStep(store))'
    BY <2>2 DEF StoreShape, InStep
  <2> QED
    BY <1>2, <2>1, <2>3 DEF AgentInv, NoPrune
<1>4. ASSUME NEW s \in SessionIds, PruneReads(s)
      PROVE  AgentInv'
  <2>1. prune'.sid = s /\ UNCHANGED store
    BY <1>4 DEF PruneReads
  <2>2. (StoreShape(store) /\ InStep(store))'
    BY <2>1 DEF AgentInv, StoreShape, InStep
  <2> QED
    BY <1>2, <2>1, <2>2 DEF AgentInv
<1> QED
  BY <1>3, <1>4

LEMMA AgentStarts == AgentInit => AgentInv
<1> SUFFICES ASSUME AgentInit
             PROVE  AgentInv
  OBVIOUS
<1>1. ASSUME NEW r \in Runs
      PROVE  run[r] \in RunRecord /\ Accounts(r, run[r])
  <2>1. /\ run[r] = [pc |-> "idle", sid |-> Unset, left |-> MaxSteps[r], retries |-> 0,
                     calls |-> 0, charges |-> 0, rounds |-> 0]
        /\ MaxSteps[r] \in Nat /\ MaxJsonRetries \in Nat
    BY AgentAssumption DEF AgentInit
  <2>2. run[r] \in RunRecord
    BY <2>1 DEF RunRecord, RunStages
  <2>3. Paid(run[r]) = 0
    BY <2>1, PaidGrows DEF Paid
  <2> QED
    BY <2>1, <2>2, <2>3 DEF Accounts
<1>2. run \in [Runs -> RunRecord]
  <2>1. run = [r \in Runs |-> run[r]]
    BY DEF AgentInit
  <2> QED
    BY <1>1, <2>1
<1>3. store = NewStore(SessionIds) /\ prune = NoPrune
  BY DEF AgentInit
<1>4. store.has = {} /\ store.order = <<>> /\ StoreShape(store)
  BY <1>3 DEF NewStore, StoreShape
<1>5. InStep(store)
  <2>1. DOMAIN store.order = {} /\ Len(store.order) = 0
    BY <1>4
  <2> QED
    BY <1>4, <2>1, StoreAssumption DEF InStep, IsInjective, Range
<1> QED
  BY <1>1, <1>2, <1>3, <1>4, <1>5 DEF AgentInv

LEMMA AgentAlways == AgentSpec => []AgentInv
<1>1. AgentInv /\ [AgentNext]_agentVars => AgentInv'
  <2> SUFFICES ASSUME AgentInv, [AgentNext]_agentVars
               PROVE  AgentInv'
    OBVIOUS
  <2>1. ASSUME NEW r \in Runs,
               \/ Refused(r) \/ ModelFails(r) \/ ToolReturns(r) \/ ToolFails(r) \/ RunDropped(r)
        PROVE  AgentInv'
    BY <2>1, StageMoves
    DEF Refused, ModelFails, ToolReturns, ToolFails, RunDropped, RunStages, RunEnded
  <2>2. CASE UNCHANGED agentVars
    BY <2>2 DEF agentVars, AgentInv, Accounts, Paid, StoreShape, InStep
  <2> QED
    BY <2>1, <2>2, BeginPreserves, AskPreserves, ReplyPreserves, PrunePreserves DEF AgentNext
<1> QED
  BY <1>1, AgentStarts, PTL DEF AgentSpec

(* However runs share a client, and whatever its limits, the access order  *)
(* and the session manager name the same sessions (session_store/mod.rs).  *)
THEOREM StoreInStep == AgentSpec => []SessionsInStep
<1>1. AgentInv => SessionsInStep
  BY DEF AgentInv, InStep, SessionsInStep
<1> QED
  BY <1>1, AgentAlways, PTL

(* A run calls the model at most once, and max_json_retries times more, for *)
(* each of its max_steps tool rounds and the answer after them.             *)
THEOREM RunsAreBounded == AgentSpec => []CallsBounded
<1>1. AgentInv => CallsBounded
  <2> SUFFICES ASSUME AgentInv, NEW r \in Runs
               PROVE  /\ run[r].rounds + run[r].left = MaxSteps[r]
                      /\ run[r].calls <= (run[r].rounds + 1) * (MaxJsonRetries + 1)
    BY DEF CallsBounded
  <2>1. Accounts(r, run[r]) /\ run[r].rounds \in Nat /\ MaxJsonRetries \in Nat
    BY AgentAssumption DEF AgentInv, RunRecord
  <2>2. (run[r].rounds + 1) * (MaxJsonRetries + 1) = Paid(run[r]) + (MaxJsonRetries + 1)
    BY <2>1, PaidGrows DEF Paid
  <2> QED
    BY <2>1, <2>2 DEF Accounts
<1> QED
  BY <1>1, AgentAlways, PTL

-------------------------------------------------------------------------------
(* HostAgent: what becomes of the messages. *)

\* prune_messages takes its messages from those it is given.
LEMMA PrunedFromOld ==
  ASSUME NEW S, NEW q \in Seq(S)
  PROVE  PruneMessages(q) \in Seq(S)
<1> DEFINE I == Systems(q)
           J == Selected(q)
<1>1. I \in SUBSET (DOMAIN q) /\ J \in SUBSET (DOMAIN q)
  BY DEF Systems, Selected
<1> HIDE DEF I, J
<1>2. Subsequence(q, I) \in Seq(S) /\ Subsequence(q, J) \in Seq(S)
  BY <1>1, SubsequenceReads
<1>3. Subsequence(q, I) \o Subsequence(q, J) \in Seq(S)
  BY <1>2, ConcatProperties
<1> QED BY <1>3 DEF PruneMessages, I, J

\* Whoever has no session has no history either.
Emptied(st) == \A u \in SessionIds \ st.has : st.history[u] = <<>>

\* touch_or_create empties the histories of the sessions it evicts and no other.
LEMMA TouchHistories ==
  ASSUME NEW st, NEW P, StoreShape(st), InStep(st), NEW s \in SessionIds,
         st.history \in [SessionIds -> Seq(P)], Emptied(st)
  PROVE  /\ TouchOrCreate(st, s).history \in [SessionIds -> Seq(P)]
         /\ s \in TouchOrCreate(st, s).has
         /\ \A u \in SessionIds :
              TouchOrCreate(st, s).history[u] =
                IF u \in TouchOrCreate(st, s).has THEN st.history[u] ELSE <<>>
<1> DEFINE q == st.order
           touched == Touch(st, s)
           made == TouchOrCreate(st, s)
           h == st.history
<1>1. /\ q \in Seq(SessionIds) /\ IsInjective(q) /\ Range(q) = st.has
      /\ st.has \subseteq SessionIds /\ Len(q) \in Nat /\ DOMAIN q = 1..Len(q)
      /\ st = [has |-> st.has, history |-> h, order |-> q]
  BY LenProperties DEF StoreShape, InStep
<1>2. Contains(q, s) <=> s \in st.has
  BY <1>1 DEF Contains, Range
<1>3. <<>> \in Seq(P)
  OBVIOUS
<1>4. /\ touched = [has |-> touched.has, history |-> touched.history, order |-> touched.order]
      /\ touched.history \in [SessionIds -> Seq(P)]
      /\ s \in st.has => s \in touched.has
      /\ touched.has \subseteq st.has
      /\ \A u \in SessionIds : touched.history[u] = IF u \in touched.has THEN h[u] ELSE <<>>
  <2>1. CASE Contains(q, s) \/ ~(Len(q) >= MaxSessions /\ q # <<>>)
    <3>1. touched.has = st.has /\ touched.history = h
          /\ touched = [has |-> touched.has, history |-> touched.history, order |-> touched.order]
      <4>1. CASE Contains(q, s)
        <5>1. touched = [st EXCEPT !.order = MoveToBack(q, s)]
          BY <4>1 DEF Touch
        <5> HIDE DEF touched
        <5> QED BY <1>1, <5>1
      <4>2. CASE ~Contains(q, s)
        <5>1. touched = [st EXCEPT !.order = Append(q, s)]
          BY <2>1, <4>2 DEF Touch
        <5> HIDE DEF touched
        <5> QED BY <1>1, <5>1
      <4> QED BY <4>1, <4>2
    <3> HIDE DEF touched
    <3> QED BY <3>1 DEF Emptied
  <2>2. CASE ~Contains(q, s) /\ Len(q) >= MaxSessions /\ q # <<>>
    <3> DEFINE first == Head(q)
               g == [h EXCEPT ![first] = <<>>]
    <3>1. touched = [DeleteSession(st, first) EXCEPT !.order = Append(Tail(@), s)]
      BY <2>2 DEF Touch
    <3>2. DeleteSession(st, first) = [st EXCEPT !.has = @ \ {first}, !.history = g]
      BY <1>1 DEF DeleteSession
    <3>3. first \in st.has
      BY <1>1, <2>2, TailOnce DEF Range
    <3>4. g \in [SessionIds -> Seq(P)] /\ \A u \in SessionIds : g[u] = IF u = first THEN <<>> ELSE h[u]
      BY <1>3
    <3> HIDE DEF touched, g, first
    <3>5. touched = [has |-> st.has \ {first}, history |-> g, order |-> Append(Tail(q), s)]
      <4> DEFINE del == DeleteSession(st, first)
      <4>1. del = [has |-> st.has \ {first}, history |-> g, order |-> q]
        <5> DEFINE has == st.has \ {first}
        <5>1. st = [has |-> st.has, history |-> st.history, order |-> st.order]
          BY DEF StoreShape
        <5>2. del = [st EXCEPT !.has = has, !.history = g]
          BY <3>2
        <5> HIDE DEF has, del
        <5>3. del = [has |-> has, history |-> g, order |-> st.order]
          BY <5>1, <5>2
        <5> QED BY <5>3 DEF has
      <4>2. touched = [del EXCEPT !.order = Append(Tail(@), s)]
        BY <3>1
      <4> HIDE DEF del, q
      <4>3. del.order = q
        BY <4>1
      <4>4. touched = [del EXCEPT !.order = Append(Tail(q), s)]
        BY <4>2, <4>3
      <4> QED BY <4>1, <4>4
    <3>6. touched.has = st.has \ {first} /\ touched.history = g
          /\ touched = [has |-> touched.has, history |-> touched.history, order |-> touched.order]
      BY <3>5
    <3> QED BY <1>1, <1>2, <2>2, <3>3, <3>4, <3>6 DEF Emptied
  <2> QED BY <2>1, <2>2
<1>5. made = IF s \in touched.has THEN touched
             ELSE [touched EXCEPT !.has = @ \cup {s}, !.history[s] = <<>>]
  BY DEF TouchOrCreate
<1> HIDE DEF touched, made
<1>6. CASE s \in touched.has
  BY <1>4, <1>5, <1>6 DEF made
<1>7. CASE s \notin touched.has
  <2> DEFINE g == [touched.history EXCEPT ![s] = <<>>]
  <2>1. made = [touched EXCEPT !.has = @ \cup {s}, !.history = g]
    BY <1>4, <1>5, <1>7
  <2>2. g \in [SessionIds -> Seq(P)]
        /\ \A u \in SessionIds : g[u] = IF u = s THEN <<>> ELSE touched.history[u]
    BY <1>3, <1>4
  <2> HIDE DEF g
  <2>3. made.has = touched.has \cup {s} /\ made.history = g
    BY <1>4, <2>1
  <2>4. h[s] = <<>>
    BY <1>4, <1>7 DEF Emptied
  <2> QED BY <1>4, <2>2, <2>3, <2>4 DEF made
<1> QED BY <1>6, <1>7

\* after is st with the history q for s, and without the sessions that were
\* evicted for it.
Becomes(st, s, q, after) ==
  /\ s \in after.has
  /\ \A u \in SessionIds :
       after.history[u] = IF u = s THEN q ELSE IF u \in after.has THEN st.history[u] ELSE <<>>

LEMMA StoreHistories ==
  ASSUME NEW st, NEW P, StoreShape(st), InStep(st), NEW s \in SessionIds,
         st.history \in [SessionIds -> Seq(P)], Emptied(st), NEW new \in Seq(P)
  PROVE  /\ PushMessages(st, s, new).history \in [SessionIds -> Seq(P)]
         /\ Becomes(st, s, st.history[s] \o new, PushMessages(st, s, new))
         /\ ReplaceHistory(st, s, new).history \in [SessionIds -> Seq(P)]
         /\ Becomes(st, s, new, ReplaceHistory(st, s, new))
<1> DEFINE made == TouchOrCreate(st, s)
           push == PushMessages(st, s, new)
           replace == ReplaceHistory(st, s, new)
           q == st.history[s] \o new
           g == [made.history EXCEPT ![s] = q]
           h == [made.history EXCEPT ![s] = new]
<1>1. /\ made.history \in [SessionIds -> Seq(P)] /\ s \in made.has
      /\ \A u \in SessionIds : made.history[u] = IF u \in made.has THEN st.history[u] ELSE <<>>
  BY TouchHistories
<1>2. StoreShape(made)
  BY TouchOrCreateInStep
<1>3. /\ push = [made EXCEPT !.history[s] = @ \o new]
      /\ replace = [made EXCEPT !.history[s] = new]
  BY DEF PushMessages, ReplaceHistory
<1>4. made.history[s] = st.history[s] /\ q \in Seq(P)
  BY <1>1, ConcatProperties
<1> HIDE DEF made, push, replace, q
<1>5. push = [made EXCEPT !.history = g] /\ replace = [made EXCEPT !.history = h]
  BY <1>2, <1>3, <1>4 DEF StoreShape, q
<1>6. /\ g \in [SessionIds -> Seq(P)] /\ \A u \in SessionIds : g[u] = IF u = s THEN q ELSE made.history[u]
      /\ h \in [SessionIds -> Seq(P)] /\ \A u \in SessionIds : h[u] = IF u = s THEN new ELSE made.history[u]
  BY <1>1, <1>4
<1> HIDE DEF g, h
<1>7. push.history = g /\ push.has = made.has /\ replace.history = h /\ replace.has = made.has
  BY <1>2, <1>5 DEF StoreShape
<1>8. Becomes(st, s, q, push) /\ Becomes(st, s, new, replace)
  BY <1>1, <1>6, <1>7 DEF Becomes
<1> QED BY <1>6, <1>7, <1>8 DEF push, replace, q

\* The messages that a session has.
Held == UNION {Range(store.history[u]) : u \in SessionIds}

\* Where every message is.  While a prune is between its sections, it has
\* chosen from what its session held then; what came since was not seen.
HistoryInv ==
  /\ store.history \in [SessionIds -> Seq(persisted)] /\ Emptied(store)
  /\ persisted \subseteq forgotten \cup unseen \cup Held
  /\ prunes \in 0..MaxPrunes
  /\ prune # NoPrune =>
       /\ prune.messages \in Seq(persisted)
       /\ Range(store.history[prune.sid]) \subseteq Range(prune.messages) \cup forgotten \cup unseen

\* A session gets the history q, and others may be evicted for it.
LEMMA NothingLeavesHeld ==
  ASSUME HistoryInv, store.has \subseteq SessionIds, NEW s \in SessionIds, NEW q, NEW new,
         store'.history \in [SessionIds -> Seq(persisted')], Becomes(store, s, q, store'),
         persisted' = persisted \cup new,
         Range(store.history[s]) \cup new \subseteq Range(q) \cup forgotten \cup unseen,
         forgotten' = forgotten \cup Evicted(store'), unseen \subseteq unseen'
  PROVE  /\ Emptied(store') /\ persisted' \subseteq forgotten' \cup unseen' \cup Held'
         /\ \A u \in SessionIds \ {s} : Range(store'.history[u]) \subseteq Range(store.history[u])
         /\ Range(store'.history[s]) = Range(q)
<1>1. Range(<<>>) = {}
  BY DEF Range
<1>2. /\ s \in store'.has
      /\ \A u \in SessionIds : store'.history[u] = IF u = s THEN q
                               ELSE IF u \in store'.has THEN store.history[u] ELSE <<>>
  BY DEF Becomes
<1>3. Emptied(store')
  BY <1>2 DEF Emptied
<1>4. ASSUME NEW u \in SessionIds, NEW m \in Range(store.history[u])
      PROVE  m \in forgotten' \cup unseen' \cup Held'
  <2>1. CASE u = s
    <3>1. CASE m \in Range(q)
      BY <1>2, <3>1 DEF Held
    <3> QED BY <2>1, <3>1
  <2>2. CASE u # s /\ u \in store'.has
    BY <1>2, <2>2 DEF Held
  <2>3. CASE u \notin store'.has
    <3>1. u \in store.has
      BY <1>1 DEF HistoryInv, Emptied
    <3>2. m \in Evicted(store')
      BY <2>3, <3>1 DEF Evicted
    <3> QED BY <3>2
  <2> QED BY <2>1, <2>2, <2>3
<1>5. ASSUME NEW m \in new
      PROVE  m \in forgotten' \cup unseen' \cup Held'
  <2>1. CASE m \in Range(q)
    BY <1>2, <2>1 DEF Held
  <2> QED BY <2>1
<1>6. persisted' \subseteq forgotten' \cup unseen' \cup Held'
  <2> SUFFICES ASSUME NEW m \in persisted'
               PROVE  m \in forgotten' \cup unseen' \cup Held'
    OBVIOUS
  <2>1. m \in new \/ m \in forgotten \/ m \in unseen \/ \E u \in SessionIds : m \in Range(store.history[u])
    BY DEF HistoryInv, Held
  <2> QED BY <1>4, <1>5, <2>1
<1>7. \A u \in SessionIds \ {s} : Range(store'.history[u]) \subseteq Range(store.history[u])
  BY <1>1, <1>2
<1> QED BY <1>2, <1>3, <1>6, <1>7

\* Both messages of an exchange are pushed at once.
LEMMA ReplyKeepsMessages ==
  ASSUME AgentInv, HistoryInv, NEW r \in Runs, NEW directive, NEW cost, Reply(r, directive, cost)
  PROVE  HistoryInv'
<1> DEFINE s == run[r].sid
           ex == Exchange(r, cost)
           q == store.history[s] \o ex
           P == persisted \cup Range(ex)
<1>1. /\ s \in SessionIds /\ StoreShape(store) /\ InStep(store) /\ store.has \subseteq SessionIds
      /\ prune = NoPrune \/ prune.sid \in SessionIds
  BY DEF Reply, AgentInv, Accounts, StoreShape
<1>2. /\ store' = PushMessages(store, s, ex) /\ persisted' = P
      /\ forgotten' = forgotten \cup Evicted(store')
      /\ unseen' = IF prune.sid = s THEN unseen \cup Range(ex) ELSE unseen
      /\ UNCHANGED <<prune, prunes>>
  BY DEF Reply
<1>3. ex \in Seq(Range(ex))
  <2>1. ex = <<ex[1], ex[2]>> /\ DOMAIN ex = 1..2
    BY DEF Exchange
  <2>2. ex[1] \in Range(ex) /\ ex[2] \in Range(ex)
    BY <2>1 DEF Range
  <2> DEFINE a == ex[1]
             b == ex[2]
             R == Range(ex)
  <2>3. ex = <<a, b>> /\ a \in R /\ b \in R
    BY <2>1, <2>2
  <2> HIDE DEF a, b, R
  <2>4. <<a, b>> \in Seq(R)
    BY <2>3
  <2> QED BY <2>3, <2>4 DEF R
<1> HIDE DEF ex, s, P
<1>4. /\ ex \in Seq(P) /\ store.history \in [SessionIds -> Seq(persisted)]
      /\ \A u \in SessionIds : store.history[u] \in Seq(P)
  BY <1>3, SeqMonotonic DEF HistoryInv, P
<1>5. store.history \in [SessionIds -> Seq(P)] /\ Emptied(store)
  BY <1>4 DEF HistoryInv
<1>6. store'.history \in [SessionIds -> Seq(P)] /\ Becomes(store, s, q, store')
  BY <1>1, <1>2, <1>4, <1>5, StoreHistories
<1>7. Range(q) = Range(store.history[s]) \cup Range(ex)
  BY <1>1, <1>4, RangeConcatenation
<1> HIDE DEF q
<1>8. /\ Emptied(store') /\ persisted' \subseteq forgotten' \cup unseen' \cup Held'
      /\ \A u \in SessionIds \ {s} : Range(store'.history[u]) \subseteq Range(store.history[u])
      /\ Range(store'.history[s]) = Range(q)
  BY <1>1, <1>2, <1>6, <1>7, NothingLeavesHeld DEF P
<1>9. ASSUME prune' # NoPrune
      PROVE  /\ prune'.messages \in Seq(persisted')
             /\ Range(store'.history[prune'.sid]) \subseteq Range(prune'.messages) \cup forgotten' \cup unseen'
  <2>1. prune.sid \in SessionIds /\ prune # NoPrune /\ prune' = prune
    BY <1>1, <1>2, <1>9
  <2>2. /\ prune.messages \in Seq(persisted)
        /\ Range(store.history[prune.sid]) \subseteq Range(prune.messages) \cup forgotten \cup unseen
    BY <2>1 DEF HistoryInv
  <2>3. prune.messages \in Seq(P)
    BY <2>2, SeqMonotonic DEF P
  <2>4. Range(store'.history[prune.sid]) \subseteq Range(prune.messages) \cup forgotten' \cup unseen'
    <3>1. CASE prune.sid = s
      BY <1>2, <1>7, <1>8, <2>2, <3>1
    <3>2. CASE prune.sid # s
      BY <1>2, <1>8, <2>1, <2>2, <3>2
    <3> QED BY <3>1, <3>2
  <2> QED BY <1>2, <2>1, <2>3, <2>4
<1>10. (prunes \in 0..MaxPrunes)'
  BY <1>2 DEF HistoryInv
<1>11. Emptied(store)'
  BY <1>8 DEF Emptied
<1> QED BY <1>2, <1>6, <1>8, <1>9, <1>10, <1>11 DEF HistoryInv

\* The first section of a prune: what it does not choose is forgotten.
LEMMA PruneReadsKeeps ==
  ASSUME AgentInv, HistoryInv, NEW s \in SessionIds, PruneReads(s)
  PROVE  HistoryInv'
<1> DEFINE old == store.history[s]
           new == PruneMessages(old)
<1>1. /\ prune' = [sid |-> s, messages |-> new] /\ prunes' = prunes + 1 /\ prunes < MaxPrunes
      /\ forgotten' = forgotten \cup (Range(old) \ Range(new))
      /\ UNCHANGED <<store, persisted, unseen>>
  BY DEF PruneReads
<1>2. new \in Seq(persisted)
  <2>1. old \in Seq(persisted)
    BY DEF HistoryInv
  <2> QED BY <2>1, PrunedFromOld
<1> HIDE DEF old, new
<1>3. prune'.sid = s /\ prune'.messages = new
  BY <1>1
<1>4. Range(store'.history[prune'.sid]) \subseteq Range(prune'.messages) \cup forgotten' \cup unseen'
  BY <1>1, <1>3 DEF old
<1>5. (Emptied(store) /\ store.history \in [SessionIds -> Seq(persisted)])' /\ Held' = Held
  BY <1>1 DEF HistoryInv, Emptied, Held
<1>6. (persisted \subseteq forgotten \cup unseen \cup Held)'
  BY <1>1, <1>5 DEF HistoryInv
<1>7. (prunes \in 0..MaxPrunes)'
  BY <1>1, AgentAssumption DEF HistoryInv
<1>8. prune'.messages \in Seq(persisted')
  BY <1>1, <1>2, <1>3
<1> QED BY <1>4, <1>5, <1>6, <1>7, <1>8 DEF HistoryInv

\* The second section: what the history has lost by it was forgotten or was
\* not seen by the first.
LEMMA PruneReplacesKeeps ==
  ASSUME AgentInv, HistoryInv, PruneReplaces
  PROVE  HistoryInv'
<1> DEFINE s == prune.sid
           q == prune.messages
<1>1. /\ s \in SessionIds /\ StoreShape(store) /\ InStep(store) /\ store.has \subseteq SessionIds
  BY DEF PruneReplaces, AgentInv, StoreShape
<1>2. /\ store' = ReplaceHistory(store, s, q) /\ prune' = NoPrune
      /\ forgotten' = forgotten \cup Evicted(store')
      /\ UNCHANGED <<prunes, persisted, unseen>>
  BY DEF PruneReplaces
<1>3. /\ q \in Seq(persisted) /\ Range(store.history[s]) \subseteq Range(q) \cup forgotten \cup unseen
      /\ store.history \in [SessionIds -> Seq(persisted)] /\ Emptied(store)
  BY DEF PruneReplaces, HistoryInv
<1> HIDE DEF s, q
<1>4. store'.history \in [SessionIds -> Seq(persisted)] /\ Becomes(store, s, q, store')
  BY <1>1, <1>2, <1>3, StoreHistories
<1> DEFINE none == {}
<1>5. /\ persisted' = persisted \cup none /\ unseen \subseteq unseen'
      /\ Range(store.history[s]) \cup none \subseteq Range(q) \cup forgotten \cup unseen
      /\ store'.history \in [SessionIds -> Seq(persisted')]
  BY <1>2, <1>3, <1>4
<1> HIDE DEF none
<1>6. Emptied(store') /\ persisted' \subseteq forgotten' \cup unseen' \cup Held'
  BY <1>1, <1>2, <1>4, <1>5, NothingLeavesHeld
<1>7. Emptied(store)'
  BY <1>6 DEF Emptied
<1> QED BY <1>2, <1>5, <1>6, <1>7 DEF HistoryInv

LEMMA HistoryAlways == AgentSpec => []HistoryInv
<1>1. AgentInit => HistoryInv
  <2> SUFFICES ASSUME AgentInit PROVE HistoryInv
    OBVIOUS
  <2>1. /\ persisted = {} /\ prune = NoPrune /\ prunes = 0
        /\ store.has = {} /\ store.history = [s \in SessionIds |-> <<>>]
    BY DEF AgentInit, NewStore
  <2>2. store.history \in [SessionIds -> Seq(persisted)] /\ Emptied(store)
    BY <2>1 DEF Emptied
  <2> QED BY <2>1, <2>2, AgentAssumption DEF HistoryInv
<1>2. AgentInv /\ HistoryInv /\ [AgentNext]_agentVars => HistoryInv'
  <2> SUFFICES ASSUME AgentInv, HistoryInv, [AgentNext]_agentVars PROVE HistoryInv'
    OBVIOUS
  <2>1. ASSUME UNCHANGED <<store, prune, prunes, persisted, forgotten, unseen>>
        PROVE  HistoryInv'
    BY <2>1 DEF HistoryInv, Emptied, Held
  <2>2. ASSUME NEW r \in Runs,
               \/ \E sid \in Ids \cup {Unset}, allowed \in BOOLEAN : Begin(r, sid, allowed)
               \/ Refused(r) \/ Ask(r) \/ ModelFails(r)
               \/ ToolReturns(r) \/ ToolFails(r) \/ RunDropped(r)
        PROVE  HistoryInv'
    BY <2>1, <2>2
    DEF Begin, Refused, Ask, ModelFails, ToolReturns, ToolFails, RunDropped, agentHistory
  <2>3. CASE UNCHANGED agentVars
    BY <2>1, <2>3 DEF agentVars
  <2> QED
    BY <2>2, <2>3, ReplyKeepsMessages, PruneReadsKeeps, PruneReplacesKeeps DEF AgentNext
<1> QED BY <1>1, <1>2, AgentAlways, PTL DEF AgentSpec

(* However runs and a prune interleave, a message is in the history of its *)
(* session unless an eviction or the prune chose it, or it was pushed      *)
(* between the two sections of the prune (client_chat.rs:213-231).         *)
THEOREM OnlyChosenVanish == AgentSpec => []NothingElseVanishes
<1>1. HistoryInv => NothingElseVanishes
  BY DEF HistoryInv, Held, NothingElseVanishes
<1> QED BY <1>1, HistoryAlways, PTL

(* The runs, the store and the prune keep their types, and a history has   *)
(* no message but those that were pushed.                                  *)
THEOREM AgentTypeCorrect == AgentSpec => []AgentTypeOK
<1>1. AgentInv /\ HistoryInv => AgentTypeOK
  <2> SUFFICES ASSUME AgentInv, HistoryInv PROVE AgentTypeOK
    OBVIOUS
  <2>1. store.has \subseteq SessionIds /\ Range(store.order) \subseteq SessionIds
    BY RangeOfSeq DEF AgentInv, StoreShape
  <2>2. \A s \in SessionIds : Range(store.history[s]) \subseteq persisted
    BY RangeOfSeq DEF HistoryInv
  <2>3. ASSUME NEW r \in Runs
        PROVE  /\ run[r].pc \in RunStages /\ run[r].sid \in SessionIds \cup {Unset}
               /\ run[r].left \in 0..MaxSteps[r] /\ run[r].retries \in 0..MaxJsonRetries
    <3>1. run[r] \in RunRecord /\ Accounts(r, run[r])
      BY DEF AgentInv
    <3>2. /\ run[r].pc \in RunStages /\ run[r].sid \in SessionIds \cup {Unset}
          /\ run[r].left \in Nat /\ run[r].retries \in Nat /\ run[r].rounds \in Nat
      BY <3>1 DEF RunRecord
    <3>3. run[r].rounds + run[r].left = MaxSteps[r] /\ run[r].retries <= MaxJsonRetries
      BY <3>1 DEF Accounts
    <3>4. MaxSteps[r] \in Nat /\ MaxJsonRetries \in Nat
      BY AgentAssumption
    <3> QED BY <3>2, <3>3, <3>4
  <2>4. prune.sid \in SessionIds \cup {Unset} /\ prunes \in 0..MaxPrunes
    BY DEF AgentInv, HistoryInv, NoPrune
  <2> QED BY <2>1, <2>2, <2>3, <2>4 DEF AgentTypeOK, RunStages
<1> QED BY <1>1, AgentAlways, HistoryAlways, PTL

-------------------------------------------------------------------------------
(* LogStream *)

\* q is a run of positive numbers that ends with n.
RunUpTo(q, n) ==
  /\ q \in Seq(Int) /\ Len(q) <= n
  /\ \A i \in 1..Len(q) : q[i] = n - Len(q) + i

LogStages == {"idle", "numbered", "pushed", "sending"}

\* Whoever holds the mutex of the number has the latest one, which is the only
\* one that is not kept yet.
Numbered ==
  /\ numbering \in Loggers \cup {Nobody} /\ sequence \in Nat
  /\ \A t \in Loggers :
       /\ DOMAIN log[t] = {"pc", "entry", "next", "failed"}
       /\ log[t].pc = "numbered" <=> numbering = t
       /\ numbering = t => log[t].entry = sequence
  /\ numbering # Nobody => sequence > 0
  /\ DOMAIN log = Loggers /\ log = [t \in Loggers |-> log[t]]
  /\ \A t \in Loggers : log[t] = [f \in DOMAIN log[t] |-> log[t][f]]

BufferInv ==
  /\ Numbered
  /\ Len(entries) <= Capacity
  /\ RunUpTo(entries, IF numbering = Nobody THEN sequence ELSE sequence - 1)

LEMMA AppendRuns ==
  ASSUME NEW q, NEW n \in Int, RunUpTo(q, n)
  PROVE  RunUpTo(Append(q, n + 1), n + 1) /\ Len(Append(q, n + 1)) = Len(q) + 1
<1> DEFINE a == Append(q, n + 1)
<1>1. /\ a \in Seq(Int) /\ Len(a) = Len(q) + 1 /\ a[Len(q) + 1] = n + 1
      /\ \A i \in 1..Len(q) : a[i] = q[i]
  BY AppendProperties DEF RunUpTo
<1>2. Len(q) \in Nat
  BY LenProperties DEF RunUpTo
<1> HIDE DEF a
<1>3. ASSUME NEW i \in 1..Len(a)
      PROVE  a[i] = (n + 1) - Len(a) + i
  <2>1. CASE i \in 1..Len(q)
    <3>1. a[i] = n - Len(q) + i
      BY <1>1, <2>1 DEF RunUpTo
    <3> QED
      BY <1>1, <1>2, <3>1
  <2>2. CASE i = Len(q) + 1
    BY <1>1, <1>2, <2>2
  <2> QED
    BY <1>1, <1>2, <2>1, <2>2
<1> QED
  BY <1>1, <1>3 DEF RunUpTo, a

LEMMA TrimmedRuns ==
  ASSUME NEW q, NEW n \in Int, RunUpTo(q, n)
  PROVE  RunUpTo(Trimmed(q), n) /\ Len(Trimmed(q)) <= Capacity
<1> DEFINE l == Len(q)
           s == SubSeq(q, l - Capacity + 1, l)
<1>1. Capacity \in Nat /\ l \in Nat /\ \A i \in 1..l : q[i] \in Int /\ q[i] = n - l + i
  BY LogAssumption, LenProperties, ElementOfSeq DEF RunUpTo
<1>2. CASE l <= Capacity
  <2>1. Trimmed(q) = q
    BY <1>1, <1>2 DEF Trimmed
  <2> QED
    BY <1>2, <2>1
<1>3. CASE l > Capacity
  <2>1. Trimmed(q) = s
    BY <1>3 DEF Trimmed
  <2>2. \A i \in (l - Capacity + 1)..l : q[i] \in Int
    BY <1>1, <1>3
  <2>3. /\ s \in Seq(Int)
        /\ Len(s) = IF l - Capacity + 1 <= l THEN l - (l - Capacity + 1) + 1 ELSE 0
        /\ \A i \in 1..(l - (l - Capacity + 1) + 1) : s[i] = q[(l - Capacity + 1) + i - 1]
    BY <1>1, <2>2, SubSeqProperties
  <2> HIDE DEF s
  <2>4. Len(s) = Capacity
    <3>1. CASE Capacity = 0
      <4>1. ~(l - Capacity + 1 <= l)
        BY <1>1, <3>1
      <4> QED
        BY <2>3, <3>1, <4>1
    <3>2. CASE Capacity # 0
      <4>1. l - Capacity + 1 <= l /\ l - (l - Capacity + 1) + 1 = Capacity
        BY <1>1, <3>2
      <4> QED
        BY <2>3, <4>1
    <3> QED
      BY <3>1, <3>2
  <2>5. ASSUME NEW i \in 1..Len(s)
        PROVE  s[i] = n - Len(s) + i
    <3>1. /\ i \in 1..(l - (l - Capacity + 1) + 1)
          /\ (l - Capacity + 1) + i - 1 = l - Capacity + i
          /\ l - Capacity + i \in 1..l
      BY <1>1, <1>3, <2>4
    <3>2. s[i] = q[l - Capacity + i]
      BY <2>3, <3>1
    <3>3. q[l - Capacity + i] = n - l + (l - Capacity + i)
      BY <1>1, <3>1
    <3> QED
      BY <1>1, <2>4, <3>2, <3>3
  <2> QED
    BY <1>1, <1>3, <2>1, <2>3, <2>4, <2>5 DEF RunUpTo
<1> QED
  BY <1>1, <1>2, <1>3

LEMMA TakeNumberPreserves ==
  ASSUME BufferInv, NEW t \in Loggers, TakeNumber(t)
  PROVE  BufferInv'
<1>1. /\ numbering = Nobody /\ numbering' = t /\ t # Nobody
      /\ sequence \in Nat /\ sequence' = sequence + 1 /\ UNCHANGED entries
      /\ log' = [log EXCEPT ![t].pc = "numbered", ![t].entry = sequence']
  BY LogAssumption DEF TakeNumber, BufferInv, Numbered
<1>2. sequence' \in Nat /\ sequence' - 1 = sequence /\ sequence' > 0
  BY <1>1
<1>3. Numbered'
  BY <1>1, <1>2, LogAssumption DEF BufferInv, Numbered
<1>4. RunUpTo(entries, sequence)
  BY <1>1 DEF BufferInv
<1>5. (Len(entries) <= Capacity)'
  BY <1>1 DEF BufferInv
<1>6. RunUpTo(entries', IF numbering' = Nobody THEN sequence' ELSE sequence' - 1)
  BY <1>1, <1>2, <1>4
<1> QED
  BY <1>3, <1>5, <1>6 DEF BufferInv, RunUpTo

LEMMA KeepPreserves ==
  ASSUME BufferInv, NEW t \in Loggers, Keep(t)
  PROVE  BufferInv'
<1>1. /\ numbering = t /\ t # Nobody /\ log[t].entry = sequence /\ sequence \in Nat
      /\ numbering' = Nobody /\ UNCHANGED sequence
      /\ entries' = Trimmed(Append(entries, sequence))
      /\ log' = [log EXCEPT ![t].pc = "pushed"]
  BY LogAssumption DEF Keep, BufferInv, Numbered
<1>2. RunUpTo(entries, sequence - 1) /\ sequence - 1 \in Int /\ (sequence - 1) + 1 = sequence
  BY <1>1 DEF BufferInv
<1>3. RunUpTo(Append(entries, sequence), sequence)
  BY <1>2, AppendRuns
<1>4. RunUpTo(entries', sequence) /\ Len(entries') <= Capacity
  BY <1>1, <1>3, TrimmedRuns
<1>5. Numbered'
  BY <1>1, LogAssumption DEF BufferInv, Numbered
<1> QED
  BY <1>1, <1>4, <1>5 DEF BufferInv, RunUpTo

\* No other step of a logger touches the buffer or the mutex of the number.
LEMMA RoundPreserves ==
  ASSUME BufferInv, NEW t \in Loggers,
         StartRound(t) \/ Send(t) \/ RemoveFailed(t) \/ EndRound(t)
  PROVE  BufferInv'
<1>1. UNCHANGED <<entries, sequence, numbering>> /\ log[t].pc \in {"pushed", "sending"}
  BY DEF StartRound, Send, RemoveFailed, EndRound, SentToAll, bufferVars
<1>2. /\ DOMAIN log' = Loggers /\ log' = [u \in Loggers |-> log'[u]]
      /\ DOMAIN log'[t] = {"pc", "entry", "next", "failed"}
      /\ log'[t] = [f \in DOMAIN log'[t] |-> log'[t][f]]
      /\ log'[t].pc # "numbered"
      /\ \A u \in Loggers \ {t} : log'[u] = log[u]
  <2>1. CASE StartRound(t)
    BY <2>1 DEF StartRound, BufferInv, Numbered
  <2>2. CASE Send(t)
    BY <2>2 DEF Send, BufferInv, Numbered
  <2>3. CASE RemoveFailed(t)
    BY <2>3 DEF RemoveFailed, SentToAll, BufferInv, Numbered
  <2>4. CASE EndRound(t)
    BY <2>4 DEF EndRound, Quiet, BufferInv, Numbered
  <2> QED
    BY <2>1, <2>2, <2>3, <2>4
<1>3. Numbered'
  BY <1>1, <1>2 DEF BufferInv, Numbered
<1> QED
  BY <1>1, <1>3 DEF BufferInv, RunUpTo

LEMMA BufferAlways == LogSpec => []BufferInv
<1>1. LogInit => BufferInv
  <2> SUFFICES ASSUME LogInit
               PROVE  BufferInv
    OBVIOUS
  <2>1. Numbered
    BY LogAssumption DEF LogInit, Numbered, Quiet
  <2>2. /\ entries = <<>> /\ Len(entries) = 0 /\ entries \in Seq(Int)
        /\ numbering = Nobody /\ sequence = 0
    BY DEF LogInit
  <2> QED
    BY <2>1, <2>2, LogAssumption DEF BufferInv, RunUpTo
<1>2. BufferInv /\ [LogNext]_logVars => BufferInv'
  <2> SUFFICES ASSUME BufferInv, [LogNext]_logVars
               PROVE  BufferInv'
    OBVIOUS
  <2>1. CASE Clear
    <3>1. UNCHANGED <<sequence, numbering, log>> /\ entries' = <<>>
      BY <2>1 DEF Clear
    <3>2. Numbered'
      BY <3>1 DEF BufferInv, Numbered
    <3>3. Len(entries') = 0 /\ entries' \in Seq(Int)
      BY <3>1
    <3>4. (IF numbering' = Nobody THEN sequence' ELSE sequence' - 1) >= 0
      BY <3>1 DEF BufferInv, Numbered
    <3> QED
      BY <3>2, <3>3, <3>4, LogAssumption DEF BufferInv, RunUpTo
  <2>2. ASSUME NEW s \in Subscribers, Subscribe(s) \/ Receive(s) \/ DropSubscriber(s)
        PROVE  UNCHANGED <<entries, sequence, numbering, log>>
    BY <2>2 DEF Subscribe, Receive, DropSubscriber, bufferVars
  <2>3. CASE UNCHANGED <<entries, sequence, numbering, log>>
    BY <2>3 DEF BufferInv, Numbered, RunUpTo
  <2> QED
    BY <2>1, <2>2, <2>3, TakeNumberPreserves, KeepPreserves, RoundPreserves
    DEF LogNext, LogStep, logVars, bufferVars
<1> QED
  BY <1>1, <1>2, PTL DEF LogSpec

(* The buffer is a run of numbers that ends with the latest, however many  *)
(* threads log and whenever it is cleared (logger.rs:37-52).               *)
THEOREM BufferHasNoGaps == LogSpec => []BufferConsecutive
<1>1. BufferInv => BufferConsecutive
  <2> SUFFICES ASSUME BufferInv
               PROVE  BufferConsecutive
    OBVIOUS
  <2>1. /\ entries \in Seq(Int) /\ DOMAIN entries = 1..Len(entries) /\ Len(entries) \in Nat
        /\ sequence \in Nat /\ Len(entries) <= Capacity
    BY LenProperties DEF BufferInv, RunUpTo, Numbered
  <2> DEFINE n == IF numbering = Nobody THEN sequence ELSE sequence - 1
  <2>2. /\ n \in Int /\ \A i \in 1..Len(entries) : entries[i] = n - Len(entries) + i
        /\ numbering = Nobody => n = sequence
    BY <2>1 DEF BufferInv, RunUpTo
  <2> HIDE DEF n
  <2>3. \A i \in DOMAIN entries : entries[i] = entries[1] + i - 1
    BY <2>1, <2>2
  <2>4. ASSUME numbering = Nobody, entries # <<>>
        PROVE  Last(entries) = sequence
    <3>1. Len(entries) \in 1..Len(entries)
      BY <2>1, <2>4, EmptySeq
    <3> QED
      BY <2>1, <2>2, <2>4, <3>1 DEF Last
  <2> QED
    BY <2>1, <2>3, <2>4 DEF BufferConsecutive
<1> QED
  BY <1>1, BufferAlways, PTL

-------------------------------------------------------------------------------
(* LogStream: the list of the subscribers. *)

Logging == [pc : LogStages, entry : Nat, next : Nat \ {0}, failed : Seq(Nat)]

\* The indexes that a round found to fail, in the order it met them.
FoundGone(f, n, list, rcv) ==
  /\ \A j, k \in DOMAIN f : j < k => f[j] < f[k]
  /\ \A j \in DOMAIN f : f[j] \in 1..Len(list) /\ f[j] < n /\ rcv[list[f[j]]] = "dropped"

\* One round at a time, and nobody but a round has indexes into the list.
Rounds ==
  \A t \in Loggers :
    IF log[t].pc = "sending"
    THEN notifying = t /\ FoundGone(log[t].failed, log[t].next, subscribers, receiver)
    ELSE log[t].next = 1 /\ log[t].failed = <<>>

Listed ==
  /\ subscribers \in Seq(Subscribers) /\ IsInjective(subscribers)
  /\ receiver \in [Subscribers -> {"none", "live", "dropped"}]
  /\ \A s \in Subscribers : /\ receiver[s] = "none" => s \notin Range(subscribers)
                            /\ receiver[s] = "live" => s \in Range(subscribers)

StreamInv ==
  /\ sequence \in Nat /\ log \in [Loggers -> Logging]
  /\ \A t \in Loggers : log[t].entry \in 0..sequence
  /\ notifying \in Loggers \cup {Nobody}
  /\ Listed /\ Rounds

LEMMA FoundOneMore ==
  ASSUME NEW list, NEW rcv, NEW n \in 1..Len(list), NEW f \in Seq(Nat),
         FoundGone(f, n, list, rcv), rcv[list[n]] = "dropped"
  PROVE  Append(f, n) \in Seq(Nat) /\ FoundGone(Append(f, n), n + 1, list, rcv)
<1> DEFINE a == Append(f, n)
           l == Len(f)
<1>1. /\ a \in Seq(Nat) /\ l \in Nat /\ DOMAIN f = 1..l /\ DOMAIN a = 1..(l + 1)
      /\ a[l + 1] = n /\ \A j \in 1..l : a[j] = f[j] /\ f[j] \in Nat
  BY AppendProperties
<1>2. \A j \in 1..(l + 1) : j \in 1..l \/ j = l + 1
  BY <1>1
<1> HIDE DEF a, l
<1>3. ASSUME NEW j \in DOMAIN a
      PROVE  a[j] \in 1..Len(list) /\ a[j] < n + 1 /\ rcv[list[a[j]]] = "dropped"
  <2>1. CASE j \in 1..l
    BY <1>1, <2>1 DEF FoundGone
  <2>2. CASE j = l + 1
    BY <1>1, <2>2
  <2> QED BY <1>1, <1>2, <2>1, <2>2
<1>4. ASSUME NEW j \in DOMAIN a, NEW k \in DOMAIN a, j < k
      PROVE  a[j] < a[k]
  <2>1. j \in 1..l
    BY <1>1, <1>4
  <2>2. CASE k \in 1..l
    BY <1>1, <1>4, <2>1, <2>2 DEF FoundGone
  <2>3. CASE k = l + 1
    BY <1>1, <2>1, <2>3 DEF FoundGone
  <2> QED BY <1>1, <1>2, <2>2, <2>3
<1> QED BY <1>1, <1>3, <1>4 DEF FoundGone, a

\* The removal at the last of the indexes leaves those before it alone.
LEMMA RemovedLast ==
  ASSUME NEW S, NEW list \in Seq(S), IsInjective(list), NEW rcv, NEW n \in Nat,
         NEW f \in Seq(Nat), f # <<>>, FoundGone(f, n, list, rcv)
  PROVE  /\ Front(f) \in Seq(Nat)
         /\ FoundGone(Front(f), n, RemoveAt(list, Last(f)), rcv)
         /\ Last(f) \in 1..Len(list) /\ rcv[list[Last(f)]] = "dropped"
<1> DEFINE l == Len(f)
           k == Last(f)
           g == Front(f)
           rest == RemoveAt(list, k)
<1>1. l \in Nat \ {0} /\ DOMAIN f = 1..l /\ \A j \in 1..l : f[j] \in Nat
  BY EmptySeq, LenProperties, ElementOfSeq
<1>2. k = f[l] /\ l \in 1..l
  BY <1>1 DEF Last
<1>3. /\ k \in 1..Len(list) /\ rcv[list[k]] = "dropped"
      /\ \A j \in 1..l : f[j] \in 1..Len(list) /\ f[j] < n /\ rcv[list[f[j]]] = "dropped"
      /\ \A i, j \in 1..l : i < j => f[i] < f[j]
  BY <1>1, <1>2 DEF FoundGone
<1>4. /\ g \in Seq(Nat) /\ Len(g) = l - 1 /\ DOMAIN g = 1..(l - 1)
      /\ \A j \in 1..(l - 1) : g[j] = f[j]
  <2>1. g = SubSeq(f, 1, l - 1)
    BY DEF Front
  <2>2. \A j \in 1..(l - 1) : f[j] \in Nat
    BY <1>1
  <2> HIDE DEF g
  <2>3. g \in Seq(Nat) /\ Len(g) = l - 1 /\ \A j \in 1..(l - 1) : g[j] = f[j]
    BY <1>1, <2>1, <2>2, SubSeqProperties, Z3
  <2> QED BY <2>3, LenProperties
<1>5. /\ Len(rest) = Len(list) - 1
      /\ \A i \in 1..(k - 1) : rest[i] = list[i]
  BY <1>3, RemovedOnce
<1>6. Len(list) \in Nat /\ Len(rest) \in Nat
  BY <1>3, <1>5, LenProperties
<1> HIDE DEF l, k, g, rest
<1>7. ASSUME NEW j \in 1..(l - 1)
      PROVE  g[j] \in 1..Len(rest) /\ g[j] < n /\ rcv[rest[g[j]]] = "dropped"
  <2>1. j \in 1..l /\ j < l /\ g[j] = f[j]
    BY <1>1, <1>4
  <2>2. f[j] < k
    BY <1>2, <1>3, <2>1
  <2>3. f[j] \in 1..(k - 1)
    BY <1>3, <2>1, <2>2
  <2>4. rest[g[j]] = list[f[j]]
    BY <1>5, <2>1, <2>3
  <2>5. f[j] \in 1..Len(rest)
    BY <1>3, <1>5, <1>6, <2>3
  <2> QED BY <1>3, <2>1, <2>4, <2>5
<1>8. \A i, j \in 1..(l - 1) : i < j => g[i] < g[j]
  BY <1>1, <1>3, <1>4
<1> QED BY <1>3, <1>4, <1>7, <1>8 DEF FoundGone, k, g, rest

\* A step of one thread that leaves the list and the receivers alone.
LEMMA ThreadMoves ==
  ASSUME StreamInv, NEW t \in Loggers, NEW r \in Logging,
         log' = [log EXCEPT ![t] = r], sequence' \in Nat, sequence' >= sequence,
         r.entry <= sequence',
         notifying' \in Loggers \cup {Nobody},
         \A u \in Loggers \ {t} : log[u].pc = "sending" => notifying' = notifying,
         UNCHANGED <<subscribers, receiver>>,
         IF r.pc = "sending"
         THEN notifying' = t /\ FoundGone(r.failed, r.next, subscribers, receiver)
         ELSE r.next = 1 /\ r.failed = <<>>
  PROVE  StreamInv'
<1>1. log' \in [Loggers -> Logging] /\ log'[t] = r /\ \A u \in Loggers \ {t} : log'[u] = log[u]
  BY DEF StreamInv
<1>2. \A u \in Loggers : log'[u].entry \in 0..sequence'
  <2>1. r.entry \in 0..sequence'
    BY DEF Logging
  <2> QED BY <1>1, <2>1 DEF StreamInv
<1>3. Listed'
  BY DEF StreamInv, Listed
<1>4. Rounds'
  <2> SUFFICES ASSUME NEW u \in Loggers
               PROVE  IF log'[u].pc = "sending"
                      THEN notifying' = u /\ FoundGone(log'[u].failed, log'[u].next, subscribers, receiver)
                      ELSE log'[u].next = 1 /\ log'[u].failed = <<>>
    BY DEF Rounds, FoundGone
  <2> QED BY <1>1 DEF StreamInv, Rounds
<1> QED BY <1>1, <1>2, <1>3, <1>4 DEF StreamInv

LEMMA BufferStepListed ==
  ASSUME StreamInv, NEW t \in Loggers, TakeNumber(t) \/ Keep(t) \/ StartRound(t)
  PROVE  StreamInv'
<1> DEFINE r == log'[t]
<1>1. log[t] \in Logging /\ log[t].entry \in 0..sequence /\ sequence \in Nat
  BY DEF StreamInv
<1>2. /\ r \in Logging /\ log' = [log EXCEPT ![t] = r]
      /\ sequence' \in Nat /\ sequence' >= sequence /\ r.entry <= sequence'
      /\ r.next = log[t].next /\ r.failed = log[t].failed
      /\ log[t].pc # "sending" /\ UNCHANGED <<subscribers, receiver>>
      /\ r.pc = "sending" => StartRound(t)
  <2>1. CASE TakeNumber(t)
    <3>1. /\ log' = [log EXCEPT ![t].pc = "numbered", ![t].entry = sequence']
          /\ sequence' = sequence + 1 /\ sequence' \in Nat
          /\ log[t].pc = "idle" /\ UNCHANGED <<subscribers, receiver>>
      BY <1>1, <2>1 DEF TakeNumber, streamVars
    <3>2. r = [log[t] EXCEPT !.pc = "numbered", !.entry = sequence']
      BY <3>1 DEF StreamInv
    <3>5. log' = [log EXCEPT ![t] = r]
      BY <3>1 DEF StreamInv
    <3> HIDE DEF r
    <3>3. r \in Logging /\ r.pc = "numbered"
      BY <1>1, <3>1, <3>2 DEF Logging, LogStages
    <3>4. r.next = log[t].next /\ r.failed = log[t].failed /\ r.entry = sequence'
      BY <1>1, <3>2 DEF Logging
    <3>6. /\ sequence' \in Nat /\ sequence' >= sequence /\ r.entry <= sequence'
          /\ log[t].pc # "sending" /\ r.pc # "sending"
      BY <1>1, <3>1, <3>3, <3>4
    <3>7. UNCHANGED <<subscribers, receiver>>
      BY <3>1
    <3> QED BY <3>3, <3>4, <3>5, <3>6, <3>7
  <2>2. CASE Keep(t)
    <3>1. /\ log' = [log EXCEPT ![t].pc = "pushed"]
          /\ log[t].pc = "numbered" /\ UNCHANGED <<subscribers, receiver, sequence>>
      BY <2>2 DEF Keep, streamVars
    <3>2. r = [log[t] EXCEPT !.pc = "pushed"]
      BY <3>1 DEF StreamInv
    <3>5. log' = [log EXCEPT ![t] = r]
      BY <3>1 DEF StreamInv
    <3> HIDE DEF r
    <3>3. r \in Logging /\ r.pc = "pushed"
      BY <1>1, <3>1, <3>2 DEF Logging, LogStages
    <3>4. r.next = log[t].next /\ r.failed = log[t].failed /\ r.entry = log[t].entry
      BY <1>1, <3>2 DEF Logging
    <3>6. /\ sequence' \in Nat /\ sequence' >= sequence /\ r.entry <= sequence'
          /\ log[t].pc # "sending" /\ r.pc # "sending"
      BY <1>1, <3>1, <3>3, <3>4
    <3>7. UNCHANGED <<subscribers, receiver>>
      BY <3>1
    <3> QED BY <3>3, <3>4, <3>5, <3>6, <3>7
  <2>3. CASE StartRound(t)
    <3>1. /\ log' = [log EXCEPT ![t].pc = "sending"]
          /\ log[t].pc = "pushed" /\ UNCHANGED <<subscribers, receiver, sequence>>
      BY <2>3 DEF StartRound, bufferVars
    <3>2. r = [log[t] EXCEPT !.pc = "sending"]
      BY <3>1 DEF StreamInv
    <3>3. log' = [log EXCEPT ![t] = r]
      BY <3>1 DEF StreamInv
    <3> HIDE DEF r
    <3>4. r \in Logging
      BY <1>1, <3>1, <3>2 DEF Logging, LogStages
    <3>5. r.next = log[t].next /\ r.failed = log[t].failed /\ r.entry = log[t].entry
      BY <1>1, <3>2 DEF Logging
    <3>6. /\ sequence' \in Nat /\ sequence' >= sequence /\ r.entry <= sequence'
          /\ log[t].pc # "sending"
      BY <1>1, <3>1, <3>5
    <3>7. UNCHANGED <<subscribers, receiver>>
      BY <3>1
    <3> QED BY <2>3, <3>3, <3>4, <3>5, <3>6, <3>7
  <2> QED BY <2>1, <2>2, <2>3
<1>3. log[t].next = 1 /\ log[t].failed = <<>>
  BY <1>2 DEF StreamInv, Rounds
<1>4. /\ notifying' \in Loggers \cup {Nobody}
      /\ \A u \in Loggers \ {t} : log[u].pc = "sending" => notifying' = notifying
      /\ r.pc = "sending" => notifying' = t
  <2>1. CASE ~StartRound(t)
    <3>1. UNCHANGED notifying
      BY <2>1 DEF TakeNumber, Keep, streamVars
    <3> QED BY <1>2, <2>1, <3>1 DEF StreamInv
  <2>2. CASE StartRound(t)
    BY <2>2, LogAssumption DEF StartRound, StreamInv, Rounds
  <2> QED BY <2>1, <2>2
<1>5. FoundGone(<<>>, 1, subscribers, receiver)
  BY DEF FoundGone
<1> HIDE DEF r
<1> QED BY <1>2, <1>3, <1>4, <1>5, ThreadMoves

LEMMA SendListed ==
  ASSUME StreamInv, NEW t \in Loggers, Send(t)
  PROVE  StreamInv'
<1> DEFINE i == log[t].next
           s == subscribers[i]
           f == log[t].failed
           r == log'[t]
<1>1. /\ log[t] \in Logging /\ log[t].entry \in 0..sequence /\ sequence \in Nat
      /\ log[t].pc = "sending" /\ notifying = t
      /\ FoundGone(f, i, subscribers, receiver)
  BY DEF Send, StreamInv, Rounds
<1>2. i \in 1..Len(subscribers) /\ f \in Seq(Nat) /\ i \in Nat
  BY <1>1 DEF Send, Logging
<1>3. UNCHANGED <<subscribers, receiver, notifying, sequence>>
  BY DEF Send, bufferVars
<1>4. \/ log' = [log EXCEPT ![t].next = i + 1]
      \/ receiver[s] = "dropped" /\ log' = [log EXCEPT ![t].next = i + 1, ![t].failed = Append(f, i)]
  BY DEF Send
<1>5. /\ Append(f, i) \in Seq(Nat)
      /\ receiver[s] = "dropped" => FoundGone(Append(f, i), i + 1, subscribers, receiver)
  <2> HIDE DEF i, f
  <2>1. Append(f, i) \in Seq(Nat)
    BY <1>2
  <2> QED BY <1>1, <1>2, <2>1, FoundOneMore
<1>6. FoundGone(f, i + 1, subscribers, receiver)
  <2>1. \A j \in DOMAIN f : f[j] \in Nat
    BY <1>2
  <2> HIDE DEF i, f
  <2> QED BY <1>1, <1>2, <2>1 DEF FoundGone
<1> DEFINE a == Append(f, i)
<1>7. /\ r \in Logging /\ log' = [log EXCEPT ![t] = r]
      /\ r.pc = "sending" /\ r.entry = log[t].entry /\ r.next = i + 1
      /\ r.failed = f \/ (receiver[s] = "dropped" /\ r.failed = a)
  <2> HIDE DEF a
  <2>1. a \in Seq(Nat) /\ i + 1 \in Nat \ {0}
    BY <1>2, <1>5 DEF a
  <2>2. CASE log' = [log EXCEPT ![t].next = i + 1]
    BY <1>1, <2>1, <2>2 DEF StreamInv, Logging
  <2>3. CASE receiver[s] = "dropped" /\ log' = [log EXCEPT ![t].next = i + 1, ![t].failed = a]
    BY <1>1, <2>1, <2>3 DEF StreamInv, Logging
  <2> QED BY <1>4, <2>2, <2>3 DEF a
<1>8. FoundGone(r.failed, r.next, subscribers, receiver)
  <2> HIDE DEF r, i, s, f
  <2> QED BY <1>5, <1>6, <1>7
<1> HIDE DEF r, i, s, f, a
<1>9. /\ r.entry <= sequence' /\ sequence' \in Nat /\ sequence' >= sequence
      /\ notifying' = notifying /\ notifying' = t /\ notifying' \in Loggers \cup {Nobody}
  BY <1>1, <1>3, <1>7 DEF StreamInv
<1> QED BY <1>3, <1>7, <1>8, <1>9, ThreadMoves

LEMMA EndRoundListed ==
  ASSUME StreamInv, NEW t \in Loggers, EndRound(t)
  PROVE  StreamInv'
<1>1. /\ log[t].pc = "sending" /\ notifying = t /\ sequence \in Nat
      /\ log' = [log EXCEPT ![t] = Quiet] /\ notifying' = Nobody
      /\ UNCHANGED <<subscribers, receiver, sequence>>
  BY DEF EndRound, SentToAll, StreamInv, Rounds, bufferVars
<1>2. \A u \in Loggers \ {t} : log[u].pc # "sending"
  BY <1>1 DEF StreamInv, Rounds
<1>3. /\ Quiet \in Logging /\ Quiet.entry <= sequence /\ Quiet.pc # "sending"
      /\ Quiet.next = 1 /\ Quiet.failed = <<>>
  BY <1>1 DEF Quiet, Logging, LogStages
<1> HIDE DEF Quiet
<1>4. Quiet.entry <= sequence' /\ sequence' \in Nat /\ sequence' >= sequence
  BY <1>1, <1>3
<1> QED BY <1>1, <1>2, <1>3, <1>4, ThreadMoves

LEMMA RemoveListed ==
  ASSUME StreamInv, NEW t \in Loggers, RemoveFailed(t)
  PROVE  StreamInv'
<1> DEFINE f == log[t].failed
           g == Front(f)
           n == log[t].next
           gone == subscribers[Last(f)]
           rest == RemoveAt(subscribers, Last(f))
<1>1. /\ log[t] \in Logging /\ log[t].entry \in 0..sequence /\ sequence \in Nat
      /\ log[t].pc = "sending" /\ notifying = t
      /\ FoundGone(f, n, subscribers, receiver)
      /\ subscribers \in Seq(Subscribers) /\ IsInjective(subscribers)
  BY DEF RemoveFailed, SentToAll, StreamInv, Rounds, Listed
<1>2. f \in Seq(Nat) /\ n \in Nat \ {0} /\ f # <<>>
  BY <1>1 DEF RemoveFailed, Logging
<1>3. /\ g \in Seq(Nat) /\ FoundGone(g, n, rest, receiver)
      /\ Last(f) \in 1..Len(subscribers) /\ receiver[gone] = "dropped"
  BY <1>1, <1>2, RemovedLast
<1>4. /\ rest \in Seq(Subscribers) /\ IsInjective(rest)
      /\ Range(rest) = Range(subscribers) \ {gone}
  BY <1>1, <1>3, RemovedOnce
<1>5. /\ subscribers' = rest /\ log' = [log EXCEPT ![t].failed = g]
      /\ UNCHANGED <<receiver, notifying, sequence>>
  BY DEF RemoveFailed, bufferVars
<1> HIDE DEF f, g, n, rest, gone
<1>6. Listed'
  BY <1>3, <1>4, <1>5 DEF StreamInv, Listed
<1>7. /\ log' \in [Loggers -> Logging] /\ log'[t].pc = "sending" /\ log'[t].entry = log[t].entry
      /\ log'[t].next = log[t].next /\ log'[t].failed = g
      /\ \A u \in Loggers \ {t} : log'[u] = log[u] /\ log[u].pc # "sending"
  <2>1. \A u \in Loggers \ {t} : log[u].pc # "sending"
    BY <1>1 DEF StreamInv, Rounds
  <2> QED BY <1>1, <1>3, <1>5, <2>1 DEF StreamInv, Logging
<1>8. Rounds'
  BY <1>1, <1>3, <1>5, <1>7 DEF StreamInv, Rounds, FoundGone, n
<1>9. \A u \in Loggers : log'[u].entry \in 0..sequence'
  BY <1>1, <1>5, <1>7 DEF StreamInv
<1> QED BY <1>1, <1>5, <1>6, <1>7, <1>8, <1>9 DEF StreamInv

\* The list grows at its end, and only between rounds.
LEMMA SubscribeListed ==
  ASSUME StreamInv, NEW s \in Subscribers, Subscribe(s)
  PROVE  StreamInv'
<1>1. /\ receiver[s] = "none" /\ notifying = Nobody
      /\ receiver' = [receiver EXCEPT ![s] = "live"] /\ subscribers' = Append(subscribers, s)
      /\ UNCHANGED <<sequence, notifying, log>>
  BY DEF Subscribe, bufferVars
<1>2. /\ subscribers' \in Seq(Subscribers) /\ IsInjective(subscribers')
      /\ Range(subscribers') = Range(subscribers) \cup {s}
  BY <1>1, AppendNew DEF StreamInv, Listed
<1>3. Listed'
  BY <1>1, <1>2 DEF StreamInv, Listed
<1>4. \A t \in Loggers : log[t].pc # "sending"
  BY <1>1, LogAssumption DEF StreamInv, Rounds
<1>5. Rounds'
  BY <1>1, <1>4 DEF StreamInv, Rounds
<1> QED BY <1>1, <1>3, <1>5 DEF StreamInv

LEMMA DropListed ==
  ASSUME StreamInv, NEW s \in Subscribers, DropSubscriber(s)
  PROVE  StreamInv'
<1>1. /\ receiver[s] = "live" /\ receiver' = [receiver EXCEPT ![s] = "dropped"]
      /\ UNCHANGED <<sequence, subscribers, notifying, log>>
  BY DEF DropSubscriber, bufferVars
<1>2. Listed'
  BY <1>1 DEF StreamInv, Listed
<1>3. \A u \in Subscribers : receiver[u] = "dropped" => receiver'[u] = "dropped"
  BY <1>1 DEF StreamInv, Listed
<1>4. \A i \in 1..Len(subscribers) : subscribers[i] \in Subscribers
  BY ElementOfSeq DEF StreamInv, Listed
<1>5. Rounds'
  <2> SUFFICES ASSUME NEW t \in Loggers, log[t].pc = "sending",
                      FoundGone(log[t].failed, log[t].next, subscribers, receiver)
               PROVE  FoundGone(log[t].failed, log[t].next, subscribers, receiver')
    BY <1>1 DEF StreamInv, Rounds
  <2> QED BY <1>3, <1>4 DEF FoundGone
<1> QED BY <1>1, <1>2, <1>5 DEF StreamInv

LEMMA StreamAlways == LogSpec => []StreamInv
<1>1. LogInit => StreamInv
  <2> SUFFICES ASSUME LogInit PROVE StreamInv
    OBVIOUS
  <2>1. Quiet \in Logging /\ Quiet.entry = 0 /\ Quiet.pc = "idle" /\ Quiet.next = 1 /\ Quiet.failed = <<>>
    BY DEF Quiet, Logging, LogStages
  <2>2. Rounds
    BY <2>1 DEF LogInit, Rounds
  <2>3. subscribers = <<>> /\ DOMAIN subscribers = {} /\ Range(subscribers) = {}
    BY DEF LogInit, Range
  <2>4. Listed
    BY <2>3 DEF LogInit, Listed, IsInjective
  <2> HIDE DEF Quiet
  <2> QED BY <2>1, <2>2, <2>4 DEF LogInit, StreamInv
<1>2. StreamInv /\ [LogNext]_logVars => StreamInv'
  <2> SUFFICES ASSUME StreamInv, [LogNext]_logVars PROVE StreamInv'
    OBVIOUS
  <2>1. ASSUME UNCHANGED <<sequence, log, notifying, subscribers, receiver>>
        PROVE  StreamInv'
    BY <2>1 DEF StreamInv, Listed, Rounds
  <2>2. CASE Clear \/ \E s \in Subscribers : Receive(s)
    BY <2>1, <2>2 DEF Clear, Receive, bufferVars, streamVars
  <2>3. CASE UNCHANGED logVars
    BY <2>1, <2>3 DEF logVars, bufferVars, streamVars
  <2> QED
    BY <2>2, <2>3, BufferStepListed, SendListed, RemoveListed, EndRoundListed,
       SubscribeListed, DropListed
    DEF LogNext, LogStep
<1> QED BY <1>1, <1>2, PTL DEF LogSpec

(* Whoever subscribes stays in the list until it leaves, whatever rounds   *)
(* find and remove others at the same time (logger.rs:252-266).            *)
THEOREM LivingStayListed == LogSpec => []LiveStaySubscribed
<1>1. StreamInv => LiveStaySubscribed
  <2> SUFFICES ASSUME StreamInv, NEW s \in Subscribers, receiver[s] = "live"
               PROVE  Contains(subscribers, s)
    BY DEF LiveStaySubscribed, StreamInv, Listed
  <2>1. s \in Range(subscribers) /\ subscribers \in Seq(Subscribers)
    BY DEF StreamInv, Listed
  <2> QED BY <2>1, LenProperties DEF Range, Contains
<1> QED BY <1>1, StreamAlways, PTL

(* The entries of the buffer and those on their way to it have numbers     *)
(* that were given out, and a thread holds each mutex or nobody does.      *)
THEOREM LoggerTypeCorrect == LogSpec => []LogTypeOK
<1>1. StreamInv /\ BufferInv => LogTypeOK
  <2> SUFFICES ASSUME StreamInv, BufferInv PROVE LogTypeOK
    OBVIOUS
  <2>1. ASSUME NEW i \in DOMAIN entries
        PROVE  entries[i] \in 1..sequence
    <3> DEFINE n == IF numbering = Nobody THEN sequence ELSE sequence - 1
    <3>1. n \in Int /\ n <= sequence /\ sequence \in Nat
      BY DEF StreamInv
    <3>2. RunUpTo(entries, n) /\ entries \in Seq(Int)
      BY DEF BufferInv, RunUpTo
    <3>3. i \in 1..Len(entries) /\ Len(entries) \in Nat
      BY <3>2, LenProperties
    <3> HIDE DEF n
    <3>4. entries[i] = n - Len(entries) + i /\ Len(entries) <= n
      BY <3>2, <3>3 DEF RunUpTo
    <3> QED BY <3>1, <3>3, <3>4
  <2>2. \A i \in DOMAIN subscribers : subscribers[i] \in Subscribers
    BY ElementOfSeq, LenProperties DEF StreamInv, Listed
  <2>3. \A t \in Loggers : log[t].pc \in LogStages /\ log[t].entry \in 0..sequence
    BY DEF StreamInv, Logging
  <2> QED
    BY <2>1, <2>2, <2>3 DEF LogTypeOK, LogStages, StreamInv, Listed, BufferInv, Numbered
<1> QED BY <1>1, StreamAlways, BufferAlways, PTL

-------------------------------------------------------------------------------
(* SecretManager *)

VersionRecord == [value : Nat, version : Nat, active : BOOLEAN, age : 0..Lifetime]

\* q are the versions of a secret after n values were stored, V the values of it
\* that are valid: values grow, version numbers do not fall, the active ones are
\* the valid ones, and a valid value that was removed is older than those kept.
Versions(q, V, n, bound) ==
  /\ q \in Seq(VersionRecord) /\ Len(q) <= n
  /\ \A j \in 1..Len(q) : q[j].value \in 1..n /\ q[j].version \in 1..bound
  /\ \A j, k \in 1..Len(q) :
       j < k => q[j].value < q[k].value /\ q[j].version <= q[k].version
  /\ \A j \in 1..Len(q) : q[j].active <=> q[j].value \in V
  /\ V \subseteq 1..n
  /\ \A v \in V : \/ \E j \in 1..Len(q) : q[j].value = v
                  \/ \A j \in 1..Len(q) : v < q[j].value

SecretInv ==
  /\ secrets = [i \in SecretIds |-> secrets[i]] /\ valid = [i \in SecretIds |-> valid[i]]
  /\ known \subseteq SecretIds /\ stored \in 0..MaxStored /\ secret_config \in SecretConfigs
  /\ \A i \in SecretIds : Versions(secrets[i], valid[i], stored, Len(secrets[i]) + 1)

LEMMA NewIsLast ==
  ASSUME NEW q, NEW V, NEW n \in Nat, Versions(q, V, n, Len(q) + 1)
  PROVE  LET a == Append(q, NewVersion(q, n + 1))
         IN  a # <<>> /\ Versions(a, V \cup {n + 1}, n + 1, Len(a))
<1> DEFINE l == Len(q)
           new == NewVersion(q, n + 1)
           a == Append(q, new)
           W == V \cup {n + 1}
<1>1. l \in Nat /\ q \in Seq(VersionRecord) /\ l <= n
  BY LenProperties DEF Versions
<1>2. /\ new \in VersionRecord /\ new.value = n + 1 /\ new.version = l + 1 /\ new.active = TRUE
  <2>1. n + 1 \in Nat /\ l + 1 \in Nat /\ 0 \in 0..Lifetime
    BY <1>1, SecretAssumption
  <2> QED
    BY <2>1 DEF NewVersion, VersionRecord
<1> HIDE DEF new
<1>3. /\ a \in Seq(VersionRecord) /\ a # <<>> /\ Len(a) = l + 1 /\ a[l + 1] = new
      /\ \A j \in 1..l : a[j] = q[j]
  BY <1>1, <1>2, AppendProperties
<1> HIDE DEF a
<1>4. \A j \in 1..(l + 1) : j \in 1..l \/ j = l + 1
  BY <1>1
<1>5. \A j \in 1..l : /\ q[j].value \in 1..n /\ q[j].version \in 1..(l + 1)
                      /\ q[j].active <=> q[j].value \in V
  BY DEF Versions
<1>6. \A j \in 1..Len(a) : a[j].value \in 1..(n + 1) /\ a[j].version \in 1..Len(a)
  BY <1>1, <1>2, <1>3, <1>4, <1>5
<1>7. ASSUME NEW j \in 1..Len(a), NEW k \in 1..Len(a), j < k
      PROVE  a[j].value < a[k].value /\ a[j].version <= a[k].version
  <2>1. j \in 1..l
    BY <1>1, <1>3, <1>7
  <2>2. CASE k \in 1..l
    BY <1>3, <1>7, <2>1, <2>2 DEF Versions
  <2>3. CASE k = l + 1
    BY <1>1, <1>2, <1>3, <1>5, <2>1, <2>3
  <2> QED
    BY <1>3, <1>4, <2>2, <2>3
<1>8. \A j \in 1..Len(a) : a[j].active <=> a[j].value \in W
  <2>1. \A j \in 1..l : q[j].value # n + 1
    BY <1>5
  <2> QED
    BY <1>2, <1>3, <1>4, <1>5, <2>1
<1>9. W \subseteq 1..(n + 1)
  BY DEF Versions
<1>10. ASSUME NEW v \in W
       PROVE  \/ \E j \in 1..Len(a) : a[j].value = v
              \/ \A j \in 1..Len(a) : v < a[j].value
  <2>1. CASE v = n + 1
    <3>1. l + 1 \in 1..Len(a)
      BY <1>1, <1>3
    <3> QED
      BY <1>2, <1>3, <2>1, <3>1
  <2>2. CASE \E j \in 1..l : q[j].value = v
    <3>1. 1..l \subseteq 1..Len(a)
      BY <1>1, <1>3
    <3> QED
      BY <1>3, <2>2, <3>1
  <2>3. CASE v \in V /\ \A j \in 1..l : v < q[j].value
    <3>1. v \in 1..n
      BY <2>3 DEF Versions
    <3> QED
      BY <1>1, <1>2, <1>3, <1>4, <2>3, <3>1
  <2> QED
    BY <2>1, <2>2, <2>3 DEF Versions
<1>11. Len(a) <= n + 1
  BY <1>1, <1>3
<1>12. Versions(a, W, n + 1, Len(a))
  <2> HIDE DEF W
  <2> QED
    BY <1>3, <1>6, <1>7, <1>8, <1>9, <1>10, <1>11 DEF Versions
<1> QED
  BY <1>3, <1>12 DEF a, new

LEMMA OldestRemoved ==
  ASSUME NEW q, NEW V, NEW n \in Nat, q # <<>>, Versions(q, V, n, Len(q))
  PROVE  Versions(Tail(q), V, n, Len(Tail(q)) + 1)
<1> DEFINE l == Len(q)
           t == Tail(q)
<1>1. l \in Nat /\ q \in Seq(VersionRecord) /\ l # 0 /\ l <= n
  BY LenProperties, EmptySeq DEF Versions
<1>2. /\ t \in Seq(VersionRecord) /\ Len(t) = l - 1
      /\ \A j \in 1..Len(t) : t[j] = q[j + 1]
  BY <1>1, HeadTailProperties
<1> HIDE DEF t
<1>3. /\ \A j \in 1..Len(t) : j + 1 \in 1..l
      /\ 1 \in 1..l /\ Len(t) + 1 = l /\ Len(t) <= n
  BY <1>1, <1>2
<1>5. /\ \A j \in 1..Len(t) : t[j].value \in 1..n /\ t[j].version \in 1..(Len(t) + 1)
      /\ \A j \in 1..Len(t) : t[j].active <=> t[j].value \in V
  BY <1>2, <1>3 DEF Versions
<1>6. ASSUME NEW j \in 1..Len(t), NEW k \in 1..Len(t), j < k
      PROVE  t[j].value < t[k].value /\ t[j].version <= t[k].version
  <2>1. j + 1 \in 1..l /\ k + 1 \in 1..l /\ j + 1 < k + 1
    BY <1>3, <1>6
  <2> QED
    BY <1>2, <2>1 DEF Versions
<1>7. ASSUME NEW v \in V
      PROVE  \/ \E j \in 1..Len(t) : t[j].value = v
             \/ \A j \in 1..Len(t) : v < t[j].value
  <2>1. CASE \A j \in 1..l : v < q[j].value
    BY <1>2, <1>3, <2>1
  <2>2. CASE q[1].value = v
    <3>1. ASSUME NEW j \in 1..Len(t)
          PROVE  v < t[j].value
      <4>1. j + 1 \in 1..l /\ 1 < j + 1
        BY <1>3
      <4> QED
        BY <1>2, <1>3, <2>2, <4>1 DEF Versions
    <3> QED
      BY <3>1
  <2>3. ASSUME NEW j \in 1..l, j # 1, q[j].value = v
        PROVE  \E k \in 1..Len(t) : t[k].value = v
    <3>1. j - 1 \in 1..Len(t) /\ (j - 1) + 1 = j
      BY <1>1, <1>2, <2>3
    <3> QED
      BY <1>2, <2>3, <3>1
  <2> QED
    BY <2>1, <2>2, <2>3 DEF Versions
<1> QED
  BY <1>2, <1>3, <1>5, <1>6, <1>7 DEF Versions, t

LEMMA BoundGrows ==
  ASSUME NEW q, NEW V, NEW n \in Nat, NEW b \in Nat, Versions(q, V, n, b)
  PROVE  Versions(q, V, n, b + 1) /\ Versions(q, V, n + 1, b)
<1>1. 1..b \subseteq 1..(b + 1) /\ 1..n \subseteq 1..(n + 1)
  OBVIOUS
<1>2. Len(q) <= n + 1
  BY LenProperties DEF Versions
<1> QED
  BY <1>1, <1>2 DEF Versions

\* A value is stored on top of versions q.
LEMMA StoredOnTop ==
  ASSUME SecretInv, NEW q, NEW V, Versions(q, V, stored, Len(q) + 1)
  PROVE  LET a == Truncated(Append(q, NewVersion(q, stored + 1)))
         IN  Versions(a, V \cup {stored + 1}, stored + 1, Len(a) + 1)
<1> DEFINE a == Append(q, NewVersion(q, stored + 1))
           W == V \cup {stored + 1}
<1>1. stored \in Nat /\ stored + 1 \in Nat
  BY DEF SecretInv
<1>2. a # <<>> /\ Versions(a, W, stored + 1, Len(a))
  BY <1>1, NewIsLast
<1> HIDE DEF a, W
<1>3. CASE Truncated(a) = a
  <2>1. Len(a) \in Nat
    BY <1>2, LenProperties DEF Versions
  <2>2. Versions(a, W, stored + 1, Len(a) + 1)
    BY <1>1, <1>2, <2>1, BoundGrows
  <2> QED
    BY <1>3, <2>2 DEF a, W
<1>4. CASE Truncated(a) # a
  <2>1. Truncated(a) = Tail(a)
    BY <1>4 DEF Truncated
  <2>2. Versions(Tail(a), W, stored + 1, Len(Tail(a)) + 1)
    BY <1>1, <1>2, OldestRemoved
  <2> QED
    BY <2>1, <2>2 DEF a, W
<1> QED
  BY <1>3, <1>4

\* A set of numbers up to n that is not empty has a greatest element.
LEMMA Greatest ==
  ASSUME NEW n \in Nat, NEW A, A \subseteq 1..n, A # {}
  PROVE  \E m \in A : \A k \in A : k <= m
<1> DEFINE T == {n - a : a \in A}
           R == OpToRel(<, Nat)
<1>1. \A a \in A : a \in Nat /\ n - a \in Nat
  OBVIOUS
<1>2. T \subseteq Nat /\ T # {}
  BY <1>1
<1>3. \A x, y \in Nat : y < x => <<y, x>> \in R
  BY DEF OpToRel
<1>4. IsWellFoundedOn(R, Nat)
  BY NatLessThanWellFounded
<1> HIDE DEF T, R
<1>5. PICK x \in T : \A y \in T : ~(<<y, x>> \in R)
  BY <1>2, <1>4, WFMin
<1>6. ASSUME NEW y \in T
      PROVE  x <= y
  <2>1. x \in Nat /\ y \in Nat
    BY <1>2
  <2>2. ~(y < x)
    BY <1>3, <1>5, <2>1
  <2> QED
    BY <2>1, <2>2
<1>7. PICK m \in A : x = n - m
  BY DEF T
<1>8. \A k \in A : n - k \in T
  BY DEF T
<1> QED
  BY <1>1, <1>6, <1>7, <1>8

\* Version numbers repeat, but the version that is taken is the last active one.
LEMMA LatestIsLast ==
  ASSUME NEW i \in SecretIds, NEW V, NEW n \in Nat, NEW b \in Nat,
         Versions(secrets[i], V, n, b)
  PROVE  IF \E j \in 1..Len(secrets[i]) : secrets[i][j].active
         THEN /\ Latest(i) \in 1..Len(secrets[i]) /\ secrets[i][Latest(i)].active
              /\ \A k \in 1..Len(secrets[i]) : secrets[i][k].active => k <= Latest(i)
         ELSE Latest(i) = NoSecret
<1> DEFINE q == secrets[i]
           Active == {j \in DOMAIN q : q[j].active}
           Top(j) == \A k \in Active :
                       \/ q[k].version < q[j].version
                       \/ q[k].version = q[j].version /\ k <= j
<1>1. DOMAIN q = 1..Len(q) /\ Len(q) \in Nat
  BY LenProperties DEF Versions
<1>2. CASE Active = {}
  BY <1>1, <1>2 DEF Latest
<1>3. CASE Active # {}
  <2>1. PICK m \in Active : \A k \in Active : k <= m
    BY <1>1, <1>3, Greatest
  <2>2. /\ \A k \in Active : k \in 1..Len(q) /\ q[k].version \in Nat
        /\ \A j, k \in Active : j < k => q[j].version <= q[k].version
    BY <1>1 DEF Versions
  <2>3. Latest(i) = CHOOSE j \in Active : Top(j)
    BY <1>3 DEF Latest
  <2> HIDE DEF Active
  <2>4. Top(m)
    <3> SUFFICES ASSUME NEW k \in Active
                 PROVE  q[k].version < q[m].version \/ (q[k].version = q[m].version /\ k <= m)
      OBVIOUS
    <3>1. k = m \/ k < m
      BY <2>1, <2>2
    <3>2. CASE k < m
      <4>1. q[k].version <= q[m].version
        BY <2>2, <3>2
      <4> QED
        BY <2>1, <2>2, <4>1
    <3> QED
      BY <2>1, <3>1, <3>2
  <2>5. ASSUME NEW j \in Active, Top(j)
        PROVE  j = m
    <3>1. q[m].version < q[j].version \/ (q[m].version = q[j].version /\ m <= j)
      BY <2>1, <2>5
    <3>2. j = m \/ j < m
      BY <2>1, <2>2
    <3>3. CASE j < m
      <4>1. q[j].version <= q[m].version
        BY <2>2, <3>3
      <4> QED
        BY <2>1, <2>2, <3>1, <3>3, <4>1
    <3> QED
      BY <3>2, <3>3
  <2> HIDE DEF Top
  <2>6. Latest(i) = m
    BY <2>1, <2>3, <2>4, <2>5
  <2> QED
    BY <1>1, <2>1, <2>6 DEF Active
<1> QED
  BY <1>2, <1>3

\* Versions keep their values and their numbers; those of W are active.
LEMMA Reactivated ==
  ASSUME NEW q, NEW V, NEW W, NEW n \in Nat, NEW b, Versions(q, V, n, b),
         W \subseteq V, NEW r, r = [j \in 1..Len(q) |-> r[j]],
         \A j \in 1..Len(q) : /\ r[j] \in VersionRecord
                              /\ r[j].value = q[j].value /\ r[j].version = q[j].version
                              /\ r[j].active <=> q[j].value \in W
  PROVE  Len(r) = Len(q) /\ Versions(r, W, n, b)
<1>1. Len(q) \in Nat
  BY LenProperties DEF Versions
<1>2. r \in Seq(VersionRecord) /\ Len(r) = Len(q)
  <2>1. r \in [1..Len(q) -> VersionRecord]
    OBVIOUS
  <2> QED
    BY <1>1, <2>1, SeqDef, LenProperties, EmptySeq
<1>3. ASSUME NEW v \in W
      PROVE  \/ \E j \in 1..Len(r) : r[j].value = v
             \/ \A j \in 1..Len(r) : v < r[j].value
  BY <1>2 DEF Versions
<1> QED
  BY <1>2, <1>3 DEF Versions

LEMMA SecretsStart == SecretInit => SecretInv
<1> SUFFICES ASSUME SecretInit
             PROVE  SecretInv
  OBVIOUS
<1>1. Versions(<<>>, {}, 0, Len(<<>>) + 1)
  BY EmptySeq DEF Versions
<1> QED
  BY <1>1, SecretAssumption DEF SecretInit, SecretInv

\* A value that is stored for one secret leaves those of the others alone.
LEMMA OthersKeep ==
  ASSUME SecretInv, stored < MaxStored, stored' = stored + 1,
         NEW i \in SecretIds, NEW a, NEW V,
         Versions(a, V, stored', Len(a) + 1),
         secrets' = [secrets EXCEPT ![i] = a], valid' = [valid EXCEPT ![i] = V],
         UNCHANGED secret_config, known' \subseteq SecretIds
  PROVE  SecretInv'
<1>1. stored \in Nat /\ stored' \in 0..MaxStored
  BY SecretAssumption DEF SecretInv
<1>2. /\ secrets' = [k \in SecretIds |-> secrets'[k]] /\ valid' = [k \in SecretIds |-> valid'[k]]
      /\ secrets'[i] = a /\ valid'[i] = V
      /\ \A k \in SecretIds \ {i} : secrets'[k] = secrets[k] /\ valid'[k] = valid[k]
  BY DEF SecretInv
<1>3. ASSUME NEW k \in SecretIds
      PROVE  Versions(secrets'[k], valid'[k], stored', Len(secrets'[k]) + 1)
  <2>1. CASE k = i
    BY <1>2, <2>1
  <2>2. CASE k # i
    <3>1. Versions(secrets[k], valid[k], stored, Len(secrets[k]) + 1)
      BY DEF SecretInv
    <3>2. Len(secrets[k]) + 1 \in Nat
      BY <3>1, LenProperties DEF Versions
    <3>3. Versions(secrets[k], valid[k], stored + 1, Len(secrets[k]) + 1)
      BY <1>1, <3>1, <3>2, BoundGrows
    <3> QED
      BY <1>2, <2>2, <3>3
  <2> QED
    BY <2>1, <2>2
<1>4. secret_config' \in SecretConfigs
  BY DEF SecretInv
<1> HIDE DEF Versions
<1> QED
  BY <1>1, <1>2, <1>3, <1>4 DEF SecretInv

LEMMA StorePreserves ==
  ASSUME SecretInv, NEW i \in SecretIds, StoreSecret(i)
  PROVE  SecretInv'
<1> DEFINE q == secrets[i]
           a == Truncated(Append(q, NewVersion(q, stored + 1)))
           V == valid[i] \cup {stored + 1}
<1>1. Versions(q, valid[i], stored, Len(q) + 1)
  BY DEF SecretInv
<1>2. Versions(a, V, stored + 1, Len(a) + 1)
  BY <1>1, StoredOnTop
<1>3. /\ stored < MaxStored /\ stored' = stored + 1 /\ UNCHANGED secret_config /\ known' \subseteq SecretIds
      /\ secrets' = [secrets EXCEPT ![i] = a] /\ valid' = [valid EXCEPT ![i] = V]
  BY DEF StoreSecret, SecretInv
<1> HIDE DEF a, V
<1> QED
  BY <1>2, <1>3, OthersKeep

LEMMA RotateSecretPreserves ==
  ASSUME SecretInv, NEW i \in SecretIds, RotateSecret(i)
  PROVE  SecretInv'
<1> DEFINE q == secrets[i]
           d == Deactivated(q)
           a == Truncated(Append(d, NewVersion(d, stored + 1)))
           V == {stored + 1}
<1>1. Versions(q, valid[i], stored, Len(q) + 1) /\ stored \in Nat
  BY DEF SecretInv
<1>2. /\ DOMAIN q = 1..Len(q)
      /\ \A j \in 1..Len(q) : q[j] \in VersionRecord
  BY <1>1, LenProperties, ElementOfSeq DEF Versions
<1>3. /\ d = [j \in 1..Len(q) |-> d[j]]
      /\ \A j \in 1..Len(q) : /\ d[j] \in VersionRecord
                              /\ d[j].value = q[j].value /\ d[j].version = q[j].version
                              /\ d[j].active = FALSE
  BY <1>2 DEF Deactivated, VersionRecord
<1>4. Len(d) = Len(q) /\ Versions(d, {}, stored, Len(d) + 1)
  <2> HIDE DEF d
  <2>1. Len(d) = Len(q) /\ Versions(d, {}, stored, Len(q) + 1)
    BY <1>1, <1>3, Reactivated
  <2> QED
    BY <2>1
<1>5. Versions(a, V, stored + 1, Len(a) + 1)
  <2> HIDE DEF d
  <2>1. {} \cup {stored + 1} = V
    OBVIOUS
  <2> QED
    BY <1>4, <2>1, StoredOnTop
<1>6. NewVersion(q, stored + 1) = NewVersion(d, stored + 1)
  BY <1>4 DEF NewVersion
<1>7. /\ stored < MaxStored /\ stored' = stored + 1 /\ UNCHANGED secret_config /\ known' \subseteq SecretIds
      /\ secrets' = [secrets EXCEPT ![i] = a] /\ valid' = [valid EXCEPT ![i] = V]
  BY <1>6 DEF RotateSecret, SecretInv
<1> HIDE DEF a, V
<1> QED
  BY <1>5, <1>7, OthersKeep

LEMMA DeletePreserves ==
  ASSUME SecretInv, NEW i \in SecretIds, DeleteSecret(i)
  PROVE  SecretInv'
<1>1. Versions(<<>>, {}, stored, Len(<<>>) + 1)
  BY EmptySeq DEF Versions, SecretInv
<1>2. /\ secrets' = [k \in SecretIds |-> IF k = i THEN <<>> ELSE secrets[k]]
      /\ valid' = [k \in SecretIds |-> IF k = i THEN {} ELSE valid[k]]
      /\ UNCHANGED <<secret_config, stored>> /\ known' \subseteq SecretIds
  BY DEF DeleteSecret, SecretInv
<1>3. ASSUME NEW k \in SecretIds
      PROVE  Versions(secrets'[k], valid'[k], stored', Len(secrets'[k]) + 1)
  BY <1>1, <1>2 DEF SecretInv
<1> QED
  BY <1>2, <1>3 DEF SecretInv

\* The thread deactivates the latest version: its value is not valid any more.
LEMMA RotatePreserves ==
  ASSUME SecretInv, Rotate
  PROVE  SecretInv'
<1>1. UNCHANGED <<known, secret_config, stored>>
  BY DEF Rotate
<1>2. ASSUME NEW i \in SecretIds
      PROVE  Versions(secrets'[i], valid'[i], stored', Len(secrets'[i]) + 1)
  <2> DEFINE q == secrets[i]
             l == Latest(i)
             r == [q EXCEPT ![l].active = FALSE]
             W == valid[i] \ {q[l].value}
  <2>1. Versions(q, valid[i], stored, Len(q) + 1) /\ stored \in Nat
    BY DEF SecretInv
  <2>2. CASE ~NeedsRotation(i)
    BY <1>1, <2>1, <2>2 DEF Rotate
  <2>3. CASE NeedsRotation(i)
    <3>1. l \in 1..Len(q)
      <4>1. Len(q) + 1 \in Nat
        BY <2>1, LenProperties DEF Versions
      <4> QED
        BY <2>1, <2>3, <4>1, LatestIsLast DEF NeedsRotation
    <3>2. secrets'[i] = r /\ valid'[i] = W
      BY <2>3 DEF Rotate
    <3> HIDE DEF l
    <3>3. DOMAIN q = 1..Len(q) /\ \A j \in 1..Len(q) : q[j] \in VersionRecord
      BY <2>1, LenProperties, ElementOfSeq DEF Versions
    <3>4. /\ r = [j \in 1..Len(q) |-> r[j]]
          /\ r[l] = [q[l] EXCEPT !.active = FALSE]
          /\ \A j \in 1..Len(q) : j # l => r[j] = q[j]
      BY <3>1, <3>3
    <3> HIDE DEF r
    <3>5. ASSUME NEW j \in 1..Len(q)
          PROVE  /\ r[j] \in VersionRecord
                 /\ r[j].value = q[j].value /\ r[j].version = q[j].version
                 /\ r[j].active <=> q[j].value \in W
      <4>1. CASE j = l
        BY <3>3, <3>4, <4>1 DEF VersionRecord
      <4>2. CASE j # l
        <5>1. q[j].value # q[l].value
          <6>1. q[j].value \in Nat /\ q[l].value \in Nat
            BY <3>1, <3>3 DEF VersionRecord
          <6>2. j < l \/ l < j
            BY <3>1, <4>2
          <6> QED
            BY <2>1, <3>1, <6>1, <6>2 DEF Versions
        <5>2. q[j].active <=> q[j].value \in valid[i]
          BY <2>1 DEF Versions
        <5> QED
          BY <3>3, <3>4, <4>2, <5>1, <5>2
      <4> QED
        BY <4>1, <4>2
    <3>6. Len(r) = Len(q) /\ Versions(r, W, stored, Len(q) + 1)
      <4>1. W \subseteq valid[i]
        OBVIOUS
      <4> HIDE DEF W
      <4> QED
        BY <2>1, <3>4, <3>5, <4>1, Reactivated
    <3> QED
      BY <1>1, <3>2, <3>6
  <2> QED
    BY <2>2, <2>3
<1>3. /\ secrets' = [i \in SecretIds |-> secrets'[i]]
      /\ valid' = [i \in SecretIds |-> valid'[i]]
  BY DEF Rotate
<1> QED
  BY <1>1, <1>2, <1>3 DEF SecretInv

LEMMA AgePreserves ==
  ASSUME SecretInv, SecretsAge
  PROVE  SecretInv'
<1>1. UNCHANGED <<known, secret_config, stored, valid>>
  BY DEF SecretsAge
<1>2. ASSUME NEW i \in SecretIds
      PROVE  Versions(secrets'[i], valid'[i], stored', Len(secrets'[i]) + 1)
  <2> DEFINE q == secrets[i]
             r == secrets'[i]
  <2>1. Versions(q, valid[i], stored, Len(q) + 1) /\ stored \in Nat
    BY DEF SecretInv
  <2>2. DOMAIN q = 1..Len(q) /\ \A j \in 1..Len(q) : q[j] \in VersionRecord
    BY <2>1, LenProperties, ElementOfSeq DEF Versions
  <2>3. r = [j \in DOMAIN q |->
               [q[j] EXCEPT !.age = IF @ < Lifetime THEN @ + 1 ELSE Lifetime]]
    BY DEF SecretsAge
  <2> HIDE DEF r
  <2>4. r = [j \in 1..Len(q) |-> r[j]]
    BY <2>2, <2>3
  <2>5. ASSUME NEW j \in 1..Len(q)
        PROVE  /\ r[j] \in VersionRecord
               /\ r[j].value = q[j].value /\ r[j].version = q[j].version
               /\ r[j].active <=> q[j].value \in valid[i]
    <3>1. PICK a \in 0..Lifetime : r[j] = [q[j] EXCEPT !.age = a]
      <4>1. q[j].age \in 0..Lifetime /\ Lifetime \in Nat
        BY <2>2, SecretAssumption DEF VersionRecord
      <4>2. (IF q[j].age < Lifetime THEN q[j].age + 1 ELSE Lifetime) \in 0..Lifetime
        BY <4>1
      <4> QED
        BY <2>2, <2>3, <4>2
    <3>2. q[j] \in VersionRecord /\ (q[j].active <=> q[j].value \in valid[i])
      BY <2>1, <2>2 DEF Versions
    <3> QED
      BY <3>1, <3>2 DEF VersionRecord
  <2>6. Len(r) = Len(q) /\ Versions(r, valid[i], stored, Len(q) + 1)
    BY <2>1, <2>4, <2>5, Reactivated
  <2> QED
    BY <1>1, <2>6 DEF r
<1>3. secrets' = [i \in SecretIds |-> secrets'[i]]
  BY DEF SecretsAge
<1> QED
  BY <1>1, <1>2, <1>3 DEF SecretInv

LEMMA SecretsAlways == SecretSpec => []SecretInv
<1>1. SecretInv /\ [SecretNext]_secretVars => SecretInv'
  <2> SUFFICES ASSUME SecretInv, [SecretNext]_secretVars
               PROVE  SecretInv'
    OBVIOUS
  <2>1. ASSUME NEW c \in SecretConfigs, UpdateSecretConfig(c)
        PROVE  SecretInv'
    <3>1. UNCHANGED <<known, secrets, stored, valid>> /\ secret_config' = c
      BY <2>1 DEF UpdateSecretConfig
    <3> QED
      BY <3>1 DEF SecretInv
  <2>2. CASE UNCHANGED secretVars
    BY <2>2 DEF secretVars, SecretInv
  <2> QED
    BY <2>1, <2>2, StorePreserves, RotateSecretPreserves, DeletePreserves,
       RotatePreserves, AgePreserves DEF SecretNext
<1> QED
  BY <1>1, SecretsStart, PTL DEF SecretSpec

(* Every version and every value that is valid is in the range its type    *)
(* gives it, whatever is stored, rotated, deleted or reconfigured          *)
(* (secrets/mod.rs:59-85, storage.rs).                                     *)
THEOREM SecretsTyped == SecretSpec => []SecretTypeOK
<1>1. SecretInv => SecretTypeOK
  <2> SUFFICES ASSUME SecretInv
               PROVE  SecretTypeOK
    OBVIOUS
  <2>1. ASSUME NEW i \in SecretIds, NEW j \in DOMAIN secrets[i]
        PROVE  /\ secrets[i][j].value \in 1..stored
               /\ secrets[i][j].version \in 1..(stored + 1)
               /\ secrets[i][j].active \in BOOLEAN /\ secrets[i][j].age \in 0..Lifetime
    <3>1. Versions(secrets[i], valid[i], stored, Len(secrets[i]) + 1) /\ stored \in Nat
      BY DEF SecretInv
    <3>2. /\ DOMAIN secrets[i] = 1..Len(secrets[i]) /\ Len(secrets[i]) \in Nat
          /\ Len(secrets[i]) <= stored /\ secrets[i][j] \in VersionRecord
      BY <3>1, LenProperties, ElementOfSeq DEF Versions
    <3>3. /\ secrets[i][j].value \in 1..stored
          /\ secrets[i][j].version \in 1..(Len(secrets[i]) + 1)
      BY <3>1, <3>2 DEF Versions
    <3> QED
      BY <3>1, <3>2, <3>3 DEF VersionRecord
  <2>2. \A i \in SecretIds : valid[i] \subseteq 1..stored
    BY DEF SecretInv, Versions
  <2> QED
    BY <2>1, <2>2 DEF SecretInv, SecretTypeOK
<1> QED
  BY <1>1, SecretsAlways, PTL

(* get_secret serves the newest valid value (secrets/mod.rs:87-113), for   *)
(* any number of secrets, limits on versions and changes of configuration. *)
THEOREM NewestIsServed == SecretSpec => []ServesNewestValid
<1>1. SecretInv => ServesNewestValid
  <2> SUFFICES ASSUME SecretInv, NEW i \in SecretIds
               PROVE  /\ GetSecret(i) # NoSecret =>
                           /\ GetSecret(i) \in valid[i]
                           /\ \A v \in valid[i] : v <= GetSecret(i)
                      /\ (secrets[i] # <<>> /\ Last(secrets[i]).value \in valid[i]
                            /\ Last(secrets[i]).age < Lifetime)
                           => GetSecret(i) = Last(secrets[i]).value
    BY DEF ServesNewestValid
  <2> DEFINE q == secrets[i]
             l == Latest(i)
  <2>1. Versions(q, valid[i], stored, Len(q) + 1) /\ stored \in Nat
    BY DEF SecretInv
  <2>2. Len(q) \in Nat /\ \A j \in 1..Len(q) : q[j] \in VersionRecord
    BY <2>1, LenProperties, ElementOfSeq DEF Versions
  <2>3. IF \E j \in 1..Len(q) : q[j].active
        THEN l \in 1..Len(q) /\ q[l].active /\ \A k \in 1..Len(q) : q[k].active => k <= l
        ELSE l = NoSecret
    <3>1. Len(q) + 1 \in Nat
      BY <2>2
    <3> QED
      BY <2>1, <3>1, LatestIsLast
  <2>4. ASSUME GetSecret(i) # NoSecret
        PROVE  GetSecret(i) \in valid[i] /\ \A v \in valid[i] : v <= GetSecret(i)
    <3>1. l # NoSecret /\ GetSecret(i) = q[l].value
      BY <2>4 DEF GetSecret
    <3>2. l \in 1..Len(q) /\ q[l].active /\ \A k \in 1..Len(q) : q[k].active => k <= l
      BY <2>3, <3>1
    <3> HIDE DEF l
    <3>3. q[l].value \in valid[i] /\ q[l].value \in Nat
      BY <2>1, <2>2, <3>2 DEF Versions, VersionRecord
    <3>4. ASSUME NEW v \in valid[i]
          PROVE  v <= q[l].value
      <4>1. v \in Nat
        BY <2>1 DEF Versions
      <4>2. ASSUME NEW j \in 1..Len(q), q[j].value = v
            PROVE  v <= q[l].value
        <5>1. j <= l
          BY <2>1, <3>2, <4>2 DEF Versions
        <5>2. j = l \/ q[j].value < q[l].value
          BY <2>1, <3>2, <5>1 DEF Versions
        <5> QED
          BY <3>3, <4>1, <4>2, <5>2
      <4>3. CASE \A j \in 1..Len(q) : v < q[j].value
        BY <3>2, <3>3, <4>1, <4>3
      <4> QED
        BY <2>1, <4>2, <4>3 DEF Versions
    <3> QED
      BY <3>1, <3>3, <3>4
  <2>5. ASSUME q # <<>>, Last(q).value \in valid[i], Last(q).age < Lifetime
        PROVE  GetSecret(i) = Last(q).value
    <3>1. Len(q) \in 1..Len(q)
      BY <2>1, <2>2, <2>5, EmptySeq DEF Versions
    <3>2. Last(q) = q[Len(q)]
      BY DEF Last
    <3>3. q[Len(q)].active
      BY <2>1, <2>5, <3>1, <3>2 DEF Versions
    <3>4. l = Len(q)
      BY <2>2, <2>3, <3>1, <3>3
    <3>5. q[Len(q)].age \in 0..Lifetime /\ Lifetime \in Nat /\ Len(q) # NoSecret
      BY <2>2, <3>1, SecretAssumption DEF VersionRecord, NoSecret
    <3> QED
      BY <2>5, <3>2, <3>4, <3>5 DEF GetSecret
  <2> QED
    BY <2>4, <2>5
<1> QED
  BY <1>1, SecretsAlways, PTL

-------------------------------------------------------------------------------
(* RateLimiter: the windows of a session against what was let through.     *)
(* Both are sequences of ages that grow together, so what matters of them  *)
(* is how many ages they have in a set (Num).                              *)

\* The ages below n.
Below(n) == 0..(n - 1)

LEMMA NumBounds ==
  ASSUME NEW q \in Seq(Nat), NEW A, NEW B, A \subseteq B
  PROVE  /\ Num(q, A) \in Nat /\ Num(q, A) <= Num(q, B) /\ Num(q, A) <= Len(q)
         /\ Num(q, {}) = 0
<1> DEFINE I == {i \in DOMAIN q : q[i] \in A}
           J == {i \in DOMAIN q : q[i] \in B}
<1>1. I \in SUBSET (DOMAIN q) /\ J \in SUBSET (DOMAIN q) /\ I \in SUBSET J
  OBVIOUS
<1>2. IsFiniteSet(J) /\ Cardinality(I) \in Nat /\ Cardinality(I) <= Len(q)
  BY <1>1, IndexesFinite
<1>3. Cardinality(I) <= Cardinality(J)
  BY <1>1, <1>2, FS_Subset
<1>4. {i \in DOMAIN q : q[i] \in {}} = {}
  OBVIOUS
<1> QED BY <1>2, <1>3, <1>4, FS_EmptySet DEF Num

LEMMA NumEmpty ==
  ASSUME NEW A
  PROVE  Num(<<>>, A) = 0
<1>1. {i \in DOMAIN <<>> : <<>>[i] \in A} = {}
  OBVIOUS
<1> QED BY <1>1, FS_EmptySet DEF Num

\* retain drops the ages from n on and no other.
LEMMA NumYounger ==
  ASSUME NEW q \in Seq(Nat), NEW n \in Nat
  PROVE  /\ Younger(q, n) \in Seq(Nat) /\ Len(Younger(q, n)) <= Len(q)
         /\ \A S : q \in Seq(S) => Younger(q, n) \in Seq(S)
         /\ \A A : A \subseteq Below(n) => Num(Younger(q, n), A) = Num(q, A)
         /\ Len(Younger(q, n)) = Num(q, Below(n))
<1> DEFINE I == {i \in DOMAIN q : q[i] < n}
<1>1. I \in SUBSET (DOMAIN q) /\ Younger(q, n) = Subsequence(q, I)
  BY DEF Younger
<1>2. \A i \in DOMAIN q : q[i] \in Nat
  OBVIOUS
<1>3. I = {i \in DOMAIN q : q[i] \in Below(n)}
  BY <1>2 DEF Below
<1>4. \A A : A \subseteq Below(n) => {i \in DOMAIN q : q[i] \in A} = {i \in I : q[i] \in A}
  BY <1>3
<1> HIDE DEF I
<1>5. \A S : q \in Seq(S) => Subsequence(q, I) \in Seq(S)
  BY <1>1, SubsequenceReads
<1>6. Len(Subsequence(q, I)) = Cardinality(I) /\ Cardinality(I) <= Len(q)
  BY <1>1, SubsequenceReads, IndexesFinite
<1>7. ASSUME NEW A, A \subseteq Below(n)
      PROVE  Num(Subsequence(q, I), A) = Num(q, A)
  <2>1. Num(Subsequence(q, I), A) = Cardinality({i \in I : q[i] \in A})
    BY <1>1, SubsequenceCounts
  <2>2. Num(q, A) = Cardinality({i \in I : q[i] \in A})
    BY <1>4, <1>7 DEF Num
  <2> QED BY <2>1, <2>2
<1>8. \A A : A \subseteq Below(n) => Num(Younger(q, n), A) = Num(q, A)
  BY <1>1, <1>7
<1>9. Len(Younger(q, n)) = Num(q, Below(n)) /\ Len(Younger(q, n)) <= Len(q)
  BY <1>1, <1>3, <1>6 DEF Num
<1>10. \A S : q \in Seq(S) => Younger(q, n) \in Seq(S)
  BY <1>1, <1>5
<1> QED BY <1>8, <1>9, <1>10

LEMMA NumAppend ==
  ASSUME NEW q \in Seq(Nat), NEW A
  PROVE  /\ Append(q, 0) \in Seq(Nat) /\ Len(Append(q, 0)) = Len(q) + 1
         /\ Num(Append(q, 0), A) = Num(q, A) + IF 0 \in A THEN 1 ELSE 0
<1> DEFINE n == Len(q)
           r == Append(q, 0)
           I == {i \in DOMAIN q : q[i] \in A}
           J == {i \in DOMAIN r : r[i] \in A}
<1>1. /\ r \in Seq(Nat) /\ n \in Nat /\ Len(r) = n + 1
      /\ DOMAIN r = 1..(n + 1) /\ DOMAIN q = 1..n
      /\ r[n + 1] = 0 /\ \A i \in 1..n : r[i] = q[i]
  OBVIOUS
<1>2. \A i : i \in 1..(n + 1) <=> (i \in 1..n \/ i = n + 1)
  BY <1>1
<1>3. n + 1 \notin I
  BY <1>1
<1>4. IsFiniteSet(I) /\ Cardinality(I) \in Nat
  BY IndexesFinite
<1> HIDE DEF r, n
<1>5. J = IF 0 \in A THEN I \cup {n + 1} ELSE I
  BY <1>1, <1>2
<1> HIDE DEF I, J
<1>6. Cardinality(J) = Cardinality(I) + IF 0 \in A THEN 1 ELSE 0
  <2>1. Cardinality(I \cup {n + 1}) = Cardinality(I) + 1
    BY <1>3, <1>4, FS_AddElement
  <2> QED BY <1>4, <1>5, <2>1
<1> QED BY <1>1, <1>6 DEF Num, I, J, r, n

\* After a tick, an age below the bound was one less before.
LEMMA NumAged ==
  ASSUME NEW bound \in Nat, NEW q \in Seq(0..bound)
  PROVE  /\ Aged(q, bound) \in Seq(0..bound) /\ Len(Aged(q, bound)) = Len(q)
         /\ \A n \in 1..bound : Num(Aged(q, bound), Below(n)) = Num(q, Below(n - 1))
         /\ \A a \in 1..(bound - 1) : Num(Aged(q, bound), {a}) = Num(q, {a - 1})
         /\ bound > 0 => Num(Aged(q, bound), {0}) = 0
<1> DEFINE r == Aged(q, bound)
<1>1. \A i \in DOMAIN q : q[i] \in 0..bound
  OBVIOUS
<1>2. /\ DOMAIN r = DOMAIN q
      /\ \A i \in DOMAIN q : /\ r[i] \in 0..bound
                             /\ r[i] = IF q[i] < bound THEN q[i] + 1 ELSE bound
  BY <1>1 DEF Aged, Older
<1>3. r \in Seq(0..bound) /\ Len(r) = Len(q)
  <2>1. Len(q) \in Nat /\ DOMAIN q = 1..Len(q)
    OBVIOUS
  <2>2. r = [i \in 1..Len(q) |-> r[i]]
    BY <2>1 DEF Aged
  <2> HIDE DEF r
  <2> QED BY <1>2, <2>1, <2>2
<1> HIDE DEF r
<1>4. ASSUME NEW n \in 1..bound
      PROVE  Num(r, Below(n)) = Num(q, Below(n - 1))
  <2>1. \A i \in DOMAIN q : r[i] \in Below(n) <=> q[i] \in Below(n - 1)
    BY <1>1, <1>2 DEF Below
  <2>2. {i \in DOMAIN r : r[i] \in Below(n)} = {i \in DOMAIN q : q[i] \in Below(n - 1)}
    BY <1>2, <2>1
  <2> QED BY <2>2 DEF Num
<1>5. ASSUME NEW a \in 1..(bound - 1)
      PROVE  Num(r, {a}) = Num(q, {a - 1})
  <2>1. \A i \in DOMAIN q : r[i] \in {a} <=> q[i] \in {a - 1}
    BY <1>1, <1>2
  <2>2. {i \in DOMAIN r : r[i] \in {a}} = {i \in DOMAIN q : q[i] \in {a - 1}}
    BY <1>2, <2>1
  <2> QED BY <2>2 DEF Num
<1>6. bound > 0 => Num(r, {0}) = 0
  <2> SUFFICES ASSUME bound > 0 PROVE Num(r, {0}) = 0
    OBVIOUS
  <2>1. \A i \in DOMAIN q : r[i] # 0
    BY <1>1, <1>2
  <2>2. {i \in DOMAIN r : r[i] \in {0}} = {}
    BY <1>2, <2>1
  <2> QED BY <2>2, FS_EmptySet DEF Num
<1> QED BY <1>3, <1>4, <1>5, <1>6 DEF r

-------------------------------------------------------------------------------
(* The invariant of the limiter. *)

Limits == {LimitsOf(c) : c \in Configs}

\* What holds of one session with windows W, limits l, idle for d, of which
\* the requests q were let through; in marks whether it is tracked.  The
\* minute has every request that it must count, the day none that was refused,
\* and a session that is dropped has nothing left in its minute.
SessionOK(W, l, d, q, in) ==
  /\ W \in [Windows -> Seq(Nat)] /\ q \in Seq(0..Size["day"])
  /\ \A w \in Windows : W[w] \in Seq(0..Size[w]) /\ Len(W[w]) <= EffectiveLimit(l, w)
  /\ l \in Limits /\ d \in 0..IdleTimeout
  /\ in => /\ \A n \in 0..Size["minute"] : Num(q, Below(n)) <= Num(W["minute"], Below(n))
           /\ \A n \in 0..d : Num(q, Below(n)) = 0
  /\ ~in => W = Empty /\ Num(q, Below(Size["minute"])) = 0
  /\ \A a \in Below(Size["day"]) : Num(W["day"], {a}) <= Num(q, {a})

RateInv ==
  /\ config \in Configs /\ tracked \subseteq Sessions
  /\ window = [s \in Sessions |-> window[s]] /\ served = [s \in Sessions |-> served[s]]
  /\ limits = [s \in Sessions |-> limits[s]] /\ idle = [s \in Sessions |-> idle[s]]
  /\ \A s \in Sessions : SessionOK(window[s], limits[s], idle[s], served[s], s \in tracked)
  /\ cleaner = config.enabled /\ elapsed \in 0..Interval

LEMMA LimitsHold ==
  ASSUME NEW l \in Limits, NEW w \in Windows
  PROVE  EffectiveLimit(l, w) \in Nat
<1>1. PICK c \in Configs : l = LimitsOf(c)
  BY DEF Limits
<1>2. l.limit[w] \in Nat /\ l.burst \in Nat /\ Width \in Nat \ {0}
  BY <1>1, ConfigsAreConfigs DEF LimitsOf
<1> DEFINE a == l.limit[w] + l.burst
<1>3. a \in Nat
  BY <1>2
<1> HIDE DEF a
<1>4. a % Width \in Nat
  BY <1>2, <1>3
<1> QED BY <1>4 DEF EffectiveLimit, a

LEMMA SizesKnown ==
  /\ Size["minute"] \in Nat \ {0} /\ Size["day"] \in Nat \ {0} /\ IdleTimeout \in Nat
  /\ \A w \in Windows : Size[w] \in Nat
  /\ Size["minute"] <= IdleTimeout /\ IdleTimeout < Size["day"]
  /\ Windows = {"minute", "hour", "day"}
BY SizesAreOrdered DEF Windows

\* A sequence of ages within bounds is one of numbers.
LEMMA AgesAreNumbers ==
  ASSUME NEW n \in Nat, NEW q \in Seq(0..n)
  PROVE  q \in Seq(Nat)
OBVIOUS

\* Nothing is in the windows and nothing was let through that is not forgotten.
LEMMA FreshSession ==
  ASSUME NEW l \in Limits, NEW d \in 0..IdleTimeout, NEW in \in BOOLEAN
  PROVE  SessionOK(Empty, l, d, <<>>, in)
<1>1. Empty \in [Windows -> Seq(Nat)] /\ <<>> \in Seq(0..Size["day"])
      /\ \A w \in Windows : Empty[w] = <<>>
  BY DEF Empty
<1>2. \A w \in Windows : Empty[w] \in Seq(0..Size[w]) /\ Len(Empty[w]) <= EffectiveLimit(l, w)
  BY <1>1, LimitsHold
<1>3. \A A : Num(<<>>, A) = 0
  BY NumEmpty
<1>4. Empty["minute"] = <<>> /\ Empty["day"] = <<>>
  BY <1>1, SizesKnown
<1> HIDE DEF Empty
<1> QED BY <1>1, <1>2, <1>3, <1>4 DEF SessionOK


\* time: what one tick does to a session.
LEMMA TickedSession ==
  ASSUME NEW W, NEW l, NEW d, NEW q, NEW in \in BOOLEAN, SessionOK(W, l, d, q, in)
  PROVE  SessionOK([w \in Windows |-> Aged(W[w], Size[w])], l,
                   IF in THEN Older(d, IdleTimeout) ELSE 0,
                   Younger(Aged(q, Size["day"]), Size["day"]), in)
<1> DEFINE V == [w \in Windows |-> Aged(W[w], Size[w])]
           e == IF in THEN Older(d, IdleTimeout) ELSE 0
           day == Size["day"]
           minute == Size["minute"]
           p == Aged(q, day)
           r == Younger(p, day)
<1>1. /\ W \in [Windows -> Seq(Nat)] /\ q \in Seq(0..day)
      /\ \A w \in Windows : W[w] \in Seq(0..Size[w]) /\ Len(W[w]) <= EffectiveLimit(l, w)
      /\ l \in Limits /\ d \in 0..IdleTimeout
  BY DEF SessionOK
<1>2. /\ in => /\ \A n \in 0..minute : Num(q, Below(n)) <= Num(W["minute"], Below(n))
               /\ \A n \in 0..d : Num(q, Below(n)) = 0
      /\ ~in => W = Empty /\ Num(q, Below(minute)) = 0
      /\ \A a \in Below(day) : Num(W["day"], {a}) <= Num(q, {a})
  BY DEF SessionOK
<1>3. /\ minute \in Nat \ {0} /\ day \in Nat \ {0} /\ IdleTimeout \in Nat
      /\ minute <= IdleTimeout /\ IdleTimeout < day
      /\ \A w \in Windows : Size[w] \in Nat
      /\ Windows = {"minute", "hour", "day"}
  BY SizesKnown
<1>4. \A w \in Windows : V[w] = Aged(W[w], Size[w])
  OBVIOUS
<1> HIDE DEF V
<1>5. \A w \in Windows : V[w] \in Seq(0..Size[w]) /\ V[w] \in Seq(Nat) /\ Len(V[w]) = Len(W[w])
  BY <1>1, <1>3, <1>4, NumAged, AgesAreNumbers
<1>6. V \in [Windows -> Seq(Nat)]
  <2>1. V = [w \in Windows |-> V[w]]
    BY DEF V
  <2> QED BY <1>5, <2>1
<1>7. p \in Seq(0..day) /\ p \in Seq(Nat) /\ q \in Seq(Nat)
  BY <1>1, <1>3, NumAged, AgesAreNumbers
<1>8. r \in Seq(0..day) /\ \A A : A \subseteq Below(day) => Num(r, A) = Num(p, A)
  BY <1>3, <1>7, NumYounger
<1>9. \A n \in 1..IdleTimeout : Num(r, Below(n)) = Num(q, Below(n - 1))
  <2> SUFFICES ASSUME NEW n \in 1..IdleTimeout PROVE Num(r, Below(n)) = Num(q, Below(n - 1))
    OBVIOUS
  <2>1. n \in 1..day /\ Below(n) \subseteq Below(day)
    BY <1>3 DEF Below
  <2>2. Num(p, Below(n)) = Num(q, Below(n - 1))
    BY <1>1, <1>3, <2>1, NumAged
  <2> QED BY <1>8, <2>1, <2>2
<1>10. Num(r, Below(0)) = 0
  <2>1. Below(0) = {}
    BY DEF Below
  <2>2. r \in Seq(Nat)
    BY <1>3, <1>8, AgesAreNumbers
  <2> HIDE DEF r
  <2> QED BY <2>1, <2>2, NumBounds
<1> HIDE DEF r, p
<1>11. in => \A n \in 0..minute : Num(r, Below(n)) <= Num(V["minute"], Below(n))
  <2> SUFFICES ASSUME in, NEW n \in 0..minute
               PROVE  Num(r, Below(n)) <= Num(V["minute"], Below(n))
    OBVIOUS
  <2>1. V["minute"] \in Seq(Nat) /\ W["minute"] \in Seq(0..minute) /\ V["minute"] = Aged(W["minute"], minute)
    BY <1>1, <1>3, <1>4, <1>5
  <2>2. Num(V["minute"], Below(n)) \in Nat
    BY <2>1, NumBounds
  <2>3. CASE n = 0
    BY <1>10, <2>2, <2>3
  <2>4. CASE n # 0
    <3>1. n \in 1..minute /\ n \in 1..IdleTimeout /\ n - 1 \in 0..minute
      BY <1>3, <2>4
    <3>2. Num(V["minute"], Below(n)) = Num(W["minute"], Below(n - 1))
      BY <1>3, <2>1, <3>1, NumAged
    <3>3. Num(r, Below(n)) = Num(q, Below(n - 1))
      BY <1>9, <3>1
    <3>4. Num(q, Below(n - 1)) <= Num(W["minute"], Below(n - 1))
      BY <1>2, <3>1
    <3> QED BY <3>2, <3>3, <3>4
  <2> QED BY <2>3, <2>4
<1>12. e \in 0..IdleTimeout /\ (in => e = IF d < IdleTimeout THEN d + 1 ELSE IdleTimeout) /\ (in => d <= e)
  BY <1>1, <1>3 DEF Older
<1> HIDE DEF e
<1>13. in => \A n \in 0..e : Num(r, Below(n)) = 0
  <2> SUFFICES ASSUME in, NEW n \in 0..e
               PROVE  Num(r, Below(n)) = 0
    OBVIOUS
  <2>1. CASE n = 0
    BY <1>10, <2>1
  <2>2. CASE n # 0
    <3>1. n \in 1..IdleTimeout /\ n - 1 \in 0..d
      BY <1>1, <1>3, <1>12, <2>2
    <3> QED BY <1>2, <1>9, <3>1
  <2> QED BY <2>1, <2>2
<1>14. ~in => V = Empty /\ Num(r, Below(minute)) = 0
  <2> SUFFICES ASSUME ~in PROVE V = Empty /\ Num(r, Below(minute)) = 0
    OBVIOUS
  <2>1. V = Empty
    <3>1. \A w \in Windows : Aged(W[w], Size[w]) = <<>>
      <4>1. \A w \in Windows : W[w] = <<>>
        BY <1>2 DEF Empty
      <4>2. \A w \in Windows : Aged(W[w], Size[w]) \in Seq(0..Size[w])
                               /\ Len(Aged(W[w], Size[w])) = Len(W[w])
        BY <1>4, <1>5
      <4> QED BY <4>1, <4>2
    <3> QED BY <3>1 DEF V, Empty
  <2>2. minute \in 1..IdleTimeout /\ minute - 1 \in Nat
    BY <1>3
  <2>3. Num(r, Below(minute)) = Num(q, Below(minute - 1))
    BY <1>9, <2>2
  <2>4. Below(minute - 1) \subseteq Below(minute)
    BY <2>2 DEF Below
  <2>5. Num(q, Below(minute - 1)) <= Num(q, Below(minute)) /\ Num(q, Below(minute - 1)) \in Nat
    BY <1>7, <2>4, NumBounds
  <2> QED BY <1>2, <2>1, <2>3, <2>5
<1>15. \A a \in Below(day) : Num(V["day"], {a}) <= Num(r, {a})
  <2> SUFFICES ASSUME NEW a \in Below(day) PROVE Num(V["day"], {a}) <= Num(r, {a})
    OBVIOUS
  <2>1. /\ V["day"] = Aged(W["day"], day) /\ W["day"] \in Seq(0..day) /\ {a} \subseteq Below(day)
        /\ r \in Seq(Nat)
    BY <1>1, <1>3, <1>4, <1>8, AgesAreNumbers
  <2>2. Num(r, {a}) \in Nat /\ Num(r, {a}) = Num(p, {a})
    BY <1>8, <2>1, NumBounds
  <2>3. CASE a = 0
    <3>1. Num(V["day"], {a}) = 0
      BY <1>3, <2>1, <2>3, NumAged
    <3> QED BY <2>2, <3>1
  <2>4. CASE a # 0
    <3>1. a \in 1..(day - 1) /\ a - 1 \in Below(day)
      BY <1>3, <2>4 DEF Below
    <3>2. Num(Aged(W["day"], day), {a}) = Num(W["day"], {a - 1})
      BY <1>3, <2>1, <3>1, NumAged, Zenon
    <3>3. Num(Aged(q, day), {a}) = Num(q, {a - 1})
      BY <1>1, <1>3, <3>1, NumAged, Zenon
    <3>4. Num(W["day"], {a - 1}) <= Num(q, {a - 1})
      BY <1>2, <3>1
    <3> QED BY <2>1, <2>2, <3>2, <3>3, <3>4 DEF p
  <2> QED BY <2>3, <2>4
<1>16. \A w \in Windows : V[w] \in Seq(0..Size[w]) /\ Len(V[w]) <= EffectiveLimit(l, w)
  BY <1>1, <1>5
<1> HIDE DEF day, minute
<1> QED BY <1>1, <1>6, <1>8, <1>11, <1>12, <1>13, <1>14, <1>15, <1>16 DEF SessionOK, V, e, r, p, day, minute

\* A session that was idle for its time is dropped with nothing in its minute.
LEMMA DroppedSession ==
  ASSUME NEW W, NEW l, NEW d, NEW q, NEW in \in BOOLEAN, SessionOK(W, l, d, q, in), d >= IdleTimeout
  PROVE  SessionOK(Empty, l, d, q, FALSE)
<1>1. Num(q, Below(Size["minute"])) = 0
  <2>1. Size["minute"] \in 0..d
    BY SizesKnown DEF SessionOK
  <2> QED BY <2>1 DEF SessionOK
<1>2. SessionOK(Empty, l, d, <<>>, FALSE)
  BY FreshSession DEF SessionOK
<1>3. q \in Seq(0..Size["day"]) /\ q \in Seq(Nat)
  BY SizesKnown, AgesAreNumbers DEF SessionOK
<1>4. Empty["day"] = <<>>
  BY SizesKnown DEF Empty
<1>5. ASSUME NEW a \in Below(Size["day"])
      PROVE  Num(Empty["day"], {a}) <= Num(q, {a})
  <2>1. Num(Empty["day"], {a}) = 0
    BY <1>4, NumEmpty
  <2>2. Num(q, {a}) \in Nat
    BY <1>3, NumBounds
  <2> HIDE DEF Empty
  <2> QED BY <2>1, <2>2
<1>6. /\ Empty \in [Windows -> Seq(Nat)] /\ l \in Limits /\ d \in 0..IdleTimeout
      /\ \A w \in Windows : Empty[w] \in Seq(0..Size[w]) /\ Len(Empty[w]) <= EffectiveLimit(l, w)
  BY <1>2 DEF SessionOK
<1> HIDE DEF Empty
<1> QED BY <1>1, <1>3, <1>5, <1>6 DEF SessionOK

\* check: the windows of s after it, and what was let through.
LEMMA CheckedSession ==
  ASSUME RateInv, NEW s \in Sessions, NEW l \in Limits,
         s \in tracked => l = limits[s]
  PROVE  SessionOK(Charged(s, l), l, 0,
                   IF \A w \in Windows : HasRoom(s, l, w) THEN Append(served[s], 0) ELSE served[s],
                   TRUE)
<1> DEFINE W == window[s]
           q == served[s]
           C == Charged(s, l)
           day == Size["day"]
           minute == Size["minute"]
           through == \A w \in Windows : HasRoom(s, l, w)
           r == IF through THEN Append(q, 0) ELSE q
           asked(w) == \A v \in Before(w) : HasRoom(s, l, v)
<1>1. SessionOK(W, limits[s], idle[s], q, s \in tracked)
  BY DEF RateInv
<1>2. /\ W \in [Windows -> Seq(Nat)] /\ q \in Seq(0..day)
      /\ \A w \in Windows : W[w] \in Seq(0..Size[w]) /\ Len(W[w]) <= EffectiveLimit(limits[s], w)
      /\ s \in tracked => \A n \in 0..minute : Num(q, Below(n)) <= Num(W["minute"], Below(n))
      /\ s \notin tracked => W = Empty /\ Num(q, Below(minute)) = 0
      /\ \A a \in Below(day) : Num(W["day"], {a}) <= Num(q, {a})
  BY <1>1 DEF SessionOK
<1>3. /\ minute \in Nat \ {0} /\ day \in Nat \ {0} /\ IdleTimeout \in Nat /\ minute <= day
      /\ \A w \in Windows : Size[w] \in Nat
      /\ Windows = {"minute", "hour", "day"}
  BY SizesKnown
<1>4. \A w \in Windows :
        /\ HasRoom(s, l, w) <=> Len(Retained(s, w)) < EffectiveLimit(l, w)
        /\ EffectiveLimit(l, w) \in Nat
        /\ Len(W[w]) <= EffectiveLimit(l, w)
  <2>1. \A w \in Windows : s \notin tracked => Len(W[w]) = 0
    BY <1>2 DEF Empty
  <2> QED BY <1>2, <2>1, LimitsHold DEF HasRoom
<1>5. \A w \in Windows :
        /\ Retained(s, w) \in Seq(Nat) /\ Retained(s, w) \in Seq(0..Size[w])
        /\ Len(Retained(s, w)) \in Nat /\ Len(W[w]) \in Nat
        /\ Len(Retained(s, w)) <= Len(W[w])
        /\ \A A : A \subseteq Below(Size[w]) => Num(Retained(s, w), A) = Num(W[w], A)
  <2> SUFFICES ASSUME NEW w \in Windows
               PROVE  /\ Retained(s, w) \in Seq(Nat) /\ Retained(s, w) \in Seq(0..Size[w])
                      /\ Len(Retained(s, w)) \in Nat /\ Len(W[w]) \in Nat
                      /\ Len(Retained(s, w)) <= Len(W[w])
                      /\ \A A : A \subseteq Below(Size[w]) => Num(Retained(s, w), A) = Num(W[w], A)
    OBVIOUS
  <2>1. W[w] \in Seq(Nat) /\ W[w] \in Seq(0..Size[w]) /\ Size[w] \in Nat
    BY <1>2, <1>3
  <2>2. Retained(s, w) = Younger(W[w], Size[w])
    BY DEF Retained
  <2>3. /\ Younger(W[w], Size[w]) \in Seq(Nat) /\ Len(Younger(W[w], Size[w])) <= Len(W[w])
        /\ Younger(W[w], Size[w]) \in Seq(0..Size[w])
        /\ \A A : A \subseteq Below(Size[w]) => Num(Younger(W[w], Size[w]), A) = Num(W[w], A)
    BY <2>1, NumYounger
  <2> HIDE DEF W
  <2> QED BY <2>1, <2>2, <2>3
\* What becomes of one window.
<1>6. \A w \in Windows :
        C[w] = IF ~asked(w) THEN W[w]
               ELSE IF HasRoom(s, l, w) THEN Append(Retained(s, w), 0) ELSE Retained(s, w)
  <2> SUFFICES ASSUME NEW w \in Windows
               PROVE  C[w] = IF ~asked(w) THEN W[w]
                             ELSE IF HasRoom(s, l, w) THEN Append(Retained(s, w), 0) ELSE Retained(s, w)
    OBVIOUS
  <2>1. C[w] = IF asked(w)
               THEN Retained(s, w) \o IF HasRoom(s, l, w) THEN <<0>> ELSE <<>>
               ELSE W[w]
    BY DEF Charged
  <2> DEFINE k == Retained(s, w)
  <2>2. k \in Seq(Nat)
    BY <1>5
  <2> HIDE DEF k
  <2>3. k \o <<0>> = Append(k, 0) /\ k \o <<>> = k
    BY <2>2
  <2> QED BY <2>1, <2>3 DEF k
<1>7. C = [w \in Windows |-> C[w]]
  BY DEF Charged
<1> HIDE DEF C, asked, W, q
<1>8. \A w \in Windows : C[w] \in Seq(Nat) /\ C[w] \in Seq(0..Size[w]) /\ Len(C[w]) <= EffectiveLimit(l, w)
  <2> SUFFICES ASSUME NEW w \in Windows
               PROVE  C[w] \in Seq(Nat) /\ C[w] \in Seq(0..Size[w]) /\ Len(C[w]) <= EffectiveLimit(l, w)
    OBVIOUS
  <2> DEFINE k == Retained(s, w)
  <2>1. /\ k \in Seq(Nat) /\ k \in Seq(0..Size[w]) /\ Len(k) \in Nat /\ Len(k) <= Len(W[w])
        /\ W[w] \in Seq(Nat) /\ W[w] \in Seq(0..Size[w]) /\ Len(W[w]) \in Nat
        /\ EffectiveLimit(l, w) \in Nat /\ Len(W[w]) <= EffectiveLimit(l, w)
        /\ HasRoom(s, l, w) => Len(k) < EffectiveLimit(l, w)
        /\ 0 \in 0..Size[w]
    BY <1>2, <1>3, <1>4, <1>5
  <2>2. C[w] \in {W[w], k} \/ (HasRoom(s, l, w) /\ C[w] = Append(k, 0))
    BY <1>6
  <2> HIDE DEF k
  <2>3. Append(k, 0) \in Seq(Nat) /\ Append(k, 0) \in Seq(0..Size[w]) /\ Len(Append(k, 0)) = Len(k) + 1
    <3> DEFINE B == 0..Size[w]
    <3>1. k \in Seq(B) /\ 0 \in B
      BY <2>1
    <3> HIDE DEF B
    <3>2. Append(k, 0) \in Seq(B)
      BY <3>1
    <3>3. Append(k, 0) \in Seq(Nat) /\ Len(Append(k, 0)) = Len(k) + 1
      BY <2>1
    <3> QED BY <3>2, <3>3 DEF B
  <2> DEFINE lim == EffectiveLimit(l, w)
             B == 0..Size[w]
  <2>4. C[w] \in Seq(Nat) /\ C[w] \in Seq(B)
    <3> HIDE DEF B
    <3> QED BY <2>1, <2>2, <2>3 DEF B
  <2>5. Len(C[w]) <= lim
    <3> HIDE DEF lim
    <3> QED BY <2>1, <2>2, <2>3 DEF lim
  <2> QED BY <2>4, <2>5
<1>9. r \in Seq(0..day) /\ q \in Seq(Nat) /\ r \in Seq(Nat)
  <2>1. q \in Seq(0..day) /\ q \in Seq(Nat) /\ 0 \in 0..day
    BY <1>2, <1>3, AgesAreNumbers
  <2>2. Append(q, 0) \in Seq(0..day) /\ Append(q, 0) \in Seq(Nat)
    BY <2>1
  <2> QED BY <2>1, <2>2
<1>10. \A A : Num(r, A) = Num(q, A) + IF through /\ 0 \in A THEN 1 ELSE 0
  <2>1. \A A : Num(q, A) \in Nat
    BY <1>9, NumBounds
  <2>2. \A A : Num(Append(q, 0), A) = Num(q, A) + IF 0 \in A THEN 1 ELSE 0
    BY <1>9, NumAppend
  <2> QED BY <2>1, <2>2
<1> HIDE DEF r
<1>11. \A n \in 0..minute : Num(r, Below(n)) <= Num(C["minute"], Below(n))
  <2> SUFFICES ASSUME NEW n \in 0..minute PROVE Num(r, Below(n)) <= Num(C["minute"], Below(n))
    OBVIOUS
  <2> DEFINE k == Retained(s, "minute")
             A == Below(n)
  <2>1. asked("minute") /\ (through => HasRoom(s, l, "minute"))
    BY <1>3 DEF asked, Before
  <2>2. C["minute"] = IF HasRoom(s, l, "minute") THEN Append(k, 0) ELSE k
    BY <1>3, <1>6, <2>1
  <2>3. A \subseteq Below(minute) /\ k \in Seq(Nat) /\ W["minute"] \in Seq(Nat)
    BY <1>2, <1>3, <1>5 DEF Below
  <2>4. Num(k, A) = Num(W["minute"], A)
    BY <1>3, <1>5, <2>3
  <2>5. Num(q, A) \in Nat /\ Num(W["minute"], A) \in Nat /\ Num(q, A) <= Num(q, Below(minute))
    BY <1>9, <2>3, NumBounds
  <2>6. Num(q, A) <= Num(W["minute"], A)
    <3>1. CASE s \in tracked
      BY <1>2, <3>1
    <3>2. CASE s \notin tracked
      BY <1>2, <2>5, <3>2
    <3> QED BY <3>1, <3>2
  <2>7. Num(Append(k, 0), A) = Num(k, A) + IF 0 \in A THEN 1 ELSE 0
    BY <2>3, NumAppend
  <2>8. Num(r, A) = Num(q, A) + IF through /\ 0 \in A THEN 1 ELSE 0
    BY <1>10
  <2> HIDE DEF k, A, through
  <2>9. Num(r, A) <= Num(C["minute"], A)
    <3>1. CASE HasRoom(s, l, "minute")
      BY <2>2, <2>4, <2>5, <2>6, <2>7, <2>8, <3>1
    <3>2. CASE ~HasRoom(s, l, "minute")
      BY <2>1, <2>2, <2>4, <2>5, <2>6, <2>8, <3>2
    <3> QED BY <3>1, <3>2
  <2> QED BY <2>9 DEF A
<1>12. \A a \in Below(day) : Num(C["day"], {a}) <= Num(r, {a})
  <2> SUFFICES ASSUME NEW a \in Below(day) PROVE Num(C["day"], {a}) <= Num(r, {a})
    OBVIOUS
  <2> DEFINE k == Retained(s, "day")
             A == {a}
  <2>1. asked("day") /\ HasRoom(s, l, "day") => through
    BY <1>3 DEF asked, Before
  <2>2. C["day"] = IF ~asked("day") THEN W["day"]
                   ELSE IF HasRoom(s, l, "day") THEN Append(k, 0) ELSE k
    BY <1>3, <1>6
  <2>3. A \subseteq Below(day) /\ k \in Seq(Nat) /\ W["day"] \in Seq(Nat)
    BY <1>2, <1>3, <1>5
  <2>4. Num(k, A) = Num(W["day"], A)
    BY <1>3, <1>5, <2>3
  <2>5. Num(q, A) \in Nat /\ Num(W["day"], A) \in Nat
    BY <1>9, <2>3, NumBounds
  <2>6. Num(W["day"], A) <= Num(q, A)
    BY <1>2
  <2>7. Num(Append(k, 0), A) = Num(k, A) + IF 0 \in A THEN 1 ELSE 0
    BY <2>3, NumAppend
  <2>8. Num(r, A) = Num(q, A) + IF through /\ 0 \in A THEN 1 ELSE 0
    BY <1>10
  <2> HIDE DEF k, A, through
  <2>9. Num(C["day"], A) <= Num(r, A)
    BY <2>1, <2>2, <2>4, <2>5, <2>6, <2>7, <2>8
  <2> QED BY <2>9 DEF A
<1>13. \A n \in 0..0 : Num(r, Below(n)) = 0
  <2>1. Below(0) = {} /\ \A n \in 0..0 : n = 0
    BY DEF Below
  <2> QED BY <1>9, <2>1, NumBounds
<1>14. C \in [Windows -> Seq(Nat)] /\ 0 \in 0..IdleTimeout
  BY <1>3, <1>7, <1>8
<1>15. SessionOK(C, l, 0, r, TRUE)
  BY <1>8, <1>9, <1>11, <1>12, <1>13, <1>14 DEF SessionOK
<1> QED BY <1>15 DEF C, r, q

-------------------------------------------------------------------------------
(* The steps of the limiter. *)

\* What the invariant says of every session.
LEMMA RateParts ==
  ASSUME RateInv
  PROVE  \A s \in Sessions :
           /\ SessionOK(window[s], limits[s], idle[s], served[s], s \in tracked)
           /\ limits[s] \in Limits /\ idle[s] \in 0..IdleTimeout
BY DEF RateInv, SessionOK

LEMMA RateAtStart == RateInit => RateInv
<1> SUFFICES ASSUME RateInit PROVE RateInv
  OBVIOUS
<1>1. First \in Configs /\ First.enabled \in BOOLEAN /\ Interval \in Nat
  BY ConfigsAreConfigs
<1>2. LimitsOf(First) \in Limits /\ 0 \in 0..IdleTimeout /\ 0 \in 0..Interval
  BY <1>1, SizesKnown DEF Limits
<1>3. SessionOK(Empty, LimitsOf(First), 0, <<>>, FALSE)
  BY <1>2, FreshSession
<1> HIDE DEF Empty
<1>4. \A s \in Sessions :
        /\ window[s] = Empty /\ limits[s] = LimitsOf(First) /\ idle[s] = 0
        /\ served[s] = <<>> /\ (s \in tracked) = FALSE
  BY DEF RateInit
<1>5. \A s \in Sessions : SessionOK(window[s], limits[s], idle[s], served[s], s \in tracked)
  BY <1>3, <1>4
<1>6. /\ window = [s \in Sessions |-> window[s]] /\ served = [s \in Sessions |-> served[s]]
      /\ limits = [s \in Sessions |-> limits[s]] /\ idle = [s \in Sessions |-> idle[s]]
      /\ tracked \subseteq Sessions /\ config = First /\ cleaner = First.enabled /\ elapsed = 0
  BY DEF RateInit
<1> QED BY <1>1, <1>2, <1>5, <1>6 DEF RateInv

LEMMA CheckKeeps ==
  ASSUME RateInv, NEW s \in Sessions, Check(s)
  PROVE  RateInv'
<1> DEFINE l == IF s \in tracked THEN limits[s] ELSE LimitsOf(config)
           C == Charged(s, l)
           r == IF \A w \in Windows : HasRoom(s, l, w) THEN Append(served[s], 0) ELSE served[s]
<1>1. l \in Limits /\ (s \in tracked => l = limits[s])
  BY RateParts DEF RateInv, Limits
<1>2. SessionOK(C, l, 0, r, TRUE)
  BY <1>1, CheckedSession
<1>3. /\ tracked' = tracked \cup {s}
      /\ limits' = [limits EXCEPT ![s] = l] /\ idle' = [idle EXCEPT ![s] = 0]
      /\ window' = [window EXCEPT ![s] = C] /\ served' = [served EXCEPT ![s] = r]
      /\ UNCHANGED <<config, cleaner, elapsed>>
  BY DEF Check, thread
<1> HIDE DEF l, C, r
<1>4. ASSUME NEW t \in Sessions
      PROVE  SessionOK(window'[t], limits'[t], idle'[t], served'[t], t \in tracked')
  <2>1. CASE t = s
    <3>1. /\ window'[t] = C /\ limits'[t] = l /\ idle'[t] = 0 /\ served'[t] = r
          /\ (t \in tracked') = TRUE
      BY <1>3, <2>1 DEF RateInv
    <3> QED BY <1>2, <3>1
  <2>2. CASE t # s
    <3>1. /\ window'[t] = window[t] /\ limits'[t] = limits[t] /\ idle'[t] = idle[t]
          /\ served'[t] = served[t] /\ (t \in tracked' <=> t \in tracked)
      BY <1>3, <2>2 DEF RateInv
    <3> QED BY <3>1, RateParts DEF SessionOK
  <2> QED BY <2>1, <2>2
<1>5. /\ window' = [t \in Sessions |-> window'[t]] /\ served' = [t \in Sessions |-> served'[t]]
      /\ limits' = [t \in Sessions |-> limits'[t]] /\ idle' = [t \in Sessions |-> idle'[t]]
      /\ tracked' \subseteq Sessions
  BY <1>3 DEF RateInv
<1> QED BY <1>3, <1>4, <1>5 DEF RateInv

\* A session that is reset or removed: its windows are empty and what was let
\* through is forgotten.
LEMMA ForgetKeeps ==
  ASSUME RateInv, NEW s \in Sessions, ResetSession(s) \/ RemoveSession(s)
  PROVE  RateInv'
<1>1. /\ tracked' = tracked \/ tracked' = tracked \ {s}
      /\ window' = [window EXCEPT ![s] = Empty] /\ served' = [served EXCEPT ![s] = <<>>]
      /\ UNCHANGED <<config, limits, idle, cleaner, elapsed>>
  BY DEF ResetSession, RemoveSession, thread
<1> HIDE DEF Empty
<1>2. ASSUME NEW t \in Sessions
      PROVE  SessionOK(window'[t], limits'[t], idle'[t], served'[t], t \in tracked')
  <2>1. CASE t = s
    <3>1. /\ window'[t] = Empty /\ limits'[t] = limits[t] /\ idle'[t] = idle[t]
          /\ served'[t] = <<>> /\ (t \in tracked') \in BOOLEAN
      BY <1>1, <2>1 DEF RateInv
    <3>2. SessionOK(Empty, limits[t], idle[t], <<>>, t \in tracked')
      BY <3>1, RateParts, FreshSession
    <3> QED BY <3>1, <3>2
  <2>2. CASE t # s
    <3>1. /\ window'[t] = window[t] /\ limits'[t] = limits[t] /\ idle'[t] = idle[t]
          /\ served'[t] = served[t] /\ (t \in tracked' <=> t \in tracked)
      BY <1>1, <2>2 DEF RateInv
    <3> QED BY <3>1, RateParts DEF SessionOK
  <2> QED BY <2>1, <2>2
<1>3. /\ window' = [t \in Sessions |-> window'[t]] /\ served' = [t \in Sessions |-> served'[t]]
      /\ limits' = [t \in Sessions |-> limits'[t]] /\ idle' = [t \in Sessions |-> idle'[t]]
      /\ tracked' \subseteq Sessions
  BY <1>1 DEF RateInv
<1> QED BY <1>1, <1>2, <1>3 DEF RateInv

\* The cleanup drops the sessions that are idle for too long.
LEMMA CleanupKeeps ==
  ASSUME RateInv, Cleanup
  PROVE  RateInv'
<1>1. /\ tracked' = {s \in tracked : ~Idle(s)} /\ elapsed' = 0
      /\ window' = [s \in Sessions |-> IF Idle(s) THEN Empty ELSE window[s]]
      /\ UNCHANGED <<config, limits, idle, cleaner, served>>
  BY DEF Cleanup
<1>2. 0 \in 0..Interval
  BY ConfigsAreConfigs
<1> HIDE DEF Empty
<1>3. ASSUME NEW t \in Sessions
      PROVE  SessionOK(window'[t], limits'[t], idle'[t], served'[t], t \in tracked')
  <2>1. SessionOK(window[t], limits[t], idle[t], served[t], t \in tracked)
    BY RateParts
  <2>2. limits'[t] = limits[t] /\ idle'[t] = idle[t] /\ served'[t] = served[t]
    BY <1>1
  <2>3. CASE Idle(t)
    <3>1. window'[t] = Empty /\ t \notin tracked' /\ idle[t] >= IdleTimeout
      BY <1>1, <2>3 DEF Idle
    <3>2. SessionOK(Empty, limits[t], idle[t], served[t], FALSE)
      <4>1. (t \in tracked) \in BOOLEAN
        OBVIOUS
      <4> HIDE DEF SessionOK
      <4> QED BY <2>1, <3>1, <4>1, DroppedSession
    <3> QED BY <2>2, <3>1, <3>2 DEF SessionOK
  <2>4. CASE ~Idle(t)
    <3>1. window'[t] = window[t] /\ (t \in tracked') = (t \in tracked)
      BY <1>1, <2>4
    <3> QED BY <2>1, <2>2, <3>1
  <2> QED BY <2>3, <2>4
<1>4. /\ window' = [t \in Sessions |-> window'[t]] /\ served' = [t \in Sessions |-> served'[t]]
      /\ limits' = [t \in Sessions |-> limits'[t]] /\ idle' = [t \in Sessions |-> idle'[t]]
      /\ tracked' \subseteq Sessions
  BY <1>1 DEF RateInv
<1> QED BY <1>1, <1>2, <1>3, <1>4 DEF RateInv

LEMMA TickKeeps ==
  ASSUME RateInv, Tick
  PROVE  RateInv'
<1>1. /\ window' = [s \in Sessions |-> [w \in Windows |-> Aged(window[s][w], Size[w])]]
      /\ served' = [s \in Sessions |-> Younger(Aged(served[s], Size["day"]), Size["day"])]
      /\ idle' = [s \in Sessions |-> IF s \in tracked THEN Older(idle[s], IdleTimeout) ELSE 0]
      /\ elapsed' = Older(elapsed, Interval)
      /\ UNCHANGED <<config, tracked, limits, cleaner>>
  BY DEF Tick
<1>2. elapsed' \in 0..Interval
  BY <1>1, ConfigsAreConfigs DEF RateInv, Older
<1>3. ASSUME NEW t \in Sessions
      PROVE  SessionOK(window'[t], limits'[t], idle'[t], served'[t], t \in tracked')
  <2>1. SessionOK(window[t], limits[t], idle[t], served[t], t \in tracked)
    BY RateParts
  <2>2. (t \in tracked) \in BOOLEAN
    OBVIOUS
  <2>3. SessionOK([w \in Windows |-> Aged(window[t][w], Size[w])], limits[t],
                  IF t \in tracked THEN Older(idle[t], IdleTimeout) ELSE 0,
                  Younger(Aged(served[t], Size["day"]), Size["day"]), t \in tracked)
    BY <2>1, <2>2, TickedSession
  <2> QED BY <1>1, <2>3
<1>4. /\ window' = [t \in Sessions |-> window'[t]] /\ served' = [t \in Sessions |-> served'[t]]
      /\ limits' = [t \in Sessions |-> limits'[t]] /\ idle' = [t \in Sessions |-> idle'[t]]
      /\ tracked' \subseteq Sessions
  BY <1>1 DEF RateInv
<1> QED BY <1>1, <1>2, <1>3, <1>4 DEF RateInv

LEMMA RateStep == RateInv /\ [RateNext]_rateVars => RateInv'
<1> SUFFICES ASSUME RateInv, [RateNext]_rateVars PROVE RateInv'
  OBVIOUS
<1>1. CASE \E s \in Sessions : Check(s)
  BY <1>1, CheckKeeps
<1>2. CASE \E s \in Sessions : ResetSession(s) \/ RemoveSession(s)
  BY <1>2, ForgetKeeps
<1>3. CASE \E c \in Configs : UpdateConfig(c)
  <2>1. PICK c \in Configs : UpdateConfig(c)
    BY <1>3
  <2>2. 0 \in 0..Interval
    BY ConfigsAreConfigs
  <2> QED BY <2>1, <2>2 DEF UpdateConfig, tracking, RateInv
<1>4. CASE Cleanup
  BY <1>4, CleanupKeeps
<1>5. CASE Tick
  BY <1>5, TickKeeps
<1>6. CASE UNCHANGED rateVars
  BY <1>6 DEF rateVars, tracking, thread, RateInv
<1> QED BY <1>1, <1>2, <1>3, <1>4, <1>5, <1>6 DEF RateNext

LEMMA RateInvariant == RateSpec => []RateInv
BY RateAtStart, RateStep, PTL DEF RateSpec

-------------------------------------------------------------------------------
(* The theorems about the limiter. *)

\* The windows of a session never hold more than its limits allow, for any
\* limits and window sizes.
THEOREM LimiterTypeCorrect == RateSpec => []RateTypeOK
<1>1. RateInv => RateTypeOK
  <2> SUFFICES ASSUME RateInv PROVE RateTypeOK
    OBVIOUS
  <2>1. ASSUME NEW s \in Sessions, NEW w \in Windows
        PROVE  /\ \A i \in DOMAIN window[s][w] : window[s][w][i] \in 0..Size[w]
               /\ Len(window[s][w]) <= EffectiveLimit(limits[s], w)
    <3> DEFINE q == window[s][w]
               B == 0..Size[w]
    <3>1. q \in Seq(B) /\ Len(q) <= EffectiveLimit(limits[s], w)
      BY RateParts DEF SessionOK
    <3> HIDE DEF q, B
    <3>2. \A i \in DOMAIN q : q[i] \in B
      BY <3>1
    <3> QED BY <3>1, <3>2 DEF q, B
  <2>2. idle \in [Sessions -> 0..IdleTimeout]
    BY RateParts DEF RateInv
  <2> QED BY <2>1, <2>2 DEF RateInv, RateTypeOK
<1> QED BY <1>1, RateInvariant, PTL

\* In no stretch of a minute does a session get more requests through than
\* the limits that it is tracked with, whatever the cleanup, the resets and
\* update_config do (rate_limit.rs).
THEOREM MinuteLimitHolds == RateSpec => []MinuteHolds
<1>1. RateInv => MinuteHolds
  <2> SUFFICES ASSUME RateInv, NEW s \in Sessions
               PROVE  Len(Served(s, "minute"))
                        <= IF s \in tracked THEN EffectiveLimit(limits[s], "minute") ELSE 0
    BY DEF MinuteHolds, WindowHolds
  <2> DEFINE minute == Size["minute"]
             W == window[s]["minute"]
             q == served[s]
             lim == EffectiveLimit(limits[s], "minute")
  <2>1. SessionOK(window[s], limits[s], idle[s], q, s \in tracked)
    BY RateParts
  <2>2. minute \in Nat /\ "minute" \in Windows /\ Size["day"] \in Nat
    BY SizesKnown
  <2>3. W \in Seq(Nat) /\ Len(W) <= lim /\ q \in Seq(0..Size["day"])
    BY <2>1, <2>2 DEF SessionOK
  <2>4. q \in Seq(Nat)
    BY <2>2, <2>3, AgesAreNumbers
  <2>5. Len(Served(s, "minute")) = Num(q, Below(minute))
    BY <2>2, <2>4, NumYounger DEF Served
  <2>6. Num(q, Below(minute)) \in Nat /\ Num(W, Below(minute)) \in Nat /\ Num(W, Below(minute)) <= Len(W)
    BY <2>3, <2>4, NumBounds
  <2>7. s \in tracked => Num(q, Below(minute)) <= Num(W, Below(minute))
    BY <2>1, <2>2 DEF SessionOK
  <2>8. s \notin tracked => Num(q, Below(minute)) = 0
    BY <2>1 DEF SessionOK
  <2>9. Len(W) \in Nat /\ lim \in Nat
    BY <2>2, <2>3, LimitsHold, RateParts
  <2> HIDE DEF W, q, minute, lim
  <2>10. CASE s \in tracked
    <3>1. Num(q, Below(minute)) <= lim
      BY <2>3, <2>6, <2>7, <2>9, <2>10
    <3> QED BY <2>5, <2>10, <3>1 DEF lim
  <2>11. CASE s \notin tracked
    BY <2>5, <2>8, <2>11
  <2> QED BY <2>10, <2>11
<1> QED BY <1>1, RateInvariant, PTL

\* A request that the minute or the hour refused is not charged to the day:
\* the day has no more requests of an age than were let through (check).
THEOREM DayOnlyForServed == RateSpec => []DayChargesServed
<1>1. RateInv => DayChargesServed
  <2> SUFFICES ASSUME RateInv, NEW s \in tracked, NEW a \in 0..(Size["day"] - 1)
               PROVE  Cardinality({i \in DOMAIN window[s]["day"] : window[s]["day"][i] = a})
                        <= Cardinality({i \in DOMAIN served[s] : served[s][i] = a})
    BY DEF DayChargesServed
  <2>1. s \in Sessions
    BY DEF RateInv
  <2>2. Num(window[s]["day"], {a}) <= Num(served[s], {a})
    BY <2>1, RateParts DEF SessionOK, Below
  <2>3. /\ {i \in DOMAIN window[s]["day"] : window[s]["day"][i] \in {a}}
             = {i \in DOMAIN window[s]["day"] : window[s]["day"][i] = a}
        /\ {i \in DOMAIN served[s] : served[s][i] \in {a}} = {i \in DOMAIN served[s] : served[s][i] = a}
    OBVIOUS
  <2> QED BY <2>2, <2>3 DEF Num
<1> QED BY <1>1, RateInvariant, PTL
===============================================================================
