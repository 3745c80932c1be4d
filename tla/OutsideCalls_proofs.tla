--------------------------- MODULE OutsideCalls_proofs ---------------------------
(***************************************************************************)
(* Proofs about the calls that leave the process: the manager of MCP       *)
(* servers, for any calls and servers; the quota of the LLM proxy, for any *)
(* calls, sessions and quota; the stdio transport, for any calls: a        *)
(* request is given its own answer however many futures were dropped       *)
(* before it, and every error path puts the handles back; the tokens of a  *)
(* reply reach the stream's caller in the order of the reply.              *)
(***************************************************************************)
EXTENDS McpStdio, ServerManager, LlmProxy, Subsequences_proofs, SequenceTheorems, TLAPS

-------------------------------------------------------------------------------
(* ServerManager *)

\* Whatever is in the map when a call's own transport is being made was put
\* there since: the call found none.
MadeSince ==
  \A c \in MgrCalls :
    mgr[c].pc = "creating" =>
      /\ mgr[c].server \in ToolServers
      /\ instances[mgr[c].server] \in seen[c] \cup {NoTransport}

\* A call that goes on has a server, and none that begins has seen anything.
ServerGiven == \A c \in MgrCalls : mgr[c].pc # "idle" => mgr[c].server \in ToolServers

ManagerInv == ManagerTypeOK /\ ServerGiven /\ MadeSince

MgrStages == {"idle", "looking", "creating", "ready", "calling"} \cup MgrEnded
MgrRecord ==
  [pc : MgrStages, server : ToolServers \cup {NoTransport}, using : Transports \cup {NoTransport}]

LEMMA ManagerStarts == ManagerInit => ManagerInv
<1> SUFFICES ASSUME ManagerInit
             PROVE  ManagerInv
  OBVIOUS
<1>1. instances \in [ToolServers -> Transports \cup {NoTransport}]
  BY DEF ManagerInit, Transports
<1>2. mgr \in [MgrCalls -> MgrRecord] /\ seen \in [MgrCalls -> SUBSET MgrCalls]
  BY DEF ManagerInit, MgrRecord, MgrStages
<1>3. \A c \in MgrCalls : mgr[c].pc = "idle"
  BY DEF ManagerInit
<1> QED
  BY <1>1, <1>2, <1>3
  DEF ManagerInv, ManagerTypeOK, ServerGiven, MadeSince, MgrRecord, MgrStages

\* A step that moves one call and leaves the map alone keeps the invariant, if
\* a call that is told to have a transport made has found none.
LEMMA LookPreserves ==
  ASSUME ManagerInv, NEW c \in MgrCalls, NEW new \in MgrRecord,
         mgr' = [mgr EXCEPT ![c] = new], UNCHANGED <<instances, seen>>,
         new.pc # "idle" => new.server \in ToolServers,
         new.pc = "creating" => instances[new.server] = NoTransport
  PROVE  ManagerInv'
<1>1. mgr \in [MgrCalls -> MgrRecord]
  BY DEF ManagerInv, ManagerTypeOK, MgrRecord, MgrStages
<1>2. /\ mgr' \in [MgrCalls -> MgrRecord] /\ mgr'[c] = new
      /\ \A d \in MgrCalls \ {c} : mgr'[d] = mgr[d]
  BY <1>1
<1>3. ManagerTypeOK'
  BY <1>2 DEF ManagerInv, ManagerTypeOK, MgrRecord, MgrStages
<1>4. ServerGiven' /\ MadeSince'
  BY <1>2 DEF ManagerInv, ServerGiven, MadeSince
<1> QED
  BY <1>3, <1>4 DEF ManagerInv

LEMMA InsertPreserves ==
  ASSUME ManagerInv, NEW c \in MgrCalls, Insert(c)
  PROVE  ManagerInv'
<1> DEFINE s == mgr[c].server
<1>1. /\ s \in ToolServers /\ mgr[c].pc = "creating"
      /\ instances' = [instances EXCEPT ![s] = c]
  BY DEF ManagerInv, MadeSince, Insert
<1>2. mgr \in [MgrCalls -> MgrRecord] /\ instances \in [ToolServers -> Transports \cup {NoTransport}]
  BY DEF ManagerInv, ManagerTypeOK, MgrRecord, MgrStages
<1>3. mgr' = [mgr EXCEPT ![c].pc = "ready"]
  BY DEF Insert, Goes
<1>4. /\ mgr' \in [MgrCalls -> MgrRecord]
      /\ mgr'[c].pc = "ready" /\ mgr'[c].server = s
      /\ \A d \in MgrCalls \ {c} : mgr'[d] = mgr[d]
  BY <1>2, <1>3 DEF MgrRecord, MgrStages
<1>5. /\ instances' \in [ToolServers -> Transports \cup {NoTransport}]
      /\ instances'[s] = c /\ \A t \in ToolServers \ {s} : instances'[t] = instances[t]
  BY <1>1, <1>2 DEF Transports
<1>6. /\ seen' \in [MgrCalls -> SUBSET MgrCalls]
      /\ \A d \in MgrCalls :
           /\ seen[d] \subseteq seen'[d]
           /\ mgr[d].pc = "creating" /\ mgr[d].server = s => c \in seen'[d]
  BY DEF ManagerInv, ManagerTypeOK, Insert
<1>7. ManagerTypeOK'
  BY <1>4, <1>5, <1>6 DEF ManagerTypeOK, MgrRecord, MgrStages
<1>8. ServerGiven'
  BY <1>1, <1>4 DEF ManagerInv, ServerGiven
<1>9. MadeSince'
  <2> SUFFICES ASSUME NEW d \in MgrCalls, mgr'[d].pc = "creating"
               PROVE  /\ mgr'[d].server \in ToolServers
                      /\ instances'[mgr'[d].server] \in seen'[d] \cup {NoTransport}
    BY DEF MadeSince
  <2>1. d # c /\ mgr'[d] = mgr[d]
    BY <1>4
  <2>2. CASE mgr[d].server = s
    BY <2>1, <2>2, <1>1, <1>5, <1>6
  <2>3. CASE mgr[d].server # s
    BY <2>1, <2>3, <1>5, <1>6 DEF ManagerInv, MadeSince
  <2> QED
    BY <2>2, <2>3
<1> QED
  BY <1>7, <1>8, <1>9 DEF ManagerInv

LEMMA ManagerSteps == ManagerInv /\ [ManagerNext]_mgrVars => ManagerInv'
<1> SUFFICES ASSUME ManagerInv, [ManagerNext]_mgrVars
             PROVE  ManagerInv'
  OBVIOUS
<1>1. mgr \in [MgrCalls -> MgrRecord] /\ instances \in [ToolServers -> Transports \cup {NoTransport}]
  BY DEF ManagerInv, ManagerTypeOK, MgrRecord, MgrStages
<1>2. ASSUME NEW c \in MgrCalls, NEW s \in ToolServers, NEW stage \in {"looking", "invalid"},
             mgr' = [mgr EXCEPT ![c].pc = stage, ![c].server = s], UNCHANGED <<instances, seen>>
      PROVE  ManagerInv'
  <2> DEFINE new == [mgr[c] EXCEPT !.pc = stage, !.server = s]
  <2>1. /\ new \in MgrRecord /\ new.pc = stage /\ new.server = s
        /\ mgr' = [mgr EXCEPT ![c] = new]
    BY <1>1, <1>2 DEF MgrRecord, MgrStages, MgrEnded
  <2> HIDE DEF new
  <2> QED
    BY <1>2, <2>1, LookPreserves
<1>3. ASSUME NEW c \in MgrCalls, NEW stage \in MgrStages, mgr[c].pc # "idle", stage # "idle",
             Goes(c, stage), UNCHANGED <<instances, seen>>,
             stage = "creating" => instances[mgr[c].server] = NoTransport
      PROVE  ManagerInv'
  <2> DEFINE new == [mgr[c] EXCEPT !.pc = stage]
  <2>1. /\ new \in MgrRecord /\ new.pc = stage /\ new.server = mgr[c].server
        /\ mgr' = [mgr EXCEPT ![c] = new]
    BY <1>1, <1>3 DEF MgrRecord, Goes
  <2>2. mgr[c].server \in ToolServers
    BY <1>3 DEF ManagerInv, ServerGiven
  <2> HIDE DEF new
  <2> QED
    BY <1>3, <2>1, <2>2, LookPreserves
<1>4. ASSUME NEW c \in MgrCalls, NEW s \in ToolServers,
             AskServer(c, s) \/ \E valid \in BOOLEAN : InvokeTool(c, s, valid)
      PROVE  ManagerInv'
  BY <1>2, <1>4 DEF AskServer, InvokeTool
<1>5. ASSUME NEW c \in MgrCalls, EnsureInstance(c)
      PROVE  ManagerInv'
  BY <1>3, <1>5 DEF EnsureInstance, MgrStages, MgrEnded
<1>6. ASSUME NEW c \in MgrCalls, CreateFails(c) \/ CallEnds(c)
      PROVE  ManagerInv'
  BY <1>3, <1>6 DEF CreateFails, CallEnds, MgrStages, MgrEnded
<1>7. ASSUME NEW c \in MgrCalls, GetInstance(c)
      PROVE  ManagerInv'
  <2> DEFINE new == [mgr[c] EXCEPT !.pc = "calling", !.using = instances[mgr[c].server]]
  <2>1. mgr[c].server \in ToolServers
    BY <1>7 DEF GetInstance, ManagerInv, ServerGiven
  <2>2. /\ new \in MgrRecord /\ new.pc = "calling" /\ new.server = mgr[c].server
        /\ mgr' = [mgr EXCEPT ![c] = new]
    BY <1>1, <1>7, <2>1 DEF GetInstance, MgrRecord, MgrStages
  <2> HIDE DEF new
  <2> QED
    BY <1>7, <2>1, <2>2, LookPreserves DEF GetInstance
<1>8. CASE UNCHANGED mgrVars
  BY <1>8 DEF mgrVars, ManagerInv, ManagerTypeOK, ServerGiven, MadeSince
<1> QED
  BY <1>4, <1>5, <1>6, <1>7, <1>8, InsertPreserves DEF ManagerNext

LEMMA ManagerAlways == ManagerSpec => []ManagerInv
<1> QED
  BY ManagerStarts, ManagerSteps, PTL DEF ManagerSpec

(* The map, the calls and what they saw keep their types. *)
THEOREM ManagerTyped == ManagerSpec => []ManagerTypeOK
<1>1. ManagerInv => ManagerTypeOK
  BY DEF ManagerInv
<1> QED
  BY <1>1, ManagerAlways, PTL

(* Only calls that raced for the first use of a server replace a transport *)
(* of another, whatever calls there are (manager.rs:113-137).              *)
THEOREM OnlyRivalsReplace == ManagerSpec => ReplacedByRivalsOnly
<1> DEFINE A == \A s \in ToolServers :
       instances[s] # NoTransport /\ instances'[s] # instances[s] =>
         \E c \in MgrCalls : instances'[s] = c /\ instances[s] \in seen[c]
<1>1. ManagerInv /\ [ManagerNext]_mgrVars => [A]_mgrVars
  <2> SUFFICES ASSUME ManagerInv, ManagerNext
               PROVE  A
    OBVIOUS
  <2>1. CASE UNCHANGED instances
    BY <2>1
  <2>2. ASSUME NEW c \in MgrCalls, Insert(c)
        PROVE  A
    <3>1. /\ mgr[c].server \in ToolServers
          /\ instances[mgr[c].server] \in seen[c] \cup {NoTransport}
          /\ instances' = [instances EXCEPT ![mgr[c].server] = c]
      BY <2>2 DEF Insert, ManagerInv, MadeSince
    <3> QED
      BY <3>1 DEF ManagerInv, ManagerTypeOK
  <2> QED
    BY <2>1, <2>2 DEF ManagerNext, AskServer, InvokeTool, EnsureInstance, CreateFails,
      GetInstance, CallEnds
<1> QED
  BY <1>1, ManagerAlways, PTL DEF ManagerSpec, ReplacedByRivalsOnly

-------------------------------------------------------------------------------
(* LlmProxy *)

Counted(k) == IF llm_calls[k] = Absent THEN 0 ELSE llm_calls[k]

\* What was granted before the counters were last cleared is at most a quota
\* for each time they were.
Accounted ==
  /\ llm_calls \in [Keys -> {Absent} \cup 0..Quota]
  /\ granted \in [Keys -> Nat] /\ resets \in Nat
  /\ \A k \in Keys : granted[k] <= Quota * resets + Counted(k)

LEMMA ProductStep ==
  ASSUME NEW q \in Nat, NEW n \in Nat
  PROVE  q * n \in Nat /\ q * (n + 1) = q * n + q /\ q * (1 + n) = q * n + q
OBVIOUS

LEMMA GateAccounts ==
  ASSUME Accounted, NEW k \in Keys, CheckLlmGate(k)
  PROVE  Accounted'
<1> DEFINE grant == IF CheckLlm(UsedBy(k)) THEN 1 ELSE 0
           clear == IF Cardinality(Entries) > KeyLimit THEN 1 ELSE 0
<1>1. Quota \in Nat /\ grant \in {0, 1} /\ clear \in {0, 1}
  BY LlmAssumption
<1>2. Remembered \in [Keys -> {Absent} \cup 0..Quota]
  BY <1>1 DEF Remembered, Accounted
<1>3. UsedBy(k) \in 0..Quota /\ UsedBy(k) + grant \in 0..Quota
  <2>1. UsedBy(k) \in 0..Quota
    BY <1>1, <1>2 DEF UsedBy, Absent
  <2> QED
    BY <1>1, <2>1 DEF CheckLlm
<1> DEFINE used == UsedBy(k) + grant
<1>4. /\ llm_calls' = [Remembered EXCEPT ![k] = used]
      /\ granted' = [granted EXCEPT ![k] = @ + grant]
      /\ resets' = resets + clear
  BY DEF CheckLlmGate
<1>5. clear = 1 => \A j \in Keys : Remembered[j] = Absent
  BY DEF Remembered
<1>6. clear = 0 => Remembered = llm_calls
  BY DEF Remembered
<1>7. UsedBy(k) = IF Remembered[k] = Absent THEN 0 ELSE Remembered[k]
  BY DEF UsedBy
<1> HIDE DEF clear
<1>8. /\ used \in 0..Quota /\ used = UsedBy(k) + grant
      /\ llm_calls'[k] = used /\ Counted(k)' = used
      /\ \A j \in Keys \ {k} : llm_calls'[j] = Remembered[j]
  BY <1>2, <1>3, <1>4 DEF Counted, Absent
<1> HIDE DEF grant, used
<1>9. /\ llm_calls' \in [Keys -> {Absent} \cup 0..Quota]
      /\ granted' \in [Keys -> Nat] /\ resets' \in Nat
      /\ granted'[k] = granted[k] + grant
      /\ \A j \in Keys \ {k} : granted'[j] = granted[j]
  BY <1>1, <1>2, <1>4, <1>8 DEF Accounted
<1>10. /\ Quota * resets \in Nat /\ resets \in Nat
       /\ Quota * (resets + 1) = Quota * resets + Quota
  BY <1>1, ProductStep DEF Accounted
<1> DEFINE before == Quota * resets
           after == Quota * resets'
<1>11. \A j \in Keys : granted'[j] <= after + Counted(j)'
  <2> SUFFICES ASSUME NEW j \in Keys
               PROVE  granted'[j] <= after + Counted(j)'
    OBVIOUS
  <2>1. /\ before \in Nat /\ granted[j] \in Nat /\ Counted(j) \in 0..Quota
        /\ granted[j] <= before + Counted(j)
    BY <1>1, <1>10 DEF Accounted, Counted, Absent
  <2>2. CASE clear = 1
    <3>1. after = before + Quota
      BY <1>4, <1>10, <2>2
    <3> HIDE DEF before, after
    <3>2. CASE j = k
      <4>1. UsedBy(k) = 0 /\ Counted(j)' = grant
        BY <1>1, <1>5, <1>7, <1>8, <2>2, <3>2
      <4> QED
        BY <1>1, <1>9, <2>1, <3>1, <3>2, <4>1
    <3>3. CASE j # k
      <4>1. Counted(j)' = 0
        BY <1>5, <1>8, <2>2, <3>3 DEF Counted
      <4> QED
        BY <1>1, <1>9, <2>1, <3>1, <3>3, <4>1
    <3> QED
      BY <3>2, <3>3
  <2>3. CASE clear = 0
    <3>1. after = before
      BY <1>4, <1>10, <2>3
    <3> HIDE DEF before, after
    <3>2. CASE j = k
      <4>1. Counted(j)' = Counted(j) + grant
        BY <1>6, <1>7, <1>8, <2>3, <3>2 DEF Counted
      <4> QED
        BY <1>1, <1>9, <2>1, <3>1, <3>2, <4>1
    <3>3. CASE j # k
      <4>1. Counted(j)' = Counted(j)
        BY <1>6, <1>8, <2>3, <3>3 DEF Counted
      <4> QED
        BY <1>9, <2>1, <3>1, <3>3, <4>1
    <3> QED
      BY <3>2, <3>3
  <2> QED
    BY <1>1, <2>2, <2>3
<1> QED
  BY <1>9, <1>11 DEF Accounted

LEMMA AccountedAlways == LlmSpec => []Accounted
<1>1. LlmInit => Accounted
  <2> SUFFICES ASSUME LlmInit
               PROVE  Accounted
    OBVIOUS
  <2>1. /\ llm_calls \in [Keys -> {Absent} \cup 0..Quota]
        /\ granted \in [Keys -> Nat] /\ resets = 0
        /\ \A k \in Keys : granted[k] = 0 /\ llm_calls[k] = Absent
    BY DEF LlmInit
  <2>2. Quota * 0 = 0
    BY LlmAssumption
  <2> QED
    BY <2>1, <2>2 DEF Accounted, Counted
<1>2. Accounted /\ [LlmNext]_llmVars => Accounted'
  <2> SUFFICES ASSUME Accounted, [LlmNext]_llmVars
               PROVE  Accounted'
    OBVIOUS
  <2>1. CASE UNCHANGED <<llm_calls, granted, resets>>
    BY <2>1 DEF Accounted, Counted
  <2>2. ASSUME NEW c \in LlmCalls, NEW session \in LlmSessions \cup {Anonymous},
               NEW name \in Asked, NEW how \in Ways[c], NEW stream \in Streams,
               Request(c, session, name, how, stream)
        PROVE  Accounted'
    <3>1. (IF session = Anonymous THEN DefaultKey ELSE session) \in Keys
      BY DEF Keys
    <3> QED
      BY <2>2, <3>1, GateAccounts DEF Request
  <2>3. ASSUME NEW c \in LlmCalls,
               \/ Answer(c) \/ AnswerStub(c) \/ StreamEnds(c) \/ LlmFails(c)
               \/ HandlerDropped(c) \/ Pump(c)
        PROVE  UNCHANGED <<llm_calls, granted, resets>>
    BY <2>3 DEF Answer, AnswerStub, StreamEnds, LlmFails, HandlerDropped, Pump
  <2>4. ASSUME NEW c \in LlmCalls, NEW last, NEW torn, Chunk(c, last, torn)
        PROVE  UNCHANGED <<llm_calls, granted, resets>>
    BY <2>4 DEF Chunk
  <2> QED
    BY <2>1, <2>2, <2>3, <2>4 DEF LlmNext, llmVars
<1> QED
  BY <1>1, <1>2, PTL DEF LlmSpec

(* A session gets its quota, and once more for each time all counters were *)
(* cleared, for any number of sessions and any quota (wit.rs:67-88).       *)
THEOREM QuotaIsKept == LlmSpec => []QuotaHolds
<1>1. Accounted => QuotaHolds
  <2> SUFFICES ASSUME Accounted, NEW k \in Keys
               PROVE  granted[k] <= Quota * (1 + resets)
    BY DEF QuotaHolds
  <2>1. Quota \in Nat /\ resets \in Nat /\ granted[k] \in Nat
    BY LlmAssumption DEF Accounted
  <2>2. Counted(k) \in 0..Quota /\ granted[k] <= Quota * resets + Counted(k)
    BY <2>1 DEF Accounted, Counted, Absent
  <2>3. Quota * resets \in Nat /\ Quota * (1 + resets) = Quota * resets + Quota
    BY <2>1, ProductStep
  <2> QED
    BY <2>1, <2>2, <2>3
<1> QED
  BY <1>1, AccountedAlways, PTL

\* A call as the type invariant of the proxy has it, as a record.
CallRecord ==
  [pc : {"idle", "calling"} \cup LlmEnded, how : HowMade, stream : Seq(LineKinds),
   read : Nat, torn : BOOLEAN, content : Seq(Nat)]

CallTyped ==
  /\ llm \in [LlmCalls -> CallRecord]
  /\ tokens \in [LlmCalls -> Seq(Nat)] /\ pushed \in [LlmCalls -> Seq(Nat)]
  /\ \A c \in LlmCalls :
       llm[c].stream \in Streams \cup {<<>>} /\ llm[c].read \in 0..Len(llm[c].stream)

\* The tokens are those of lines that were read, once each and in their order.
ReadInOrder(call) ==
  /\ \A m, n \in 1..Len(call.content) : m < n => call.content[m] < call.content[n]
  /\ \A m \in 1..Len(call.content) :
       /\ call.content[m] \in 1..call.read
       /\ call.stream[call.content[m]] = "delta"

\* Whoever is asked for tokens has them all on their way or out, in the order
\* of the reply; a stream gives them in the order of its lines, none twice.
TokensFollowReply ==
  \A c \in LlmCalls :
    /\ llm[c].how # "call" => pushed[c] \o tokens[c] = llm[c].content
    /\ llm[c].how = "stream" => ReadInOrder(llm[c])

\* A call that is not made yet, or in one piece, has no tokens, nor has one of
\* the stub before its answer.
NoTokensYet ==
  \A c \in LlmCalls :
    /\ llm[c].pc = "idle" => llm[c] = NoCall
    /\ llm[c].how = "call" => tokens[c] = <<>> /\ pushed[c] = <<>>
    /\ llm[c].pc = "calling" /\ llm[c].how = "stub" => llm[c].content = <<>>

TokenInv == CallTyped /\ TokensFollowReply /\ NoTokensYet

LEMMA Regrouped ==
  ASSUME NEW s \in Seq(Nat), NEW t \in Seq(Nat), NEW u \in Seq(Nat)
  PROVE  (s \o t) \o u = s \o (t \o u)
BY ConcatAssociative

LEMMA HeadFirst ==
  ASSUME NEW s \in Seq(Nat), s # <<>>
  PROVE  <<Head(s)>> \o Tail(s) = s
OBVIOUS

LEMMA AppendedLast ==
  ASSUME NEW s \in Seq(Nat), NEW e \in Nat
  PROVE  Append(s, e) = s \o <<e>>
BY AppendIsConcat

LEMMA ParsedInOrder ==
  ASSUME NEW call \in CallRecord, NEW last \in call.read..Len(call.stream)
  PROVE  /\ Parsed(call, last) \in Seq(Nat)
         /\ \A m, n \in 1..Len(Parsed(call, last)) :
              m < n => Parsed(call, last)[m] < Parsed(call, last)[n]
         /\ \A m \in 1..Len(Parsed(call, last)) :
              /\ Parsed(call, last)[m] \in (call.read + 1)..last
              /\ call.stream[Parsed(call, last)[m]] = "delta"
<1> DEFINE q == [i \in 1..last |-> i]
           I == {i \in Whole(call, last) : i < Stop(call, last) /\ call.stream[i] = "delta"}
<1>1. call.read \in Nat /\ call.stream \in Seq(LineKinds)
  BY DEF CallRecord
<1>2. last \in Nat
  BY <1>1, LenProperties
<1>3. q \in Seq(Nat) /\ DOMAIN q = 1..last
  BY <1>2
<1>4. \A i \in I : i \in (call.read + 1)..last /\ call.stream[i] = "delta"
  BY DEF Whole
<1>5. I \in SUBSET (DOMAIN q)
  BY <1>1, <1>2, <1>3, <1>4
<1>6. Parsed(call, last) = Subsequence(q, I)
  BY DEF Parsed
<1>7. \A i \in 1..last : q[i] = i
  OBVIOUS
<1> HIDE DEF q, I
<1>8. /\ Subsequence(q, I) \in Seq(Nat) /\ Len(Subsequence(q, I)) = Cardinality(I)
      /\ \E f : Lists(f, I) /\ Subsequence(q, I) = [n \in 1..Cardinality(I) |-> q[f[n]]]
  BY <1>3, <1>5, SubsequenceReads
<1>9. PICK f : Lists(f, I) /\ Subsequence(q, I) = [n \in 1..Cardinality(I) |-> q[f[n]]]
  BY <1>8
<1>10. \A n \in 1..Cardinality(I) : f[n] \in I /\ Subsequence(q, I)[n] = f[n]
  BY <1>3, <1>5, <1>7, <1>9 DEF Lists
<1> QED
  BY <1>4, <1>6, <1>8, <1>9, <1>10 DEF Lists

LEMMA MoreInOrder ==
  ASSUME NEW call \in CallRecord, call.read \in 0..Len(call.stream), ReadInOrder(call),
         NEW last \in call.read..Len(call.stream), NEW next \in CallRecord,
         next.content = call.content \o Parsed(call, last),
         next.read = last, next.stream = call.stream
  PROVE  ReadInOrder(next)
<1> DEFINE s == call.content
           t == Parsed(call, last)
           k == Len(s)
<1>1. /\ t \in Seq(Nat)
      /\ \A m, n \in 1..Len(t) : m < n => t[m] < t[n]
      /\ \A m \in 1..Len(t) : t[m] \in (call.read + 1)..last /\ call.stream[t[m]] = "delta"
  BY ParsedInOrder
<1>2. /\ s \in Seq(Nat) /\ call.read \in Nat /\ call.stream \in Seq(LineKinds)
      /\ last \in Nat /\ call.read <= last
  <2>1. s \in Seq(Nat) /\ call.read \in Nat /\ call.stream \in Seq(LineKinds)
    BY DEF CallRecord
  <2> QED
    BY <2>1, LenProperties
<1>3. /\ \A m, n \in 1..Len(s) : m < n => s[m] < s[n]
      /\ \A m \in 1..Len(s) : s[m] \in 1..call.read /\ call.stream[s[m]] = "delta"
  BY DEF ReadInOrder
<1> HIDE DEF s, t
<1>4. k \in Nat /\ Len(t) \in Nat
  BY <1>1, <1>2, LenProperties
<1>5. /\ Len(s \o t) = k + Len(t)
      /\ \A i \in 1..(k + Len(t)) : (s \o t)[i] = IF i <= k THEN s[i] ELSE t[i - k]
  BY <1>1, <1>2, ConcatProperties
<1>6. \A i \in 1..(k + Len(t)) : i <= k \/ i - k \in 1..Len(t)
  BY <1>4
<1>7. \A i \in 1..(k + Len(t)) :
        /\ (s \o t)[i] \in 1..last /\ call.stream[(s \o t)[i]] = "delta"
        /\ i > k => (s \o t)[i] > call.read
        /\ i <= k => (s \o t)[i] <= call.read
  <2> SUFFICES ASSUME NEW i \in 1..(k + Len(t))
               PROVE  /\ (s \o t)[i] \in 1..last /\ call.stream[(s \o t)[i]] = "delta"
                      /\ i > k => (s \o t)[i] > call.read
                      /\ i <= k => (s \o t)[i] <= call.read
    OBVIOUS
  <2>1. CASE i <= k
    <3>1. (s \o t)[i] = s[i] /\ i \in 1..Len(s)
      BY <1>4, <1>5, <2>1
    <3> QED
      BY <1>2, <1>3, <1>4, <2>1, <3>1
  <2>2. CASE i > k
    <3>1. (s \o t)[i] = t[i - k] /\ i - k \in 1..Len(t)
      BY <1>4, <1>5, <1>6, <2>2
    <3> QED
      BY <1>1, <1>2, <1>4, <2>2, <3>1
  <2> QED
    BY <1>4, <2>1, <2>2
<1>8. \A m, n \in 1..(k + Len(t)) : m < n => (s \o t)[m] < (s \o t)[n]
  <2> SUFFICES ASSUME NEW m \in 1..(k + Len(t)), NEW n \in 1..(k + Len(t)), m < n
               PROVE  (s \o t)[m] < (s \o t)[n]
    OBVIOUS
  <2>1. CASE n <= k
    BY <1>3, <1>4, <1>5, <2>1
  <2>2. CASE m > k
    <3>1. m - k \in 1..Len(t) /\ n - k \in 1..Len(t) /\ m - k < n - k
      BY <1>4, <2>2
    <3>2. (s \o t)[m] = t[m - k] /\ (s \o t)[n] = t[n - k]
      BY <1>4, <1>5, <2>2
    <3> QED
      BY <1>1, <3>1, <3>2
  <2>3. CASE m <= k /\ n > k
    <3>1. (s \o t)[m] <= call.read /\ (s \o t)[n] > call.read
      BY <1>7, <2>3
    <3>2. (s \o t)[m] \in Nat /\ (s \o t)[n] \in Nat
      BY <1>7
    <3> QED
      BY <1>2, <3>1, <3>2
  <2> QED
    BY <1>4, <2>1, <2>2, <2>3
<1>9. next.content = s \o t
  BY DEF s, t
<1> QED
  BY <1>5, <1>7, <1>8, <1>9 DEF ReadInOrder

\* What a step does to one call is all that matters of it.
LEMMA CallChanges ==
  ASSUME TokenInv, NEW c \in LlmCalls,
         NEW call \in CallRecord, NEW ts \in Seq(Nat), NEW ps \in Seq(Nat),
         llm' = [llm EXCEPT ![c] = call],
         tokens' = [tokens EXCEPT ![c] = ts], pushed' = [pushed EXCEPT ![c] = ps],
         call.stream \in Streams \cup {<<>>}, call.read \in 0..Len(call.stream),
         call.how # "call" => ps \o ts = call.content,
         call.how = "stream" => ReadInOrder(call),
         call.pc # "idle",
         call.how = "call" => ts = <<>> /\ ps = <<>>,
         call.pc = "calling" /\ call.how = "stub" => call.content = <<>>
  PROVE  TokenInv'
<1>1. /\ llm' \in [LlmCalls -> CallRecord] /\ llm'[c] = call
      /\ tokens' \in [LlmCalls -> Seq(Nat)] /\ tokens'[c] = ts
      /\ pushed' \in [LlmCalls -> Seq(Nat)] /\ pushed'[c] = ps
  BY DEF TokenInv, CallTyped
<1>2. \A d \in LlmCalls \ {c} :
        llm'[d] = llm[d] /\ tokens'[d] = tokens[d] /\ pushed'[d] = pushed[d]
  BY DEF TokenInv, CallTyped
<1>3. CallTyped'
  BY <1>1, <1>2 DEF TokenInv, CallTyped
<1>4. TokensFollowReply'
  <2> SUFFICES ASSUME NEW d \in LlmCalls
               PROVE  /\ llm'[d].how # "call" => pushed'[d] \o tokens'[d] = llm'[d].content
                      /\ llm'[d].how = "stream" => ReadInOrder(llm'[d])
    BY DEF TokensFollowReply, ReadInOrder
  <2>1. CASE d = c
    BY <1>1, <2>1
  <2>2. CASE d # c
    BY <1>2, <2>2 DEF TokenInv, TokensFollowReply
  <2> QED
    BY <2>1, <2>2
<1>5. NoTokensYet'
  BY <1>1, <1>2 DEF TokenInv, NoTokensYet, NoCall
<1> QED
  BY <1>3, <1>4, <1>5 DEF TokenInv

LEMMA TokensStart == LlmInit => TokenInv
<1> SUFFICES ASSUME LlmInit
             PROVE  TokenInv
  OBVIOUS
<1>1. \A c \in LlmCalls : llm[c] = NoCall /\ tokens[c] = <<>> /\ pushed[c] = <<>>
  BY DEF LlmInit
<1>2. NoCall \in CallRecord /\ <<>> \in Seq(Nat)
  BY DEF NoCall, CallRecord, HowMade
<1>3. CallTyped
  <2>1. /\ llm \in [LlmCalls -> CallRecord]
        /\ tokens \in [LlmCalls -> Seq(Nat)] /\ pushed \in [LlmCalls -> Seq(Nat)]
    BY <1>2 DEF LlmInit
  <2> QED
    BY <1>1, <2>1 DEF CallTyped, NoCall
<1>4. \A c \in LlmCalls : llm[c].how = "call" /\ llm[c].pc = "idle"
  BY <1>1 DEF NoCall
<1> QED
  BY <1>1, <1>3, <1>4 DEF TokenInv, TokensFollowReply, NoTokensYet

LEMMA RequestKeepsTokens ==
  ASSUME TokenInv, NEW c \in LlmCalls, NEW session, NEW name, NEW how \in Ways[c],
         NEW stream \in Streams, Request(c, session, name, how, stream)
  PROVE  TokenInv'
<1>1. llm[c] = NoCall /\ tokens[c] = <<>> /\ pushed[c] = <<>>
  BY DEF Request, TokenInv, NoTokensYet, NoCall
<1>2. how \in HowMade /\ stream \in Seq(LineKinds)
  BY LlmAssumption
<1>3. PICK call :
        /\ call \in {[NoCall EXCEPT !.pc = "refused"], [NoCall EXCEPT !.pc = "unknown"],
                     [NoCall EXCEPT !.pc = "calling", !.how = how, !.stream = stream]}
        /\ llm' = [llm EXCEPT ![c] = call]
  BY DEF Request
<1>4. /\ call \in CallRecord /\ call.pc # "idle" /\ call.content = <<>> /\ call.read = 0
      /\ call.stream \in {<<>>, stream}
  <2>1. <<>> \in Seq(Nat) /\ <<>> \in Seq(LineKinds)
    OBVIOUS
  <2>2. CASE call = [NoCall EXCEPT !.pc = "refused"] \/ call = [NoCall EXCEPT !.pc = "unknown"]
    <3> DEFINE ending == call.pc
    <3>1. /\ call = [pc |-> ending, how |-> "call", stream |-> <<>>, read |-> 0,
                     torn |-> FALSE, content |-> <<>>]
          /\ ending \in {"refused", "unknown"}
      BY <2>2 DEF NoCall
    <3> HIDE DEF ending
    <3> QED
      BY <2>1, <3>1 DEF CallRecord, LlmEnded, HowMade
  <2>3. CASE call = [NoCall EXCEPT !.pc = "calling", !.how = how, !.stream = stream]
    BY <1>2, <2>1, <2>3 DEF NoCall, CallRecord
  <2> QED
    BY <1>3, <2>2, <2>3
<1>5. <<>> \in Seq(Nat) /\ <<>> \o <<>> = <<>>
  BY ConcatEmptySeq
<1>6. tokens' = [tokens EXCEPT ![c] = <<>>] /\ pushed' = [pushed EXCEPT ![c] = <<>>]
  BY <1>1 DEF Request, TokenInv, CallTyped
<1>7. ReadInOrder(call) /\ call.read \in 0..Len(call.stream)
  <2>1. Len(call.stream) \in Nat
    BY <1>2, <1>4, LenProperties
  <2> QED
    BY <1>4, <2>1 DEF ReadInOrder
<1> QED
  BY <1>3, <1>4, <1>5, <1>6, <1>7, CallChanges

\* Steps after which the handler has nothing more to read: only the stage of
\* the call changes.
LEMMA EndKeepsTokens ==
  ASSUME TokenInv, NEW c \in LlmCalls, StreamEnds(c) \/ LlmFails(c) \/ HandlerDropped(c)
  PROVE  TokenInv'
<1>1. PICK end \in LlmEnded : llm' = [llm EXCEPT ![c].pc = end]
  BY DEF StreamEnds, LlmFails, HandlerDropped, LlmEnded
<1>2. /\ llm[c] \in CallRecord /\ tokens[c] \in Seq(Nat) /\ pushed[c] \in Seq(Nat)
      /\ llm[c].stream \in Streams \cup {<<>>} /\ llm[c].read \in 0..Len(llm[c].stream)
  BY DEF TokenInv, CallTyped
<1>3. PICK call : call = [llm[c] EXCEPT !.pc = end]
  OBVIOUS
<1>4. /\ call \in CallRecord /\ call.pc = end /\ call.content = llm[c].content
      /\ call.read = llm[c].read /\ call.stream = llm[c].stream /\ call.how = llm[c].how
  BY <1>2, <1>3 DEF CallRecord
<1>5. call.how = "stream" => ReadInOrder(call)
  BY <1>4 DEF TokenInv, TokensFollowReply, ReadInOrder
<1>6. /\ llm' = [llm EXCEPT ![c] = call]
      /\ tokens' = [tokens EXCEPT ![c] = tokens[c]] /\ pushed' = [pushed EXCEPT ![c] = pushed[c]]
  BY <1>1, <1>3 DEF StreamEnds, LlmFails, HandlerDropped, TokenInv, CallTyped
<1>7. /\ call.how # "call" => pushed[c] \o tokens[c] = call.content
      /\ call.how = "call" => tokens[c] = <<>> /\ pushed[c] = <<>>
      /\ call.pc # "idle"
  BY <1>4 DEF TokenInv, TokensFollowReply, NoTokensYet, LlmEnded
<1>8. PICK ts \in Seq(Nat), ps \in Seq(Nat) : ts = tokens[c] /\ ps = pushed[c]
  BY <1>2
<1>9. /\ tokens' = [tokens EXCEPT ![c] = ts] /\ pushed' = [pushed EXCEPT ![c] = ps]
      /\ call.how # "call" => ps \o ts = call.content
      /\ call.how = "call" => ts = <<>> /\ ps = <<>>
      /\ call.pc # "calling"
  BY <1>4, <1>6, <1>7, <1>8 DEF LlmEnded
<1>10. /\ call \in CallRecord /\ llm' = [llm EXCEPT ![c] = call] /\ call.pc # "idle"
       /\ call.stream \in Streams \cup {<<>>} /\ call.read \in 0..Len(call.stream)
  BY <1>2, <1>4, <1>6, <1>7
<1> QED
  BY <1>5, <1>9, <1>10, CallChanges

LEMMA AnswerKeepsTokens ==
  ASSUME TokenInv, NEW c \in LlmCalls, Answer(c)
  PROVE  TokenInv'
<1> DEFINE s == llm[c].stream
<1>1. /\ llm[c] \in CallRecord /\ s \in Streams \cup {<<>>} /\ llm[c].read \in 0..Len(s)
      /\ llm[c].how = "call" /\ tokens[c] = <<>> /\ pushed[c] = <<>>
  BY DEF TokenInv, CallTyped, NoTokensYet, Answer
<1>2. Deltas(s) \in Seq(Nat)
  <2> DEFINE q == [i \in 1..Len(s) |-> i]
             I == {i \in 1..Len(s) : s[i] = "delta"}
  <2>1. Len(s) \in Nat
    BY <1>1, LenProperties DEF CallRecord
  <2>2. q \in Seq(Nat) /\ I \in SUBSET (DOMAIN q)
    BY <2>1
  <2> HIDE DEF q, I
  <2>3. Subsequence(q, I) \in Seq(Nat)
    BY <2>2, SubsequenceReads
  <2> QED
    BY <2>3 DEF Deltas, q, I
<1>3. PICK d \in Seq(Nat) : d = Deltas(s)
  BY <1>2
<1>4. PICK call : call = [llm[c] EXCEPT !.pc = "replied", !.content = d]
  OBVIOUS
<1>5. /\ call \in CallRecord /\ call.pc = "replied" /\ call.how = "call"
      /\ call.stream = s /\ call.read = llm[c].read
  BY <1>1, <1>4 DEF CallRecord, LlmEnded
<1>6. /\ llm' = [llm EXCEPT ![c] = call]
      /\ tokens' = [tokens EXCEPT ![c] = <<>>] /\ pushed' = [pushed EXCEPT ![c] = <<>>]
  BY <1>1, <1>3, <1>4 DEF Answer, TokenInv, CallTyped
<1>7. <<>> \in Seq(Nat)
  OBVIOUS
<1> HIDE DEF s
<1> QED
  BY <1>1, <1>5, <1>6, <1>7, CallChanges

LEMMA AnswerStubKeepsTokens ==
  ASSUME TokenInv, NEW c \in LlmCalls, AnswerStub(c)
  PROVE  TokenInv'
<1>1. /\ llm[c] \in CallRecord /\ tokens[c] \in Seq(Nat) /\ pushed[c] \in Seq(Nat)
      /\ llm[c].stream \in Streams \cup {<<>>} /\ llm[c].read \in 0..Len(llm[c].stream)
  BY DEF TokenInv, CallTyped
<1>2. llm[c].how = "stub" /\ pushed[c] \o tokens[c] = <<>>
  BY DEF AnswerStub, TokenInv, TokensFollowReply, NoTokensYet
<1>3. tokens[c] = <<>> /\ pushed[c] = <<>>
  BY <1>1, <1>2, ConcatEqualIffEmpty
<1>4. <<>> \in Seq(Nat) /\ <<0>> \in Seq(Nat) /\ Append(<<>>, 0) = <<0>> /\ <<>> \o <<0>> = <<0>>
  BY ConcatEmptySeq
<1>5. PICK zero \in Seq(Nat) : zero = <<0>>
  BY <1>4
<1>6. PICK call : call = [llm[c] EXCEPT !.pc = "replied", !.content = zero]
  OBVIOUS
<1>7. /\ call \in CallRecord /\ call.pc = "replied" /\ call.how = "stub" /\ call.content = zero
      /\ call.stream = llm[c].stream /\ call.read = llm[c].read
  BY <1>1, <1>2, <1>6 DEF CallRecord, LlmEnded
<1>8. /\ llm' = [llm EXCEPT ![c] = call]
      /\ tokens' = [tokens EXCEPT ![c] = zero] /\ pushed' = [pushed EXCEPT ![c] = <<>>]
  BY <1>3, <1>4, <1>5, <1>6 DEF AnswerStub, TokenInv, CallTyped
<1>9. <<>> \o zero = call.content
  BY <1>4, <1>5, <1>7
<1> QED
  BY <1>1, <1>4, <1>7, <1>8, <1>9, CallChanges

\* A chunk adds the same tokens to the reply and to the channel.
LEMMA ChunkKeepsTokens ==
  ASSUME TokenInv, NEW c \in LlmCalls, NEW last, NEW torn \in BOOLEAN, Chunk(c, last, torn)
  PROVE  TokenInv'
<1>1. PICK old \in CallRecord : old = llm[c]
  BY DEF TokenInv, CallTyped
<1>2. /\ last \in old.read..Len(old.stream) /\ old.how = "stream" /\ old.pc = "calling"
      /\ old.stream \in Streams \cup {<<>>} /\ old.read \in 0..Len(old.stream)
      /\ tokens[c] \in Seq(Nat) /\ pushed[c] \in Seq(Nat)
      /\ pushed[c] \o tokens[c] = old.content /\ ReadInOrder(old)
  BY <1>1 DEF Chunk, TokenInv, CallTyped, TokensFollowReply
<1>3. PICK new \in Seq(Nat) : new = Parsed(old, last)
  BY <1>2, ParsedInOrder
<1>4. PICK then \in {"calling", "replied"} :
        then = IF Stop(old, last) <= last THEN "replied" ELSE old.pc
  BY <1>2
<1>5. PICK content \in Seq(Nat) : content = old.content \o new
  BY ConcatProperties DEF CallRecord
<1>6. PICK ts \in Seq(Nat) : ts = tokens[c] \o new
  BY <1>2, ConcatProperties
<1>7. PICK call : call = [old EXCEPT !.read = last, !.torn = torn, !.content = content, !.pc = then]
  OBVIOUS
<1>8. last \in Nat /\ last \in 0..Len(old.stream)
  <2>1. old.read \in Nat /\ Len(old.stream) \in Nat
    BY LenProperties DEF CallRecord
  <2> QED
    BY <1>2, <2>1
<1>9. /\ call \in CallRecord /\ call.read = last /\ call.how = "stream" /\ call.pc # "idle"
      /\ call.stream = old.stream /\ call.content = content
  BY <1>2, <1>4, <1>7, <1>8 DEF CallRecord, LlmEnded
<1>10. ReadInOrder(call)
  BY <1>2, <1>3, <1>5, <1>9, MoreInOrder
<1>11. /\ llm' = [llm EXCEPT ![c] = call] /\ tokens' = [tokens EXCEPT ![c] = ts]
       /\ pushed' = [pushed EXCEPT ![c] = pushed[c]]
  <2>1. llm' = [llm EXCEPT ![c].read = last, ![c].torn = torn, ![c].content = @ \o new,
                           ![c].pc = IF Stop(old, last) <= last THEN "replied" ELSE @]
    BY <1>1, <1>3 DEF Chunk
  <2>2. llm' = [llm EXCEPT ![c] = call]
    BY <1>1, <1>4, <1>5, <1>7, <2>1 DEF TokenInv, CallTyped
  <2>3. tokens' = [tokens EXCEPT ![c] = ts]
    BY <1>1, <1>3, <1>6 DEF Chunk
  <2> QED
    BY <2>2, <2>3 DEF Chunk, TokenInv, CallTyped
<1>12. PICK ps \in Seq(Nat) : ps = pushed[c]
  BY <1>2
<1>13. ps \o ts = content
  <2>1. PICK before \in Seq(Nat) : before = tokens[c]
    BY <1>2
  <2>2. old.content = ps \o before /\ ts = before \o new
    BY <1>2, <1>6, <1>12, <2>1
  <2>3. (ps \o before) \o new = ps \o (before \o new)
    BY Regrouped
  <2> QED
    BY <1>5, <2>2, <2>3
<1>14. pushed' = [pushed EXCEPT ![c] = ps]
  BY <1>11, <1>12
<1> QED
  BY <1>2, <1>8, <1>9, <1>10, <1>11, <1>13, <1>14, CallChanges

\* The pump takes the first token of the channel: what is out and what is
\* still to go make up the same sequence.
LEMMA PumpKeepsTokens ==
  ASSUME TokenInv, NEW c \in LlmCalls, Pump(c)
  PROVE  TokenInv'
<1>1. /\ llm[c] \in CallRecord /\ tokens[c] \in Seq(Nat) /\ pushed[c] \in Seq(Nat)
      /\ tokens[c] # <<>> /\ llm[c].how # "call" /\ llm[c].pc # "idle"
      /\ llm[c].stream \in Streams \cup {<<>>} /\ llm[c].read \in 0..Len(llm[c].stream)
      /\ pushed[c] \o tokens[c] = llm[c].content
      /\ llm[c].how = "stream" => ReadInOrder(llm[c])
      /\ llm[c].pc = "calling" /\ llm[c].how = "stub" => llm[c].content = <<>>
  BY DEF Pump, TokenInv, CallTyped, TokensFollowReply, NoTokensYet, NoCall
<1>2. PICK call \in CallRecord : call = llm[c]
  BY <1>1
<1>3. PICK ts \in Seq(Nat), e \in Nat : ts = Tail(tokens[c]) /\ e = Head(tokens[c])
  BY <1>1, HeadTailProperties
<1>4. PICK ps \in Seq(Nat) : ps = Append(pushed[c], e)
  BY <1>1, AppendProperties
<1>5. /\ llm' = [llm EXCEPT ![c] = call]
      /\ tokens' = [tokens EXCEPT ![c] = ts] /\ pushed' = [pushed EXCEPT ![c] = ps]
  BY <1>2, <1>3, <1>4 DEF Pump, TokenInv, CallTyped
<1>6. ps \o ts = pushed[c] \o tokens[c]
  <2>1. PICK before \in Seq(Nat), out \in Seq(Nat) : before = tokens[c] /\ out = pushed[c]
    BY <1>1
  <2>2. before # <<>> /\ ts = Tail(before) /\ e = Head(before) /\ ps = Append(out, e)
    BY <1>1, <1>3, <1>4, <2>1
  <2>3. PICK first \in Seq(Nat) : first = <<e>>
    <3>1. <<e>> \in Seq(Nat)
      OBVIOUS
    <3> QED
      BY <3>1
  <2>4. ps = out \o first
    BY <2>2, <2>3, AppendedLast
  <2>5. first \o ts = before
    BY <2>2, <2>3, HeadFirst
  <2>6. (out \o first) \o ts = out \o (first \o ts)
    BY Regrouped
  <2> QED
    BY <2>1, <2>4, <2>5, <2>6
<1> QED
  BY <1>1, <1>2, <1>5, <1>6, CallChanges

LEMMA TokensAlways == LlmSpec => []TokenInv
<1>1. TokenInv /\ [LlmNext]_llmVars => TokenInv'
  <2> SUFFICES ASSUME TokenInv, [LlmNext]_llmVars
               PROVE  TokenInv'
    OBVIOUS
  <2>1. CASE UNCHANGED llmVars
    BY <2>1 DEF llmVars, TokenInv, CallTyped, TokensFollowReply, ReadInOrder, NoTokensYet
  <2>2. ASSUME NEW c \in LlmCalls, NEW session \in LlmSessions \cup {Anonymous},
               NEW name \in Asked, NEW how \in Ways[c], NEW stream \in Streams,
               Request(c, session, name, how, stream)
        PROVE  TokenInv'
    BY <2>2, RequestKeepsTokens
  <2>3. ASSUME NEW c \in LlmCalls, NEW last \in 0..Len(llm[c].stream), NEW torn \in BOOLEAN,
               Chunk(c, last, torn)
        PROVE  TokenInv'
    BY <2>3, ChunkKeepsTokens
  <2> QED
    BY <2>1, <2>2, <2>3, AnswerKeepsTokens, AnswerStubKeepsTokens, EndKeepsTokens,
       PumpKeepsTokens DEF LlmNext
<1> QED
  BY <1>1, TokensStart, PTL DEF LlmSpec

(* The proxy keeps its types: among them, that no more lines are read than *)
(* the stream has, and no counter exceeds the quota (llm.rs:211-251,       *)
(* wit.rs:71-85).                                                          *)
THEOREM ProxyTyped == LlmSpec => []LlmTypeOK
<1>1. TokenInv /\ Accounted => LlmTypeOK
  BY DEF TokenInv, CallTyped, CallRecord, Accounted, LlmTypeOK
<1> QED
  BY <1>1, TokensAlways, AccountedAlways, PTL

(* The tokens that are out, followed by those on their way, are the reply, *)
(* whatever chunks the network makes of the stream and however the call    *)
(* ends: none is lost between handler and pump, none goes out twice or out *)
(* of order (llm.rs:211-242, http.rs:81-94).                               *)
THEOREM TokensKeepOrder == LlmSpec => []TokensFollowReply
<1>1. TokenInv => TokensFollowReply
  BY DEF TokenInv
<1> QED
  BY <1>1, TokensAlways, PTL

-------------------------------------------------------------------------------
(* McpStdio *)

\* connect sends its two requests one after the other, and once.
ConnectOrder ==
  /\ connecting = "off" => pc[Initialize] = "idle"
  /\ connecting \in {"off", "initialize"} => pc[List] = "idle"

\* An id is given to one request, and for good.
IdsDistinct ==
  /\ next_id \in Nat \ {0}
  /\ \A r \in Requests :
       /\ id[r] < next_id
       /\ id[r] # 0 => pc[r] \notin {"idle", "waiting"}
       /\ pc[r] \in {"writing", "reading"} => id[r] # 0
  /\ \A r, q \in Requests : id[r] = id[q] /\ id[r] # 0 => r = q

\* What the child owes or has answered has an id, which the answer repeats.
LineOwned(line) ==
  line.kind \in {"result", "error"} =>
    line.of \in Requests /\ line.id = id[line.of] /\ line.id # 0

LinesOwned ==
  /\ \A r \in owed : id[r] # 0
  /\ \A i \in 1..Len(lines) : LineOwned(lines[i])

McpInv ==
  TypeOK /\ ConnectOrder /\ IdsDistinct /\ LinesOwned /\ OwnAnswer /\ HandlesReturn

Working(r) == pc[r] \in {"writing", "reading"}

-------------------------------------------------------------------------------
(* The queue of the lock. *)

LEMMA QueueTail ==
  ASSUME queue \in Seq(Requests), queue # <<>>
  PROVE  Tail(queue) \in Seq(Requests)
BY HeadTailProperties

LEMMA QueueAppend ==
  ASSUME queue \in Seq(Requests), NEW r \in Requests
  PROVE  /\ Append(queue, r) \in Seq(Requests) /\ Append(queue, r) # <<>>
         /\ queue # <<>> => Head(Append(queue, r)) = Head(queue)
<1>1. /\ Append(queue, r) \in Seq(Requests) /\ Append(queue, r) # <<>>
      /\ \A i \in 1..Len(queue) : Append(queue, r)[i] = queue[i]
  BY AppendProperties
<1>2. ASSUME queue # <<>>
      PROVE  Head(Append(queue, r)) = Head(queue)
  <2>1. 1 \in 1..Len(queue)
    BY <1>2, LenProperties, EmptySeq
  <2> QED
    BY <1>1, <2>1
<1> QED
  BY <1>1, <1>2

\* Whoever leaves the queue, the holder of the lock stays at its head.
LEMMA QueueWithout ==
  ASSUME queue \in Seq(Requests), NEW i \in 1..Len(queue)
  PROVE  /\ Without(i) \in Seq(Requests)
         /\ queue[i] # Head(queue) => Without(i) # <<>> /\ Head(Without(i)) = Head(queue)
<1>1. Len(queue) \in Nat /\ \A j \in 1..Len(queue) : queue[j] \in Requests
  BY LenProperties
<1>2. Len(queue) - 1 \in Nat
  BY <1>1
<1>3. \A j \in 1..(Len(queue) - 1) : queue[IF j < i THEN j ELSE j + 1] \in Requests
  BY <1>1
<1>4. Without(i) \in Seq(Requests) /\ Len(Without(i)) = Len(queue) - 1
  BY <1>2, <1>3 DEF Without
<1>5. ASSUME queue[i] # Head(queue)
      PROVE  Without(i) # <<>> /\ Head(Without(i)) = Head(queue)
  <2>1. 1 < i /\ 1 \in 1..(Len(queue) - 1)
    BY <1>1, <1>5
  <2>2. Without(i)[1] = queue[1]
    BY <2>1 DEF Without
  <2>3. Without(i) # <<>>
    BY <1>4, <2>1
  <2> QED
    BY <2>2, <2>3
<1> QED
  BY <1>4, <1>5

-------------------------------------------------------------------------------
(* Steps of a request. *)

\* A request joins the queue.
LEMMA WaitingInv ==
  ASSUME McpInv, NEW r \in Requests, pc[r] = "idle", Waiting(r), UNCHANGED <<owed, lines>>
  PROVE  /\ pc' \in [Requests -> {"idle", "waiting", "writing", "reading"} \cup Ended]
         /\ queue' \in Seq(Requests)
         /\ \A q \in Requests : Working(q)' => queue' # <<>> /\ q = Head(queue')
         /\ IdsDistinct' /\ LinesOwned' /\ OwnAnswer'
<1>1. \A q \in Requests : pc'[q] = IF q = r THEN "waiting" ELSE pc[q]
  BY DEF Waiting, McpInv, TypeOK
<1>2. pc' \in [Requests -> {"idle", "waiting", "writing", "reading"} \cup Ended]
  BY DEF Waiting, McpInv, TypeOK
<1>3. queue' \in Seq(Requests)
  BY QueueAppend DEF Waiting, McpInv, TypeOK
<1>4. \A q \in Requests : Working(q)' => queue' # <<>> /\ q = Head(queue')
  BY <1>1, QueueAppend DEF Waiting, Working, McpInv, TypeOK
<1>5. IdsDistinct'
  BY <1>1 DEF Waiting, McpInv, IdsDistinct
<1>6. LinesOwned'
  BY DEF Waiting, McpInv, LinesOwned, LineOwned
<1>7. OwnAnswer'
  BY <1>1 DEF Waiting, McpInv, OwnAnswer
<1> QED
  BY <1>2, <1>3, <1>4, <1>5, <1>6, <1>7

LEMMA CallInv ==
  ASSUME McpInv, NEW r \in Requests, Call(r)
  PROVE  McpInv'
<1>0. /\ pc[r] = "idle" /\ Waiting(r) /\ UNCHANGED process /\ UNCHANGED <<owed, lines>>
      /\ r \in Calls /\ UNCHANGED <<handles, link>>
  BY DEF Call, process
<1>1. /\ pc' \in [Requests -> {"idle", "waiting", "writing", "reading"} \cup Ended]
      /\ queue' \in Seq(Requests)
      /\ \A q \in Requests : Working(q)' => queue' # <<>> /\ q = Head(queue')
      /\ IdsDistinct' /\ LinesOwned' /\ OwnAnswer'
  BY <1>0, WaitingInv
<1>2. TypeOK'
  BY <1>0, <1>1 DEF Waiting, Working, McpInv, TypeOK, handles, link, process
<1>3. \A q \in Requests : pc'[q] = IF q = r THEN "waiting" ELSE pc[q]
  BY <1>0 DEF Waiting, McpInv, TypeOK
<1>4. ConnectOrder'
  BY <1>0, <1>3, McpAssumption DEF McpInv, ConnectOrder, link, Requests
<1>5. HandlesReturn'
  BY <1>0, <1>3 DEF Waiting, McpInv, HandlesReturn, handles, link
<1> QED
  BY <1>1, <1>2, <1>4, <1>5 DEF McpInv

\* The holder of the lock ends, and nobody else is at work.
LEMMA LeaveInv ==
  ASSUME McpInv, NEW r \in Requests, queue # <<>>, Head(queue) = r,
         NEW how \in Ended, Leave(r, how)
  PROVE  /\ pc' \in [Requests -> {"idle", "waiting", "writing", "reading"} \cup Ended]
         /\ queue' \in Seq(Requests)
         /\ \A q \in Requests : ~Working(q)'
         /\ \A q \in Requests : pc'[q] = IF q = r THEN how ELSE pc[q]
<1>1. \A q \in Requests : pc'[q] = IF q = r THEN how ELSE pc[q]
  BY DEF Leave, McpInv, TypeOK
<1>2. pc' \in [Requests -> {"idle", "waiting", "writing", "reading"} \cup Ended]
  BY DEF Leave, McpInv, TypeOK
<1>3. queue' \in Seq(Requests)
  BY QueueTail DEF Leave, McpInv, TypeOK
<1>5. \A q \in Requests : ~Working(q)'
  BY <1>1 DEF Working, McpInv, TypeOK, Ended
<1> QED
  BY <1>1, <1>2, <1>3, <1>5

LEMMA AcquireInv ==
  ASSUME McpInv, NEW r \in Requests, Acquire(r)
  PROVE  McpInv'
<1>0. /\ pc[r] = "waiting" /\ queue # <<>> /\ Head(queue) = r
      /\ id' = [id EXCEPT ![r] = next_id] /\ next_id' = next_id + 1
      /\ \/ stdin /\ stdin' = FALSE /\ pc' = [pc EXCEPT ![r] = "writing"] /\ UNCHANGED queue
         \/ ~stdin /\ Leave(r, "failed") /\ UNCHANGED stdin
      /\ UNCHANGED <<reply, lost, stdout, connecting, connected, child, owed, lines, noise>>
  BY DEF Acquire, link, process
<1>1. /\ id[r] = 0 /\ \A q \in Requests : id[q] \in Nat /\ id[q] < next_id
      /\ next_id \in Nat \ {0}
      /\ \A q \in Requests : id'[q] = IF q = r THEN next_id ELSE id[q]
  BY <1>0 DEF McpInv, IdsDistinct, TypeOK
<1>2. \E to \in {"writing", "failed"} :
        /\ \A q \in Requests : pc'[q] = IF q = r THEN to ELSE pc[q]
        /\ to = "failed" => stdin' = stdin
  BY <1>0 DEF Leave, McpInv, TypeOK
<1>3. TypeOK'
  <2>1. id' \in [Requests -> Nat] /\ next_id' \in Nat
    BY <1>0, <1>1 DEF McpInv, TypeOK
  <2>2. CASE Leave(r, "failed")
    <3>1. /\ pc' \in [Requests -> {"idle", "waiting", "writing", "reading"} \cup Ended]
          /\ queue' \in Seq(Requests) /\ \A q \in Requests : ~Working(q)'
      BY <1>0, <2>2, LeaveInv DEF Ended
    <3> QED
      BY <1>0, <2>1, <3>1 DEF McpInv, TypeOK, Working
  <2>3. CASE pc' = [pc EXCEPT ![r] = "writing"] /\ UNCHANGED queue
    <3>1. pc' \in [Requests -> {"idle", "waiting", "writing", "reading"} \cup Ended]
      BY <2>3 DEF McpInv, TypeOK
    <3>2. \A q \in Requests : pc'[q] \in {"writing", "reading"} => queue' # <<>> /\ q = Head(queue')
      BY <1>0, <2>3 DEF McpInv, TypeOK
    <3>3. stdin' \in BOOLEAN
      BY <1>0 DEF McpInv, TypeOK
    <3> QED
      BY <1>0, <2>1, <2>3, <3>1, <3>2, <3>3 DEF McpInv, TypeOK
  <2> QED
    BY <1>0, <2>2, <2>3
<1>4. ConnectOrder'
  BY <1>0, <1>2 DEF McpInv, ConnectOrder, Requests
<1>5. IdsDistinct'
  BY <1>0, <1>1, <1>2 DEF McpInv, IdsDistinct
<1>6. LinesOwned'
  BY <1>0, <1>1 DEF McpInv, LinesOwned, LineOwned, TypeOK
<1>7. OwnAnswer'
  BY <1>0, <1>2 DEF McpInv, OwnAnswer
<1>8. HandlesReturn'
  BY <1>0, <1>2 DEF McpInv, HandlesReturn
<1> QED
  BY <1>3, <1>4, <1>5, <1>6, <1>7, <1>8 DEF McpInv

LEMMA WriteInv ==
  ASSUME McpInv, NEW r \in Requests, Write(r)
  PROVE  McpInv'
<1>0. /\ pc[r] = "writing" /\ queue # <<>> /\ Head(queue) = r
      /\ stdin' = TRUE /\ owed' \in {owed, owed \cup {r}}
      /\ \/ stdout' = FALSE /\ pc' = [pc EXCEPT ![r] = "reading"] /\ UNCHANGED queue
         \/ Leave(r, "failed") /\ UNCHANGED stdout
      /\ UNCHANGED <<id, next_id, reply, lost, connecting, connected, child, lines, noise>>
  BY DEF Write, link, McpInv, TypeOK
<1>1. id[r] # 0
  BY <1>0 DEF McpInv, IdsDistinct
<1>2. \E to \in {"reading", "failed"} :
        /\ \A q \in Requests : pc'[q] = IF q = r THEN to ELSE pc[q]
        /\ to = "failed" => stdout' = stdout
        /\ to = "reading" => ~stdout'
  BY <1>0 DEF Leave, McpInv, TypeOK
<1>3. TypeOK'
  <2>2. CASE Leave(r, "failed")
    <3>1. /\ pc' \in [Requests -> {"idle", "waiting", "writing", "reading"} \cup Ended]
          /\ queue' \in Seq(Requests) /\ \A q \in Requests : ~Working(q)'
      BY <1>0, <2>2, LeaveInv DEF Ended
    <3>2. stdout' \in BOOLEAN /\ stdin' \in BOOLEAN /\ owed' \subseteq Requests
      BY <1>0 DEF McpInv, TypeOK
    <3> QED
      BY <1>0, <3>1, <3>2 DEF McpInv, TypeOK, Working
  <2>3. CASE pc' = [pc EXCEPT ![r] = "reading"] /\ UNCHANGED queue
    <3>1. pc' \in [Requests -> {"idle", "waiting", "writing", "reading"} \cup Ended]
      BY <2>3 DEF McpInv, TypeOK
    <3>2. \A q \in Requests : pc'[q] \in {"writing", "reading"} => queue' # <<>> /\ q = Head(queue')
      BY <1>0, <2>3 DEF McpInv, TypeOK
    <3>3. stdout' \in BOOLEAN /\ stdin' \in BOOLEAN /\ owed' \subseteq Requests
      BY <1>0 DEF McpInv, TypeOK
    <3> QED
      BY <1>0, <2>3, <3>1, <3>2, <3>3 DEF McpInv, TypeOK
  <2> QED
    BY <1>0, <2>2, <2>3
<1>4. ConnectOrder'
  BY <1>0, <1>2 DEF McpInv, ConnectOrder, Requests
<1>5. IdsDistinct'
  BY <1>0, <1>1, <1>2 DEF McpInv, IdsDistinct
<1>6. LinesOwned'
  BY <1>0, <1>1 DEF McpInv, LinesOwned, LineOwned
<1>7. OwnAnswer'
  BY <1>0, <1>2 DEF McpInv, OwnAnswer
<1>8. HandlesReturn'
  BY <1>0, <1>2 DEF McpInv, HandlesReturn
<1> QED
  BY <1>3, <1>4, <1>5, <1>6, <1>7, <1>8 DEF McpInv

\* What remains of the lines is what was there, and so is the line read.
LEMMA LinesTail ==
  ASSUME McpInv, lines # <<>>
  PROVE  /\ Head(lines) \in Lines /\ Tail(lines) \in Seq(Lines)
         /\ LineOwned(Head(lines))
         /\ \A i \in 1..Len(Tail(lines)) : LineOwned(Tail(lines)[i])
<1>1. lines \in Seq(Lines) /\ \A i \in 1..Len(lines) : LineOwned(lines[i])
  BY DEF McpInv, TypeOK, LinesOwned
<1>2. /\ Head(lines) \in Lines /\ Tail(lines) \in Seq(Lines)
      /\ Len(Tail(lines)) = Len(lines) - 1
      /\ \A i \in 1..Len(Tail(lines)) : Tail(lines)[i] = lines[i + 1]
  BY <1>1, HeadTailProperties
<1>3. Len(lines) \in Nat \ {0} /\ Head(lines) = lines[1]
  BY <1>1, EmptySeq
<1>4. LineOwned(Head(lines))
  BY <1>1, <1>3
<1>5. ASSUME NEW i \in 1..Len(Tail(lines))
      PROVE  LineOwned(Tail(lines)[i])
  <2>1. i + 1 \in 1..Len(lines)
    BY <1>2, <1>3
  <2> QED
    BY <1>1, <1>2, <2>1
<1> QED
  BY <1>2, <1>4, <1>5

\* The request that was reading ends with stdout back in its place; a line
\* that answers it is its own.
LEMMA ReadingEnds ==
  ASSUME McpInv, NEW r \in Requests, pc[r] = "reading", NEW how \in Ended, Leave(r, how),
         stdout' = TRUE, UNCHANGED <<id, next_id, lost, stdin, link, child, owed, noise>>,
         lines' \in Seq(Lines), \A i \in 1..Len(lines') : LineOwned(lines'[i]),
         \/ how = "failed" /\ UNCHANGED reply
         \/ reply' = [reply EXCEPT ![r] = r]
  PROVE  McpInv'
<1>0. queue # <<>> /\ Head(queue) = r
  BY DEF McpInv, TypeOK
<1>1. /\ pc' \in [Requests -> {"idle", "waiting", "writing", "reading"} \cup Ended]
      /\ queue' \in Seq(Requests)
      /\ \A q \in Requests : ~Working(q)'
      /\ \A q \in Requests : pc'[q] = IF q = r THEN how ELSE pc[q]
  BY <1>0, LeaveInv
<1>2. TypeOK'
  <2>1. reply' \in [Requests -> Requests \cup {None}]
    BY DEF McpInv, TypeOK
  <2> QED
    BY <1>1, <2>1 DEF McpInv, TypeOK, Working, link
<1>3. ConnectOrder'
  BY <1>1 DEF McpInv, ConnectOrder, Requests, link, Ended
<1>4. IdsDistinct'
  BY <1>1 DEF McpInv, IdsDistinct, Ended
<1>5. LinesOwned'
  BY DEF McpInv, LinesOwned, LineOwned
<1>6. OwnAnswer'
  BY <1>1 DEF McpInv, OwnAnswer, TypeOK
<1>7. HandlesReturn'
  BY <1>1 DEF McpInv, HandlesReturn, link
<1> QED
  BY <1>2, <1>3, <1>4, <1>5, <1>6, <1>7 DEF McpInv

LEMMA ReadInv ==
  ASSUME McpInv, NEW r \in Requests, Read(r)
  PROVE  McpInv'
<1> DEFINE line == Head(lines)
<1>0. /\ pc[r] = "reading" /\ lines # <<>> /\ lines' = Tail(lines)
      /\ UNCHANGED <<id, next_id, lost, stdin, link, child, owed, noise>>
  BY DEF Read
<1>1. /\ line \in Lines /\ LineOwned(line)
      /\ lines' \in Seq(Lines) /\ \A i \in 1..Len(lines') : LineOwned(lines'[i])
  BY <1>0, LinesTail
<1>2. CASE Answers(r, line)
  <2>1. line.kind \in {"result", "error"} /\ line.id = id[r]
    BY <1>2 DEF Answers
  <2>2. line.of = r
    BY <1>1, <2>1 DEF LineOwned, McpInv, IdsDistinct
  <2>3. \E how \in {"done", "refused"} :
          Leave(r, how) /\ reply' = [reply EXCEPT ![r] = r] /\ stdout' = TRUE
    BY <2>1, <2>2, <1>2 DEF Read
  <2> QED
    BY <1>0, <1>1, <2>3, ReadingEnds DEF Ended
<1>3. CASE line.kind = "junk"
  <2>1. Leave(r, "failed") /\ stdout' = TRUE /\ UNCHANGED reply
    BY <1>3 DEF Read, Answers
  <2> QED
    BY <1>0, <1>1, <2>1, ReadingEnds DEF Ended
<1>4. CASE ~Answers(r, line) /\ line.kind # "junk"
  <2>1. UNCHANGED <<pc, queue, reply, stdout>>
    BY <1>4 DEF Read
  <2>2. TypeOK'
    BY <1>0, <1>1, <2>1 DEF McpInv, TypeOK, link
  <2>3. LinesOwned'
    BY <1>0, <1>1 DEF McpInv, LinesOwned, LineOwned
  <2> QED
    BY <1>0, <2>1, <2>2, <2>3
       DEF McpInv, ConnectOrder, IdsDistinct, OwnAnswer, HandlesReturn, link
<1> QED
  BY <1>2, <1>3, <1>4

LEMMA ReadEndInv ==
  ASSUME McpInv, NEW r \in Requests, ReadEnd(r)
  PROVE  McpInv'
<1>1. /\ pc[r] = "reading" /\ Leave(r, "failed") /\ stdout' = TRUE
      /\ UNCHANGED <<id, next_id, reply, lost, stdin, link, child, owed, lines, noise>>
  BY DEF ReadEnd, process
<1>2. lines' \in Seq(Lines) /\ \A i \in 1..Len(lines') : LineOwned(lines'[i])
  BY <1>1 DEF McpInv, TypeOK, LinesOwned
<1> QED
  BY <1>1, <1>2, ReadingEnds DEF Ended

LEMMA DropInv ==
  ASSUME McpInv, NEW r \in Requests, Drop(r)
  PROVE  McpInv'
<1>0. /\ r \in Calls /\ pc[r] \in {"waiting", "writing", "reading"}
      /\ pc' = [pc EXCEPT ![r] = "dropped"]
      /\ lost' = IF pc[r] = "waiting" THEN lost ELSE lost \cup {r}
      /\ owed' \in {owed, IF pc[r] = "writing" /\ child = "up" THEN owed \cup {r} ELSE owed}
      /\ UNCHANGED <<id, next_id, reply, stdin, stdout, connecting, connected, child, lines, noise>>
  BY DEF Drop, handles, link
<1>1. PICK i \in 1..Len(queue) : queue[i] = r /\ queue' = Without(i)
  BY DEF Drop
<1>2. \A q \in Requests : pc'[q] = IF q = r THEN "dropped" ELSE pc[q]
  BY <1>0 DEF McpInv, TypeOK
<1>3. TypeOK'
  <2>1. pc' \in [Requests -> {"idle", "waiting", "writing", "reading"} \cup Ended]
    BY <1>0 DEF McpInv, TypeOK, Ended
  <2>2. queue' \in Seq(Requests)
    BY <1>1, QueueWithout DEF McpInv, TypeOK
  <2>3. \A q \in Requests : pc'[q] \in {"writing", "reading"} => queue' # <<>> /\ q = Head(queue')
    BY <1>1, <1>2, QueueWithout DEF McpInv, TypeOK
  <2>4. lost' \subseteq Calls \cup {Disconnected} /\ owed' \subseteq Requests
    BY <1>0 DEF McpInv, TypeOK
  <2> QED
    BY <1>0, <2>1, <2>2, <2>3, <2>4 DEF McpInv, TypeOK
<1>4. ConnectOrder'
  BY <1>0, <1>2, McpAssumption DEF McpInv, ConnectOrder, Requests
<1>5. IdsDistinct'
  BY <1>0, <1>2 DEF McpInv, IdsDistinct
<1>6. LinesOwned'
  BY <1>0 DEF McpInv, LinesOwned, LineOwned, IdsDistinct
<1>7. OwnAnswer'
  BY <1>0, <1>2 DEF McpInv, OwnAnswer
<1>8. HandlesReturn'
  BY <1>0, <1>2 DEF McpInv, HandlesReturn
<1> QED
  BY <1>3, <1>4, <1>5, <1>6, <1>7, <1>8 DEF McpInv

-------------------------------------------------------------------------------
(* Steps of connect, disconnect and the child. *)

LEMMA ConnectInv ==
  ASSUME McpInv, Connect
  PROVE  McpInv'
<1>0. /\ connecting = "off" /\ connecting' = "initialize"
      /\ child' = "up" /\ stdin' = TRUE /\ stdout' = TRUE
      /\ Waiting(Initialize)
      /\ UNCHANGED <<connected, owed, lines, noise>>
  BY DEF Connect
<1>1. Initialize \in Requests /\ pc[Initialize] = "idle" /\ pc[List] = "idle" /\ Initialize # List
  BY <1>0, McpAssumption DEF McpInv, ConnectOrder, Requests
<1>2. /\ pc' \in [Requests -> {"idle", "waiting", "writing", "reading"} \cup Ended]
      /\ queue' \in Seq(Requests)
      /\ \A q \in Requests : Working(q)' => queue' # <<>> /\ q = Head(queue')
      /\ IdsDistinct' /\ LinesOwned' /\ OwnAnswer'
  BY <1>0, <1>1, WaitingInv
<1>3. TypeOK'
  BY <1>0, <1>2 DEF Waiting, Working, McpInv, TypeOK
<1>4. ConnectOrder'
  BY <1>0, <1>1 DEF Waiting, ConnectOrder, McpInv, TypeOK, Requests
<1>5. HandlesReturn'
  BY <1>0 DEF HandlesReturn
<1> QED
  BY <1>2, <1>3, <1>4, <1>5 DEF McpInv

LEMMA InitializedInv ==
  ASSUME McpInv, Initialized
  PROVE  McpInv'
<1>0. /\ connecting = "initialize" /\ connecting' = "list"
      /\ Waiting(List)
      /\ UNCHANGED <<stdin, stdout, connected, child, owed, lines, noise>>
  BY DEF Initialized, handles, process
<1>1. List \in Requests /\ pc[List] = "idle"
  BY <1>0 DEF McpInv, ConnectOrder, Requests
<1>2. /\ pc' \in [Requests -> {"idle", "waiting", "writing", "reading"} \cup Ended]
      /\ queue' \in Seq(Requests)
      /\ \A q \in Requests : Working(q)' => queue' # <<>> /\ q = Head(queue')
      /\ IdsDistinct' /\ LinesOwned' /\ OwnAnswer'
  BY <1>0, <1>1, WaitingInv
<1>3. TypeOK'
  BY <1>0, <1>2 DEF Waiting, Working, McpInv, TypeOK
<1>4. ConnectOrder'
  BY <1>0 DEF ConnectOrder
<1>5. \A q \in Requests : pc'[q] = IF q = List THEN "waiting" ELSE pc[q]
  BY <1>0 DEF Waiting, McpInv, TypeOK
<1>6. HandlesReturn'
  BY <1>0, <1>1, <1>5 DEF Waiting, McpInv, HandlesReturn
<1> QED
  BY <1>2, <1>3, <1>4, <1>6 DEF McpInv

\* Steps that touch neither the requests nor the lines.
LEMMA LinkInv ==
  ASSUME McpInv, Listed \/ ConnectFails \/ Disconnect \/ CloseHandles \/ ChildEnds
  PROVE  McpInv'
<1>1. /\ UNCHANGED <<pc, queue, id, next_id, reply, owed, lines, noise>>
      /\ connecting' = "off" => UNCHANGED connecting
      /\ connecting' \in {"off", "initialize"} => UNCHANGED connecting
      /\ connecting = "off" => connecting' = "off"
      /\ lost \subseteq lost' /\ (UNCHANGED <<stdin, stdout>> \/ lost' # {})
  BY DEF Listed, ConnectFails, Disconnect, CloseHandles, ChildEnds, future, handles, link, process
<1>2. TypeOK'
  BY DEF McpInv, TypeOK, Listed, ConnectFails, Disconnect, CloseHandles, ChildEnds, future, handles,
         link, process
<1>3. ConnectOrder' /\ IdsDistinct' /\ OwnAnswer'
  BY <1>1 DEF McpInv, ConnectOrder, IdsDistinct, OwnAnswer
<1>4. LinesOwned'
  BY <1>1 DEF McpInv, LinesOwned, LineOwned
<1>5. HandlesReturn'
  BY <1>1 DEF McpInv, HandlesReturn
<1> QED
  BY <1>2, <1>3, <1>4, <1>5 DEF McpInv

\* The child adds a line, of a request it owes an answer or of none.
LEMMA LineInv ==
  ASSUME McpInv, NEW line \in Lines, LineOwned(line), lines' = Append(lines, line),
         owed' \subseteq owed, noise' \in Nat, UNCHANGED <<future, handles, link, child>>
  PROVE  McpInv'
<1>1. /\ lines \in Seq(Lines) /\ lines' \in Seq(Lines) /\ Len(lines') = Len(lines) + 1
      /\ \A i \in 1..Len(lines) : lines'[i] = lines[i]
      /\ lines'[Len(lines) + 1] = line
  BY AppendProperties DEF McpInv, TypeOK
<1>2. Len(lines) \in Nat
  BY <1>1, LenProperties
<1>3. LinesOwned'
  <2>1. \A i \in 1..Len(lines') : i \in 1..Len(lines) \/ i = Len(lines) + 1
    BY <1>1, <1>2
  <2>2. \A i \in 1..Len(lines') : LineOwned(lines'[i])
    BY <1>1, <2>1 DEF McpInv, LinesOwned
  <2> QED
    BY <2>2 DEF McpInv, LinesOwned, LineOwned, future
<1>4. TypeOK'
  BY <1>1 DEF McpInv, TypeOK, future, handles, link
<1> QED
  BY <1>3, <1>4 DEF McpInv, ConnectOrder, IdsDistinct, OwnAnswer, HandlesReturn, future, handles, link

LEMMA ChildAnswersInv ==
  ASSUME McpInv, NEW r \in Requests, ChildAnswers(r)
  PROVE  McpInv'
<1>1. PICK kind \in {"result", "error"} : lines' = Append(lines, [id |-> id[r], of |-> r, kind |-> kind])
  BY DEF ChildAnswers
<1> DEFINE line == [id |-> id[r], of |-> r, kind |-> kind]
<1>2. line \in Lines /\ LineOwned(line)
  BY DEF ChildAnswers, Lines, LineOwned, McpInv, TypeOK, LinesOwned
<1>3. owed' \subseteq owed /\ noise' \in Nat /\ UNCHANGED <<future, handles, link, child>>
  BY DEF ChildAnswers, McpInv, TypeOK
<1> HIDE DEF line
<1>4. lines' = Append(lines, line)
  BY <1>1 DEF line
<1> QED
  BY <1>2, <1>3, <1>4, LineInv

LEMMA ChildSaysInv ==
  ASSUME McpInv, ChildSays
  PROVE  McpInv'
<1>1. PICK kind \in {"note", "junk"} : lines' = Append(lines, [id |-> 0, of |-> None, kind |-> kind])
  BY DEF ChildSays
<1> DEFINE line == [id |-> 0, of |-> None, kind |-> kind]
<1>2. line \in Lines /\ LineOwned(line)
  BY DEF Lines, LineOwned
<1>3. owed' \subseteq owed /\ noise' \in Nat /\ UNCHANGED <<future, handles, link, child>>
  BY DEF ChildSays, McpInv, TypeOK
<1> HIDE DEF line
<1>4. lines' = Append(lines, line)
  BY <1>1 DEF line
<1> QED
  BY <1>2, <1>3, <1>4, LineInv

-------------------------------------------------------------------------------
(* The theorems. *)

LEMMA McpInit == Init => McpInv
<1> SUFFICES ASSUME Init PROVE McpInv
  OBVIOUS
<1>1. TypeOK
  BY EmptySeq DEF Init, TypeOK
<1>2. lines = <<>> /\ owed = {} /\ Len(lines) = 0
  BY EmptySeq DEF Init
<1>3. LinesOwned
  BY <1>2 DEF LinesOwned
<1>4. ConnectOrder /\ IdsDistinct /\ OwnAnswer /\ HandlesReturn
  BY DEF Init, ConnectOrder, IdsDistinct, OwnAnswer, HandlesReturn, Requests
<1> QED
  BY <1>1, <1>3, <1>4 DEF McpInv

LEMMA McpStep ==
  ASSUME McpInv, [Next]_vars
  PROVE  McpInv'
<1>1. CASE UNCHANGED vars
  <2>1. TypeOK'
    BY <1>1 DEF McpInv, TypeOK, vars, future, handles, link, process
  <2>2. LinesOwned'
    BY <1>1 DEF McpInv, LinesOwned, LineOwned, vars, future, process
  <2>3. ConnectOrder' /\ IdsDistinct' /\ OwnAnswer' /\ HandlesReturn'
    BY <1>1 DEF McpInv, ConnectOrder, IdsDistinct, OwnAnswer, HandlesReturn, vars, future, handles, link
  <2> QED
    BY <2>1, <2>2, <2>3 DEF McpInv
<1>2. CASE Connect \/ Connecting \/ Disconnect \/ CloseHandles \/ ChildEnds
  BY <1>2, ConnectInv, InitializedInv, LinkInv DEF Connecting
<1>3. ASSUME NEW r \in Requests, Call(r) \/ Step(r) \/ Drop(r) \/ ChildAnswers(r)
      PROVE  McpInv'
  BY <1>3, CallInv, AcquireInv, WriteInv, ReadInv, ReadEndInv, DropInv, ChildAnswersInv DEF Step
<1>4. CASE ChildSays
  BY <1>4, ChildSaysInv
<1> QED
  BY <1>1, <1>2, <1>3, <1>4 DEF Next

LEMMA TransportIsSound == Spec => []McpInv
  BY McpInit, McpStep, PTL DEF Spec

\* The variables of the transport keep their types, and only the head of
\* the queue is at work.
THEOREM TypeCorrect == Spec => []TypeOK
<1>1. McpInv => TypeOK
  BY DEF McpInv
<1> QED
  BY <1>1, TransportIsSound, PTL

\* A request that ends with an answer was given its own (mcp.rs:282-288).
THEOREM AnswersAreOwn == Spec => []OwnAnswer
<1>1. McpInv => OwnAnswer
  BY DEF McpInv
<1> QED
  BY <1>1, TransportIsSound, PTL

\* No path of send_request but a drop forgets a handle (mcp.rs:236-276).
THEOREM HandlesComeBack == Spec => []HandlesReturn
<1>1. McpInv => HandlesReturn
  BY DEF McpInv
<1> QED
  BY <1>1, TransportIsSound, PTL
===============================================================================
