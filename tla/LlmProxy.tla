------------------------------- MODULE LlmProxy -------------------------------
(***************************************************************************)
(* The LLM proxy of the server runtime: the quota gate per session, the    *)
(* choice of the provider, and the call, whole or streamed.  A streamed    *)
(* call has three actors: the provider, whose lines arrive in chunks that  *)
(* need not end where a line ends; the handler of the HTTP request, which  *)
(* reads them; and a task of its own that pumps the tokens to the peer's   *)
(* control channel and may trail the response.                             *)
(*                                                                         *)
(* Abstracted: texts (the token of a line is its place in the stream), the *)
(* fields of requests, the buffer of the control channel (ControlChannel); *)
(* the line that says a stream is done carries no text of its own.         *)
(* With no quota configured the gate lets every call pass and counts none. *)
(***************************************************************************)
EXTENDS Integers, Sequences, FiniteSets, Subsequences

CONSTANTS
  LlmCalls,       \* requests for a model
  LlmSessions,    \* session ids a request may name
  Anonymous,      \* the request names no session
  DefaultKey,     \* "default", the key of such requests
  Quota,          \* policy.llm_quota
  KeyLimit,       \* 1024 in the code
  Providers,      \* configured providers
  DefaultProvider,
  Asked,          \* provider names requests may give
  Unnamed,        \* the request names no provider
  Missing,        \* no provider was found
  Streams,        \* what a provider may send: sequences of lines
  Ways            \* how each request is made: a subset of HowMade

Keys == LlmSessions \cup {DefaultKey}
LineKinds == {"delta", "done", "other"}
HowMade == {"call", "stub", "stream"}

ASSUME LlmAssumption ==
  /\ IsFiniteSet(LlmSessions) /\ Anonymous \notin LlmSessions
  /\ Quota \in Nat /\ KeyLimit \in Nat
  /\ Unnamed \notin Providers /\ Missing \notin Providers
  /\ Streams \subseteq Seq(LineKinds) /\ Ways \in [LlmCalls -> SUBSET HowMade]

VARIABLES
  llm_calls,  \* calls counted per key; Absent: no entry
  llm,        \* each request: pc, how it was made, stream, what was read of it
  tokens,     \* the unbounded mpsc channel between handler and pump
  pushed,     \* tokens the pump has pushed to the peer
  granted,    \* history: calls the gate let pass, per key
  resets      \* history: how often all counters were cleared

llmVars == <<llm_calls, llm, tokens, pushed, granted, resets>>

Absent == -1
LlmEnded == {"refused", "unknown", "failed", "replied", "dropped"}
NoCall == [pc |-> "idle", how |-> "call", stream |-> <<>>, read |-> 0,
           torn |-> FALSE, content |-> <<>>]

LlmInit ==
  /\ llm_calls = [k \in Keys |-> Absent]
  /\ llm = [c \in LlmCalls |-> NoCall]
  /\ tokens = [c \in LlmCalls |-> <<>>] /\ pushed = [c \in LlmCalls |-> <<>>]
  /\ granted = [k \in Keys |-> 0] /\ resets = 0

-------------------------------------------------------------------------------
(* The gate and the provider. *)

Entries == {k \in Keys : llm_calls[k] # Absent}

\* Too many keys: every counter is forgotten before this call is counted.
Remembered ==
  IF Cardinality(Entries) > KeyLimit THEN [k \in Keys |-> Absent] ELSE llm_calls

UsedBy(k) == IF Remembered[k] = Absent THEN 0 ELSE Remembered[k]

(* Mutant of CheckLlm: the call that fills the quota is not the last one.  *)
CheckLlmLate(used) == used <= Quota

CheckLlm(used) == used < Quota

\* Counts the call under k, or leaves an entry behind and refuses it.
CheckLlmGate(k) ==
  /\ llm_calls' = [Remembered EXCEPT ![k] = UsedBy(k) + IF CheckLlm(UsedBy(k)) THEN 1 ELSE 0]
  /\ granted' = [granted EXCEPT ![k] = @ + IF CheckLlm(UsedBy(k)) THEN 1 ELSE 0]
  /\ resets' = resets + IF Cardinality(Entries) > KeyLimit THEN 1 ELSE 0

ResolveProvider(name) ==
  CASE name \in Providers -> name
    [] name \in {Unnamed, DefaultProvider} /\ DefaultProvider \in Providers -> DefaultProvider
    [] OTHER -> Missing

(* A request of the HTTP endpoint (whole or streamed), of the tool loop or  *)
(* of the host import: the slot is taken before the provider is looked up. *)
Request(c, session, name, how, stream) ==
  LET k == IF session = Anonymous THEN DefaultKey ELSE session IN
  /\ llm[c].pc = "idle"
  /\ CheckLlmGate(k)
  /\ llm' = [llm EXCEPT ![c] =
       IF ~CheckLlm(UsedBy(k)) THEN [NoCall EXCEPT !.pc = "refused"]
       ELSE IF ResolveProvider(name) = Missing THEN [NoCall EXCEPT !.pc = "unknown"]
       ELSE [NoCall EXCEPT !.pc = "calling", !.how = how, !.stream = stream]]
  /\ UNCHANGED <<tokens, pushed>>

-------------------------------------------------------------------------------
(* The answer. *)

Deltas(s) == Subsequence([i \in 1..Len(s) |-> i], {i \in 1..Len(s) : s[i] = "delta"})

\* LlmProvider::call: the answer in one piece.
Answer(c) ==
  /\ llm[c].pc = "calling" /\ llm[c].how = "call"
  /\ llm' = [llm EXCEPT ![c].pc = "replied", ![c].content = Deltas(llm[c].stream)]
  /\ UNCHANGED <<llm_calls, tokens, pushed, granted, resets>>

\* StubLlmProvider::call_stream: the whole content is one token.
AnswerStub(c) ==
  /\ llm[c].pc = "calling" /\ llm[c].how = "stub"
  /\ llm' = [llm EXCEPT ![c].pc = "replied", ![c].content = <<0>>]
  /\ tokens' = [tokens EXCEPT ![c] = Append(@, 0)]
  /\ UNCHANGED <<llm_calls, pushed, granted, resets>>

\* The lines up to `last` that a chunk holds in one piece.  The head of a line
\* that the chunk before tore is gone, and its tail is no JSON.
Whole(call, last) ==
  {i \in (call.read + 1)..last : ~(call.torn /\ i = call.read + 1)}

\* Where the reader stops: at the first line that says the stream is done.
Stop(call, last) ==
  LET done == {i \in Whole(call, last) : call.stream[i] = "done"} IN
  IF done = {} THEN last + 1 ELSE CHOOSE i \in done : \A j \in done : i <= j

\* The tokens of a chunk, in order: lines that are no JSON, and lines without a
\* delta, are skipped.
Parsed(call, last) ==
  Subsequence([i \in 1..last |-> i],
              {i \in Whole(call, last) : i < Stop(call, last) /\ call.stream[i] = "delta"})

(* The next chunk of a stream: the lines up to `last`, and the head of the *)
(* line after it when it is torn.  Each delta is added to the content and  *)
(* sent to the pump.                                                       *)
Chunk(c, last, torn) ==
  LET call == llm[c]
      new  == Parsed(call, last)
  IN
  /\ call.pc = "calling" /\ call.how = "stream"
  /\ last \in call.read..Len(call.stream)
  /\ torn => last < Len(call.stream)
  /\ last > call.read \/ (torn /\ ~call.torn)
  /\ llm' = [llm EXCEPT ![c].read = last, ![c].torn = torn,
                        ![c].content = @ \o new,
                        ![c].pc = IF Stop(call, last) <= last THEN "replied" ELSE @]
  /\ tokens' = [tokens EXCEPT ![c] = @ \o new]
  /\ UNCHANGED <<llm_calls, pushed, granted, resets>>

\* The provider ends the stream without a line that says so: still a reply.
StreamEnds(c) ==
  /\ llm[c].pc = "calling" /\ llm[c].how = "stream"
  /\ llm[c].read = Len(llm[c].stream)
  /\ llm' = [llm EXCEPT ![c].pc = "replied"]
  /\ UNCHANGED <<llm_calls, tokens, pushed, granted, resets>>

\* The provider refuses, or the connection breaks: what was read is discarded,
\* the slot of the quota stays taken.
LlmFails(c) ==
  /\ llm[c].pc = "calling" /\ llm[c].how # "stub"
  /\ llm' = [llm EXCEPT ![c].pc = "failed"]
  /\ UNCHANGED <<llm_calls, tokens, pushed, granted, resets>>

\* The HTTP client goes away: its handler is dropped at the await of the
\* provider, and its end of the token channel with it.
HandlerDropped(c) ==
  /\ llm[c].pc = "calling" /\ llm[c].how # "stub"
  /\ llm' = [llm EXCEPT ![c].pc = "dropped"]
  /\ UNCHANGED <<llm_calls, tokens, pushed, granted, resets>>

(* Mutant of Pump: the task ends with the call.                            *)
PumpWhileCalling(c) ==
  /\ tokens[c] # <<>> /\ llm[c].pc \notin LlmEnded
  /\ pushed' = [pushed EXCEPT ![c] = Append(@, Head(tokens[c]))]
  /\ tokens' = [tokens EXCEPT ![c] = Tail(@)]
  /\ UNCHANGED <<llm_calls, llm, granted, resets>>

\* The task of a streamed call; it ends when the channel is empty and closed.
Pump(c) ==
  /\ tokens[c] # <<>>
  /\ pushed' = [pushed EXCEPT ![c] = Append(@, Head(tokens[c]))]
  /\ tokens' = [tokens EXCEPT ![c] = Tail(@)]
  /\ UNCHANGED <<llm_calls, llm, granted, resets>>

LlmNext ==
  \E c \in LlmCalls :
    \/ \E session \in LlmSessions \cup {Anonymous}, name \in Asked,
          how \in Ways[c], stream \in Streams :
         Request(c, session, name, how, stream)
    \/ Answer(c) \/ AnswerStub(c) \/ StreamEnds(c) \/ LlmFails(c) \/ HandlerDropped(c)
    \/ \E last \in 0..Len(llm[c].stream), torn \in BOOLEAN : Chunk(c, last, torn)
    \/ Pump(c)

\* tokio schedules the pump as long as it has a token; nothing bounds a provider.
LlmFairness == \A c \in LlmCalls : WF_llmVars(Pump(c))

LlmSpec == LlmInit /\ [][LlmNext]_llmVars /\ LlmFairness

-------------------------------------------------------------------------------
LlmTypeOK ==
  /\ llm_calls \in [Keys -> {Absent} \cup 0..Quota]
  /\ \A c \in LlmCalls :
       /\ llm[c].pc \in {"idle", "calling"} \cup LlmEnded
       /\ llm[c].how \in HowMade
       /\ llm[c].stream \in Streams \cup {<<>>}
       /\ llm[c].read \in 0..Len(llm[c].stream) /\ llm[c].torn \in BOOLEAN
       /\ \A s \in {llm[c].content, tokens[c], pushed[c]} : s \in Seq(Nat)
  /\ granted \in [Keys -> Nat] /\ resets \in Nat

(* The gate grants a session its quota, and once more for each time the    *)
(* counters of all sessions were cleared (wit.rs:78-84): neither requests  *)
(* of other sessions, nor calls that fail after the gate, nor requests     *)
(* that name no session change that.                                       *)
QuotaHolds == \A k \in Keys : granted[k] <= Quota * (1 + resets)

(* Every token that the reader of a stream decoded reaches the peer, in    *)
(* the order of the response and once, also when the response is sent      *)
(* first, the provider fails or the HTTP client goes away                  *)
(* (http.rs:81-94).                                                        *)
EveryTokenDelivered ==
  \A c \in LlmCalls :
    llm[c].pc \in LlmEnded /\ llm[c].how # "call" ~> pushed[c] = llm[c].content

(* "the full response is returned once the provider finishes"              *)
(* (llm.rs:51-52): every delta of the stream is in the reply.  A line that *)
(* two chunks share is in neither.                                         *)
ReplyIsWhole ==
  \A c \in LlmCalls :
    llm[c].pc = "replied" /\ llm[c].how = "stream" => llm[c].content = Deltas(llm[c].stream)
===============================================================================
