---------------------------- MODULE ControlChannel ----------------------------
(***************************************************************************)
(* The control channel of the server runtime: requests from core threads   *)
(* to the peer (a remote tool, a runtime hook) go out on the peer's SSE    *)
(* stream and are answered by a POST.  The mutexes of ControlChannel are   *)
(* held for one map operation each, so every lock-to-unlock section is one *)
(* action; core threads, HTTP workers, the peer and the clock interleave.  *)
(*                                                                         *)
(* Abstracted: envelopes other than requests are all "token"; a payload is *)
(* what the waiter makes of it.  Correlation ids are fresh uuids, so a     *)
(* request is its own id.  There is one peer, SharedState.client_id.       *)
(***************************************************************************)
EXTENDS Naturals, Sequences

CONSTANTS
  Requests,   \* requests ever made
  Hooks,      \* those made by request_hook_decision; execute_remote the others
  Ttl,        \* pending_ttl
  Capacity,   \* of a client's broadcast buffer; 256 in the code
  \* Bounds of the explored instance:
  MaxStreams, \* SSE connections the peer ever opens
  Tokens      \* whether other envelopes compete for the buffer

ASSUME ChannelAssumption ==
  /\ Hooks \subseteq Requests /\ "token" \notin Requests
  /\ Ttl \in Nat /\ Capacity \in Nat \ {0}
  /\ MaxStreams \in Nat /\ Tokens \in BOOLEAN

VARIABLES
  pc,       \* where the thread of each request is
  pending,  \* `pending`: requests with an entry
  left,     \* time until the deadline of that entry has passed; 0: passed
  timer,    \* time until tokio's timeout of the waiter fires; 0: elapsed
  slot,     \* its oneshot channel: empty, a verdict sent, or the sender dropped
  via,      \* the stream whose sender the push has cloned
  conn,     \* `clients`: the stream of the registered sender; 0: none
  streams,  \* every SSE stream ever opened
  seen,     \* requests the peer has read
  accepted, \* history: POST-backs of each request reported as completed
  posted    \* history: requests for which the peer has posted consent

vars == <<pc, pending, left, timer, slot, via, conn, streams, seen, accepted, posted>>
peer == <<conn, streams, seen>>
ghosts == <<accepted, posted>>

-------------------------------------------------------------------------------
(* Data. *)

Stage == {"idle", "registered", "checked", "cloned", "waiting", "expired",
          "answered", "rejected", "timedout", "denied"}
Ended == {"answered", "rejected", "timedout", "denied"}

(* A PostbackBody as its waiter takes it: ok, ok with a payload that is no *)
(* tool-execution-result, or not ok.                                       *)
Verdict == {"ok", "invalid", "refused"}

StreamIds == 1..MaxStreams
Message == Requests \cup {"token"}

(* Mutant of Outcome: every body grants. *)
OutcomeTrusting(r, verdict) == "answered"

(* What the waiter makes of a verdict: a tool call needs a result, a hook  *)
(* takes any payload as its decision.                                      *)
Outcome(r, verdict) ==
  CASE verdict = "ok" -> "answered"
    [] verdict = "invalid" -> IF r \in Hooks THEN "answered" ELSE "rejected"
    [] verdict = "refused" -> "rejected"

(* The peer consents: a hook takes any payload as its decision. *)
Consents(r, verdict) == verdict = "ok" \/ (verdict = "invalid" /\ r \in Hooks)

(* broadcast::Sender::send.  Nobody receives: the message is gone.  The    *)
(* buffer is full: the receiver lags and its oldest message is gone.       *)
Sent(id, message) ==
  LET all == Append(streams[id].buffer, message)
  IN  IF ~streams[id].open THEN streams
      ELSE [streams EXCEPT ![id].buffer = IF Len(all) > Capacity THEN Tail(all) ELSE all]

Go(r, stage) == pc' = [pc EXCEPT ![r] = stage]

(* Mutant of Removed: the entry stays. *)
KeptEntry(r) == pending

(* pending.remove(correlation_id) *)
Removed(r) == pending \ {r}

-------------------------------------------------------------------------------
(* The thread of a request: execute_remote and request_hook_decision. *)

Init ==
  /\ pc = [r \in Requests |-> "idle"]
  /\ pending = {}
  /\ left = [r \in Requests |-> 0]
  /\ timer = [r \in Requests |-> 0]
  /\ slot = [r \in Requests |-> "empty"]
  /\ via = [r \in Requests |-> 0]
  /\ conn = 0
  /\ streams = [id \in StreamIds |-> [open |-> FALSE, buffer |-> <<>>]]
  /\ seen = {}
  /\ accepted = [r \in Requests |-> 0]
  /\ posted = {}

(* GatePolicy denies a tool call (check_tool) or a hook (check_hook): it is *)
(* neither registered nor sent.                                            *)
Deny(r) ==
  /\ pc[r] = "idle"
  /\ Go(r, "denied")
  /\ UNCHANGED <<pending, left, timer, slot, via, peer, ghosts>>

(* register_pending: the entry is there before the peer can hear of it. *)
RegisterPending(r) ==
  /\ pc[r] = "idle"
  /\ Go(r, "registered")
  /\ pending' = pending \cup {r}
  /\ left' = [left EXCEPT ![r] = Ttl + 1]
  /\ UNCHANGED <<timer, slot, via, peer, ghosts>>

(* is_client_connected, and cancel_pending when it is not: nobody else     *)
(* knows the correlation id yet, so the two sections are one step.         *)
CheckConnected(r) ==
  /\ pc[r] = "registered"
  /\ IF conn = 0
     THEN Go(r, "denied") /\ pending' = Removed(r)
     ELSE Go(r, "checked") /\ UNCHANGED pending
  /\ UNCHANGED <<left, timer, slot, via, peer, ghosts>>

(* push_raw: the sender is cloned under the lock ... *)
CloneSender(r) ==
  /\ pc[r] = "checked"
  /\ Go(r, "cloned")
  /\ via' = [via EXCEPT ![r] = conn]
  /\ UNCHANGED <<pending, left, timer, slot, peer, ghosts>>

(* ... and used outside it.  Its result is ignored, and the wait begins. *)
PushAndWait(r) ==
  /\ pc[r] = "cloned"
  /\ Go(r, "waiting")
  /\ streams' = Sent(via[r], r)
  /\ timer' = [timer EXCEPT ![r] = Ttl + 1]
  /\ UNCHANGED <<pending, left, slot, via, conn, seen, ghosts>>

(* The wait ends with a body, whether or not the timeout has elapsed too:  *)
(* timeout() polls the receiver first.                                     *)
TakeAnswer(r) ==
  /\ pc[r] = "waiting" /\ slot[r] \in Verdict
  /\ Go(r, Outcome(r, slot[r]))
  /\ UNCHANGED <<pending, left, timer, slot, via, peer, ghosts>>

(* It ends without one, because the sender was dropped or the time is up. *)
GiveUp(r) ==
  /\ pc[r] = "waiting"
  /\ slot[r] = "dropped" \/ (slot[r] = "empty" /\ timer[r] = 0)
  /\ Go(r, "expired")
  /\ UNCHANGED <<pending, left, timer, slot, via, peer, ghosts>>

CancelPending(r) ==
  /\ pc[r] = "expired"
  /\ Go(r, "timedout")
  /\ pending' = Removed(r)
  /\ UNCHANGED <<left, timer, slot, via, peer, ghosts>>

Step(r) ==
  \/ Deny(r) \/ RegisterPending(r) \/ CheckConnected(r) \/ CloneSender(r)
  \/ PushAndWait(r) \/ TakeAnswer(r) \/ GiveUp(r) \/ CancelPending(r)

-------------------------------------------------------------------------------
(* The HTTP workers. *)

(* Mutant of InTime: the deadline is not checked. *)
AnyTime(r) == TRUE

(* complete_postback: not (p.deadline < now) *)
InTime(r) == left[r] > 0

(* POST .../events/{id}/response, as often as the peer likes to post it.   *)
(* An id without an entry is ignored; an expired one loses its entry, and  *)
(* its sender is dropped.                                                  *)
CompletePostback(r, verdict) ==
  /\ r \in seen
  /\ posted' = IF Consents(r, verdict) THEN posted \cup {r} ELSE posted
  /\ pending' = Removed(r)
  /\ IF r \notin pending
     THEN UNCHANGED <<slot, accepted>>
     ELSE IF InTime(r)
     THEN /\ slot' = [slot EXCEPT ![r] = verdict]
          /\ accepted' = [accepted EXCEPT ![r] = @ + 1]
     ELSE /\ slot' = [slot EXCEPT ![r] = "dropped"]
          /\ UNCHANGED accepted
  /\ UNCHANGED <<pc, left, timer, via, peer>>

(* GET .../events: register_client replaces the sender of an earlier       *)
(* stream, and the lifecycle signal is the first message of the new one.   *)
Connect(id) ==
  /\ id = conn + 1
  /\ conn' = id
  /\ streams' = [streams EXCEPT ![id] = [open |-> TRUE, buffer |-> <<"token">>]]
  /\ UNCHANGED <<pc, pending, left, timer, slot, via, seen, ghosts>>

(* push_llm_token and other pushes that nobody waits for. *)
PushToken ==
  /\ Tokens /\ conn # 0
  /\ streams' = Sent(conn, "token")
  /\ UNCHANGED <<pc, pending, left, timer, slot, via, conn, seen, ghosts>>

-------------------------------------------------------------------------------
(* The peer, its connection and the clock. *)

Read(id) ==
  /\ streams[id].buffer # <<>>
  /\ seen' = seen \cup ({Head(streams[id].buffer)} \cap Requests)
  /\ streams' = [streams EXCEPT ![id].buffer = Tail(@)]
  /\ UNCHANGED <<pc, pending, left, timer, slot, via, conn, ghosts>>

(* The connection breaks; the sender stays in `clients`. *)
Disconnect(id) ==
  /\ streams[id].open
  /\ streams' = [streams EXCEPT ![id] = [open |-> FALSE, buffer |-> <<>>]]
  /\ UNCHANGED <<pc, pending, left, timer, slot, via, conn, seen, ghosts>>

Less(n) == IF n = 0 THEN 0 ELSE n - 1

Tick ==
  /\ left' = [r \in Requests |-> Less(left[r])]
  /\ timer' = [r \in Requests |-> Less(timer[r])]
  /\ <<left, timer>>' # <<left, timer>>
  /\ UNCHANGED <<pc, pending, slot, via, peer, ghosts>>

Next ==
  \/ \E r \in Requests : Step(r) \/ \E verdict \in Verdict : CompletePostback(r, verdict)
  \/ \E id \in StreamIds : Connect(id) \/ Read(id) \/ Disconnect(id)
  \/ PushToken
  \/ Tick

(* Threads run, and time passes; the peer need not do anything. *)
Fairness == WF_vars(Tick) /\ \A r \in Requests : WF_vars(Step(r))

Spec == Init /\ [][Next]_vars /\ Fairness

-------------------------------------------------------------------------------
(* Properties. *)

(* Every variable has its type. *)
TypeOK ==
  /\ pc \in [Requests -> Stage]
  /\ pending \subseteq Requests
  /\ left \in [Requests -> 0..(Ttl + 1)]
  /\ timer \in [Requests -> 0..(Ttl + 1)]
  /\ slot \in [Requests -> {"empty", "dropped"} \cup Verdict]
  /\ via \in [Requests -> 0..MaxStreams]
  /\ conn \in 0..MaxStreams
  /\ streams \in [StreamIds -> [open : BOOLEAN, buffer : Seq(Message)]]
  /\ seen \subseteq Requests
  /\ accepted \in [Requests -> Nat]
  /\ posted \subseteq Requests

(* A POST-back that complete_postback reports as completed is what the     *)
(* waiter gets: no waiter gives up on a request whose answer was accepted, *)
(* however the answer races with the TTL and the timeout of the waiter.    *)
AcceptedIsTaken ==
  \A r \in Requests :
    /\ accepted[r] <= 1
    /\ accepted[r] = 1 => pc[r] \in {"waiting", "answered", "rejected"}

(* No entry outlives its request: what is pending is still waited for, so  *)
(* the map cannot grow with requests that timed out or were never sent.    *)
PendingIsAwaited ==
  \A r \in pending : pc[r] \in {"registered", "checked", "cloned", "waiting", "expired"}

Phase(r) ==
  CASE pc[r] = "idle" -> "idle"
    [] pc[r] = "answered" -> "granted"
    [] pc[r] \in {"rejected", "timedout", "denied"} -> "refused"
    [] OTHER -> "open"
Abstract ==
  INSTANCE RemoteRequest WITH
    outcome <- [r \in Requests |-> Phase(r)],
    offered <- posted

(* The channel implements RemoteRequest: a request is settled once, granted *)
(* only with the consent of the peer, and no request that was begun hangs,  *)
(* whether or not the peer is there, reads its stream, or answers           *)
(* (WIRE_PROTOCOL.md).                                                      *)
SettledOnceByThePeer == Abstract!Spec
===============================================================================
