-------------------------- MODULE ServerRuntime_proofs -------------------------
(***************************************************************************)
(* Proofs about the calls of the server runtime.                           *)
(*                                                                         *)
(* ControlChannel, for any requests, time to live and buffer: an accepted  *)
(* POST-back reaches its waiter, no entry outlives its request, and every  *)
(* step of the channel is one of RemoteRequest.                            *)
(*                                                                         *)
(* ToolRouter: ownership is fixed, so a decision that is used after the    *)
(* lock of the registry was released is still right, for any number of     *)
(* calls, registrations and servers.                                       *)
(***************************************************************************)
EXTENDS ControlChannel, ToolRouter, SequenceTheorems, TLAPS

-------------------------------------------------------------------------------
(* ControlChannel. *)

\* The stages of a request that was handed to its stream.
Sent_stages == {"waiting", "expired", "answered", "rejected", "timedout"}

Buffered(r) ==
  \E s \in StreamIds : \E i \in 1..Len(streams[s].buffer) : streams[s].buffer[i] = r

\* The peer cannot know of a request before it was sent.
KnownIsSent ==
  \A r \in Requests : r \in seen \/ Buffered(r) => pc[r] \in Sent_stages

\* The deadline of the entry was set before the timeout of the waiter, so a
\* waiter that gave up left an entry that is too old to be completed.
DeadlineFirst(r) ==
  /\ pc[r] = "waiting" => left[r] <= timer[r]
  /\ pc[r] = "expired" /\ r \in pending => left[r] = 0

\* What the oneshot channel holds, and what it says of the entry.
SlotAgrees(r) ==
  /\ slot[r] # "empty" => pc[r] \in Sent_stages
  /\ slot[r] # "empty" => r \notin pending
  /\ slot[r] \in Verdict /\ Consents(r, slot[r]) => r \in posted

AcceptedOnce(r) ==
  /\ accepted[r] = 0 \/ accepted[r] = 1
  /\ accepted[r] = 1 =>
       /\ r \notin pending /\ slot[r] \in Verdict
       /\ pc[r] \in {"waiting", "answered", "rejected"}

Awaited(r) ==
  r \in pending => pc[r] \in {"registered", "checked", "cloned", "waiting", "expired"}

\* A push goes to a stream that was opened.
Addressed(r) == (pc[r] = "checked" => conn # 0) /\ (pc[r] = "cloned" => via[r] # 0)

RequestInv(r) ==
  DeadlineFirst(r) /\ SlotAgrees(r) /\ AcceptedOnce(r) /\ Awaited(r) /\ Addressed(r)

ChannelInv == TypeOK /\ KnownIsSent /\ \A r \in Requests : RequestInv(r)

-------------------------------------------------------------------------------
(* The streams. *)

StreamType == [StreamIds -> [open : BOOLEAN, buffer : Seq(Message)]]

\* A message is appended, and the oldest one may be lost.
LEMMA SentKeeps ==
  ASSUME streams \in StreamType, NEW s \in StreamIds, NEW m \in Message
  PROVE  /\ Sent(s, m) \in StreamType
         /\ \A t \in StreamIds : \A i \in 1..Len(Sent(s, m)[t].buffer) :
              \/ Sent(s, m)[t].buffer[i] = m
              \/ \E j \in 1..Len(streams[t].buffer) :
                   Sent(s, m)[t].buffer[i] = streams[t].buffer[j]
<1> DEFINE old == streams[s].buffer
           all == Append(old, m)
           new == IF Len(all) > Capacity THEN Tail(all) ELSE all
<1>1. old \in Seq(Message)
  BY DEF StreamType
<1>2. /\ all \in Seq(Message) /\ all # <<>> /\ Len(all) = Len(old) + 1
      /\ \A i \in 1..Len(old) : all[i] = old[i]
      /\ all[Len(old) + 1] = m
  BY <1>1, AppendProperties
<1>3. Len(old) \in Nat
  BY <1>1, LenProperties
<1>4. \A i \in 1..Len(all) : all[i] = m \/ \E j \in 1..Len(old) : all[i] = old[j]
  BY <1>2, <1>3
<1>5. /\ Tail(all) \in Seq(Message) /\ Len(Tail(all)) = Len(all) - 1
      /\ \A i \in 1..Len(Tail(all)) : Tail(all)[i] = all[i + 1]
  BY <1>2, HeadTailProperties
<1>6. \A i \in 1..Len(Tail(all)) : i + 1 \in 1..Len(all)
  BY <1>2, <1>3, <1>5
<1>7. /\ new \in Seq(Message)
      /\ \A i \in 1..Len(new) : new[i] = m \/ \E j \in 1..Len(old) : new[i] = old[j]
  <2>1. CASE Len(all) > Capacity
    <3>1. new = Tail(all)
      BY <2>1
    <3> HIDE DEF all, new
    <3> QED
      BY <3>1, <1>4, <1>5, <1>6
  <2>2. CASE ~(Len(all) > Capacity)
    <3>1. new = all
      BY <2>2
    <3> HIDE DEF all, new
    <3> QED
      BY <3>1, <1>2, <1>4
  <2> QED
    BY <2>1, <2>2
<1>8. CASE ~streams[s].open
  BY <1>8 DEF Sent
<1>9. CASE streams[s].open
  <2>1. Sent(s, m) = [streams EXCEPT ![s].buffer = new]
    BY <1>9 DEF Sent
  <2> HIDE DEF new
  <2>2. /\ Sent(s, m) \in StreamType
        /\ Sent(s, m)[s].buffer = new
        /\ \A t \in StreamIds \ {s} : Sent(s, m)[t] = streams[t]
    BY <2>1, <1>7 DEF StreamType
  <2>3. ASSUME NEW t \in StreamIds, NEW i \in 1..Len(Sent(s, m)[t].buffer)
        PROVE  \/ Sent(s, m)[t].buffer[i] = m
               \/ \E j \in 1..Len(streams[t].buffer) :
                    Sent(s, m)[t].buffer[i] = streams[t].buffer[j]
    <3>1. CASE t = s
      BY <3>1, <2>2, <1>7
    <3>2. CASE t # s
      BY <3>2, <2>2
    <3> QED
      BY <3>1, <3>2
  <2> QED
    BY <2>2, <2>3
<1> QED
  BY <1>8, <1>9

\* A step of a thread leaves the streams alone, except that it may send.
LEMMA BufferedKept ==
  ASSUME UNCHANGED streams
  PROVE  \A r : Buffered(r)' <=> Buffered(r)
BY DEF Buffered

-------------------------------------------------------------------------------
(* The steps of a thread. *)

LEMMA DenyPreserves ==
  ASSUME ChannelInv, NEW r \in Requests, Deny(r)
  PROVE  ChannelInv'
<1>1. TypeOK'
  BY ChannelAssumption DEF ChannelInv, TypeOK, Deny, Go, Stage, peer, ghosts
<1>2. KnownIsSent'
  BY BufferedKept DEF ChannelInv, TypeOK, KnownIsSent, Deny, Go, Sent_stages, peer
<1>3. \A q \in Requests : RequestInv(q)'
  BY ChannelAssumption DEF ChannelInv, TypeOK, Deny, Go, RequestInv, DeadlineFirst,
    SlotAgrees, AcceptedOnce, Awaited, Addressed, Sent_stages, peer, ghosts
<1> QED
  BY <1>1, <1>2, <1>3 DEF ChannelInv

LEMMA RegisterPendingPreserves ==
  ASSUME ChannelInv, NEW r \in Requests, RegisterPending(r)
  PROVE  ChannelInv'
<1>1. TypeOK'
  BY ChannelAssumption DEF ChannelInv, TypeOK, RegisterPending, Go, Stage, peer, ghosts
<1>2. KnownIsSent'
  BY BufferedKept DEF ChannelInv, TypeOK, KnownIsSent, RegisterPending, Go, Sent_stages, peer
<1>3. \A q \in Requests : RequestInv(q)'
  BY ChannelAssumption DEF ChannelInv, TypeOK, RegisterPending, Go, RequestInv, DeadlineFirst,
    SlotAgrees, AcceptedOnce, Awaited, Addressed, Sent_stages, peer, ghosts
<1> QED
  BY <1>1, <1>2, <1>3 DEF ChannelInv

LEMMA CheckConnectedPreserves ==
  ASSUME ChannelInv, NEW r \in Requests, CheckConnected(r)
  PROVE  ChannelInv'
<1>1. TypeOK'
  BY ChannelAssumption DEF ChannelInv, TypeOK, CheckConnected, Go, Stage, peer, ghosts, Removed
<1>2. KnownIsSent'
  BY BufferedKept DEF ChannelInv, TypeOK, KnownIsSent, CheckConnected, Go, Sent_stages, peer
<1>3. /\ pc[r] = "registered" /\ UNCHANGED <<left, timer, slot, via, conn, accepted, posted>>
      /\ \A q \in Requests \ {r} : pc'[q] = pc[q] /\ (q \in pending' <=> q \in pending)
      /\ pc'[r] \in {"denied", "checked"} /\ pending' \subseteq pending
      /\ pc'[r] = "denied" => r \notin pending'
      /\ pc'[r] = "checked" => conn # 0
  BY DEF ChannelInv, TypeOK, CheckConnected, Go, Removed, peer, ghosts
<1>4. ASSUME NEW q \in Requests
      PROVE  RequestInv(q)'
  <2>1. RequestInv(q)
    BY DEF ChannelInv
  <2>2. CASE q # r
    BY <1>3, <2>1, <2>2
    DEF RequestInv, DeadlineFirst, SlotAgrees, AcceptedOnce, Awaited, Addressed, Sent_stages, Consents
  <2>3. CASE q = r
    BY <1>3, <2>1, <2>3
    DEF RequestInv, DeadlineFirst, SlotAgrees, AcceptedOnce, Awaited, Addressed, Sent_stages, Consents
  <2> QED
    BY <2>2, <2>3
<1> QED
  BY <1>1, <1>2, <1>4 DEF ChannelInv

LEMMA CloneSenderPreserves ==
  ASSUME ChannelInv, NEW r \in Requests, CloneSender(r)
  PROVE  ChannelInv'
<1>1. TypeOK'
  BY ChannelAssumption DEF ChannelInv, TypeOK, CloneSender, Go, Stage, peer, ghosts
<1>2. KnownIsSent'
  BY BufferedKept DEF ChannelInv, TypeOK, KnownIsSent, CloneSender, Go, Sent_stages, peer
<1>3. \A q \in Requests : RequestInv(q)'
  BY ChannelAssumption DEF ChannelInv, TypeOK, CloneSender, Go, RequestInv, DeadlineFirst,
    SlotAgrees, AcceptedOnce, Awaited, Addressed, Sent_stages, peer, ghosts
<1> QED
  BY <1>1, <1>2, <1>3 DEF ChannelInv

LEMMA PushAndWaitPreserves ==
  ASSUME ChannelInv, NEW r \in Requests, PushAndWait(r)
  PROVE  ChannelInv'
<1>1. /\ streams \in StreamType /\ via[r] \in StreamIds /\ r \in Message
      /\ streams' = Sent(via[r], r)
  BY ChannelAssumption DEF ChannelInv, TypeOK, RequestInv, Addressed, PushAndWait,
    StreamType, StreamIds, Message
<1>2. streams' \in StreamType /\ \A q \in Requests \ {r} : Buffered(q)' => Buffered(q)
  <2>1. streams' \in StreamType
    BY <1>1, SentKeeps
  <2>2. \A t \in StreamIds : \A i \in 1..Len(streams'[t].buffer) :
          \/ streams'[t].buffer[i] = r
          \/ \E j \in 1..Len(streams[t].buffer) : streams'[t].buffer[i] = streams[t].buffer[j]
    BY <1>1, SentKeeps
  <2> QED
    BY <2>1, <2>2 DEF Buffered
<1>3. TypeOK'
  BY <1>2, ChannelAssumption DEF ChannelInv, TypeOK, PushAndWait, Go, Stage, ghosts, StreamType
<1>4. KnownIsSent'
  BY <1>2 DEF ChannelInv, TypeOK, KnownIsSent, PushAndWait, Go, Sent_stages
<1>5. \A q \in Requests : RequestInv(q)'
  BY ChannelAssumption DEF ChannelInv, TypeOK, PushAndWait, Go, RequestInv, DeadlineFirst,
    SlotAgrees, AcceptedOnce, Awaited, Addressed, Sent_stages, ghosts
<1> QED
  BY <1>3, <1>4, <1>5 DEF ChannelInv

LEMMA TakeAnswerPreserves ==
  ASSUME ChannelInv, NEW r \in Requests, TakeAnswer(r)
  PROVE  ChannelInv'
<1> DEFINE end == Outcome(r, slot[r])
<1>1. /\ pc[r] = "waiting" /\ slot[r] \in Verdict /\ end \in {"answered", "rejected"}
      /\ pc' = [pc EXCEPT ![r] = end]
  BY DEF TakeAnswer, Go, Outcome, Verdict
<1> HIDE DEF end
<1>2. /\ pc \in [Requests -> Stage] /\ pc'[r] = end
      /\ \A q \in Requests \ {r} : pc'[q] = pc[q]
  BY <1>1 DEF ChannelInv, TypeOK
<1>3. TypeOK'
  BY <1>1 DEF ChannelInv, TypeOK, TakeAnswer, Stage, peer, ghosts
<1>4. KnownIsSent'
  <2> SUFFICES ASSUME NEW q \in Requests, (q \in seen \/ Buffered(q))'
               PROVE  pc'[q] \in Sent_stages
    BY DEF KnownIsSent, Sent_stages
  <2>1. pc[q] \in Sent_stages
    BY BufferedKept DEF ChannelInv, KnownIsSent, TakeAnswer, peer
  <2> QED
    BY <1>1, <1>2, <2>1 DEF Sent_stages
<1>5. r \notin pending
  BY <1>1 DEF ChannelInv, RequestInv, SlotAgrees, Verdict
<1>6. RequestInv(r)'
  BY <1>1, <1>2, <1>5 DEF ChannelInv, TakeAnswer, RequestInv, DeadlineFirst, SlotAgrees,
    AcceptedOnce, Awaited, Addressed, Sent_stages, peer, ghosts
<1>7. \A q \in Requests \ {r} : RequestInv(q)'
  BY <1>2 DEF ChannelInv, TakeAnswer, RequestInv, DeadlineFirst, SlotAgrees, AcceptedOnce,
    Awaited, Addressed, peer, ghosts
<1> QED
  BY <1>3, <1>4, <1>6, <1>7 DEF ChannelInv

LEMMA GiveUpPreserves ==
  ASSUME ChannelInv, NEW r \in Requests, GiveUp(r)
  PROVE  ChannelInv'
<1>1. TypeOK'
  BY ChannelAssumption DEF ChannelInv, TypeOK, GiveUp, Go, Stage, peer, ghosts
<1>2. KnownIsSent'
  BY BufferedKept DEF ChannelInv, TypeOK, KnownIsSent, GiveUp, Go, Sent_stages, peer
<1>3. \A q \in Requests : RequestInv(q)'
  BY ChannelAssumption DEF ChannelInv, TypeOK, GiveUp, Go, RequestInv, DeadlineFirst,
    SlotAgrees, AcceptedOnce, Awaited, Addressed, Sent_stages, peer, ghosts, Verdict
<1> QED
  BY <1>1, <1>2, <1>3 DEF ChannelInv

LEMMA CancelPendingPreserves ==
  ASSUME ChannelInv, NEW r \in Requests, CancelPending(r)
  PROVE  ChannelInv'
<1>1. TypeOK'
  BY ChannelAssumption DEF ChannelInv, TypeOK, CancelPending, Go, Stage, peer, ghosts, Removed
<1>2. KnownIsSent'
  BY BufferedKept DEF ChannelInv, TypeOK, KnownIsSent, CancelPending, Go, Sent_stages, peer
<1>3. \A q \in Requests : RequestInv(q)'
  BY ChannelAssumption DEF ChannelInv, TypeOK, CancelPending, Go, RequestInv, DeadlineFirst,
    SlotAgrees, AcceptedOnce, Awaited, Addressed, Sent_stages, peer, ghosts, Removed
<1> QED
  BY <1>1, <1>2, <1>3 DEF ChannelInv

-------------------------------------------------------------------------------
(* The HTTP workers, the peer, its connection and the clock. *)

LEMMA CompletePostbackPreserves ==
  ASSUME ChannelInv, NEW r \in Requests, NEW verdict \in Verdict,
         CompletePostback(r, verdict)
  PROVE  ChannelInv'
<1>1. TypeOK'
  <2>1. /\ pending' \subseteq Requests /\ posted' \subseteq Requests
        /\ slot' \in [Requests -> {"empty", "dropped"} \cup Verdict]
    BY DEF ChannelInv, TypeOK, CompletePostback, Removed
  <2>2. accepted' \in [Requests -> Nat]
    BY DEF ChannelInv, TypeOK, CompletePostback
  <2> QED
    BY <2>1, <2>2 DEF ChannelInv, TypeOK, CompletePostback, peer
<1>2. KnownIsSent'
  BY BufferedKept DEF ChannelInv, TypeOK, KnownIsSent, CompletePostback, peer, Sent_stages
<1>3. /\ pc[r] \in Sent_stages /\ UNCHANGED pc
      /\ r \in pending /\ InTime(r) => pc[r] = "waiting"
  BY DEF ChannelInv, KnownIsSent, CompletePostback, RequestInv, DeadlineFirst, Awaited,
    InTime, Sent_stages
<1>4. RequestInv(r)'
  BY <1>3 DEF ChannelInv, TypeOK, CompletePostback, RequestInv, DeadlineFirst, SlotAgrees,
    AcceptedOnce, Awaited, Addressed, Removed, Verdict, Consents, Sent_stages, peer
<1>5. \A q \in Requests \ {r} : RequestInv(q)'
  BY <1>3 DEF ChannelInv, TypeOK, CompletePostback, RequestInv, DeadlineFirst, SlotAgrees,
    AcceptedOnce, Awaited, Addressed, Removed, Consents, peer
<1> QED
  BY <1>1, <1>2, <1>4, <1>5 DEF ChannelInv

\* A step of the streams alone, after which no request is found that was not.
LEMMA StreamsPreserve ==
  ASSUME ChannelInv, streams' \in StreamType, conn' \in 0..MaxStreams,
         conn # 0 => conn' # 0, seen' \subseteq Requests,
         UNCHANGED <<pc, pending, left, timer, slot, via, ghosts>>,
         \A r \in Requests : r \in seen' \/ Buffered(r)' => r \in seen \/ Buffered(r)
  PROVE  ChannelInv'
<1>1. TypeOK'
  BY DEF ChannelInv, TypeOK, StreamType, ghosts
<1>2. KnownIsSent'
  BY DEF ChannelInv, KnownIsSent
<1>3. \A q \in Requests : RequestInv(q)'
  BY DEF ChannelInv, RequestInv, DeadlineFirst, SlotAgrees, AcceptedOnce, Awaited, Addressed,
    ghosts
<1> QED
  BY <1>1, <1>2, <1>3 DEF ChannelInv

LEMMA ConnectPreserves ==
  ASSUME ChannelInv, NEW s \in StreamIds, Connect(s)
  PROVE  ChannelInv'
<1> DEFINE fresh == [open |-> TRUE, buffer |-> <<"token">>]
<1>1. /\ fresh.buffer \in Seq(Message) /\ Len(fresh.buffer) = 1 /\ fresh.buffer[1] = "token"
      /\ fresh \in [open : BOOLEAN, buffer : Seq(Message)]
  BY DEF Message
<1>2. streams \in StreamType /\ streams' = [streams EXCEPT ![s] = fresh]
  BY DEF ChannelInv, TypeOK, StreamType, Connect
<1>3. /\ streams' \in StreamType /\ streams'[s] = fresh
      /\ \A t \in StreamIds \ {s} : streams'[t] = streams[t]
  <2> HIDE DEF fresh
  <2> QED
    BY <1>1, <1>2 DEF StreamType
<1>4. \A r \in Requests : Buffered(r)' => Buffered(r)
  <2> HIDE DEF fresh
  <2> QED
    BY <1>1, <1>3, ChannelAssumption DEF Buffered
<1> QED
  BY <1>3, <1>4, StreamsPreserve, ChannelAssumption DEF Connect, StreamIds, ChannelInv, TypeOK

LEMMA PushTokenPreserves ==
  ASSUME ChannelInv, PushToken
  PROVE  ChannelInv'
<1>1. /\ streams \in StreamType /\ conn \in StreamIds /\ "token" \in Message
      /\ streams' = Sent(conn, "token")
  BY ChannelAssumption DEF ChannelInv, TypeOK, PushToken, StreamType, StreamIds, Message
<1>2. streams' \in StreamType
  BY <1>1, SentKeeps
<1>3. \A r \in Requests : Buffered(r)' => Buffered(r)
  BY <1>1, SentKeeps, ChannelAssumption DEF Buffered
<1> QED
  BY <1>2, <1>3, StreamsPreserve DEF PushToken, ChannelInv, TypeOK

LEMMA ReadPreserves ==
  ASSUME ChannelInv, NEW s \in StreamIds, Read(s)
  PROVE  ChannelInv'
<1> DEFINE old == streams[s].buffer
<1>1. streams \in StreamType /\ old \in Seq(Message) /\ old # <<>>
  BY DEF ChannelInv, TypeOK, StreamType, Read
<1>2. /\ Tail(old) \in Seq(Message) /\ Len(Tail(old)) = Len(old) - 1
      /\ \A i \in 1..Len(Tail(old)) : Tail(old)[i] = old[i + 1]
  BY <1>1, HeadTailProperties
<1>3. /\ Len(old) \in Nat \ {0} /\ Head(old) = old[1]
      /\ \A i \in 1..Len(Tail(old)) : i + 1 \in 1..Len(old)
  BY <1>1, <1>2, LenProperties, EmptySeq
<1>4. streams' = [streams EXCEPT ![s].buffer = Tail(old)]
  BY DEF Read
<1>5. /\ streams' \in StreamType /\ streams'[s].buffer = Tail(old)
      /\ \A t \in StreamIds \ {s} : streams'[t] = streams[t]
  BY <1>1, <1>2, <1>4 DEF StreamType
<1>6. ASSUME NEW r \in Requests, Buffered(r)'
      PROVE  Buffered(r)
  <2>1. PICK t \in StreamIds : \E i \in 1..Len(streams'[t].buffer) : streams'[t].buffer[i] = r
    BY <1>6 DEF Buffered
  <2>2. CASE t = s
    BY <2>1, <2>2, <1>2, <1>3, <1>5 DEF Buffered
  <2>3. CASE t # s
    BY <2>1, <2>3, <1>5 DEF Buffered
  <2> QED
    BY <2>2, <2>3
<1>7. seen' \subseteq Requests /\ seen' \subseteq seen \cup {old[1]}
  BY <1>3 DEF Read, ChannelInv, TypeOK
<1>8. ASSUME NEW r \in Requests, r \in seen'
      PROVE  r \in seen \/ Buffered(r)
  <2>1. 1 \in 1..Len(old)
    BY <1>3
  <2> QED
    BY <1>7, <1>8, <2>1 DEF Buffered
<1> QED
  BY <1>5, <1>6, <1>7, <1>8, StreamsPreserve DEF Read, ChannelInv, TypeOK

LEMMA DisconnectPreserves ==
  ASSUME ChannelInv, NEW s \in StreamIds, Disconnect(s)
  PROVE  ChannelInv'
<1>1. streams \in StreamType
  BY DEF ChannelInv, TypeOK, StreamType
<1>2. /\ streams' \in StreamType /\ streams'[s].buffer = <<>>
      /\ \A t \in StreamIds \ {s} : streams'[t] = streams[t]
  BY <1>1 DEF Disconnect, StreamType
<1>3. \A r \in Requests : Buffered(r)' => Buffered(r)
  BY <1>2 DEF Buffered
<1> QED
  BY <1>2, <1>3, StreamsPreserve DEF Disconnect, ChannelInv, TypeOK

LEMMA TickPreserves ==
  ASSUME ChannelInv, Tick
  PROVE  ChannelInv'
<1>1. TypeOK'
  BY ChannelAssumption DEF ChannelInv, TypeOK, Tick, Less, peer, ghosts
<1>2. KnownIsSent'
  BY BufferedKept DEF ChannelInv, KnownIsSent, Tick, peer
<1>3. \A q \in Requests : RequestInv(q)'
  BY ChannelAssumption DEF ChannelInv, TypeOK, Tick, Less, RequestInv, DeadlineFirst,
    SlotAgrees, AcceptedOnce, Awaited, Addressed, peer, ghosts
<1> QED
  BY <1>1, <1>2, <1>3 DEF ChannelInv

-------------------------------------------------------------------------------
(* The invariant. *)

LEMMA ChannelStarts == Init => ChannelInv
<1> SUFFICES ASSUME Init
             PROVE  ChannelInv
  OBVIOUS
<1>1. TypeOK
  BY ChannelAssumption DEF Init, TypeOK, Stage
<1>2. KnownIsSent
  BY DEF Init, KnownIsSent, Buffered
<1>3. \A r \in Requests : RequestInv(r)
  <2> SUFFICES ASSUME NEW r \in Requests
               PROVE  RequestInv(r)
    OBVIOUS
  <2>1. /\ pc[r] = "idle" /\ slot[r] = "empty" /\ accepted[r] = 0 /\ r \notin pending
    BY DEF Init
  <2>2. slot[r] \notin Verdict
    BY <2>1 DEF Verdict
  <2> QED
    BY <2>1, <2>2 DEF RequestInv, DeadlineFirst, SlotAgrees, AcceptedOnce, Awaited, Addressed
<1> QED
  BY <1>1, <1>2, <1>3 DEF ChannelInv

LEMMA ChannelSteps == ChannelInv /\ [Next]_vars => ChannelInv'
<1> SUFFICES ASSUME ChannelInv, [Next]_vars
             PROVE  ChannelInv'
  OBVIOUS
<1>1. ASSUME NEW r \in Requests, Step(r)
      PROVE  ChannelInv'
  BY <1>1, DenyPreserves, RegisterPendingPreserves, CheckConnectedPreserves,
    CloneSenderPreserves, PushAndWaitPreserves, TakeAnswerPreserves, GiveUpPreserves,
    CancelPendingPreserves DEF Step
<1>2. ASSUME NEW r \in Requests, NEW verdict \in Verdict, CompletePostback(r, verdict)
      PROVE  ChannelInv'
  BY <1>2, CompletePostbackPreserves
<1>3. ASSUME NEW s \in StreamIds, Connect(s) \/ Read(s) \/ Disconnect(s)
      PROVE  ChannelInv'
  BY <1>3, ConnectPreserves, ReadPreserves, DisconnectPreserves
<1>4. CASE UNCHANGED vars
  BY <1>4 DEF vars, ChannelInv, TypeOK, KnownIsSent, Buffered, RequestInv, DeadlineFirst,
    SlotAgrees, AcceptedOnce, Awaited, Addressed
<1> QED
  BY <1>1, <1>2, <1>3, <1>4, PushTokenPreserves, TickPreserves DEF Next

LEMMA ChannelAlways == Spec => []ChannelInv
<1> QED
  BY ChannelStarts, ChannelSteps, PTL DEF Spec

(* Every variable of the channel keeps its type. *)
THEOREM ChannelTypeCorrect == Spec => []TypeOK
<1>1. ChannelInv => TypeOK
  BY DEF ChannelInv
<1> QED
  BY <1>1, ChannelAlways, PTL

(* A POST-back that complete_postback reports as completed reaches its     *)
(* waiter, whatever the time to live is and however many requests wait:    *)
(* the deadline of the entry (control.rs:133-152) is never later than the  *)
(* timeout of the waiter, which starts after it.                           *)
THEOREM CompletedReachesWaiter == Spec => []AcceptedIsTaken
<1>1. ChannelInv => AcceptedIsTaken
  <2> SUFFICES ASSUME ChannelInv, NEW r \in Requests
               PROVE  /\ accepted[r] <= 1
                      /\ accepted[r] = 1 => pc[r] \in {"waiting", "answered", "rejected"}
    BY DEF AcceptedIsTaken
  <2>1. AcceptedOnce(r)
    BY DEF ChannelInv, RequestInv
  <2> QED
    BY <2>1 DEF AcceptedOnce
<1> QED
  BY <1>1, ChannelAlways, PTL

(* No pending entry outlives its request, on any path through             *)
(* request_hook_decision and execute_remote.                              *)
THEOREM NoEntryLeaks == Spec => []PendingIsAwaited
<1>1. ChannelInv => PendingIsAwaited
  BY DEF ChannelInv, TypeOK, RequestInv, Awaited, PendingIsAwaited
<1> QED
  BY <1>1, ChannelAlways, PTL

-------------------------------------------------------------------------------
(* The channel implements RemoteRequest. *)

LEMMA StepMaps ==
  ASSUME ChannelInv, NEW r \in Requests, Step(r)
  PROVE  [Abstract!Next]_(Abstract!vars)
<1> DEFINE seenAs == [q \in Requests |-> Phase(q)]
<1>1. /\ pc \in [Requests -> Stage] /\ UNCHANGED posted
      /\ \E stage \in Stage : pc' = [pc EXCEPT ![r] = stage]
  BY DEF ChannelInv, TypeOK, Step, Deny, RegisterPending, CheckConnected, CloneSender,
    PushAndWait, TakeAnswer, GiveUp, CancelPending, Go, ghosts, Stage, Outcome, Verdict
<1>2. seenAs' = [seenAs EXCEPT ![r] = Phase(r)']
  BY <1>1 DEF Phase
<1>3. CASE Deny(r)
  <2>1. Phase(r) = "idle" /\ Phase(r)' = "refused"
    BY <1>3 DEF Deny, Go, Phase, ChannelInv, TypeOK
  <2> QED
    BY <1>1, <1>2, <2>1 DEF Abstract!Next, Abstract!Refuse
<1>4. CASE RegisterPending(r)
  <2>1. Phase(r) = "idle" /\ Phase(r)' = "open"
    BY <1>4 DEF RegisterPending, Go, Phase, ChannelInv, TypeOK
  <2> QED
    BY <1>1, <1>2, <2>1 DEF Abstract!Next, Abstract!Begin
<1>5. CASE (CheckConnected(r) /\ conn = 0) \/ CancelPending(r)
  <2>1. Phase(r) = "open" /\ Phase(r)' = "refused"
    BY <1>5 DEF CheckConnected, CancelPending, Go, Phase, ChannelInv, TypeOK
  <2> QED
    BY <1>1, <1>2, <2>1 DEF Abstract!Next, Abstract!Refuse
<1>6. CASE (CheckConnected(r) /\ conn # 0) \/ CloneSender(r) \/ PushAndWait(r) \/ GiveUp(r)
  <2>1. Phase(r)' = Phase(r)
    BY <1>6 DEF CheckConnected, CloneSender, PushAndWait, GiveUp, Go, Phase, ChannelInv, TypeOK
  <2> QED
    BY <1>1, <1>2, <2>1 DEF Abstract!vars
<1>7. CASE TakeAnswer(r)
  <2>1. Phase(r) = "open" /\ slot[r] \in Verdict /\ pc'[r] = Outcome(r, slot[r])
    BY <1>7 DEF TakeAnswer, Go, Phase, ChannelInv, TypeOK
  <2>2. CASE Consents(r, slot[r])
    <3>1. r \in posted
      BY <2>1, <2>2 DEF ChannelInv, RequestInv, SlotAgrees
    <3>2. Phase(r)' = "granted"
      BY <2>1, <2>2 DEF Outcome, Consents, Verdict, Phase
    <3> QED
      BY <1>1, <1>2, <2>1, <3>1, <3>2 DEF Abstract!Next, Abstract!Grant
  <2>3. CASE ~Consents(r, slot[r])
    <3>1. Phase(r)' = "refused"
      BY <2>1, <2>3 DEF Outcome, Consents, Verdict, Phase
    <3> QED
      BY <1>1, <1>2, <2>1, <3>1 DEF Abstract!Next, Abstract!Refuse
  <2> QED
    BY <2>2, <2>3
<1> QED
  BY <1>3, <1>4, <1>5, <1>6, <1>7 DEF Step

LEMMA CompletePostbackMaps ==
  ASSUME ChannelInv, NEW r \in Requests, NEW verdict \in Verdict,
         CompletePostback(r, verdict)
  PROVE  [Abstract!Next]_(Abstract!vars)
<1>1. Phase(r) # "idle"
  BY DEF ChannelInv, KnownIsSent, CompletePostback, Sent_stages, Phase
<1>2. [q \in Requests |-> Phase(q)]' = [q \in Requests |-> Phase(q)]
  BY DEF CompletePostback, Phase
<1>3. posted' = posted \/ posted' = posted \cup {r}
  BY DEF CompletePostback
<1> QED
  BY <1>1, <1>2, <1>3 DEF Abstract!Next, Abstract!Offer, Abstract!vars

LEMMA OthersMap ==
  ASSUME UNCHANGED <<pc, posted>>
  PROVE  UNCHANGED Abstract!vars
BY DEF Abstract!vars, Phase

(* The channel implements the safety part of RemoteRequest for any peer: a *)
(* request is settled once, and granted only when a POST-back consented    *)
(* (its liveness, that no request hangs, is checked by the run).           *)
THEOREM ChannelRefines == Spec => Abstract!Init /\ [][Abstract!Next]_(Abstract!vars)
<1>1. Init => Abstract!Init
  BY DEF Init, Abstract!Init, Phase
<1>2. ChannelInv /\ [Next]_vars => [Abstract!Next]_(Abstract!vars)
  <2> SUFFICES ASSUME ChannelInv, [Next]_vars
               PROVE  [Abstract!Next]_(Abstract!vars)
    OBVIOUS
  <2>1. ASSUME NEW s \in StreamIds, Connect(s) \/ Read(s) \/ Disconnect(s)
        PROVE  UNCHANGED <<pc, posted>>
    BY <2>1 DEF Connect, Read, Disconnect, ghosts
  <2>2. CASE PushToken \/ Tick \/ UNCHANGED vars
    BY <2>2, OthersMap DEF PushToken, Tick, vars, ghosts
  <2> QED
    BY <2>1, <2>2, StepMaps, CompletePostbackMaps, OthersMap DEF Next
<1> QED
  BY <1>1, <1>2, ChannelAlways, PTL DEF Spec

-------------------------------------------------------------------------------
(* ToolRouter. *)

\* A server that a tool is mapped to has offered it.
ServersOffered == \A t \in Tools : server[t] # None => t \in offered[server[t]]

\* A call that is under way has a tool, and none has a server or a
\* destination before it was resolved.
CallsResolved ==
  \A c \in Calls :
    /\ call[c].pc # "new" => call[c].tool \in Tools
    /\ call[c].pc \in {"new", "called"} => call[c].dest = None /\ call[c].at = None

RouterInv == RouterTypeOK /\ ServersOffered /\ CallsResolved /\ RoutedToOwner /\ OwnersCanServe

-------------------------------------------------------------------------------
(* Ownership. *)

\* The accepted part of a list was free for its side.
LEMMA AcceptedFree ==
  ASSUME NEW list \in Lists, NEW side
  PROVE  /\ Accepted(list, side) \subseteq Tools
         /\ \A t \in Accepted(list, side) : Free(t, side)
         /\ Accepted(list, side) \subseteq {list[i] : i \in DOMAIN list}
<1>1. list \in Seq(Tools)
  BY RouterAssumption
<1>2. \A i \in DOMAIN list : list[i] \in Tools /\ i \in 1..i
  BY <1>1
<1> QED
  BY <1>2 DEF Accepted

\* A call leaves the registry and the maps alone.
LEMMA CallsChangeNoMap ==
  ASSUME NEW c \in Calls,
         \/ \E t \in Tools, route \in {"loop", "http"} : Call(c, t, route)
         \/ Resolve(c) \/ ExecuteLocal(c) \/ ExecuteRemote(c)
         \/ LookUpServer(c) \/ LookUpTransport(c) \/ McpAnswers(c)
  PROVE  UNCHANGED registry
BY DEF Call, Resolve, ExecuteLocal, ExecuteRemote, LookUpServer, LookUpTransport, McpAnswers, GoTo

\* No step takes a tool from the side that owns it.
LEMMA OwnerKept ==
  ASSUME [RouterNext]_routerVars
  PROVE  \A t \in Tools : owner[t] # None => owner'[t] = owner[t]
<1>1. ASSUME NEW T \in SUBSET Tools, NEW side, Own(T, side), \A t \in T : Free(t, side)
      PROVE  \A t \in Tools : owner[t] # None => owner'[t] = owner[t]
  BY <1>1 DEF Own, Free
<1>2. CASE UNCHANGED routerVars
  BY <1>2 DEF routerVars, registry
<1>3. ASSUME NEW t \in Tools, RegisterLocalTool(t)
      PROVE  \A u \in Tools : owner[u] # None => owner'[u] = owner[u]
  BY <1>1, <1>3 DEF RegisterLocalTool
<1>4. ASSUME NEW t \in Tools, InsertHandler(t)
      PROVE  UNCHANGED owner
  BY <1>4 DEF InsertHandler
<1>5. ASSUME NEW list \in Lists, RegisterClientTools(list)
      PROVE  \A u \in Tools : owner[u] # None => owner'[u] = owner[u]
  BY <1>1, <1>5, AcceptedFree DEF RegisterClientTools
<1>6. ASSUME NEW s \in Servers, InsertServer(s)
      PROVE  UNCHANGED owner
  BY <1>6 DEF InsertServer
<1>7. ASSUME NEW s \in Servers, NEW list \in Lists, ConnectMcpServer(s, list)
      PROVE  \A u \in Tools : owner[u] # None => owner'[u] = owner[u]
  BY <1>1, <1>7, AcceptedFree DEF ConnectMcpServer
<1> QED
  BY <1>2, <1>3, <1>4, <1>5, <1>6, <1>7, CallsChangeNoMap DEF RouterNext, registry

\* A tool is locked to one side for good (registry.rs:83-101).
THEOREM OwnershipIsFinal == RouterSpec => OwnerFixed
<1>1. [RouterNext]_routerVars => [\A t \in Tools : owner[t] # None => owner'[t] = owner[t]]_routerVars
  BY OwnerKept
<1> QED
  BY <1>1, PTL DEF RouterSpec, OwnerFixed

-------------------------------------------------------------------------------
(* The invariant: the steps of registration. *)

\* What registration owes to the calls: owners and offers of the past hold.
LEMMA RegistrationKeepsCalls ==
  ASSUME RouterInv, UNCHANGED call,
         \A t \in Tools : owner[t] # None => owner'[t] = owner[t],
         \A s \in Servers : offered[s] \subseteq offered'[s]
  PROVE  CallsResolved' /\ RoutedToOwner'
<1>1. CallsResolved'
  BY DEF RouterInv, CallsResolved
<1>2. ASSUME NEW c \in Calls, call[c].dest # None
      PROVE  /\ call[c].dest = owner'[call[c].tool]
             /\ call[c].tool \in Allowed[call[c].dest]
             /\ call[c].via = "http" => call[c].dest # "remote"
             /\ call[c].at # None => call[c].tool \in offered'[call[c].at]
  <2>1. /\ call[c].dest = owner[call[c].tool]
        /\ call[c].tool \in Allowed[call[c].dest]
        /\ call[c].via = "http" => call[c].dest # "remote"
        /\ call[c].at # None => call[c].tool \in offered[call[c].at]
    BY <1>2 DEF RouterInv, RoutedToOwner
  <2>2. call[c].pc \notin {"new", "called"} /\ call[c].tool \in Tools
    BY <1>2 DEF RouterInv, CallsResolved
  <2>3. call[c].at \in Servers \cup {None}
    BY DEF RouterInv, RouterTypeOK
  <2> QED
    BY <1>2, <2>1, <2>2, <2>3
<1> QED
  BY <1>1, <1>2 DEF RoutedToOwner

LEMMA RegisterLocalToolInv ==
  ASSUME RouterInv, NEW t \in Tools, RegisterLocalTool(t)
  PROVE  RouterInv'
<1>1. RouterTypeOK'
  BY RouterAssumption DEF RouterInv, RouterTypeOK, RegisterLocalTool, Own, Free, Destinations
<1>2. ServersOffered'
  BY DEF RouterInv, ServersOffered, RegisterLocalTool
<1>3. OwnersCanServe'
  BY DEF RouterInv, RouterTypeOK, OwnersCanServe, RegisterLocalTool, Own, Free
<1>4. CallsResolved' /\ RoutedToOwner'
  BY RegistrationKeepsCalls DEF RegisterLocalTool, Own, Free, RouterInv, RouterTypeOK
<1> QED
  BY <1>1, <1>2, <1>3, <1>4 DEF RouterInv

LEMMA InsertHandlerInv ==
  ASSUME RouterInv, NEW t \in Tools, InsertHandler(t)
  PROVE  RouterInv'
<1>1. RouterTypeOK'
  BY DEF RouterInv, RouterTypeOK, InsertHandler
<1>2. ServersOffered' /\ OwnersCanServe'
  BY DEF RouterInv, ServersOffered, OwnersCanServe, InsertHandler
<1>3. CallsResolved' /\ RoutedToOwner'
  BY RegistrationKeepsCalls DEF InsertHandler
<1> QED
  BY <1>1, <1>2, <1>3 DEF RouterInv

LEMMA RegisterClientToolsInv ==
  ASSUME RouterInv, NEW list \in Lists, RegisterClientTools(list)
  PROVE  RouterInv'
<1>0. \A t \in Accepted(list, "remote") : t \in Tools /\ owner[t] \in {None, "remote"}
  BY AcceptedFree DEF Free
<1>1. RouterTypeOK'
  BY <1>0, RouterAssumption DEF RouterInv, RouterTypeOK, RegisterClientTools, Own, Destinations
<1>2. ServersOffered'
  BY DEF RouterInv, ServersOffered, RegisterClientTools
<1>3. OwnersCanServe'
  BY DEF RouterInv, RouterTypeOK, OwnersCanServe, RegisterClientTools, Own
<1>4. CallsResolved' /\ RoutedToOwner'
  BY <1>0, RegistrationKeepsCalls DEF RegisterClientTools, Own, RouterInv, RouterTypeOK
<1> QED
  BY <1>1, <1>2, <1>3, <1>4 DEF RouterInv

LEMMA ConnectMcpServerInv ==
  ASSUME RouterInv, NEW s \in Servers, NEW list \in Lists, ConnectMcpServer(s, list)
  PROVE  RouterInv'
<1>0. /\ \A t \in Accepted(list, "mcp") : t \in Tools /\ owner[t] \in {None, "mcp"}
      /\ Accepted(list, "mcp") \subseteq {list[i] : i \in DOMAIN list}
  BY AcceptedFree DEF Free
<1>1. {list[i] : i \in DOMAIN list} \subseteq Tools
  BY RouterAssumption
<1> DEFINE new == {list[i] : i \in DOMAIN list}
           taken == Accepted(list, "mcp")
<1>2. /\ owner' = [t \in Tools |-> IF t \in taken THEN "mcp" ELSE owner[t]]
      /\ server' = [t \in Tools |-> IF t \in taken THEN s ELSE server[t]]
      /\ offered' = [offered EXCEPT ![s] = @ \cup new]
      /\ joining' \in SUBSET (joining \cup {s}) /\ joining \subseteq joining'
      /\ refused' \in SUBSET (refused \cup {s}) /\ refused \subseteq refused'
      /\ s \in joining' \cup refused'
      /\ UNCHANGED <<handlers, connected, adding, call>>
  BY DEF ConnectMcpServer, Own
<1>3. new \subseteq Tools /\ taken \subseteq new /\ \A t \in taken : owner[t] \in {None, "mcp"}
  BY <1>0, <1>1
<1> HIDE DEF new, taken
<1>4. RouterTypeOK'
  <2>1. owner' \in [Tools -> Destinations \cup {None}] /\ server' \in [Tools -> Servers \cup {None}]
    BY <1>2 DEF RouterInv, RouterTypeOK, Destinations
  <2>2. \A t \in Tools : server'[t] # None <=> owner'[t] = "mcp"
    BY <1>2, RouterAssumption DEF RouterInv, RouterTypeOK
  <2>3. offered' \in [Servers -> SUBSET Tools]
    BY <1>2, <1>3 DEF RouterInv, RouterTypeOK
  <2> QED
    BY <1>2, <2>1, <2>2, <2>3 DEF RouterInv, RouterTypeOK
<1>5. ServersOffered'
  BY <1>2, <1>3 DEF RouterInv, RouterTypeOK, ServersOffered
<1>6. OwnersCanServe'
  BY <1>2, <1>3 DEF RouterInv, RouterTypeOK, OwnersCanServe
<1>7. CallsResolved' /\ RoutedToOwner'
  BY <1>2, <1>3, RegistrationKeepsCalls DEF RouterInv, RouterTypeOK
<1> QED
  BY <1>4, <1>5, <1>6, <1>7 DEF RouterInv

LEMMA InsertServerInv ==
  ASSUME RouterInv, NEW s \in Servers, InsertServer(s)
  PROVE  RouterInv'
<1>1. RouterTypeOK'
  BY DEF RouterInv, RouterTypeOK, InsertServer
<1>2. ServersOffered' /\ OwnersCanServe'
  BY DEF RouterInv, ServersOffered, OwnersCanServe, InsertServer
<1>3. CallsResolved' /\ RoutedToOwner'
  BY RegistrationKeepsCalls DEF InsertServer
<1> QED
  BY <1>1, <1>2, <1>3 DEF RouterInv

-------------------------------------------------------------------------------
(* The invariant: the steps of a call. *)

\* A step of a call that leaves its routing alone, or decides it as the
\* maps now stand, keeps the invariant.
LEMMA CallStepKeeps ==
  ASSUME RouterInv, UNCHANGED registry, NEW c \in Calls, NEW r,
         call' = [call EXCEPT ![c] = r],
         r \in [pc : CallStage, tool : Tools \cup {None}, via : {"loop", "http"},
                dest : Destinations \cup {None}, at : Servers \cup {None}],
         r.pc # "new" => r.tool \in Tools,
         r.pc \in {"new", "called"} => r.dest = None /\ r.at = None,
         r.dest # None =>
           /\ r.dest = owner[r.tool]
           /\ r.tool \in Allowed[r.dest]
           /\ r.via = "http" => r.dest # "remote"
           /\ r.at # None => r.tool \in offered[r.at]
  PROVE  RouterInv'
<1>1. call \in [Calls -> [pc : CallStage, tool : Tools \cup {None}, via : {"loop", "http"},
                          dest : Destinations \cup {None}, at : Servers \cup {None}]]
  BY DEF RouterInv, RouterTypeOK
<1>2. \A d \in Calls : call'[d] = IF d = c THEN r ELSE call[d]
  BY <1>1
<1>3. RouterTypeOK'
  BY <1>1, <1>2 DEF RouterInv, RouterTypeOK, registry
<1>4. ServersOffered' /\ OwnersCanServe'
  BY DEF RouterInv, ServersOffered, OwnersCanServe, registry
<1>5. CallsResolved'
  BY <1>2 DEF RouterInv, CallsResolved
<1>6. RoutedToOwner'
  BY <1>2 DEF RouterInv, RoutedToOwner, registry
<1> QED
  BY <1>3, <1>4, <1>5, <1>6 DEF RouterInv

\* The record of a call: its type and what the invariant says of it.
LEMMA CallRecord ==
  ASSUME RouterInv, NEW c \in Calls
  PROVE  /\ call[c] \in [pc : CallStage, tool : Tools \cup {None}, via : {"loop", "http"},
                         dest : Destinations \cup {None}, at : Servers \cup {None}]
         /\ call[c].pc # "new" => call[c].tool \in Tools
         /\ call[c].pc \in {"new", "called"} => call[c].dest = None /\ call[c].at = None
         /\ call[c].dest # None =>
              /\ call[c].dest = owner[call[c].tool]
              /\ call[c].tool \in Allowed[call[c].dest]
              /\ call[c].via = "http" => call[c].dest # "remote"
              /\ call[c].at # None => call[c].tool \in offered[call[c].at]
<1>1. call \in [Calls -> [pc : CallStage, tool : Tools \cup {None}, via : {"loop", "http"},
                          dest : Destinations \cup {None}, at : Servers \cup {None}]]
  BY DEF RouterInv, RouterTypeOK
<1> QED
  BY <1>1 DEF RouterInv, CallsResolved, RoutedToOwner

\* Most steps of a call only move it on.
LEMMA GoKeeps ==
  ASSUME RouterInv, NEW c \in Calls, call[c].pc # "new",
         NEW stage \in CallStage \ {"new", "called"}, GoTo(c, stage)
  PROVE  RouterInv'
<1> DEFINE r == [call[c] EXCEPT !.pc = stage]
<1>1. UNCHANGED registry /\ call' = [call EXCEPT ![c] = r]
  BY DEF GoTo
<1>2. /\ r \in [pc : CallStage, tool : Tools \cup {None}, via : {"loop", "http"},
                dest : Destinations \cup {None}, at : Servers \cup {None}]
      /\ r.pc = stage /\ r.tool = call[c].tool /\ r.via = call[c].via
      /\ r.dest = call[c].dest /\ r.at = call[c].at
  BY CallRecord
<1> HIDE DEF r
<1> QED
  BY <1>1, <1>2, CallRecord, CallStepKeeps

LEMMA CallInv ==
  ASSUME RouterInv, NEW c \in Calls, NEW t \in Tools, NEW route \in {"loop", "http"}, Call(c, t, route)
  PROVE  RouterInv'
<1> DEFINE r == [call[c] EXCEPT !.pc = "called", !.tool = t, !.via = route]
<1>1. UNCHANGED registry /\ call' = [call EXCEPT ![c] = r] /\ call[c].pc = "new"
  BY DEF Call
<1>2. /\ r \in [pc : CallStage, tool : Tools \cup {None}, via : {"loop", "http"},
                dest : Destinations \cup {None}, at : Servers \cup {None}]
      /\ r.pc = "called" /\ r.tool = t /\ r.dest = None /\ r.at = None
  BY <1>1, CallRecord DEF CallStage
<1> HIDE DEF r
<1> QED
  BY <1>1, <1>2, CallStepKeeps

LEMMA ResolveInv ==
  ASSUME RouterInv, NEW c \in Calls, Resolve(c)
  PROVE  RouterInv'
<1> DEFINE dest == owner[call[c].tool]
           r == [call[c] EXCEPT !.pc = "found", !.dest = dest]
<1>1. call[c].pc = "called" /\ call[c].tool \in Tools /\ call[c].at = None
  BY CallRecord DEF Resolve
<1>2. CASE Denies(c, dest)
  <2>1. GoTo(c, "denied")
    BY <1>2 DEF Resolve
  <2> QED
    BY <1>1, <2>1, GoKeeps DEF CallStage
<1>3. CASE ~Denies(c, dest)
  <2>1. /\ UNCHANGED registry /\ call' = [call EXCEPT ![c] = r]
    BY <1>3 DEF Resolve
  <2>2. /\ dest \in Destinations /\ call[c].tool \in Allowed[dest]
        /\ call[c].via = "http" => dest # "remote"
    BY <1>1, <1>3 DEF Denies, RouterInv, RouterTypeOK
  <2>3. /\ r \in [pc : CallStage, tool : Tools \cup {None}, via : {"loop", "http"},
                  dest : Destinations \cup {None}, at : Servers \cup {None}]
        /\ r.pc = "found" /\ r.tool = call[c].tool /\ r.via = call[c].via
        /\ r.dest = dest /\ r.at = None
    BY <1>1, <2>2, CallRecord DEF CallStage
  <2> HIDE DEF r
  <2> QED
    BY <1>1, <2>1, <2>2, <2>3, CallStepKeeps
<1> QED
  BY <1>2, <1>3

LEMMA LookUpServerInv ==
  ASSUME RouterInv, NEW c \in Calls, LookUpServer(c)
  PROVE  RouterInv'
<1> DEFINE at == server[call[c].tool]
           r == [call[c] EXCEPT !.pc = "lookup", !.at = at]
<1>1. call[c].pc = "found" /\ call[c].tool \in Tools
  BY CallRecord DEF LookUpServer
<1>2. CASE at = None
  <2>1. GoTo(c, "failed")
    BY <1>2 DEF LookUpServer
  <2> QED
    BY <1>1, <2>1, GoKeeps DEF CallStage
<1>3. CASE at # None
  <2>1. UNCHANGED registry /\ call' = [call EXCEPT ![c] = r]
    BY <1>3 DEF LookUpServer
  <2>2. at \in Servers /\ call[c].tool \in offered[at]
    BY <1>1, <1>3 DEF RouterInv, RouterTypeOK, ServersOffered
  <2>3. /\ r \in [pc : CallStage, tool : Tools \cup {None}, via : {"loop", "http"},
                  dest : Destinations \cup {None}, at : Servers \cup {None}]
        /\ r.pc = "lookup" /\ r.tool = call[c].tool /\ r.via = call[c].via
        /\ r.dest = call[c].dest /\ r.at = at
    BY <2>2, CallRecord DEF CallStage
  <2> HIDE DEF r
  <2> QED
    BY <1>1, <2>1, <2>2, <2>3, CallRecord, CallStepKeeps
<1> QED
  BY <1>2, <1>3

\* The steps that end a call or send it to its server.
LEMMA DeliveryInv ==
  ASSUME RouterInv, NEW c \in Calls,
         ExecuteLocal(c) \/ ExecuteRemote(c) \/ LookUpTransport(c) \/ McpAnswers(c)
  PROVE  RouterInv'
<1>1. \E stage \in {"sent", "done", "denied", "failed"} : GoTo(c, stage)
  BY DEF ExecuteLocal, ExecuteRemote, LookUpTransport, McpAnswers
<1>2. call[c].pc \in {"found", "lookup", "sent"}
  BY DEF ExecuteLocal, ExecuteRemote, LookUpTransport, McpAnswers
<1> QED
  BY <1>1, <1>2, GoKeeps DEF CallStage

-------------------------------------------------------------------------------
(* The theorems. *)

LEMMA RouterStarts == RouterInit => RouterInv
  BY RouterAssumption DEF RouterInit, RouterInv, RouterTypeOK, ServersOffered, CallsResolved, RoutedToOwner,
     OwnersCanServe, CallStage, Destinations

LEMMA RouterStep ==
  ASSUME RouterInv, [RouterNext]_routerVars
  PROVE  RouterInv'
<1>1. CASE UNCHANGED routerVars
  BY <1>1 DEF routerVars, registry, RouterInv, RouterTypeOK, ServersOffered, CallsResolved, RoutedToOwner,
     OwnersCanServe
<1>2. CASE \E t \in Tools : RegisterLocalTool(t) \/ InsertHandler(t)
  BY <1>2, RegisterLocalToolInv, InsertHandlerInv
<1>3. CASE \E list \in Lists : RegisterClientTools(list)
  BY <1>3, RegisterClientToolsInv
<1>4. CASE \E s \in Servers : InsertServer(s) \/ \E list \in Lists : ConnectMcpServer(s, list)
  BY <1>4, InsertServerInv, ConnectMcpServerInv
<1>5. ASSUME NEW c \in Calls,
             \/ \E t \in Tools, route \in {"loop", "http"} : Call(c, t, route)
             \/ Resolve(c) \/ ExecuteLocal(c) \/ ExecuteRemote(c)
             \/ LookUpServer(c) \/ LookUpTransport(c) \/ McpAnswers(c)
      PROVE  RouterInv'
  BY <1>5, CallInv, ResolveInv, LookUpServerInv, DeliveryInv
<1> QED
  BY <1>1, <1>2, <1>3, <1>4, <1>5 DEF RouterNext

LEMMA RouterIsSound == RouterSpec => []RouterInv
<1> QED
  BY RouterStarts, RouterStep, PTL DEF RouterSpec

\* The maps of the router keep their types and agree on the MCP tools.
THEOREM RouterTypeCorrect == RouterSpec => []RouterTypeOK
<1>1. RouterInv => RouterTypeOK
  BY DEF RouterInv
<1> QED
  BY <1>1, RouterIsSound, PTL

\* However registrations fall between its lookups, a call gets only to the
\* side that owns its tool, allowed by the gate, and to a server that offered it.
THEOREM CallsReachTheOwner == RouterSpec => []RoutedToOwner
<1>1. RouterInv => RoutedToOwner
  BY DEF RouterInv
<1> QED
  BY <1>1, RouterIsSound, PTL

\* A tool with an owner can be executed, but for a registration between its
\* two sections and what a collision left behind.
THEOREM OwnersServe == RouterSpec => []OwnersCanServe
<1>1. RouterInv => OwnersCanServe
  BY DEF RouterInv
<1> QED
  BY <1>1, RouterIsSound, PTL
===============================================================================
