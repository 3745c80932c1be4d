------------------------------- MODULE LogStream -------------------------------
(***************************************************************************)
(* A logger of antikythera-log: the buffer, whose entries are numbered     *)
(* under one mutex and kept under another, and the subscribers, to whose   *)
(* bounded channels a logging thread sends its entry while it holds the    *)
(* mutex of their list.  The send blocks while the channel is full.        *)
(*                                                                         *)
(* Abstracted: texts, levels and filters.  An entry is named by its number *)
(* in the buffer; the copy a subscriber gets is made before the number is, *)
(* and says 0.  crossbeam_channel is external.                             *)
(***************************************************************************)
EXTENDS Naturals, FiniteSets, SequencesExt

CONSTANTS
  Loggers,       \* threads that log through the same logger
  Subscribers,
  Capacity,      \* of the buffer, 10000 by default
  Depth,         \* of a channel, 1000 in the code
  MaxEntries,    \* bound: entries that are logged
  MaxClears,     \* bound: calls of clear
  Nobody         \* holds a mutex

ASSUME LogAssumption ==
  /\ IsFiniteSet(Loggers) /\ Nobody \notin Loggers
  /\ Capacity \in Nat /\ Depth \in Nat \ {0}
  /\ MaxEntries \in Nat /\ MaxClears \in Nat

VARIABLES
  entries,     \* of the buffer: their numbers
  sequence,
  numbering,   \* who holds the mutex of sequence
  clears,
  subscribers, \* the list of senders
  notifying,   \* who holds its mutex
  log,         \* each logger: pc, its entry, the next index, those that failed
  receiver,    \* of each subscriber: "none", "live", "dropped"
  channel

bufferVars == <<entries, sequence, numbering, clears>>
streamVars == <<subscribers, notifying, receiver, channel>>
logVars == <<bufferVars, streamVars, log>>

Quiet == [pc |-> "idle", entry |-> 0, next |-> 1, failed |-> <<>>]

LogInit ==
  /\ entries = <<>> /\ sequence = 0 /\ numbering = Nobody /\ clears = 0
  /\ subscribers = <<>> /\ notifying = Nobody
  /\ log = [t \in Loggers |-> Quiet]
  /\ receiver = [s \in Subscribers |-> "none"]
  /\ channel = [s \in Subscribers |-> <<>>]

-------------------------------------------------------------------------------
(* LogBuffer *)

(* Mutant of TakeNumber: the mutex is released before the entry is kept.   *)
TakeNumberOnly(t) ==
  /\ log[t].pc = "idle" /\ numbering = Nobody /\ sequence < MaxEntries
  /\ sequence' = sequence + 1
  /\ log' = [log EXCEPT ![t].pc = "numbered", ![t].entry = sequence']
  /\ UNCHANGED <<entries, numbering, clears, streamVars>>

\* push: the number is taken, and its mutex is held until the entry is kept.
TakeNumber(t) ==
  /\ log[t].pc = "idle" /\ numbering = Nobody /\ sequence < MaxEntries
  /\ numbering' = t
  /\ sequence' = sequence + 1
  /\ log' = [log EXCEPT ![t].pc = "numbered", ![t].entry = sequence']
  /\ UNCHANGED <<entries, clears, streamVars>>

Trimmed(kept) ==
  IF Len(kept) > Capacity THEN SubSeq(kept, Len(kept) - Capacity + 1, Len(kept)) ELSE kept

Keep(t) ==
  /\ log[t].pc = "numbered"
  /\ entries' = Trimmed(Append(entries, log[t].entry))
  /\ numbering' = Nobody
  /\ log' = [log EXCEPT ![t].pc = "pushed"]
  /\ UNCHANGED <<sequence, clears, streamVars>>

\* The number goes on from where it is.
Clear ==
  /\ clears < MaxClears
  /\ clears' = clears + 1
  /\ entries' = <<>>
  /\ UNCHANGED <<sequence, numbering, streamVars, log>>

-------------------------------------------------------------------------------
(* Subscribers *)

Subscribe(s) ==
  /\ receiver[s] = "none" /\ notifying = Nobody
  /\ receiver' = [receiver EXCEPT ![s] = "live"]
  /\ subscribers' = Append(subscribers, s)
  /\ UNCHANGED <<bufferVars, notifying, channel, log>>

Receive(s) ==
  /\ receiver[s] = "live" /\ channel[s] # <<>>
  /\ channel' = [channel EXCEPT ![s] = Tail(@)]
  /\ UNCHANGED <<bufferVars, subscribers, notifying, receiver, log>>

\* Its sender stays in the list until the next entry is sent.
DropSubscriber(s) ==
  /\ receiver[s] = "live"
  /\ receiver' = [receiver EXCEPT ![s] = "dropped"]
  /\ channel' = [channel EXCEPT ![s] = <<>>]
  /\ UNCHANGED <<bufferVars, subscribers, notifying, log>>

\* notify_subscribers takes the mutex of the list for the whole round.
StartRound(t) ==
  /\ log[t].pc = "pushed" /\ notifying = Nobody
  /\ notifying' = t
  /\ log' = [log EXCEPT ![t].pc = "sending"]
  /\ UNCHANGED <<bufferVars, subscribers, receiver, channel>>

(* Mutant of Send: a dropped receiver does not wake the sender.            *)
SendStuck(t) ==
  LET i == log[t].next
      s == subscribers[i]
  IN
  /\ log[t].pc = "sending" /\ i <= Len(subscribers)
  /\ receiver[s] = "live" /\ Len(channel[s]) < Depth
  /\ channel' = [channel EXCEPT ![s] = Append(@, log[t].entry)]
  /\ log' = [log EXCEPT ![t].next = i + 1]
  /\ UNCHANGED <<bufferVars, subscribers, notifying, receiver>>

\* One send: it fails when the receiver is gone, and blocks while the channel
\* is full.
Send(t) ==
  LET i == log[t].next
      s == subscribers[i]
  IN
  /\ log[t].pc = "sending" /\ i <= Len(subscribers)
  /\ \/ /\ receiver[s] = "live" /\ Len(channel[s]) < Depth
        /\ channel' = [channel EXCEPT ![s] = Append(@, log[t].entry)]
        /\ log' = [log EXCEPT ![t].next = i + 1]
     \/ /\ receiver[s] = "dropped"
        /\ log' = [log EXCEPT ![t].next = i + 1, ![t].failed = Append(@, i)]
        /\ UNCHANGED channel
  /\ UNCHANGED <<bufferVars, subscribers, notifying, receiver>>

SentToAll(t) == log[t].pc = "sending" /\ log[t].next > Len(subscribers)

(* Mutant of RemoveFailed: the indexes are removed in ascending order.     *)
RemoveAscending(t) ==
  LET i == Head(log[t].failed) IN
  /\ SentToAll(t) /\ log[t].failed # <<>>
  /\ subscribers' = IF i <= Len(subscribers) THEN RemoveAt(subscribers, i) ELSE subscribers
  /\ log' = [log EXCEPT ![t].failed = Tail(@)]
  /\ UNCHANGED <<bufferVars, notifying, receiver, channel>>

\* One removal: from the last index to the first, so that it shifts none of
\* the others that are still to come.
RemoveFailed(t) ==
  /\ SentToAll(t) /\ log[t].failed # <<>>
  /\ subscribers' = RemoveAt(subscribers, Last(log[t].failed))
  /\ log' = [log EXCEPT ![t].failed = Front(@)]
  /\ UNCHANGED <<bufferVars, notifying, receiver, channel>>

EndRound(t) ==
  /\ SentToAll(t) /\ log[t].failed = <<>>
  /\ notifying' = Nobody
  /\ log' = [log EXCEPT ![t] = Quiet]
  /\ UNCHANGED <<bufferVars, subscribers, receiver, channel>>

LogStep(t) ==
  \/ TakeNumber(t) \/ Keep(t)
  \/ StartRound(t) \/ Send(t) \/ RemoveFailed(t) \/ EndRound(t)

LogNext ==
  \/ \E t \in Loggers : LogStep(t)
  \/ Clear
  \/ \E s \in Subscribers : Subscribe(s) \/ Receive(s) \/ DropSubscriber(s)

\* Threads run, and whoever holds a subscription goes on receiving: without
\* that the loggers stop with the channel full.
LogFairness ==
  /\ \A t \in Loggers : WF_logVars(LogStep(t))
  /\ \A s \in Subscribers : WF_logVars(Receive(s))

LogSpec == LogInit /\ [][LogNext]_logVars /\ LogFairness

-------------------------------------------------------------------------------
LogTypeOK ==
  /\ \A i \in DOMAIN entries : entries[i] \in 1..sequence
  /\ {numbering, notifying} \subseteq Loggers \cup {Nobody}
  /\ \A i \in DOMAIN subscribers : subscribers[i] \in Subscribers
  /\ \A t \in Loggers :
       /\ log[t].pc \in {"idle", "numbered", "pushed", "sending"}
       /\ log[t].entry \in 0..sequence
  /\ receiver \in [Subscribers -> {"none", "live", "dropped"}]

(* The buffer holds the latest entries in the order of their numbers,      *)
(* without a gap and no more than its capacity (logger.rs:37-52), although *)
(* number and entry have a mutex each and clear takes only the second.     *)
BufferConsecutive ==
  /\ Len(entries) <= Capacity
  /\ \A i \in DOMAIN entries : entries[i] = entries[1] + i - 1
  /\ numbering = Nobody /\ entries # <<>> => Last(entries) = sequence

(* A subscriber that lives keeps its place in the list, once, so that      *)
(* every later round reaches it (logger.rs:252-266), however many others   *)
(* are found to have left in the same round.                               *)
LiveStaySubscribed ==
  /\ IsInjective(subscribers)
  /\ \A s \in Subscribers : receiver[s] = "live" => Contains(subscribers, s)

(* A call of log returns, as long as whoever subscribed goes on receiving  *)
(* or leaves: a subscriber that is dropped with its channel full lets the  *)
(* logger that waits for it, and everyone behind the mutex, go on.         *)
LogReturns == \A t \in Loggers : log[t].pc # "idle" ~> log[t].pc = "idle"
===============================================================================
