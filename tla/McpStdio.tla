------------------------------- MODULE McpStdio -------------------------------
(***************************************************************************)
(* The stdio transport of an MCP server: requests of any number of tasks   *)
(* share one child process.  A request holds request_lock (a fair tokio    *)
(* mutex) from its write to its answer, takes the handle it works with out *)
(* of its Option and puts it back.  Its future may be dropped at an await: *)
(* an HTTP handler ends with its connection.                               *)
(*                                                                         *)
(* Abstracted: the texts of lines; the notification of connect, which is   *)
(* written while nobody else has the transport.  The child is external.    *)
(***************************************************************************)
EXTENDS Naturals, Sequences, FiniteSets

CONSTANTS
  Calls,      \* tools/call requests
  Initialize, \* the two requests of connect
  List,
  MaxNoise,   \* bound: lines of the child that answer nothing
  None

Requests == Calls \cup {Initialize, List}

ASSUME McpAssumption ==
  /\ IsFiniteSet(Calls) /\ MaxNoise \in Nat
  /\ Initialize \notin Calls /\ List \notin Calls /\ Initialize # List
  /\ None \notin Requests

VARIABLES
  pc,        \* where the future of each request is
  queue,     \* request_lock: its holder, then who waits for it
  id,        \* JSON-RPC id of a request; 0: none yet
  next_id,
  stdin,     \* is the handle in its Option?
  stdout,
  connecting,\* how far connect is
  connected, \* AtomicBool
  child,     \* the process: "none", "up", "down"
  owed,      \* requests the child has read and not answered
  lines,     \* written by the child and not read yet
  noise,     \* lines of the child that answered nothing
  reply,     \* history: whose answer a request was given
  lost       \* history: requests dropped with a handle in hand, and disconnect

future == <<pc, queue, id, next_id, reply, lost>>
handles == <<stdin, stdout>>
link == <<connecting, connected>>
process == <<child, owed, lines, noise>>
vars == <<future, handles, link, process>>

Ended == {"done", "refused", "failed", "dropped"}
Disconnected == "disconnect"

Init ==
  /\ pc = [r \in Requests |-> "idle"]
  /\ queue = <<>>
  /\ id = [r \in Requests |-> 0] /\ next_id = 1
  /\ reply = [r \in Requests |-> None] /\ lost = {}
  /\ stdin = FALSE /\ stdout = FALSE
  /\ connecting = "off" /\ connected = FALSE
  /\ child = "none" /\ owed = {} /\ lines = <<>> /\ noise = 0

-------------------------------------------------------------------------------
(* send_request. *)

Waiting(r) ==
  /\ pc' = [pc EXCEPT ![r] = "waiting"]
  /\ queue' = Append(queue, r)
  /\ UNCHANGED <<id, next_id, reply, lost>>

\* The future of the holder ends and its guard releases the lock.
Leave(r, how) == pc' = [pc EXCEPT ![r] = how] /\ queue' = Tail(queue)

\* The future in place i of the queue is dropped.
Without(i) == [j \in 1..(Len(queue) - 1) |-> queue[IF j < i THEN j ELSE j + 1]]

Call(r) ==
  /\ r \in Calls /\ pc[r] = "idle" /\ connecting = "on"
  /\ Waiting(r)
  /\ UNCHANGED <<handles, link, process>>

(* The lock, a fresh id, and the handle of write_line. *)
Acquire(r) ==
  /\ pc[r] = "waiting" /\ queue # <<>> /\ Head(queue) = r
  /\ id' = [id EXCEPT ![r] = next_id] /\ next_id' = next_id + 1
  /\ IF stdin
     THEN stdin' = FALSE /\ pc' = [pc EXCEPT ![r] = "writing"] /\ UNCHANGED queue
     ELSE Leave(r, "failed") /\ UNCHANGED stdin
  /\ UNCHANGED <<reply, lost, stdout, link, process>>

(* Mutant of Write: an error of write_line returns before the handle is    *)
(* put back.                                                               *)
WriteKeeps(r) ==
  /\ pc[r] = "writing"
  /\ stdin' = (child = "up")
  /\ owed' = IF child = "up" THEN owed \cup {r} ELSE owed
  /\ IF child = "up" /\ stdout
     THEN stdout' = FALSE /\ pc' = [pc EXCEPT ![r] = "reading"] /\ UNCHANGED queue
     ELSE Leave(r, "failed") /\ UNCHANGED stdout
  /\ UNCHANGED <<id, next_id, reply, lost, link, child, lines, noise>>

(* The line is written (to a child that has ended, it is an error), stdin  *)
(* put back, and stdout taken.                                             *)
Write(r) ==
  /\ pc[r] = "writing"
  /\ stdin' = TRUE
  /\ owed' = IF child = "up" THEN owed \cup {r} ELSE owed
  /\ IF child = "up" /\ stdout
     THEN stdout' = FALSE /\ pc' = [pc EXCEPT ![r] = "reading"] /\ UNCHANGED queue
     ELSE Leave(r, "failed") /\ UNCHANGED stdout
  /\ UNCHANGED <<id, next_id, reply, lost, link, child, lines, noise>>

(* Mutant of Answers: the first answer is the answer. *)
AnswersAny(r, line) == line.kind \in {"result", "error"}

\* read_response compares ids.
Answers(r, line) == line.kind \in {"result", "error"} /\ line.id = id[r]

(* One line of read_response; lines that are no answer to r are skipped,   *)
(* a line that is no JSON ends the request.                                *)
Read(r) ==
  /\ pc[r] = "reading" /\ lines # <<>>
  /\ lines' = Tail(lines)
  /\ LET line == Head(lines)
     IN  \/ /\ Answers(r, line)
            /\ Leave(r, IF line.kind = "result" THEN "done" ELSE "refused")
            /\ reply' = [reply EXCEPT ![r] = line.of]
            /\ stdout' = TRUE
         \/ /\ line.kind = "junk"
            /\ Leave(r, "failed") /\ stdout' = TRUE
            /\ UNCHANGED reply
         \/ /\ ~Answers(r, line) /\ line.kind # "junk"
            /\ UNCHANGED <<pc, queue, reply, stdout>>
  /\ UNCHANGED <<id, next_id, lost, stdin, link, child, owed, noise>>

(* Mutant of ReadEnd: the end of the stream is an empty line. *)
ReadOn(r) ==
  /\ pc[r] = "reading" /\ lines = <<>> /\ child = "down"
  /\ UNCHANGED vars

ReadEnd(r) ==
  /\ pc[r] = "reading" /\ lines = <<>> /\ child = "down"
  /\ Leave(r, "failed") /\ stdout' = TRUE
  /\ UNCHANGED <<id, next_id, reply, lost, stdin, link, process>>

(* The future of a call is dropped at its await, and a handle in hand with *)
(* it.  A write may have got through.                                      *)
Drop(r) ==
  /\ r \in Calls /\ pc[r] \in {"waiting", "writing", "reading"}
  /\ pc' = [pc EXCEPT ![r] = "dropped"]
  /\ \E i \in 1..Len(queue) : queue[i] = r /\ queue' = Without(i)
  /\ lost' = IF pc[r] = "waiting" THEN lost ELSE lost \cup {r}
  /\ owed' \in {owed, IF pc[r] = "writing" /\ child = "up" THEN owed \cup {r} ELSE owed}
  /\ UNCHANGED <<id, next_id, reply, handles, link, child, lines, noise>>

-------------------------------------------------------------------------------
(* connect and disconnect. *)

Connect ==
  /\ connecting = "off"
  /\ connecting' = "initialize"
  /\ child' = "up" /\ stdin' = TRUE /\ stdout' = TRUE
  /\ Waiting(Initialize)
  /\ UNCHANGED <<connected, owed, lines, noise>>

Initialized ==
  /\ connecting = "initialize" /\ pc[Initialize] = "done"
  /\ connecting' = "list"
  /\ Waiting(List)
  /\ UNCHANGED <<handles, connected, process>>

Listed ==
  /\ connecting = "list" /\ pc[List] = "done"
  /\ connecting' = "on" /\ connected' = TRUE
  /\ UNCHANGED <<future, handles, process>>

ConnectFails ==
  /\ \/ connecting = "initialize" /\ pc[Initialize] \in {"refused", "failed"}
     \/ connecting = "list" /\ pc[List] \in {"refused", "failed"}
  /\ connecting' = "failed"
  /\ UNCHANGED <<future, handles, connected, process>>

(* disconnect, up to the end of the child, and its rest.                   *)
Disconnect ==
  /\ connected
  /\ connected' = FALSE
  /\ child' = "down"
  /\ UNCHANGED <<future, handles, connecting, owed, lines, noise>>

CloseHandles ==
  /\ connecting = "on" /\ ~connected /\ Disconnected \notin lost
  /\ stdin' = FALSE /\ stdout' = FALSE
  /\ lost' = lost \cup {Disconnected}
  /\ UNCHANGED <<pc, queue, id, next_id, reply, link, process>>

-------------------------------------------------------------------------------
(* The child answers in any order, says other things, ends, or is silent.  *)

ChildAnswers(r) ==
  /\ child = "up" /\ r \in owed
  /\ owed' = owed \ {r}
  /\ \E kind \in {"result", "error"} :
       lines' = Append(lines, [id |-> id[r], of |-> r, kind |-> kind])
  /\ UNCHANGED <<future, handles, link, child, noise>>

ChildSays ==
  /\ child = "up" /\ noise < MaxNoise
  /\ noise' = noise + 1
  /\ \E kind \in {"note", "junk"} : lines' = Append(lines, [id |-> 0, of |-> None, kind |-> kind])
  /\ UNCHANGED <<future, handles, link, child, owed>>

ChildEnds ==
  /\ child = "up"
  /\ child' = "down"
  /\ UNCHANGED <<future, handles, link, owed, lines, noise>>

Step(r) == Acquire(r) \/ Write(r) \/ Read(r) \/ ReadEnd(r)
Connecting == Initialized \/ Listed \/ ConnectFails

Next ==
  \/ Connect \/ Connecting \/ Disconnect \/ CloseHandles
  \/ \E r \in Requests : Call(r) \/ Step(r) \/ Drop(r) \/ ChildAnswers(r)
  \/ ChildSays \/ ChildEnds

Spec == Init /\ [][Next]_vars /\ WF_vars(Connecting) /\ \A r \in Requests : WF_vars(Step(r))

-------------------------------------------------------------------------------
(* Properties. *)

Lines == [id : Nat, of : Requests \cup {None}, kind : {"result", "error", "note", "junk"}]

(* The variables have their types, and the lock has one holder: only the   *)
(* head of its queue is at work.                                           *)
TypeOK ==
  /\ pc \in [Requests -> {"idle", "waiting", "writing", "reading"} \cup Ended]
  /\ queue \in Seq(Requests)
  /\ \A r \in Requests : pc[r] \in {"writing", "reading"} => queue # <<>> /\ r = Head(queue)
  /\ id \in [Requests -> Nat] /\ next_id \in Nat
  /\ stdin \in BOOLEAN /\ stdout \in BOOLEAN
  /\ connecting \in {"off", "initialize", "list", "on", "failed"} /\ connected \in BOOLEAN
  /\ child \in {"none", "up", "down"} /\ owed \subseteq Requests
  /\ lines \in Seq(Lines) /\ noise \in Nat
  /\ reply \in [Requests -> Requests \cup {None}]
  /\ lost \subseteq Calls \cup {Disconnected}

(* Whatever lines earlier requests left behind, because they were dropped  *)
(* or met a line that is no JSON, a request is given its own answer.       *)
OwnAnswer == \A r \in Requests : pc[r] \in {"done", "refused"} => reply[r] = r

(* A handle is missing from its Option while a request works with it, or   *)
(* after one was dropped with it or disconnect closed it: no error path    *)
(* forgets to put it back.                                                 *)
HandlesReturn ==
  connecting # "off" =>
    /\ ~stdin => lost # {} \/ \E r \in Requests : pc[r] = "writing"
    /\ ~stdout => lost # {} \/ \E r \in Requests : pc[r] = "reading"

(* transport/mod.rs:43: is_connected is to "Check if the transport is      *)
(* connected".  Not so: it stays true for a transport whose handle was     *)
(* dropped with a request, and which fails every request from then on.     *)
ConnectedServes ==
  connected /\ child = "up" /\ (\A r \in Requests : pc[r] \notin {"writing", "reading"})
    => stdin /\ stdout

(* If the child answers or ends, every call ends, whatever becomes of      *)
(* those before it in the queue.                                           *)
CallsEnd ==
  (\A r \in Calls : r \in owed ~> r \notin owed \/ child = "down")
    => \A r \in Calls : pc[r] = "waiting" ~> pc[r] \in Ended
===============================================================================
