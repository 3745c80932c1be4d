---------------------------- MODULE RemoteRequest ----------------------------
(***************************************************************************)
(* What the control channel promises to the core: a request to the peer is *)
(* settled once, granted only after the peer consented to it, and never    *)
(* left hanging -- "fail-closed, no silent hang".                          *)
(***************************************************************************)
CONSTANT Requests \* requests to the peer, each with a correlation id of its own

VARIABLES
  outcome,  \* how the core sees each request
  offered   \* the requests that the peer has consented to

vars == <<outcome, offered>>

Init ==
  /\ outcome = [r \in Requests |-> "idle"]
  /\ offered = {}

Begin(r) ==
  /\ outcome[r] = "idle"
  /\ outcome' = [outcome EXCEPT ![r] = "open"]
  /\ UNCHANGED offered

(* A request may be refused by the gate, before the peer hears of it. *)
Refuse(r) ==
  /\ outcome[r] \in {"idle", "open"}
  /\ outcome' = [outcome EXCEPT ![r] = "refused"]
  /\ UNCHANGED offered

Offer(r) ==
  /\ outcome[r] # "idle"
  /\ offered' = offered \cup {r}
  /\ UNCHANGED outcome

Grant(r) ==
  /\ outcome[r] = "open"
  /\ r \in offered
  /\ outcome' = [outcome EXCEPT ![r] = "granted"]
  /\ UNCHANGED offered

Settle(r) == outcome[r] = "open" /\ (Refuse(r) \/ Grant(r))

Next == \E r \in Requests : Begin(r) \/ Refuse(r) \/ Grant(r) \/ Offer(r)

Spec == Init /\ [][Next]_vars /\ \A r \in Requests : WF_vars(Settle(r))
==============================================================================
