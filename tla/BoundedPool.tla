---------------------------- MODULE BoundedPool ----------------------------
(***************************************************************************)
(* What a limit on concurrency promises: at most Size members are inside   *)
(* at any time, each enters once at most, and none comes back once gone.   *)
(***************************************************************************)
EXTENDS Naturals, FiniteSets

CONSTANTS Members, Size

VARIABLES inside, gone

Init == inside = {} /\ gone = {}

Enter(m) ==
  /\ m \notin inside \cup gone
  /\ Cardinality(inside) < Size
  /\ inside' = inside \cup {m}
  /\ UNCHANGED gone

Leave(m) ==
  /\ m \in inside
  /\ inside' = inside \ {m}
  /\ gone' = gone \cup {m}

\* Sent away at the door.
TurnAway(m) ==
  /\ m \notin inside \cup gone
  /\ gone' = gone \cup {m}
  /\ UNCHANGED inside

Next == \E m \in Members : Enter(m) \/ Leave(m) \/ TurnAway(m)

Spec == Init /\ [][Next]_<<inside, gone>>
=============================================================================
