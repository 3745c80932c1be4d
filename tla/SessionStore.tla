----------------------------- MODULE SessionStore -----------------------------
(***************************************************************************)
(* The session store of the host-side client: the session manager behind   *)
(* an access order with a capacity, and the pruning of a history to a      *)
(* budget of tokens.  Everything here is a function of a store; HostAgent  *)
(* says who calls it, and when.                                            *)
(*                                                                         *)
(* Abstracted: titles and statistics of sessions, the parts of a message   *)
(* (a message has a cost, what the estimator makes of it).                 *)
(***************************************************************************)
EXTENDS Naturals, FiniteSets, SequencesExt, Subsequences

CONSTANTS
  MaxSessions,   \* DEFAULT_MAX_SESSIONS, 256
  Budget,        \* message_budget of the policy
  MinHistory     \* min_history_messages

ASSUME StoreAssumption == MaxSessions \in Nat /\ Budget \in Nat /\ MinHistory \in Nat

\* A store: the sessions the manager has, their histories, and the access order,
\* least recently used first.
NewStore(Ids) == [has |-> {}, history |-> [s \in Ids |-> <<>>], order |-> <<>>]

DeleteSession(store, s) ==
  [store EXCEPT !.has = @ \ {s}, !.history[s] = <<>>]

\* s leaves its position for the back of the order.
MoveToBack(order, s) ==
  LET pos == CHOOSE i \in DOMAIN order : order[i] = s IN Append(RemoveAt(order, pos), s)

(* Mutant of Touch: the session that is evicted stays in the order.        *)
TouchKeeps(store, s) ==
  IF Contains(store.order, s)
  THEN [store EXCEPT !.order = MoveToBack(@, s)]
  ELSE IF Len(store.order) >= MaxSessions /\ store.order # <<>>
  THEN [DeleteSession(store, Head(store.order)) EXCEPT !.order = Append(@, s)]
  ELSE [store EXCEPT !.order = Append(@, s)]

\* s becomes the most recently used; a new session takes the place of the
\* least recently used one when there is no room.
Touch(store, s) ==
  IF Contains(store.order, s)
  THEN [store EXCEPT !.order = MoveToBack(@, s)]
  ELSE IF Len(store.order) >= MaxSessions /\ store.order # <<>>
  THEN [DeleteSession(store, Head(store.order)) EXCEPT !.order = Append(Tail(@), s)]
  ELSE [store EXCEPT !.order = Append(@, s)]

(* Mutant of TouchOrCreate: the session is always made anew.               *)
TouchOrCreateAnew(store, s) ==
  [Touch(store, s) EXCEPT !.has = @ \cup {s}, !.history[s] = <<>>]

TouchOrCreate(store, s) ==
  LET touched == Touch(store, s) IN
  IF s \in touched.has THEN touched
  ELSE [touched EXCEPT !.has = @ \cup {s}, !.history[s] = <<>>]

PushMessages(store, s, messages) ==
  [TouchOrCreate(store, s) EXCEPT !.history[s] = @ \o messages]

ReplaceHistory(store, s, messages) ==
  [TouchOrCreate(store, s) EXCEPT !.history[s] = messages]

-------------------------------------------------------------------------------
(* prune_messages *)

Cost(messages) == FoldSeq(LAMBDA m, sum : m.cost + sum, 0, messages)

Systems(messages) == {i \in DOMAIN messages : messages[i].role = "system"}
Chats(messages) == DOMAIN messages \ Systems(messages)

\* The budget that system messages leave; they are kept whatever they cost.
Room(messages) ==
  LET fixed == Cost(Subsequence(messages, Systems(messages))) IN
  IF Budget > fixed THEN Budget - fixed ELSE 0

\* From the newest to the oldest, whatever still fits is selected, also behind
\* one that did not fit; the first MinHistory are selected in any case.
Selected(messages) ==
  LET n == Len(messages)
      Fits(i, later) == \/ Cost(Subsequence(messages, later)) + messages[i].cost <= Room(messages)
                        \/ Cardinality(later) < MinHistory
      selected[i \in 1..(n + 1)] ==
        IF i > n THEN {}
        ELSE LET later == selected[i + 1] IN
             IF i \in Chats(messages) /\ Fits(i, later) THEN later \cup {i} ELSE later
  IN {i \in DOMAIN messages : i \in selected[i]}

PruneMessages(messages) ==
  IF Cost(messages) <= Budget THEN messages
  ELSE Subsequence(messages, Systems(messages)) \o Subsequence(messages, Selected(messages))

===============================================================================
