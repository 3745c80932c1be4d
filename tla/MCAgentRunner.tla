---------------------------- MODULE MCAgentRunner ----------------------------
(***************************************************************************)
(* Model values for AgentRunner: sessions are interchangeable.  Of the     *)
(* policies, one cuts at every turn, one keeps a head and a tail of the    *)
(* history, and one never cuts.                                            *)
(***************************************************************************)
EXTENDS AgentRunner, TLC

Newest == [after |-> 0, retain |-> 1, balanced |-> FALSE]
Balanced == [after |-> 1, retain |-> 2, balanced |-> TRUE]
Whole == [after |-> 9, retain |-> 1, balanced |-> FALSE]

CutPolicies == {Newest, Balanced}
WholePolicy == {Whole}

Symmetry == Permutations(Sessions)
=============================================================================
