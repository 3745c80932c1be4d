--------------------------- MODULE MCSessionStorage ---------------------------
(***************************************************************************)
(* Model values for SessionStorage: sessions and versions are each         *)
(* interchangeable.                                                        *)
(***************************************************************************)
EXTENDS SessionStorage, TLC

Symmetry == Permutations(Sessions) \cup Permutations(Versions)
===============================================================================
