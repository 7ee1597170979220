------------------------------ MODULE MCTarifs ------------------------------
(***************************************************************************)
(* Small instances of Tarifs for TLC.                                      *)
(***************************************************************************)
EXTENDS Tarifs, TLC

CONSTANTS x1, x2, g1, t1, t2, v1, n1, n2, s1, s2

Symetrie == Permutations(Ville) \cup Permutations(Tarif) \cup Permutations(Nom) \cup Permutations(Session)
=============================================================================
