----------------------------- MODULE MCComptes ------------------------------
(***************************************************************************)
(* Small instances of Comptes for TLC.                                     *)
(***************************************************************************)
EXTENDS Comptes, TLC

CONSTANTS a1, a2, d1, d2, t1, t2, s1, s2

Symetrie == Permutations(Compte) \cup Permutations(Demande) \cup Permutations(Session)
=============================================================================
