---------------------------- MODULE MCAvisNotes -----------------------------
(***************************************************************************)
(* Small instances of AvisNotes for TLC.                                   *)
(***************************************************************************)
EXTENDS AvisNotes, TLC

CONSTANTS i1, i2, i3, u1, u2, u3, v1, c1, s1, s2

MCConducteur == [v \in Voyage |-> c1]
Symetrie == Permutations(Avis) \cup Permutations(Auteur) \cup Permutations(Session)
=============================================================================
