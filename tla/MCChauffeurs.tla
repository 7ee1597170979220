---------------------------- MODULE MCChauffeurs ----------------------------
(***************************************************************************)
(* Small instances of Chauffeurs for TLC: two requests at once, and two    *)
(* trips: one may be reopened after the other was published.               *)
(***************************************************************************)
EXTENDS Chauffeurs, TLC

CONSTANTS v1, v2, s1, s2

Symetrie == Permutations({v1, v2}) \cup Permutations({s1, s2})
=============================================================================
