---------------------------- MODULE MCReversement ---------------------------
(***************************************************************************)
(* A small instance of Reversement for TLC: one reservation, two requests  *)
(* at once, a wallet that a withdrawal can empty.                          *)
(***************************************************************************)
EXTENDS Reversement, FiniteSetsExt

CONSTANTS r1, s1, s2

Prix(r) == 2
MCTotal == [S \in SUBSET Resa |-> MapThenSumSet(Prix, S)]
=============================================================================
