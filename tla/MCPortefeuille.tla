---------------------------- MODULE MCPortefeuille --------------------------
(***************************************************************************)
(* Small instances of Portefeuille for TLC: two wallets; one top-up that   *)
(* the task polls and one that only its user confirms, on the same wallet. *)
(***************************************************************************)
EXTENDS Portefeuille

CONSTANTS w1, w2, r1, r2, s1, s2

MCDe == [r \in Recharge |-> w1]
MCMontant == [r \in Recharge |-> IF r = r1 THEN 2 ELSE 1]
=============================================================================
