--------------------------- MODULE MCReservations ---------------------------
(***************************************************************************)
(* Small instances of Reservations for TLC: two successive trips of one    *)
(* driver (the second one can only start once the first is closed).        *)
(***************************************************************************)
EXTENDS Reservations, TLC

CONSTANTS v1, v2, c1, r1, r2, t1, t2

MCConducteur == [v \in Voyage |-> c1]

Symetrie == Permutations(Resa) \cup Permutations(Tx)

\* Clients that stop polling as soon as the payment is settled either way.
PollSobre == {"EN_ATTENTE_PAIEMENT", "EN_ATTENTE"}
=============================================================================
