--------------------- MODULE MCReservationsConcurrentes ---------------------
(***************************************************************************)
(* Small instance of ReservationsConcurrentes for TLC: one trip, two       *)
(* reservations, two requests at once; clients poll while they owe the fee.*)
(***************************************************************************)
EXTENDS ReservationsConcurrentes, TLC

CONSTANTS v1, c1, r1, r2, t1, t2, s1, s2

MCConducteur == [v \in Voyage |-> c1]

Symetrie == Permutations(Resa) \cup Permutations(Tx) \cup Permutations(Session)

\* Bound: once a request has committed on a reading that no longer held, the requests
\* that follow run one at a time.
UneCourse == melanges = {} \/ Cardinality({s \in Session : session[s] # Libre}) <= 1

PollSobre == {"EN_ATTENTE_PAIEMENT", "EN_ATTENTE"}
=============================================================================
