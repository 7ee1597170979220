----------------------------- MODULE FraisPayes -----------------------------
(***************************************************************************)
(* What the platform promises about its fee, whatever is being requested   *)
(* (a seat or the transport of a parcel): a request is put in front of the *)
(* driver only once its fee has been collected, and it is confirmed only   *)
(* after having been put in front of the driver.                           *)
(***************************************************************************)
CONSTANT Demande

VARIABLES
    payees,      \* requests whose fee was collected at least once
    visibles,    \* requests the driver may act on
    confirmees   \* requests the driver accepted

vars == <<payees, visibles, confirmees>>

Init ==
    /\ payees = {}
    /\ visibles = {}
    /\ confirmees = {}

Encaisser(d) ==
    /\ payees' = payees \cup {d}
    /\ UNCHANGED <<visibles, confirmees>>

\* Also the way back of a confirmed request to the driver's list.
Montrer(d) ==
    /\ d \in payees
    /\ visibles' = visibles \cup {d}
    /\ confirmees' = confirmees \ {d}
    /\ UNCHANGED payees

Confirmer(d) ==
    /\ d \in visibles
    /\ confirmees' = confirmees \cup {d}
    /\ UNCHANGED <<payees, visibles>>

\* Refused, cancelled or carried out.
Fermer(S) ==
    /\ visibles' = visibles \ S
    /\ confirmees' = confirmees \ S
    /\ UNCHANGED payees

Next ==
    \/ \E d \in Demande : Encaisser(d) \/ Montrer(d) \/ Confirmer(d)
    \/ \E S \in SUBSET Demande : Fermer(S)

Spec == Init /\ [][Next]_vars

\* The promise as an invariant: confirmed requests are visible, visible ones are paid.
Promesse == confirmees \subseteq visibles /\ visibles \subseteq payees
=============================================================================
