------------------------------- MODULE Colis --------------------------------
(***************************************************************************)
(* Parcels: the fee protocol of the reservations without the seats, the    *)
(* hand-over by the driver, and the back office, which writes the statut   *)
(* of a parcel whatever it is.  The trip is what its own requests make of  *)
(* it: none of them touches its parcels.                                   *)
(*                                                                         *)
(* One action is one committed request, as in Reservations.  PUBLIE stands *)
(* for PUBLIE or COMPLET, which the parcels do not tell apart.             *)
(***************************************************************************)
EXTENDS Integers

CONSTANTS
    Voyage,       \* trip identifiers
    Paquet,       \* parcel identifiers
    Tx,           \* FedaPay collection identifiers
    Aucun,        \* the NULL of the foreign keys
    Delai,        \* PAIEMENT_EXPIRATION_MINUTES, in ticks of the clock
    Forces        \* the parcels that the back office validates or rejects

ASSUME AucunAssumption  == Aucun \notin Voyage /\ Aucun \notin Paquet /\ Aucun \notin Tx
ASSUME DelaiAssumption  == Delai \in Nat \ {0}
ASSUME ForcesAssumption == Forces \subseteq Paquet

VARIABLES
    trajets,      \* statut of each trip
    colis,        \* table colis
    tx,           \* the collections FedaPay knows (external)
    ecritures,    \* collections that have a FRAIS_COLIS row in table transactions
    audit         \* parcels that have a VALIDATE_COLIS row in table audit_logs

vars == <<trajets, colis, tx, ecritures, audit>>

StatutTrajet == {"absent", "PUBLIE", "EN_COURS", "TERMINE", "ANNULE"}
StatutColis == {"EN_ATTENTE_PAIEMENT", "EN_ATTENTE", "CONFIRME", "EN_TRANSIT", "LIVRE", "ANNULE"}

\* As in Reservations: each value stands for the statuts of FedaPay read alike.
StatutTx == {"absente", "sans_lien", "pending", "approved", "declined", "refunded"}
Succes_mutPending == {"approved", "pending"}
Succes == {"approved"}
Echec  == {"declined", "refunded"}

ColisRow == [statut : StatutColis \cup {"absent"}, voyage : Voyage \cup {Aucun},
             reste : -1..Delai, tx : Tx \cup {Aucun}]

\* Every row keeps the shape of its table.
TypeOK ==
    /\ trajets \in [Voyage -> StatutTrajet]
    /\ colis \in [Paquet -> ColisRow]
    /\ tx \in [Tx -> [statut : StatutTx, colis : Paquet \cup {Aucun}]]
    /\ ecritures \subseteq Tx
    /\ audit \subseteq Paquet

Init ==
    /\ trajets = [v \in Voyage |-> "absent"]
    /\ colis = [k \in Paquet |-> [statut |-> "absent", voyage |-> Aucun, reste |-> -1, tx |-> Aucun]]
    /\ tx = [t \in Tx |-> [statut |-> "absente", colis |-> Aucun]]
    /\ ecritures = {}
    /\ audit = {}

-----------------------------------------------------------------------------
(* The trip *)

Avancer(v, de, vers) ==
    /\ trajets[v] \in de
    /\ trajets' = [trajets EXCEPT ![v] = vers]
    /\ UNCHANGED <<colis, tx, ecritures, audit>>

CreateVoyage(v) == Avancer(v, {"absent"}, "PUBLIE")
StartVoyage(v)  == Avancer(v, {"PUBLIE"}, "EN_COURS")
EndVoyage(v)    == Avancer(v, {"EN_COURS"}, "TERMINE")

\* By the driver before the departure, by the back office also after it.
CancelVoyage(v) == Avancer(v, {"PUBLIE", "EN_COURS"}, "ANNULE")

-----------------------------------------------------------------------------
(* The sender *)

\* accepte_colis, the price and the description are left out.
CreateColis(k, v) ==
    /\ colis[k].statut = "absent"
    /\ trajets[v] \in {"PUBLIE", "EN_COURS"}
    /\ colis' = [colis EXCEPT ![k] =
           [statut |-> "EN_ATTENTE_PAIEMENT", voyage |-> v, reste |-> Delai, tx |-> Aucun]]
    /\ UNCHANGED <<trajets, tx, ecritures, audit>>

PaiementAttendu(k) == colis[k].statut = "EN_ATTENTE_PAIEMENT" /\ colis[k].reste >= 0

InitierPaiement(k, t) ==
    /\ PaiementAttendu(k)
    /\ tx[t].statut = "absente"
    /\ tx' = [tx EXCEPT ![t] = [statut |-> "pending", colis |-> k]]
    /\ colis' = [colis EXCEPT ![k].tx = t]
    /\ UNCHANGED <<trajets, ecritures, audit>>

\* create_transaction succeeds and get_payment_token fails.
InitierPaiementSansLien(k, t) ==
    /\ PaiementAttendu(k)
    /\ tx[t].statut = "absente"
    /\ tx' = [tx EXCEPT ![t] = [statut |-> "sans_lien", colis |-> k]]
    /\ UNCHANGED <<trajets, colis, ecritures, audit>>

Passer(k, statut) == colis' = [colis EXCEPT ![k].statut = statut]

\* The requests that only move the statut of one parcel.
Changer(k, de, vers) ==
    /\ colis[k].statut \in de
    /\ Passer(k, vers)
    /\ UNCHANGED <<trajets, tx, ecritures, audit>>

AnnulerColis_mutSansGarde(k) == Changer(k, StatutColis, "ANNULE")

\* By the sender or the driver.
AnnulerColis(k) == Changer(k, {"EN_ATTENTE_PAIEMENT", "EN_ATTENTE"}, "ANNULE")

Interrogeable(k) ==
    /\ colis[k].statut \notin {"absent", "EN_ATTENTE"}
    /\ colis[k].tx # Aucun

PollExpire(k) ==
    /\ Interrogeable(k)
    /\ colis[k].reste < 0
    /\ Passer(k, "ANNULE")
    /\ UNCHANGED <<trajets, tx, ecritures, audit>>

PollConfirme_mutNonRefuse(k) ==
    /\ Interrogeable(k)
    /\ colis[k].reste >= 0
    /\ tx[colis[k].tx].statut \notin Echec
    /\ Passer(k, "EN_ATTENTE")
    /\ ecritures' = ecritures \cup {colis[k].tx}
    /\ UNCHANGED <<trajets, tx, audit>>

PollConfirme(k) ==
    /\ Interrogeable(k)
    /\ colis[k].reste >= 0
    /\ tx[colis[k].tx].statut \in Succes
    /\ Passer(k, "EN_ATTENTE")
    /\ ecritures' = ecritures \cup {colis[k].tx}
    /\ UNCHANGED <<trajets, tx, audit>>

PollEchec(k) ==
    /\ Interrogeable(k)
    /\ colis[k].reste >= 0
    /\ tx[colis[k].tx].statut \in Echec
    /\ Passer(k, "ANNULE")
    /\ UNCHANGED <<trajets, tx, ecritures, audit>>

\* GET statut-paiement: verifier_et_confirmer_colis
StatutPaiement(k) == PollExpire(k) \/ PollConfirme(k) \/ PollEchec(k)

-----------------------------------------------------------------------------
(* The driver, the back office *)

Confirmer(k) == Changer(k, {"EN_ATTENTE"}, "CONFIRME")

MettreEnTransit_mutSansVoyage(k) == Changer(k, {"CONFIRME"}, "EN_TRANSIT")

\* The only request on a parcel, after its creation, that reads the trip.
MettreEnTransit(k) ==
    /\ colis[k].statut = "CONFIRME"
    /\ trajets[colis[k].voyage] = "EN_COURS"
    /\ Changer(k, {"CONFIRME"}, "EN_TRANSIT")

Livrer(k) == Changer(k, {"EN_TRANSIT"}, "LIVRE")

\* Neither looks at the statut of the parcel.
ValidateColis(k) ==
    /\ colis[k].statut # "absent"
    /\ Passer(k, "CONFIRME")
    /\ audit' = audit \cup {k}
    /\ UNCHANGED <<trajets, tx, ecritures>>

RejectColis(k) == Changer(k, StatutColis, "ANNULE")

-----------------------------------------------------------------------------
(* The Celery sweep, the clock, and FedaPay *)

AnnulerExpires_mutInverse ==
    LET expires == {k \in Paquet : colis[k].statut = "EN_ATTENTE_PAIEMENT" /\ colis[k].reste > 0}
    IN  /\ expires # {}
        /\ colis' = [k \in Paquet |-> IF k \in expires THEN [colis[k] EXCEPT !.statut = "ANNULE"] ELSE colis[k]]
        /\ UNCHANGED <<trajets, tx, ecritures, audit>>

AnnulerExpires ==
    LET expires == {k \in Paquet : colis[k].statut = "EN_ATTENTE_PAIEMENT" /\ colis[k].reste <= 0}
    IN  /\ expires # {}
        /\ colis' = [k \in Paquet |-> IF k \in expires THEN [colis[k] EXCEPT !.statut = "ANNULE"] ELSE colis[k]]
        /\ UNCHANGED <<trajets, tx, ecritures, audit>>

Tick ==
    /\ \E k \in Paquet : colis[k].reste >= 0
    /\ colis' = [k \in Paquet |-> [colis[k] EXCEPT !.reste = IF @ >= 0 THEN @ - 1 ELSE @]]
    /\ UNCHANGED <<trajets, tx, ecritures, audit>>

FedaPay(t) ==
    /\ \/ tx[t].statut = "pending"  /\ tx' = [tx EXCEPT ![t].statut = "approved"]
       \/ tx[t].statut = "pending"  /\ tx' = [tx EXCEPT ![t].statut = "declined"]
       \/ tx[t].statut = "approved" /\ tx' = [tx EXCEPT ![t].statut = "refunded"]
    /\ UNCHANGED <<trajets, colis, ecritures, audit>>

Next ==
    \/ \E v \in Voyage : CreateVoyage(v) \/ StartVoyage(v) \/ EndVoyage(v) \/ CancelVoyage(v)
    \/ \E k \in Paquet : \/ \E v \in Voyage : CreateColis(k, v)
                         \/ \E t \in Tx : InitierPaiement(k, t)
                         \/ \E t \in Tx : InitierPaiementSansLien(k, t)
                         \/ StatutPaiement(k)
                         \/ AnnulerColis(k)
                         \/ Confirmer(k)
                         \/ MettreEnTransit(k)
                         \/ Livrer(k)
    \/ \E k \in Forces : ValidateColis(k) \/ RejectColis(k)
    \/ AnnulerExpires
    \/ Tick
    \/ \E t \in Tx : FedaPay(t)

Spec == Init /\ [][Next]_vars

\* Time passes, and Celery beat keeps scheduling the sweep.
FairSpec == Spec /\ WF_vars(Tick) /\ WF_vars(AnnulerExpires)

-----------------------------------------------------------------------------
(* Properties *)

Encaissee(t) == tx[t].statut \in {"approved", "refunded"}
Paye(k) == \E t \in Tx : tx[t].colis = k /\ Encaissee(t)

\* A driver only carries a parcel whose fee was collected and booked, or that the back
\* office validated, which the audit log then shows; and only the fee puts a parcel in
\* front of the driver.
PayeOuValide ==
    \A k \in Paquet :
        LET paye == \E t \in ecritures : tx[t].colis = k /\ Encaissee(t)
        IN  /\ colis[k].statut = "EN_ATTENTE" => paye
            /\ colis[k].statut \in {"CONFIRME", "EN_TRANSIT", "LIVRE"} => paye \/ k \in audit

\* A parcel is on the road or delivered only if its trip has started, whatever the
\* polls and the back office did to its statut and to the trip in between.
TransitApresDepart ==
    \A k \in Paquet :
        colis[k].statut \in {"EN_TRANSIT", "LIVRE"} =>
            colis[k].voyage # Aucun /\ trajets[colis[k].voyage] \notin {"absent", "PUBLIE"}

\* A poll is the only way out of LIVRE or ANNULE, but for the back office: it brings the
\* parcel back to the driver when the collection it names is approved in time, and cancels
\* a delivered one when that collection has failed or the deadline has passed.
RetourParPaiement ==
    [][\A k \in Paquet \ Forces :
           LET nommee == tx[colis[k].tx].statut
           IN  colis[k].statut \in {"LIVRE", "ANNULE"} /\ colis'[k].statut # colis[k].statut =>
                   /\ colis[k].tx # Aucun
                   /\ \/ colis'[k].statut = "EN_ATTENTE" /\ nommee = "approved" /\ colis[k].reste >= 0
                      \/ colis'[k].statut = "ANNULE" /\ (nommee \in Echec \/ colis[k].reste < 0)]_vars

\* The parcels that the back office leaves alone keep the promise of FraisPayes.
Libres == Paquet \ Forces
Frais == INSTANCE FraisPayes WITH
    Demande    <- Libres,
    payees     <- {k \in Libres : Paye(k)},
    visibles   <- {k \in Libres : colis[k].statut \in {"EN_ATTENTE", "CONFIRME", "EN_TRANSIT"}},
    confirmees <- {k \in Libres : colis[k].statut \in {"CONFIRME", "EN_TRANSIT"}}
TientLaPromesse == Frais!Spec

\* A parcel does not await its payment for ever.
AttenteBornee ==
    \A k \in Paquet : colis[k].statut = "EN_ATTENTE_PAIEMENT"
                          ~> colis[k].statut # "EN_ATTENTE_PAIEMENT"
=============================================================================
