---------------------------- MODULE Reservations ----------------------------
(***************************************************************************)
(* Seat reservations of GoTaxi: trips (voyages), reservations, the         *)
(* platform fee collected through FedaPay, and the clock that makes an     *)
(* unpaid reservation expire.                                              *)
(*                                                                         *)
(* One action is one committed request (or one run of the Celery sweep):   *)
(* what a request reads and writes is taken as atomic here, and module     *)
(* ReservationsConcurrentes takes that apart.  A request refused by a      *)
(* guard of the code is rolled back (core/database.py, get_db) and is a    *)
(* stuttering step.  Who is calling (401, 403, 404) is left out: every     *)
(* action is performed by a caller the code lets through.                  *)
(*                                                                         *)
(* A definition whose name ends in _mut... is a plausible mistake in the   *)
(* definition that follows it; no action uses it.  PROJECT.json pairs each *)
(* with the property that detects it.                                      *)
(***************************************************************************)
EXTENDS Integers, FiniteSets

CONSTANTS
    Voyage,           \* trip identifiers
    Chauffeur,        \* drivers
    Conducteur,       \* the driver of each trip: [Voyage -> Chauffeur]
    Resa,             \* reservation identifiers
    Tx,               \* FedaPay collection identifiers
    Aucun,            \* the NULL of the foreign keys
    TotalPlaces,      \* values of nombre_places_total that are tried
    PlacesDemandees,  \* values of ReservationCreate.nombre_places that are tried
    Delai,            \* PAIEMENT_EXPIRATION_MINUTES, in ticks of the clock
    MaxRestantes,     \* bound: stale polls stop adding seats beyond it
    PollStatuts       \* statuts in which the clients call statut-paiement

\* models/voyage.py and models/reservation.py; "absent" is a row not yet inserted.
StatutVoyage == {"PUBLIE", "COMPLET", "EN_COURS", "TERMINE", "ANNULE"}
StatutReservation == {"EN_ATTENTE_PAIEMENT", "EN_ATTENTE", "CONFIRMEE",
                      "REFUSEE", "ANNULEE", "TERMINEE"}

\* schemas/voyage.py and schemas/reservation.py: Field(..., ge=1, le=8)
Place == 1..8

ASSUME VoyageAssumption == Conducteur \in [Voyage -> Chauffeur]
ASSUME AucunAssumption  == Aucun \notin Voyage /\ Aucun \notin Resa /\ Aucun \notin Tx
ASSUME PlacesAssumption == TotalPlaces \subseteq Place /\ PlacesDemandees \subseteq Place
ASSUME DelaiAssumption  == Delai \in Nat \ {0}
ASSUME BorneAssumption  == MaxRestantes \in Nat
ASSUME PollAssumption   == PollStatuts \subseteq StatutReservation
ASSUME FiniAssumption   == IsFiniteSet(Resa)

VARIABLES
    voyages,        \* table voyages
    reservations,   \* table reservations
    tx,             \* the collections FedaPay knows (external)
    ecritures,      \* rows FRAIS_RESERVATION of table transactions, per collection
    reverses        \* the reservations whose price payer_chauffeur was given, per trip

vars == <<voyages, reservations, tx, ecritures, reverses>>

\* paiement_expire_a is kept as the time left before it: 0 when now equals it,
\* -1 as soon as now is later, so that no absolute clock has to be bounded.
TempsRestant == -1..Delai

\* FedaPay's statuts.  "transferred" is read like "approved" and "cancelled" like
\* "declined" by every caller, so each pair is one value; "sans_lien" is a
\* collection whose checkout link was never obtained, which nobody can pay.
StatutTx == {"absente", "sans_lien", "pending", "approved", "declined", "refunded"}
Succes_mutPending == {"approved", "pending"}
Succes == {"approved"}
Echec  == {"declined", "refunded"}

\* Number of rows per collection: 0, 1, or 2 for "several" (a bound).
NbEcritures == 0..2

\* One row of each table.
VoyageRow == [statut : StatutVoyage \cup {"absent"}, total : Nat, restantes : Int]
ResaRow == [statut : StatutReservation \cup {"absent"}, voyage : Voyage \cup {Aucun},
            places : Place \cup {0}, reste : TempsRestant, tx : Tx \cup {Aucun}]
TxRow == [statut : StatutTx, resa : Resa \cup {Aucun}]

\* Every row keeps the shape of its table.
TypeOK ==
    /\ voyages \in [Voyage -> VoyageRow]
    /\ reservations \in [Resa -> ResaRow]
    /\ tx \in [Tx -> TxRow]
    /\ ecritures \in [Tx -> NbEcritures]
    /\ reverses \in [Voyage -> SUBSET Resa]

Init ==
    /\ voyages = [v \in Voyage |-> [statut |-> "absent", total |-> 0, restantes |-> 0]]
    /\ reservations = [r \in Resa |-> [statut |-> "absent", voyage |-> Aucun,
                                       places |-> 0, reste |-> -1, tx |-> Aucun]]
    /\ tx = [t \in Tx |-> [statut |-> "absente", resa |-> Aucun]]
    /\ ecritures = [t \in Tx |-> 0]
    /\ reverses = [v \in Voyage |-> {}]

-----------------------------------------------------------------------------
(* Sets of rows, and the arithmetic on seats *)

ResasDe(v, statuts) ==
    {r \in Resa : reservations[r].voyage = v /\ reservations[r].statut \in statuts}

\* The seats of a set of reservations, numbered from 1 in each of them.
Sieges(S) == {s \in S \X Place : s[2] <= reservations[s[1]].places}
NbSieges(S) == Cardinality(Sieges(S))

VoyageActif(v) == voyages[v].statut \in {"PUBLIE", "COMPLET", "EN_COURS"}

Expirees_mutStatut(v) == {r \in ResasDe(v, {"EN_ATTENTE"}) : reservations[r].reste <= 0}

\* The select of the two sweeps: unpaid, and paiement_expire_a <= now.
Expirees(v) == {r \in ResasDe(v, {"EN_ATTENTE_PAIEMENT"}) : reservations[r].reste <= 0}

Restitue_mutSansReouverture(x, n) == [x EXCEPT !.restantes = @ + n]

\* n seats handed back to the row x of voyages; a full trip reopens.
Restitue(x, n) ==
    [x EXCEPT !.restantes = @ + n,
              !.statut = IF @ = "COMPLET" /\ x.restantes + n > 0 THEN "PUBLIE" ELSE @]

RestitueSiOuvert_mutToujours(x, n) == Restitue(x, n)

\* Guarded form shared by _annuler_reservation and cancel_reservation.  When no
\* reservation is closed, n is 0 and the row is not touched.
RestitueSiOuvert(x, n) ==
    IF n = 0 \/ x.statut \in {"TERMINE", "ANNULE"} THEN x ELSE Restitue(x, n)

\* The form of reject_reservation: only before the departure.
RestitueSiReservable(x, n) ==
    IF x.statut \in {"PUBLIE", "COMPLET"}
    THEN [x EXCEPT !.restantes = @ + n, !.statut = "PUBLIE"]
    ELSE x

AvecStatut(S, s) ==
    [r \in Resa |-> IF r \in S THEN [reservations[r] EXCEPT !.statut = s] ELSE reservations[r]]

-----------------------------------------------------------------------------
(* Requests of the driver on a trip *)

\* The one-active-trip check answers 409 when it finds a trip and fails (500) when
\* it finds several.  KYC, presence, vehicle and fare ceiling are not modelled.
CreateVoyage(v, n) ==
    /\ voyages[v].statut = "absent"
    /\ ~ \E w \in Voyage : Conducteur[w] = Conducteur[v] /\ VoyageActif(w)
    /\ voyages' = [voyages EXCEPT ![v] = [statut |-> "PUBLIE", total |-> n, restantes |-> n]]
    /\ UNCHANGED <<reservations, tx, ecritures, reverses>>

StartVoyage(v) ==
    /\ voyages[v].statut \in {"PUBLIE", "COMPLET"}
    /\ voyages' = [voyages EXCEPT ![v].statut = "EN_COURS"]
    /\ UNCHANGED <<reservations, tx, ecritures, reverses>>

EndVoyage_mutSansFiltre(v) ==
    /\ voyages[v].statut = "EN_COURS"
    /\ voyages' = [voyages EXCEPT ![v].statut = "TERMINE"]
    /\ reservations' = AvecStatut(UNION {ResasDe(w, {"CONFIRMEE"}) : w \in Voyage}, "TERMINEE")
    /\ reverses' = [reverses EXCEPT ![v] = ResasDe(v, {"CONFIRMEE"})]
    /\ UNCHANGED <<tx, ecritures>>

\* The driver is paid for the CONFIRMEE reservations read before the bulk update.
EndVoyage(v) ==
    /\ voyages[v].statut = "EN_COURS"
    /\ voyages' = [voyages EXCEPT ![v].statut = "TERMINE"]
    /\ reservations' = AvecStatut(ResasDe(v, {"CONFIRMEE"}), "TERMINEE")
    /\ reverses' = [reverses EXCEPT ![v] = ResasDe(v, {"CONFIRMEE"})]
    /\ UNCHANGED <<tx, ecritures>>

CancelVoyage(v) ==
    /\ voyages[v].statut \in {"PUBLIE", "COMPLET"}
    /\ voyages' = [voyages EXCEPT ![v].statut = "ANNULE"]
    /\ reservations' = AvecStatut(ResasDe(v, {"EN_ATTENTE", "CONFIRMEE"}), "ANNULEE")
    /\ UNCHANGED <<tx, ecritures, reverses>>

\* The back office may also cancel a trip under way.
AdminCancelVoyage(v) ==
    /\ VoyageActif(v)
    /\ voyages' = [voyages EXCEPT ![v].statut = "ANNULE"]
    /\ reservations' = AvecStatut(ResasDe(v, {"EN_ATTENTE", "CONFIRMEE"}), "ANNULEE")
    /\ UNCHANGED <<tx, ecritures, reverses>>

-----------------------------------------------------------------------------
(* Requests of the client on a reservation *)

\* create_reservation first frees the expired seats of the trip; when it is then
\* refused (409) the exception also rolls that back.
CreateReservation(r, v, n) ==
    LET libere == RestitueSiOuvert(voyages[v], NbSieges(Expirees(v)))
    IN  /\ reservations[r].statut = "absent"
        /\ libere.statut = "PUBLIE"
        /\ libere.restantes >= n
        /\ voyages' = [voyages EXCEPT ![v] =
               [libere EXCEPT !.restantes = @ - n,
                              !.statut = IF libere.restantes = n THEN "COMPLET" ELSE @]]
        /\ reservations' = [AvecStatut(Expirees(v), "ANNULEE") EXCEPT ![r] =
               [statut |-> "EN_ATTENTE_PAIEMENT", voyage |-> v, places |-> n,
                reste |-> Delai, tx |-> Aucun]]
        /\ UNCHANGED <<tx, ecritures, reverses>>

PaiementAttendu(r) ==
    reservations[r].statut = "EN_ATTENTE_PAIEMENT" /\ reservations[r].reste >= 0

\* A second call replaces fedapay_transaction_id by the new collection.
InitierPaiement(r, t) ==
    /\ PaiementAttendu(r)
    /\ tx[t].statut = "absente"
    /\ tx' = [tx EXCEPT ![t] = [statut |-> "pending", resa |-> r]]
    /\ reservations' = [reservations EXCEPT ![r].tx = t]
    /\ UNCHANGED <<voyages, ecritures, reverses>>

\* create_transaction succeeds and get_payment_token fails: 500, rolled back, but
\* FedaPay keeps the collection.
InitierPaiementSansLien(r, t) ==
    /\ PaiementAttendu(r)
    /\ tx[t].statut = "absente"
    /\ tx' = [tx EXCEPT ![t] = [statut |-> "sans_lien", resa |-> r]]
    /\ UNCHANGED <<voyages, reservations, ecritures, reverses>>

CancelReservation_mutSansGarde(r) ==
    LET x == reservations[r]
    IN  /\ x.statut \in StatutReservation
        /\ voyages' = [voyages EXCEPT ![x.voyage] = RestitueSiOuvert(@, x.places)]
        /\ reservations' = AvecStatut({r}, "ANNULEE")
        /\ UNCHANGED <<tx, ecritures, reverses>>

CancelReservation(r) ==
    LET x == reservations[r]
    IN  /\ x.statut \in {"EN_ATTENTE_PAIEMENT", "EN_ATTENTE", "CONFIRMEE"}
        /\ voyages' = [voyages EXCEPT ![x.voyage] = RestitueSiOuvert(@, x.places)]
        /\ reservations' = AvecStatut({r}, "ANNULEE")
        /\ UNCHANGED <<tx, ecritures, reverses>>

-----------------------------------------------------------------------------
(* GET statut-paiement: verifier_et_confirmer_reservation.  It answers at once on
   EN_ATTENTE and without a collection; it does not look at the statut otherwise. *)

Interrogeable_mutSansRetour(r) ==
    reservations[r].statut \in PollStatuts /\ reservations[r].tx # Aucun

Interrogeable(r) ==
    /\ reservations[r].statut \in PollStatuts
    /\ reservations[r].statut # "EN_ATTENTE"
    /\ reservations[r].tx # Aucun

\* Bound: a poll on a reservation that no longer awaits its payment is only
\* tried while the trip's counter stays under MaxRestantes.
PollBorne(r) ==
    reservations[r].statut # "EN_ATTENTE_PAIEMENT" =>
        voyages[reservations[r].voyage].restantes + reservations[r].places <= MaxRestantes

\* _annuler_reservation
Annuler(r) ==
    LET x == reservations[r]
    IN  /\ voyages' = [voyages EXCEPT ![x.voyage] = RestitueSiOuvert(@, x.places)]
        /\ reservations' = AvecStatut({r}, "ANNULEE")
        /\ UNCHANGED <<tx, ecritures, reverses>>

\* _valider_paiement_reservation
Valider(r) ==
    LET t == reservations[r].tx
    IN  /\ reservations' = AvecStatut({r}, "EN_ATTENTE")
        /\ ecritures' = [ecritures EXCEPT ![t] = IF @ < 2 THEN @ + 1 ELSE @]
        /\ UNCHANGED <<voyages, tx, reverses>>

PollExpire(r) ==
    /\ Interrogeable(r) /\ PollBorne(r)
    /\ reservations[r].reste < 0
    /\ Annuler(r)

PollConfirme(r) ==
    /\ Interrogeable(r) /\ PollBorne(r)
    /\ reservations[r].reste >= 0
    /\ tx[reservations[r].tx].statut \in Succes
    /\ Valider(r)

PollEchec(r) ==
    /\ Interrogeable(r) /\ PollBorne(r)
    /\ reservations[r].reste >= 0
    /\ tx[reservations[r].tx].statut \in Echec
    /\ Annuler(r)

StatutPaiement(r) == PollExpire(r) \/ PollConfirme(r) \/ PollEchec(r)

-----------------------------------------------------------------------------
(* Requests of the driver and of the back office on a reservation *)

AcceptReservation_mutSansGarde(r) ==
    /\ reservations[r].statut \in StatutReservation
    /\ reservations' = AvecStatut({r}, "CONFIRMEE")
    /\ UNCHANGED <<voyages, tx, ecritures, reverses>>

\* The statut of the trip is not read.
AcceptReservation(r) ==
    /\ reservations[r].statut = "EN_ATTENTE"
    /\ reservations' = AvecStatut({r}, "CONFIRMEE")
    /\ UNCHANGED <<voyages, tx, ecritures, reverses>>

RejectReservation(r) ==
    LET x == reservations[r]
    IN  /\ x.statut = "EN_ATTENTE"
        /\ voyages' = [voyages EXCEPT ![x.voyage] = RestitueSiReservable(@, x.places)]
        /\ reservations' = AvecStatut({r}, "REFUSEE")
        /\ UNCHANGED <<tx, ecritures, reverses>>

\* The back office cancels without giving the seats back.
AdminCancelReservation(r) ==
    /\ reservations[r].statut \in {"EN_ATTENTE", "CONFIRMEE"}
    /\ reservations' = AvecStatut({r}, "ANNULEE")
    /\ UNCHANGED <<voyages, tx, ecritures, reverses>>

-----------------------------------------------------------------------------
(* The Celery sweep, the clock, and FedaPay *)

\* annuler_paiements_expires_async, every 60 seconds, in one transaction.
AnnulerPaiementsExpires ==
    LET expirees == UNION {Expirees(v) : v \in Voyage}
    IN  /\ expirees # {}
        /\ voyages' = [v \in Voyage |-> RestitueSiOuvert(voyages[v], NbSieges(Expirees(v)))]
        /\ reservations' = AvecStatut(expirees, "ANNULEE")
        /\ UNCHANGED <<tx, ecritures, reverses>>

Tick ==
    /\ \E r \in Resa : reservations[r].reste >= 0
    /\ reservations' = [r \in Resa |->
           [reservations[r] EXCEPT !.reste = IF @ >= 0 THEN @ - 1 ELSE @]]
    /\ UNCHANGED <<voyages, tx, ecritures, reverses>>

\* The client pays or gives up on FedaPay's page, or is refunded later; a link
\* replaced by a newer one stays payable.
FedaPay(t) ==
    /\ \/ tx[t].statut = "pending"  /\ tx' = [tx EXCEPT ![t].statut = "approved"]
       \/ tx[t].statut = "pending"  /\ tx' = [tx EXCEPT ![t].statut = "declined"]
       \/ tx[t].statut = "approved" /\ tx' = [tx EXCEPT ![t].statut = "refunded"]
    /\ UNCHANGED <<voyages, reservations, ecritures, reverses>>

Next ==
    \/ \E v \in Voyage : \/ \E n \in TotalPlaces : CreateVoyage(v, n)
                         \/ StartVoyage(v)
                         \/ EndVoyage(v)
                         \/ CancelVoyage(v)
                         \/ AdminCancelVoyage(v)
    \/ \E r \in Resa : \/ \E v \in Voyage, n \in PlacesDemandees : CreateReservation(r, v, n)
                       \/ \E t \in Tx : InitierPaiement(r, t)
                       \/ \E t \in Tx : InitierPaiementSansLien(r, t)
                       \/ StatutPaiement(r)
                       \/ AcceptReservation(r)
                       \/ RejectReservation(r)
                       \/ CancelReservation(r)
                       \/ AdminCancelReservation(r)
    \/ AnnulerPaiementsExpires
    \/ Tick
    \/ \E t \in Tx : FedaPay(t)

Spec == Init /\ [][Next]_vars

\* Time passes, and Celery beat keeps scheduling the sweep.
FairSpec == Spec /\ WF_vars(Tick) /\ WF_vars(AnnulerPaiementsExpires)

-----------------------------------------------------------------------------
(* Properties that hold however the clients poll *)

\* A trip is COMPLET exactly when its counter is 0 while it takes reservations, and
\* the counter never goes below 0 (create, reject, cancel, sweep and poll all move it).
CoherenceComplet ==
    \A v \in Voyage :
        /\ voyages[v].restantes >= 0
        /\ voyages[v].statut = "PUBLIE"  => voyages[v].restantes > 0
        /\ voyages[v].statut = "COMPLET" => voyages[v].restantes = 0

Encaissee(t) == tx[t].statut \in {"approved", "refunded"}

\* The statuts of a reservation that has been shown to the driver.
Montrees == {"EN_ATTENTE", "CONFIRMEE", "REFUSEE", "TERMINEE"}

\* A reservation the driver has been shown has a collection of its own that was really
\* paid and a row in transactions for it, whichever collection its link now names.
PayeeAvantVisible ==
    \A r \in Resa :
        reservations[r].statut \in Montrees =>
            \E t \in Tx : tx[t].resa = r /\ Encaissee(t) /\ ecritures[t] > 0

\* A reservation is only finished by the end of its trip, and then the driver has been
\* paid for it.
TermineeReversee ==
    \A r \in Resa :
        reservations[r].statut = "TERMINEE" =>
            /\ reservations[r].voyage # Aucun
            /\ voyages[reservations[r].voyage].statut = "TERMINE"
            /\ r \in reverses[reservations[r].voyage]

\* Nothing changes a trip that is finished or cancelled, nor what was paid for it: not
\* its counter either, whichever reservation of it is later cancelled or polled.
VoyageClosFige ==
    [][\A v \in Voyage : voyages[v].statut \in {"TERMINE", "ANNULE"} =>
           voyages'[v] = voyages[v] /\ reverses'[v] = reverses[v]]_vars

\* The reservations keep the promise of FraisPayes step by step: only a poll that finds the
\* collection paid shows one to the driver, only the driver confirms one.
Payees == {r \in Resa : \E t \in Tx : tx[t].resa = r /\ Encaissee(t)}
Frais == INSTANCE FraisPayes WITH
    Demande    <- Resa,
    payees     <- Payees,
    visibles   <- {r \in Resa : reservations[r].statut \in {"EN_ATTENTE", "CONFIRMEE"}},
    confirmees <- {r \in Resa : reservations[r].statut = "CONFIRMEE"}
TientLaPromesse == Frais!Spec

-----------------------------------------------------------------------------
(* Properties that need clients that stop polling once the payment is settled *)

Occupantes == {"EN_ATTENTE_PAIEMENT", "EN_ATTENTE", "CONFIRMEE", "TERMINEE"}

\* Seats are never sold twice: those held and those still on sale never exceed the
\* vehicle's seats.
PasDeSurreservation ==
    \A v \in Voyage :
        voyages[v].statut # "absent" =>
            NbSieges(ResasDe(v, Occupantes)) + voyages[v].restantes <= voyages[v].total

\* The driver was paid for exactly the reservations that were travelled.
ReversementExact ==
    \A v \in Voyage : reverses[v] = ResasDe(v, {"TERMINEE"})

\* A collection is entered at most once in the transactions.
EcritureUnique == \A t \in Tx : ecritures[t] <= 1

\* API_VOYAGES_RESERVATIONS.md:796: REFUSEE, ANNULEE and TERMINEE are irreversible.
TerminauxIrreversibles ==
    [][\A r \in Resa : reservations[r].statut \in {"REFUSEE", "ANNULEE", "TERMINEE"} =>
           reservations'[r].statut = reservations[r].statut]_vars

\* What becomes of that promise when clients go on polling: a reservation only comes back
\* from REFUSEE, ANNULEE or TERMINEE through a poll of the last collection opened for it,
\* shown to the driver again if it is paid in time, else closed as ANNULEE; nothing else
\* brings it back, and it is never back awaiting its payment.
RetourParPoll ==
    [][\A r \in Resa :
           LET x == reservations[r]
               nommee == tx[x.tx]
           IN  x.statut \in {"REFUSEE", "ANNULEE", "TERMINEE"} /\ reservations'[r].statut # x.statut =>
                   /\ x.tx # Aucun /\ nommee.resa = r
                   /\ \/ /\ reservations'[r].statut = "EN_ATTENTE"
                         /\ nommee.statut \in Succes /\ x.reste >= 0
                      \/ /\ reservations'[r].statut = "ANNULEE"
                         /\ nommee.statut \in Echec \/ x.reste < 0]_vars

\* An unpaid reservation does not block its seats for ever.
PlacesLiberees ==
    \A r \in Resa : reservations[r].statut = "EN_ATTENTE_PAIEMENT"
                        ~> reservations[r].statut # "EN_ATTENTE_PAIEMENT"

=============================================================================
