---------------------- MODULE ReservationsConcurrentes ----------------------
(***************************************************************************)
(* The requests of Reservations taken apart where others run in between:   *)
(* each SELECT, each call to FedaPay, and the commit.  READ COMMITTED, no  *)
(* row is locked by a SELECT, and an UPDATE carries the values computed    *)
(* from what was read, in the columns that differ from what was read.  An  *)
(* UPDATE locks its row until the commit, so a second one waits and then   *)
(* writes over it: every write is modelled at the commit.  Creating a trip *)
(* stays one action (module Chauffeurs takes it apart).                    *)
(*                                                                         *)
(* melanges is a history variable: the trips on which some request has     *)
(* committed although what it had read no longer held.                     *)
(***************************************************************************)
EXTENDS Reservations

CONSTANT Session      \* the requests and sweeps that can be in progress at once

VARIABLES
    session,          \* what each request in progress has read
    melanges          \* history: see above

varsC == <<voyages, reservations, tx, ecritures, reverses, session, melanges>>

SurVoyage == {"start_voyage", "end_voyage", "cancel_voyage", "admin_cancel_voyage"}
SurResa   == {"initier_paiement", "statut_paiement", "cancel_reservation",
              "accept_reservation", "reject_reservation", "admin_cancel_reservation"}
Operation == SurVoyage \cup SurResa \cup {"libre", "create_reservation", "balayage"}

Libre == [op |-> "libre", v |-> Aucun, r |-> Aucun, n |-> 0, vues |-> <<>>, lues |-> <<>>,
          choisi |-> FALSE, reponse |-> "absente"]

\* The tables keep their shape, and sales never take the counter of a trip below 0,
\* whatever was read too early: each writes a value that it computed from one it had
\* found large enough.  What a request in progress holds is a copy of the rows it has
\* read so far.
TypeOKC ==
    /\ TypeOK
    /\ \A v \in Voyage : voyages[v].restantes >= 0
    /\ melanges \subseteq Voyage
    /\ DOMAIN session = Session
    /\ \A s \in Session :
           LET q == session[s] IN
           /\ q = [op |-> q.op, v |-> q.v, r |-> q.r, n |-> q.n, vues |-> q.vues, lues |-> q.lues,
                   choisi |-> q.choisi, reponse |-> q.reponse]
           /\ q.op \in Operation
           /\ q.v \in Voyage \cup {Aucun}
           /\ q.r \in Resa \cup {Aucun}
           /\ q.n \in Place \cup {0}
           /\ \E S \in SUBSET Voyage : q.vues \in [S -> VoyageRow]
           /\ \E S \in SUBSET Resa : q.lues \in [S -> ResaRow]
           /\ q.choisi \in BOOLEAN
           /\ q.reponse \in StatutTx

InitC ==
    /\ Init
    /\ session = [s \in Session |-> Libre]
    /\ melanges = {}

-----------------------------------------------------------------------------
(* Reading *)

AvecVoyage(q, v)  == [q EXCEPT !.vues = [w \in DOMAIN @ \cup {v} |-> IF w = v THEN voyages[v] ELSE @[w]]]
\* Of the time left, a copy only needs whether it has run out.
Copie(r)          == [reservations[r] EXCEPT !.reste = IF @ < 0 THEN -1 ELSE 0]
AvecResas(q, S)   == [q EXCEPT !.lues = [r \in S |-> Copie(r)], !.choisi = TRUE]

Debuter(s, requete) ==
    /\ session[s] = Libre
    /\ session' = [session EXCEPT ![s] = requete]
    /\ UNCHANGED <<vars, melanges>>

Avancer(s, requete) ==
    /\ session' = [session EXCEPT ![s] = requete]
    /\ UNCHANGED <<vars, melanges>>

Ouverts_mutFinDouble(op) ==
    CASE op \in {"start_voyage", "cancel_voyage"} -> {"PUBLIE", "COMPLET"}
      [] op = "admin_cancel_voyage"               -> {"PUBLIE", "COMPLET", "EN_COURS"}
      [] op = "end_voyage"                        -> {"EN_COURS", "TERMINE"}

\* The statuts of the trip that each request on a trip lets through.
Ouverts(op) ==
    CASE op \in {"start_voyage", "cancel_voyage"} -> {"PUBLIE", "COMPLET"}
      [] op = "admin_cancel_voyage"               -> {"PUBLIE", "COMPLET", "EN_COURS"}
      [] op = "end_voyage"                        -> {"EN_COURS"}

LireVoyage(s, v, op) ==
    /\ voyages[v].statut \in Ouverts(op)
    /\ Debuter(s, AvecVoyage([Libre EXCEPT !.op = op, !.v = v], v))

\* What each request on a reservation tests on the row it reads.
Admise_mutSansStatut(r, op) ==
    CASE op = "initier_paiement" -> PaiementAttendu(r)
      [] op = "statut_paiement"  -> Interrogeable(r)
      [] op = "cancel_reservation" ->
             reservations[r].statut \in {"EN_ATTENTE_PAIEMENT", "EN_ATTENTE", "CONFIRMEE"}
      [] op \in {"accept_reservation", "reject_reservation"} -> reservations[r].statut # "absent"
      [] op = "admin_cancel_reservation" -> reservations[r].statut \in {"EN_ATTENTE", "CONFIRMEE"}

Admise(r, op) ==
    CASE op = "initier_paiement" -> PaiementAttendu(r)
      [] op = "statut_paiement"  -> Interrogeable(r)
      [] op = "cancel_reservation" ->
             reservations[r].statut \in {"EN_ATTENTE_PAIEMENT", "EN_ATTENTE", "CONFIRMEE"}
      [] op \in {"accept_reservation", "reject_reservation"} -> reservations[r].statut = "EN_ATTENTE"
      [] op = "admin_cancel_reservation" -> reservations[r].statut \in {"EN_ATTENTE", "CONFIRMEE"}

LireReservation(s, r, op) ==
    /\ Admise(r, op)
    /\ Debuter(s, AvecResas([Libre EXCEPT !.op = op, !.r = r], {r}))

\* r is the row that the request will insert; it is refused in any other statut.
CreateReservationLire(s, r, v, n) ==
    /\ reservations[r].statut = "absent"
    /\ \A autre \in Session : session[autre].r # r
    /\ voyages[v].statut \in {"PUBLIE", "COMPLET"}
    /\ Debuter(s, AvecVoyage([Libre EXCEPT !.op = "create_reservation", !.r = r, !.v = v, !.n = n], v))

\* The trip that a create_reservation has read, with the seats of the reservations
\* that it expires, and the test it then passes.
Libere(q) == RestitueSiOuvert(q.vues[q.v], NbSieges(DOMAIN q.lues))
Vendable(q) == Libere(q).statut = "PUBLIE" /\ Libere(q).restantes >= q.n

\* The select of expirer_reservations_voyage, and the one of end_voyage.
Choisir(s) ==
    LET q == session[s] IN
    /\ ~q.choisi
    /\ \/ /\ q.op = "create_reservation"
          /\ Vendable(AvecResas(q, Expirees(q.v)))
          /\ Avancer(s, AvecResas(q, Expirees(q.v)))
       \/ /\ q.op = "end_voyage"
          /\ Avancer(s, AvecResas(q, ResasDe(q.v, {"CONFIRMEE"})))

\* The first select of annuler_paiements_expires_async.
Balayer(s) ==
    LET expirees == UNION {Expirees(v) : v \in Voyage} IN
    /\ expirees # {}
    /\ Debuter(s, AvecResas([Libre EXCEPT !.op = "balayage"], expirees))

\* statut-paiement awaits FedaPay; an answer that is neither ends it.
Interroger(s) ==
    LET q == session[s] IN
    /\ q.op = "statut_paiement"
    /\ q.lues[q.r].reste >= 0
    /\ q.reponse = "absente"
    /\ tx[q.lues[q.r].tx].statut \in Succes \cup Echec
    /\ Avancer(s, [q EXCEPT !.reponse = tx[q.lues[q.r].tx].statut])

\* The reservations it has read that a request will close and give back the seats of.
ARendre(q) ==
    IF \/ q.op \in {"cancel_reservation", "reject_reservation", "balayage"}
       \/ q.op = "statut_paiement" /\ (q.lues[q.r].reste < 0 \/ q.reponse \in Echec)
    THEN DOMAIN q.lues ELSE {}

\* db.get(Voyage) of the paths that give seats back, after the reservation is read.
LireSonVoyage(s, v) ==
    LET q == session[s] IN
    /\ v \in {q.lues[r].voyage : r \in ARendre(q)} \ DOMAIN q.vues
    /\ Avancer(s, AvecVoyage(q, v))

-----------------------------------------------------------------------------
(* Whether what a request has read still holds.  A change of the clock counts only
   for the requests that compare paiement_expire_a with the time. *)

MemeResa(x, y, op) ==
    /\ [x EXCEPT !.reste = 0] = [y EXCEPT !.reste = 0]
    /\ op \in {"initier_paiement", "statut_paiement"} => (x.reste < 0 <=> y.reste < 0)

Tient(s) ==
    LET q == session[s] IN
    /\ \A v \in DOMAIN q.vues : voyages[v] = q.vues[v]
    /\ \A r \in DOMAIN q.lues : MemeResa(reservations[r], q.lues[r], q.op)
    /\ q.op = "create_reservation" => DOMAIN q.lues = Expirees(q.v)
    /\ q.op = "balayage" => DOMAIN q.lues = UNION {Expirees(v) : v \in Voyage}
    /\ q.op = "end_voyage" => DOMAIN q.lues = ResasDe(q.v, {"CONFIRMEE"})
    /\ q.reponse # "absente" => tx[q.lues[q.r].tx].statut = q.reponse

Clore(s) ==
    LET q == session[s] IN
    /\ session' = [session EXCEPT ![s] = Libre]
    /\ melanges' = IF Tient(s) THEN melanges
                   ELSE melanges \cup DOMAIN q.vues \cup {q.lues[r].voyage : r \in DOMAIN q.lues}

\* Refused, failed, or nothing to write: the transaction is rolled back.
Abandon(s) ==
    /\ session[s] # Libre
    /\ session' = [session EXCEPT ![s] = Libre]
    /\ UNCHANGED <<vars, melanges>>

-----------------------------------------------------------------------------
(* Committing *)

\* The UPDATE of a row read as lu and left as vers: the other columns stay.
Ecrite(ligne, lu, vers) ==
    [c \in DOMAIN ligne |-> IF lu[c] = vers[c] THEN ligne[c] ELSE vers[c]]

\* The reservations of copies, with their statut assigned.
Classees(copies, statut) ==
    [r \in Resa |-> IF r \in DOMAIN copies
                    THEN Ecrite(reservations[r], copies[r], [copies[r] EXCEPT !.statut = statut])
                    ELSE reservations[r]]

Rendus_mutSansDistinction(q) ==
    LET libere(v) ==
            RestitueSiOuvert(q.vues[v], NbSieges({r \in DOMAIN q.lues : q.lues[r].voyage = v}))
    IN  [v \in Voyage |-> IF v \in DOMAIN q.vues THEN Ecrite(voyages[v], q.vues[v], libere(v))
                          ELSE voyages[v]]

\* The trips that q has read, given back the seats of the reservations it closes.
Rendus(q) ==
    LET libere(v) ==
            LET places == NbSieges({r \in DOMAIN q.lues : q.lues[r].voyage = v}) IN
            IF q.op = "reject_reservation" THEN RestitueSiReservable(q.vues[v], places)
            ELSE RestitueSiOuvert(q.vues[v], places)
    IN  [v \in Voyage |-> IF v \in DOMAIN q.vues THEN Ecrite(voyages[v], q.vues[v], libere(v))
                          ELSE voyages[v]]

\* cancel, reject, an expired or failed poll, the sweep.
Rendre(s) ==
    LET q == session[s] IN
    /\ ARendre(q) # {}
    /\ \A r \in ARendre(q) : q.lues[r].voyage \in DOMAIN q.vues
    /\ voyages' = Rendus(q)
    /\ reservations' = Classees(q.lues, IF q.op = "reject_reservation" THEN "REFUSEE" ELSE "ANNULEE")
    /\ Clore(s)
    /\ UNCHANGED <<tx, ecritures, reverses>>

CreateReservationValider_mutRelatif(s) ==
    LET q == session[s]
        lu == q.vues[q.v]
        libere == Libere(q)
    IN  /\ q.op = "create_reservation" /\ q.choisi
        /\ voyages' = [voyages EXCEPT ![q.v].restantes = @ + libere.restantes - lu.restantes - q.n,
                                      ![q.v].statut = IF libere.restantes = q.n THEN "COMPLET" ELSE @]
        /\ reservations' = [Classees(q.lues, "ANNULEE") EXCEPT ![q.r] =
               [statut |-> "EN_ATTENTE_PAIEMENT", voyage |-> q.v, places |-> q.n,
                reste |-> Delai, tx |-> Aucun]]
        /\ Clore(s)
        /\ UNCHANGED <<tx, ecritures, reverses>>

\* The seats freed are flushed before the seats sold.
CreateReservationValider(s) ==
    LET q == session[s]
        vendu == [Libere(q) EXCEPT !.restantes = @ - q.n,
                                   !.statut = IF Libere(q).restantes = q.n THEN "COMPLET" ELSE @]
    IN  /\ q.op = "create_reservation" /\ q.choisi
        /\ voyages' = [voyages EXCEPT ![q.v] =
               Ecrite(Ecrite(@, q.vues[q.v], Libere(q)), Libere(q), vendu)]
        /\ reservations' = [Classees(q.lues, "ANNULEE") EXCEPT ![q.r] =
               [statut |-> "EN_ATTENTE_PAIEMENT", voyage |-> q.v, places |-> q.n,
                reste |-> Delai, tx |-> Aucun]]
        /\ Clore(s)
        /\ UNCHANGED <<tx, ecritures, reverses>>

\* FedaPay knows the collection before the commit; its link is given after it.
InitierPaiementValider(s, t) ==
    LET q == session[s] IN
    /\ q.op = "initier_paiement"
    /\ tx[t].statut = "absente"
    /\ \/ /\ tx' = [tx EXCEPT ![t] = [statut |-> "pending", resa |-> q.r]]
          /\ reservations' = [reservations EXCEPT ![q.r].tx = t]
       \/ /\ tx' = [tx EXCEPT ![t] = [statut |-> "sans_lien", resa |-> q.r]]
          /\ UNCHANGED reservations
    /\ Clore(s)
    /\ UNCHANGED <<voyages, ecritures, reverses>>

\* _valider_paiement_reservation
StatutPaiementValider(s) ==
    LET q == session[s] IN
    /\ q.op = "statut_paiement"
    /\ q.reponse \in Succes
    /\ reservations' = Classees(q.lues, "EN_ATTENTE")
    /\ ecritures' = [ecritures EXCEPT ![q.lues[q.r].tx] = IF @ < 2 THEN @ + 1 ELSE @]
    /\ Clore(s)
    /\ UNCHANGED <<voyages, tx, reverses>>

\* accept_reservation, and the back office's cancel, which gives no seat back.
ClasserValider(s) ==
    LET q == session[s] IN
    /\ \/ q.op = "accept_reservation"       /\ reservations' = Classees(q.lues, "CONFIRMEE")
       \/ q.op = "admin_cancel_reservation" /\ reservations' = Classees(q.lues, "ANNULEE")
    /\ Clore(s)
    /\ UNCHANGED <<voyages, tx, ecritures, reverses>>

\* start, cancel and end: the statut of the trip is assigned, and the bulk UPDATE
\* finds the reservations as they are when it runs.  end_voyage pays for those it
\* had selected.
VoyageValider(s) ==
    LET q == session[s]
        assigne(statut) == [voyages EXCEPT ![q.v].statut = statut]
    IN  /\ \/ /\ q.op = "start_voyage"
              /\ voyages' = assigne("EN_COURS")
              /\ UNCHANGED <<reservations, reverses>>
           \/ /\ q.op \in {"cancel_voyage", "admin_cancel_voyage"}
              /\ voyages' = assigne("ANNULE")
              /\ reservations' = AvecStatut(ResasDe(q.v, {"EN_ATTENTE", "CONFIRMEE"}), "ANNULEE")
              /\ UNCHANGED reverses
           \/ /\ q.op = "end_voyage" /\ q.choisi
              /\ voyages' = assigne("TERMINE")
              /\ reservations' = AvecStatut(ResasDe(q.v, {"CONFIRMEE"}), "TERMINEE")
              /\ reverses' = [reverses EXCEPT ![q.v] = DOMAIN q.lues]
        /\ Clore(s)
        /\ UNCHANGED <<tx, ecritures>>

Externe(action) == action /\ UNCHANGED <<session, melanges>>

NextC ==
    \/ Externe(\/ \E v \in Voyage, n \in TotalPlaces : CreateVoyage(v, n)
               \/ Tick
               \/ \E t \in Tx : FedaPay(t))
    \/ \E s \in Session :
           \/ \E v \in Voyage, op \in SurVoyage : LireVoyage(s, v, op)
           \/ \E r \in Resa, op \in SurResa : LireReservation(s, r, op)
           \/ \E r \in Resa, v \in Voyage, n \in PlacesDemandees : CreateReservationLire(s, r, v, n)
           \/ \E v \in Voyage : LireSonVoyage(s, v)
           \/ \E t \in Tx : InitierPaiementValider(s, t)
           \/ Choisir(s) \/ Balayer(s) \/ Interroger(s) \/ Abandon(s)
           \/ Rendre(s) \/ CreateReservationValider(s) \/ StatutPaiementValider(s)
           \/ ClasserValider(s) \/ VoyageValider(s)

SpecC == InitC /\ [][NextC]_varsC

-----------------------------------------------------------------------------
(* Properties *)

\* The atomic actions of Reservations are what the requests do as long as what they
\* read still holds when they commit: such a commit is a step of Reservations, and
\* nothing but a commit, the clock and FedaPay changes a table.
Serialisable ==
    [][(\A s \in Session : session'[s] = Libre /\ session[s] # Libre => Tient(s)) => [Next]_vars]_varsC

\* A request that commits on a stale reading only spoils the trips that it had read.  On
\* every other trip, whatever raced elsewhere, a full trip is COMPLET and no other, no seat
\* is sold twice, the driver is paid for what was travelled, and no collection is entered
\* twice: what the runs of Reservations check of requests that run one at a time.
SansMelange ==
    \A v \in Voyage \ melanges :
        /\ voyages[v].statut = "PUBLIE"  => voyages[v].restantes > 0
        /\ voyages[v].statut = "COMPLET" => voyages[v].restantes = 0
        /\ voyages[v].statut # "absent" =>
               NbSieges(ResasDe(v, Occupantes)) + voyages[v].restantes <= voyages[v].total
        /\ reverses[v] = ResasDe(v, {"TERMINEE"})
        /\ \A t \in Tx : \A r \in ResasDe(v, StatutReservation) : tx[t].resa = r => ecritures[t] <= 1

\* The life of a reservation: <<from, to>>.
Vie ==
    ({"EN_ATTENTE_PAIEMENT"} \X {"EN_ATTENTE", "ANNULEE"})
      \cup ({"EN_ATTENTE"} \X {"CONFIRMEE", "REFUSEE", "ANNULEE"})
      \cup ({"CONFIRMEE"} \X {"TERMINEE", "ANNULEE"})

\* Nor does it disturb, on another trip, the life of a reservation, nor bring back what is
\* finished or cancelled: what the API documents, where nothing stale was written.
VieSansMelange ==
    [][\A v \in Voyage \ melanges' :
           /\ voyages[v].statut \in {"TERMINE", "ANNULE"} =>
                  voyages'[v] = voyages[v] /\ reverses'[v] = reverses[v]
           /\ \A r \in ResasDe(v, StatutReservation) :
                  reservations'[r].statut # reservations[r].statut =>
                      <<reservations[r].statut, reservations'[r].statut>> \in Vie]_varsC
=============================================================================
