------------------------ MODULE ReservationsProofs ------------------------
(***************************************************************************)
(* Theorems about Reservations, for every set of trips, reservations and   *)
(* collections, every expiry delay and every polling habit of the clients; *)
(* those that need clients who stop polling once the payment is settled    *)
(* say so (Sobre).  The last part is about ReservationsConcurrentes, for   *)
(* every number of requests in progress.                                   *)
(***************************************************************************)
EXTENDS ReservationsConcurrentes, FiniteSetTheorems, TLAPS

\* What a row refers to exists and refers back to it.
Liens ==
    \A r \in Resa :
        /\ reservations[r].statut # "absent" =>
               reservations[r].voyage \in Voyage /\ reservations[r].places \in Place
        /\ reservations[r].tx # Aucun =>
               tx[reservations[r].tx].resa = r /\ tx[reservations[r].tx].statut # "absente"

\* The inductive invariant.
IInv == TypeOK /\ Liens /\ CoherenceComplet /\ PayeeAvantVisible /\ TermineeReversee

-----------------------------------------------------------------------------
(* Seats *)

\* The seats of a set of reservations, in a given table of them.
Prises(f, S) == Cardinality({s \in S \X Place : s[2] <= f[s[1]].places})

\* The seats of a set of reservations are finitely many.
LEMMA PrisesNat ==
    ASSUME NEW f, NEW S \in SUBSET Resa
    PROVE  /\ IsFiniteSet({s \in S \X Place : s[2] <= f[s[1]].places})
           /\ Prises(f, S) \in Nat
<1>1. IsFiniteSet(Place)
  <2>1. 1 \in Int /\ 8 \in Int
    OBVIOUS
  <2> QED
    BY <2>1, FS_Interval, Zenon DEF Place
<1>2. IsFiniteSet(S)
  BY FS_Subset, FiniAssumption
<1>3. IsFiniteSet(S \X Place)
  BY <1>1, <1>2, FS_Product
<1>4. {s \in S \X Place : s[2] <= f[s[1]].places} \in SUBSET (S \X Place)
  OBVIOUS
<1>5. IsFiniteSet({s \in S \X Place : s[2] <= f[s[1]].places})
  BY <1>3, <1>4, FS_Subset
<1> QED
  BY <1>5, FS_CardinalityType DEF Prises

LEMMA NbSiegesNat ==
    ASSUME NEW S \in SUBSET Resa
    PROVE  IsFiniteSet(Sieges(S)) /\ NbSieges(S) \in Nat
  BY PrisesNat DEF Sieges, NbSieges, Prises

\* Handing seats back keeps the row of a trip well formed, leaves a closed trip alone
\* and keeps the statut and the counter in step.
LEMMA RestitueProps ==
    ASSUME NEW x \in VoyageRow, NEW n \in Nat
    PROVE  /\ Restitue(x, n) \in VoyageRow
           /\ Restitue(x, n).restantes = x.restantes + n
           /\ Restitue(x, n).total = x.total
           /\ Restitue(x, n).statut = IF x.statut = "COMPLET" /\ x.restantes + n > 0
                                      THEN "PUBLIE" ELSE x.statut
<1> DEFINE s == IF x.statut = "COMPLET" /\ x.restantes + n > 0 THEN "PUBLIE" ELSE x.statut
<1>1. x.statut \in StatutVoyage \cup {"absent"} /\ x.restantes + n \in Int
  BY DEF VoyageRow
<1>2. s \in StatutVoyage \cup {"absent"}
  BY <1>1 DEF StatutVoyage
<1>3. Restitue(x, n) = [x EXCEPT !.restantes = @ + n, !.statut = s]
  BY DEF Restitue
<1> HIDE DEF s
<1>4. [x EXCEPT !.restantes = @ + n, !.statut = s] \in VoyageRow
  BY <1>1, <1>2 DEF VoyageRow
<1>5. /\ Restitue(x, n).restantes = x.restantes + n
      /\ Restitue(x, n).total = x.total
      /\ Restitue(x, n).statut = s
  BY <1>3 DEF VoyageRow
<1> QED
  BY <1>3, <1>4, <1>5 DEF s

LEMMA RestitueSiOuvertProps ==
    ASSUME NEW x \in VoyageRow, NEW n \in Nat
    PROVE  LET y == RestitueSiOuvert(x, n)
           IN  /\ y \in VoyageRow
               /\ x.statut \in {"TERMINE", "ANNULE"} => y = x
               /\ y.statut # x.statut => x.statut = "COMPLET" /\ y.statut = "PUBLIE"
               /\ x.restantes >= 0 => y.restantes >= 0
               /\ (x.statut = "PUBLIE" => x.restantes > 0)
                    /\ (x.statut = "COMPLET" => x.restantes = 0)
                  => /\ y.statut = "PUBLIE" => y.restantes > 0
                     /\ y.statut = "COMPLET" => y.restantes = 0
<1> DEFINE y == RestitueSiOuvert(x, n)
<1>1. x.statut \in StatutVoyage \cup {"absent"} /\ x.restantes \in Int
  BY DEF VoyageRow
<1>2. CASE n = 0 \/ x.statut \in {"TERMINE", "ANNULE"}
  <2>1. y = x
    BY <1>2 DEF RestitueSiOuvert
  <2> QED
    BY <1>1, <1>2, <2>1
<1>3. CASE ~ (n = 0 \/ x.statut \in {"TERMINE", "ANNULE"})
  <2>1. y = Restitue(x, n)
    BY <1>3 DEF RestitueSiOuvert
  <2>2. /\ y \in VoyageRow
        /\ y.restantes = x.restantes + n
        /\ y.statut = IF x.statut = "COMPLET" /\ x.restantes + n > 0 THEN "PUBLIE" ELSE x.statut
    BY <2>1, RestitueProps
  <2> HIDE DEF y
  <2> SUFFICES /\ y \in VoyageRow
               /\ y.statut # x.statut => x.statut = "COMPLET" /\ y.statut = "PUBLIE"
               /\ x.restantes >= 0 => y.restantes >= 0
               /\ (x.statut = "PUBLIE" => x.restantes > 0)
                    /\ (x.statut = "COMPLET" => x.restantes = 0)
                  => /\ y.statut = "PUBLIE" => y.restantes > 0
                     /\ y.statut = "COMPLET" => y.restantes = 0
    BY <1>3 DEF y
  <2>3. x.restantes >= 0 => y.restantes >= 0
    BY <1>1, <2>2
  <2>4. y.statut # x.statut => x.statut = "COMPLET" /\ y.statut = "PUBLIE"
    BY <2>2
  <2>5. CASE x.statut = "COMPLET"
    BY <1>1, <2>2, <2>3, <2>4, <2>5
  <2>6. CASE x.statut # "COMPLET"
    BY <1>1, <2>2, <2>3, <2>4, <2>6
  <2> QED
    BY <2>5, <2>6
<1> QED
  BY <1>2, <1>3

LEMMA RestitueSiReservableProps ==
    ASSUME NEW x \in VoyageRow, NEW n \in Nat
    PROVE  LET y == RestitueSiReservable(x, n)
           IN  /\ y \in VoyageRow
               /\ x.statut \in {"TERMINE", "ANNULE"} => y = x
               /\ x.restantes >= 0 => y.restantes >= 0
               /\ x.restantes >= 0 /\ n > 0 => (y.statut = "PUBLIE" => y.restantes > 0)
               /\ y.statut # "COMPLET"
<1> DEFINE y == RestitueSiReservable(x, n)
<1>1. CASE x.statut \in {"PUBLIE", "COMPLET"}
  <2>1. y = [x EXCEPT !.restantes = @ + n, !.statut = "PUBLIE"]
    BY <1>1 DEF RestitueSiReservable
  <2>2. x.restantes \in Int /\ x.restantes + n \in Int
    BY DEF VoyageRow
  <2>3. y \in VoyageRow
    BY <2>1, <2>2 DEF VoyageRow, StatutVoyage
  <2>4. y.restantes = x.restantes + n /\ y.statut = "PUBLIE"
    BY <2>1 DEF VoyageRow
  <2> HIDE DEF y
  <2>5. /\ x.restantes >= 0 => y.restantes >= 0
        /\ x.restantes >= 0 /\ n > 0 => y.restantes > 0
    BY <2>2, <2>4
  <2> QED
    BY <1>1, <2>3, <2>4, <2>5 DEF y
<1>2. CASE x.statut \notin {"PUBLIE", "COMPLET"}
  <2>1. y = x
    BY <1>2 DEF RestitueSiReservable
  <2> QED
    BY <1>2, <2>1
<1> QED
  BY <1>1, <1>2

\* A bulk change of statut touches no other column.
LEMMA AvecStatutProps ==
    ASSUME TypeOK, NEW S \in SUBSET Resa, NEW s \in StatutReservation
    PROVE  /\ AvecStatut(S, s) \in [Resa -> ResaRow]
           /\ \A r \in Resa :
                /\ AvecStatut(S, s)[r].statut = IF r \in S THEN s ELSE reservations[r].statut
                /\ AvecStatut(S, s)[r].voyage = reservations[r].voyage
                /\ AvecStatut(S, s)[r].tx = reservations[r].tx
                /\ AvecStatut(S, s)[r].places = reservations[r].places
  BY DEF AvecStatut, TypeOK, ResaRow

\* Handing seats back to any one trip keeps the table of trips well formed.
LEMMA RestitutionType ==
    ASSUME TypeOK, NEW v, NEW n \in Nat
    PROVE  [voyages EXCEPT ![v] = RestitueSiOuvert(@, n)] \in [Voyage -> VoyageRow]
<1>1. \A w \in Voyage : RestitueSiOuvert(voyages[w], n) \in VoyageRow
  BY RestitueSiOuvertProps DEF TypeOK
<1> QED
  BY <1>1 DEF TypeOK

LEMMA ResasDeSubset == \A v, X : ResasDe(v, X) \in SUBSET Resa
  BY DEF ResasDe

LEMMA ExpireesSubset == \A v : Expirees(v) \in SUBSET Resa
  BY DEF Expirees, ResasDe

-----------------------------------------------------------------------------
(* Type correctness *)

LEMMA InitType == Init => TypeOK
  BY DelaiAssumption DEF Init, TypeOK, VoyageRow, ResaRow, TxRow, NbEcritures, TempsRestant, StatutTx

LEMMA NextType == TypeOK /\ [Next]_vars => TypeOK'
<1> SUFFICES ASSUME TypeOK, [Next]_vars
             PROVE  TypeOK'
  OBVIOUS
<1> USE AvecStatutProps, ResasDeSubset, ExpireesSubset
<1>1. ASSUME NEW v \in Voyage, NEW n \in TotalPlaces, CreateVoyage(v, n)
      PROVE  TypeOK'
  <2>1. [statut |-> "PUBLIE", total |-> n, restantes |-> n] \in VoyageRow
    BY PlacesAssumption DEF VoyageRow, StatutVoyage, Place
  <2> QED
    BY <1>1, <2>1 DEF CreateVoyage, TypeOK
<1>2. ASSUME NEW v \in Voyage, StartVoyage(v)
      PROVE  TypeOK'
  BY <1>2 DEF StartVoyage, TypeOK, VoyageRow, StatutVoyage
<1>3. ASSUME NEW v \in Voyage, EndVoyage(v)
      PROVE  TypeOK'
  BY <1>3 DEF EndVoyage, TypeOK, VoyageRow, StatutVoyage, StatutReservation
<1>4. ASSUME NEW v \in Voyage, CancelVoyage(v) \/ AdminCancelVoyage(v)
      PROVE  TypeOK'
  <2>1. /\ voyages' = [voyages EXCEPT ![v].statut = "ANNULE"]
        /\ reservations' = AvecStatut(ResasDe(v, {"EN_ATTENTE", "CONFIRMEE"}), "ANNULEE")
        /\ UNCHANGED <<tx, ecritures, reverses>>
    BY <1>4 DEF CancelVoyage, AdminCancelVoyage
  <2>2. voyages' \in [Voyage -> VoyageRow]
    BY <2>1 DEF TypeOK, VoyageRow, StatutVoyage
  <2> QED
    BY <2>1, <2>2 DEF TypeOK, StatutReservation
<1>5. ASSUME NEW r \in Resa, NEW v \in Voyage, NEW n \in PlacesDemandees,
             CreateReservation(r, v, n)
      PROVE  TypeOK'
  <2> DEFINE libere == RestitueSiOuvert(voyages[v], NbSieges(Expirees(v)))
             ouvert == [libere EXCEPT !.restantes = @ - n,
                                      !.statut = IF libere.restantes = n THEN "COMPLET" ELSE @]
             neuve  == [statut |-> "EN_ATTENTE_PAIEMENT", voyage |-> v, places |-> n,
                        reste |-> Delai, tx |-> Aucun]
  <2>1. libere \in VoyageRow
    BY NbSiegesNat, RestitueSiOuvertProps DEF TypeOK
  <2>2. neuve \in ResaRow
    BY PlacesAssumption, DelaiAssumption DEF ResaRow, StatutReservation, TempsRestant
  <2>3. ouvert \in VoyageRow
    <3> DEFINE s == IF libere.restantes = n THEN "COMPLET" ELSE libere.statut
    <3>1. n \in Int
      BY PlacesAssumption DEF Place
    <3>2. s \in StatutVoyage \cup {"absent"}
      BY <2>1 DEF VoyageRow, StatutVoyage
    <3>3. ouvert = [libere EXCEPT !.restantes = @ - n, !.statut = s]
      OBVIOUS
    <3> HIDE DEF s, libere, ouvert
    <3>4. libere.restantes - n \in Int
      BY <2>1, <3>1 DEF VoyageRow
    <3> QED
      BY <2>1, <3>2, <3>3, <3>4 DEF VoyageRow
  <2>4. /\ voyages' = [voyages EXCEPT ![v] = ouvert]
        /\ reservations' = [AvecStatut(Expirees(v), "ANNULEE") EXCEPT ![r] = neuve]
        /\ UNCHANGED <<tx, ecritures, reverses>>
    BY <1>5 DEF CreateReservation
  <2> HIDE DEF libere, ouvert, neuve
  <2> QED
    BY <2>2, <2>3, <2>4 DEF TypeOK, StatutReservation
<1>6. ASSUME NEW r \in Resa, NEW t \in Tx, InitierPaiement(r, t)
      PROVE  TypeOK'
  <2>1. tx' \in [Tx -> TxRow]
    BY <1>6 DEF InitierPaiement, TypeOK, TxRow, StatutTx
  <2>2. reservations' \in [Resa -> ResaRow]
    BY <1>6 DEF InitierPaiement, TypeOK, ResaRow
  <2> QED
    BY <1>6, <2>1, <2>2 DEF InitierPaiement, TypeOK
<1>7. ASSUME NEW r \in Resa, NEW t \in Tx, InitierPaiementSansLien(r, t)
      PROVE  TypeOK'
  BY <1>7 DEF InitierPaiementSansLien, TypeOK, TxRow, StatutTx
<1>8. ASSUME NEW r \in Resa, CancelReservation(r) \/ Annuler(r)
      PROVE  TypeOK'
  <2>1. reservations[r].places \in Nat
    BY DEF TypeOK, ResaRow, Place
  <2>2. /\ voyages' = [voyages EXCEPT ![reservations[r].voyage] =
                           RestitueSiOuvert(@, reservations[r].places)]
        /\ reservations' = AvecStatut({r}, "ANNULEE")
        /\ UNCHANGED <<tx, ecritures, reverses>>
    BY <1>8 DEF CancelReservation, Annuler
  <2>3. voyages' \in [Voyage -> VoyageRow]
    BY <2>1, <2>2, RestitutionType
  <2> QED
    BY <2>2, <2>3 DEF TypeOK, StatutReservation
<1>9. ASSUME NEW r \in Resa, Valider(r)
      PROVE  TypeOK'
  <2>1. reservations' \in [Resa -> ResaRow]
    BY <1>9 DEF Valider, StatutReservation
  <2>2. ecritures' \in [Tx -> NbEcritures]
    <3>1. \A t \in Tx : (IF ecritures[t] < 2 THEN ecritures[t] + 1 ELSE ecritures[t]) \in NbEcritures
      BY DEF TypeOK, NbEcritures
    <3> QED
      BY <1>9, <3>1 DEF Valider, TypeOK
  <2> QED
    BY <1>9, <2>1, <2>2 DEF Valider, TypeOK
<1>10. ASSUME NEW r \in Resa, AcceptReservation(r) \/ AdminCancelReservation(r)
       PROVE  TypeOK'
  BY <1>10 DEF AcceptReservation, AdminCancelReservation, TypeOK, StatutReservation
<1>11. ASSUME NEW r \in Resa, RejectReservation(r)
       PROVE  TypeOK'
  <2>1. reservations[r].places \in Nat
    BY DEF TypeOK, ResaRow, Place
  <2>2. \A w \in Voyage : RestitueSiReservable(voyages[w], reservations[r].places) \in VoyageRow
    BY <2>1, RestitueSiReservableProps DEF TypeOK
  <2>3. voyages' = [voyages EXCEPT ![reservations[r].voyage] =
                        RestitueSiReservable(@, reservations[r].places)]
    BY <1>11 DEF RejectReservation
  <2>4. voyages' \in [Voyage -> VoyageRow]
    BY <2>2, <2>3 DEF TypeOK
  <2> QED
    BY <1>11, <2>4 DEF RejectReservation, TypeOK, StatutReservation
<1>12. ASSUME AnnulerPaiementsExpires
       PROVE  TypeOK'
  <2>1. \A v \in Voyage : RestitueSiOuvert(voyages[v], NbSieges(Expirees(v))) \in VoyageRow
    BY NbSiegesNat, RestitueSiOuvertProps DEF TypeOK
  <2>2. UNION {Expirees(v) : v \in Voyage} \in SUBSET Resa
    OBVIOUS
  <2> QED
    BY <1>12, <2>1, <2>2 DEF AnnulerPaiementsExpires, TypeOK, StatutReservation
<1>13. ASSUME Tick
       PROVE  TypeOK'
  <2>1. \A r \in Resa : [reservations[r] EXCEPT !.reste = IF @ >= 0 THEN @ - 1 ELSE @] \in ResaRow
    BY DelaiAssumption DEF TypeOK, ResaRow, TempsRestant
  <2> QED
    BY <1>13, <2>1 DEF Tick, TypeOK
<1>14. ASSUME NEW t \in Tx, FedaPay(t)
       PROVE  TypeOK'
  <2>1. \E s \in StatutTx : tx' = [tx EXCEPT ![t].statut = s]
    BY <1>14 DEF FedaPay, StatutTx
  <2>2. tx' \in [Tx -> TxRow]
    BY <2>1 DEF TypeOK, TxRow
  <2> QED
    BY <1>14, <2>2 DEF FedaPay, TypeOK
<1>15. CASE UNCHANGED vars
  BY <1>15 DEF vars, TypeOK
<1> QED
  BY <1>1, <1>2, <1>3, <1>4, <1>5, <1>6, <1>7, <1>8, <1>9, <1>10, <1>11, <1>12, <1>13, <1>14,
     <1>15 DEF Next, StatutPaiement, PollExpire, PollConfirme, PollEchec

\* Every row of every table keeps its type, whatever the interleaving of requests.
THEOREM TypeCorrect == Spec => []TypeOK
<1>1. Init => TypeOK
  BY InitType
<1>2. TypeOK /\ [Next]_vars => TypeOK'
  BY NextType
<1> QED
  BY <1>1, <1>2, PTL DEF Spec

-----------------------------------------------------------------------------
(* What a bulk change of statut preserves *)

LEMMA LiensAvecStatut ==
    ASSUME TypeOK, Liens, NEW S \in SUBSET Resa, NEW s \in StatutReservation,
           \A r \in S : reservations[r].statut # "absent",
           reservations' = AvecStatut(S, s),
           UNCHANGED tx
    PROVE  Liens'
<1>1. \A r \in Resa : /\ reservations'[r].statut = IF r \in S THEN s ELSE reservations[r].statut
                      /\ reservations'[r].voyage = reservations[r].voyage
                      /\ reservations'[r].tx = reservations[r].tx
                      /\ reservations'[r].places = reservations[r].places
  BY AvecStatutProps
<1>2. \A r \in Resa : reservations[r].tx # Aucun => reservations[r].tx \in Tx
  BY DEF TypeOK, ResaRow
<1> QED
  BY <1>1, <1>2 DEF Liens

LEMMA PayeeAvecStatut ==
    ASSUME TypeOK, PayeeAvantVisible, NEW S \in SUBSET Resa, NEW s \in StatutReservation,
           s \in Montrees => \A r \in S : reservations[r].statut \in Montrees,
           reservations' = AvecStatut(S, s), UNCHANGED <<tx, ecritures>>
    PROVE  PayeeAvantVisible'
<1>1. \A r \in Resa : reservations'[r].statut = IF r \in S THEN s ELSE reservations[r].statut
  BY AvecStatutProps
<1>2. ASSUME NEW r \in Resa, reservations'[r].statut \in Montrees
      PROVE  \E t \in Tx : tx'[t].resa = r /\ Encaissee(t)' /\ ecritures'[t] > 0
  <2>1. reservations[r].statut \in Montrees
    BY <1>1, <1>2
  <2>2. PICK t \in Tx : tx[t].resa = r /\ Encaissee(t) /\ ecritures[t] > 0
    BY <2>1 DEF PayeeAvantVisible
  <2> QED
    BY <2>2 DEF Encaissee
<1> QED
  BY <1>2 DEF PayeeAvantVisible

LEMMA TermineeAvecStatut ==
    ASSUME TypeOK, TermineeReversee, NEW S \in SUBSET Resa, NEW s \in StatutReservation,
           s # "TERMINEE", reservations' = AvecStatut(S, s),
           \A v \in Voyage : voyages[v].statut = "TERMINE" =>
               voyages'[v] = voyages[v] /\ reverses'[v] = reverses[v]
    PROVE  TermineeReversee'
<1>1. \A r \in Resa : /\ reservations'[r].statut = IF r \in S THEN s ELSE reservations[r].statut
                      /\ reservations'[r].voyage = reservations[r].voyage
  BY AvecStatutProps
<1>2. \A r \in Resa : reservations[r].voyage # Aucun => reservations[r].voyage \in Voyage
  BY DEF TypeOK, ResaRow
<1> QED
  BY <1>1, <1>2 DEF TermineeReversee

-----------------------------------------------------------------------------
(* Closed trips *)

LEMMA ClosFigeStep ==
    ASSUME TypeOK, [Next]_vars, NEW v \in Voyage, voyages[v].statut \in {"TERMINE", "ANNULE"}
    PROVE  voyages'[v] = voyages[v] /\ reverses'[v] = reverses[v]
<1>1. ASSUME NEW n \in Nat
      PROVE  RestitueSiOuvert(voyages[v], n) = voyages[v]
  BY DEF RestitueSiOuvert
<1>2. ASSUME NEW n
      PROVE  RestitueSiReservable(voyages[v], n) = voyages[v]
  BY DEF RestitueSiReservable
<1>3. ASSUME NEW w \in Voyage,
             (\E n \in TotalPlaces : CreateVoyage(w, n)) \/ StartVoyage(w) \/ EndVoyage(w)
               \/ CancelVoyage(w) \/ AdminCancelVoyage(w)
      PROVE  voyages'[v] = voyages[v] /\ reverses'[v] = reverses[v]
  <2>1. w # v
    BY <1>3 DEF CreateVoyage, StartVoyage, EndVoyage, CancelVoyage, AdminCancelVoyage, VoyageActif
  <2>2. \A u \in Voyage : u # w => voyages'[u] = voyages[u] /\ reverses'[u] = reverses[u]
    BY <1>3 DEF CreateVoyage, StartVoyage, EndVoyage, CancelVoyage, AdminCancelVoyage, TypeOK
  <2> QED
    BY <2>1, <2>2
<1>4. ASSUME NEW r \in Resa, NEW w \in Voyage, NEW n \in PlacesDemandees, CreateReservation(r, w, n)
      PROVE  voyages'[v] = voyages[v] /\ reverses'[v] = reverses[v]
  <2>1. w # v
    BY <1>1, <1>4, NbSiegesNat, ExpireesSubset DEF CreateReservation
  <2> QED
    BY <1>4, <2>1 DEF CreateReservation, TypeOK
<1>5. ASSUME NEW r \in Resa, CancelReservation(r) \/ Annuler(r)
      PROVE  voyages'[v] = voyages[v] /\ reverses'[v] = reverses[v]
  <2>1. reservations[r].places \in Nat
    BY DEF TypeOK, ResaRow, Place
  <2> QED
    BY <1>1, <1>5, <2>1 DEF CancelReservation, Annuler, TypeOK
<1>6. ASSUME NEW r \in Resa, RejectReservation(r)
      PROVE  voyages'[v] = voyages[v] /\ reverses'[v] = reverses[v]
  BY <1>2, <1>6 DEF RejectReservation, TypeOK
<1>7. ASSUME AnnulerPaiementsExpires
      PROVE  voyages'[v] = voyages[v] /\ reverses'[v] = reverses[v]
  BY <1>1, <1>7, NbSiegesNat, ExpireesSubset DEF AnnulerPaiementsExpires
<1>8. ASSUME UNCHANGED <<voyages, reverses>>
      PROVE  voyages'[v] = voyages[v] /\ reverses'[v] = reverses[v]
  BY <1>8
<1>9. ASSUME NEW r \in Resa,
             (\E t \in Tx : InitierPaiement(r, t) \/ InitierPaiementSansLien(r, t))
               \/ Valider(r) \/ AcceptReservation(r) \/ AdminCancelReservation(r)
      PROVE  UNCHANGED <<voyages, reverses>>
  BY <1>9 DEF InitierPaiement, InitierPaiementSansLien, Valider, AcceptReservation, AdminCancelReservation
<1>10. (Tick \/ \E t \in Tx : FedaPay(t)) \/ UNCHANGED vars => UNCHANGED <<voyages, reverses>>
  BY DEF Tick, FedaPay, vars
<1> QED
  BY <1>3, <1>4, <1>5, <1>6, <1>7, <1>8, <1>9, <1>10
     DEF Next, StatutPaiement, PollExpire, PollConfirme, PollEchec

\* Once a trip is finished or cancelled neither its row nor what its driver was paid for
\* ever changes again, whatever is later cancelled, swept or polled (VoyageClosFige).
THEOREM ClosFige == Spec => VoyageClosFige
<1>1. TypeOK /\ [Next]_vars =>
        [\A v \in Voyage : voyages[v].statut \in {"TERMINE", "ANNULE"} =>
             voyages'[v] = voyages[v] /\ reverses'[v] = reverses[v]]_vars
  BY ClosFigeStep
<1> QED
  BY <1>1, TypeCorrect, PTL DEF Spec, VoyageClosFige

-----------------------------------------------------------------------------
(* The inductive invariant, one conjunct at a time *)

LEMMA NextLiens == IInv /\ TypeOK' /\ [Next]_vars => Liens'
<1> SUFFICES ASSUME IInv, TypeOK', [Next]_vars
             PROVE  Liens'
  OBVIOUS
<1> USE DEF IInv
<1>1. ASSUME NEW v \in Voyage, EndVoyage(v) \/ CancelVoyage(v) \/ AdminCancelVoyage(v)
      PROVE  Liens'
  <2>1. PICK S \in SUBSET Resa, s \in StatutReservation :
            /\ reservations' = AvecStatut(S, s)
            /\ \A r \in S : reservations[r].statut # "absent"
    BY <1>1 DEF EndVoyage, CancelVoyage, AdminCancelVoyage, ResasDe, StatutReservation
  <2>2. tx' = tx
    BY <1>1 DEF EndVoyage, CancelVoyage, AdminCancelVoyage
  <2> QED
    BY <2>1, <2>2, LiensAvecStatut
<1>2. ASSUME NEW r \in Resa, NEW v \in Voyage, NEW n \in PlacesDemandees, CreateReservation(r, v, n)
      PROVE  Liens'
  <2>1. /\ reservations'[r].voyage = v
        /\ reservations'[r].places = n
        /\ reservations'[r].tx = Aucun
    BY <1>2, AvecStatutProps, ExpireesSubset DEF CreateReservation, StatutReservation
  <2>2. \A q \in Resa : q # r => /\ reservations'[q].voyage = reservations[q].voyage
                                 /\ reservations'[q].places = reservations[q].places
                                 /\ reservations'[q].tx = reservations[q].tx
    BY <1>2, AvecStatutProps, ExpireesSubset DEF CreateReservation, StatutReservation
  <2>3. \A q \in Resa : q # r /\ reservations'[q].statut # "absent" => reservations[q].statut # "absent"
    <3>1. \A q \in Expirees(v) : reservations[q].statut # "absent"
      BY DEF Expirees, ResasDe
    <3>2. \A q \in Resa : q # r =>
             reservations'[q].statut = IF q \in Expirees(v) THEN "ANNULEE" ELSE reservations[q].statut
      BY <1>2, AvecStatutProps, ExpireesSubset DEF CreateReservation, StatutReservation
    <3> QED
      BY <3>1, <3>2
  <2>4. tx' = tx /\ n \in Place
    BY <1>2, PlacesAssumption DEF CreateReservation
  <2> QED
    BY <2>1, <2>2, <2>3, <2>4 DEF Liens
<1>3. ASSUME NEW r \in Resa, NEW t \in Tx, InitierPaiement(r, t)
      PROVE  Liens'
  <2>1. \A q \in Resa : /\ reservations'[q].statut = reservations[q].statut
                        /\ reservations'[q].voyage = reservations[q].voyage
                        /\ reservations'[q].places = reservations[q].places
                        /\ reservations'[q].tx = IF q = r THEN t ELSE reservations[q].tx
    BY <1>3 DEF InitierPaiement, TypeOK, ResaRow
  <2>2. tx'[t].resa = r /\ tx'[t].statut = "pending" /\ \A u \in Tx : u # t => tx'[u] = tx[u]
    BY <1>3 DEF InitierPaiement, TypeOK
  <2>3. \A q \in Resa : q # r /\ reservations[q].tx # Aucun =>
            /\ reservations[q].tx \in Tx
            /\ tx'[reservations[q].tx].resa = q
            /\ tx'[reservations[q].tx].statut # "absente"
    <3> SUFFICES ASSUME NEW q \in Resa, q # r, reservations[q].tx # Aucun,
                        reservations[q].tx = t
                 PROVE  FALSE
      BY <2>2 DEF Liens, TypeOK, ResaRow
    <3>1. tx[t].statut # "absente"
      BY DEF Liens
    <3>2. tx[t].statut = "absente"
      BY <1>3 DEF InitierPaiement
    <3> QED
      BY <3>1, <3>2
  <2> QED
    BY <2>1, <2>2, <2>3 DEF Liens
<1>4. ASSUME NEW r \in Resa, NEW t \in Tx, InitierPaiementSansLien(r, t)
      PROVE  Liens'
  <2>1. \A u \in Tx : tx[u].statut # "absente" => tx'[u] = tx[u]
    BY <1>4 DEF InitierPaiementSansLien, TypeOK
  <2>2. reservations' = reservations
    BY <1>4 DEF InitierPaiementSansLien
  <2> QED
    BY <2>1, <2>2 DEF Liens, TypeOK, ResaRow
<1>5. ASSUME NEW r \in Resa,
             CancelReservation(r) \/ AdminCancelReservation(r) \/ AcceptReservation(r)
               \/ RejectReservation(r) \/ StatutPaiement(r)
      PROVE  Liens'
  <2>1. reservations[r].statut # "absent"
    BY <1>5, PollAssumption DEF CancelReservation, AdminCancelReservation, AcceptReservation,
       RejectReservation, StatutPaiement, PollExpire, PollConfirme, PollEchec, Interrogeable,
       StatutReservation
  <2>2. PICK s \in StatutReservation : reservations' = AvecStatut({r}, s)
    BY <1>5 DEF CancelReservation, AdminCancelReservation, AcceptReservation,
       RejectReservation, StatutPaiement, PollExpire, PollConfirme, PollEchec, Annuler, Valider,
       StatutReservation
  <2>3. tx' = tx
    BY <1>5 DEF CancelReservation, AdminCancelReservation, AcceptReservation,
       RejectReservation, StatutPaiement, PollExpire, PollConfirme, PollEchec, Annuler, Valider
  <2> QED
    BY <2>1, <2>2, <2>3, LiensAvecStatut
<1>6. ASSUME AnnulerPaiementsExpires
      PROVE  Liens'
  <2> DEFINE S == UNION {Expirees(v) : v \in Voyage}
  <2>1. S \in SUBSET Resa /\ \A r \in S : reservations[r].statut # "absent"
    BY DEF Expirees, ResasDe
  <2>2. reservations' = AvecStatut(S, "ANNULEE") /\ tx' = tx
    BY <1>6 DEF AnnulerPaiementsExpires
  <2> HIDE DEF S
  <2> QED
    BY <2>1, <2>2, LiensAvecStatut DEF StatutReservation
<1>7. ASSUME Tick
      PROVE  Liens'
  <2>1. \A r \in Resa : /\ reservations'[r].statut = reservations[r].statut
                        /\ reservations'[r].voyage = reservations[r].voyage
                        /\ reservations'[r].places = reservations[r].places
                        /\ reservations'[r].tx = reservations[r].tx
    BY <1>7 DEF Tick, TypeOK, ResaRow
  <2> QED
    BY <1>7, <2>1 DEF Tick, Liens
<1>8. ASSUME NEW t \in Tx, FedaPay(t)
      PROVE  Liens'
  <2>1. \A u \in Tx : tx'[u].resa = tx[u].resa /\ (tx[u].statut # "absente" => tx'[u].statut # "absente")
    BY <1>8 DEF FedaPay, TypeOK, TxRow
  <2>2. reservations' = reservations
    BY <1>8 DEF FedaPay
  <2> QED
    BY <2>1, <2>2 DEF Liens, TypeOK, ResaRow
<1>9. ASSUME NEW v \in Voyage, (\E n \in TotalPlaces : CreateVoyage(v, n)) \/ StartVoyage(v)
      PROVE  Liens'
  BY <1>9 DEF CreateVoyage, StartVoyage, Liens
<1>10. CASE UNCHANGED vars
  BY <1>10 DEF vars, Liens
<1> QED
  BY <1>1, <1>2, <1>3, <1>4, <1>5, <1>6, <1>7, <1>8, <1>9, <1>10 DEF Next

\* The row of one trip: statut and counter agree.
RowCoherente(x) ==
    /\ x.restantes >= 0
    /\ x.statut = "PUBLIE" => x.restantes > 0
    /\ x.statut = "COMPLET" => x.restantes = 0

LEMMA RestitutionCoherente ==
    ASSUME NEW x \in VoyageRow, NEW n \in Nat, RowCoherente(x)
    PROVE  /\ RowCoherente(RestitueSiOuvert(x, n))
           /\ n > 0 => RowCoherente(RestitueSiReservable(x, n))
<1>1. RowCoherente(RestitueSiOuvert(x, n))
  BY RestitueSiOuvertProps DEF RowCoherente
<1>2. n > 0 => RowCoherente(RestitueSiReservable(x, n))
  BY RestitueSiReservableProps DEF RowCoherente
<1> QED
  BY <1>1, <1>2

LEMMA RowStep ==
    TypeOK /\ Liens /\ [Next]_vars =>
        \A w \in Voyage : RowCoherente(voyages[w]) => RowCoherente(voyages'[w])
<1> SUFFICES ASSUME TypeOK, Liens, [Next]_vars, NEW w \in Voyage, RowCoherente(voyages[w])
             PROVE  RowCoherente(voyages'[w])
  OBVIOUS
<1>1. RowCoherente(voyages[w]) /\ \A v \in Voyage : voyages[v] \in VoyageRow
  BY DEF TypeOK
<1>2. ASSUME NEW v \in Voyage, NEW n \in TotalPlaces, CreateVoyage(v, n)
      PROVE  RowCoherente(voyages'[w])
  <2>1. RowCoherente([statut |-> "PUBLIE", total |-> n, restantes |-> n])
    BY PlacesAssumption DEF RowCoherente, Place
  <2> QED
    BY <1>1, <1>2, <2>1 DEF CreateVoyage, TypeOK
<1>3. ASSUME NEW v \in Voyage,
             StartVoyage(v) \/ EndVoyage(v) \/ CancelVoyage(v) \/ AdminCancelVoyage(v)
      PROVE  RowCoherente(voyages'[w])
  <2>1. PICK s \in {"EN_COURS", "TERMINE", "ANNULE"} : voyages' = [voyages EXCEPT ![v].statut = s]
    BY <1>3 DEF StartVoyage, EndVoyage, CancelVoyage, AdminCancelVoyage
  <2>2. voyages'[v].statut = s /\ voyages'[v].restantes = voyages[v].restantes
    BY <2>1 DEF TypeOK, VoyageRow
  <2>3. w # v => voyages'[w] = voyages[w]
    BY <2>1 DEF TypeOK
  <2> QED
    BY <1>1, <2>2, <2>3 DEF RowCoherente
<1>4. ASSUME NEW r \in Resa, NEW v \in Voyage, NEW n \in PlacesDemandees, CreateReservation(r, v, n)
      PROVE  RowCoherente(voyages'[w])
  <2> DEFINE libere == RestitueSiOuvert(voyages[v], NbSieges(Expirees(v)))
             ouvert == [libere EXCEPT !.restantes = @ - n,
                                      !.statut = IF libere.restantes = n THEN "COMPLET" ELSE @]
  <2>1. libere \in VoyageRow /\ libere.statut = "PUBLIE" /\ libere.restantes >= n
    BY <1>1, <1>4, NbSiegesNat, ExpireesSubset, RestitueSiOuvertProps DEF CreateReservation
  <2>2. voyages' = [voyages EXCEPT ![v] = ouvert]
    BY <1>4 DEF CreateReservation
  <2>3. n \in Nat
    BY PlacesAssumption DEF Place
  <2> HIDE DEF libere
  <2>4. /\ ouvert.restantes = libere.restantes - n
        /\ ouvert.statut = IF libere.restantes = n THEN "COMPLET" ELSE "PUBLIE"
    BY <2>1 DEF VoyageRow
  <2>5. libere.restantes \in Int
    BY <2>1 DEF VoyageRow
  <2> HIDE DEF ouvert
  <2>6. RowCoherente(ouvert)
    BY <2>1, <2>3, <2>4, <2>5 DEF RowCoherente
  <2> QED
    BY <1>1, <2>2, <2>6 DEF TypeOK
<1>5. ASSUME NEW r \in Resa, CancelReservation(r) \/ Annuler(r)
      PROVE  RowCoherente(voyages'[w])
  <2>1. reservations[r].places \in Nat
    BY DEF TypeOK, ResaRow, Place
  <2>2. voyages' = [voyages EXCEPT ![reservations[r].voyage] =
                        RestitueSiOuvert(@, reservations[r].places)]
    BY <1>5 DEF CancelReservation, Annuler
  <2> QED
    BY <1>1, <2>1, <2>2, RestitutionCoherente DEF TypeOK
<1>6. ASSUME NEW r \in Resa, RejectReservation(r)
      PROVE  RowCoherente(voyages'[w])
  <2>1. reservations[r].places \in Nat /\ reservations[r].places > 0
    BY <1>6 DEF Liens, Place, RejectReservation
  <2>2. voyages' = [voyages EXCEPT ![reservations[r].voyage] =
                        RestitueSiReservable(@, reservations[r].places)]
    BY <1>6 DEF RejectReservation
  <2> QED
    BY <1>1, <2>1, <2>2, RestitutionCoherente DEF TypeOK
<1>7. ASSUME AnnulerPaiementsExpires
      PROVE  RowCoherente(voyages'[w])
  BY <1>1, <1>7, NbSiegesNat, ExpireesSubset, RestitutionCoherente DEF AnnulerPaiementsExpires
<1>8. ASSUME UNCHANGED voyages
      PROVE  RowCoherente(voyages'[w])
  BY <1>1, <1>8
<1>9. ASSUME NEW r \in Resa,
             (\E t \in Tx : InitierPaiement(r, t) \/ InitierPaiementSansLien(r, t))
               \/ Valider(r) \/ AcceptReservation(r) \/ AdminCancelReservation(r)
      PROVE  UNCHANGED voyages
  BY <1>9 DEF InitierPaiement, InitierPaiementSansLien, Valider, AcceptReservation, AdminCancelReservation
<1>10. (Tick \/ \E t \in Tx : FedaPay(t)) \/ UNCHANGED vars => UNCHANGED voyages
  BY DEF Tick, FedaPay, vars
<1> QED
  BY <1>2, <1>3, <1>4, <1>5, <1>6, <1>7, <1>8, <1>9, <1>10
     DEF Next, StatutPaiement, PollExpire, PollConfirme, PollEchec

LEMMA NextCoherence == IInv /\ [Next]_vars => CoherenceComplet'
<1> SUFFICES ASSUME IInv, [Next]_vars
             PROVE  \A w \in Voyage : RowCoherente(voyages'[w])
  BY DEF CoherenceComplet, RowCoherente
<1>1. \A w \in Voyage : RowCoherente(voyages[w])
  BY DEF IInv, CoherenceComplet, RowCoherente
<1> QED
  BY <1>1, RowStep DEF IInv

LEMMA NextPayee == IInv /\ [Next]_vars => PayeeAvantVisible'
<1> SUFFICES ASSUME IInv, [Next]_vars
             PROVE  PayeeAvantVisible'
  OBVIOUS
<1> USE DEF IInv
<1>1. ASSUME NEW v \in Voyage, EndVoyage(v) \/ CancelVoyage(v) \/ AdminCancelVoyage(v)
      PROVE  PayeeAvantVisible'
  <2>1. PICK S \in SUBSET Resa, s \in StatutReservation :
            /\ reservations' = AvecStatut(S, s)
            /\ s \in Montrees => \A r \in S : reservations[r].statut \in Montrees
    BY <1>1 DEF EndVoyage, CancelVoyage, AdminCancelVoyage, ResasDe, StatutReservation, Montrees
  <2>2. UNCHANGED <<tx, ecritures>>
    BY <1>1 DEF EndVoyage, CancelVoyage, AdminCancelVoyage
  <2> QED
    BY <2>1, <2>2, PayeeAvecStatut
<1>2. ASSUME NEW r \in Resa, NEW v \in Voyage, NEW n \in PlacesDemandees, CreateReservation(r, v, n)
      PROVE  PayeeAvantVisible'
  <2>1. \A q \in Resa : reservations'[q].statut =
            IF q = r THEN "EN_ATTENTE_PAIEMENT"
            ELSE IF q \in Expirees(v) THEN "ANNULEE" ELSE reservations[q].statut
    BY <1>2, AvecStatutProps, ExpireesSubset DEF CreateReservation, StatutReservation
  <2>2. UNCHANGED <<tx, ecritures>>
    BY <1>2 DEF CreateReservation
  <2>3. \A q \in Resa : reservations'[q].statut \in Montrees => reservations[q].statut \in Montrees
    BY <2>1 DEF Montrees
  <2> QED
    BY <2>2, <2>3 DEF PayeeAvantVisible, Encaissee
<1>3. ASSUME NEW r \in Resa, NEW t \in Tx,
             InitierPaiement(r, t) \/ InitierPaiementSansLien(r, t)
      PROVE  PayeeAvantVisible'
  <2>1. \A q \in Resa : reservations'[q].statut = reservations[q].statut
    BY <1>3 DEF InitierPaiement, InitierPaiementSansLien, TypeOK, ResaRow
  <2>2. \A u \in Tx : Encaissee(u) => tx'[u] = tx[u]
    BY <1>3 DEF InitierPaiement, InitierPaiementSansLien, TypeOK, Encaissee
  <2>3. ecritures' = ecritures
    BY <1>3 DEF InitierPaiement, InitierPaiementSansLien
  <2> QED
    BY <2>1, <2>2, <2>3 DEF PayeeAvantVisible, Encaissee
<1>4. ASSUME NEW r \in Resa,
             CancelReservation(r) \/ AdminCancelReservation(r) \/ AcceptReservation(r)
               \/ RejectReservation(r) \/ Annuler(r)
      PROVE  PayeeAvantVisible'
  <2>1. PICK s \in StatutReservation :
            /\ reservations' = AvecStatut({r}, s)
            /\ s \in Montrees => reservations[r].statut \in Montrees
    BY <1>4 DEF CancelReservation, AdminCancelReservation, AcceptReservation, RejectReservation,
       Annuler, StatutReservation, Montrees
  <2>2. UNCHANGED <<tx, ecritures>>
    BY <1>4 DEF CancelReservation, AdminCancelReservation, AcceptReservation, RejectReservation, Annuler
  <2> QED
    BY <2>1, <2>2, PayeeAvecStatut
<1>5. ASSUME NEW r \in Resa, PollConfirme(r)
      PROVE  PayeeAvantVisible'
  <2> DEFINE t == reservations[r].tx
  <2>1. t \in Tx /\ tx[t].resa = r /\ Encaissee(t)
    BY <1>5 DEF PollConfirme, Interrogeable, Liens, TypeOK, ResaRow, Encaissee, Succes
  <2>2. /\ \A q \in Resa : q # r => reservations'[q].statut = reservations[q].statut
        /\ tx' = tx
    BY <1>5, AvecStatutProps DEF PollConfirme, Valider, StatutReservation
  <2>3. /\ ecritures'[t] > 0
        /\ \A u \in Tx : ecritures[u] > 0 => ecritures'[u] > 0
    <3>1. ecritures' = [ecritures EXCEPT ![t] = IF @ < 2 THEN @ + 1 ELSE @]
      BY <1>5 DEF PollConfirme, Valider
    <3>2. \A u \in Tx : ecritures[u] \in {0, 1, 2}
      BY DEF TypeOK, NbEcritures
    <3> HIDE DEF t
    <3> QED
      BY <2>1, <3>1, <3>2 DEF TypeOK
  <2>4. ASSUME NEW q \in Resa, reservations'[q].statut \in Montrees
        PROVE  \E u \in Tx : tx'[u].resa = q /\ Encaissee(u)' /\ ecritures'[u] > 0
    <3>1. CASE q = r
      BY <2>1, <2>2, <2>3, <3>1 DEF Encaissee
    <3>2. CASE q # r
      BY <2>2, <2>3, <2>4, <3>2 DEF Encaissee, PayeeAvantVisible
    <3> QED
      BY <3>1, <3>2
  <2> QED
    BY <2>4 DEF PayeeAvantVisible
<1>6. ASSUME AnnulerPaiementsExpires
      PROVE  PayeeAvantVisible'
  <2> DEFINE S == UNION {Expirees(v) : v \in Voyage}
  <2>1. S \in SUBSET Resa
    BY ExpireesSubset
  <2>2. reservations' = AvecStatut(S, "ANNULEE") /\ UNCHANGED <<tx, ecritures>>
    BY <1>6 DEF AnnulerPaiementsExpires
  <2>3. "ANNULEE" \in StatutReservation /\ "ANNULEE" \notin Montrees
    BY DEF StatutReservation, Montrees
  <2> HIDE DEF S
  <2> QED
    BY <2>1, <2>2, <2>3, PayeeAvecStatut
<1>7. ASSUME Tick
      PROVE  PayeeAvantVisible'
  <2>1. \A q \in Resa : reservations'[q].statut = reservations[q].statut
    BY <1>7 DEF Tick, TypeOK, ResaRow
  <2> QED
    BY <1>7, <2>1 DEF Tick, PayeeAvantVisible, Encaissee
<1>8. ASSUME NEW t \in Tx, FedaPay(t)
      PROVE  PayeeAvantVisible'
  <2>1. \A u \in Tx : tx'[u].resa = tx[u].resa /\ (Encaissee(u) => Encaissee(u)')
    BY <1>8 DEF FedaPay, TypeOK, TxRow, Encaissee
  <2>2. UNCHANGED <<reservations, ecritures>>
    BY <1>8 DEF FedaPay
  <2> QED
    BY <2>1, <2>2 DEF PayeeAvantVisible
<1>9. ASSUME NEW v \in Voyage, (\E n \in TotalPlaces : CreateVoyage(v, n)) \/ StartVoyage(v)
      PROVE  PayeeAvantVisible'
  BY <1>9 DEF CreateVoyage, StartVoyage, PayeeAvantVisible, Encaissee
<1>10. CASE UNCHANGED vars
  BY <1>10 DEF vars, PayeeAvantVisible, Encaissee
<1> QED
  BY <1>1, <1>2, <1>3, <1>4, <1>5, <1>6, <1>7, <1>8, <1>9, <1>10
     DEF Next, StatutPaiement, PollExpire, PollEchec

LEMMA NextTerminee == IInv /\ [Next]_vars => TermineeReversee'
<1> SUFFICES ASSUME IInv, [Next]_vars
             PROVE  TermineeReversee'
  OBVIOUS
<1> USE DEF IInv
<1>0. \A v \in Voyage : voyages[v].statut = "TERMINE" =>
          voyages'[v] = voyages[v] /\ reverses'[v] = reverses[v]
  BY ClosFigeStep
<1>1. ASSUME NEW v \in Voyage, EndVoyage(v)
      PROVE  TermineeReversee'
  <2> DEFINE S == ResasDe(v, {"CONFIRMEE"})
  <2>1. \A r \in Resa : /\ reservations'[r].statut = IF r \in S THEN "TERMINEE" ELSE reservations[r].statut
                        /\ reservations'[r].voyage = reservations[r].voyage
    BY <1>1, AvecStatutProps, ResasDeSubset DEF EndVoyage, StatutReservation
  <2>2. voyages'[v].statut = "TERMINE" /\ reverses'[v] = S
    BY <1>1 DEF EndVoyage, TypeOK, VoyageRow
  <2>3. \A r \in S : reservations[r].voyage = v /\ v # Aucun
    BY AucunAssumption DEF ResasDe
  <2>4. \A r \in Resa : reservations[r].voyage # Aucun => reservations[r].voyage \in Voyage
    BY DEF TypeOK, ResaRow
  <2> HIDE DEF S
  <2> QED
    BY <1>0, <2>1, <2>2, <2>3, <2>4 DEF TermineeReversee
<1>2. ASSUME NEW v \in Voyage, CancelVoyage(v) \/ AdminCancelVoyage(v)
      PROVE  TermineeReversee'
  <2>1. reservations' = AvecStatut(ResasDe(v, {"EN_ATTENTE", "CONFIRMEE"}), "ANNULEE")
    BY <1>2 DEF CancelVoyage, AdminCancelVoyage
  <2> QED
    BY <1>0, <2>1, ResasDeSubset, TermineeAvecStatut DEF StatutReservation
<1>3. ASSUME NEW r \in Resa, NEW v \in Voyage, NEW n \in PlacesDemandees, CreateReservation(r, v, n)
      PROVE  TermineeReversee'
  <2>1. \A q \in Resa : reservations'[q].statut = "TERMINEE" =>
            /\ reservations[q].statut = "TERMINEE"
            /\ reservations'[q].voyage = reservations[q].voyage
    BY <1>3, AvecStatutProps, ExpireesSubset DEF CreateReservation, StatutReservation
  <2>2. \A q \in Resa : reservations[q].voyage # Aucun => reservations[q].voyage \in Voyage
    BY DEF TypeOK, ResaRow
  <2> QED
    BY <1>0, <2>1, <2>2 DEF TermineeReversee
<1>4. ASSUME NEW r \in Resa,
             CancelReservation(r) \/ AdminCancelReservation(r) \/ AcceptReservation(r)
               \/ RejectReservation(r) \/ Annuler(r) \/ Valider(r)
      PROVE  TermineeReversee'
  <2>1. PICK s \in StatutReservation : s # "TERMINEE" /\ reservations' = AvecStatut({r}, s)
    BY <1>4 DEF CancelReservation, AdminCancelReservation, AcceptReservation, RejectReservation,
       Annuler, Valider, StatutReservation
  <2> QED
    BY <1>0, <2>1, TermineeAvecStatut
<1>5. ASSUME AnnulerPaiementsExpires
      PROVE  TermineeReversee'
  <2> DEFINE S == UNION {Expirees(v) : v \in Voyage}
  <2>1. S \in SUBSET Resa
    BY ExpireesSubset
  <2>2. reservations' = AvecStatut(S, "ANNULEE")
    BY <1>5 DEF AnnulerPaiementsExpires
  <2> HIDE DEF S
  <2> QED
    BY <1>0, <2>1, <2>2, TermineeAvecStatut DEF StatutReservation
<1>6. ASSUME NEW r \in Resa, NEW t \in Tx,
             InitierPaiement(r, t) \/ InitierPaiementSansLien(r, t)
      PROVE  TermineeReversee'
  <2>1. \A q \in Resa : /\ reservations'[q].statut = reservations[q].statut
                        /\ reservations'[q].voyage = reservations[q].voyage
    BY <1>6 DEF InitierPaiement, InitierPaiementSansLien, TypeOK, ResaRow
  <2>2. UNCHANGED <<voyages, reverses>>
    BY <1>6 DEF InitierPaiement, InitierPaiementSansLien
  <2> QED
    BY <2>1, <2>2 DEF TermineeReversee
<1>7. ASSUME Tick
      PROVE  TermineeReversee'
  <2>1. \A q \in Resa : /\ reservations'[q].statut = reservations[q].statut
                        /\ reservations'[q].voyage = reservations[q].voyage
    BY <1>7 DEF Tick, TypeOK, ResaRow
  <2> QED
    BY <1>7, <2>1 DEF Tick, TermineeReversee
<1>8. ASSUME UNCHANGED reservations
      PROVE  TermineeReversee'
  <2>1. \A q \in Resa : reservations[q].voyage # Aucun => reservations[q].voyage \in Voyage
    BY DEF TypeOK, ResaRow
  <2> QED
    BY <1>0, <1>8, <2>1 DEF TermineeReversee
<1>9. (\E v \in Voyage : (\E n \in TotalPlaces : CreateVoyage(v, n)) \/ StartVoyage(v))
        \/ (\E t \in Tx : FedaPay(t)) \/ UNCHANGED vars
      => UNCHANGED reservations
  BY DEF CreateVoyage, StartVoyage, FedaPay, vars
<1> QED
  BY <1>1, <1>2, <1>3, <1>4, <1>5, <1>6, <1>7, <1>8, <1>9
     DEF Next, StatutPaiement, PollExpire, PollConfirme, PollEchec

\* IInv is inductive.
THEOREM Inductif == Spec => []IInv
<1>1. Init => IInv
  BY InitType DEF Init, IInv, Liens, CoherenceComplet, PayeeAvantVisible, TermineeReversee, Montrees
<1>2. IInv /\ [Next]_vars => IInv'
  <2>1. IInv /\ [Next]_vars => TypeOK'
    BY NextType DEF IInv
  <2> QED
    BY <2>1, NextLiens, NextCoherence, NextPayee, NextTerminee DEF IInv
<1> QED
  BY <1>1, <1>2, PTL DEF Spec

\* A trip is COMPLET exactly when no seat is left while it takes reservations, and its
\* counter never goes negative, under any polling by the clients.
THEOREM Coherence == Spec => []CoherenceComplet
<1>1. IInv => CoherenceComplet
  BY DEF IInv
<1> QED
  BY <1>1, Inductif, PTL

\* No driver is shown, and no driver confirms, a request whose fee was not collected.
THEOREM PaiementAvantVisibilite == Spec => []PayeeAvantVisible
<1>1. IInv => PayeeAvantVisible
  BY DEF IInv
<1> QED
  BY <1>1, Inductif, PTL

\* A finished reservation belongs to a finished trip and was paid to its driver.
THEOREM Reversement == Spec => []TermineeReversee
<1>1. IInv => TermineeReversee
  BY DEF IInv
<1> QED
  BY <1>1, Inductif, PTL

-----------------------------------------------------------------------------
(* The reservations implement FraisPayes *)

Vis == {r \in Resa : reservations[r].statut \in {"EN_ATTENTE", "CONFIRMEE"}}
Conf == {r \in Resa : reservations[r].statut = "CONFIRMEE"}

LEMMA FraisAvecStatut ==
    ASSUME TypeOK, NEW S \in SUBSET Resa, NEW s \in StatutReservation,
           reservations' = AvecStatut(S, s)
    PROVE  /\ s \notin {"EN_ATTENTE", "CONFIRMEE"} => Vis' = Vis \ S /\ Conf' = Conf \ S
           /\ s = "EN_ATTENTE" => Vis' = Vis \cup S /\ Conf' = Conf \ S
           /\ s = "CONFIRMEE" => Vis' = Vis \cup S /\ Conf' = Conf \cup S
<1>1. \A r \in Resa : reservations'[r].statut = IF r \in S THEN s ELSE reservations[r].statut
  BY AvecStatutProps
<1> QED
  BY <1>1 DEF Vis, Conf

LEMMA FraisInit == Init => Frais!Init
  BY DEF Init, Frais!Init, Payees, Encaissee

LEMMA FraisStep == IInv /\ [Next]_vars => [Frais!Next]_(Frais!vars)
<1> SUFFICES ASSUME IInv, [Next]_vars
             PROVE  Frais!Next \/ (Vis' = Vis /\ Conf' = Conf /\ Payees' = Payees)
  BY DEF Frais!vars, Vis, Conf
<1> USE DEF IInv
<1>0. tx' = tx => Payees' = Payees
  BY DEF Payees, Encaissee
<1>1. ASSUME NEW S \in SUBSET Resa, Vis' = Vis \ S, Conf' = Conf \ S, tx' = tx
      PROVE  Frais!Next
  <2>1. Frais!Fermer(S)
    BY <1>0, <1>1 DEF Frais!Fermer, Vis, Conf
  <2> QED
    BY <2>1 DEF Frais!Next
<1>2. ASSUME NEW v \in Voyage, EndVoyage(v) \/ CancelVoyage(v) \/ AdminCancelVoyage(v)
      PROVE  Frais!Next
  <2>1. PICK S \in SUBSET Resa, s \in StatutReservation :
            reservations' = AvecStatut(S, s) /\ s \notin {"EN_ATTENTE", "CONFIRMEE"}
    BY <1>2, ResasDeSubset DEF EndVoyage, CancelVoyage, AdminCancelVoyage, StatutReservation
  <2>2. tx' = tx
    BY <1>2 DEF EndVoyage, CancelVoyage, AdminCancelVoyage
  <2> QED
    BY <1>1, <2>1, <2>2, FraisAvecStatut
<1>3. ASSUME NEW r \in Resa,
             CancelReservation(r) \/ AdminCancelReservation(r) \/ RejectReservation(r) \/ Annuler(r)
      PROVE  Frais!Next
  <2>1. PICK s \in StatutReservation :
            reservations' = AvecStatut({r}, s) /\ s \notin {"EN_ATTENTE", "CONFIRMEE"}
    BY <1>3 DEF CancelReservation, AdminCancelReservation, RejectReservation, Annuler, StatutReservation
  <2>2. tx' = tx
    BY <1>3 DEF CancelReservation, AdminCancelReservation, RejectReservation, Annuler
  <2>3. {r} \in SUBSET Resa
    OBVIOUS
  <2>4. Vis' = Vis \ {r} /\ Conf' = Conf \ {r}
    BY <2>1, <2>3, FraisAvecStatut
  <2> QED
    BY <1>1, <2>2, <2>3, <2>4
<1>4. ASSUME AnnulerPaiementsExpires
      PROVE  Frais!Next
  <2> DEFINE S == UNION {Expirees(v) : v \in Voyage}
  <2>1. S \in SUBSET Resa
    BY ExpireesSubset
  <2>2. reservations' = AvecStatut(S, "ANNULEE") /\ tx' = tx
    BY <1>4 DEF AnnulerPaiementsExpires
  <2> HIDE DEF S
  <2> QED
    BY <1>1, <2>1, <2>2, FraisAvecStatut DEF StatutReservation
<1>5. ASSUME NEW r \in Resa, AcceptReservation(r)
      PROVE  Frais!Next
  <2>1. {r} \in SUBSET Resa /\ "CONFIRMEE" \in StatutReservation
    BY DEF StatutReservation
  <2>2. reservations' = AvecStatut({r}, "CONFIRMEE") /\ tx' = tx
    BY <1>5 DEF AcceptReservation
  <2>3. Vis' = Vis \cup {r} /\ Conf' = Conf \cup {r}
    BY <2>1, <2>2, FraisAvecStatut
  <2>4. r \in Vis
    BY <1>5 DEF AcceptReservation, Vis
  <2>5. Frais!Confirmer(r)
    BY <1>0, <2>2, <2>3, <2>4 DEF Frais!Confirmer, Vis, Conf
  <2> QED
    BY <2>5 DEF Frais!Next
<1>6. ASSUME NEW r \in Resa, PollConfirme(r)
      PROVE  Frais!Next
  <2>1. Vis' = Vis \cup {r} /\ Conf' = Conf \ {r}
    BY <1>6, FraisAvecStatut DEF PollConfirme, Valider, StatutReservation
  <2>2. r \in Payees
    BY <1>6 DEF PollConfirme, Interrogeable, Liens, TypeOK, ResaRow, Encaissee, Succes, Payees
  <2>3. tx' = tx
    BY <1>6 DEF PollConfirme, Valider
  <2>4. Frais!Montrer(r)
    BY <1>0, <2>1, <2>2, <2>3 DEF Frais!Montrer, Vis, Conf
  <2> QED
    BY <2>4 DEF Frais!Next
<1>7. ASSUME NEW r \in Resa, NEW v \in Voyage, NEW n \in PlacesDemandees, CreateReservation(r, v, n)
      PROVE  Vis' = Vis /\ Conf' = Conf /\ Payees' = Payees
  <2>1. \A q \in Resa : reservations'[q].statut =
            IF q = r THEN "EN_ATTENTE_PAIEMENT"
            ELSE IF q \in Expirees(v) THEN "ANNULEE" ELSE reservations[q].statut
    BY <1>7, AvecStatutProps, ExpireesSubset DEF CreateReservation, StatutReservation
  <2>2. reservations[r].statut = "absent"
        /\ \A q \in Expirees(v) : reservations[q].statut = "EN_ATTENTE_PAIEMENT"
    BY <1>7 DEF CreateReservation, Expirees, ResasDe
  <2>3. tx' = tx
    BY <1>7 DEF CreateReservation
  <2> QED
    BY <1>0, <2>1, <2>2, <2>3 DEF Vis, Conf
<1>8. ASSUME NEW r \in Resa, NEW t \in Tx,
             InitierPaiement(r, t) \/ InitierPaiementSansLien(r, t)
      PROVE  Vis' = Vis /\ Conf' = Conf /\ Payees' = Payees
  <2>1. \A q \in Resa : reservations'[q].statut = reservations[q].statut
    BY <1>8 DEF InitierPaiement, InitierPaiementSansLien, TypeOK, ResaRow
  <2>2. \A u \in Tx : /\ Encaissee(u)' <=> Encaissee(u)
                      /\ Encaissee(u) => tx'[u].resa = tx[u].resa
    BY <1>8 DEF InitierPaiement, InitierPaiementSansLien, TypeOK, Encaissee
  <2> QED
    BY <2>1, <2>2 DEF Vis, Conf, Payees
<1>9. ASSUME Tick
      PROVE  Vis' = Vis /\ Conf' = Conf /\ Payees' = Payees
  <2>1. \A q \in Resa : reservations'[q].statut = reservations[q].statut
    BY <1>9 DEF Tick, TypeOK, ResaRow
  <2> QED
    BY <1>0, <1>9, <2>1 DEF Tick, Vis, Conf
<1>10. ASSUME NEW t \in Tx, FedaPay(t)
       PROVE  Frais!Next \/ (Vis' = Vis /\ Conf' = Conf /\ Payees' = Payees)
  <2>1. Vis' = Vis /\ Conf' = Conf
    BY <1>10 DEF FedaPay, Vis, Conf
  <2>2. \A u \in Tx : u # t => tx'[u] = tx[u]
    BY <1>10 DEF FedaPay, TypeOK
  <2>3. tx'[t].resa = tx[t].resa /\ (Encaissee(t) => Encaissee(t)')
    <3>1. PICK s \in {"approved", "declined", "refunded"} :
              /\ tx' = [tx EXCEPT ![t].statut = s]
              /\ tx[t].statut \in {"approved", "refunded"} => s \in {"approved", "refunded"}
      BY <1>10 DEF FedaPay
    <3>2. tx'[t] = [tx[t] EXCEPT !.statut = s]
      BY <3>1 DEF TypeOK
    <3> QED
      BY <3>1, <3>2 DEF TypeOK, TxRow, Encaissee
  <2>4. CASE Encaissee(t)' /\ tx[t].resa \in Resa
    <3>1. Payees' = Payees \cup {tx[t].resa}
      <4>1. \A r \in Resa : r \in Payees' <=> r \in Payees \/ r = tx[t].resa
        <5>1. \A u \in Tx : u # t => /\ Encaissee(u)' <=> Encaissee(u)
                                     /\ tx'[u].resa = tx[u].resa
          BY <2>2 DEF Encaissee
        <5>2. tx'[t].resa = tx[t].resa
          BY <2>3
        <5> QED
          BY <2>4, <5>1, <5>2 DEF Payees
      <4> QED
        BY <2>4, <4>1 DEF Payees
    <3>2. Frais!Encaisser(tx[t].resa)
      BY <2>1, <3>1 DEF Frais!Encaisser, Vis, Conf
    <3> QED
      BY <2>4, <3>2 DEF Frais!Next
  <2>5. CASE ~ (Encaissee(t)' /\ tx[t].resa \in Resa)
    <3>1. Payees' = Payees
      <4>1. \A u \in Tx : u # t => /\ Encaissee(u)' <=> Encaissee(u)
                                   /\ tx'[u].resa = tx[u].resa
        BY <2>2 DEF Encaissee
      <4>2. \A r \in Resa : r \in Payees' <=> r \in Payees
        BY <2>3, <2>5, <4>1 DEF Payees
      <4> QED
        BY <4>2 DEF Payees
    <3> QED
      BY <2>1, <3>1
  <2> QED
    BY <2>4, <2>5
<1>11. ASSUME NEW v \in Voyage, (\E n \in TotalPlaces : CreateVoyage(v, n)) \/ StartVoyage(v)
       PROVE  Vis' = Vis /\ Conf' = Conf /\ Payees' = Payees
  BY <1>0, <1>11 DEF CreateVoyage, StartVoyage, Vis, Conf
<1>12. CASE UNCHANGED vars
  BY <1>0, <1>12 DEF vars, Vis, Conf
<1> QED
  BY <1>2, <1>3, <1>4, <1>5, <1>6, <1>7, <1>8, <1>9, <1>10, <1>11, <1>12
     DEF Next, StatutPaiement, PollExpire, PollEchec

\* Every behaviour of the reservations is one that FraisPayes allows.
THEOREM PromesseTenue == Spec => TientLaPromesse
<1>1. Init => Frais!Init
  BY FraisInit
<1>2. IInv /\ [Next]_vars => [Frais!Next]_(Frais!vars)
  BY FraisStep
<1> QED
  BY <1>1, <1>2, Inductif, PTL DEF Spec, TientLaPromesse, Frais!Spec

-----------------------------------------------------------------------------
(* The way out of REFUSEE, ANNULEE and TERMINEE, however the clients poll *)

Terminaux == {"REFUSEE", "ANNULEE", "TERMINEE"}

\* What RetourParPoll says of one reservation.
Retour(r) ==
    reservations[r].statut \in Terminaux /\ reservations'[r].statut # reservations[r].statut =>
        /\ reservations[r].tx # Aucun /\ tx[reservations[r].tx].resa = r
        /\ \/ /\ reservations'[r].statut = "EN_ATTENTE"
              /\ tx[reservations[r].tx].statut \in Succes /\ reservations[r].reste >= 0
           \/ /\ reservations'[r].statut = "ANNULEE"
              /\ tx[reservations[r].tx].statut \in Echec \/ reservations[r].reste < 0

\* Assigning one statut to several reservations is right if it is right for the finished ones.
LEMMA RetourAvecStatut ==
    ASSUME TypeOK, NEW S \in SUBSET Resa, NEW s \in StatutReservation,
           reservations' = AvecStatut(S, s),
           \A r \in S : reservations[r].statut \notin Terminaux \/ Retour(r)
    PROVE  \A r \in Resa : Retour(r)
<1>1. \A r \in Resa : reservations'[r].statut = IF r \in S THEN s ELSE reservations[r].statut
  BY AvecStatutProps
<1> QED
  BY <1>1 DEF Retour

LEMMA RetourStep == TypeOK /\ Liens /\ [Next]_vars => \A r \in Resa : Retour(r)
<1> SUFFICES ASSUME TypeOK, Liens, [Next]_vars
             PROVE  \A r \in Resa : Retour(r)
  OBVIOUS
<1>1. \A v : \A r \in Expirees(v) : reservations[r].statut \notin Terminaux
  BY DEF Expirees, ResasDe, Terminaux
<1>2. ASSUME NEW v \in Voyage, EndVoyage(v) \/ CancelVoyage(v) \/ AdminCancelVoyage(v)
      PROVE  \A r \in Resa : Retour(r)
  <2>1. PICK S \in SUBSET Resa, s \in StatutReservation :
            /\ reservations' = AvecStatut(S, s)
            /\ \A r \in S : reservations[r].statut \notin Terminaux
    BY <1>2 DEF EndVoyage, CancelVoyage, AdminCancelVoyage, ResasDe, StatutReservation, Terminaux
  <2> QED
    BY <2>1, RetourAvecStatut
<1>3. ASSUME NEW r \in Resa, NEW v \in Voyage, NEW n \in PlacesDemandees, CreateReservation(r, v, n)
      PROVE  \A q \in Resa : Retour(q)
  <2>1. \A q \in Resa : q # r =>
            reservations'[q].statut = IF q \in Expirees(v) THEN "ANNULEE" ELSE reservations[q].statut
    BY <1>3, AvecStatutProps, ExpireesSubset DEF CreateReservation, StatutReservation
  <2>2. reservations[r].statut \notin Terminaux
    BY <1>3 DEF CreateReservation, Terminaux
  <2> QED
    BY <1>1, <2>1, <2>2 DEF Retour
<1>4. ASSUME NEW r \in Resa,
             \/ CancelReservation(r) \/ AdminCancelReservation(r)
             \/ AcceptReservation(r) \/ RejectReservation(r)
      PROVE  \A q \in Resa : Retour(q)
  <2>1. PICK s \in StatutReservation :
            reservations' = AvecStatut({r}, s) /\ reservations[r].statut \notin Terminaux
    BY <1>4 DEF CancelReservation, AdminCancelReservation, AcceptReservation, RejectReservation,
       StatutReservation, Terminaux
  <2> QED
    BY <2>1, RetourAvecStatut
<1>5. ASSUME NEW r \in Resa, StatutPaiement(r)
      PROVE  \A q \in Resa : Retour(q)
  <2>1. reservations[r].tx # Aucun /\ tx[reservations[r].tx].resa = r
    BY <1>5 DEF StatutPaiement, PollExpire, PollConfirme, PollEchec, Interrogeable, Liens
  <2>2. PICK s \in {"EN_ATTENTE", "ANNULEE"} :
            /\ reservations' = AvecStatut({r}, s)
            /\ \/ /\ s = "EN_ATTENTE"
                  /\ tx[reservations[r].tx].statut \in Succes /\ reservations[r].reste >= 0
               \/ /\ s = "ANNULEE"
                  /\ tx[reservations[r].tx].statut \in Echec \/ reservations[r].reste < 0
    BY <1>5 DEF StatutPaiement, PollExpire, PollConfirme, PollEchec, Annuler, Valider
  <2>3. s \in StatutReservation
    BY <2>2 DEF StatutReservation
  <2>4. reservations'[r].statut = s
    BY <2>2, <2>3, AvecStatutProps
  <2>5. Retour(r)
    BY <2>1, <2>2, <2>4 DEF Retour
  <2> QED
    BY <2>2, <2>3, <2>5, RetourAvecStatut
<1>6. ASSUME AnnulerPaiementsExpires
      PROVE  \A q \in Resa : Retour(q)
  <2> DEFINE S == UNION {Expirees(v) : v \in Voyage}
  <2>1. S \in SUBSET Resa /\ reservations' = AvecStatut(S, "ANNULEE")
    BY <1>6, ExpireesSubset DEF AnnulerPaiementsExpires
  <2>2. \A r \in S : reservations[r].statut \notin Terminaux
    BY <1>1
  <2> HIDE DEF S
  <2> QED
    BY <2>1, <2>2, RetourAvecStatut DEF StatutReservation
<1>7. ASSUME NEW r \in Resa, NEW t \in Tx, InitierPaiement(r, t) \/ InitierPaiementSansLien(r, t)
      PROVE  \A q \in Resa : Retour(q)
  BY <1>7 DEF InitierPaiement, InitierPaiementSansLien, TypeOK, ResaRow, Retour
<1>8. ASSUME Tick
      PROVE  \A q \in Resa : Retour(q)
  BY <1>8 DEF Tick, TypeOK, ResaRow, Retour
<1>9. ASSUME UNCHANGED reservations
      PROVE  \A q \in Resa : Retour(q)
  BY <1>9 DEF Retour
<1>10. (\E v \in Voyage : (\E n \in TotalPlaces : CreateVoyage(v, n)) \/ StartVoyage(v))
         \/ (\E t \in Tx : FedaPay(t)) \/ UNCHANGED vars
       => UNCHANGED reservations
  BY DEF CreateVoyage, StartVoyage, FedaPay, vars
<1> QED
  BY <1>2, <1>3, <1>4, <1>5, <1>6, <1>7, <1>8, <1>9, <1>10 DEF Next

\* Whatever the clients poll, and for any reservations, trips and collections: only a poll of
\* the collection that a reservation names brings it back from REFUSEE, ANNULEE or TERMINEE.
THEOREM SortieParPoll == Spec => RetourParPoll
<1>1. IInv /\ [Next]_vars =>
          [\A r \in Resa :
               LET x == reservations[r]
                   nommee == tx[x.tx]
               IN  x.statut \in {"REFUSEE", "ANNULEE", "TERMINEE"} /\ reservations'[r].statut # x.statut =>
                       /\ x.tx # Aucun /\ nommee.resa = r
                       /\ \/ /\ reservations'[r].statut = "EN_ATTENTE"
                             /\ nommee.statut \in Succes /\ x.reste >= 0
                          \/ /\ reservations'[r].statut = "ANNULEE"
                             /\ nommee.statut \in Echec \/ x.reste < 0]_vars
  BY RetourStep DEF IInv, Retour, Terminaux
<1> QED
  BY <1>1, Inductif, PTL DEF Spec, RetourParPoll

-----------------------------------------------------------------------------
(* Clients that stop polling once the payment is settled either way *)

\* The hypothesis of the theorems of this section: statut-paiement is called only while the
\* reservation awaits its payment, or its driver.
Sobre == PollStatuts \subseteq {"EN_ATTENTE_PAIEMENT", "EN_ATTENTE"}

\* The life of a reservation when nobody polls a settled one.
Suit(avant, apres) ==
    \/ avant = "absent" /\ apres = "EN_ATTENTE_PAIEMENT"
    \/ avant = "EN_ATTENTE_PAIEMENT" /\ apres \in {"EN_ATTENTE", "ANNULEE"}
    \/ avant = "EN_ATTENTE" /\ apres \in {"CONFIRMEE", "REFUSEE", "ANNULEE"}
    \/ avant = "CONFIRMEE" /\ apres \in {"TERMINEE", "ANNULEE"}

\* What a step does to the row of a reservation: nothing is withdrawn from a row that exists.
Poursuit(r) ==
    /\ \/ reservations'[r].statut = reservations[r].statut
       \/ Suit(reservations[r].statut, reservations'[r].statut)
    /\ reservations[r].statut # "absent" =>
           /\ reservations'[r].voyage = reservations[r].voyage
           /\ reservations'[r].places = reservations[r].places
    /\ reservations[r].statut = "absent" /\ reservations'[r].statut # "absent" =>
           \E v \in Voyage, n \in PlacesDemandees : CreateReservation(r, v, n)

LEMMA PoursuitAvecStatut ==
    ASSUME TypeOK, NEW S \in SUBSET Resa, NEW s \in StatutReservation,
           reservations' = AvecStatut(S, s),
           \A r \in S : reservations[r].statut # "absent" /\ Suit(reservations[r].statut, s)
    PROVE  \A r \in Resa : Poursuit(r)
<1>1. \A r \in Resa : /\ reservations'[r].statut = IF r \in S THEN s ELSE reservations[r].statut
                      /\ reservations'[r].voyage = reservations[r].voyage
                      /\ reservations'[r].places = reservations[r].places
  BY AvecStatutProps
<1> QED
  BY <1>1 DEF Poursuit

\* A sober poll only concludes a reservation that awaits its payment.
LEMMA PollSobreStep ==
    ASSUME Sobre, NEW r \in Resa, StatutPaiement(r)
    PROVE  /\ reservations[r].statut = "EN_ATTENTE_PAIEMENT"
           /\ Annuler(r) \/ Valider(r)
  BY DEF Sobre, StatutPaiement, PollExpire, PollConfirme, PollEchec, Interrogeable

LEMMA VieStep == TypeOK /\ Sobre /\ [Next]_vars => \A r \in Resa : Poursuit(r)
<1> SUFFICES ASSUME TypeOK, Sobre, [Next]_vars
             PROVE  \A r \in Resa : Poursuit(r)
  OBVIOUS
<1>1. ASSUME NEW v \in Voyage, EndVoyage(v)
      PROVE  \A r \in Resa : Poursuit(r)
  <2>1. \A r \in ResasDe(v, {"CONFIRMEE"}) :
            reservations[r].statut # "absent" /\ Suit(reservations[r].statut, "TERMINEE")
    BY DEF ResasDe, Suit
  <2> QED
    BY <1>1, <2>1, ResasDeSubset, PoursuitAvecStatut DEF EndVoyage, StatutReservation
<1>2. ASSUME NEW v \in Voyage, CancelVoyage(v) \/ AdminCancelVoyage(v)
      PROVE  \A r \in Resa : Poursuit(r)
  <2>1. \A r \in ResasDe(v, {"EN_ATTENTE", "CONFIRMEE"}) :
            reservations[r].statut # "absent" /\ Suit(reservations[r].statut, "ANNULEE")
    BY DEF ResasDe, Suit
  <2>2. reservations' = AvecStatut(ResasDe(v, {"EN_ATTENTE", "CONFIRMEE"}), "ANNULEE")
    BY <1>2 DEF CancelVoyage, AdminCancelVoyage
  <2> QED
    BY <2>1, <2>2, ResasDeSubset, PoursuitAvecStatut DEF StatutReservation
<1>3. ASSUME NEW r \in Resa, NEW v \in Voyage, NEW n \in PlacesDemandees, CreateReservation(r, v, n)
      PROVE  \A q \in Resa : Poursuit(q)
  <2>1. \A q \in Resa : q # r =>
            /\ reservations'[q].statut = IF q \in Expirees(v) THEN "ANNULEE" ELSE reservations[q].statut
            /\ reservations'[q].voyage = reservations[q].voyage
            /\ reservations'[q].places = reservations[q].places
    BY <1>3, AvecStatutProps, ExpireesSubset DEF CreateReservation, StatutReservation
  <2>2. reservations[r].statut = "absent" /\ reservations'[r].statut = "EN_ATTENTE_PAIEMENT"
    BY <1>3, AvecStatutProps, ExpireesSubset DEF CreateReservation, StatutReservation
  <2>3. \A q \in Expirees(v) : reservations[q].statut = "EN_ATTENTE_PAIEMENT"
    BY DEF Expirees, ResasDe
  <2>4. Poursuit(r)
    <3>1. \E w \in Voyage, m \in PlacesDemandees : CreateReservation(r, w, m)
      BY <1>3, Zenon
    <3> QED
      BY <2>2, <3>1 DEF Poursuit, Suit
  <2>5. \A q \in Resa : q # r => Poursuit(q)
    BY <2>1, <2>3 DEF Poursuit, Suit
  <2> QED
    BY <2>4, <2>5
<1>4. ASSUME NEW r \in Resa,
             \/ CancelReservation(r) \/ AdminCancelReservation(r) \/ AcceptReservation(r)
             \/ RejectReservation(r) \/ StatutPaiement(r)
      PROVE  \A q \in Resa : Poursuit(q)
  <2>1. PICK s \in StatutReservation :
            /\ reservations' = AvecStatut({r}, s)
            /\ reservations[r].statut # "absent" /\ Suit(reservations[r].statut, s)
    BY <1>4, PollSobreStep DEF CancelReservation, AdminCancelReservation, AcceptReservation,
       RejectReservation, Annuler, Valider, StatutReservation, Suit
  <2> QED
    BY <2>1, PoursuitAvecStatut
<1>5. ASSUME AnnulerPaiementsExpires
      PROVE  \A q \in Resa : Poursuit(q)
  <2> DEFINE S == UNION {Expirees(v) : v \in Voyage}
  <2>1. S \in SUBSET Resa
    BY ExpireesSubset
  <2>2. reservations' = AvecStatut(S, "ANNULEE")
    BY <1>5 DEF AnnulerPaiementsExpires
  <2>3. \A r \in S :
            reservations[r].statut # "absent" /\ Suit(reservations[r].statut, "ANNULEE")
    BY DEF Expirees, ResasDe, Suit
  <2> HIDE DEF S
  <2> QED
    BY <2>1, <2>2, <2>3, PoursuitAvecStatut DEF StatutReservation
<1>6. ASSUME NEW r \in Resa, NEW t \in Tx,
             InitierPaiement(r, t) \/ InitierPaiementSansLien(r, t)
      PROVE  \A q \in Resa : Poursuit(q)
  BY <1>6 DEF InitierPaiement, InitierPaiementSansLien, TypeOK, ResaRow, Poursuit
<1>7. ASSUME Tick
      PROVE  \A q \in Resa : Poursuit(q)
  BY <1>7 DEF Tick, TypeOK, ResaRow, Poursuit
<1>8. ASSUME UNCHANGED reservations
      PROVE  \A q \in Resa : Poursuit(q)
  BY <1>8 DEF Poursuit
<1>9. (\E v \in Voyage : (\E n \in TotalPlaces : CreateVoyage(v, n)) \/ StartVoyage(v))
        \/ (\E t \in Tx : FedaPay(t)) \/ UNCHANGED vars
      => UNCHANGED reservations
  BY DEF CreateVoyage, StartVoyage, FedaPay, vars
<1> QED
  BY <1>1, <1>2, <1>3, <1>4, <1>5, <1>6, <1>7, <1>8, <1>9 DEF Next

\* If the clients stop polling a settled reservation, REFUSEE, ANNULEE and TERMINEE are
\* indeed irreversible, as API_VOYAGES_RESERVATIONS.md says.
THEOREM Irreversibles == Sobre => (Spec => TerminauxIrreversibles)
<1> SUFFICES ASSUME Sobre
             PROVE  Spec => TerminauxIrreversibles
  OBVIOUS
<1>1. TypeOK /\ [Next]_vars =>
        [\A r \in Resa : reservations[r].statut \in {"REFUSEE", "ANNULEE", "TERMINEE"} =>
             reservations'[r].statut = reservations[r].statut]_vars
  BY VieStep DEF Poursuit, Suit
<1> QED
  BY <1>1, TypeCorrect, PTL DEF Spec, TerminauxIrreversibles

-----------------------------------------------------------------------------
(* Arithmetic on seats *)

LEMMA PrisesEgales ==
    ASSUME NEW f, NEW g, NEW S, \A r \in S : f[r].places = g[r].places
    PROVE  Prises(f, S) = Prises(g, S)
<1>1. {s \in S \X Place : s[2] <= f[s[1]].places} = {s \in S \X Place : s[2] <= g[s[1]].places}
  OBVIOUS
<1> QED
  BY <1>1 DEF Prises

LEMMA PrisesUnion ==
    ASSUME NEW f, NEW S \in SUBSET Resa, NEW T \in SUBSET Resa, S \cap T = {}
    PROVE  Prises(f, S \cup T) = Prises(f, S) + Prises(f, T)
<1> DEFINE P(X) == {s \in X \X Place : s[2] <= f[s[1]].places}
<1>1. P(S \cup T) = P(S) \cup P(T) /\ P(S) \cap P(T) = {}
  OBVIOUS
<1>2. IsFiniteSet(P(S)) /\ IsFiniteSet(P(T))
  BY PrisesNat
<1> HIDE DEF P
<1>3. Cardinality(P(S)) \in Nat /\ Cardinality(P(T)) \in Nat
  BY <1>2, FS_CardinalityType
<1>4. Cardinality(P(S \cup T)) = Cardinality(P(S)) + Cardinality(P(T)) - Cardinality(P(S) \cap P(T))
  BY <1>1, <1>2, FS_Union
<1>5. Cardinality(P(S) \cap P(T)) = 0
  BY <1>1, FS_EmptySet
<1>6. Cardinality(P(S \cup T)) = Cardinality(P(S)) + Cardinality(P(T))
  BY <1>3, <1>4, <1>5
<1> QED
  BY <1>6 DEF P, Prises

\* A reservation holds the seats it asked for.
LEMMA PrisesUne ==
    ASSUME NEW f, NEW r \in Resa, f[r].places \in Place
    PROVE  Prises(f, {r}) = f[r].places
<1> DEFINE n == f[r].places
<1>1. n \in 1..8 /\ n \in Int
  BY DEF Place
<1>2. {s \in {r} \X Place : s[2] <= f[s[1]].places} = {r} \X (1..n)
  BY <1>1 DEF Place
<1>3. IsFiniteSet(1..n) /\ Cardinality(1..n) = n
  <2>1. 1 \in Int /\ ~(1 > n) /\ n - 1 + 1 = n
    BY <1>1
  <2> HIDE DEF n
  <2> QED
    BY <1>1, <2>1, FS_Interval
<1>4. IsFiniteSet({r}) /\ Cardinality({r}) = 1
  BY FS_Singleton
<1>5. Cardinality({r} \X (1..n)) = Cardinality({r}) * Cardinality(1..n)
  BY <1>3, <1>4, FS_Product
<1>6. 1 * n = n
  BY <1>1
<1> QED
  BY <1>2, <1>3, <1>4, <1>5, <1>6 DEF Prises

\* Taking S away frees its seats.
LEMMA PrisesLiberees ==
    ASSUME NEW f, NEW A \in SUBSET Resa, NEW S \in SUBSET A, NEW B \in SUBSET (A \ S)
    PROVE  /\ Prises(f, B) + Prises(f, S) <= Prises(f, A)
           /\ Prises(f, A) \in Nat /\ Prises(f, B) \in Nat /\ Prises(f, S) \in Nat
<1> DEFINE C == A \ (S \cup B)
<1>1. /\ B \in SUBSET Resa /\ S \in SUBSET Resa /\ C \in SUBSET Resa /\ S \cup B \in SUBSET Resa
      /\ S \cap B = {} /\ (S \cup B) \cap C = {}
      /\ (S \cup B) \cup C = A
  OBVIOUS
<1> HIDE DEF C
<1>2. /\ Prises(f, A) \in Nat /\ Prises(f, B) \in Nat /\ Prises(f, S) \in Nat /\ Prises(f, C) \in Nat
  BY <1>1, PrisesNat
<1>3. Prises(f, S \cup B) = Prises(f, S) + Prises(f, B)
  BY <1>1, PrisesUnion
<1>4. Prises(f, A) = Prises(f, S \cup B) + Prises(f, C)
  BY <1>1, PrisesUnion
<1> QED
  BY <1>2, <1>3, <1>4

-----------------------------------------------------------------------------
(* The seats sold and those on sale never exceed those of the vehicle *)

Occ(f, v) == {r \in Resa : f[r].voyage = v /\ f[r].statut \in Occupantes}

\* The seats of trip v, in the tables f of reservations and w of trips.
Bilan(f, w, v) == w[v].statut # "absent" => Prises(f, Occ(f, v)) + w[v].restantes <= w[v].total

LEMMA BilanSurreservation ==
    /\ PasDeSurreservation <=> \A v \in Voyage : Bilan(reservations, voyages, v)
    /\ PasDeSurreservation' <=> \A v \in Voyage : Bilan(reservations', voyages', v)
  BY DEF PasDeSurreservation, Bilan, NbSieges, Sieges, ResasDe, Prises, Occ

\* The trip of a reservation exists.
VoyagePresent ==
    \A r \in Resa : reservations[r].statut # "absent" => voyages[reservations[r].voyage].statut # "absent"

\* No more seats are handed back than what was freed.
LEMMA RestitueBorne ==
    ASSUME NEW x \in VoyageRow, NEW n \in Nat
    PROVE  /\ RestitueSiOuvert(x, n).restantes <= x.restantes + n
           /\ RestitueSiOuvert(x, n).total = x.total
           /\ RestitueSiReservable(x, n).restantes <= x.restantes + n
           /\ RestitueSiReservable(x, n).total = x.total
           /\ RestitueSiOuvert(x, n).restantes \in Int /\ RestitueSiReservable(x, n).restantes \in Int
           /\ x.statut = "absent" => RestitueSiOuvert(x, n).statut = "absent"
           /\ x.statut # "absent" => RestitueSiOuvert(x, n).statut # "absent"
                                     /\ RestitueSiReservable(x, n).statut # "absent"
<1>1. x.restantes \in Int /\ x.restantes + n \in Int /\ x.restantes <= x.restantes + n
  BY DEF VoyageRow
<1>2. /\ Restitue(x, n).restantes = x.restantes + n
      /\ Restitue(x, n).total = x.total
      /\ Restitue(x, n).statut = IF x.statut = "COMPLET" /\ x.restantes + n > 0 THEN "PUBLIE" ELSE x.statut
  BY RestitueProps
<1>3. LET y == RestitueSiOuvert(x, n)
      IN  /\ y.restantes <= x.restantes + n /\ y.restantes \in Int
          /\ y.total = x.total
          /\ x.statut = "absent" <=> y.statut = "absent"
  BY <1>1, <1>2 DEF RestitueSiOuvert
<1>4. LET y == RestitueSiReservable(x, n)
      IN  /\ y.restantes <= x.restantes + n /\ y.restantes \in Int
          /\ y.total = x.total
          /\ x.statut # "absent" => y.statut # "absent"
  <2>1. CASE x.statut \in {"PUBLIE", "COMPLET"}
    <3>1. RestitueSiReservable(x, n) = [x EXCEPT !.restantes = @ + n, !.statut = "PUBLIE"]
      BY <2>1 DEF RestitueSiReservable
    <3>2. /\ RestitueSiReservable(x, n).restantes = x.restantes + n
          /\ RestitueSiReservable(x, n).total = x.total
          /\ RestitueSiReservable(x, n).statut = "PUBLIE"
      BY <3>1 DEF VoyageRow
    <3> QED
      BY <1>1, <3>2
  <2>2. CASE x.statut \notin {"PUBLIE", "COMPLET"}
    BY <1>1, <2>2 DEF RestitueSiReservable
  <2> QED
    BY <2>1, <2>2
<1> QED
  BY <1>3, <1>4

\* A trip that gets back at most the seats of the reservations S that leave it.
LEMMA BilanStep ==
    ASSUME NEW f, NEW g, NEW w, NEW x, NEW v,
           NEW S \in SUBSET Occ(f, v),
           Occ(g, v) \subseteq Occ(f, v) \ S,
           \A r \in Occ(g, v) : g[r].places = f[r].places,
           w[v].restantes \in Int, w[v].total \in Nat, x[v].restantes \in Int,
           w[v].statut # "absent", Bilan(f, w, v),
           x[v].restantes <= w[v].restantes + Prises(f, S),
           x[v].total = w[v].total
    PROVE  Bilan(g, x, v)
<1>1. Occ(f, v) \in SUBSET Resa
  BY DEF Occ
<1>2. Prises(g, Occ(g, v)) = Prises(f, Occ(g, v))
  BY PrisesEgales
<1>3. /\ Prises(f, Occ(g, v)) + Prises(f, S) <= Prises(f, Occ(f, v))
      /\ Prises(f, Occ(g, v)) \in Nat /\ Prises(f, S) \in Nat /\ Prises(f, Occ(f, v)) \in Nat
  BY <1>1, PrisesLiberees
<1>4. Prises(f, Occ(f, v)) + w[v].restantes <= w[v].total
  BY DEF Bilan
<1>5. Prises(g, Occ(g, v)) + x[v].restantes <= x[v].total
  BY <1>2, <1>3, <1>4
<1> QED
  BY <1>5 DEF Bilan

\* An occupant after a step was one before it, unless it was just created.
LEMMA OccStep ==
    ASSUME NEW v, NEW r \in Resa, Poursuit(r), reservations[r].statut # "absent",
           r \in Occ(reservations', v)
    PROVE  r \in Occ(reservations, v) /\ reservations'[r].places = reservations[r].places
  BY DEF Poursuit, Suit, Occ, Occupantes

LEMMA NextPresent == TypeOK /\ Liens /\ VoyagePresent /\ Sobre /\ [Next]_vars => VoyagePresent'
<1> SUFFICES ASSUME TypeOK, Liens, VoyagePresent, Sobre, [Next]_vars
             PROVE  VoyagePresent'
  OBVIOUS
<1>1. ASSUME NEW v \in Voyage, voyages[v].statut # "absent"
      PROVE  voyages'[v].statut # "absent"
  <2> USE DEF TypeOK, VoyageRow
  <2>1. ASSUME NEW w \in Voyage, (\E n \in TotalPlaces : CreateVoyage(w, n)) \/ StartVoyage(w)
                 \/ EndVoyage(w) \/ CancelVoyage(w) \/ AdminCancelVoyage(w)
        PROVE  voyages'[v].statut # "absent"
    BY <1>1, <2>1 DEF CreateVoyage, StartVoyage, EndVoyage, CancelVoyage, AdminCancelVoyage
  <2>2. ASSUME NEW r \in Resa, NEW w \in Voyage, NEW n \in PlacesDemandees, CreateReservation(r, w, n)
        PROVE  voyages'[v].statut # "absent"
    <3>1. PICK y : voyages' = [voyages EXCEPT ![w] = y] /\ y.statut \in {"COMPLET", "PUBLIE"}
      <4> DEFINE libere == RestitueSiOuvert(voyages[w], NbSieges(Expirees(w)))
                 s == IF libere.restantes = n THEN "COMPLET" ELSE libere.statut
                 y == [libere EXCEPT !.restantes = @ - n, !.statut = s]
      <4>1. libere.statut = "PUBLIE" /\ voyages' = [voyages EXCEPT ![w] = y]
        BY <2>2 DEF CreateReservation
      <4>2. libere \in VoyageRow
        BY NbSiegesNat, ExpireesSubset, RestitueSiOuvertProps DEF TypeOK
      <4>3. s \in {"COMPLET", "PUBLIE"}
        BY <4>1
      <4> HIDE DEF libere, s
      <4>4. y.statut = s
        BY <4>2 DEF VoyageRow
      <4> QED
        BY <4>1, <4>3, <4>4
    <3> QED
      BY <1>1, <3>1
  <2>3. ASSUME NEW r \in Resa,
               CancelReservation(r) \/ Annuler(r) \/ RejectReservation(r)
        PROVE  voyages'[v].statut # "absent"
    <3>1. reservations[r].places \in Nat
      BY DEF ResaRow, Place
    <3>2. /\ RestitueSiOuvert(voyages[v], reservations[r].places).statut # "absent"
          /\ RestitueSiReservable(voyages[v], reservations[r].places).statut # "absent"
      BY <1>1, <3>1, RestitueBorne
    <3> QED
      BY <1>1, <2>3, <3>2 DEF CancelReservation, Annuler, RejectReservation
  <2>4. ASSUME AnnulerPaiementsExpires
        PROVE  voyages'[v].statut # "absent"
    BY <1>1, <2>4, NbSiegesNat, ExpireesSubset, RestitueBorne DEF AnnulerPaiementsExpires
  <2>5. ASSUME UNCHANGED voyages
        PROVE  voyages'[v].statut # "absent"
    BY <1>1, <2>5
  <2>6. ASSUME NEW r \in Resa,
               (\E t \in Tx : InitierPaiement(r, t) \/ InitierPaiementSansLien(r, t))
                 \/ Valider(r) \/ AcceptReservation(r) \/ AdminCancelReservation(r)
        PROVE  UNCHANGED voyages
    BY <2>6 DEF InitierPaiement, InitierPaiementSansLien, Valider, AcceptReservation, AdminCancelReservation
  <2>7. (Tick \/ \E t \in Tx : FedaPay(t)) \/ UNCHANGED vars => UNCHANGED voyages
    BY DEF Tick, FedaPay, vars
  <2> QED
    BY <2>1, <2>2, <2>3, <2>4, <2>5, <2>6, <2>7, PollSobreStep DEF Next
<1>2. ASSUME NEW r \in Resa, reservations'[r].statut # "absent"
      PROVE  voyages'[reservations'[r].voyage].statut # "absent"
  <2>1. CASE reservations[r].statut # "absent"
    <3>1. reservations'[r].voyage = reservations[r].voyage /\ reservations[r].voyage \in Voyage
      BY <2>1, VieStep DEF Poursuit, Liens
    <3> QED
      BY <1>1, <2>1, <3>1 DEF VoyagePresent
  <2>2. CASE reservations[r].statut = "absent"
    <3>1. PICK v \in Voyage, n \in PlacesDemandees : CreateReservation(r, v, n)
      BY <1>2, <2>2, VieStep, Zenon DEF Poursuit
    <3>2. reservations'[r].voyage = v
      BY <3>1, AvecStatutProps, ExpireesSubset DEF CreateReservation, StatutReservation
    <3>3. voyages[v].statut # "absent"
      BY <3>1, NbSiegesNat, ExpireesSubset, RestitueBorne DEF CreateReservation, TypeOK
    <3> QED
      BY <1>1, <3>2, <3>3
  <2> QED
    BY <2>1, <2>2
<1> QED
  BY <1>2 DEF VoyagePresent

\* No step sells the seats of a trip twice.
LEMMA BilanNext ==
    TypeOK /\ Liens /\ VoyagePresent /\ Sobre /\ [Next]_vars =>
        \A v \in Voyage : Bilan(reservations, voyages, v) => Bilan(reservations', voyages', v)
<1> SUFFICES ASSUME TypeOK, Liens, VoyagePresent, Sobre, [Next]_vars,
                    NEW v \in Voyage, Bilan(reservations, voyages, v)
             PROVE  Bilan(reservations', voyages', v)
  OBVIOUS
<1> DEFINE f == reservations
           g == reservations'
<1>0. /\ Bilan(f, voyages, v)
      /\ voyages[v].restantes \in Int /\ voyages[v].total \in Nat /\ voyages[v] \in VoyageRow
      /\ \A r \in Resa : Poursuit(r)
  BY VieStep DEF TypeOK, VoyageRow
<1>1. ASSUME NEW S \in SUBSET Occ(f, v), voyages[v].statut # "absent",
             \A r \in S : r \notin Occ(g, v),
             \A r \in Resa : f[r].statut = "absent" => g[r].statut = "absent",
             voyages'[v].restantes \in Int,
             voyages'[v].restantes <= voyages[v].restantes + Prises(f, S),
             voyages'[v].total = voyages[v].total
      PROVE  Bilan(g, voyages', v)
  <2>1. \A r \in Occ(g, v) : f[r].statut # "absent"
    BY <1>1 DEF Occ, Occupantes
  <2>2. /\ Occ(g, v) \subseteq Occ(f, v) \ S
        /\ \A r \in Occ(g, v) : g[r].places = f[r].places
    BY <1>0, <1>1, <2>1, OccStep DEF Occ
  <2> QED
    BY <1>0, <1>1, <2>2, BilanStep
<1>2. Prises(f, {}) = 0
  <2>1. {s \in {} \X Place : s[2] <= f[s[1]].places} = {}
    OBVIOUS
  <2> QED
    BY <2>1, FS_EmptySet DEF Prises
<1>3. ASSUME voyages'[v] = voyages[v],
             \A r \in Resa : f[r].statut = "absent" => g[r].statut = "absent"
      PROVE  Bilan(g, voyages', v)
  <2>1. CASE voyages[v].statut = "absent"
    BY <1>3, <2>1 DEF Bilan
  <2>2. CASE voyages[v].statut # "absent"
    <3>1. voyages[v].restantes <= voyages[v].restantes + 0
      BY <1>0
    <3> QED
      BY <1>0, <1>1, <1>2, <1>3, <2>2, <3>1
  <2> QED
    BY <2>1, <2>2
<1>4. ASSUME voyages[v].statut # "absent",
             voyages'[v].restantes = voyages[v].restantes, voyages'[v].total = voyages[v].total,
             \A r \in Resa : f[r].statut = "absent" => g[r].statut = "absent"
      PROVE  Bilan(g, voyages', v)
  <2>1. voyages[v].restantes <= voyages[v].restantes + 0
    BY <1>0
  <2> QED
    BY <1>0, <1>1, <1>2, <1>4, <2>1
<1>5. ASSUME NEW w \in Voyage, NEW n \in TotalPlaces, CreateVoyage(w, n)
      PROVE  Bilan(g, voyages', v)
  <2>1. g = f
    BY <1>5 DEF CreateVoyage
  <2>2. CASE v = w
    <3>1. Occ(g, v) = {}
      BY <1>5, <2>1, <2>2 DEF Occ, Occupantes, VoyagePresent, CreateVoyage
    <3>2. voyages'[v].restantes = n /\ voyages'[v].total = n /\ n \in Nat
      BY <1>5, <2>2, PlacesAssumption DEF CreateVoyage, TypeOK, Place
    <3>3. Prises(g, {}) = 0
      BY <1>2, <2>1
    <3> QED
      BY <3>1, <3>2, <3>3 DEF Bilan
  <2>3. CASE v # w
    BY <1>3, <1>5, <2>1, <2>3 DEF CreateVoyage, TypeOK
  <2> QED
    BY <2>2, <2>3
<1>6. ASSUME NEW w \in Voyage, StartVoyage(w) \/ EndVoyage(w) \/ CancelVoyage(w) \/ AdminCancelVoyage(w)
      PROVE  Bilan(g, voyages', v)
  <2>1. PICK s : voyages' = [voyages EXCEPT ![w].statut = s]
    BY <1>6 DEF StartVoyage, EndVoyage, CancelVoyage, AdminCancelVoyage
  <2>2. \A r \in Resa : f[r].statut = "absent" => g[r].statut = "absent"
    <3>1. g = f \/ \E S \in SUBSET Resa, t \in StatutReservation :
                       g = AvecStatut(S, t) /\ \A r \in S : f[r].statut # "absent"
      BY <1>6 DEF StartVoyage, EndVoyage, CancelVoyage, AdminCancelVoyage, ResasDe, StatutReservation
    <3>2. ASSUME NEW S \in SUBSET Resa, NEW t \in StatutReservation,
                 reservations' = AvecStatut(S, t), \A r \in S : f[r].statut # "absent"
          PROVE  \A r \in Resa : f[r].statut = "absent" => g[r].statut = "absent"
      <4>1. \A r \in Resa : AvecStatut(S, t)[r].statut = IF r \in S THEN t ELSE reservations[r].statut
        BY ONLY TypeOK, S \in SUBSET Resa, t \in StatutReservation, AvecStatutProps
      <4> QED
        BY <3>2, <4>1
    <3> QED
      BY <3>1, <3>2
  <2>3. voyages[w].statut # "absent"
    BY <1>6 DEF StartVoyage, EndVoyage, CancelVoyage, AdminCancelVoyage, VoyageActif
  <2>4. CASE v = w
    <3>1. voyages'[v].restantes = voyages[v].restantes /\ voyages'[v].total = voyages[v].total
      BY <2>1, <2>4 DEF TypeOK, VoyageRow
    <3> QED
      BY <1>4, <2>2, <2>3, <2>4, <3>1
  <2>5. CASE v # w
    BY <1>3, <2>1, <2>2, <2>5 DEF TypeOK
  <2> QED
    BY <2>4, <2>5
<1>7. ASSUME NEW r \in Resa, NEW w \in Voyage, NEW n \in PlacesDemandees, CreateReservation(r, w, n)
      PROVE  Bilan(g, voyages', v)
  <2> DEFINE E == Expirees(w)
             libere == RestitueSiOuvert(voyages[w], NbSieges(E))
             s == IF libere.restantes = n THEN "COMPLET" ELSE libere.statut
             y == [libere EXCEPT !.restantes = @ - n, !.statut = s]
  <2>1. /\ f[r].statut = "absent"
        /\ libere.statut = "PUBLIE"
        /\ voyages' = [voyages EXCEPT ![w] = y]
        /\ g[r] = [statut |-> "EN_ATTENTE_PAIEMENT", voyage |-> w, places |-> n,
                   reste |-> Delai, tx |-> Aucun]
    BY <1>7, AvecStatutProps, ExpireesSubset DEF CreateReservation, StatutReservation
  <2>2. \A q \in Resa : q # r =>
            /\ g[q].statut = IF q \in E THEN "ANNULEE" ELSE f[q].statut
            /\ g[q].voyage = f[q].voyage /\ g[q].places = f[q].places
    BY <1>7, AvecStatutProps, ExpireesSubset DEF CreateReservation, StatutReservation
  <2>3. n \in Place /\ n \in Nat
    BY PlacesAssumption DEF Place
  <2>4. E \subseteq Occ(f, w) /\ \A q \in E : f[q].statut = "EN_ATTENTE_PAIEMENT"
    BY DEF Expirees, ResasDe, Occ, Occupantes
  <2>5. CASE v # w
    <3>1. voyages'[v] = voyages[v]
      BY <2>1, <2>5 DEF TypeOK
    <3>2. CASE voyages[v].statut = "absent"
      BY <3>1, <3>2 DEF Bilan
    <3>3. CASE voyages[v].statut # "absent"
      <4>1. Occ(g, v) \subseteq Occ(f, v) \ {}
        BY <2>1, <2>2, <2>5 DEF Occ, Occupantes
      <4>2. \A q \in Occ(g, v) : g[q].places = f[q].places
        BY <2>1, <2>2, <2>5 DEF Occ
      <4>3. {} \in SUBSET Occ(f, v) /\ voyages'[v].restantes <= voyages[v].restantes + Prises(f, {})
        BY <1>0, <1>2, <3>1
      <4>4. voyages'[v].restantes \in Int /\ voyages'[v].total = voyages[v].total
        BY <1>0, <3>1
      <4> HIDE DEF f, g
      <4> QED
        BY <1>0, <3>3, <4>1, <4>2, <4>3, <4>4, BilanStep
    <3> QED
      BY <3>2, <3>3
  <2>6. CASE v = w
    <3>1. E \in SUBSET Resa /\ NbSieges(E) = Prises(f, E) /\ NbSieges(E) \in Nat
      BY ExpireesSubset, NbSiegesNat DEF NbSieges, Sieges, Prises
    <3>2. /\ libere \in VoyageRow
          /\ libere.restantes <= voyages[v].restantes + Prises(f, E) /\ libere.restantes \in Int
          /\ libere.total = voyages[v].total
          /\ voyages[v].statut # "absent"
      BY <1>0, <2>1, <2>6, <3>1, RestitueBorne, RestitueSiOuvertProps
    <3> HIDE DEF libere, s, E
    <3>3. y.restantes = libere.restantes - n /\ y.total = libere.total
      BY <3>2 DEF VoyageRow
    <3>4. voyages'[v].restantes = libere.restantes - n /\ voyages'[v].total = voyages[v].total
      BY <2>1, <2>6, <3>2, <3>3 DEF TypeOK
    <3>5. Occ(g, v) \ {r} \subseteq Occ(f, v) \ E
      BY <2>2 DEF Occ, Occupantes
    <3>6. r \in Occ(g, v) /\ g[r].places = n
      BY <2>1, <2>6 DEF Occ, Occupantes
    <3>7. Prises(g, Occ(g, v)) = Prises(g, Occ(g, v) \ {r}) + Prises(g, {r})
      <4>1. Occ(g, v) = (Occ(g, v) \ {r}) \cup {r}
        BY <3>6
      <4>2. Occ(g, v) \ {r} \in SUBSET Resa
        BY DEF Occ
      <4> QED
        BY <4>1, <4>2, PrisesUnion
    <3>8. Prises(g, {r}) = n
      BY <2>3, <3>6, PrisesUne
    <3>9. Prises(g, Occ(g, v) \ {r}) = Prises(f, Occ(g, v) \ {r})
      <4>1. \A q \in Occ(g, v) \ {r} : g[q].places = f[q].places
        BY <2>2 DEF Occ
      <4> QED
        BY <4>1, PrisesEgales
    <3>10. /\ Prises(f, Occ(g, v) \ {r}) + Prises(f, E) <= Prises(f, Occ(f, v))
           /\ Prises(f, Occ(g, v) \ {r}) \in Nat /\ Prises(f, E) \in Nat /\ Prises(f, Occ(f, v)) \in Nat
      <4>1. Occ(f, v) \in SUBSET Resa
        BY DEF Occ
      <4> QED
        BY <2>4, <2>6, <3>5, <4>1, PrisesLiberees
    <3>11. Prises(f, Occ(f, v)) + voyages[v].restantes <= voyages[v].total
      BY <1>0, <3>2 DEF Bilan
    <3>12. Prises(g, Occ(g, v)) + voyages'[v].restantes <= voyages'[v].total
      BY <1>0, <2>3, <3>2, <3>4, <3>7, <3>8, <3>9, <3>10, <3>11
    <3> QED
      BY <3>12 DEF Bilan
  <2> QED
    BY <2>5, <2>6
<1>8. ASSUME NEW r \in Resa, CancelReservation(r) \/ Annuler(r) \/ RejectReservation(r),
             f[r].statut \in {"EN_ATTENTE_PAIEMENT", "EN_ATTENTE", "CONFIRMEE"}
      PROVE  Bilan(g, voyages', v)
  <2>1. /\ f[r].voyage \in Voyage /\ f[r].places \in Place /\ f[r].places \in Nat
        /\ r \in Occ(f, f[r].voyage)
    BY <1>8 DEF Liens, Place, Occ, Occupantes
  <2>2. PICK s \in {"ANNULEE", "REFUSEE"} : g = AvecStatut({r}, s)
    BY <1>8 DEF CancelReservation, Annuler, RejectReservation
  <2>3. /\ g[r].statut \in {"ANNULEE", "REFUSEE"}
        /\ \A q \in Resa : f[q].statut = "absent" => g[q].statut = "absent"
    BY <1>8, <2>2, AvecStatutProps DEF StatutReservation
  <2>4. CASE v # f[r].voyage
    <3>1. voyages'[v] = voyages[v]
      BY <1>8, <2>4 DEF CancelReservation, Annuler, RejectReservation, TypeOK
    <3> QED
      BY <1>3, <2>3, <3>1
  <2>5. CASE v = f[r].voyage
    <3>1. voyages'[v] \in {RestitueSiOuvert(voyages[v], f[r].places),
                           RestitueSiReservable(voyages[v], f[r].places)}
      BY <1>8, <2>1, <2>5 DEF CancelReservation, Annuler, RejectReservation, TypeOK
    <3>2. /\ voyages'[v].restantes \in Int
          /\ voyages'[v].restantes <= voyages[v].restantes + f[r].places
          /\ voyages'[v].total = voyages[v].total
      BY <1>0, <2>1, <3>1, RestitueBorne
    <3>3. Prises(f, {r}) = f[r].places
      BY <2>1, PrisesUne
    <3>4. voyages[v].statut # "absent"
      BY <1>8, <2>5 DEF VoyagePresent
    <3>5. {r} \in SUBSET Occ(f, v) /\ r \notin Occ(g, v)
      BY <2>1, <2>3, <2>5 DEF Occ, Occupantes
    <3> QED
      BY <1>1, <2>3, <3>2, <3>3, <3>4, <3>5
  <2> QED
    BY <2>4, <2>5
<1>9. ASSUME AnnulerPaiementsExpires
      PROVE  Bilan(g, voyages', v)
  <2> DEFINE T == UNION {Expirees(u) : u \in Voyage}
             E == Expirees(v)
  <2>1. T \in SUBSET Resa /\ E \subseteq T /\ \A q \in T : f[q].statut = "EN_ATTENTE_PAIEMENT"
    BY ExpireesSubset DEF Expirees, ResasDe
  <2>2. /\ g = AvecStatut(T, "ANNULEE")
        /\ voyages'[v] = RestitueSiOuvert(voyages[v], NbSieges(E))
    BY <1>9 DEF AnnulerPaiementsExpires
  <2>3. NbSieges(E) = Prises(f, E) /\ NbSieges(E) \in Nat /\ E \in SUBSET Occ(f, v)
    BY ExpireesSubset, NbSiegesNat DEF NbSieges, Sieges, Prises, Expirees, ResasDe, Occ, Occupantes
  <2> HIDE DEF T, E
  <2>4. \A q \in Resa : g[q].statut = IF q \in T THEN "ANNULEE" ELSE f[q].statut
    BY <2>1, <2>2, AvecStatutProps DEF StatutReservation
  <2>5. \A q \in E : q \notin Occ(g, v)
    BY <2>1, <2>4 DEF Occ, Occupantes
  <2>6. \A q \in Resa : f[q].statut = "absent" => g[q].statut = "absent"
    BY <2>1, <2>4
  <2>7. /\ voyages'[v].restantes \in Int
        /\ voyages'[v].restantes <= voyages[v].restantes + Prises(f, E)
        /\ voyages'[v].total = voyages[v].total
    BY <1>0, <2>2, <2>3, RestitueBorne
  <2>8. CASE voyages[v].statut = "absent"
    BY <1>0, <2>2, <2>3, <2>8, RestitueBorne DEF Bilan
  <2>9. CASE voyages[v].statut # "absent"
    BY <1>1, <2>3, <2>5, <2>6, <2>7, <2>9
  <2> QED
    BY <2>8, <2>9
<1>10. ASSUME NEW r \in Resa, Valider(r) \/ AcceptReservation(r) \/ AdminCancelReservation(r),
              f[r].statut # "absent"
       PROVE  Bilan(g, voyages', v)
  <2>1. UNCHANGED voyages /\ \E s \in StatutReservation : g = AvecStatut({r}, s)
    BY <1>10 DEF Valider, AcceptReservation, AdminCancelReservation, StatutReservation
  <2>2. \A q \in Resa : f[q].statut = "absent" => g[q].statut = "absent"
    BY <1>10, <2>1, AvecStatutProps
  <2> QED
    BY <1>3, <2>1, <2>2
<1>11. ASSUME \/ \E r \in Resa, t \in Tx : InitierPaiement(r, t) \/ InitierPaiementSansLien(r, t)
              \/ Tick \/ \E t \in Tx : FedaPay(t)
              \/ UNCHANGED vars
       PROVE  Bilan(g, voyages', v)
  <2>1. UNCHANGED voyages /\ \A q \in Resa : g[q].statut = f[q].statut
    BY <1>11 DEF InitierPaiement, InitierPaiementSansLien, Tick, FedaPay, vars, TypeOK, ResaRow
  <2> QED
    BY <1>3, <2>1
<1>12. ASSUME NEW r \in Resa, CancelReservation(r) \/ RejectReservation(r)
       PROVE  f[r].statut \in {"EN_ATTENTE_PAIEMENT", "EN_ATTENTE", "CONFIRMEE"}
  BY <1>12 DEF CancelReservation, RejectReservation
<1>13. ASSUME NEW r \in Resa, AcceptReservation(r) \/ AdminCancelReservation(r)
       PROVE  f[r].statut # "absent"
  BY <1>13 DEF AcceptReservation, AdminCancelReservation
<1> HIDE DEF f, g
<1> QED
  BY <1>5, <1>6, <1>7, <1>8, <1>9, <1>10, <1>11, <1>12, <1>13, PollSobreStep DEF Next, f, g

LEMMA NextSurreservation ==
    TypeOK /\ Liens /\ VoyagePresent /\ PasDeSurreservation /\ Sobre /\ [Next]_vars
        => PasDeSurreservation'
  BY BilanNext, BilanSurreservation

-----------------------------------------------------------------------------
(* One row per collection, and the exact payout *)

\* A collection with a row belongs to a reservation that no longer awaits its payment.
EcriteUneFois ==
    \A t \in Tx :
        /\ ecritures[t] <= 1
        /\ ecritures[t] > 0 =>
               /\ tx[t].statut # "absente" /\ tx[t].resa \in Resa
               /\ reservations[tx[t].resa].statut \notin {"absent", "EN_ATTENTE_PAIEMENT"}

\* A step enters a row for a collection only as its reservation leaves EN_ATTENTE_PAIEMENT.
LEMMA EcritureStep ==
    TypeOK /\ Liens /\ Sobre /\ [Next]_vars =>
        \A t \in Tx :
            /\ tx[t].statut # "absente" => tx'[t].statut # "absente" /\ tx'[t].resa = tx[t].resa
            /\ \/ ecritures'[t] = ecritures[t]
               \/ /\ tx[t].statut # "absente" /\ tx[t].resa \in Resa
                  /\ reservations[tx[t].resa].statut = "EN_ATTENTE_PAIEMENT"
                  /\ reservations'[tx[t].resa].statut = "EN_ATTENTE"
                  /\ ecritures[t] = 0 => ecritures'[t] = 1
<1> SUFFICES ASSUME TypeOK, Liens, Sobre, [Next]_vars, NEW t \in Tx
             PROVE  /\ tx[t].statut # "absente" => tx'[t].statut # "absente" /\ tx'[t].resa = tx[t].resa
                    /\ \/ ecritures'[t] = ecritures[t]
                       \/ /\ tx[t].statut # "absente" /\ tx[t].resa \in Resa
                          /\ reservations[tx[t].resa].statut = "EN_ATTENTE_PAIEMENT"
                          /\ reservations'[tx[t].resa].statut = "EN_ATTENTE"
                          /\ ecritures[t] = 0 => ecritures'[t] = 1
  OBVIOUS
<1> DEFINE Garde == tx[t].statut # "absente" => tx'[t].statut # "absente" /\ tx'[t].resa = tx[t].resa
<1>1. ASSUME NEW r \in Resa, Valider(r), reservations[r].statut = "EN_ATTENTE_PAIEMENT",
             reservations[r].tx # Aucun
      PROVE  /\ Garde
             /\ \/ ecritures'[t] = ecritures[t]
                \/ /\ tx[t].statut # "absente" /\ tx[t].resa = r
                   /\ reservations'[r].statut = "EN_ATTENTE"
                   /\ ecritures[t] = 0 => ecritures'[t] = 1
  <2>1. /\ reservations[r].tx \in Tx /\ tx[reservations[r].tx].resa = r
        /\ tx[reservations[r].tx].statut # "absente"
    BY <1>1 DEF TypeOK, ResaRow, Liens
  <2>2. tx' = tx /\ reservations' = AvecStatut({r}, "EN_ATTENTE")
        /\ ecritures' = [ecritures EXCEPT ![reservations[r].tx] = IF @ < 2 THEN @ + 1 ELSE @]
    BY <1>1 DEF Valider
  <2>3. reservations'[r].statut = "EN_ATTENTE"
    BY <2>2, AvecStatutProps DEF StatutReservation
  <2>4. CASE t # reservations[r].tx
    BY <2>2, <2>4 DEF TypeOK
  <2>5. CASE t = reservations[r].tx
    <3>1. ecritures'[t] = IF ecritures[t] < 2 THEN ecritures[t] + 1 ELSE ecritures[t]
      BY <2>2, <2>5 DEF TypeOK
    <3>2. ecritures[t] = 0 => ecritures'[t] = 1
      BY <3>1
    <3> QED
      BY <2>1, <2>2, <2>3, <2>5, <3>2
  <2> QED
    BY <2>4, <2>5
<1>2. ASSUME NEW r \in Resa, NEW u \in Tx, InitierPaiement(r, u) \/ InitierPaiementSansLien(r, u)
      PROVE  Garde /\ ecritures' = ecritures
  <2>1. /\ tx[u].statut = "absente" /\ ecritures' = ecritures
        /\ \A w \in Tx : w # u => tx'[w] = tx[w]
    BY <1>2 DEF InitierPaiement, InitierPaiementSansLien, TypeOK
  <2> QED
    BY <2>1
<1>3. ASSUME NEW u \in Tx, FedaPay(u)
      PROVE  Garde /\ ecritures' = ecritures
  BY <1>3 DEF FedaPay, TypeOK, TxRow
<1>4. ASSUME \/ \E v \in Voyage : \/ \E n \in TotalPlaces : CreateVoyage(v, n)
                                  \/ StartVoyage(v) \/ EndVoyage(v)
                                  \/ CancelVoyage(v) \/ AdminCancelVoyage(v)
             \/ \E r \in Resa : \/ \E v \in Voyage, n \in PlacesDemandees : CreateReservation(r, v, n)
                                \/ AcceptReservation(r) \/ RejectReservation(r)
                                \/ CancelReservation(r) \/ AdminCancelReservation(r) \/ Annuler(r)
             \/ AnnulerPaiementsExpires \/ Tick \/ UNCHANGED vars
      PROVE  UNCHANGED <<tx, ecritures>>
  BY <1>4 DEF CreateVoyage, StartVoyage, EndVoyage, CancelVoyage, AdminCancelVoyage, CreateReservation,
     AcceptReservation, RejectReservation, CancelReservation, AdminCancelReservation, Annuler,
     AnnulerPaiementsExpires, Tick, vars
<1>5. ASSUME NEW r \in Resa, StatutPaiement(r)
      PROVE  /\ reservations[r].statut = "EN_ATTENTE_PAIEMENT" /\ reservations[r].tx # Aucun
             /\ Annuler(r) \/ Valider(r)
  BY <1>5, PollSobreStep DEF StatutPaiement, PollExpire, PollConfirme, PollEchec, Interrogeable
<1> QED
  BY <1>1, <1>2, <1>3, <1>4, <1>5 DEF Next

LEMMA NextEcriture ==
    TypeOK /\ Liens /\ EcriteUneFois /\ Sobre /\ [Next]_vars => EcriteUneFois'
<1> SUFFICES ASSUME TypeOK, Liens, EcriteUneFois, Sobre, [Next]_vars, NEW t \in Tx
             PROVE  /\ ecritures'[t] <= 1
                    /\ ecritures'[t] > 0 =>
                           /\ tx'[t].statut # "absente" /\ tx'[t].resa \in Resa
                           /\ reservations'[tx'[t].resa].statut \notin {"absent", "EN_ATTENTE_PAIEMENT"}
  BY DEF EcriteUneFois
<1>1. \A r \in Resa : reservations[r].statut \notin {"absent", "EN_ATTENTE_PAIEMENT"} =>
                          reservations'[r].statut \notin {"absent", "EN_ATTENTE_PAIEMENT"}
  BY VieStep DEF Poursuit, Suit
<1>2. tx[t].statut # "absente" => tx'[t].statut # "absente" /\ tx'[t].resa = tx[t].resa
  BY EcritureStep
<1>3. CASE ecritures'[t] = ecritures[t]
  BY <1>1, <1>2, <1>3 DEF EcriteUneFois
<1>4. CASE ecritures'[t] # ecritures[t]
  <2>1. /\ tx[t].statut # "absente" /\ tx[t].resa \in Resa
        /\ reservations[tx[t].resa].statut = "EN_ATTENTE_PAIEMENT"
        /\ reservations'[tx[t].resa].statut = "EN_ATTENTE"
        /\ ecritures[t] = 0 => ecritures'[t] = 1
    BY <1>4, EcritureStep
  <2>2. ~ (ecritures[t] > 0) /\ ecritures[t] \in NbEcritures
    BY <2>1 DEF EcriteUneFois, TypeOK
  <2>3. ecritures[t] = 0
    BY <2>2 DEF NbEcritures
  <2> QED
    BY <1>2, <2>1, <2>3
<1> QED
  BY <1>3, <1>4

LEMMA NextReversement ==
    TypeOK /\ TermineeReversee' /\ ReversementExact /\ Sobre /\ [Next]_vars => ReversementExact'
<1> SUFFICES ASSUME TypeOK, TermineeReversee', ReversementExact, Sobre, [Next]_vars, NEW v \in Voyage
             PROVE  reverses'[v] = ResasDe(v, {"TERMINEE"})'
  BY DEF ReversementExact
<1>1. ASSUME NEW r \in ResasDe(v, {"TERMINEE"})'
      PROVE  r \in reverses'[v]
  BY <1>1 DEF TermineeReversee, ResasDe
<1>2. ASSUME NEW r \in reverses'[v]
      PROVE  r \in ResasDe(v, {"TERMINEE"})'
  <2>1. CASE r \in reverses[v]
    <3>1. r \in Resa /\ reservations[r].voyage = v /\ reservations[r].statut = "TERMINEE"
      BY <2>1 DEF ReversementExact, ResasDe
    <3> QED
      BY <3>1, VieStep DEF Poursuit, Suit, ResasDe
  <2>2. CASE r \notin reverses[v]
    <3>1. EndVoyage(v)
      BY <1>2, <2>2 DEF Next, vars, CreateVoyage, StartVoyage, EndVoyage, CancelVoyage,
         AdminCancelVoyage, CreateReservation, InitierPaiement, InitierPaiementSansLien, StatutPaiement,
         PollExpire, PollConfirme, PollEchec, Annuler, Valider, AcceptReservation, RejectReservation,
         CancelReservation, AdminCancelReservation, AnnulerPaiementsExpires, Tick, FedaPay, TypeOK
    <3>2. r \in ResasDe(v, {"CONFIRMEE"}) /\ reservations' = AvecStatut(ResasDe(v, {"CONFIRMEE"}), "TERMINEE")
      BY <1>2, <3>1 DEF EndVoyage, TypeOK
    <3>3. r \in Resa /\ reservations'[r].voyage = reservations[r].voyage /\ reservations'[r].statut = "TERMINEE"
      BY <3>2, AvecStatutProps, ResasDeSubset DEF StatutReservation
    <3> QED
      BY <3>2, <3>3 DEF ResasDe
  <2> QED
    BY <2>1, <2>2
<1> QED
  BY <1>1, <1>2

\* The inductive invariant under sober polls.
IInvSobre ==
    IInv /\ VoyagePresent /\ PasDeSurreservation /\ EcriteUneFois /\ ReversementExact

LEMMA InitSobre == Init => VoyagePresent /\ PasDeSurreservation /\ EcriteUneFois /\ ReversementExact
<1> SUFFICES ASSUME Init
             PROVE  VoyagePresent /\ PasDeSurreservation /\ EcriteUneFois /\ ReversementExact
  OBVIOUS
<1>1. \A v \in Voyage : \A X : "absent" \notin X => ResasDe(v, X) = {}
  BY DEF Init, ResasDe
<1> QED
  BY <1>1 DEF Init, VoyagePresent, PasDeSurreservation, EcriteUneFois, ReversementExact

\* With clients that stop polling a settled reservation, IInvSobre is inductive.
THEOREM InductifSobre == Sobre => (Spec => []IInvSobre)
<1> SUFFICES ASSUME Sobre
             PROVE  Spec => []IInvSobre
  OBVIOUS
<1>1. Spec => []IInv
  BY Inductif
<1>2. Init => VoyagePresent /\ PasDeSurreservation /\ EcriteUneFois /\ ReversementExact
  BY InitSobre
<1>3. IInv /\ IInv' /\ IInvSobre /\ [Next]_vars => IInvSobre'
  BY NextPresent, NextSurreservation, NextEcriture, NextReversement DEF IInv, IInvSobre
<1>4. IInv /\ (VoyagePresent /\ PasDeSurreservation /\ EcriteUneFois /\ ReversementExact) => IInvSobre
  BY DEF IInvSobre
<1> QED
  BY <1>1, <1>2, <1>3, <1>4, PTL DEF Spec

\* Seats are never sold twice: what the occupants of a trip hold and what is still on sale
\* never exceed the seats of the vehicle.
THEOREM Surreservation == Sobre => (Spec => []PasDeSurreservation)
<1>1. IInvSobre => PasDeSurreservation
  BY DEF IInvSobre
<1> QED
  BY <1>1, InductifSobre, PTL

\* The driver is paid for exactly the reservations that were travelled.
THEOREM Exactitude == Sobre => (Spec => []ReversementExact)
<1>1. IInvSobre => ReversementExact
  BY DEF IInvSobre
<1> QED
  BY <1>1, InductifSobre, PTL

\* A collection is entered at most once in the transactions, however polls repeat.
THEOREM UneEcriture == Sobre => (Spec => []EcritureUnique)
<1>1. IInvSobre => EcritureUnique
  BY DEF IInvSobre, EcriteUneFois, EcritureUnique
<1> QED
  BY <1>1, InductifSobre, PTL

-----------------------------------------------------------------------------
(* Requests that overlap: what a request in progress may rely on *)

\* The finite tables of copies, over the rows of a table.
Partielles(X, Y) == UNION {[S -> Y] : S \in SUBSET X}

Requetes == [op : Operation, v : Voyage \cup {Aucun}, r : Resa \cup {Aucun}, n : Place \cup {0},
             vues : Partielles(Voyage, VoyageRow), lues : Partielles(Resa, ResaRow),
             choisi : BOOLEAN, reponse : StatutTx]

\* What the row x that a request on a reservation has read let it through for.
Lue(x, op) ==
    /\ op = "initier_paiement" => x.statut = "EN_ATTENTE_PAIEMENT" /\ x.reste >= 0
    /\ op = "statut_paiement"  => x.statut \in PollStatuts \ {"EN_ATTENTE"} /\ x.tx # Aucun
    /\ op = "cancel_reservation" => x.statut \in {"EN_ATTENTE_PAIEMENT", "EN_ATTENTE", "CONFIRMEE"}
    /\ op \in {"accept_reservation", "reject_reservation"} => x.statut = "EN_ATTENTE"
    /\ op = "admin_cancel_reservation" => x.statut \in {"EN_ATTENTE", "CONFIRMEE"}

\* What a request in progress has read fits what it will do.
Formee(q) ==
    /\ \A v \in DOMAIN q.vues : q.vues[v].restantes >= 0
    /\ q.op \in SurVoyage => q.v \in DOMAIN q.vues /\ q.vues[q.v].statut \in Ouverts(q.op)
    /\ q.op \in SurResa => /\ q.r \in Resa /\ DOMAIN q.lues = {q.r} /\ Lue(q.lues[q.r], q.op)
                           /\ DOMAIN q.vues \subseteq {q.lues[q.r].voyage}
    /\ q.op = "create_reservation" => q.r \in Resa /\ q.v \in DOMAIN q.vues /\ q.n \in PlacesDemandees
    /\ q.reponse # "absente" => q.op = "statut_paiement" /\ q.lues[q.r].reste >= 0

\* The reservation r has a collection of its own, paid and booked, in the tables T and E.
Reglee(r, T, E) == \E t \in Tx : T[t].resa = r /\ T[t].statut \in {"approved", "refunded"} /\ E[t] > 0

\* Of the row x of r that a request has read, what no other request can have changed in
\* the tables R, T and E since.
Durable(r, x, R, T, E) ==
    /\ x.statut # "absent" /\ x.voyage \in Voyage /\ x.places \in Place
    /\ R[r].statut # "absent" /\ R[r].voyage = x.voyage /\ R[r].places = x.places
    /\ x.tx # Aucun => T[x.tx].resa = r /\ T[x.tx].statut # "absente"
    /\ x.statut \in Montrees => Reglee(r, T, E)

\* The seats that a create_reservation has freed and may sell.
Vendables(q, R) ==
    LET libere == RestitueSiOuvert(q.vues[q.v], Prises(R, DOMAIN q.lues))
    IN  libere.statut = "PUBLIE" /\ libere.restantes >= q.n

Fidele(q, R, T, E) ==
    /\ \A r \in DOMAIN q.lues : Durable(r, q.lues[r], R, T, E)
    /\ q.reponse \in Succes => T[q.lues[q.r].tx].statut \in {"approved", "refunded"}
    /\ q.op = "create_reservation" => R[q.r].statut = "absent" /\ (q.choisi => Vendables(q, R))

\* Two requests never insert the same row.
Distincts ==
    \A s, u \in Session :
        /\ session[s].op = "create_reservation" /\ session[u].op = "create_reservation"
        /\ session[s].r = session[u].r
        => s = u

IInvC ==
    /\ TypeOK /\ Liens /\ PayeeAvantVisible
    /\ \A v \in Voyage : voyages[v].restantes >= 0
    /\ melanges \subseteq Voyage
    /\ session \in [Session -> Requetes]
    /\ \A s \in Session : Formee(session[s]) /\ Fidele(session[s], reservations, tx, ecritures)
    /\ Distincts

LEMMA PartiellesProps ==
    ASSUME NEW X, NEW Y, NEW f
    PROVE  /\ f \in Partielles(X, Y) <=> \E S \in SUBSET X : f \in [S -> Y]
           /\ f \in Partielles(X, Y) =>
                 DOMAIN f \in SUBSET X /\ f \in [DOMAIN f -> Y] /\ \A x \in DOMAIN f : f[x] \in Y
  BY DEF Partielles

LEMMA LibreRequete ==
    Libre \in Requetes /\ Libre.op = "libre" /\ DOMAIN Libre.vues = {} /\ DOMAIN Libre.lues = {}
    /\ Libre.reponse = "absente" /\ Libre.choisi = FALSE
<1>1. <<>> \in Partielles(Voyage, VoyageRow) /\ <<>> \in Partielles(Resa, ResaRow)
  <2>1. {} \in SUBSET Voyage /\ {} \in SUBSET Resa
        /\ <<>> \in [{} -> VoyageRow] /\ <<>> \in [{} -> ResaRow]
    OBVIOUS
  <2> QED
    BY <2>1, PartiellesProps
<1> QED
  BY <1>1 DEF Libre, Requetes, Operation, StatutTx

LEMMA LibreFormee ==
    Formee(Libre) /\ \A R, T, E : Fidele(Libre, R, T, E)
  BY LibreRequete DEF Formee, Fidele, SurVoyage, SurResa, Succes

\* A request in progress is of the shape that TypeOKC spells out.
LEMMA TypeDeIInvC == IInvC => TypeOKC
<1> SUFFICES ASSUME IInvC, NEW s \in Session
             PROVE  LET q == session[s] IN
                    /\ q = [op |-> q.op, v |-> q.v, r |-> q.r, n |-> q.n, vues |-> q.vues,
                            lues |-> q.lues, choisi |-> q.choisi, reponse |-> q.reponse]
                    /\ q.op \in Operation
                    /\ q.v \in Voyage \cup {Aucun}
                    /\ q.r \in Resa \cup {Aucun}
                    /\ q.n \in Place \cup {0}
                    /\ \E S \in SUBSET Voyage : q.vues \in [S -> VoyageRow]
                    /\ \E S \in SUBSET Resa : q.lues \in [S -> ResaRow]
                    /\ q.choisi \in BOOLEAN
                    /\ q.reponse \in StatutTx
  BY DEF IInvC, TypeOKC
<1>1. session[s] \in Requetes
  BY DEF IInvC
<1>2. session[s].vues \in Partielles(Voyage, VoyageRow) /\ session[s].lues \in Partielles(Resa, ResaRow)
  BY <1>1 DEF Requetes
<1>3. /\ \E S \in SUBSET Voyage : session[s].vues \in [S -> VoyageRow]
      /\ \E S \in SUBSET Resa : session[s].lues \in [S -> ResaRow]
  BY <1>2, PartiellesProps
<1> DEFINE q == session[s]
<1>4. /\ q = [op |-> q.op, v |-> q.v, r |-> q.r, n |-> q.n, vues |-> q.vues, lues |-> q.lues,
              choisi |-> q.choisi, reponse |-> q.reponse]
      /\ q.op \in Operation /\ q.v \in Voyage \cup {Aucun} /\ q.r \in Resa \cup {Aucun}
      /\ q.n \in Place \cup {0} /\ q.choisi \in BOOLEAN /\ q.reponse \in StatutTx
  BY <1>1 DEF Requetes
<1> QED
  BY <1>3, <1>4

-----------------------------------------------------------------------------
(* The UPDATE of a row *)

LEMMA EcriteResa ==
    ASSUME NEW ligne \in ResaRow, NEW lu \in ResaRow, NEW s \in StatutReservation
    PROVE  Ecrite(ligne, lu, [lu EXCEPT !.statut = s])
             = IF lu.statut = s THEN ligne ELSE [ligne EXCEPT !.statut = s]
  BY DEF Ecrite, ResaRow

LEMMA EcriteVoyage ==
    ASSUME NEW ligne \in VoyageRow, NEW lu \in VoyageRow, NEW vers \in VoyageRow
    PROVE  /\ Ecrite(ligne, lu, vers) \in VoyageRow
           /\ Ecrite(ligne, lu, vers).restantes \in {ligne.restantes, vers.restantes}
           /\ Ecrite(ligne, lu, vers).statut \in {ligne.statut, vers.statut}
           /\ ligne = lu => Ecrite(ligne, lu, vers) = vers
<1> DEFINE y == Ecrite(ligne, lu, vers)
<1>1. DOMAIN ligne = {"statut", "total", "restantes"} /\ DOMAIN vers = {"statut", "total", "restantes"}
  BY DEF VoyageRow
<1>2. y = [statut |-> IF lu.statut = vers.statut THEN ligne.statut ELSE vers.statut,
           total |-> IF lu.total = vers.total THEN ligne.total ELSE vers.total,
           restantes |-> IF lu.restantes = vers.restantes THEN ligne.restantes ELSE vers.restantes]
  BY <1>1 DEF Ecrite
<1>3. ligne = lu => y = vers
  <2> SUFFICES ASSUME ligne = lu
               PROVE  y = vers
    OBVIOUS
  <2>1. vers = [statut |-> vers.statut, total |-> vers.total, restantes |-> vers.restantes]
    BY DEF VoyageRow
  <2>2. y = [statut |-> vers.statut, total |-> vers.total, restantes |-> vers.restantes]
    BY <1>2
  <2> QED
    BY <2>1, <2>2
<1>4. /\ y \in VoyageRow /\ y.restantes \in {ligne.restantes, vers.restantes}
      /\ y.statut \in {ligne.statut, vers.statut}
  BY <1>2 DEF VoyageRow
<1> QED
  BY <1>3, <1>4
-----------------------------------------------------------------------------
(* What no step takes back *)

Evolue ==
    /\ \A r \in Resa : reservations[r].statut # "absent" =>
           /\ reservations'[r].statut # "absent"
           /\ reservations'[r].voyage = reservations[r].voyage
           /\ reservations'[r].places = reservations[r].places
    /\ \A t \in Tx : tx[t].statut # "absente" =>
           /\ tx'[t].resa = tx[t].resa /\ tx'[t].statut # "absente"
           /\ tx[t].statut \in {"approved", "refunded"} => tx'[t].statut \in {"approved", "refunded"}
           /\ ecritures'[t] >= ecritures[t]

LEMMA RegleeStable ==
    ASSUME TypeOK, TypeOK', Evolue, NEW r \in Resa, Reglee(r, tx, ecritures)
    PROVE  Reglee(r, tx', ecritures')
<1>1. PICK t \in Tx : /\ tx[t].resa = r /\ tx[t].statut \in {"approved", "refunded"}
                      /\ ecritures[t] > 0
  BY DEF Reglee
<1>2. /\ tx'[t].resa = r /\ tx'[t].statut \in {"approved", "refunded"}
      /\ ecritures'[t] >= ecritures[t]
  BY <1>1 DEF Evolue
<1>3. ecritures[t] \in Nat /\ ecritures'[t] \in Nat
  BY DEF TypeOK, NbEcritures
<1> QED
  BY <1>1, <1>2, <1>3 DEF Reglee

LEMMA DurableStable ==
    ASSUME TypeOK, TypeOK', Evolue, NEW r \in Resa, NEW x \in ResaRow,
           Durable(r, x, reservations, tx, ecritures)
    PROVE  Durable(r, x, reservations', tx', ecritures')
<1>1. x.tx # Aucun => tx'[x.tx].resa = r /\ tx'[x.tx].statut # "absente"
  BY DEF Durable, Evolue, ResaRow
<1>2. x.statut \in Montrees => Reglee(r, tx', ecritures')
  BY RegleeStable DEF Durable
<1> QED
  BY <1>1, <1>2 DEF Durable, Evolue

LEMMA FideleStable ==
    ASSUME TypeOK, TypeOK', Evolue, NEW q \in Requetes, Formee(q),
           Fidele(q, reservations, tx, ecritures),
           q.op = "create_reservation" => reservations'[q.r].statut = "absent"
    PROVE  Fidele(q, reservations', tx', ecritures')
<1>1. q.lues \in Partielles(Resa, ResaRow)
  BY DEF Requetes
<1>2. DOMAIN q.lues \in SUBSET Resa /\ \A r \in DOMAIN q.lues : q.lues[r] \in ResaRow
  BY <1>1, PartiellesProps
<1>3. \A r \in DOMAIN q.lues : Durable(r, q.lues[r], reservations', tx', ecritures')
  BY <1>2, DurableStable DEF Fidele
<1>4. q.reponse \in Succes => tx'[q.lues[q.r].tx].statut \in {"approved", "refunded"}
  <2> SUFFICES ASSUME q.reponse \in Succes
               PROVE  tx'[q.lues[q.r].tx].statut \in {"approved", "refunded"}
    OBVIOUS
  <2>1. q.op = "statut_paiement"
    BY DEF Formee, Succes
  <2>2. q.r \in DOMAIN q.lues /\ q.lues[q.r].tx # Aucun
    BY <2>1 DEF Formee, SurResa, Lue
  <2>3. q.lues[q.r].tx \in Tx
    BY <1>2, <2>2 DEF ResaRow
  <2> QED
    BY <2>3 DEF Fidele, Evolue
<1>5. Vendables(q, reservations) => Vendables(q, reservations')
  <2>1. \A r \in DOMAIN q.lues : reservations[r].places = reservations'[r].places
    BY <1>2 DEF Fidele, Durable, Evolue
  <2>2. Prises(reservations, DOMAIN q.lues) = Prises(reservations', DOMAIN q.lues)
    BY <2>1, PrisesEgales
  <2> QED
    BY <2>2 DEF Vendables
<1> QED
  BY <1>3, <1>4, <1>5 DEF Fidele

\* The sessions, after a step of s that leaves it at q.
LEMMA Suivi ==
    ASSUME IInvC, TypeOK', Evolue, NEW s \in Session, NEW q \in Requetes,
           session' = [session EXCEPT ![s] = q],
           Formee(q), Fidele(q, reservations', tx', ecritures'),
           \A r \in Resa : reservations[r].statut = "absent" =>
               \/ reservations'[r].statut = "absent"
               \/ session[s].op = "create_reservation" /\ session[s].r = r,
           q.op = "create_reservation" =>
               \A u \in Session \ {s} : session[u].op = "create_reservation" => session[u].r # q.r
    PROVE  /\ session' \in [Session -> Requetes]
           /\ \A u \in Session : Formee(session'[u]) /\ Fidele(session'[u], reservations', tx', ecritures')
           /\ Distincts'
<1>1. \A u \in Session : session'[u] = IF u = s THEN q ELSE session[u]
  BY DEF IInvC
<1>2. session' \in [Session -> Requetes]
  BY DEF IInvC
<1>3. ASSUME NEW u \in Session, u # s
      PROVE  Formee(session[u]) /\ Fidele(session[u], reservations', tx', ecritures')
  <2>1. /\ session[u] \in Requetes /\ Formee(session[u])
        /\ Fidele(session[u], reservations, tx, ecritures)
    BY DEF IInvC
  <2>2. session[u].op = "create_reservation" => reservations'[session[u].r].statut = "absent"
    <3> SUFFICES ASSUME session[u].op = "create_reservation"
                 PROVE  reservations'[session[u].r].statut = "absent"
      OBVIOUS
    <3>1. session[u].r \in Resa /\ reservations[session[u].r].statut = "absent"
      BY <2>1 DEF Formee, Fidele
    <3>2. ~ (session[s].op = "create_reservation" /\ session[s].r = session[u].r)
      BY <1>3 DEF IInvC, Distincts
    <3> QED
      BY <3>1, <3>2
  <2> QED
    BY <2>1, <2>2, FideleStable DEF IInvC
<1>4. Distincts'
  BY <1>1 DEF IInvC, Distincts
<1> QED
  BY <1>1, <1>2, <1>3, <1>4

\* The sessions, after a step of the clock, of FedaPay or of a driver.
LEMMA SuiviExterne ==
    ASSUME IInvC, TypeOK', Evolue, UNCHANGED session,
           \A r \in Resa : reservations[r].statut = "absent" => reservations'[r].statut = "absent"
    PROVE  /\ session' \in [Session -> Requetes]
           /\ \A u \in Session : Formee(session'[u]) /\ Fidele(session'[u], reservations', tx', ecritures')
           /\ Distincts'
<1>1. ASSUME NEW u \in Session
      PROVE  Formee(session[u]) /\ Fidele(session[u], reservations', tx', ecritures')
  <2>1. /\ session[u] \in Requetes /\ Formee(session[u])
        /\ Fidele(session[u], reservations, tx, ecritures)
    BY DEF IInvC
  <2>2. session[u].op = "create_reservation" => reservations'[session[u].r].statut = "absent"
    BY <2>1 DEF Formee, Fidele
  <2> QED
    BY <2>1, <2>2, FideleStable DEF IInvC
<1> QED
  BY <1>1 DEF IInvC, Distincts
-----------------------------------------------------------------------------
(* The requests read *)

LEMMA Lit ==
    ASSUME IInvC, NEW s \in Session, NEW q \in Requetes, UNCHANGED <<vars, melanges>>,
           session' = [session EXCEPT ![s] = q],
           Formee(q), Fidele(q, reservations, tx, ecritures),
           q.op = "create_reservation" =>
               \A u \in Session \ {s} : session[u].op = "create_reservation" => session[u].r # q.r
    PROVE  IInvC' /\ Evolue
<1>1. UNCHANGED <<voyages, reservations, tx, ecritures, reverses, melanges>>
  BY DEF vars
<1>2. TypeOK' /\ Liens' /\ PayeeAvantVisible' /\ melanges' \subseteq Voyage
      /\ \A v \in Voyage : voyages'[v].restantes >= 0
  BY <1>1 DEF IInvC, TypeOK, Liens, PayeeAvantVisible, Encaissee
<1>3. Evolue
  <2>1. \A t \in Tx : ecritures[t] \in Nat
    BY DEF IInvC, TypeOK, NbEcritures
  <2> QED
    BY <1>1, <2>1 DEF Evolue
<1>4. Fidele(q, reservations', tx', ecritures')
  BY <1>1
<1>5. \A r \in Resa : reservations[r].statut = "absent" => reservations'[r].statut = "absent"
  BY <1>1
<1>6. /\ session' \in [Session -> Requetes]
      /\ \A u \in Session : Formee(session'[u]) /\ Fidele(session'[u], reservations', tx', ecritures')
      /\ Distincts'
  BY <1>2, <1>3, <1>4, <1>5, Suivi
<1> QED
  BY <1>2, <1>3, <1>6 DEF IInvC

LEMMA AvecVoyageProps ==
    ASSUME TypeOK, NEW q \in Requetes, NEW v \in Voyage
    PROVE  /\ AvecVoyage(q, v) \in Requetes
           /\ DOMAIN AvecVoyage(q, v).vues = DOMAIN q.vues \cup {v}
           /\ \A w \in DOMAIN AvecVoyage(q, v).vues :
                  AvecVoyage(q, v).vues[w] = IF w = v THEN voyages[v] ELSE q.vues[w]
           /\ AvecVoyage(q, v).op = q.op /\ AvecVoyage(q, v).v = q.v /\ AvecVoyage(q, v).r = q.r
           /\ AvecVoyage(q, v).n = q.n /\ AvecVoyage(q, v).lues = q.lues
           /\ AvecVoyage(q, v).choisi = q.choisi /\ AvecVoyage(q, v).reponse = q.reponse
<1> DEFINE f == [w \in DOMAIN q.vues \cup {v} |-> IF w = v THEN voyages[v] ELSE q.vues[w]]
<1>1. q.vues \in Partielles(Voyage, VoyageRow)
  BY DEF Requetes
<1>2. DOMAIN q.vues \in SUBSET Voyage /\ \A w \in DOMAIN q.vues : q.vues[w] \in VoyageRow
  BY <1>1, PartiellesProps
<1>3. f \in [DOMAIN q.vues \cup {v} -> VoyageRow] /\ DOMAIN q.vues \cup {v} \in SUBSET Voyage
  BY <1>2 DEF TypeOK
<1>4. f \in Partielles(Voyage, VoyageRow)
  BY <1>3, PartiellesProps
<1>5. AvecVoyage(q, v) = [q EXCEPT !.vues = f]
  BY DEF AvecVoyage
<1>6. DOMAIN f = DOMAIN q.vues \cup {v} /\ \A w \in DOMAIN f : f[w] = IF w = v THEN voyages[v] ELSE q.vues[w]
  OBVIOUS
<1> HIDE DEF f
<1> QED
  BY <1>4, <1>5, <1>6 DEF Requetes

LEMMA CopieProps ==
    ASSUME IInvC, NEW r \in Resa
    PROVE  /\ Copie(r) \in ResaRow
           /\ Copie(r).statut = reservations[r].statut /\ Copie(r).voyage = reservations[r].voyage
           /\ Copie(r).places = reservations[r].places /\ Copie(r).tx = reservations[r].tx
           /\ Copie(r).reste = IF reservations[r].reste < 0 THEN -1 ELSE 0
           /\ reservations[r].reste \in Int
           /\ reservations[r].statut # "absent" => Durable(r, Copie(r), reservations, tx, ecritures)
<1>1. reservations[r] \in ResaRow /\ Delai \in Nat
  BY DelaiAssumption DEF IInvC, TypeOK
<1>2. /\ Copie(r) \in ResaRow
      /\ Copie(r).statut = reservations[r].statut /\ Copie(r).voyage = reservations[r].voyage
      /\ Copie(r).places = reservations[r].places /\ Copie(r).tx = reservations[r].tx
      /\ Copie(r).reste = IF reservations[r].reste < 0 THEN -1 ELSE 0
      /\ reservations[r].reste \in Int
  <2>1. (IF reservations[r].reste < 0 THEN -1 ELSE 0) \in -1..Delai
    BY <1>1
  <2> QED
    BY <1>1, <2>1 DEF Copie, ResaRow, TempsRestant
<1>3. reservations[r].statut \in Montrees => Reglee(r, tx, ecritures)
  BY DEF IInvC, PayeeAvantVisible, Reglee, Encaissee
<1> QED
  BY <1>2, <1>3 DEF Durable, IInvC, Liens

LEMMA AvecResasProps ==
    ASSUME IInvC, NEW q \in Requetes, NEW S \in SUBSET Resa
    PROVE  /\ AvecResas(q, S) \in Requetes
           /\ DOMAIN AvecResas(q, S).lues = S
           /\ \A r \in S : AvecResas(q, S).lues[r] = Copie(r)
           /\ AvecResas(q, S).op = q.op /\ AvecResas(q, S).v = q.v /\ AvecResas(q, S).r = q.r
           /\ AvecResas(q, S).n = q.n /\ AvecResas(q, S).vues = q.vues
           /\ AvecResas(q, S).reponse = q.reponse
<1> DEFINE f == [r \in S |-> Copie(r)]
<1>1. f \in [S -> ResaRow]
  BY CopieProps
<1>2. f \in Partielles(Resa, ResaRow)
  BY <1>1, PartiellesProps
<1>3. AvecResas(q, S) = [q EXCEPT !.lues = f, !.choisi = TRUE]
  BY DEF AvecResas
<1>4. DOMAIN f = S /\ \A r \in S : f[r] = Copie(r)
  OBVIOUS
<1> HIDE DEF f
<1> QED
  BY <1>2, <1>3, <1>4 DEF Requetes

LEMMA LireVoyageOK ==
    ASSUME IInvC, NEW s \in Session, NEW v \in Voyage, NEW op \in SurVoyage, LireVoyage(s, v, op)
    PROVE  IInvC' /\ Evolue
<1> DEFINE q == [Libre EXCEPT !.op = op, !.v = v]
           p == AvecVoyage(q, v)
<1>1. op \in Operation /\ op \notin SurResa /\ op # "create_reservation"
  BY DEF Operation, SurVoyage, SurResa
<1>3. /\ q \in Requetes /\ q.op = op /\ q.v = v
      /\ DOMAIN q.vues = {} /\ DOMAIN q.lues = {} /\ q.reponse = "absente"
  BY <1>1, LibreRequete DEF Requetes
<1> HIDE DEF q
<1>4. /\ p \in Requetes /\ p.op = op /\ p.v = v /\ p.reponse = "absente"
      /\ DOMAIN p.vues = {v} /\ p.vues[v] = voyages[v] /\ DOMAIN p.lues = {}
  BY <1>3, AvecVoyageProps DEF IInvC
<1>5. UNCHANGED <<vars, melanges>> /\ session' = [session EXCEPT ![s] = p]
      /\ voyages[v].statut \in Ouverts(op)
  BY DEF LireVoyage, Debuter, q
<1> HIDE DEF p
<1>6. Formee(p)
  BY <1>1, <1>4, <1>5 DEF Formee, IInvC
<1>7. Fidele(p, reservations, tx, ecritures)
  BY <1>1, <1>4 DEF Fidele, Succes
<1> QED
  BY <1>1, <1>4, <1>5, <1>6, <1>7, Lit

LEMMA AdmiseLue ==
    ASSUME IInvC, NEW r \in Resa, NEW op \in SurResa, Admise(r, op)
    PROVE  Lue(Copie(r), op) /\ reservations[r].statut # "absent"
<1>1. /\ Copie(r).statut = reservations[r].statut /\ Copie(r).tx = reservations[r].tx
      /\ reservations[r].reste >= 0 => Copie(r).reste >= 0
  BY CopieProps
<1>2. CASE op = "initier_paiement"
  <2>1. PaiementAttendu(r)
    BY <1>2 DEF Admise
  <2> QED
    BY <1>1, <1>2, <2>1 DEF PaiementAttendu, Lue
<1>3. CASE op = "statut_paiement"
  <2>1. Interrogeable(r)
    BY <1>3 DEF Admise
  <2> QED
    BY <1>1, <1>3, <2>1, PollAssumption DEF Interrogeable, Lue, StatutReservation
<1>4. CASE op = "cancel_reservation"
  BY <1>1, <1>4 DEF Admise, Lue
<1>5. CASE op \in {"accept_reservation", "reject_reservation"}
  BY <1>1, <1>5 DEF Admise, Lue
<1>6. CASE op = "admin_cancel_reservation"
  BY <1>1, <1>6 DEF Admise, Lue
<1> QED
  BY <1>2, <1>3, <1>4, <1>5, <1>6 DEF SurResa

LEMMA LireReservationOK ==
    ASSUME IInvC, NEW s \in Session, NEW r \in Resa, NEW op \in SurResa, LireReservation(s, r, op)
    PROVE  IInvC' /\ Evolue
<1> DEFINE q == [Libre EXCEPT !.op = op, !.r = r]
           p == AvecResas(q, {r})
<1>1. op \in Operation /\ op \notin SurVoyage /\ op # "create_reservation"
  BY DEF Operation, SurVoyage, SurResa
<1>3. /\ q \in Requetes /\ q.op = op /\ q.r = r
      /\ DOMAIN q.vues = {} /\ DOMAIN q.lues = {} /\ q.reponse = "absente"
  BY <1>1, LibreRequete DEF Requetes
<1> HIDE DEF q
<1>4. /\ p \in Requetes /\ p.op = op /\ p.r = r /\ p.reponse = "absente"
      /\ DOMAIN p.vues = {} /\ DOMAIN p.lues = {r} /\ p.lues[r] = Copie(r)
  BY <1>3, AvecResasProps, {r} \in SUBSET Resa
<1>5. UNCHANGED <<vars, melanges>> /\ session' = [session EXCEPT ![s] = p] /\ Admise(r, op)
  BY DEF LireReservation, Debuter, q
<1> HIDE DEF p
<1>6. Lue(Copie(r), op) /\ reservations[r].statut # "absent"
  BY <1>5, AdmiseLue
<1>7. Formee(p)
  BY <1>1, <1>4, <1>6 DEF Formee
<1>8. Fidele(p, reservations, tx, ecritures)
  BY <1>1, <1>4, <1>6, CopieProps DEF Fidele, Succes
<1> QED
  BY <1>1, <1>4, <1>5, <1>7, <1>8, Lit

LEMMA CreateReservationLireOK ==
    ASSUME IInvC, NEW s \in Session, NEW r \in Resa, NEW v \in Voyage, NEW n \in PlacesDemandees,
           CreateReservationLire(s, r, v, n)
    PROVE  IInvC' /\ Evolue
<1> DEFINE q == [Libre EXCEPT !.op = "create_reservation", !.r = r, !.v = v, !.n = n]
           p == AvecVoyage(q, v)
<1>1. n \in Place /\ "create_reservation" \in Operation
  BY PlacesAssumption DEF Operation
<1>3. /\ q \in Requetes /\ q.op = "create_reservation" /\ q.r = r /\ q.v = v /\ q.n = n
      /\ DOMAIN q.vues = {} /\ DOMAIN q.lues = {} /\ q.choisi = FALSE /\ q.reponse = "absente"
  BY <1>1, LibreRequete DEF Requetes
<1> HIDE DEF q
<1>4. /\ p \in Requetes /\ p.op = "create_reservation" /\ p.r = r /\ p.v = v /\ p.n = n
      /\ p.choisi = FALSE /\ p.reponse = "absente"
      /\ DOMAIN p.vues = {v} /\ p.vues[v] = voyages[v] /\ DOMAIN p.lues = {}
  BY <1>3, AvecVoyageProps DEF IInvC
<1>5. UNCHANGED <<vars, melanges>> /\ session' = [session EXCEPT ![s] = p]
      /\ reservations[r].statut = "absent" /\ \A u \in Session : session[u].r # r
  BY DEF CreateReservationLire, Debuter, q
<1> HIDE DEF p
<1>6. Formee(p)
  BY <1>4 DEF Formee, IInvC, SurVoyage, SurResa
<1>7. Fidele(p, reservations, tx, ecritures)
  BY <1>4, <1>5 DEF Fidele, Succes
<1> QED
  BY <1>4, <1>5, <1>6, <1>7, Lit

\* A request that goes on with the reservations S, none of them absent.
LEMMA ChoixFidele ==
    ASSUME IInvC, NEW s \in Session, session[s].op \notin SurResa, NEW S \in SUBSET Resa,
           \A r \in S : reservations[r].statut # "absent",
           session[s].op = "create_reservation" => Vendable(AvecResas(session[s], S))
    PROVE  LET p == AvecResas(session[s], S)
           IN  p \in Requetes /\ Formee(p) /\ Fidele(p, reservations, tx, ecritures)
<1> DEFINE q == session[s]
           p == AvecResas(q, S)
<1>1. q \in Requetes /\ Formee(q) /\ Fidele(q, reservations, tx, ecritures)
  BY DEF IInvC
<1> HIDE DEF q
<1>2. /\ p \in Requetes /\ DOMAIN p.lues = S /\ \A r \in S : p.lues[r] = Copie(r)
      /\ p.op = q.op /\ p.v = q.v /\ p.r = q.r /\ p.n = q.n /\ p.vues = q.vues /\ p.reponse = q.reponse
  BY <1>1, AvecResasProps
<1>3. q.op \notin SurResa /\ (q.op = "create_reservation" => Vendable(p))
  BY DEF q
<1> HIDE DEF p
<1>4. p.reponse = "absente"
  BY <1>1, <1>2, <1>3 DEF Formee, SurResa
<1>5. Formee(p)
  BY <1>1, <1>2, <1>3, <1>4 DEF Formee
<1>6. Vendable(p) <=> Vendables(p, reservations)
  BY DEF Vendable, Vendables, Libere, NbSieges, Sieges, Prises
<1>7. Fidele(p, reservations, tx, ecritures)
  BY <1>1, <1>2, <1>3, <1>4, <1>6, CopieProps DEF Fidele, Succes
<1> QED
  BY <1>2, <1>5, <1>7 DEF p, q

LEMMA ChoisirOK ==
    ASSUME IInvC, NEW s \in Session, Choisir(s)
    PROVE  IInvC' /\ Evolue
<1>1. PICK S \in SUBSET Resa :
          /\ Avancer(s, AvecResas(session[s], S))
          /\ session[s].op \in {"create_reservation", "end_voyage"}
          /\ session[s].op = "create_reservation" => Vendable(AvecResas(session[s], S))
          /\ \A r \in S : reservations[r].statut # "absent"
  <2>1. CASE session[s].op = "create_reservation"
    <3>1. Expirees(session[s].v) \in SUBSET Resa
          /\ \A r \in Expirees(session[s].v) : reservations[r].statut # "absent"
      BY DEF Expirees, ResasDe
    <3> QED
      BY <2>1, <3>1 DEF Choisir
  <2>2. CASE session[s].op = "end_voyage"
    <3>1. ResasDe(session[s].v, {"CONFIRMEE"}) \in SUBSET Resa
          /\ \A r \in ResasDe(session[s].v, {"CONFIRMEE"}) : reservations[r].statut # "absent"
      BY DEF ResasDe
    <3> QED
      BY <2>2, <3>1 DEF Choisir
  <2> QED
    BY <2>1, <2>2 DEF Choisir
<1> DEFINE p == AvecResas(session[s], S)
<1>2. p \in Requetes /\ Formee(p) /\ Fidele(p, reservations, tx, ecritures)
  BY <1>1, ChoixFidele DEF SurResa
<1>3. p.op = session[s].op /\ p.r = session[s].r
  BY <1>1, AvecResasProps DEF IInvC
<1>4. p.op = "create_reservation" =>
          \A u \in Session \ {s} : session[u].op = "create_reservation" => session[u].r # p.r
  BY <1>3 DEF IInvC, Distincts
<1>5. UNCHANGED <<vars, melanges>> /\ session' = [session EXCEPT ![s] = p]
  BY <1>1 DEF Avancer
<1> HIDE DEF p
<1> QED
  BY <1>2, <1>4, <1>5, Lit

LEMMA BalayerOK ==
    ASSUME IInvC, NEW s \in Session, Balayer(s)
    PROVE  IInvC' /\ Evolue
<1> DEFINE q == [Libre EXCEPT !.op = "balayage"]
           S == UNION {Expirees(v) : v \in Voyage}
           p == AvecResas(q, S)
<1>1. "balayage" \in Operation
  BY DEF Operation
<1>2. /\ q \in Requetes /\ q.op = "balayage"
      /\ DOMAIN q.vues = {} /\ DOMAIN q.lues = {} /\ q.reponse = "absente"
  BY <1>1, LibreRequete DEF Requetes
<1>3. S \in SUBSET Resa /\ \A r \in S : reservations[r].statut # "absent"
  BY DEF Expirees, ResasDe
<1>4. UNCHANGED <<vars, melanges>> /\ session' = [session EXCEPT ![s] = p]
  BY DEF Balayer, Debuter
<1> HIDE DEF q, S
<1>5. /\ p \in Requetes /\ p.op = "balayage" /\ p.reponse = "absente"
      /\ DOMAIN p.vues = {} /\ DOMAIN p.lues = S /\ \A r \in S : p.lues[r] = Copie(r)
  BY <1>2, <1>3, AvecResasProps
<1> HIDE DEF p
<1>6. Formee(p)
  BY <1>5 DEF Formee, SurVoyage, SurResa
<1>7. Fidele(p, reservations, tx, ecritures)
  BY <1>3, <1>5, CopieProps DEF Fidele, Succes
<1>8. p.op # "create_reservation"
  BY <1>5
<1> QED
  BY <1>4, <1>5, <1>6, <1>7, <1>8, Lit

LEMMA InterrogerOK ==
    ASSUME IInvC, NEW s \in Session, Interroger(s)
    PROVE  IInvC' /\ Evolue
<1> DEFINE q == session[s]
           p == [q EXCEPT !.reponse = tx[q.lues[q.r].tx].statut]
<1>1. q \in Requetes /\ Formee(q) /\ Fidele(q, reservations, tx, ecritures)
  BY DEF IInvC
<1>2. /\ UNCHANGED <<vars, melanges>> /\ session' = [session EXCEPT ![s] = p]
      /\ q.op = "statut_paiement" /\ q.lues[q.r].reste >= 0
      /\ tx[q.lues[q.r].tx].statut \in Succes \cup Echec
  BY DEF Interroger, Avancer
<1> HIDE DEF q
<1>3. /\ p \in Requetes /\ p.op = q.op /\ p.v = q.v /\ p.r = q.r /\ p.n = q.n
      /\ p.vues = q.vues /\ p.lues = q.lues /\ p.reponse = tx[q.lues[q.r].tx].statut
  BY <1>1, <1>2 DEF Requetes, StatutTx, Succes, Echec
<1> HIDE DEF p
<1>4. Formee(p)
  BY <1>1, <1>2, <1>3 DEF Formee
<1>5. Fidele(p, reservations, tx, ecritures)
  BY <1>1, <1>2, <1>3 DEF Fidele, Succes
<1>6. p.op # "create_reservation"
  BY <1>2, <1>3
<1> QED
  BY <1>2, <1>3, <1>4, <1>5, <1>6, Lit

\* The requests that give seats back.
LEMMA ARendreProps ==
    ASSUME NEW q, ARendre(q) # {}
    PROVE  /\ ARendre(q) = DOMAIN q.lues
           /\ q.op \in {"cancel_reservation", "reject_reservation", "balayage", "statut_paiement"}
  BY DEF ARendre

LEMMA LireSonVoyageOK ==
    ASSUME IInvC, NEW s \in Session, NEW v \in Voyage, LireSonVoyage(s, v)
    PROVE  IInvC' /\ Evolue
<1> DEFINE q == session[s]
           p == AvecVoyage(q, v)
<1>1. q \in Requetes /\ Formee(q) /\ Fidele(q, reservations, tx, ecritures)
  BY DEF IInvC
<1>2. /\ UNCHANGED <<vars, melanges>> /\ session' = [session EXCEPT ![s] = p]
      /\ v \in {q.lues[r].voyage : r \in ARendre(q)}
  BY DEF LireSonVoyage, Avancer
<1> HIDE DEF q
<1>3. ARendre(q) # {}
  BY <1>2
<1>4. /\ ARendre(q) = DOMAIN q.lues /\ q.op \notin SurVoyage /\ q.op # "create_reservation"
  BY <1>3, ARendreProps DEF SurVoyage
<1>5. /\ p \in Requetes /\ DOMAIN p.vues = DOMAIN q.vues \cup {v}
      /\ \A w \in DOMAIN p.vues : p.vues[w] = IF w = v THEN voyages[v] ELSE q.vues[w]
      /\ p.op = q.op /\ p.v = q.v /\ p.r = q.r /\ p.n = q.n /\ p.lues = q.lues
      /\ p.choisi = q.choisi /\ p.reponse = q.reponse
  BY <1>1, AvecVoyageProps DEF IInvC
<1> HIDE DEF p
<1>6. \A w \in DOMAIN p.vues : p.vues[w].restantes >= 0
  BY <1>1, <1>5 DEF Formee, IInvC
<1>7. q.op \in SurResa => v = q.lues[q.r].voyage
  BY <1>1, <1>2, <1>4 DEF Formee
<1>8. Formee(p)
  BY <1>1, <1>4, <1>5, <1>6, <1>7 DEF Formee
<1>9. Fidele(p, reservations, tx, ecritures)
  BY <1>1, <1>4, <1>5 DEF Fidele
<1> QED
  BY <1>2, <1>4, <1>5, <1>8, <1>9, Lit

LEMMA AbandonOK ==
    ASSUME IInvC, NEW s \in Session, Abandon(s)
    PROVE  IInvC' /\ Evolue
<1>1. UNCHANGED <<vars, melanges>> /\ session' = [session EXCEPT ![s] = Libre]
  BY DEF Abandon
<1>2. Libre.op # "create_reservation"
  BY LibreRequete
<1> QED
  BY <1>1, <1>2, LibreRequete, LibreFormee, Lit
-----------------------------------------------------------------------------
(* The requests commit *)

LEMMA Valide ==
    ASSUME IInvC, NEW s \in Session, Clore(s), Evolue, TypeOK', Liens', PayeeAvantVisible',
           \A v \in Voyage : voyages'[v].restantes >= 0,
           \A r \in Resa : reservations[r].statut = "absent" =>
               \/ reservations'[r].statut = "absent"
               \/ session[s].op = "create_reservation" /\ session[s].r = r
    PROVE  IInvC' /\ Evolue
<1>1. /\ session' = [session EXCEPT ![s] = Libre]
      /\ melanges' \in {melanges, melanges \cup DOMAIN session[s].vues
                                     \cup {session[s].lues[r].voyage : r \in DOMAIN session[s].lues}}
  BY DEF Clore
<1>2. melanges' \subseteq Voyage
  <2>1. /\ session[s].vues \in Partielles(Voyage, VoyageRow)
        /\ Fidele(session[s], reservations, tx, ecritures)
    BY DEF IInvC, Requetes
  <2>2. DOMAIN session[s].vues \subseteq Voyage
    BY <2>1, PartiellesProps
  <2>3. {session[s].lues[r].voyage : r \in DOMAIN session[s].lues} \subseteq Voyage
    BY <2>1 DEF Fidele, Durable
  <2> QED
    BY <1>1, <2>2, <2>3 DEF IInvC
<1>3. /\ session' \in [Session -> Requetes]
      /\ \A u \in Session : Formee(session'[u]) /\ Fidele(session'[u], reservations', tx', ecritures')
      /\ Distincts'
  <2>1. Libre \in Requetes /\ Formee(Libre) /\ Fidele(Libre, reservations', tx', ecritures')
        /\ Libre.op # "create_reservation"
    BY LibreRequete, LibreFormee
  <2> QED
    BY <1>1, <2>1, Suivi
<1> QED
  BY <1>2, <1>3 DEF IInvC

\* A step that changes the statut of reservations, and inserts those of N.
LEMMA Statuts ==
    ASSUME IInvC, UNCHANGED tx, NEW N \in SUBSET Resa,
           reservations' \in [Resa -> ResaRow], ecritures' \in [Tx -> NbEcritures],
           \A t \in Tx : ecritures'[t] >= ecritures[t],
           \A r \in Resa \ N :
               /\ reservations'[r].voyage = reservations[r].voyage
               /\ reservations'[r].places = reservations[r].places
               /\ reservations'[r].tx = reservations[r].tx
               /\ \/ reservations'[r].statut = reservations[r].statut
                  \/ /\ reservations[r].statut # "absent" /\ reservations'[r].statut # "absent"
                     /\ reservations'[r].statut \in Montrees => Reglee(r, tx', ecritures'),
           \A r \in N :
               /\ reservations[r].statut = "absent"
               /\ reservations'[r].statut = "EN_ATTENTE_PAIEMENT" /\ reservations'[r].tx = Aucun
               /\ reservations'[r].voyage \in Voyage /\ reservations'[r].places \in Place
    PROVE  /\ Evolue /\ Liens' /\ PayeeAvantVisible'
           /\ \A r \in Resa \ N : reservations[r].statut = "absent" =>
                  reservations'[r].statut = "absent"
<1>1. Evolue
  BY DEF Evolue
<1>2. Liens'
  <2> SUFFICES ASSUME NEW r \in Resa
               PROVE  /\ reservations'[r].statut # "absent" =>
                             reservations'[r].voyage \in Voyage /\ reservations'[r].places \in Place
                      /\ reservations'[r].tx # Aucun =>
                             /\ tx[reservations'[r].tx].resa = r
                             /\ tx[reservations'[r].tx].statut # "absente"
    BY DEF Liens
  <2>1. Liens
    BY DEF IInvC
  <2>2. CASE r \in N
    BY <2>2
  <2>3. CASE r \notin N
    BY <2>1, <2>3 DEF Liens
  <2> QED
    BY <2>2, <2>3
<1>3. PayeeAvantVisible'
  <2> SUFFICES ASSUME NEW r \in Resa, reservations'[r].statut \in Montrees
               PROVE  Reglee(r, tx', ecritures')
    BY DEF PayeeAvantVisible, Reglee, Encaissee
  <2>1. r \notin N
    BY DEF Montrees
  <2>2. CASE reservations'[r].statut # reservations[r].statut
    BY <2>1, <2>2
  <2>3. CASE reservations'[r].statut = reservations[r].statut
    <3>1. PICK t \in Tx : tx[t].resa = r /\ Encaissee(t) /\ ecritures[t] > 0
      BY <2>3 DEF IInvC, PayeeAvantVisible
    <3>2. ecritures[t] \in Nat /\ ecritures'[t] \in Nat /\ ecritures'[t] >= ecritures[t]
      BY DEF IInvC, TypeOK, NbEcritures
    <3>3. ecritures'[t] > 0
      BY <3>1, <3>2
    <3> QED
      BY <3>1, <3>3 DEF Reglee, Encaissee
  <2> QED
    BY <2>2, <2>3
<1> QED
  BY <1>1, <1>2, <1>3

\* The UPDATE of reservations that a request has read.
LEMMA ClasseesProps ==
    ASSUME TypeOK, NEW f \in Partielles(Resa, ResaRow), NEW st \in StatutReservation
    PROVE  /\ Classees(f, st) \in [Resa -> ResaRow]
           /\ \A r \in Resa :
                /\ Classees(f, st)[r].voyage = reservations[r].voyage
                /\ Classees(f, st)[r].places = reservations[r].places
                /\ Classees(f, st)[r].tx = reservations[r].tx
                /\ Classees(f, st)[r].statut =
                       IF r \in DOMAIN f /\ f[r].statut # st THEN st ELSE reservations[r].statut
<1>1. ASSUME NEW r \in Resa
      PROVE  Classees(f, st)[r] = IF r \in DOMAIN f /\ f[r].statut # st
                                  THEN [reservations[r] EXCEPT !.statut = st] ELSE reservations[r]
  <2>1. CASE r \in DOMAIN f
    <3>1. f[r] \in ResaRow /\ reservations[r] \in ResaRow
      BY <2>1, PartiellesProps DEF TypeOK
    <3> QED
      BY <2>1, <3>1, EcriteResa DEF Classees
  <2>2. CASE r \notin DOMAIN f
    BY <2>2 DEF Classees
  <2> QED
    BY <2>1, <2>2
<1>2. ASSUME NEW r \in Resa
      PROVE  /\ Classees(f, st)[r] \in ResaRow
             /\ Classees(f, st)[r].voyage = reservations[r].voyage
             /\ Classees(f, st)[r].places = reservations[r].places
             /\ Classees(f, st)[r].tx = reservations[r].tx
             /\ Classees(f, st)[r].statut =
                    IF r \in DOMAIN f /\ f[r].statut # st THEN st ELSE reservations[r].statut
  <2>1. reservations[r] \in ResaRow
    BY DEF TypeOK
  <2> QED
    BY <1>1, <2>1 DEF ResaRow
<1>3. Classees(f, st) = [r \in Resa |-> Classees(f, st)[r]]
  BY DEF Classees
<1>4. Classees(f, st) \in [Resa -> ResaRow]
  BY <1>2, <1>3
<1> QED
  BY <1>2, <1>4

\* A commit that only classes the reservations that its request has read.
LEMMA ClasserPas ==
    ASSUME IInvC, NEW s \in Session, NEW st \in StatutReservation, UNCHANGED tx,
           reservations' = Classees(session[s].lues, st),
           ecritures' \in [Tx -> NbEcritures], \A t \in Tx : ecritures'[t] >= ecritures[t],
           st \in Montrees => \A r \in DOMAIN session[s].lues : Reglee(r, tx', ecritures')
    PROVE  /\ reservations' \in [Resa -> ResaRow] /\ Evolue /\ Liens' /\ PayeeAvantVisible'
           /\ \A r \in Resa : reservations[r].statut = "absent" => reservations'[r].statut = "absent"
<1>1. /\ session[s].lues \in Partielles(Resa, ResaRow)
      /\ \A r \in DOMAIN session[s].lues : reservations[r].statut # "absent"
  BY DEF IInvC, Requetes, Fidele, Durable
<1>2. TypeOK /\ st # "absent"
  BY DEF IInvC, StatutReservation
<1>3. /\ reservations' \in [Resa -> ResaRow]
      /\ \A r \in Resa :
             /\ reservations'[r].voyage = reservations[r].voyage
             /\ reservations'[r].places = reservations[r].places
             /\ reservations'[r].tx = reservations[r].tx
             /\ \/ reservations'[r].statut = reservations[r].statut
                \/ r \in DOMAIN session[s].lues /\ reservations'[r].statut = st
  BY <1>1, <1>2, ClasseesProps
<1> DEFINE N == {}
<1>4. N \in SUBSET Resa /\ \A r \in Resa : r \notin N
  OBVIOUS
<1>5. \A r \in Resa \ N :
          /\ reservations'[r].voyage = reservations[r].voyage
          /\ reservations'[r].places = reservations[r].places
          /\ reservations'[r].tx = reservations[r].tx
          /\ \/ reservations'[r].statut = reservations[r].statut
             \/ /\ reservations[r].statut # "absent" /\ reservations'[r].statut # "absent"
                /\ reservations'[r].statut \in Montrees => Reglee(r, tx', ecritures')
  BY <1>1, <1>2, <1>3
<1>6. \A r \in N :
          /\ reservations[r].statut = "absent"
          /\ reservations'[r].statut = "EN_ATTENTE_PAIEMENT" /\ reservations'[r].tx = Aucun
          /\ reservations'[r].voyage \in Voyage /\ reservations'[r].places \in Place
  OBVIOUS
<1> HIDE DEF N
<1>7. /\ Evolue /\ Liens' /\ PayeeAvantVisible'
      /\ \A r \in Resa \ N : reservations[r].statut = "absent" => reservations'[r].statut = "absent"
  BY <1>3, <1>4, <1>5, <1>6, Statuts
<1> QED
  BY <1>3, <1>4, <1>7

\* The trips to which a request gives seats back.
LEMMA RendusProps ==
    ASSUME TypeOK, NEW q \in Requetes, Formee(q), \A v \in Voyage : voyages[v].restantes >= 0
    PROVE  /\ Rendus(q) \in [Voyage -> VoyageRow]
           /\ \A v \in Voyage : Rendus(q)[v].restantes >= 0
<1>1. /\ \A v \in DOMAIN q.vues : q.vues[v] \in VoyageRow
      /\ DOMAIN q.lues \in SUBSET Resa
  <2>1. q.vues \in Partielles(Voyage, VoyageRow) /\ q.lues \in Partielles(Resa, ResaRow)
    BY DEF Requetes
  <2> QED
    BY <2>1, PartiellesProps
<1>2. ASSUME NEW v \in Voyage
      PROVE  Rendus(q)[v] \in VoyageRow /\ Rendus(q)[v].restantes >= 0
  <2>1. CASE v \in DOMAIN q.vues
    <3> DEFINE n == NbSieges({r \in DOMAIN q.lues : q.lues[r].voyage = v})
               libere == IF q.op = "reject_reservation" THEN RestitueSiReservable(q.vues[v], n)
                         ELSE RestitueSiOuvert(q.vues[v], n)
    <3>1. {r \in DOMAIN q.lues : q.lues[r].voyage = v} \in SUBSET Resa
      BY <1>1
    <3>2. n \in Nat
      BY <3>1, NbSiegesNat
    <3>3. Rendus(q)[v] = Ecrite(voyages[v], q.vues[v], libere)
      BY <2>1 DEF Rendus
    <3> HIDE DEF n
    <3>4. q.vues[v] \in VoyageRow /\ q.vues[v].restantes >= 0
      BY <1>1, <2>1 DEF Formee
    <3>5. /\ RestitueSiReservable(q.vues[v], n) \in VoyageRow
          /\ RestitueSiReservable(q.vues[v], n).restantes >= 0
      BY <3>2, <3>4, RestitueSiReservableProps
    <3>6. /\ RestitueSiOuvert(q.vues[v], n) \in VoyageRow
          /\ RestitueSiOuvert(q.vues[v], n).restantes >= 0
      BY <3>2, <3>4, RestitueSiOuvertProps
    <3>7. libere \in VoyageRow /\ libere.restantes >= 0
      BY <3>5, <3>6
    <3> HIDE DEF libere
    <3>8. voyages[v] \in VoyageRow /\ voyages[v].restantes >= 0
      BY DEF TypeOK
    <3> QED
      BY <3>3, <3>4, <3>7, <3>8, EcriteVoyage
  <2>2. CASE v \notin DOMAIN q.vues
    <3>1. Rendus(q)[v] = voyages[v]
      BY <2>2 DEF Rendus
    <3> QED
      BY <3>1 DEF TypeOK
  <2> QED
    BY <2>1, <2>2
<1>3. Rendus(q) = [v \in Voyage |-> Rendus(q)[v]]
  BY DEF Rendus
<1> QED
  BY <1>2, <1>3

LEMMA RendreOK ==
    ASSUME IInvC, NEW s \in Session, Rendre(s)
    PROVE  IInvC' /\ Evolue
<1> DEFINE q == session[s]
           st == IF q.op = "reject_reservation" THEN "REFUSEE" ELSE "ANNULEE"
<1>1. q \in Requetes /\ Formee(q) /\ Fidele(q, reservations, tx, ecritures)
  BY DEF IInvC
<1>2. /\ voyages' = Rendus(q) /\ reservations' = Classees(session[s].lues, st)
      /\ Clore(s) /\ UNCHANGED <<tx, ecritures, reverses>>
  BY DEF Rendre
<1>3. st \in StatutReservation
  BY DEF StatutReservation
<1>4. st \in Montrees => \A r \in DOMAIN session[s].lues : Reglee(r, tx', ecritures')
  <2> SUFFICES ASSUME st \in Montrees, NEW r \in DOMAIN q.lues
               PROVE  Reglee(r, tx, ecritures)
    BY <1>2
  <2>1. q.op = "reject_reservation"
    BY DEF Montrees
  <2>2. r = q.r /\ Lue(q.lues[q.r], q.op)
    BY <1>1, <2>1 DEF Formee, SurResa
  <2>3. q.lues[r].statut = "EN_ATTENTE"
    BY <2>1, <2>2 DEF Lue
  <2> QED
    BY <1>1, <2>3 DEF Fidele, Durable, Montrees
<1> HIDE DEF st
<1>5. ecritures' \in [Tx -> NbEcritures] /\ \A t \in Tx : ecritures'[t] >= ecritures[t]
  BY <1>2 DEF IInvC, TypeOK, NbEcritures
<1>6. /\ reservations' \in [Resa -> ResaRow] /\ Evolue /\ Liens' /\ PayeeAvantVisible'
      /\ \A r \in Resa : reservations[r].statut = "absent" => reservations'[r].statut = "absent"
  BY <1>2, <1>3, <1>4, <1>5, ClasserPas
<1>7. voyages' \in [Voyage -> VoyageRow] /\ \A v \in Voyage : voyages'[v].restantes >= 0
  BY <1>1, <1>2, RendusProps DEF IInvC
<1>8. TypeOK'
  BY <1>2, <1>6, <1>7 DEF IInvC, TypeOK
<1> QED
  BY <1>2, <1>6, <1>7, <1>8, Valide

LEMMA StatutPaiementValiderOK ==
    ASSUME IInvC, NEW s \in Session, StatutPaiementValider(s)
    PROVE  IInvC' /\ Evolue
<1> DEFINE q == session[s]
           t == q.lues[q.r].tx
<1>1. q \in Requetes /\ Formee(q) /\ Fidele(q, reservations, tx, ecritures)
  BY DEF IInvC
<1>2. /\ q.op = "statut_paiement" /\ q.reponse \in Succes
      /\ reservations' = Classees(session[s].lues, "EN_ATTENTE")
      /\ ecritures' = [ecritures EXCEPT ![t] = IF @ < 2 THEN @ + 1 ELSE @]
      /\ Clore(s) /\ UNCHANGED <<voyages, tx, reverses>>
  BY DEF StatutPaiementValider
<1>3. /\ DOMAIN q.lues = {q.r} /\ t # Aucun /\ tx[t].resa = q.r
      /\ tx[t].statut \in {"approved", "refunded"}
  BY <1>1, <1>2 DEF Formee, SurResa, Lue, Fidele, Durable
<1>4. t \in Tx
  <2>1. q.lues \in Partielles(Resa, ResaRow)
    BY <1>1 DEF Requetes
  <2>2. q.lues[q.r] \in ResaRow
    BY <1>3, <2>1, PartiellesProps
  <2> QED
    BY <1>3, <2>2 DEF ResaRow
<1> HIDE DEF t
<1>5. /\ ecritures' \in [Tx -> NbEcritures] /\ ecritures'[t] > 0
      /\ \A u \in Tx : ecritures'[u] >= ecritures[u]
  <2>1. \A u \in Tx : ecritures[u] \in NbEcritures
    BY DEF IInvC, TypeOK
  <2>2. \A u \in Tx : /\ (IF ecritures[u] < 2 THEN ecritures[u] + 1 ELSE ecritures[u]) \in NbEcritures
                      /\ (IF ecritures[u] < 2 THEN ecritures[u] + 1 ELSE ecritures[u]) >= ecritures[u]
                      /\ (IF ecritures[u] < 2 THEN ecritures[u] + 1 ELSE ecritures[u]) > 0
                      /\ ecritures[u] >= ecritures[u]
    BY <2>1 DEF NbEcritures
  <2> QED
    BY <1>2, <1>4, <2>1, <2>2 DEF IInvC, TypeOK
<1>6. \A r \in DOMAIN session[s].lues : Reglee(r, tx', ecritures')
  BY <1>2, <1>3, <1>4, <1>5 DEF Reglee
<1>7. /\ reservations' \in [Resa -> ResaRow] /\ Evolue /\ Liens' /\ PayeeAvantVisible'
      /\ \A r \in Resa : reservations[r].statut = "absent" => reservations'[r].statut = "absent"
  <2>1. "EN_ATTENTE" \in StatutReservation
    BY DEF StatutReservation
  <2> QED
    BY <1>2, <1>5, <1>6, <2>1, ClasserPas
<1>8. TypeOK'
  BY <1>2, <1>5, <1>7 DEF IInvC, TypeOK
<1>9. \A v \in Voyage : voyages'[v].restantes >= 0
  BY <1>2 DEF IInvC
<1> QED
  BY <1>2, <1>7, <1>8, <1>9, Valide

LEMMA ClasserValiderOK ==
    ASSUME IInvC, NEW s \in Session, ClasserValider(s)
    PROVE  IInvC' /\ Evolue
<1> DEFINE q == session[s]
<1>1. q \in Requetes /\ Formee(q) /\ Fidele(q, reservations, tx, ecritures)
  BY DEF IInvC
<1>2. Clore(s) /\ UNCHANGED <<voyages, tx, ecritures, reverses>>
  BY DEF ClasserValider
<1>3. PICK st \in {"CONFIRMEE", "ANNULEE"} :
          /\ reservations' = Classees(session[s].lues, st)
          /\ st = "CONFIRMEE" => q.op = "accept_reservation"
  BY DEF ClasserValider
<1>4. st \in StatutReservation
  BY DEF StatutReservation
<1>5. st \in Montrees => \A r \in DOMAIN session[s].lues : Reglee(r, tx', ecritures')
  <2> SUFFICES ASSUME st \in Montrees, NEW r \in DOMAIN q.lues
               PROVE  Reglee(r, tx, ecritures)
    BY <1>2
  <2>1. q.op = "accept_reservation"
    BY <1>3 DEF Montrees
  <2>2. r = q.r /\ Lue(q.lues[q.r], q.op)
    BY <1>1, <2>1 DEF Formee, SurResa
  <2>3. q.lues[r].statut = "EN_ATTENTE"
    BY <2>1, <2>2 DEF Lue
  <2> QED
    BY <1>1, <2>3 DEF Fidele, Durable, Montrees
<1>6. ecritures' \in [Tx -> NbEcritures] /\ \A t \in Tx : ecritures'[t] >= ecritures[t]
  BY <1>2 DEF IInvC, TypeOK, NbEcritures
<1>7. /\ reservations' \in [Resa -> ResaRow] /\ Evolue /\ Liens' /\ PayeeAvantVisible'
      /\ \A r \in Resa : reservations[r].statut = "absent" => reservations'[r].statut = "absent"
  BY <1>2, <1>3, <1>4, <1>5, <1>6, ClasserPas
<1>8. TypeOK' /\ \A v \in Voyage : voyages'[v].restantes >= 0
  BY <1>2, <1>7 DEF IInvC, TypeOK
<1> QED
  BY <1>2, <1>7, <1>8, Valide

LEMMA CreateReservationValiderOK ==
    ASSUME IInvC, NEW s \in Session, CreateReservationValider(s)
    PROVE  IInvC' /\ Evolue
<1> DEFINE q == session[s]
           libere == Libere(q)
           vendu == [libere EXCEPT !.restantes = @ - q.n,
                                   !.statut = IF libere.restantes = q.n THEN "COMPLET" ELSE @]
           neuve == [statut |-> "EN_ATTENTE_PAIEMENT", voyage |-> q.v, places |-> q.n,
                     reste |-> Delai, tx |-> Aucun]
           f == Classees(q.lues, "ANNULEE")
<1>1. q \in Requetes /\ Formee(q) /\ Fidele(q, reservations, tx, ecritures)
  BY DEF IInvC
<1>2. /\ q.op = "create_reservation" /\ q.choisi
      /\ voyages' = [voyages EXCEPT ![q.v] = Ecrite(Ecrite(@, q.vues[q.v], libere), libere, vendu)]
      /\ reservations' = [f EXCEPT ![q.r] = neuve]
      /\ Clore(s) /\ UNCHANGED <<tx, ecritures, reverses>>
  BY DEF CreateReservationValider
<1>3. /\ q.r \in Resa /\ q.n \in Place /\ q.v \in DOMAIN q.vues /\ q.vues[q.v].restantes >= 0
      /\ reservations[q.r].statut = "absent"
  BY <1>1, <1>2, PlacesAssumption DEF Formee, Fidele
<1>4. q.v \in Voyage /\ q.vues[q.v] \in VoyageRow
  <2>1. q.vues \in Partielles(Voyage, VoyageRow)
    BY <1>1 DEF Requetes
  <2> QED
    BY <1>3, <2>1, PartiellesProps
<1>5. q.lues \in Partielles(Resa, ResaRow) /\ DOMAIN q.lues \in SUBSET Resa
  <2>1. q.lues \in Partielles(Resa, ResaRow)
    BY <1>1 DEF Requetes
  <2> QED
    BY <2>1, PartiellesProps
<1>6. libere \in VoyageRow /\ libere.restantes \in Int /\ libere.restantes >= q.n
  <2>1. libere \in VoyageRow
    BY <1>4, <1>5, NbSiegesNat, RestitueSiOuvertProps DEF Libere
  <2>2. Vendables(q, reservations)
    BY <1>1, <1>2 DEF Fidele
  <2>3. libere = RestitueSiOuvert(q.vues[q.v], Prises(reservations, DOMAIN q.lues))
    BY DEF Libere, NbSieges, Sieges, Prises
  <2> HIDE DEF libere
  <2> QED
    BY <2>1, <2>2, <2>3 DEF Vendables, VoyageRow
<1> HIDE DEF libere
<1>7. vendu \in VoyageRow /\ vendu.restantes >= 0
  <2> DEFINE x == IF libere.restantes = q.n THEN "COMPLET" ELSE libere.statut
  <2>1. x \in StatutVoyage \cup {"absent"}
    BY <1>6 DEF VoyageRow, StatutVoyage
  <2>2. libere.restantes - q.n \in Int /\ libere.restantes - q.n >= 0
    BY <1>3, <1>6 DEF Place
  <2>3. vendu = [libere EXCEPT !.restantes = @ - q.n, !.statut = x]
    OBVIOUS
  <2> HIDE DEF x, vendu
  <2> QED
    BY <1>6, <2>1, <2>2, <2>3 DEF VoyageRow
<1> HIDE DEF vendu
<1>8. voyages' \in [Voyage -> VoyageRow] /\ \A v \in Voyage : voyages'[v].restantes >= 0
  <2> DEFINE a == Ecrite(voyages[q.v], q.vues[q.v], libere)
             b == Ecrite(a, libere, vendu)
  <2>1. voyages[q.v] \in VoyageRow /\ \A v \in Voyage : voyages[v].restantes >= 0
    BY <1>4 DEF IInvC, TypeOK
  <2>2. libere.restantes >= 0
    BY <1>3, <1>6 DEF Place
  <2>3. a \in VoyageRow /\ a.restantes >= 0
    BY <1>4, <1>6, <2>1, <2>2, EcriteVoyage
  <2>4. voyages' = [voyages EXCEPT ![q.v] = b]
    BY <1>2
  <2> HIDE DEF a
  <2>5. b \in VoyageRow /\ b.restantes >= 0
    BY <1>6, <1>7, <2>3, EcriteVoyage
  <2> HIDE DEF b
  <2> QED
    BY <1>4, <2>1, <2>4, <2>5 DEF IInvC, TypeOK
<1>9. /\ f \in [Resa -> ResaRow]
      /\ \A r \in Resa :
           /\ f[r].voyage = reservations[r].voyage /\ f[r].places = reservations[r].places
           /\ f[r].tx = reservations[r].tx
           /\ f[r].statut = IF r \in DOMAIN q.lues /\ q.lues[r].statut # "ANNULEE"
                            THEN "ANNULEE" ELSE reservations[r].statut
  <2>1. TypeOK /\ "ANNULEE" \in StatutReservation
    BY DEF IInvC, StatutReservation
  <2> QED
    BY <1>5, <2>1, ClasseesProps
<1>10. \A r \in DOMAIN q.lues : reservations[r].statut # "absent"
  BY <1>1 DEF Fidele, Durable
<1>11. neuve \in ResaRow
  BY <1>3, <1>4, DelaiAssumption DEF ResaRow, StatutReservation, TempsRestant
<1>12. /\ neuve.statut = "EN_ATTENTE_PAIEMENT" /\ neuve.tx = Aucun
       /\ neuve.voyage = q.v /\ neuve.places = q.n
  OBVIOUS
<1> HIDE DEF f, neuve
<1>13. /\ reservations' \in [Resa -> ResaRow] /\ reservations'[q.r] = neuve
       /\ \A r \in Resa \ {q.r} : reservations'[r] = f[r]
  BY <1>2, <1>3, <1>9, <1>11
<1>14. \A r \in Resa \ {q.r} :
           /\ reservations'[r].voyage = reservations[r].voyage
           /\ reservations'[r].places = reservations[r].places
           /\ reservations'[r].tx = reservations[r].tx
           /\ \/ reservations'[r].statut = reservations[r].statut
              \/ /\ reservations[r].statut # "absent" /\ reservations'[r].statut # "absent"
                 /\ reservations'[r].statut \in Montrees => Reglee(r, tx', ecritures')
  BY <1>9, <1>10, <1>13 DEF Montrees
<1>15. \A r \in {q.r} :
           /\ reservations[r].statut = "absent"
           /\ reservations'[r].statut = "EN_ATTENTE_PAIEMENT" /\ reservations'[r].tx = Aucun
           /\ reservations'[r].voyage \in Voyage /\ reservations'[r].places \in Place
  BY <1>3, <1>4, <1>12, <1>13
<1>16. ecritures' \in [Tx -> NbEcritures] /\ (\A t \in Tx : ecritures'[t] >= ecritures[t])
       /\ UNCHANGED tx /\ {q.r} \in SUBSET Resa
  BY <1>2, <1>3 DEF IInvC, TypeOK, NbEcritures
<1>17. /\ Evolue /\ Liens' /\ PayeeAvantVisible'
       /\ \A r \in Resa \ {q.r} : reservations[r].statut = "absent" =>
              reservations'[r].statut = "absent"
  BY <1>13, <1>14, <1>15, <1>16, Statuts
<1>18. TypeOK'
  BY <1>2, <1>8, <1>13 DEF IInvC, TypeOK
<1>19. Clore(s) /\ q.op = "create_reservation"
  BY <1>2
<1> QED
  BY <1>8, <1>17, <1>18, <1>19, Valide

LEMMA InitierPaiementValiderOK ==
    ASSUME IInvC, NEW s \in Session, NEW t \in Tx, InitierPaiementValider(s, t)
    PROVE  IInvC' /\ Evolue
<1> DEFINE q == session[s]
<1>1. q \in Requetes /\ Formee(q) /\ Fidele(q, reservations, tx, ecritures)
  BY DEF IInvC
<1>2. PICK st \in {"pending", "sans_lien"} :
          /\ tx' = [tx EXCEPT ![t] = [statut |-> st, resa |-> q.r]]
          /\ reservations' \in {reservations, [reservations EXCEPT ![q.r].tx = t]}
          /\ q.op = "initier_paiement" /\ tx[t].statut = "absente"
          /\ Clore(s) /\ UNCHANGED <<voyages, ecritures, reverses>>
  BY DEF InitierPaiementValider
<1>3. q.r \in Resa /\ reservations[q.r].statut # "absent"
  BY <1>1, <1>2 DEF Formee, SurResa, Fidele, Durable
<1>4. [statut |-> st, resa |-> q.r] \in TxRow
  BY <1>3 DEF TxRow, StatutTx
<1>5. /\ tx' \in [Tx -> TxRow] /\ tx'[t].resa = q.r /\ tx'[t].statut = st
      /\ \A u \in Tx \ {t} : tx'[u] = tx[u]
  BY <1>2, <1>4 DEF IInvC, TypeOK
<1>6. reservations' \in [Resa -> ResaRow]
  BY <1>2, <1>3 DEF IInvC, TypeOK, ResaRow
<1>7. \A r \in Resa : /\ reservations'[r].statut = reservations[r].statut
                      /\ reservations'[r].voyage = reservations[r].voyage
                      /\ reservations'[r].places = reservations[r].places
                      /\ \/ reservations'[r].tx = reservations[r].tx
                         \/ r = q.r /\ reservations'[r].tx = t
  BY <1>2, <1>3 DEF IInvC, TypeOK, ResaRow
<1>8. TypeOK'
  BY <1>2, <1>5, <1>6 DEF IInvC, TypeOK
<1>9. Evolue
  <2>1. \A u \in Tx : ecritures'[u] >= ecritures[u]
    BY <1>2 DEF IInvC, TypeOK, NbEcritures
  <2> QED
    BY <1>2, <1>5, <1>7, <2>1 DEF Evolue
<1>10. Liens'
  <2> SUFFICES ASSUME NEW r \in Resa
               PROVE  /\ reservations'[r].statut # "absent" =>
                             reservations'[r].voyage \in Voyage /\ reservations'[r].places \in Place
                      /\ reservations'[r].tx # Aucun =>
                             /\ tx'[reservations'[r].tx].resa = r
                             /\ tx'[reservations'[r].tx].statut # "absente"
    BY DEF Liens
  <2>1. /\ reservations[r].statut # "absent" =>
               reservations[r].voyage \in Voyage /\ reservations[r].places \in Place
        /\ reservations[r].tx # Aucun =>
               /\ tx[reservations[r].tx].resa = r
               /\ tx[reservations[r].tx].statut # "absente"
               /\ reservations[r].tx \in Tx \ {t}
    BY <1>2 DEF IInvC, Liens, TypeOK, ResaRow
  <2>2. CASE reservations'[r].tx = reservations[r].tx
    BY <1>5, <1>7, <2>1, <2>2
  <2>3. CASE r = q.r /\ reservations'[r].tx = t
    BY <1>5, <1>7, <2>1, <2>3
  <2> QED
    BY <1>7, <2>2, <2>3
<1>11. PayeeAvantVisible'
  <2> SUFFICES ASSUME NEW r \in Resa, reservations'[r].statut \in Montrees
               PROVE  Reglee(r, tx', ecritures')
    BY DEF PayeeAvantVisible, Reglee, Encaissee
  <2>1. Reglee(r, tx, ecritures)
    BY <1>7 DEF IInvC, PayeeAvantVisible, Reglee, Encaissee
  <2>2. TypeOK
    BY DEF IInvC
  <2> QED
    BY <1>8, <1>9, <2>1, <2>2, RegleeStable
<1>12. \A v \in Voyage : voyages'[v].restantes >= 0
  BY <1>2 DEF IInvC
<1>13. \A r \in Resa : reservations[r].statut = "absent" => reservations'[r].statut = "absent"
  BY <1>7
<1> QED
  BY <1>2, <1>8, <1>9, <1>10, <1>11, <1>12, <1>13, Valide

\* The bulk UPDATE of a trip's reservations.
LEMMA EnBloc ==
    ASSUME IInvC, NEW S \in SUBSET Resa, NEW st \in StatutReservation, UNCHANGED <<tx, ecritures>>,
           \A r \in S : reservations[r].statut # "absent",
           st \in Montrees => \A r \in S : reservations[r].statut \in Montrees,
           reservations' = AvecStatut(S, st)
    PROVE  /\ reservations' \in [Resa -> ResaRow] /\ Evolue /\ Liens' /\ PayeeAvantVisible'
           /\ \A r \in Resa : reservations[r].statut = "absent" => reservations'[r].statut = "absent"
<1>1. TypeOK /\ st # "absent"
  BY DEF IInvC, StatutReservation
<1>2. /\ reservations' \in [Resa -> ResaRow]
      /\ \A r \in Resa :
             /\ reservations'[r].voyage = reservations[r].voyage
             /\ reservations'[r].places = reservations[r].places
             /\ reservations'[r].tx = reservations[r].tx
             /\ reservations'[r].statut = IF r \in S THEN st ELSE reservations[r].statut
  BY <1>1, AvecStatutProps
<1>3. \A r \in Resa : reservations[r].statut \in Montrees => Reglee(r, tx', ecritures')
  BY DEF IInvC, PayeeAvantVisible, Reglee, Encaissee
<1> DEFINE N == {}
<1>4. N \in SUBSET Resa /\ \A r \in Resa : r \notin N
  OBVIOUS
<1>5. \A r \in Resa \ N :
          /\ reservations'[r].voyage = reservations[r].voyage
          /\ reservations'[r].places = reservations[r].places
          /\ reservations'[r].tx = reservations[r].tx
          /\ \/ reservations'[r].statut = reservations[r].statut
             \/ /\ reservations[r].statut # "absent" /\ reservations'[r].statut # "absent"
                /\ reservations'[r].statut \in Montrees => Reglee(r, tx', ecritures')
  BY <1>1, <1>2, <1>3
<1>6. \A r \in N :
          /\ reservations[r].statut = "absent"
          /\ reservations'[r].statut = "EN_ATTENTE_PAIEMENT" /\ reservations'[r].tx = Aucun
          /\ reservations'[r].voyage \in Voyage /\ reservations'[r].places \in Place
  OBVIOUS
<1>7. ecritures' \in [Tx -> NbEcritures] /\ (\A t \in Tx : ecritures'[t] >= ecritures[t])
      /\ UNCHANGED tx
  BY DEF IInvC, TypeOK, NbEcritures
<1> HIDE DEF N
<1>8. /\ Evolue /\ Liens' /\ PayeeAvantVisible'
      /\ \A r \in Resa \ N : reservations[r].statut = "absent" => reservations'[r].statut = "absent"
  BY <1>2, <1>4, <1>5, <1>6, <1>7, Statuts
<1> QED
  BY <1>2, <1>4, <1>8

LEMMA VoyageValiderOK ==
    ASSUME IInvC, NEW s \in Session, VoyageValider(s)
    PROVE  IInvC' /\ Evolue
<1> DEFINE q == session[s]
<1>1. q \in Requetes /\ Formee(q)
  BY DEF IInvC
<1>2. DOMAIN q.lues \in SUBSET Resa
  <2>1. q.lues \in Partielles(Resa, ResaRow)
    BY <1>1 DEF Requetes
  <2> QED
    BY <2>1, PartiellesProps
<1>3. Clore(s) /\ UNCHANGED <<tx, ecritures>>
  BY DEF VoyageValider
<1>4. PICK S \in SUBSET Resa, st \in {"ANNULEE", "TERMINEE"}, x \in {"EN_COURS", "ANNULE", "TERMINE"} :
          /\ voyages' = [voyages EXCEPT ![q.v].statut = x]
          /\ reservations' = AvecStatut(S, st)
          /\ \A r \in S : /\ reservations[r].statut \in {"EN_ATTENTE", "CONFIRMEE"}
                          /\ st = "TERMINEE" => reservations[r].statut = "CONFIRMEE"
          /\ reverses' \in {reverses, [reverses EXCEPT ![q.v] = DOMAIN q.lues]}
  <2>1. CASE q.op = "start_voyage"
    <3>1. voyages' = [voyages EXCEPT ![q.v].statut = "EN_COURS"] /\ UNCHANGED <<reservations, reverses>>
      BY <2>1 DEF VoyageValider
    <3>2. reservations = AvecStatut({}, "ANNULEE")
      BY DEF AvecStatut, IInvC, TypeOK
    <3>3. {} \in SUBSET Resa
      OBVIOUS
    <3> QED
      BY <3>1, <3>2, <3>3
  <2>2. CASE q.op \in {"cancel_voyage", "admin_cancel_voyage"}
    <3> DEFINE S == ResasDe(q.v, {"EN_ATTENTE", "CONFIRMEE"})
    <3>1. /\ voyages' = [voyages EXCEPT ![q.v].statut = "ANNULE"] /\ UNCHANGED reverses
          /\ reservations' = AvecStatut(S, "ANNULEE")
      BY <2>2 DEF VoyageValider
    <3>2. S \in SUBSET Resa /\ \A r \in S : reservations[r].statut \in {"EN_ATTENTE", "CONFIRMEE"}
      BY DEF ResasDe
    <3> HIDE DEF S
    <3> QED
      BY <3>1, <3>2
  <2>3. CASE q.op = "end_voyage"
    <3> DEFINE S == ResasDe(q.v, {"CONFIRMEE"})
    <3>1. /\ voyages' = [voyages EXCEPT ![q.v].statut = "TERMINE"]
          /\ reservations' = AvecStatut(S, "TERMINEE")
          /\ reverses' = [reverses EXCEPT ![q.v] = DOMAIN q.lues]
      BY <2>3 DEF VoyageValider
    <3>2. S \in SUBSET Resa /\ \A r \in S : reservations[r].statut = "CONFIRMEE"
      BY DEF ResasDe
    <3> HIDE DEF S
    <3> QED
      BY <3>1, <3>2
  <2> QED
    BY <2>1, <2>2, <2>3 DEF VoyageValider
<1>5. /\ \A r \in S : reservations[r].statut # "absent"
      /\ st \in Montrees => \A r \in S : reservations[r].statut \in Montrees
      /\ st \in StatutReservation
  BY <1>4 DEF Montrees, StatutReservation
<1>6. /\ reservations' \in [Resa -> ResaRow] /\ Evolue /\ Liens' /\ PayeeAvantVisible'
      /\ \A r \in Resa : reservations[r].statut = "absent" => reservations'[r].statut = "absent"
  BY <1>3, <1>4, <1>5, EnBloc
<1>7. voyages' \in [Voyage -> VoyageRow] /\ \A v \in Voyage : voyages'[v].restantes >= 0
  <2>1. voyages \in [Voyage -> VoyageRow] /\ \A v \in Voyage : voyages[v].restantes >= 0
    BY DEF IInvC, TypeOK
  <2>2. \A y \in VoyageRow : /\ [y EXCEPT !.statut = x] \in VoyageRow
                             /\ [y EXCEPT !.statut = x].restantes = y.restantes
    BY DEF VoyageRow, StatutVoyage
  <2>3. voyages' = [voyages EXCEPT ![q.v] = [voyages[q.v] EXCEPT !.statut = x]]
    BY <1>4
  <2> QED
    BY <2>1, <2>2, <2>3
<1>8. reverses' \in [Voyage -> SUBSET Resa]
  BY <1>2, <1>4 DEF IInvC, TypeOK
<1>9. TypeOK'
  BY <1>3, <1>6, <1>7, <1>8 DEF IInvC, TypeOK
<1> QED
  BY <1>3, <1>6, <1>7, <1>9, Valide

LEMMA ExterneOK ==
    ASSUME IInvC, UNCHANGED <<session, melanges>>,
           \/ \E v \in Voyage, n \in TotalPlaces : CreateVoyage(v, n)
           \/ Tick
           \/ \E t \in Tx : FedaPay(t)
    PROVE  IInvC' /\ Evolue
<1>1. TypeOK'
  <2>1. [Next]_vars
    BY DEF Next
  <2> QED
    BY <2>1, NextType DEF IInvC
<1>2. \A t \in Tx : ecritures[t] >= ecritures[t]
  BY DEF IInvC, TypeOK, NbEcritures
<1>3. /\ Evolue /\ Liens' /\ PayeeAvantVisible' /\ \A v \in Voyage : voyages'[v].restantes >= 0
      /\ \A r \in Resa : reservations[r].statut = "absent" => reservations'[r].statut = "absent"
  <2>1. CASE \E v \in Voyage, n \in TotalPlaces : CreateVoyage(v, n)
    <3>1. PICK v \in Voyage, n \in TotalPlaces : CreateVoyage(v, n)
      BY <2>1
    <3>2. /\ UNCHANGED <<reservations, tx, ecritures, reverses>>
          /\ voyages' = [voyages EXCEPT ![v] = [statut |-> "PUBLIE", total |-> n, restantes |-> n]]
      BY <3>1 DEF CreateVoyage
    <3>3. n >= 0
      BY PlacesAssumption DEF Place
    <3>4. \A w \in Voyage : voyages'[w].restantes >= 0
      BY <3>2, <3>3 DEF IInvC, TypeOK
    <3> QED
      BY <1>2, <3>2, <3>4 DEF Evolue, IInvC, Liens, PayeeAvantVisible, Encaissee
  <2>2. CASE Tick
    <3>1. /\ reservations' = [r \in Resa |-> [reservations[r] EXCEPT !.reste = IF @ >= 0 THEN @ - 1 ELSE @]]
          /\ UNCHANGED <<voyages, tx, ecritures, reverses>>
      BY <2>2 DEF Tick
    <3>2. \A r \in Resa : /\ reservations'[r].statut = reservations[r].statut
                          /\ reservations'[r].voyage = reservations[r].voyage
                          /\ reservations'[r].places = reservations[r].places
                          /\ reservations'[r].tx = reservations[r].tx
      BY <3>1 DEF IInvC, TypeOK, ResaRow
    <3>3. UNCHANGED <<voyages, tx, ecritures, reverses>>
      BY <3>1
    <3> QED
      BY <1>2, <3>2, <3>3 DEF Evolue, IInvC, Liens, PayeeAvantVisible, Encaissee
  <2>3. CASE \E t \in Tx : FedaPay(t)
    <3>1. PICK t \in Tx : FedaPay(t)
      BY <2>3
    <3>2. PICK st \in {"approved", "declined", "refunded"} :
              /\ tx' = [tx EXCEPT ![t].statut = st]
              /\ tx[t].statut # "absente"
              /\ tx[t].statut \in {"approved", "refunded"} => st \in {"approved", "refunded"}
              /\ UNCHANGED <<voyages, reservations, ecritures, reverses>>
      BY <3>1 DEF FedaPay
    <3>3. \A u \in Tx : /\ tx'[u].resa = tx[u].resa
                        /\ tx[u].statut # "absente" => tx'[u].statut # "absente"
                        /\ tx[u].statut \in {"approved", "refunded"} =>
                               tx'[u].statut \in {"approved", "refunded"}
      BY <3>2 DEF IInvC, TypeOK, TxRow
    <3>4. Liens'
      BY <3>2, <3>3 DEF IInvC, Liens, TypeOK, ResaRow
    <3> QED
      BY <1>2, <3>2, <3>3, <3>4 DEF Evolue, IInvC, PayeeAvantVisible, Encaissee
  <2> QED
    BY <2>1, <2>2, <2>3
<1>4. /\ session' \in [Session -> Requetes]
      /\ \A u \in Session : Formee(session'[u]) /\ Fidele(session'[u], reservations', tx', ecritures')
      /\ Distincts'
  BY <1>1, <1>3, SuiviExterne
<1> QED
  BY <1>1, <1>3, <1>4 DEF IInvC

LEMMA InitIInvC == InitC => IInvC
<1> SUFFICES ASSUME InitC
             PROVE  IInvC
  OBVIOUS
<1>1. Init /\ session = [s \in Session |-> Libre] /\ melanges = {}
  BY DEF InitC
<1>2. TypeOK
  BY <1>1, InitType
<1>3. Liens /\ PayeeAvantVisible /\ \A v \in Voyage : voyages[v].restantes >= 0
  BY <1>1 DEF Init, Liens, PayeeAvantVisible, Montrees
<1>4. \A s \in Session : session[s] = Libre
  BY <1>1
<1>5. Distincts
  BY <1>4, LibreRequete DEF Distincts
<1>6. session \in [Session -> Requetes]
  BY <1>1, LibreRequete
<1> QED
  BY <1>1, <1>2, <1>3, <1>4, <1>5, <1>6, LibreFormee DEF IInvC

LEMMA NextIInvC == IInvC /\ [NextC]_varsC => IInvC' /\ Evolue
<1> SUFFICES ASSUME IInvC, [NextC]_varsC
             PROVE  IInvC' /\ Evolue
  OBVIOUS
<1>1. CASE Externe(\/ \E v \in Voyage, n \in TotalPlaces : CreateVoyage(v, n)
                   \/ Tick
                   \/ \E t \in Tx : FedaPay(t))
  BY <1>1, ExterneOK DEF Externe
<1>2. ASSUME NEW s \in Session, NEW v \in Voyage, NEW op \in SurVoyage, LireVoyage(s, v, op)
      PROVE  IInvC' /\ Evolue
  BY <1>2, LireVoyageOK
<1>3. ASSUME NEW s \in Session, NEW r \in Resa, NEW op \in SurResa, LireReservation(s, r, op)
      PROVE  IInvC' /\ Evolue
  BY <1>3, LireReservationOK
<1>4. ASSUME NEW s \in Session, NEW r \in Resa, NEW v \in Voyage, NEW n \in PlacesDemandees,
             CreateReservationLire(s, r, v, n)
      PROVE  IInvC' /\ Evolue
  BY <1>4, CreateReservationLireOK
<1>5. ASSUME NEW s \in Session, NEW v \in Voyage, LireSonVoyage(s, v)
      PROVE  IInvC' /\ Evolue
  BY <1>5, LireSonVoyageOK
<1>6. ASSUME NEW s \in Session, NEW t \in Tx, InitierPaiementValider(s, t)
      PROVE  IInvC' /\ Evolue
  BY <1>6, InitierPaiementValiderOK
<1>7. ASSUME NEW s \in Session, Choisir(s) \/ Balayer(s) \/ Interroger(s) \/ Abandon(s)
      PROVE  IInvC' /\ Evolue
  BY <1>7, ChoisirOK, BalayerOK, InterrogerOK, AbandonOK
<1>8. ASSUME NEW s \in Session,
             \/ Rendre(s) \/ CreateReservationValider(s) \/ StatutPaiementValider(s)
             \/ ClasserValider(s) \/ VoyageValider(s)
      PROVE  IInvC' /\ Evolue
  BY <1>8, RendreOK, CreateReservationValiderOK, StatutPaiementValiderOK, ClasserValiderOK,
     VoyageValiderOK
<1>9. CASE UNCHANGED varsC
  <2>1. UNCHANGED <<voyages, reservations, tx, ecritures, reverses, session, melanges>>
    BY <1>9 DEF varsC
  <2>2. IInvC'
    BY <2>1 DEF IInvC, TypeOK, Liens, PayeeAvantVisible, Encaissee, Distincts
  <2>3. Evolue
    BY <2>1 DEF Evolue, IInvC, TypeOK, NbEcritures
  <2> QED
    BY <2>2, <2>3
<1> QED
  BY <1>1, <1>2, <1>3, <1>4, <1>5, <1>6, <1>7, <1>8, <1>9 DEF NextC

\* Whatever requests overlap, and whatever they read too early, what each holds in memory
\* goes on being true of the tables in what its commit relies on.
THEOREM InductifC == SpecC => []IInvC
<1>1. InitC => IInvC
  BY InitIInvC
<1>2. IInvC /\ [NextC]_varsC => IInvC'
  BY NextIInvC
<1> QED
  BY <1>1, <1>2, PTL DEF SpecC

\* Overlapping requests keep every row, and every copy of one, of its type, and no commit
\* takes the counter of a trip below 0.
THEOREM TypesC == SpecC => []TypeOKC
<1>1. IInvC => TypeOKC
  BY TypeDeIInvC
<1> QED
  BY <1>1, InductifC, PTL

\* Overlapping requests never show the driver a reservation without a collection of its
\* own, paid and entered.
THEOREM PaiementAvantVisibiliteC == SpecC => []PayeeAvantVisible
<1>1. IInvC => PayeeAvantVisible
  BY DEF IInvC
<1> QED
  BY <1>1, InductifC, PTL

-----------------------------------------------------------------------------
(* A commit whose readings still hold is a step of Reservations *)

LEMMA MemeResaProps ==
    ASSUME NEW x \in ResaRow, NEW y \in ResaRow, NEW op, MemeResa(x, y, op)
    PROVE  /\ x.statut = y.statut /\ x.voyage = y.voyage /\ x.places = y.places /\ x.tx = y.tx
           /\ op \in {"initier_paiement", "statut_paiement"} => (x.reste < 0 <=> y.reste < 0)
<1>1. [x EXCEPT !.reste = 0] = [y EXCEPT !.reste = 0]
  BY DEF MemeResa
<1>2. /\ [x EXCEPT !.reste = 0].statut = x.statut /\ [x EXCEPT !.reste = 0].voyage = x.voyage
      /\ [x EXCEPT !.reste = 0].places = x.places /\ [x EXCEPT !.reste = 0].tx = x.tx
      /\ [y EXCEPT !.reste = 0].statut = y.statut /\ [y EXCEPT !.reste = 0].voyage = y.voyage
      /\ [y EXCEPT !.reste = 0].places = y.places /\ [y EXCEPT !.reste = 0].tx = y.tx
  BY DEF ResaRow
<1> QED
  BY <1>1, <1>2 DEF MemeResa

LEMMA TientProps ==
    ASSUME IInvC, NEW s \in Session, Tient(s)
    PROVE  LET q == session[s] IN
           /\ DOMAIN q.vues \in SUBSET Voyage /\ DOMAIN q.lues \in SUBSET Resa
           /\ \A v \in DOMAIN q.vues : voyages[v] = q.vues[v]
           /\ \A r \in DOMAIN q.lues :
                  /\ reservations[r].statut = q.lues[r].statut
                  /\ reservations[r].voyage = q.lues[r].voyage
                  /\ reservations[r].places = q.lues[r].places
                  /\ reservations[r].tx = q.lues[r].tx
                  /\ q.op \in {"initier_paiement", "statut_paiement"} =>
                         (reservations[r].reste < 0 <=> q.lues[r].reste < 0)
           /\ \A st \in StatutReservation : Classees(q.lues, st) = AvecStatut(DOMAIN q.lues, st)
<1> DEFINE q == session[s]
<1>1. q.vues \in Partielles(Voyage, VoyageRow) /\ q.lues \in Partielles(Resa, ResaRow)
  BY DEF IInvC, Requetes
<1>2. /\ DOMAIN q.vues \in SUBSET Voyage /\ DOMAIN q.lues \in SUBSET Resa
      /\ \A r \in DOMAIN q.lues : q.lues[r] \in ResaRow
  BY <1>1, PartiellesProps
<1>3. /\ \A v \in DOMAIN q.vues : voyages[v] = q.vues[v]
      /\ \A r \in DOMAIN q.lues : MemeResa(reservations[r], q.lues[r], q.op)
  BY DEF Tient
<1>4. \A r \in Resa : reservations[r] \in ResaRow
  BY DEF IInvC, TypeOK
<1> HIDE DEF q
<1>5. \A r \in DOMAIN q.lues :
          /\ reservations[r].statut = q.lues[r].statut
          /\ reservations[r].voyage = q.lues[r].voyage
          /\ reservations[r].places = q.lues[r].places
          /\ reservations[r].tx = q.lues[r].tx
          /\ q.op \in {"initier_paiement", "statut_paiement"} =>
                 (reservations[r].reste < 0 <=> q.lues[r].reste < 0)
  BY <1>2, <1>3, <1>4, MemeResaProps
<1>6. ASSUME NEW st \in StatutReservation
      PROVE  Classees(q.lues, st) = AvecStatut(DOMAIN q.lues, st)
  <2>1. ASSUME NEW r \in DOMAIN q.lues
        PROVE  Ecrite(reservations[r], q.lues[r], [q.lues[r] EXCEPT !.statut = st])
                 = [reservations[r] EXCEPT !.statut = st]
    <3>1. /\ reservations[r] \in ResaRow /\ q.lues[r] \in ResaRow
          /\ reservations[r].statut = q.lues[r].statut
      BY <1>2, <1>4, <1>5
    <3>2. Ecrite(reservations[r], q.lues[r], [q.lues[r] EXCEPT !.statut = st])
            = IF q.lues[r].statut = st THEN reservations[r] ELSE [reservations[r] EXCEPT !.statut = st]
      BY <3>1, EcriteResa
    <3>3. reservations[r].statut = st => [reservations[r] EXCEPT !.statut = st] = reservations[r]
      BY <3>1 DEF ResaRow
    <3> QED
      BY <3>1, <3>2, <3>3
  <2> QED
    BY <1>2, <2>1 DEF Classees, AvecStatut
<1> QED
  BY <1>2, <1>3, <1>5, <1>6 DEF q

\* The seats of one reservation, and of none.
LEMMA SiegesSimples ==
    ASSUME TypeOK
    PROVE  /\ NbSieges({}) = 0
           /\ \A r \in Resa : reservations[r].places \in Place =>
                  NbSieges({r}) = reservations[r].places
<1>1. NbSieges({}) = 0
  <2>1. Sieges({}) = {}
    BY DEF Sieges
  <2> QED
    BY <2>1, FS_EmptySet DEF NbSieges
<1> QED
  BY <1>1, PrisesUne DEF NbSieges, Sieges, Prises

\* A request on one reservation that gives its seats back does so on the row as it stands.
LEMMA RendreUne ==
    ASSUME IInvC, NEW s \in Session, Tient(s), Rendre(s), session[s].op \in SurResa
    PROVE  LET q == session[s]
               x == reservations[q.r]
           IN  /\ q.r \in Resa /\ DOMAIN q.lues = {q.r} /\ Lue(q.lues[q.r], q.op)
               /\ UNCHANGED <<tx, ecritures, reverses>>
               /\ IF q.op = "reject_reservation"
                  THEN /\ voyages' = [voyages EXCEPT ![x.voyage] = RestitueSiReservable(@, x.places)]
                       /\ reservations' = AvecStatut({q.r}, "REFUSEE")
                  ELSE /\ voyages' = [voyages EXCEPT ![x.voyage] = RestitueSiOuvert(@, x.places)]
                       /\ reservations' = AvecStatut({q.r}, "ANNULEE")
<1> DEFINE q == session[s]
           x == reservations[q.r]
           st == IF q.op = "reject_reservation" THEN "REFUSEE" ELSE "ANNULEE"
           rendu(y) == IF q.op = "reject_reservation" THEN RestitueSiReservable(y, x.places)
                       ELSE RestitueSiOuvert(y, x.places)
<1>1. q \in Requetes /\ Formee(q) /\ Fidele(q, reservations, tx, ecritures) /\ TypeOK
  BY DEF IInvC
<1>2. /\ ARendre(q) # {} /\ \A r \in ARendre(q) : q.lues[r].voyage \in DOMAIN q.vues
      /\ voyages' = Rendus(q) /\ reservations' = Classees(q.lues, st)
      /\ UNCHANGED <<tx, ecritures, reverses>>
  BY DEF Rendre
<1>3. /\ DOMAIN q.vues \in SUBSET Voyage
      /\ \A v \in DOMAIN q.vues : voyages[v] = q.vues[v]
      /\ \A r \in DOMAIN q.lues : /\ reservations[r].voyage = q.lues[r].voyage
                                  /\ reservations[r].places = q.lues[r].places
      /\ \A u \in StatutReservation : Classees(q.lues, u) = AvecStatut(DOMAIN q.lues, u)
  BY TientProps
<1>4. q.op \in SurResa
  OBVIOUS
<1> HIDE DEF q
<1>5. /\ q.r \in Resa /\ DOMAIN q.lues = {q.r} /\ Lue(q.lues[q.r], q.op)
      /\ DOMAIN q.vues \subseteq {q.lues[q.r].voyage}
  BY <1>1, <1>4 DEF Formee
<1>6. /\ x.voyage \in Voyage /\ x.places \in Place /\ DOMAIN q.vues = {x.voyage}
      /\ q.lues[q.r].voyage = x.voyage
  <2>1. ARendre(q) = DOMAIN q.lues
    BY <1>2, ARendreProps
  <2>2. q.lues[q.r].voyage \in DOMAIN q.vues
    BY <1>2, <1>5, <2>1
  <2> QED
    BY <1>1, <1>3, <1>5, <2>2 DEF Fidele, Durable
<1>7. NbSieges({r \in DOMAIN q.lues : q.lues[r].voyage = x.voyage}) = x.places
  <2>1. {r \in DOMAIN q.lues : q.lues[r].voyage = x.voyage} = {q.r}
    BY <1>5, <1>6
  <2> QED
    BY <1>1, <1>5, <1>6, <2>1, SiegesSimples
<1>8. voyages' = [voyages EXCEPT ![x.voyage] = rendu(@)]
  <2>1. rendu(voyages[x.voyage]) \in VoyageRow /\ voyages[x.voyage] \in VoyageRow
    <3>1. voyages[x.voyage] \in VoyageRow /\ x.places \in Nat
      BY <1>1, <1>6 DEF TypeOK, Place
    <3> QED
      BY <3>1, RestitueSiReservableProps, RestitueSiOuvertProps
  <2>2. Ecrite(voyages[x.voyage], q.vues[x.voyage], rendu(q.vues[x.voyage])) = rendu(voyages[x.voyage])
    BY <1>3, <1>6, <2>1, EcriteVoyage
  <2>3. \A v \in Voyage : Rendus(q)[v] = IF v = x.voyage THEN rendu(voyages[v]) ELSE voyages[v]
    <3> SUFFICES ASSUME NEW v \in Voyage
                 PROVE  Rendus(q)[v] = IF v = x.voyage THEN rendu(voyages[v]) ELSE voyages[v]
      OBVIOUS
    <3>1. CASE v = x.voyage
      <4>1. v \in DOMAIN q.vues
        BY <1>6, <3>1
      <4>2. Rendus(q)[v] = Ecrite(voyages[v], q.vues[v], rendu(q.vues[v]))
        BY <1>7, <3>1, <4>1 DEF Rendus
      <4> QED
        BY <2>2, <3>1, <4>2
    <3>2. CASE v # x.voyage
      BY <1>6, <3>2 DEF Rendus
    <3> QED
      BY <3>1, <3>2
  <2>4. Rendus(q) = [v \in Voyage |-> Rendus(q)[v]] /\ voyages = [v \in Voyage |-> voyages[v]]
    BY <1>1 DEF Rendus, TypeOK
  <2> HIDE DEF rendu, x
  <2> QED
    BY <1>2, <2>3, <2>4
<1>9. reservations' = AvecStatut({q.r}, st)
  <2>1. st \in StatutReservation
    BY DEF StatutReservation
  <2> QED
    BY <1>2, <1>3, <1>5, <2>1
<1> QED
  BY <1>2, <1>5, <1>8, <1>9 DEF q

LEMMA RendreSerie ==
    ASSUME Sobre, IInvC, NEW s \in Session, Tient(s), Rendre(s)
    PROVE  Next
<1> DEFINE q == session[s]
           x == reservations[q.r]
<1>1. Formee(q) /\ Fidele(q, reservations, tx, ecritures) /\ TypeOK
  BY DEF IInvC
<1>2. ARendre(q) # {}
  BY DEF Rendre
<1>3. CASE q.op \in SurResa
  <2>1. /\ q.r \in Resa /\ DOMAIN q.lues = {q.r} /\ Lue(q.lues[q.r], q.op)
        /\ UNCHANGED <<tx, ecritures, reverses>>
        /\ IF q.op = "reject_reservation"
           THEN /\ voyages' = [voyages EXCEPT ![x.voyage] = RestitueSiReservable(@, x.places)]
                /\ reservations' = AvecStatut({q.r}, "REFUSEE")
           ELSE /\ voyages' = [voyages EXCEPT ![x.voyage] = RestitueSiOuvert(@, x.places)]
                /\ reservations' = AvecStatut({q.r}, "ANNULEE")
    BY <1>3, RendreUne
  <2>2. x.statut = q.lues[q.r].statut /\ x.tx = q.lues[q.r].tx
        /\ (q.op = "statut_paiement" => (x.reste < 0 <=> q.lues[q.r].reste < 0))
    BY <2>1, TientProps
  <2>3. CASE q.op = "cancel_reservation"
    <3>1. CancelReservation(q.r)
      BY <2>1, <2>2, <2>3 DEF Lue, CancelReservation
    <3> QED
      BY <2>1, <3>1 DEF Next
  <2>4. CASE q.op = "reject_reservation"
    <3>1. RejectReservation(q.r)
      BY <2>1, <2>2, <2>4 DEF Lue, RejectReservation
    <3> QED
      BY <2>1, <3>1 DEF Next
  <2>5. CASE q.op = "statut_paiement"
    <3>1. Annuler(q.r)
      BY <2>1, <2>5 DEF Annuler
    <3>2. Interrogeable(q.r) /\ PollBorne(q.r)
      BY <2>1, <2>2, <2>5 DEF Lue, Interrogeable, PollBorne, Sobre
    <3>3. StatutPaiement(q.r)
      <4>1. CASE q.lues[q.r].reste < 0
        BY <2>2, <2>5, <3>1, <3>2, <4>1 DEF StatutPaiement, PollExpire
      <4>2. CASE ~ (q.lues[q.r].reste < 0)
        <5>1. q.reponse \in Echec
          BY <1>2, <2>5, <4>2 DEF ARendre
        <5>2. tx[x.tx].statut \in Echec
          BY <2>2, <5>1 DEF Tient, Echec
        <5>3. x.reste >= 0
          <6>1. x.reste \in Int
            BY <2>1, DelaiAssumption DEF IInvC, TypeOK, ResaRow, TempsRestant
          <6> QED
            BY <2>2, <2>5, <4>2, <6>1
        <5> QED
          BY <3>1, <3>2, <5>2, <5>3 DEF StatutPaiement, PollEchec
      <4> QED
        BY <4>1, <4>2
    <3> QED
      BY <2>1, <3>3 DEF Next
  <2> QED
    BY <1>2, <1>3, <2>3, <2>4, <2>5, ARendreProps DEF SurResa
<1>4. CASE q.op \notin SurResa
  <2>1. q.op = "balayage" /\ ARendre(q) = DOMAIN q.lues
    BY <1>2, <1>4, ARendreProps DEF SurResa
  <2>2. DOMAIN q.lues = UNION {Expirees(v) : v \in Voyage}
    BY <2>1 DEF Tient
  <2>3. /\ \A v \in DOMAIN q.vues : voyages[v] = q.vues[v]
        /\ \A r \in DOMAIN q.lues : reservations[r].voyage = q.lues[r].voyage
        /\ Classees(q.lues, "ANNULEE") = AvecStatut(DOMAIN q.lues, "ANNULEE")
    BY TientProps DEF StatutReservation
  <2>4. /\ \A r \in DOMAIN q.lues : q.lues[r].voyage \in DOMAIN q.vues
        /\ voyages' = Rendus(q) /\ reservations' = AvecStatut(DOMAIN q.lues, "ANNULEE")
        /\ UNCHANGED <<tx, ecritures, reverses>>
    BY <2>1, <2>3 DEF Rendre
  <2> HIDE DEF q
  <2>5. ASSUME NEW v \in Voyage
        PROVE  {r \in DOMAIN q.lues : q.lues[r].voyage = v} = Expirees(v)
    BY <2>2, <2>3 DEF Expirees, ResasDe
  <2>6. ASSUME NEW v \in Voyage
        PROVE  Rendus(q)[v] = RestitueSiOuvert(voyages[v], NbSieges(Expirees(v)))
    <3>1. RestitueSiOuvert(voyages[v], NbSieges(Expirees(v))) \in VoyageRow /\ voyages[v] \in VoyageRow
      BY <1>1, ExpireesSubset, NbSiegesNat, RestitueSiOuvertProps DEF TypeOK
    <3>2. CASE v \in DOMAIN q.vues
      <4>1. Rendus(q)[v] = Ecrite(voyages[v], q.vues[v],
                                  RestitueSiOuvert(q.vues[v], NbSieges(Expirees(v))))
        BY <2>1, <2>5, <3>2 DEF Rendus
      <4> QED
        BY <2>3, <3>1, <3>2, <4>1, EcriteVoyage
    <3>3. CASE v \notin DOMAIN q.vues
      <4>1. Expirees(v) = {}
        BY <2>4, <2>5, <3>3
      <4>2. NbSieges(Expirees(v)) = 0
        BY <1>1, <4>1, SiegesSimples
      <4> QED
        BY <3>3, <4>2 DEF Rendus, RestitueSiOuvert
    <3> QED
      BY <3>2, <3>3
  <2>7. Rendus(q) = [v \in Voyage |-> RestitueSiOuvert(voyages[v], NbSieges(Expirees(v)))]
    <3>1. Rendus(q) = [v \in Voyage |-> Rendus(q)[v]]
      BY DEF Rendus
    <3> QED
      BY <2>6, <3>1
  <2>8. DOMAIN q.lues # {}
    BY <1>2, <2>1
  <2>9. AnnulerPaiementsExpires
    BY <2>2, <2>4, <2>7, <2>8 DEF AnnulerPaiementsExpires
  <2> QED
    BY <2>9 DEF Next
<1> QED
  BY <1>3, <1>4

LEMMA CreateReservationSerie ==
    ASSUME IInvC, NEW s \in Session, Tient(s), CreateReservationValider(s)
    PROVE  Next
<1> DEFINE q == session[s]
           libere == RestitueSiOuvert(voyages[q.v], NbSieges(Expirees(q.v)))
           vendu == [libere EXCEPT !.restantes = @ - q.n,
                                   !.statut = IF libere.restantes = q.n THEN "COMPLET" ELSE @]
<1>1. q \in Requetes /\ Formee(q) /\ Fidele(q, reservations, tx, ecritures) /\ TypeOK
  BY DEF IInvC
<1>2. q.op = "create_reservation" /\ q.choisi
  BY DEF CreateReservationValider
<1>3. /\ q.r \in Resa /\ q.n \in PlacesDemandees /\ q.v \in DOMAIN q.vues
      /\ reservations[q.r].statut = "absent" /\ Vendables(q, reservations)
  BY <1>1, <1>2 DEF Formee, Fidele
<1>4. /\ DOMAIN q.lues = Expirees(q.v) /\ q.v \in Voyage /\ voyages[q.v] = q.vues[q.v]
      /\ Classees(q.lues, "ANNULEE") = AvecStatut(DOMAIN q.lues, "ANNULEE")
  <2>1. DOMAIN q.lues = Expirees(q.v)
    BY <1>2 DEF Tient
  <2> QED
    BY <1>3, <2>1, TientProps DEF StatutReservation
<1>5. Libere(q) = libere
  BY <1>4 DEF Libere
<1>6. libere.statut = "PUBLIE" /\ libere.restantes >= q.n
  BY <1>3, <1>5 DEF Vendables, Libere, NbSieges, Sieges, Prises
<1>7. /\ voyages' = [voyages EXCEPT ![q.v] =
             Ecrite(Ecrite(@, q.vues[q.v], libere), libere, vendu)]
      /\ reservations' = [AvecStatut(Expirees(q.v), "ANNULEE") EXCEPT ![q.r] =
             [statut |-> "EN_ATTENTE_PAIEMENT", voyage |-> q.v, places |-> q.n,
              reste |-> Delai, tx |-> Aucun]]
      /\ UNCHANGED <<tx, ecritures, reverses>>
  BY <1>4, <1>5 DEF CreateReservationValider
<1>8. libere \in VoyageRow /\ voyages[q.v] \in VoyageRow
  BY <1>1, <1>4, ExpireesSubset, NbSiegesNat, RestitueSiOuvertProps DEF TypeOK
<1> HIDE DEF libere, q
<1>9. vendu \in VoyageRow
  <2> DEFINE x == IF libere.restantes = q.n THEN "COMPLET" ELSE libere.statut
  <2>1. x \in StatutVoyage \cup {"absent"}
    BY <1>8 DEF VoyageRow, StatutVoyage
  <2>2. libere.restantes - q.n \in Int
    <3>1. libere.restantes \in Int /\ q.n \in Place
      BY <1>3, <1>8, PlacesAssumption DEF VoyageRow
    <3>2. q.n \in Int
      BY <3>1 DEF Place
    <3> HIDE DEF vendu, x
    <3> QED
      BY <3>1, <3>2
  <2>3. vendu = [libere EXCEPT !.restantes = @ - q.n, !.statut = x]
    OBVIOUS
  <2> HIDE DEF x, vendu
  <2> QED
    BY <1>8, <2>1, <2>2, <2>3 DEF VoyageRow
<1> HIDE DEF vendu
<1>10. Ecrite(Ecrite(voyages[q.v], q.vues[q.v], libere), libere, vendu) = vendu
  <2>1. Ecrite(voyages[q.v], q.vues[q.v], libere) = libere
    BY <1>4, <1>8, EcriteVoyage
  <2>2. Ecrite(libere, libere, vendu) = vendu
    BY <1>8, <1>9, EcriteVoyage
  <2> QED
    BY <2>1, <2>2
<1>11. voyages' = [voyages EXCEPT ![q.v] = vendu]
  BY <1>7, <1>10
<1>12. CreateReservation(q.r, q.v, q.n)
  BY <1>3, <1>6, <1>7, <1>11 DEF CreateReservation, libere, vendu
<1> QED
  BY <1>3, <1>4, <1>12 DEF Next

LEMMA PaiementSerie ==
    ASSUME Sobre, IInvC, NEW s \in Session, Tient(s),
           StatutPaiementValider(s) \/ \E t \in Tx : InitierPaiementValider(s, t)
    PROVE  Next
<1> DEFINE q == session[s]
           x == reservations[q.r]
<1>1. Formee(q) /\ q.op \in {"statut_paiement", "initier_paiement"} /\ TypeOK
  BY DEF IInvC, StatutPaiementValider, InitierPaiementValider
<1>2. /\ q.r \in Resa /\ DOMAIN q.lues = {q.r} /\ Lue(q.lues[q.r], q.op)
      /\ q.reponse # "absente" => q.lues[q.r].reste >= 0
  BY <1>1 DEF Formee, SurResa
<1>3. /\ x.statut = q.lues[q.r].statut /\ x.tx = q.lues[q.r].tx
      /\ x.reste < 0 <=> q.lues[q.r].reste < 0
      /\ Classees(q.lues, "EN_ATTENTE") = AvecStatut({q.r}, "EN_ATTENTE")
  BY <1>1, <1>2, TientProps DEF StatutReservation
<1>4. x.reste \in Int /\ q.lues[q.r].reste \in Int
  <2>1. q.lues \in Partielles(Resa, ResaRow)
    BY DEF IInvC, Requetes
  <2>2. x \in ResaRow /\ q.lues[q.r] \in ResaRow
    BY <1>1, <1>2, <2>1, PartiellesProps DEF TypeOK
  <2> HIDE DEF x, q
  <2> QED
    BY <2>2, DelaiAssumption DEF ResaRow, TempsRestant
<1>5. q.lues[q.r].reste >= 0 => x.reste >= 0
  BY <1>3, <1>4
<1>6. CASE StatutPaiementValider(s)
  <2>1. /\ q.op = "statut_paiement" /\ q.reponse \in Succes
        /\ reservations' = AvecStatut({q.r}, "EN_ATTENTE")
        /\ ecritures' = [ecritures EXCEPT ![x.tx] = IF @ < 2 THEN @ + 1 ELSE @]
        /\ UNCHANGED <<voyages, tx, reverses>>
    BY <1>3, <1>6 DEF StatutPaiementValider
  <2>2. Interrogeable(q.r) /\ PollBorne(q.r)
    BY <1>2, <1>3, <2>1 DEF Lue, Interrogeable, PollBorne, Sobre
  <2>3. tx[x.tx].statut \in Succes /\ x.reste >= 0
    BY <1>2, <1>3, <1>5, <2>1 DEF Tient, Succes
  <2>4. StatutPaiement(q.r)
    BY <2>1, <2>2, <2>3 DEF StatutPaiement, PollConfirme, Valider
  <2> QED
    BY <1>2, <2>4 DEF Next
<1>7. ASSUME NEW t \in Tx, InitierPaiementValider(s, t)
      PROVE  Next
  <2>1. /\ q.op = "initier_paiement" /\ tx[t].statut = "absente"
        /\ \/ /\ tx' = [tx EXCEPT ![t] = [statut |-> "pending", resa |-> q.r]]
              /\ reservations' = [reservations EXCEPT ![q.r].tx = t]
           \/ /\ tx' = [tx EXCEPT ![t] = [statut |-> "sans_lien", resa |-> q.r]]
              /\ UNCHANGED reservations
        /\ UNCHANGED <<voyages, ecritures, reverses>>
    BY <1>7 DEF InitierPaiementValider
  <2>2. PaiementAttendu(q.r)
    BY <1>2, <1>3, <1>5, <2>1 DEF Lue, PaiementAttendu
  <2>3. InitierPaiement(q.r, t) \/ InitierPaiementSansLien(q.r, t)
    BY <2>1, <2>2 DEF InitierPaiement, InitierPaiementSansLien
  <2> QED
    BY <1>2, <2>3 DEF Next
<1> QED
  BY <1>6, <1>7

LEMMA ClasserSerie ==
    ASSUME IInvC, NEW s \in Session, Tient(s), ClasserValider(s)
    PROVE  Next
<1> DEFINE q == session[s]
<1>1. Formee(q) /\ q.op \in {"accept_reservation", "admin_cancel_reservation"}
  BY DEF IInvC, ClasserValider
<1>2. q.r \in Resa /\ DOMAIN q.lues = {q.r} /\ Lue(q.lues[q.r], q.op)
  BY <1>1 DEF Formee, SurResa
<1>3. /\ reservations[q.r].statut = q.lues[q.r].statut
      /\ Classees(q.lues, "CONFIRMEE") = AvecStatut({q.r}, "CONFIRMEE")
      /\ Classees(q.lues, "ANNULEE") = AvecStatut({q.r}, "ANNULEE")
  BY <1>2, TientProps DEF StatutReservation
<1>4. \/ /\ q.op = "accept_reservation" /\ reservations' = AvecStatut({q.r}, "CONFIRMEE")
      \/ /\ q.op = "admin_cancel_reservation" /\ reservations' = AvecStatut({q.r}, "ANNULEE")
  BY <1>3 DEF ClasserValider
<1>5. UNCHANGED <<voyages, tx, ecritures, reverses>>
  BY DEF ClasserValider
<1>6. AcceptReservation(q.r) \/ AdminCancelReservation(q.r)
  BY <1>2, <1>3, <1>4, <1>5 DEF Lue, AcceptReservation, AdminCancelReservation
<1> QED
  BY <1>2, <1>6 DEF Next

LEMMA VoyageSerie ==
    ASSUME IInvC, NEW s \in Session, Tient(s), VoyageValider(s)
    PROVE  Next
<1> DEFINE q == session[s]
<1>1. Formee(q) /\ q.op \in SurVoyage /\ UNCHANGED <<tx, ecritures>>
  BY DEF IInvC, VoyageValider, SurVoyage
<1>2. q.v \in DOMAIN q.vues /\ q.vues[q.v].statut \in Ouverts(q.op)
  BY <1>1 DEF Formee
<1>3. q.v \in Voyage /\ voyages[q.v].statut \in Ouverts(q.op)
  BY <1>2, TientProps
<1>4. CASE q.op = "start_voyage"
  <2>1. StartVoyage(q.v)
    BY <1>1, <1>3, <1>4 DEF VoyageValider, Ouverts, StartVoyage
  <2> QED
    BY <1>3, <2>1 DEF Next
<1>5. CASE q.op = "cancel_voyage"
  <2>1. CancelVoyage(q.v)
    BY <1>1, <1>3, <1>5 DEF VoyageValider, Ouverts, CancelVoyage
  <2> QED
    BY <1>3, <2>1 DEF Next
<1>6. CASE q.op = "admin_cancel_voyage"
  <2>1. AdminCancelVoyage(q.v)
    BY <1>1, <1>3, <1>6 DEF VoyageValider, Ouverts, AdminCancelVoyage, VoyageActif
  <2> QED
    BY <1>3, <2>1 DEF Next
<1>7. CASE q.op = "end_voyage"
  <2>1. DOMAIN q.lues = ResasDe(q.v, {"CONFIRMEE"})
    BY <1>7 DEF Tient
  <2>2. EndVoyage(q.v)
    BY <1>1, <1>3, <1>7, <2>1 DEF VoyageValider, Ouverts, EndVoyage
  <2> QED
    BY <1>3, <2>2 DEF Next
<1> QED
  BY <1>1, <1>4, <1>5, <1>6, <1>7 DEF SurVoyage

\* A commit leaves its session free.
LEMMA Cloture ==
    ASSUME IInvC, NEW s \in Session, Clore(s), session[s].op # "libre"
    PROVE  session'[s] = Libre /\ session[s] # Libre
<1>1. session' = [session EXCEPT ![s] = Libre] /\ session \in [Session -> Requetes]
  BY DEF IInvC, Clore
<1>2. session'[s] = Libre
  BY <1>1
<1> QED
  BY <1>2, LibreRequete

LEMMA SerieStep ==
    ASSUME Sobre, IInvC, [NextC]_varsC,
           \A s \in Session : session'[s] = Libre /\ session[s] # Libre => Tient(s)
    PROVE  [Next]_vars
<1>1. CASE Externe(\/ \E v \in Voyage, n \in TotalPlaces : CreateVoyage(v, n)
                   \/ Tick
                   \/ \E t \in Tx : FedaPay(t))
  BY <1>1 DEF Externe, Next
<1>2. ASSUME NEW s \in Session,
             \/ \E v \in Voyage, op \in SurVoyage : LireVoyage(s, v, op)
             \/ \E r \in Resa, op \in SurResa : LireReservation(s, r, op)
             \/ \E r \in Resa, v \in Voyage, n \in PlacesDemandees : CreateReservationLire(s, r, v, n)
             \/ \E v \in Voyage : LireSonVoyage(s, v)
             \/ Choisir(s) \/ Balayer(s) \/ Interroger(s) \/ Abandon(s)
      PROVE  UNCHANGED vars
  BY <1>2 DEF LireVoyage, LireReservation, CreateReservationLire, LireSonVoyage, Choisir,
              Balayer, Interroger, Abandon, Debuter, Avancer
<1>3. ASSUME NEW s \in Session, Rendre(s)
      PROVE  Next
  <2>1. ARendre(session[s]) # {} /\ Clore(s)
    BY <1>3 DEF Rendre
  <2>2. session[s].op # "libre"
    BY <2>1, ARendreProps
  <2>3. Tient(s)
    BY <2>1, <2>2, Cloture
  <2> QED
    BY <1>3, <2>3, RendreSerie
<1>4. ASSUME NEW s \in Session, CreateReservationValider(s)
      PROVE  Next
  <2>1. Tient(s)
    BY <1>4, Cloture DEF CreateReservationValider
  <2> QED
    BY <1>4, <2>1, CreateReservationSerie
<1>5. ASSUME NEW s \in Session,
             StatutPaiementValider(s) \/ \E t \in Tx : InitierPaiementValider(s, t)
      PROVE  Next
  <2>1. Tient(s)
    BY <1>5, Cloture DEF StatutPaiementValider, InitierPaiementValider
  <2> QED
    BY <1>5, <2>1, PaiementSerie
<1>6. ASSUME NEW s \in Session, ClasserValider(s)
      PROVE  Next
  <2>1. Tient(s)
    BY <1>6, Cloture DEF ClasserValider
  <2> QED
    BY <1>6, <2>1, ClasserSerie
<1>7. ASSUME NEW s \in Session, VoyageValider(s)
      PROVE  Next
  <2>1. Tient(s)
    BY <1>7, Cloture DEF VoyageValider
  <2> QED
    BY <1>7, <2>1, VoyageSerie
<1>8. CASE UNCHANGED varsC
  BY <1>8 DEF varsC, vars
<1> QED
  BY <1>1, <1>2, <1>3, <1>4, <1>5, <1>6, <1>7, <1>8 DEF NextC

\* Requests that overlap do what the atomic actions of Reservations do, as long as what
\* each has read still holds when it commits.
THEOREM Serialise == Sobre => (SpecC => Serialisable)
<1> SUFFICES ASSUME Sobre
             PROVE  SpecC => Serialisable
  OBVIOUS
<1>1. IInvC /\ [NextC]_varsC =>
          ((\A s \in Session : session'[s] = Libre /\ session[s] # Libre => Tient(s)) => [Next]_vars)
  BY SerieStep
<1> QED
  BY <1>1, InductifC, PTL DEF SpecC, Serialisable
-----------------------------------------------------------------------------
(* Requests that overlap: the trips whose requests all committed on what still held *)

\* Only the end of its trip finishes a reservation and pays for it.
LEMMA FinStep ==
    TypeOK /\ Sobre /\ [Next]_vars =>
        \A v \in Voyage :
            \/ EndVoyage(v)
            \/ /\ reverses'[v] = reverses[v]
               /\ \A r \in Resa : reservations'[r].statut = "TERMINEE" /\ reservations'[r].voyage = v =>
                                      reservations[r].statut = "TERMINEE"
<1> SUFFICES ASSUME TypeOK, Sobre, [Next]_vars, NEW v \in Voyage, ~EndVoyage(v)
             PROVE  /\ reverses'[v] = reverses[v]
                    /\ \A r \in Resa : reservations'[r].statut = "TERMINEE" /\ reservations'[r].voyage = v =>
                                           reservations[r].statut = "TERMINEE"
  OBVIOUS
<1> DEFINE Fini == /\ reverses'[v] = reverses[v]
                   /\ \A r \in Resa :
                          reservations'[r].statut = "TERMINEE" /\ reservations'[r].voyage = v =>
                              reservations[r].statut = "TERMINEE"
<1>1. ASSUME NEW w \in Voyage, EndVoyage(w)
      PROVE  Fini
  <2>1. \A r \in Resa :
            /\ reservations'[r].statut =
                   IF r \in ResasDe(w, {"CONFIRMEE"}) THEN "TERMINEE" ELSE reservations[r].statut
            /\ reservations'[r].voyage = reservations[r].voyage
    BY <1>1, AvecStatutProps, ResasDeSubset DEF EndVoyage, StatutReservation
  <2>2. w # v /\ reverses'[v] = reverses[v]
    BY <1>1 DEF EndVoyage, TypeOK
  <2> QED
    BY <2>1, <2>2 DEF ResasDe
<1>2. ASSUME NEW S \in SUBSET Resa, NEW st \in StatutReservation, reservations' = AvecStatut(S, st),
             st # "TERMINEE", UNCHANGED reverses
      PROVE  Fini
  <2>1. \A r \in Resa : reservations'[r].statut = IF r \in S THEN st ELSE reservations[r].statut
    BY <1>2, AvecStatutProps
  <2> QED
    BY <1>2, <2>1
<1>3. ASSUME NEW w \in Voyage, CancelVoyage(w) \/ AdminCancelVoyage(w)
      PROVE  Fini
  BY <1>2, <1>3, ResasDeSubset DEF CancelVoyage, AdminCancelVoyage, StatutReservation
<1>4. ASSUME NEW r \in Resa, NEW w \in Voyage, NEW n \in PlacesDemandees, CreateReservation(r, w, n)
      PROVE  Fini
  <2>1. \A q \in Resa : reservations'[q].statut =
            IF q = r THEN "EN_ATTENTE_PAIEMENT"
            ELSE IF q \in Expirees(w) THEN "ANNULEE" ELSE reservations[q].statut
    BY <1>4, AvecStatutProps, ExpireesSubset DEF CreateReservation, StatutReservation
  <2> QED
    BY <1>4, <2>1 DEF CreateReservation
<1>5. ASSUME NEW r \in Resa,
             CancelReservation(r) \/ AdminCancelReservation(r) \/ AcceptReservation(r)
               \/ RejectReservation(r) \/ Annuler(r) \/ Valider(r)
      PROVE  Fini
  <2>1. PICK st \in StatutReservation : st # "TERMINEE" /\ reservations' = AvecStatut({r}, st)
    BY <1>5 DEF CancelReservation, AdminCancelReservation, AcceptReservation, RejectReservation,
       Annuler, Valider, StatutReservation
  <2>2. UNCHANGED reverses
    BY <1>5 DEF CancelReservation, AdminCancelReservation, AcceptReservation, RejectReservation,
       Annuler, Valider
  <2> QED
    BY <1>2, <2>1, <2>2
<1>6. ASSUME AnnulerPaiementsExpires
      PROVE  Fini
  <2> DEFINE S == UNION {Expirees(w) : w \in Voyage}
  <2>1. S \in SUBSET Resa
    BY ExpireesSubset
  <2>2. reservations' = AvecStatut(S, "ANNULEE") /\ UNCHANGED reverses
    BY <1>6 DEF AnnulerPaiementsExpires
  <2> HIDE DEF S
  <2> QED
    BY <1>2, <2>1, <2>2 DEF StatutReservation
<1>7. ASSUME \/ \E w \in Voyage : (\E n \in TotalPlaces : CreateVoyage(w, n)) \/ StartVoyage(w)
             \/ \E r \in Resa, t \in Tx : InitierPaiement(r, t) \/ InitierPaiementSansLien(r, t)
             \/ Tick \/ \E t \in Tx : FedaPay(t)
             \/ UNCHANGED vars
      PROVE  Fini
  <2>1. UNCHANGED reverses
    BY <1>7 DEF CreateVoyage, StartVoyage, InitierPaiement, InitierPaiementSansLien, Tick, FedaPay, vars
  <2>2. \A q \in Resa : reservations'[q].statut = reservations[q].statut
    BY <1>7 DEF CreateVoyage, StartVoyage, InitierPaiement, InitierPaiementSansLien, Tick, FedaPay, vars,
                TypeOK, ResaRow
  <2> QED
    BY <2>1, <2>2
<1> QED
  BY <1>1, <1>3, <1>4, <1>5, <1>6, <1>7 DEF Next, StatutPaiement, PollExpire, PollConfirme, PollEchec

\* Only a collection opened for a reservation that exists has a row in transactions.
Attaches ==
    \A t \in Tx :
        /\ ecritures[t] > 0 => tx[t].statut # "absente"
        /\ tx[t].statut # "absente" => tx[t].resa \in Resa /\ reservations[tx[t].resa].statut # "absent"

DuVoyage(r, v) == reservations[r].statut # "absent" /\ reservations[r].voyage = v

\* What a collection opened for the reservation r shows of it.
UneFois(t, r) == ecritures[t] <= 1 /\ (ecritures[t] > 0 => reservations[r].statut # "EN_ATTENTE_PAIEMENT")

\* Trip v is as if its requests had run one at a time.
Sain(v) ==
    /\ RowCoherente(voyages[v])
    /\ Bilan(reservations, voyages, v)
    /\ reverses[v] = ResasDe(v, {"TERMINEE"})
    /\ reverses[v] # {} => voyages[v].statut = "TERMINE"
    /\ \A t \in Tx, r \in Resa : tx[t].resa = r /\ DuVoyage(r, v) => UneFois(t, r)

\* A request that runs alone, or commits on what still holds, keeps it so.
LEMMA SainStep ==
    ASSUME TypeOK, Liens, VoyagePresent, Attaches, Sobre, [Next]_vars, NEW v \in Voyage, Sain(v)
    PROVE  Sain(v)'
<1>1. RowCoherente(voyages'[v])
  BY RowStep DEF Sain
<1>2. Bilan(reservations', voyages', v)
  BY BilanNext DEF Sain
<1>3. \A r \in Resa : Poursuit(r)
  BY VieStep
<1>4. /\ reverses'[v] = ResasDe(v, {"TERMINEE"})'
      /\ reverses'[v] # {} => voyages'[v].statut = "TERMINE"
  <2>1. CASE EndVoyage(v)
    <3>1. voyages[v].statut = "EN_COURS" /\ voyages'[v].statut = "TERMINE"
          /\ reverses'[v] = ResasDe(v, {"CONFIRMEE"})
      BY <2>1 DEF EndVoyage, TypeOK, VoyageRow
    <3>2. ResasDe(v, {"TERMINEE"}) = {}
      BY <3>1 DEF Sain
    <3>3. \A r \in Resa :
              /\ reservations'[r].statut =
                     IF r \in ResasDe(v, {"CONFIRMEE"}) THEN "TERMINEE" ELSE reservations[r].statut
              /\ reservations'[r].voyage = reservations[r].voyage
      BY <2>1, AvecStatutProps, ResasDeSubset DEF EndVoyage, StatutReservation
    <3>4. ResasDe(v, {"CONFIRMEE"}) = ResasDe(v, {"TERMINEE"})'
      BY <3>2, <3>3 DEF ResasDe
    <3> QED
      BY <3>1, <3>4
  <2>2. CASE ~EndVoyage(v)
    <3>1. /\ reverses'[v] = reverses[v]
          /\ \A r \in Resa : reservations'[r].statut = "TERMINEE" /\ reservations'[r].voyage = v =>
                                 reservations[r].statut = "TERMINEE"
      BY <2>2, FinStep
    <3>2. \A r \in Resa : reservations[r].statut = "TERMINEE" =>
              reservations'[r].statut = "TERMINEE" /\ reservations'[r].voyage = reservations[r].voyage
      BY <1>3 DEF Poursuit, Suit
    <3>3. ResasDe(v, {"TERMINEE"})' = ResasDe(v, {"TERMINEE"})
      BY <3>1, <3>2 DEF ResasDe
    <3>4. reverses[v] # {} => voyages'[v] = voyages[v]
      BY ClosFigeStep DEF Sain
    <3> QED
      BY <3>1, <3>3, <3>4 DEF Sain
  <2> QED
    BY <2>1, <2>2
<1>5. ASSUME NEW t \in Tx, NEW r \in Resa, tx'[t].resa = r, DuVoyage(r, v)'
      PROVE  UneFois(t, r)'
  <2>1. reservations[r].statut # "absent" => DuVoyage(r, v)
    BY <1>3, <1>5 DEF Poursuit, DuVoyage
  <2>2. reservations[r].statut \notin {"absent", "EN_ATTENTE_PAIEMENT"} =>
            reservations'[r].statut # "EN_ATTENTE_PAIEMENT"
    BY <1>3 DEF Poursuit, Suit
  <2>3. /\ tx[t].statut # "absente" => tx'[t].resa = tx[t].resa
        /\ \/ ecritures'[t] = ecritures[t]
           \/ /\ tx[t].statut # "absente" /\ tx[t].resa \in Resa
              /\ reservations[tx[t].resa].statut = "EN_ATTENTE_PAIEMENT"
              /\ reservations'[tx[t].resa].statut = "EN_ATTENTE"
              /\ ecritures[t] = 0 => ecritures'[t] = 1
    BY EcritureStep
  <2>4. ecritures[t] \in {0, 1, 2} /\ ecritures'[t] \in {0, 1, 2}
    BY NextType DEF TypeOK, NbEcritures
  <2>5. tx[t].statut # "absente" => reservations[r].statut # "absent" /\ UneFois(t, r)
    BY <1>5, <2>1, <2>3 DEF Attaches, Sain
  <2>6. CASE ecritures'[t] = ecritures[t]
    BY <2>2, <2>4, <2>5, <2>6 DEF Attaches, UneFois
  <2>7. CASE ecritures'[t] # ecritures[t]
    <3>1. /\ UneFois(t, r) /\ reservations[r].statut = "EN_ATTENTE_PAIEMENT"
          /\ reservations'[r].statut = "EN_ATTENTE" /\ (ecritures[t] = 0 => ecritures'[t] = 1)
      BY <1>5, <2>3, <2>5, <2>7
    <3>2. ecritures[t] = 0
      BY <2>4, <3>1 DEF UneFois
    <3> QED
      BY <3>1, <3>2 DEF UneFois
  <2> QED
    BY <2>6, <2>7
<1> QED
  BY <1>1, <1>2, <1>4, <1>5 DEF Sain

\* What the tables say of trip v, its reservations and their collections stays.
Intact(v) ==
    /\ voyages'[v] = voyages[v] /\ reverses'[v] = reverses[v]
    /\ \A r \in Resa :
           /\ DuVoyage(r, v)' <=> DuVoyage(r, v)
           /\ DuVoyage(r, v) => /\ reservations'[r].statut = reservations[r].statut
                                /\ reservations'[r].places = reservations[r].places
    /\ \A t \in Tx, r \in Resa : tx'[t].resa = r /\ DuVoyage(r, v) =>
           tx[t].resa = r /\ ecritures'[t] = ecritures[t]

LEMMA IntactSain ==
    ASSUME NEW v \in Voyage, Intact(v), Sain(v)
    PROVE  Sain(v)'
<1>1. RowCoherente(voyages'[v]) /\ reverses'[v] = reverses[v] /\ voyages'[v] = voyages[v]
  BY DEF Intact, Sain
<1>2. Occ(reservations', v) = Occ(reservations, v)
      /\ \A r \in Occ(reservations, v) : reservations[r].places = reservations'[r].places
  BY DEF Intact, DuVoyage, Occ, Occupantes
<1>3. Prises(reservations', Occ(reservations', v)) = Prises(reservations, Occ(reservations, v))
  <2>1. Occ(reservations, v) \in SUBSET Resa
    BY DEF Occ
  <2> QED
    BY <1>2, <2>1, PrisesEgales
<1>4. Bilan(reservations', voyages', v)
  BY <1>1, <1>3 DEF Bilan, Sain
<1>5. ResasDe(v, {"TERMINEE"})' = ResasDe(v, {"TERMINEE"})
  BY DEF Intact, DuVoyage, ResasDe
<1>6. ASSUME NEW t \in Tx, NEW r \in Resa, tx'[t].resa = r, DuVoyage(r, v)'
      PROVE  UneFois(t, r)'
  <2>1. DuVoyage(r, v) /\ tx[t].resa = r /\ ecritures'[t] = ecritures[t]
        /\ reservations'[r].statut = reservations[r].statut
    BY <1>6 DEF Intact
  <2> QED
    BY <2>1 DEF Sain, UneFois
<1> QED
  BY <1>1, <1>4, <1>5, <1>6 DEF Sain

\* The trips that a request has read, and those of the reservations that it has read.
Touches(q) == DOMAIN q.vues \cup {q.lues[r].voyage : r \in DOMAIN q.lues}

\* A commit that classes the reservations its request has read touches those trips only.
LEMMA ClasseesAilleurs ==
    ASSUME IInvC, NEW s \in Session, NEW st \in StatutReservation,
           NEW v \in Voyage, v \notin Touches(session[s]), NEW r \in Resa, NEW x,
           x = Classees(session[s].lues, st)[r]
    PROVE  /\ x.statut # "absent" /\ x.voyage = v <=> DuVoyage(r, v)
           /\ DuVoyage(r, v) => x.statut = reservations[r].statut /\ x.places = reservations[r].places
<1>1. /\ TypeOK /\ session[s].lues \in Partielles(Resa, ResaRow)
      /\ \A y \in DOMAIN session[s].lues : reservations[y].voyage = session[s].lues[y].voyage
  BY DEF IInvC, Requetes, Fidele, Durable
<1>2. /\ x.voyage = reservations[r].voyage /\ x.places = reservations[r].places
      /\ x.statut = reservations[r].statut \/ r \in DOMAIN session[s].lues
  BY <1>1, ClasseesProps
<1>3. r \in DOMAIN session[s].lues => reservations[r].voyage # v
  BY <1>1 DEF Touches
<1> QED
  BY <1>2, <1>3 DEF DuVoyage

LEMMA IntactClasses ==
    ASSUME IInvC, NEW s \in Session, NEW st \in StatutReservation,
           NEW v \in Voyage, v \notin Touches(session[s]),
           reservations' = Classees(session[s].lues, st),
           voyages'[v] = voyages[v], UNCHANGED <<tx, reverses>>,
           \A t \in Tx : ecritures'[t] = ecritures[t]
                         \/ \E r \in DOMAIN session[s].lues : tx[t].resa = r
    PROVE  Intact(v)
<1>1. \A r \in Resa :
          /\ DuVoyage(r, v)' <=> DuVoyage(r, v)
          /\ DuVoyage(r, v) => /\ reservations'[r].statut = reservations[r].statut
                               /\ reservations'[r].places = reservations[r].places
  BY ClasseesAilleurs DEF DuVoyage
<1>2. \A r \in DOMAIN session[s].lues : ~DuVoyage(r, v)
  BY DEF IInvC, Fidele, Durable, DuVoyage, Touches
<1> QED
  BY <1>1, <1>2 DEF Intact

LEMMA RendreAilleurs ==
    ASSUME IInvC, NEW s \in Session, Rendre(s), NEW v \in Voyage, v \notin Touches(session[s])
    PROVE  Intact(v)
<1>1. PICK st \in {"REFUSEE", "ANNULEE"} : reservations' = Classees(session[s].lues, st)
  BY DEF Rendre
<1>2. voyages'[v] = voyages[v] /\ UNCHANGED <<tx, ecritures, reverses>>
  BY DEF Rendre, Rendus, Touches
<1>3. st \in StatutReservation
  BY DEF StatutReservation
<1> QED
  BY <1>1, <1>2, <1>3, IntactClasses

LEMMA CreateReservationAilleurs ==
    ASSUME IInvC, NEW s \in Session, CreateReservationValider(s),
           NEW v \in Voyage, v \notin Touches(session[s])
    PROVE  Intact(v)
<1> DEFINE q == session[s]
<1>1. /\ q.r \in Resa /\ q.v \in DOMAIN q.vues /\ reservations[q.r].statut = "absent"
  BY DEF IInvC, Formee, Fidele, CreateReservationValider
<1>2. q.v # v
  BY <1>1 DEF Touches
<1>3. voyages'[v] = voyages[v] /\ UNCHANGED <<tx, ecritures, reverses>>
  BY <1>2 DEF CreateReservationValider, IInvC, TypeOK
<1> DEFINE x == [statut |-> "EN_ATTENTE_PAIEMENT", voyage |-> q.v, places |-> q.n,
                 reste |-> Delai, tx |-> Aucun]
<1>4. reservations' = [Classees(q.lues, "ANNULEE") EXCEPT ![q.r] = x] /\ x.voyage = q.v
  BY DEF CreateReservationValider
<1> HIDE DEF x
<1>5. ASSUME NEW r \in Resa
      PROVE  /\ DuVoyage(r, v)' <=> DuVoyage(r, v)
             /\ DuVoyage(r, v) => /\ reservations'[r].statut = reservations[r].statut
                                  /\ reservations'[r].places = reservations[r].places
  <2>1. DOMAIN Classees(q.lues, "ANNULEE") = Resa
    BY DEF Classees
  <2>2. CASE r = q.r
    <3>1. reservations'[r] = x
      BY <1>1, <1>4, <2>1, <2>2
    <3> QED
      BY <1>1, <1>2, <1>4, <2>2, <3>1 DEF DuVoyage
  <2>3. CASE r # q.r
    <3>1. reservations'[r] = Classees(session[s].lues, "ANNULEE")[r]
      BY <1>4, <2>1, <2>3
    <3>2. "ANNULEE" \in StatutReservation
      BY DEF StatutReservation
    <3> QED
      BY <3>1, <3>2, ClasseesAilleurs DEF DuVoyage
  <2> QED
    BY <2>2, <2>3
<1> QED
  BY <1>3, <1>5 DEF Intact

LEMMA StatutPaiementAilleurs ==
    ASSUME IInvC, NEW s \in Session, StatutPaiementValider(s),
           NEW v \in Voyage, v \notin Touches(session[s])
    PROVE  Intact(v)
<1> DEFINE q == session[s]
<1>1. /\ q.op = "statut_paiement" /\ Formee(q) /\ Fidele(q, reservations, tx, ecritures)
  BY DEF IInvC, StatutPaiementValider
<1>2. /\ q.r \in DOMAIN q.lues /\ q.lues[q.r].tx # Aucun
  BY <1>1 DEF Formee, SurResa, Lue
<1>3. tx[q.lues[q.r].tx].resa = q.r
  BY <1>1, <1>2 DEF Fidele, Durable
<1>4. /\ reservations' = Classees(session[s].lues, "EN_ATTENTE")
      /\ voyages'[v] = voyages[v] /\ UNCHANGED <<tx, reverses>>
      /\ \A t \in Tx : t # q.lues[q.r].tx => ecritures'[t] = ecritures[t]
  BY DEF StatutPaiementValider, IInvC, TypeOK
<1>5. \A t \in Tx : ecritures'[t] = ecritures[t] \/ \E r \in DOMAIN session[s].lues : tx[t].resa = r
  BY <1>2, <1>3, <1>4
<1>6. "EN_ATTENTE" \in StatutReservation
  BY DEF StatutReservation
<1> QED
  BY <1>4, <1>5, <1>6, IntactClasses

LEMMA ClasserAilleurs ==
    ASSUME IInvC, NEW s \in Session, ClasserValider(s), NEW v \in Voyage, v \notin Touches(session[s])
    PROVE  Intact(v)
<1>1. PICK st \in {"CONFIRMEE", "ANNULEE"} : reservations' = Classees(session[s].lues, st)
  BY DEF ClasserValider
<1>2. voyages'[v] = voyages[v] /\ UNCHANGED <<tx, ecritures, reverses>>
  BY DEF ClasserValider
<1>3. st \in StatutReservation
  BY DEF StatutReservation
<1> QED
  BY <1>1, <1>2, <1>3, IntactClasses

LEMMA InitierPaiementAilleurs ==
    ASSUME IInvC, NEW s \in Session, NEW t \in Tx, InitierPaiementValider(s, t),
           NEW v \in Voyage, v \notin Touches(session[s])
    PROVE  Intact(v)
<1> DEFINE q == session[s]
<1>1. /\ q.op = "initier_paiement" /\ Formee(q) /\ Fidele(q, reservations, tx, ecritures)
  BY DEF IInvC, InitierPaiementValider
<1>2. q.r \in Resa /\ q.r \in DOMAIN q.lues
  BY <1>1 DEF Formee, SurResa
<1>3. ~DuVoyage(q.r, v)
  BY <1>1, <1>2 DEF Fidele, Durable, DuVoyage, Touches
<1>4. /\ UNCHANGED <<voyages, ecritures, reverses>>
      /\ \A u \in Tx : u # t => tx'[u] = tx[u]
      /\ tx'[t].resa = q.r
      /\ \A r \in Resa : /\ reservations'[r].statut = reservations[r].statut
                         /\ reservations'[r].voyage = reservations[r].voyage
                         /\ reservations'[r].places = reservations[r].places
  BY <1>2 DEF InitierPaiementValider, IInvC, TypeOK, ResaRow
<1> HIDE DEF q
<1> QED
  BY <1>2, <1>3, <1>4 DEF Intact, DuVoyage

LEMMA VoyageAilleurs ==
    ASSUME IInvC, NEW s \in Session, VoyageValider(s), NEW v \in Voyage, v \notin Touches(session[s])
    PROVE  Intact(v)
<1> DEFINE q == session[s]
<1>1. q.op \in SurVoyage /\ Formee(q)
  BY DEF IInvC, VoyageValider, SurVoyage
<1>2. q.v # v
  BY <1>1 DEF Formee, Touches
<1>3. voyages'[v] = voyages[v] /\ reverses'[v] = reverses[v] /\ UNCHANGED <<tx, ecritures>>
  BY <1>2 DEF VoyageValider, IInvC, TypeOK
<1>4. \/ reservations' = reservations
      \/ \E X : \E st \in StatutReservation : reservations' = AvecStatut(ResasDe(q.v, X), st)
  BY DEF VoyageValider, StatutReservation
<1>5. ASSUME NEW r \in Resa
      PROVE  /\ DuVoyage(r, v)' <=> DuVoyage(r, v)
             /\ DuVoyage(r, v) => /\ reservations'[r].statut = reservations[r].statut
                                  /\ reservations'[r].places = reservations[r].places
  <2>1. CASE reservations' = reservations
    BY <2>1 DEF DuVoyage
  <2>2. ASSUME NEW X, NEW st \in StatutReservation, reservations' = AvecStatut(ResasDe(q.v, X), st)
        PROVE  /\ reservations'[r].voyage = reservations[r].voyage
               /\ reservations'[r].places = reservations[r].places
               /\ reservations'[r].statut = reservations[r].statut \/ reservations[r].voyage = q.v
    <3>1. TypeOK /\ ResasDe(q.v, X) \in SUBSET Resa
      BY DEF IInvC, ResasDe
    <3> QED
      BY <2>2, <3>1, AvecStatutProps DEF ResasDe
  <2> QED
    BY <1>2, <1>4, <2>1, <2>2 DEF DuVoyage
<1> QED
  BY <1>3, <1>5 DEF Intact

\* The requests that read, and give up; they write nothing.
Lecture(s) ==
    \/ \E v \in Voyage, op \in SurVoyage : LireVoyage(s, v, op)
    \/ \E r \in Resa, op \in SurResa : LireReservation(s, r, op)
    \/ \E r \in Resa, v \in Voyage, n \in PlacesDemandees : CreateReservationLire(s, r, v, n)
    \/ \E v \in Voyage : LireSonVoyage(s, v)
    \/ Choisir(s) \/ Balayer(s) \/ Interroger(s) \/ Abandon(s)

\* Those that commit.
Validation(s) ==
    \/ Rendre(s) \/ CreateReservationValider(s) \/ StatutPaiementValider(s)
    \/ \E t \in Tx : InitierPaiementValider(s, t)
    \/ ClasserValider(s) \/ VoyageValider(s)

\* The steps of no request.
Dehors ==
    \/ \E v \in Voyage, n \in TotalPlaces : CreateVoyage(v, n)
    \/ Tick
    \/ \E t \in Tx : FedaPay(t)

LEMMA Etapes ==
    ASSUME [NextC]_varsC
    PROVE  \/ Dehors /\ UNCHANGED <<session, melanges>>
           \/ \E s \in Session : Lecture(s) /\ UNCHANGED <<vars, melanges>>
           \/ \E s \in Session : Validation(s) /\ Clore(s)
           \/ UNCHANGED varsC
<1>1. ASSUME NEW s \in Session, Lecture(s)
      PROVE  UNCHANGED <<vars, melanges>>
  BY <1>1 DEF Lecture, LireVoyage, LireReservation, CreateReservationLire, LireSonVoyage, Choisir,
              Balayer, Interroger, Abandon, Debuter, Avancer
<1>2. ASSUME NEW s \in Session, Validation(s)
      PROVE  Clore(s)
  BY <1>2 DEF Validation, Rendre, CreateReservationValider, StatutPaiementValider,
              InitierPaiementValider, ClasserValider, VoyageValider
<1>3. [NextC]_varsC => \/ Dehors /\ UNCHANGED <<session, melanges>>
                       \/ \E s \in Session : Lecture(s) \/ Validation(s)
                       \/ UNCHANGED varsC
  BY DEF NextC, Externe, Dehors, Lecture, Validation
<1> QED
  BY <1>1, <1>2, <1>3

\* A commit on what still holds is a step of Reservations.
LEMMA ValidationSerie ==
    ASSUME Sobre, IInvC, NEW s \in Session, Validation(s), Tient(s)
    PROVE  Next
  BY RendreSerie, CreateReservationSerie, PaiementSerie, ClasserSerie, VoyageSerie DEF Validation

\* A commit, on whatever it had read, touches no other trip.
LEMMA ValidationAilleurs ==
    ASSUME IInvC, NEW s \in Session, Validation(s), NEW v \in Voyage, v \notin Touches(session[s])
    PROVE  Intact(v)
  BY RendreAilleurs, CreateReservationAilleurs, StatutPaiementAilleurs, InitierPaiementAilleurs,
     ClasserAilleurs, VoyageAilleurs DEF Validation

\* The trips that the requests in progress hold a copy of exist.
VoyagesLus ==
    \A s \in Session : \A v \in DOMAIN session[s].vues :
        session[s].vues[v].statut # "absent" /\ voyages[v].statut # "absent"

\* No commit takes back the insertion of a trip.
LEMMA RestePresent ==
    ASSUME IInvC, VoyagesLus, [NextC]_varsC, NEW v \in Voyage, voyages[v].statut # "absent"
    PROVE  voyages'[v].statut # "absent"
<1>1. voyages[v] \in VoyageRow /\ \A w \in Voyage : voyages[w] \in VoyageRow
  BY DEF IInvC, TypeOK
<1>2. ASSUME Dehors
      PROVE  voyages'[v].statut # "absent"
  BY <1>2, <1>1 DEF Dehors, CreateVoyage, Tick, FedaPay, IInvC, TypeOK
<1>3. ASSUME UNCHANGED voyages
      PROVE  voyages'[v].statut # "absent"
  BY <1>3
<1>4. ASSUME NEW s \in Session, Rendre(s)
      PROVE  voyages'[v].statut # "absent"
  <2> DEFINE q == session[s]
             n == NbSieges({r \in DOMAIN q.lues : q.lues[r].voyage = v})
             libere == IF q.op = "reject_reservation" THEN RestitueSiReservable(q.vues[v], n)
                       ELSE RestitueSiOuvert(q.vues[v], n)
  <2>1. CASE v \notin DOMAIN q.vues
    BY <1>4, <2>1 DEF Rendre, Rendus
  <2>2. CASE v \in DOMAIN q.vues
    <3>1. q.vues \in Partielles(Voyage, VoyageRow) /\ q.lues \in Partielles(Resa, ResaRow)
      BY DEF IInvC, Requetes
    <3>2. q.vues[v] \in VoyageRow /\ DOMAIN q.lues \in SUBSET Resa
      BY <2>2, <3>1, PartiellesProps
    <3>3. n \in Nat
      BY <3>2, NbSiegesNat
    <3>4. voyages'[v] = Ecrite(voyages[v], q.vues[v], libere)
      BY <1>4, <2>2 DEF Rendre, Rendus
    <3>5. q.vues[v].statut # "absent"
      BY <2>2 DEF VoyagesLus
    <3> HIDE DEF n
    <3>6. /\ RestitueSiReservable(q.vues[v], n) \in VoyageRow /\ RestitueSiOuvert(q.vues[v], n) \in VoyageRow
          /\ RestitueSiReservable(q.vues[v], n).statut # "absent"
          /\ RestitueSiOuvert(q.vues[v], n).statut # "absent"
      BY <3>2, <3>3, <3>5, RestitueSiReservableProps, RestitueSiOuvertProps, RestitueBorne
    <3>7. libere \in VoyageRow /\ libere.statut # "absent"
      BY <3>6
    <3> HIDE DEF libere
    <3>8. voyages'[v].statut \in {voyages[v].statut, libere.statut}
      BY <1>1, <3>2, <3>4, <3>7, EcriteVoyage
    <3> QED
      BY <3>7, <3>8
  <2> QED
    BY <2>1, <2>2
<1>5. ASSUME NEW s \in Session, CreateReservationValider(s)
      PROVE  voyages'[v].statut # "absent"
  <2> DEFINE q == session[s]
             libere == Libere(q)
             st == IF libere.restantes = q.n THEN "COMPLET" ELSE libere.statut
             vendu == [libere EXCEPT !.restantes = @ - q.n, !.statut = st]
             a == Ecrite(voyages[v], q.vues[v], libere)
             b == Ecrite(a, libere, vendu)
  <2>1. /\ q.v \in DOMAIN q.vues /\ q.n \in Place
        /\ q.vues \in Partielles(Voyage, VoyageRow) /\ q.lues \in Partielles(Resa, ResaRow)
    BY <1>5, PlacesAssumption DEF IInvC, Requetes, Formee, CreateReservationValider
  <2>2. q.vues[q.v] \in VoyageRow /\ DOMAIN q.lues \in SUBSET Resa
    BY <2>1, PartiellesProps
  <2>3. q.vues[q.v].statut # "absent"
    BY <2>1 DEF VoyagesLus
  <2>4. libere \in VoyageRow /\ libere.statut # "absent"
    BY <2>2, <2>3, NbSiegesNat, RestitueSiOuvertProps, RestitueBorne DEF Libere
  <2>5. CASE v # q.v
    BY <1>5, <2>5 DEF CreateReservationValider, IInvC, TypeOK
  <2>6. CASE v = q.v
    <3>1. voyages'[v] = b
      BY <1>5, <2>6 DEF CreateReservationValider, IInvC, TypeOK
    <3> HIDE DEF libere
    <3>2. st \in StatutVoyage /\ libere.restantes - q.n \in Int
      BY <2>1, <2>4 DEF VoyageRow, StatutVoyage, Place
    <3> HIDE DEF st
    <3>3. vendu \in VoyageRow /\ vendu.statut = st /\ st # "absent"
      BY <2>4, <3>2 DEF VoyageRow, StatutVoyage
    <3> HIDE DEF vendu
    <3>4. a \in VoyageRow
      BY <1>1, <2>2, <2>4, <2>6, EcriteVoyage
    <3>5. a.statut # "absent"
      BY <1>1, <2>2, <2>4, <2>6, EcriteVoyage
    <3> HIDE DEF a
    <3>6. b.statut \in {a.statut, vendu.statut}
      BY <2>4, <3>3, <3>4, EcriteVoyage
    <3> QED
      BY <3>1, <3>3, <3>5, <3>6
  <2> QED
    BY <2>5, <2>6
<1>6. ASSUME NEW s \in Session, VoyageValider(s)
      PROVE  voyages'[v].statut # "absent"
  <2>1. PICK x \in {"EN_COURS", "ANNULE", "TERMINE"} :
            voyages' = [voyages EXCEPT ![session[s].v].statut = x]
    BY <1>6 DEF VoyageValider
  <2> QED
    BY <1>1, <2>1 DEF VoyageRow, IInvC, TypeOK
<1>7. ASSUME NEW s \in Session,
             \/ StatutPaiementValider(s) \/ ClasserValider(s)
             \/ \E t \in Tx : InitierPaiementValider(s, t)
      PROVE  UNCHANGED voyages
  BY <1>7 DEF StatutPaiementValider, ClasserValider, InitierPaiementValider
<1> QED
  BY <1>2, <1>3, <1>4, <1>5, <1>6, <1>7, Etapes DEF Validation, vars, varsC

\* What a request holds of a trip is what it had read, or the trip as the step finds it.
LEMMA VuesStep ==
    ASSUME IInvC, VoyagePresent, NEW s \in Session, Lecture(s)
    PROVE  \E q \in Requetes :
               /\ session' = [session EXCEPT ![s] = q]
               /\ \A v \in DOMAIN q.vues :
                      \/ v \in DOMAIN session[s].vues /\ q.vues[v] = session[s].vues[v]
                      \/ v \in Voyage /\ q.vues[v] = voyages[v] /\ voyages[v].statut # "absent"
<1> DEFINE Gardee(q) ==
        /\ q \in Requetes /\ session' = [session EXCEPT ![s] = q]
        /\ \A v \in DOMAIN q.vues :
               \/ v \in DOMAIN session[s].vues /\ q.vues[v] = session[s].vues[v]
               \/ v \in Voyage /\ q.vues[v] = voyages[v] /\ voyages[v].statut # "absent"
<1>1. /\ TypeOK /\ session[s] \in Requetes /\ Libre \in Requetes /\ DOMAIN Libre.vues = {}
      /\ DOMAIN Libre.lues = {} /\ Fidele(session[s], reservations, tx, ecritures)
  BY LibreRequete DEF IInvC
<1>2. ASSUME NEW p \in Requetes, NEW w \in Voyage, voyages[w].statut # "absent",
             DOMAIN p.vues = {} \/ p.vues = session[s].vues,
             session' = [session EXCEPT ![s] = AvecVoyage(p, w)]
      PROVE  Gardee(AvecVoyage(p, w))
  <2>1. /\ AvecVoyage(p, w) \in Requetes
        /\ DOMAIN AvecVoyage(p, w).vues = DOMAIN p.vues \cup {w}
        /\ \A v \in DOMAIN AvecVoyage(p, w).vues :
               AvecVoyage(p, w).vues[v] = IF v = w THEN voyages[w] ELSE p.vues[v]
    BY <1>1, AvecVoyageProps
  <2> QED
    BY <1>2, <2>1
<1>3. ASSUME NEW p \in Requetes, NEW S \in SUBSET Resa,
             DOMAIN p.vues = {} \/ p.vues = session[s].vues,
             session' = [session EXCEPT ![s] = AvecResas(p, S)]
      PROVE  Gardee(AvecResas(p, S))
  <2>1. AvecResas(p, S) \in Requetes /\ AvecResas(p, S).vues = p.vues
    BY AvecResasProps
  <2> QED
    BY <1>3, <2>1
<1>4. ASSUME NEW p \in Requetes, DOMAIN p.vues = {} \/ p.vues = session[s].vues,
             session' = [session EXCEPT ![s] = p]
      PROVE  Gardee(p)
  BY <1>4
<1>5. ASSUME NEW v \in Voyage, NEW op \in SurVoyage, LireVoyage(s, v, op)
      PROVE  \E q : Gardee(q)
  <2> DEFINE p == [Libre EXCEPT !.op = op, !.v = v]
  <2>1. p \in Requetes /\ DOMAIN p.vues = {}
    BY <1>1 DEF Requetes, Operation
  <2>2. session' = [session EXCEPT ![s] = AvecVoyage(p, v)] /\ voyages[v].statut # "absent"
    BY <1>5 DEF LireVoyage, Debuter, Ouverts, SurVoyage
  <2> HIDE DEF p, Gardee
  <2> QED
    BY <1>2, <2>1, <2>2
<1>6. ASSUME NEW r \in Resa, NEW op \in SurResa, LireReservation(s, r, op)
      PROVE  \E q : Gardee(q)
  <2> DEFINE p == [Libre EXCEPT !.op = op, !.r = r]
  <2>1. p \in Requetes /\ DOMAIN p.vues = {} /\ {r} \in SUBSET Resa
    BY <1>1 DEF Requetes, Operation
  <2>2. session' = [session EXCEPT ![s] = AvecResas(p, {r})]
    BY <1>6 DEF LireReservation, Debuter
  <2> HIDE DEF p, Gardee
  <2> QED
    BY <1>3, <2>1, <2>2
<1>7. ASSUME NEW r \in Resa, NEW v \in Voyage, NEW n \in PlacesDemandees,
             CreateReservationLire(s, r, v, n)
      PROVE  \E q : Gardee(q)
  <2> DEFINE p == [Libre EXCEPT !.op = "create_reservation", !.r = r, !.v = v, !.n = n]
  <2>1. p \in Requetes /\ DOMAIN p.vues = {}
    BY <1>1, PlacesAssumption DEF Requetes, Operation
  <2>2. session' = [session EXCEPT ![s] = AvecVoyage(p, v)] /\ voyages[v].statut # "absent"
    BY <1>7 DEF CreateReservationLire, Debuter
  <2> HIDE DEF p, Gardee
  <2> QED
    BY <1>2, <2>1, <2>2
<1>8. ASSUME NEW v \in Voyage, LireSonVoyage(s, v)
      PROVE  \E q : Gardee(q)
  <2>1. PICK r \in DOMAIN session[s].lues : session[s].lues[r].voyage = v
    BY <1>8 DEF LireSonVoyage, ARendre
  <2>2. r \in Resa
    <3>1. session[s].lues \in Partielles(Resa, ResaRow)
      BY <1>1 DEF Requetes
    <3> QED
      BY <2>1, <3>1, PartiellesProps
  <2>3. voyages[v].statut # "absent"
    BY <1>1, <2>1, <2>2 DEF Fidele, Durable, VoyagePresent
  <2>4. session' = [session EXCEPT ![s] = AvecVoyage(session[s], v)]
    BY <1>8 DEF LireSonVoyage, Avancer
  <2> HIDE DEF Gardee
  <2> QED
    BY <1>1, <1>2, <2>3, <2>4
<1>9. ASSUME Choisir(s)
      PROVE  \E q : Gardee(q)
  <2>1. PICK S \in SUBSET Resa : session' = [session EXCEPT ![s] = AvecResas(session[s], S)]
    BY <1>9, ExpireesSubset, ResasDeSubset DEF Choisir, Avancer
  <2> HIDE DEF Gardee
  <2> QED
    BY <1>1, <1>3, <2>1
<1>10. ASSUME Balayer(s)
       PROVE  \E q : Gardee(q)
  <2> DEFINE p == [Libre EXCEPT !.op = "balayage"]
             S == UNION {Expirees(v) : v \in Voyage}
  <2>1. p \in Requetes /\ DOMAIN p.vues = {} /\ S \in SUBSET Resa
    BY <1>1, ExpireesSubset DEF Requetes, Operation
  <2>2. session' = [session EXCEPT ![s] = AvecResas(p, S)]
    BY <1>10 DEF Balayer, Debuter
  <2> HIDE DEF p, S, Gardee
  <2> QED
    BY <1>3, <2>1, <2>2
<1>11. ASSUME Interroger(s)
       PROVE  \E q : Gardee(q)
  <2>1. PICK st \in Succes \cup Echec : session' = [session EXCEPT ![s] = [session[s] EXCEPT !.reponse = st]]
    BY <1>11 DEF Interroger, Avancer
  <2>2. [session[s] EXCEPT !.reponse = st] \in Requetes
        /\ [session[s] EXCEPT !.reponse = st].vues = session[s].vues
    BY <1>1 DEF Requetes, Succes, Echec, StatutTx
  <2> HIDE DEF Gardee
  <2> QED
    BY <1>4, <2>1, <2>2
<1>12. ASSUME Abandon(s)
       PROVE  \E q : Gardee(q)
  <2>1. session' = [session EXCEPT ![s] = Libre]
    BY <1>12 DEF Abandon
  <2> HIDE DEF Gardee
  <2> QED
    BY <1>1, <1>4, <2>1
<1>13. \E q : Gardee(q)
  BY <1>5, <1>6, <1>7, <1>8, <1>9, <1>10, <1>11, <1>12 DEF Lecture
<1> QED
  BY <1>13

LEMMA VoyagesLusStep ==
    ASSUME IInvC, VoyagePresent, VoyagesLus, [NextC]_varsC
    PROVE  VoyagesLus'
<1>1. \A v \in Voyage : voyages[v].statut # "absent" => voyages'[v].statut # "absent"
  BY RestePresent
<1>2. \A u \in Session : DOMAIN session[u].vues \subseteq Voyage
  <2>1. \A u \in Session : session[u].vues \in Partielles(Voyage, VoyageRow)
    BY DEF IInvC, Requetes
  <2> QED
    BY <2>1, PartiellesProps
<1>3. ASSUME NEW s \in Session, NEW q, session' = [session EXCEPT ![s] = q],
             \A v \in DOMAIN q.vues :
                 \/ v \in DOMAIN session[s].vues /\ q.vues[v] = session[s].vues[v]
                 \/ v \in Voyage /\ q.vues[v] = voyages[v] /\ voyages[v].statut # "absent"
      PROVE  VoyagesLus'
  <2>1. \A u \in Session : session'[u] = IF u = s THEN q ELSE session[u]
    BY <1>3 DEF IInvC
  <2> QED
    BY <1>1, <1>2, <1>3, <2>1 DEF VoyagesLus
<1>4. ASSUME NEW s \in Session, Lecture(s)
      PROVE  VoyagesLus'
  BY <1>3, <1>4, VuesStep
<1>5. ASSUME NEW s \in Session, Clore(s)
      PROVE  VoyagesLus'
  <2>1. session' = [session EXCEPT ![s] = Libre] /\ DOMAIN Libre.vues = {}
    BY <1>5, LibreRequete DEF Clore
  <2> QED
    BY <1>3, <2>1
<1>6. ASSUME UNCHANGED session
      PROVE  VoyagesLus'
  BY <1>1, <1>2, <1>6 DEF VoyagesLus
<1> QED
  BY <1>4, <1>5, <1>6, Etapes DEF varsC

\* Only a create_reservation inserts a reservation, on the trip that it has read.
LEMMA NouvelleStep ==
    ASSUME IInvC, [NextC]_varsC, NEW r \in Resa,
           reservations[r].statut = "absent", reservations'[r].statut # "absent"
    PROVE  \E s \in Session : session[s].v \in DOMAIN session[s].vues
                              /\ reservations'[r].voyage = session[s].v
<1>1. ASSUME NEW s \in Session, NEW st \in StatutReservation
      PROVE  Classees(session[s].lues, st)[r].statut = "absent"
  <2>1. /\ TypeOK /\ session[s].lues \in Partielles(Resa, ResaRow) /\ r \notin DOMAIN session[s].lues
    BY DEF IInvC, Requetes, Fidele, Durable
  <2> QED
    BY <2>1, ClasseesProps
<1>2. ASSUME NEW s \in Session, Rendre(s) \/ StatutPaiementValider(s) \/ ClasserValider(s)
      PROVE  FALSE
  <2>1. PICK st \in StatutReservation : reservations' = Classees(session[s].lues, st)
    BY <1>2 DEF Rendre, StatutPaiementValider, ClasserValider, StatutReservation
  <2> QED
    BY <1>1, <2>1
<1>3. ASSUME NEW s \in Session, CreateReservationValider(s)
      PROVE  \E u \in Session : session[u].v \in DOMAIN session[u].vues
                                /\ reservations'[r].voyage = session[u].v
  <2> DEFINE x == [statut |-> "EN_ATTENTE_PAIEMENT", voyage |-> session[s].v,
                   places |-> session[s].n, reste |-> Delai, tx |-> Aucun]
  <2>1. /\ reservations' = [Classees(session[s].lues, "ANNULEE") EXCEPT ![session[s].r] = x]
        /\ x.voyage = session[s].v
    BY <1>3 DEF CreateReservationValider
  <2> HIDE DEF x
  <2>2. DOMAIN Classees(session[s].lues, "ANNULEE") = Resa /\ "ANNULEE" \in StatutReservation
    BY DEF Classees, StatutReservation
  <2>3. r = session[s].r
    BY <1>1, <2>1, <2>2
  <2>4. session[s].v \in DOMAIN session[s].vues
    BY <1>3 DEF IInvC, Formee, CreateReservationValider
  <2> QED
    BY <2>1, <2>2, <2>3, <2>4
<1>4. ASSUME NEW s \in Session, NEW t \in Tx, InitierPaiementValider(s, t)
      PROVE  FALSE
  BY <1>4 DEF InitierPaiementValider, IInvC, TypeOK, ResaRow
<1>5. ASSUME NEW s \in Session, VoyageValider(s)
      PROVE  FALSE
  <2>1. \/ reservations' = reservations
        \/ \E X \in SUBSET StatutReservation : \E st \in StatutReservation :
               reservations' = AvecStatut(ResasDe(session[s].v, X), st)
    BY <1>5 DEF VoyageValider, StatutReservation
  <2>2. ASSUME NEW X \in SUBSET StatutReservation, NEW st \in StatutReservation,
               reservations' = AvecStatut(ResasDe(session[s].v, X), st)
        PROVE  FALSE
    <3>1. TypeOK /\ r \notin ResasDe(session[s].v, X) /\ ResasDe(session[s].v, X) \in SUBSET Resa
      BY DEF IInvC, ResasDe, StatutReservation
    <3> QED
      BY <2>2, <3>1, AvecStatutProps
  <2> QED
    BY <2>1, <2>2
<1>6. ASSUME Dehors
      PROVE  FALSE
  BY <1>6 DEF Dehors, CreateVoyage, Tick, FedaPay, IInvC, TypeOK, ResaRow
<1>7. ASSUME UNCHANGED reservations
      PROVE  FALSE
  BY <1>7
<1> QED
  BY <1>2, <1>3, <1>4, <1>5, <1>6, <1>7, Etapes DEF Validation, vars, varsC

LEMMA VoyagePresentStep ==
    ASSUME IInvC, VoyagePresent, VoyagesLus, [NextC]_varsC
    PROVE  VoyagePresent'
<1> SUFFICES ASSUME NEW r \in Resa, reservations'[r].statut # "absent"
             PROVE  voyages'[reservations'[r].voyage].statut # "absent"
  BY DEF VoyagePresent
<1>1. CASE reservations[r].statut # "absent"
  <2>1. reservations'[r].voyage = reservations[r].voyage /\ reservations[r].voyage \in Voyage
    BY <1>1, NextIInvC DEF Evolue, IInvC, Liens
  <2> QED
    BY <1>1, <2>1, RestePresent DEF VoyagePresent
<1>2. CASE reservations[r].statut = "absent"
  <2>1. PICK s \in Session : session[s].v \in DOMAIN session[s].vues
                             /\ reservations'[r].voyage = session[s].v
    BY <1>2, NouvelleStep
  <2>2. session[s].v \in Voyage
    <3>1. session[s].vues \in Partielles(Voyage, VoyageRow)
      BY DEF IInvC, Requetes
    <3> QED
      BY <2>1, <3>1, PartiellesProps
  <2> QED
    BY <2>1, <2>2, RestePresent DEF VoyagesLus
<1> QED
  BY <1>1, <1>2

LEMMA AttachesStep ==
    ASSUME IInvC, Attaches, [NextC]_varsC
    PROVE  Attaches'
<1>1. Evolue /\ \A t \in Tx : ecritures[t] \in NbEcritures
  BY NextIInvC DEF IInvC, TypeOK
<1>2. ASSUME \A t \in Tx :
                 /\ ecritures'[t] > 0 => ecritures[t] > 0 \/ tx[t].statut # "absente"
                 /\ tx'[t].statut # "absente" =>
                        \/ tx[t].statut # "absente"
                        \/ tx'[t].resa \in Resa /\ reservations[tx'[t].resa].statut # "absent"
      PROVE  Attaches'
  BY <1>1, <1>2 DEF Attaches, Evolue
<1>3. ASSUME UNCHANGED <<tx, ecritures>>
      PROVE  Attaches'
  BY <1>2, <1>3
<1>4. ASSUME NEW t \in Tx, FedaPay(t)
      PROVE  Attaches'
  <2>1. ecritures' = ecritures /\ \A u \in Tx : tx'[u].statut # "absente" => tx[u].statut # "absente"
    BY <1>4 DEF FedaPay, IInvC, TypeOK, TxRow
  <2> QED
    BY <1>2, <2>1
<1>5. ASSUME NEW s \in Session, NEW t \in Tx, InitierPaiementValider(s, t)
      PROVE  Attaches'
  <2>1. session[s].r \in Resa /\ reservations[session[s].r].statut # "absent"
    BY <1>5 DEF IInvC, Formee, Fidele, Durable, SurResa, InitierPaiementValider
  <2>2. /\ ecritures' = ecritures /\ tx'[t].resa = session[s].r
        /\ \A u \in Tx : u # t => tx'[u] = tx[u]
    BY <1>5 DEF InitierPaiementValider, IInvC, TypeOK
  <2> QED
    BY <1>2, <2>1, <2>2
<1>6. ASSUME NEW s \in Session, StatutPaiementValider(s)
      PROVE  Attaches'
  <2> DEFINE q == session[s]
             t == q.lues[q.r].tx
  <2>1. q.op = "statut_paiement" /\ Formee(q) /\ Fidele(q, reservations, tx, ecritures)
    BY <1>6 DEF IInvC, StatutPaiementValider
  <2>2. tx[t].statut # "absente"
    BY <2>1 DEF Formee, SurResa, Lue, Fidele, Durable
  <2>3. tx' = tx /\ \A u \in Tx : u # t => ecritures'[u] = ecritures[u]
    BY <1>6 DEF StatutPaiementValider, IInvC, TypeOK
  <2> HIDE DEF t
  <2> QED
    BY <1>2, <2>2, <2>3
<1>7. ASSUME NEW s \in Session, Rendre(s) \/ CreateReservationValider(s) \/ ClasserValider(s) \/ VoyageValider(s)
      PROVE  UNCHANGED <<tx, ecritures>>
  BY <1>7 DEF Rendre, CreateReservationValider, ClasserValider, VoyageValider
<1>8. ASSUME (\E v \in Voyage, n \in TotalPlaces : CreateVoyage(v, n)) \/ Tick
      PROVE  UNCHANGED <<tx, ecritures>>
  BY <1>8 DEF CreateVoyage, Tick
<1> QED
  BY <1>3, <1>4, <1>5, <1>6, <1>7, <1>8, Etapes DEF Dehors, Validation, vars, varsC

\* The inductive invariant: what requests that overlap never break, and, on every trip but
\* those of melanges, what they would not break one at a time.
IInvMelange ==
    IInvC /\ VoyagePresent /\ Attaches /\ VoyagesLus /\ \A v \in Voyage \ melanges : Sain(v)

\* Every step either is one of Reservations, or leaves alone the trips it does not mark.
LEMMA MelangeStep ==
    ASSUME Sobre, IInvC, [NextC]_varsC
    PROVE  /\ melanges \subseteq melanges'
           /\ [Next]_vars \/ \A v \in Voyage \ melanges' : Intact(v)
<1>1. ASSUME NEW s \in Session, Validation(s), Clore(s)
      PROVE  /\ melanges \subseteq melanges'
             /\ [Next]_vars \/ \A v \in Voyage \ melanges' : Intact(v)
  <2>1. CASE Tient(s)
    BY <1>1, <2>1, ValidationSerie DEF Clore
  <2>2. CASE ~Tient(s)
    <3>1. melanges' = melanges \cup Touches(session[s])
      BY <1>1, <2>2 DEF Clore, Touches
    <3> QED
      BY <1>1, <3>1, ValidationAilleurs
  <2> QED
    BY <2>1, <2>2
<1>2. ASSUME Dehors, UNCHANGED melanges
      PROVE  melanges \subseteq melanges' /\ [Next]_vars
  BY <1>2 DEF Dehors, Next
<1>3. ASSUME UNCHANGED <<vars, melanges>>
      PROVE  melanges \subseteq melanges' /\ [Next]_vars
  BY <1>3
<1>4. UNCHANGED varsC => UNCHANGED <<vars, melanges>>
  BY DEF varsC, vars
<1> QED
  BY <1>1, <1>2, <1>3, <1>4, Etapes

LEMMA NextMelange == Sobre /\ IInvMelange /\ [NextC]_varsC => IInvMelange'
<1> SUFFICES ASSUME Sobre, IInvMelange, [NextC]_varsC
             PROVE  IInvMelange'
  OBVIOUS
<1>1. IInvC /\ VoyagePresent /\ Attaches /\ VoyagesLus
  BY DEF IInvMelange
<1>2. IInvC' /\ VoyagePresent' /\ Attaches' /\ VoyagesLus'
  BY <1>1, NextIInvC, VoyagePresentStep, AttachesStep, VoyagesLusStep
<1>3. ASSUME NEW v \in Voyage \ melanges'
      PROVE  Sain(v)'
  <2>1. melanges \subseteq melanges' /\ ([Next]_vars \/ Intact(v))
    BY <1>1, MelangeStep
  <2>2. Sain(v)
    BY <2>1 DEF IInvMelange
  <2>3. TypeOK /\ Liens
    BY <1>1 DEF IInvC
  <2>4. v \in Voyage
    OBVIOUS
  <2>5. [Next]_vars => Sain(v)'
    BY ONLY <1>1, <2>2, <2>3, <2>4, Sobre, SainStep
  <2>6. Intact(v) => Sain(v)'
    BY ONLY <2>2, <2>4, IntactSain
  <2> QED
    BY <2>1, <2>5, <2>6
<1> QED
  BY <1>2, <1>3 DEF IInvMelange

LEMMA InitMelange == InitC => IInvMelange
<1> SUFFICES ASSUME InitC
             PROVE  IInvMelange
  OBVIOUS
<1>1. Init /\ session = [s \in Session |-> Libre]
  BY DEF InitC
<1>2. \A v \in Voyage : Sain(v)
  <2>1. \A v \in Voyage : ResasDe(v, {"TERMINEE"}) = {} /\ reverses[v] = {}
    BY <1>1 DEF Init, ResasDe
  <2> QED
    BY <1>1, <2>1 DEF Init, Sain, RowCoherente, Bilan, DuVoyage
<1>3. VoyagePresent /\ Attaches
  BY <1>1 DEF Init, VoyagePresent, Attaches
<1>4. VoyagesLus
  BY <1>1, LibreRequete DEF VoyagesLus
<1> QED
  BY <1>2, <1>3, <1>4, InitIInvC DEF IInvMelange

\* IInvMelange is inductive under sober polls.
THEOREM InductifMelange == Sobre => (SpecC => []IInvMelange)
<1> SUFFICES ASSUME Sobre
             PROVE  SpecC => []IInvMelange
  OBVIOUS
<1>1. InitC => IInvMelange
  BY InitMelange
<1>2. IInvMelange /\ [NextC]_varsC => IInvMelange'
  BY NextMelange
<1> QED
  BY <1>1, <1>2, PTL DEF SpecC

\* However requests overlap, a trip on which none has committed on a stale reading keeps
\* what requests that run one at a time keep (SansMelange), whatever raced on the others.
THEOREM Isolement == Sobre => (SpecC => []SansMelange)
<1> SUFFICES ASSUME Sobre
             PROVE  SpecC => []SansMelange
  OBVIOUS
<1>1. IInvMelange => SansMelange
  <2> SUFFICES ASSUME IInvMelange, NEW v \in Voyage \ melanges
               PROVE  /\ voyages[v].statut = "PUBLIE"  => voyages[v].restantes > 0
                      /\ voyages[v].statut = "COMPLET" => voyages[v].restantes = 0
                      /\ voyages[v].statut # "absent" =>
                             NbSieges(ResasDe(v, Occupantes)) + voyages[v].restantes <= voyages[v].total
                      /\ reverses[v] = ResasDe(v, {"TERMINEE"})
                      /\ \A t \in Tx : \A r \in ResasDe(v, StatutReservation) :
                             tx[t].resa = r => ecritures[t] <= 1
    BY DEF SansMelange
  <2>1. Sain(v)
    BY DEF IInvMelange
  <2>2. voyages[v].statut # "absent" =>
            NbSieges(ResasDe(v, Occupantes)) + voyages[v].restantes <= voyages[v].total
    BY <2>1 DEF Sain, Bilan, NbSieges, Sieges, ResasDe, Prises, Occ
  <2>3. \A t \in Tx : \A r \in ResasDe(v, StatutReservation) : tx[t].resa = r => ecritures[t] <= 1
    BY <2>1 DEF Sain, UneFois, DuVoyage, ResasDe, StatutReservation
  <2> QED
    BY <2>1, <2>2, <2>3 DEF Sain, RowCoherente
<1> QED
  BY <1>1, InductifMelange, PTL

\* On such a trip reservations live as documented, and nothing finished or cancelled comes back.
THEOREM IsolementVie == Sobre => (SpecC => VieSansMelange)
<1> SUFFICES ASSUME Sobre
             PROVE  SpecC => VieSansMelange
  OBVIOUS
<1> DEFINE Tenu(v) ==
        /\ voyages[v].statut \in {"TERMINE", "ANNULE"} =>
               voyages'[v] = voyages[v] /\ reverses'[v] = reverses[v]
        /\ \A r \in ResasDe(v, StatutReservation) :
               reservations'[r].statut # reservations[r].statut =>
                   <<reservations[r].statut, reservations'[r].statut>> \in Vie
<1>1. IInvMelange /\ [NextC]_varsC => \A v \in Voyage \ melanges' : Tenu(v)
  <2> SUFFICES ASSUME IInvMelange, [NextC]_varsC, NEW v \in Voyage \ melanges'
               PROVE  Tenu(v)
    OBVIOUS
  <2>1. TypeOK /\ ([Next]_vars \/ Intact(v))
    BY MelangeStep DEF IInvMelange, IInvC
  <2>2. CASE [Next]_vars
    <3>1. \A a \in StatutReservation : \A b : Suit(a, b) => <<a, b>> \in Vie
      BY DEF Suit, Vie, StatutReservation
    <3>2. \A r \in Resa : reservations'[r].statut # reservations[r].statut =>
              Suit(reservations[r].statut, reservations'[r].statut)
      BY <2>1, <2>2, VieStep DEF Poursuit
    <3> QED
      BY <2>1, <2>2, <3>1, <3>2, ClosFigeStep DEF ResasDe
  <2>3. CASE Intact(v)
    BY <2>3 DEF Intact, DuVoyage, ResasDe, StatutReservation
  <2> QED
    BY <2>1, <2>2, <2>3
<1> QED
  BY <1>1, InductifMelange, PTL DEF SpecC, VieSansMelange
=============================================================================
