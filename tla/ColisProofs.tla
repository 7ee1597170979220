----------------------------- MODULE ColisProofs -----------------------------
(***************************************************************************)
(* Proofs about Colis, for any trips, parcels and collections.             *)
(*                                                                         *)
(* What a parcel's statut says of its payment or of its trip goes through  *)
(* the links between the rows, so the inductive invariant IInv adds to the *)
(* properties that the link of a parcel names a collection made for it,    *)
(* that booked collections were paid, and that a parcel has a trip.        *)
(***************************************************************************)
EXTENDS Colis, TLAPS

Liens ==
    /\ \A k \in Paquet : colis[k].tx # Aucun =>
           tx[colis[k].tx].colis = k /\ tx[colis[k].tx].statut # "absente"
    /\ \A k \in Paquet : colis[k].statut # "absent" =>
           colis[k].voyage # Aucun /\ trajets[colis[k].voyage] # "absent"
    /\ \A t \in ecritures : Encaissee(t)

IInv == TypeOK /\ Liens /\ PayeOuValide /\ TransitApresDepart

-----------------------------------------------------------------------------
(* Type correctness *)

LEMMA PasserType ==
    ASSUME TypeOK, NEW k \in Paquet, NEW s \in StatutColis, Passer(k, s)
    PROVE  colis' \in [Paquet -> ColisRow]
  BY DEF TypeOK, ColisRow, Passer

LEMMA InitType == Init => TypeOK
  BY DelaiAssumption DEF Init, TypeOK, ColisRow, StatutTrajet, StatutTx

LEMMA NextType == TypeOK /\ [Next]_vars => TypeOK'
<1> SUFFICES ASSUME TypeOK, [Next]_vars
             PROVE  TypeOK'
  OBVIOUS
<1>1. ASSUME NEW v \in Voyage, CreateVoyage(v) \/ StartVoyage(v) \/ EndVoyage(v) \/ CancelVoyage(v)
      PROVE  TypeOK'
  BY <1>1 DEF TypeOK, CreateVoyage, StartVoyage, EndVoyage, CancelVoyage, Avancer, StatutTrajet
<1>2. ASSUME NEW k \in Paquet, NEW v \in Voyage, CreateColis(k, v)
      PROVE  TypeOK'
  BY <1>2, DelaiAssumption DEF TypeOK, CreateColis, ColisRow, StatutColis
<1>3. ASSUME NEW k \in Paquet, NEW t \in Tx, InitierPaiement(k, t) \/ InitierPaiementSansLien(k, t)
      PROVE  TypeOK'
  <2>1. tx' \in [Tx -> [statut : StatutTx, colis : Paquet \cup {Aucun}]]
    BY <1>3 DEF TypeOK, InitierPaiement, InitierPaiementSansLien, StatutTx
  <2>2. colis' \in [Paquet -> ColisRow]
    <3>1. CASE InitierPaiement(k, t)
      <4>1. colis' = [colis EXCEPT ![k] = [colis[k] EXCEPT !.tx = t]]
        BY <3>1 DEF InitierPaiement, TypeOK
      <4>2. [colis[k] EXCEPT !.tx = t] \in ColisRow
        BY DEF TypeOK, ColisRow
      <4> QED
        BY <4>1, <4>2 DEF TypeOK
    <3>2. CASE InitierPaiementSansLien(k, t)
      BY <3>2 DEF InitierPaiementSansLien, TypeOK
    <3> QED
      BY <1>3, <3>1, <3>2
  <2> QED
    BY <1>3, <2>1, <2>2 DEF TypeOK, InitierPaiement, InitierPaiementSansLien
<1>4. ASSUME NEW k \in Paquet, StatutPaiement(k)
      PROVE  TypeOK'
  <2>1. colis' \in [Paquet -> ColisRow]
    BY <1>4, PasserType DEF StatutPaiement, PollExpire, PollConfirme, PollEchec, StatutColis
  <2>2. ecritures' \subseteq Tx
    BY <1>4 DEF StatutPaiement, PollExpire, PollConfirme, PollEchec, Interrogeable, TypeOK, ColisRow
  <2> QED
    BY <1>4, <2>1, <2>2 DEF StatutPaiement, PollExpire, PollConfirme, PollEchec, TypeOK
<1>5. ASSUME NEW k \in Paquet,
             AnnulerColis(k) \/ Confirmer(k) \/ MettreEnTransit(k) \/ Livrer(k) \/ RejectColis(k)
      PROVE  TypeOK'
  <2>1. colis' \in [Paquet -> ColisRow]
    BY <1>5, PasserType DEF AnnulerColis, Confirmer, MettreEnTransit, Livrer, RejectColis, Changer, StatutColis
  <2> QED
    BY <1>5, <2>1 DEF AnnulerColis, Confirmer, MettreEnTransit, Livrer, RejectColis, Changer, TypeOK
<1>6. ASSUME NEW k \in Paquet, ValidateColis(k)
      PROVE  TypeOK'
  BY <1>6, PasserType DEF ValidateColis, TypeOK, StatutColis
<1>7. ASSUME AnnulerExpires
      PROVE  TypeOK'
  BY <1>7 DEF AnnulerExpires, TypeOK, ColisRow, StatutColis
<1>8. ASSUME Tick
      PROVE  TypeOK'
  <2>1. \A n \in -1..Delai : (IF n >= 0 THEN n - 1 ELSE n) \in -1..Delai
    BY DelaiAssumption
  <2>2. ASSUME NEW k \in Paquet
        PROVE  colis'[k] \in ColisRow
    <3>1. colis'[k] = [colis[k] EXCEPT !.reste = IF colis[k].reste >= 0 THEN colis[k].reste - 1
                                                 ELSE colis[k].reste]
      BY <1>8 DEF Tick
    <3>2. colis[k] \in ColisRow
      BY DEF TypeOK
    <3> QED
      BY <2>1, <3>1, <3>2 DEF ColisRow
  <2>3. colis' \in [Paquet -> ColisRow]
    BY <1>8, <2>2 DEF Tick
  <2> QED
    BY <1>8, <2>3 DEF Tick, TypeOK
<1>9. ASSUME NEW t \in Tx, FedaPay(t)
      PROVE  TypeOK'
  BY <1>9 DEF FedaPay, TypeOK, StatutTx
<1>10. CASE UNCHANGED vars
  BY <1>10 DEF vars, TypeOK
<1> QED
  BY <1>1, <1>2, <1>3, <1>4, <1>5, <1>6, <1>7, <1>8, <1>9, <1>10, ForcesAssumption DEF Next

\* Every reachable state keeps the shape of the tables (models/colis.py).
THEOREM TypeCorrect == Spec => []TypeOK
  BY InitType, NextType, PTL DEF Spec

-----------------------------------------------------------------------------
(* What a step leaves alone *)

\* The requests that only write the statut of one parcel.
Statuer(k, s) == Passer(k, s) /\ UNCHANGED <<trajets, tx>>

LEMMA StatuerProps ==
    ASSUME TypeOK, NEW k \in Paquet, NEW s, Statuer(k, s)
    PROVE  /\ \A q \in Paquet : colis'[q].voyage = colis[q].voyage /\ colis'[q].tx = colis[q].tx
           /\ \A q \in Paquet : colis'[q].statut = IF q = k THEN s ELSE colis[q].statut
  BY DEF Statuer, Passer, TypeOK, ColisRow

\* The sweep and the clock keep the links; the sweep only cancels.
LEMMA BalayageProps ==
    ASSUME TypeOK, AnnulerExpires \/ Tick
    PROVE  \A q \in Paquet :
               /\ colis'[q].voyage = colis[q].voyage /\ colis'[q].tx = colis[q].tx
               /\ \/ colis'[q].statut = colis[q].statut
                  \/ colis'[q].statut = "ANNULE" /\ colis[q].statut = "EN_ATTENTE_PAIEMENT"
<1> SUFFICES ASSUME NEW q \in Paquet
             PROVE  /\ colis'[q].voyage = colis[q].voyage /\ colis'[q].tx = colis[q].tx
                    /\ \/ colis'[q].statut = colis[q].statut
                       \/ colis'[q].statut = "ANNULE" /\ colis[q].statut = "EN_ATTENTE_PAIEMENT"
  OBVIOUS
<1>1. colis[q] \in ColisRow
  BY DEF TypeOK
<1>2. CASE AnnulerExpires
  <2>1. \/ colis'[q] = colis[q]
        \/ colis'[q] = [colis[q] EXCEPT !.statut = "ANNULE"] /\ colis[q].statut = "EN_ATTENTE_PAIEMENT"
    BY <1>2 DEF AnnulerExpires
  <2> QED
    BY <1>1, <2>1 DEF ColisRow
<1>3. CASE Tick
  <2>1. colis'[q] = [colis[q] EXCEPT !.reste = IF colis[q].reste >= 0 THEN colis[q].reste - 1
                                               ELSE colis[q].reste]
    BY <1>3 DEF Tick
  <2> QED
    BY <1>1, <2>1 DEF ColisRow
<1> QED
  BY <1>2, <1>3

\* FedaPay never takes back the fact that a collection was paid.
LEMMA FedaPayProps ==
    ASSUME TypeOK, NEW t \in Tx, FedaPay(t)
    PROVE  /\ \A u \in Tx : u # t => tx'[u] = tx[u]
           /\ tx'[t].colis = tx[t].colis
           /\ tx[t].statut # "absente" /\ tx'[t].statut # "absente"
           /\ Encaissee(t) => Encaissee(t)'
<1>1. PICK s \in {"approved", "declined", "refunded"} :
          /\ tx' = [tx EXCEPT ![t].statut = s]
          /\ tx[t].statut \in {"approved", "refunded"} => s \in {"approved", "refunded"}
          /\ tx[t].statut # "absente"
  BY DEF FedaPay
<1>2. tx' = [tx EXCEPT ![t] = [tx[t] EXCEPT !.statut = s]]
  BY <1>1 DEF TypeOK
<1> QED
  BY <1>1, <1>2 DEF TypeOK, Encaissee

\* A new collection belongs to the parcel it is made for, and no other one changes.
LEMMA InitierProps ==
    ASSUME TypeOK, NEW k \in Paquet, NEW t \in Tx,
           InitierPaiement(k, t) \/ InitierPaiementSansLien(k, t)
    PROVE  /\ tx[t].statut = "absente" /\ tx'[t].colis = k
           /\ tx'[t].statut # "absente" /\ ~ Encaissee(t) /\ ~ Encaissee(t)'
           /\ \A u \in Tx : u # t => tx'[u] = tx[u]
           /\ \A q \in Paquet : /\ colis'[q].voyage = colis[q].voyage
                                /\ colis'[q].statut = colis[q].statut
                                /\ colis'[q].tx = colis[q].tx \/ (q = k /\ colis'[q].tx = t)
<1>1. tx[t].statut = "absente" /\ \E s \in {"pending", "sans_lien"} :
          tx' = [tx EXCEPT ![t] = [statut |-> s, colis |-> k]]
  BY DEF InitierPaiement, InitierPaiementSansLien
<1>2. \/ colis' = colis
      \/ colis' = [colis EXCEPT ![k] = [colis[k] EXCEPT !.tx = t]]
  BY DEF InitierPaiement, InitierPaiementSansLien, TypeOK
<1>3. \A q \in Paquet : /\ colis'[q].voyage = colis[q].voyage
                        /\ colis'[q].statut = colis[q].statut
                        /\ colis'[q].tx = colis[q].tx \/ (q = k /\ colis'[q].tx = t)
  <2>1. \A q \in Paquet : colis[q] \in ColisRow
    BY DEF TypeOK
  <2>2. CASE colis' = colis
    BY <2>2
  <2>3. CASE colis' = [colis EXCEPT ![k] = [colis[k] EXCEPT !.tx = t]]
    <3>1. \A q \in Paquet : q # k => colis'[q] = colis[q]
      BY <2>3 DEF TypeOK
    <3>2. colis'[k] = [colis[k] EXCEPT !.tx = t]
      BY <2>3 DEF TypeOK
    <3>3. /\ colis'[k].voyage = colis[k].voyage
          /\ colis'[k].statut = colis[k].statut
          /\ colis'[k].tx = t
      BY <2>1, <3>2 DEF ColisRow
    <3> QED
      BY <3>1, <3>3
  <2> QED
    BY <1>2, <2>2, <2>3
<1> QED
  BY <1>1, <1>3 DEF TypeOK, Encaissee

\* Every other step is one of these; a booked collection is the one that a poll found paid.
LEMMA Etape ==
    ASSUME TypeOK, [Next]_vars
    PROVE  \/ (\E v \in Voyage : CreateVoyage(v) \/ StartVoyage(v) \/ EndVoyage(v) \/ CancelVoyage(v))
           \/ (\E k \in Paquet, v \in Voyage : CreateColis(k, v))
           \/ (\E k \in Paquet, t \in Tx : InitierPaiement(k, t) \/ InitierPaiementSansLien(k, t))
           \/ (\E k \in Paquet :
                  \/ Statuer(k, "ANNULE") /\ colis[k].statut # "absent" /\ UNCHANGED <<ecritures, audit>>
                  \/ PollConfirme(k)
                  \/ Confirmer(k) \/ MettreEnTransit(k) \/ Livrer(k) \/ ValidateColis(k))
           \/ AnnulerExpires \/ Tick
           \/ (\E t \in Tx : FedaPay(t))
           \/ UNCHANGED vars
<1>1. ASSUME NEW k \in Paquet, PollExpire(k) \/ PollEchec(k) \/ AnnulerColis(k) \/ RejectColis(k)
      PROVE  Statuer(k, "ANNULE") /\ colis[k].statut # "absent" /\ UNCHANGED <<ecritures, audit>>
  BY <1>1 DEF PollExpire, PollEchec, AnnulerColis, RejectColis, Changer, Interrogeable, Statuer, StatutColis
<1> QED
  BY <1>1, ForcesAssumption DEF Next, StatutPaiement

-----------------------------------------------------------------------------
(* The inductive invariant *)

LEMMA NextLiens == TypeOK /\ Liens /\ [Next]_vars => Liens'
<1> SUFFICES ASSUME TypeOK, Liens, [Next]_vars
             PROVE  Liens'
  OBVIOUS
<1> USE DEF Liens
<1>1. ASSUME NEW v \in Voyage, CreateVoyage(v) \/ StartVoyage(v) \/ EndVoyage(v) \/ CancelVoyage(v)
      PROVE  Liens'
  <2>1. \A w \in Voyage : trajets[w] # "absent" => trajets'[w] # "absent"
    BY <1>1 DEF CreateVoyage, StartVoyage, EndVoyage, CancelVoyage, Avancer, TypeOK
  <2>2. UNCHANGED <<colis, tx, ecritures>>
    BY <1>1 DEF CreateVoyage, StartVoyage, EndVoyage, CancelVoyage, Avancer
  <2> QED
    BY <2>1, <2>2 DEF Encaissee, TypeOK, ColisRow
<1>2. ASSUME NEW k \in Paquet, NEW v \in Voyage, CreateColis(k, v)
      PROVE  Liens'
  <2>1. \A q \in Paquet : IF q = k THEN colis'[q].voyage = v /\ colis'[q].tx = Aucun
                                   ELSE colis'[q] = colis[q]
    BY <1>2 DEF CreateColis, TypeOK
  <2> QED
    BY <1>2, <2>1, AucunAssumption DEF CreateColis, Encaissee
<1>3. ASSUME NEW k \in Paquet, NEW t \in Tx, InitierPaiement(k, t) \/ InitierPaiementSansLien(k, t)
      PROVE  Liens'
  <2>1. UNCHANGED <<trajets, ecritures>>
    BY <1>3 DEF InitierPaiement, InitierPaiementSansLien
  <2>2. \A u \in ecritures : u # t /\ Encaissee(u)'
    BY <1>3, InitierProps DEF Encaissee, TypeOK
  <2> QED
    BY <1>3, <2>1, <2>2, InitierProps DEF TypeOK, ColisRow
<1>4. ASSUME NEW k \in Paquet, NEW s, Statuer(k, s), colis[k].statut # "absent",
             \A t \in ecritures' : Encaissee(t)
      PROVE  Liens'
  <2>1. UNCHANGED <<trajets, tx>>
    BY <1>4 DEF Statuer
  <2>2. \A t \in ecritures' : Encaissee(t)'
    BY <1>4, <2>1 DEF Encaissee
  <2> QED
    BY <1>4, <2>1, <2>2, StatuerProps
<1>5. ASSUME NEW k \in Paquet, PollConfirme(k)
      PROVE  Liens'
  <2>1. Statuer(k, "EN_ATTENTE") /\ colis[k].statut # "absent"
    BY <1>5 DEF PollConfirme, Interrogeable, Statuer
  <2>2. \A t \in ecritures' : Encaissee(t)
    BY <1>5 DEF PollConfirme, Encaissee, Succes
  <2> QED
    BY <1>4, <2>1, <2>2
<1>6. ASSUME NEW k \in Paquet, Confirmer(k) \/ MettreEnTransit(k) \/ Livrer(k) \/ ValidateColis(k)
      PROVE  Liens'
  <2>1. (\E s \in StatutColis : Statuer(k, s)) /\ colis[k].statut # "absent" /\ ecritures' = ecritures
    BY <1>6 DEF Confirmer, MettreEnTransit, Livrer, ValidateColis, Changer, Statuer, StatutColis
  <2> QED
    BY <1>4, <2>1
<1>7. ASSUME AnnulerExpires \/ Tick
      PROVE  Liens'
  <2>1. UNCHANGED <<trajets, tx, ecritures>>
    BY <1>7 DEF AnnulerExpires, Tick
  <2> QED
    BY <1>7, <2>1, BalayageProps DEF Encaissee
<1>8. ASSUME NEW t \in Tx, FedaPay(t)
      PROVE  Liens'
  <2>1. UNCHANGED <<trajets, colis, ecritures>>
    BY <1>8 DEF FedaPay
  <2>2. \A u \in Tx : /\ tx'[u].colis = tx[u].colis
                      /\ tx[u].statut # "absente" => tx'[u].statut # "absente"
                      /\ Encaissee(u) => Encaissee(u)'
    BY <1>8, FedaPayProps DEF Encaissee
  <2> QED
    BY <2>1, <2>2 DEF TypeOK, ColisRow
<1>9. CASE UNCHANGED vars
  BY <1>9 DEF vars, Encaissee
<1> QED
  BY <1>1, <1>2, <1>3, <1>4, <1>5, <1>6, <1>7, <1>8, <1>9, Etape

LEMMA NextTransit == TypeOK /\ Liens /\ TransitApresDepart /\ [Next]_vars => TransitApresDepart'
<1> SUFFICES ASSUME TypeOK, Liens, TransitApresDepart, [Next]_vars
             PROVE  TransitApresDepart'
  OBVIOUS
<1> USE DEF TransitApresDepart
<1>1. ASSUME NEW v \in Voyage, CreateVoyage(v) \/ StartVoyage(v) \/ EndVoyage(v) \/ CancelVoyage(v)
      PROVE  TransitApresDepart'
  <2>1. \A w \in Voyage : trajets[w] \notin {"absent", "PUBLIE"} => trajets'[w] \notin {"absent", "PUBLIE"}
    BY <1>1 DEF CreateVoyage, StartVoyage, EndVoyage, CancelVoyage, Avancer, TypeOK
  <2>2. UNCHANGED colis
    BY <1>1 DEF CreateVoyage, StartVoyage, EndVoyage, CancelVoyage, Avancer
  <2> QED
    BY <2>1, <2>2 DEF TypeOK, ColisRow
<1>2. ASSUME NEW k \in Paquet, NEW v \in Voyage, CreateColis(k, v)
      PROVE  TransitApresDepart'
  BY <1>2 DEF CreateColis, TypeOK
<1>3. ASSUME NEW k \in Paquet, NEW t \in Tx, InitierPaiement(k, t) \/ InitierPaiementSansLien(k, t)
      PROVE  TransitApresDepart'
  <2>1. UNCHANGED trajets
    BY <1>3 DEF InitierPaiement, InitierPaiementSansLien
  <2> QED
    BY <1>3, <2>1, InitierProps
<1>4. ASSUME NEW k \in Paquet, NEW s, Statuer(k, s),
             s \in {"EN_TRANSIT", "LIVRE"} =>
                 colis[k].voyage # Aucun /\ trajets[colis[k].voyage] \notin {"absent", "PUBLIE"}
      PROVE  TransitApresDepart'
  BY <1>4, StatuerProps DEF Statuer
<1>5. ASSUME NEW k \in Paquet, PollConfirme(k) \/ Confirmer(k) \/ ValidateColis(k)
      PROVE  TransitApresDepart'
  <2>1. Statuer(k, "EN_ATTENTE") \/ Statuer(k, "CONFIRME")
    BY <1>5 DEF PollConfirme, Confirmer, ValidateColis, Changer, Statuer
  <2> QED
    BY <1>4, <2>1
<1>6. ASSUME NEW k \in Paquet, MettreEnTransit(k)
      PROVE  TransitApresDepart'
  <2>1. Statuer(k, "EN_TRANSIT") /\ trajets[colis[k].voyage] = "EN_COURS" /\ colis[k].statut # "absent"
    BY <1>6 DEF MettreEnTransit, Changer, Statuer
  <2>2. colis[k].voyage # Aucun
    BY <2>1 DEF Liens
  <2> QED
    BY <1>4, <2>1, <2>2
<1>7. ASSUME NEW k \in Paquet, Livrer(k)
      PROVE  TransitApresDepart'
  <2>1. Statuer(k, "LIVRE") /\ colis[k].statut = "EN_TRANSIT"
    BY <1>7 DEF Livrer, Changer, Statuer
  <2> QED
    BY <1>4, <2>1
<1>8. ASSUME AnnulerExpires \/ Tick
      PROVE  TransitApresDepart'
  <2>1. UNCHANGED trajets
    BY <1>8 DEF AnnulerExpires, Tick
  <2> QED
    BY <1>8, <2>1, BalayageProps
<1>9. ASSUME NEW t \in Tx, FedaPay(t)
      PROVE  TransitApresDepart'
  BY <1>9 DEF FedaPay
<1>10. CASE UNCHANGED vars
  BY <1>10 DEF vars
<1> QED
  BY <1>1, <1>2, <1>3, <1>4, <1>5, <1>6, <1>7, <1>8, <1>9, <1>10, Etape

\* What PayeOuValide says of one parcel.
PayeK(k) == \E t \in ecritures : tx[t].colis = k /\ Encaissee(t)
EnRegle(k) ==
    /\ colis[k].statut = "EN_ATTENTE" => PayeK(k)
    /\ colis[k].statut \in {"CONFIRME", "EN_TRANSIT", "LIVRE"} => PayeK(k) \/ k \in audit

LEMMA PayeParColis == PayeOuValide <=> \A k \in Paquet : EnRegle(k)
  BY DEF PayeOuValide, EnRegle, PayeK

\* A booked payment stays: no step takes back a row of ecritures, of audit, or the
\* parcel of a collection that was paid.
LEMMA PayeStable ==
    ASSUME TypeOK, Liens, [Next]_vars, NEW q \in Paquet
    PROVE  (PayeK(q) => PayeK(q)') /\ (q \in audit => q \in audit')
<1>1. ASSUME UNCHANGED tx, ecritures \subseteq ecritures', audit \subseteq audit'
      PROVE  (PayeK(q) => PayeK(q)') /\ (q \in audit => q \in audit')
  BY <1>1 DEF PayeK, Encaissee
<1>2. ASSUME NEW t \in Tx, UNCHANGED <<ecritures, audit>>,
             \A u \in Tx : u # t => tx'[u] = tx[u],
             Encaissee(t) => tx'[t].colis = tx[t].colis /\ Encaissee(t)'
      PROVE  (PayeK(q) => PayeK(q)') /\ (q \in audit => q \in audit')
  BY <1>2 DEF PayeK, Encaissee, TypeOK
<1>3. ASSUME NEW k \in Paquet, NEW t \in Tx, InitierPaiement(k, t) \/ InitierPaiementSansLien(k, t)
      PROVE  (PayeK(q) => PayeK(q)') /\ (q \in audit => q \in audit')
  <2>1. UNCHANGED <<ecritures, audit>>
    BY <1>3 DEF InitierPaiement, InitierPaiementSansLien
  <2> QED
    BY <1>2, <1>3, <2>1, InitierProps
<1>4. ASSUME NEW t \in Tx, FedaPay(t)
      PROVE  (PayeK(q) => PayeK(q)') /\ (q \in audit => q \in audit')
  <2>1. UNCHANGED <<ecritures, audit>>
    BY <1>4 DEF FedaPay
  <2> QED
    BY <1>2, <1>4, <2>1, FedaPayProps
<1>5. ASSUME NEW k \in Paquet, PollConfirme(k) \/ ValidateColis(k)
      PROVE  (PayeK(q) => PayeK(q)') /\ (q \in audit => q \in audit')
  BY <1>1, <1>5 DEF PollConfirme, ValidateColis
<1>6. ASSUME NEW k \in Paquet, Confirmer(k) \/ MettreEnTransit(k) \/ Livrer(k)
      PROVE  (PayeK(q) => PayeK(q)') /\ (q \in audit => q \in audit')
  BY <1>1, <1>6 DEF Confirmer, MettreEnTransit, Livrer, Changer
<1>7. ASSUME NEW v \in Voyage, CreateVoyage(v) \/ StartVoyage(v) \/ EndVoyage(v) \/ CancelVoyage(v)
      PROVE  (PayeK(q) => PayeK(q)') /\ (q \in audit => q \in audit')
  BY <1>1, <1>7 DEF CreateVoyage, StartVoyage, EndVoyage, CancelVoyage, Avancer
<1>8. ASSUME NEW k \in Paquet, NEW v \in Voyage, CreateColis(k, v)
      PROVE  (PayeK(q) => PayeK(q)') /\ (q \in audit => q \in audit')
  BY <1>1, <1>8 DEF CreateColis
<1>9. ASSUME AnnulerExpires \/ Tick
      PROVE  (PayeK(q) => PayeK(q)') /\ (q \in audit => q \in audit')
  BY <1>1, <1>9 DEF AnnulerExpires, Tick
<1>10. ASSUME NEW k \in Paquet, Statuer(k, "ANNULE"), UNCHANGED <<ecritures, audit>>
       PROVE  (PayeK(q) => PayeK(q)') /\ (q \in audit => q \in audit')
  BY <1>1, <1>10 DEF Statuer
<1>11. CASE UNCHANGED vars
  BY <1>1, <1>11 DEF vars
<1> QED
  BY <1>3, <1>4, <1>5, <1>6, <1>7, <1>8, <1>9, <1>10, <1>11, Etape

LEMMA NextPaye == TypeOK /\ Liens /\ PayeOuValide /\ [Next]_vars => PayeOuValide'
<1> SUFFICES ASSUME TypeOK, Liens, [Next]_vars, \A k \in Paquet : EnRegle(k), NEW q \in Paquet
             PROVE  EnRegle(q)'
  BY PayeParColis DEF PayeOuValide, EnRegle, PayeK
<1>0. (PayeK(q) => PayeK(q)') /\ (q \in audit => q \in audit')
  BY PayeStable
<1>1. ASSUME colis'[q].statut = colis[q].statut
      PROVE  EnRegle(q)'
  BY <1>0, <1>1 DEF EnRegle
<1>2. ASSUME colis'[q].statut \in {"ANNULE", "EN_ATTENTE_PAIEMENT"}
      PROVE  EnRegle(q)'
  BY <1>2 DEF EnRegle
<1>3. ASSUME NEW k \in Paquet, NEW s, Statuer(k, s),
             s = "ANNULE" \/ (s = "EN_ATTENTE" /\ PayeK(k)')
             \/ (s \in {"CONFIRME", "EN_TRANSIT", "LIVRE"} /\ (PayeK(k)' \/ k \in audit'))
      PROVE  EnRegle(q)'
  <2>1. CASE q = k
    BY <1>3, <2>1, StatuerProps DEF EnRegle
  <2>2. CASE q # k
    BY <1>1, <1>3, <2>2, StatuerProps
  <2> QED
    BY <2>1, <2>2
<1>4. ASSUME NEW k \in Paquet, PollConfirme(k)
      PROVE  EnRegle(q)'
  <2>1. Statuer(k, "EN_ATTENTE") /\ colis[k].tx \in ecritures' /\ UNCHANGED tx
    BY <1>4 DEF PollConfirme, Statuer
  <2>2. tx[colis[k].tx].colis = k /\ Encaissee(colis[k].tx)
    BY <1>4 DEF PollConfirme, Interrogeable, Liens, Encaissee, Succes
  <2>3. PayeK(k)'
    BY <2>1, <2>2 DEF PayeK, Encaissee
  <2> QED
    BY <1>3, <2>1, <2>3
<1>5. ASSUME NEW k \in Paquet, Confirmer(k) \/ MettreEnTransit(k) \/ Livrer(k)
      PROVE  EnRegle(q)'
  <2>1. \E s \in {"CONFIRME", "EN_TRANSIT", "LIVRE"} : Statuer(k, s)
    BY <1>5 DEF Confirmer, MettreEnTransit, Livrer, Changer, Statuer
  <2>2. PayeK(k) \/ k \in audit
    BY <1>5 DEF Confirmer, MettreEnTransit, Livrer, Changer, EnRegle
  <2>3. PayeK(k)' \/ k \in audit'
    BY <2>2, PayeStable
  <2> QED
    BY <1>3, <2>1, <2>3
<1>6. ASSUME NEW k \in Paquet, ValidateColis(k)
      PROVE  EnRegle(q)'
  <2>1. Statuer(k, "CONFIRME") /\ k \in audit'
    BY <1>6 DEF ValidateColis, Statuer
  <2> QED
    BY <1>3, <2>1
<1>7. ASSUME NEW v \in Voyage, CreateVoyage(v) \/ StartVoyage(v) \/ EndVoyage(v) \/ CancelVoyage(v)
      PROVE  EnRegle(q)'
  BY <1>1, <1>7 DEF CreateVoyage, StartVoyage, EndVoyage, CancelVoyage, Avancer
<1>8. ASSUME NEW k \in Paquet, NEW v \in Voyage, CreateColis(k, v)
      PROVE  EnRegle(q)'
  <2>1. colis'[q].statut = colis[q].statut \/ colis'[q].statut = "EN_ATTENTE_PAIEMENT"
    BY <1>8 DEF CreateColis, TypeOK
  <2> QED
    BY <1>1, <1>2, <2>1
<1>9. ASSUME NEW k \in Paquet, NEW t \in Tx, InitierPaiement(k, t) \/ InitierPaiementSansLien(k, t)
      PROVE  EnRegle(q)'
  BY <1>1, <1>9, InitierProps
<1>10. ASSUME AnnulerExpires \/ Tick
       PROVE  EnRegle(q)'
  BY <1>1, <1>2, <1>10, BalayageProps
<1>11. ASSUME NEW t \in Tx, FedaPay(t)
       PROVE  EnRegle(q)'
  BY <1>1, <1>11 DEF FedaPay
<1>12. CASE UNCHANGED vars
  BY <1>1, <1>12 DEF vars
<1> QED
  BY <1>3, <1>4, <1>5, <1>6, <1>7, <1>8, <1>9, <1>10, <1>11, <1>12, Etape

\* IInv holds of the empty tables and no committed request breaks it.
THEOREM Inductif == (Init => IInv) /\ (IInv /\ [Next]_vars => IInv')
<1>1. Init => Liens /\ PayeOuValide /\ TransitApresDepart
  BY DEF Init, Liens, PayeOuValide, TransitApresDepart
<1> QED
  BY <1>1, InitType, NextType, NextLiens, NextPaye, NextTransit DEF IInv

THEOREM Coherence == Spec => []IInv
  BY Inductif, PTL DEF Spec

-----------------------------------------------------------------------------
(* The theorems *)

\* A parcel in the driver's hands was paid for and booked, or validated by the back
\* office, however polls, sweeps, cancellations and FedaPay interleave.
THEOREM PaiementAvantRemise == Spec => []PayeOuValide
<1>1. IInv => PayeOuValide
  BY DEF IInv
<1> QED
  BY <1>1, Coherence, PTL

\* A parcel only travels on a trip that has started.
THEOREM DepartAvantTransit == Spec => []TransitApresDepart
<1>1. IInv => TransitApresDepart
  BY DEF IInv
<1> QED
  BY <1>1, Coherence, PTL

-----------------------------------------------------------------------------
(* The parcels that the back office leaves alone implement FraisPayes *)

Vis  == {k \in Libres : colis[k].statut \in {"EN_ATTENTE", "CONFIRME", "EN_TRANSIT"}}
Conf == {k \in Libres : colis[k].statut \in {"CONFIRME", "EN_TRANSIT"}}
Pay  == {k \in Libres : Paye(k)}

\* A step of the abstract specification, or none.
Abstrait == Frais!Next \/ (Vis' = Vis /\ Conf' = Conf /\ Pay' = Pay)

LEMMA FraisMeme ==
    ASSUME UNCHANGED tx, \A q \in Libres : colis'[q].statut = colis[q].statut
    PROVE  Abstrait
  BY DEF Abstrait, Vis, Conf, Pay, Paye, Encaissee

LEMMA FraisFermer ==
    ASSUME NEW S \in SUBSET Libres, UNCHANGED tx,
           \A q \in Libres : \/ q \in S /\ colis'[q].statut \in {"LIVRE", "ANNULE"}
                             \/ q \notin S /\ colis'[q].statut = colis[q].statut
    PROVE  Abstrait
<1>1. Vis' = Vis \ S /\ Conf' = Conf \ S /\ Pay' = Pay
  BY DEF Vis, Conf, Pay, Paye, Encaissee
<1>2. Frais!Fermer(S)
  BY <1>1 DEF Frais!Fermer, Vis, Conf, Pay
<1>3. S \in SUBSET Libres
  OBVIOUS
<1> QED
  BY <1>2, <1>3 DEF Abstrait, Frais!Next

\* A request on one parcel, unless it is one of the back office's.
LEMMA FraisStatuer ==
    ASSUME TypeOK, NEW k \in Paquet, NEW s, Statuer(k, s),
           \/ s \in {"ANNULE", "LIVRE"}
           \/ s = "EN_ATTENTE" /\ Paye(k)
           \/ s \in {"CONFIRME", "EN_TRANSIT"} /\ (k \in Vis \/ k \notin Libres)
    PROVE  Abstrait
<1>1. \A q \in Libres : colis'[q].statut = IF q = k THEN s ELSE colis[q].statut
  BY StatuerProps DEF Libres
<1>2. UNCHANGED tx
  BY DEF Statuer
<1>3. CASE k \notin Libres
  BY <1>1, <1>2, <1>3, FraisMeme
<1>4. CASE k \in Libres /\ s \in {"ANNULE", "LIVRE"}
  <2>1. {k} \in SUBSET Libres
    BY <1>4
  <2> QED
    BY <1>1, <1>2, <1>4, <2>1, FraisFermer
<1>5. Pay' = Pay
  BY <1>2 DEF Pay, Paye, Encaissee
<1>6. CASE k \in Libres /\ s = "EN_ATTENTE"
  <2>1. Vis' = Vis \cup {k} /\ Conf' = Conf \ {k}
    BY <1>1, <1>6 DEF Vis, Conf
  <2>2. k \in Pay
    BY <1>6 DEF Pay
  <2>3. Frais!Montrer(k)
    BY <1>5, <2>1, <2>2 DEF Frais!Montrer, Vis, Conf, Pay
  <2> QED
    BY <1>6, <2>3 DEF Frais!Next, Abstrait
<1>7. CASE k \in Vis /\ s \in {"CONFIRME", "EN_TRANSIT"}
  <2>1. Vis' = Vis /\ Conf' = Conf \cup {k} /\ k \in Libres
    BY <1>1, <1>7 DEF Vis, Conf
  <2>2. Frais!Confirmer(k)
    BY <1>5, <1>7, <2>1 DEF Frais!Confirmer, Vis, Conf, Pay
  <2> QED
    BY <2>1, <2>2 DEF Frais!Next, Abstrait
<1> QED
  BY <1>3, <1>4, <1>6, <1>7

LEMMA FraisInit == Init => Frais!Init
<1>1. Init => Vis = {} /\ Conf = {} /\ Pay = {}
  BY DEF Init, Vis, Conf, Pay, Paye, Encaissee, Libres
<1> QED
  BY <1>1 DEF Frais!Init, Vis, Conf, Pay

LEMMA FraisStep == IInv /\ [Next]_vars => [Frais!Next]_(Frais!vars)
<1> SUFFICES ASSUME IInv, [Next]_vars
             PROVE  Abstrait
  BY DEF Abstrait, Frais!vars, Vis, Conf, Pay
<1>0. TypeOK /\ Liens
  BY DEF IInv
<1>1. ASSUME NEW v \in Voyage, CreateVoyage(v) \/ StartVoyage(v) \/ EndVoyage(v) \/ CancelVoyage(v)
      PROVE  Abstrait
  BY <1>1, FraisMeme DEF CreateVoyage, StartVoyage, EndVoyage, CancelVoyage, Avancer
<1>2. ASSUME NEW k \in Paquet, NEW v \in Voyage, CreateColis(k, v)
      PROVE  Abstrait
  <2>1. \A q \in Libres : \/ colis'[q].statut = colis[q].statut
                          \/ colis'[q].statut = "EN_ATTENTE_PAIEMENT" /\ colis[q].statut = "absent"
    BY <1>0, <1>2 DEF CreateColis, TypeOK, Libres
  <2> QED
    BY <1>2, <2>1 DEF CreateColis, Abstrait, Vis, Conf, Pay, Paye, Encaissee
<1>3. ASSUME NEW k \in Paquet, NEW t \in Tx, InitierPaiement(k, t) \/ InitierPaiementSansLien(k, t)
      PROVE  Abstrait
  <2>1. \A q \in Libres : colis'[q].statut = colis[q].statut
    BY <1>0, <1>3, InitierProps DEF Libres
  <2>2. \A u \in Tx : (Encaissee(u)' <=> Encaissee(u)) /\ (Encaissee(u) => tx'[u].colis = tx[u].colis)
    BY <1>0, <1>3, InitierProps DEF Encaissee
  <2> QED
    BY <2>1, <2>2 DEF Abstrait, Vis, Conf, Pay, Paye
<1>4. ASSUME NEW k \in Paquet, Statuer(k, "ANNULE")
      PROVE  Abstrait
  BY <1>0, <1>4, FraisStatuer
<1>5. ASSUME NEW k \in Paquet, PollConfirme(k)
      PROVE  Abstrait
  <2>1. Statuer(k, "EN_ATTENTE")
    BY <1>5 DEF PollConfirme, Statuer
  <2>2. Paye(k)
    BY <1>0, <1>5 DEF PollConfirme, Interrogeable, Liens, TypeOK, ColisRow, Encaissee, Succes, Paye
  <2> QED
    BY <1>0, <2>1, <2>2, FraisStatuer
<1>6. ASSUME NEW k \in Paquet, Confirmer(k) \/ MettreEnTransit(k)
      PROVE  Abstrait
  <2>1. \E s \in {"CONFIRME", "EN_TRANSIT"} : Statuer(k, s)
    BY <1>6 DEF Confirmer, MettreEnTransit, Changer, Statuer
  <2>2. k \in Vis \/ k \notin Libres
    BY <1>6 DEF Confirmer, MettreEnTransit, Changer, Vis
  <2> QED
    BY <1>0, <2>1, <2>2, FraisStatuer
<1>7. ASSUME NEW k \in Paquet, Livrer(k)
      PROVE  Abstrait
  <2>1. Statuer(k, "LIVRE")
    BY <1>7 DEF Livrer, Changer, Statuer
  <2> QED
    BY <1>0, <2>1, FraisStatuer
<1>8. ASSUME NEW k \in Forces, ValidateColis(k)
      PROVE  Abstrait
  <2>1. Statuer(k, "CONFIRME") /\ k \notin Libres /\ k \in Paquet
    BY <1>8, ForcesAssumption DEF ValidateColis, Statuer, Libres
  <2> QED
    BY <1>0, <2>1, FraisStatuer
<1>9. ASSUME AnnulerExpires \/ Tick
      PROVE  Abstrait
  <2>1. UNCHANGED tx
    BY <1>9 DEF AnnulerExpires, Tick
  <2>2. PICK S \in SUBSET Libres : S = {q \in Libres : colis'[q].statut # colis[q].statut}
    OBVIOUS
  <2>3. \A q \in Libres : \/ q \in S /\ colis'[q].statut \in {"LIVRE", "ANNULE"}
                          \/ q \notin S /\ colis'[q].statut = colis[q].statut
    BY <1>0, <1>9, <2>2, BalayageProps DEF Libres
  <2> QED
    BY <2>1, <2>3, FraisFermer
<1>10. ASSUME NEW t \in Tx, FedaPay(t)
       PROVE  Abstrait
  <2>1. UNCHANGED colis
    BY <1>10 DEF FedaPay
  <2>2. Vis' = Vis /\ Conf' = Conf
    BY <2>1 DEF Vis, Conf
  <2>3. /\ \A u \in Tx : u # t => tx'[u] = tx[u]
        /\ tx'[t].colis = tx[t].colis
        /\ Encaissee(t) => Encaissee(t)'
    BY <1>0, <1>10, FedaPayProps
  <2>4. \A u \in Tx : u # t => (Encaissee(u)' <=> Encaissee(u)) /\ tx'[u].colis = tx[u].colis
    BY <2>3 DEF Encaissee
  <2>5. CASE Encaissee(t)' /\ tx[t].colis \in Libres
    <3>1. \A q \in Libres : Paye(q)' <=> Paye(q) \/ q = tx[t].colis
      BY <2>3, <2>4, <2>5 DEF Paye
    <3>2. Pay' = Pay \cup {tx[t].colis}
      BY <2>5, <3>1 DEF Pay
    <3>3. Frais!Encaisser(tx[t].colis)
      BY <2>2, <3>2 DEF Frais!Encaisser, Vis, Conf, Pay
    <3> QED
      BY <2>5, <3>3 DEF Frais!Next, Abstrait
  <2>6. CASE ~ (Encaissee(t)' /\ tx[t].colis \in Libres)
    <3>1. \A q \in Libres : Paye(q)' <=> Paye(q)
      BY <2>3, <2>4, <2>6 DEF Paye
    <3> QED
      BY <2>2, <3>1 DEF Abstrait, Pay
  <2> QED
    BY <2>5, <2>6
<1>11. CASE UNCHANGED vars
  BY <1>11, FraisMeme DEF vars
<1>12. ASSUME NEW k \in Paquet, PollExpire(k) \/ PollEchec(k) \/ AnnulerColis(k) \/ RejectColis(k)
       PROVE  Statuer(k, "ANNULE")
  BY <1>12 DEF PollExpire, PollEchec, AnnulerColis, RejectColis, Changer, Statuer
<1> QED
  BY <1>1, <1>2, <1>3, <1>4, <1>5, <1>6, <1>7, <1>8, <1>9, <1>10, <1>11, <1>12, ForcesAssumption
     DEF Next, StatutPaiement

\* The parcels that the back office leaves alone implement FraisPayes: paid before
\* being shown, shown before being confirmed.
THEOREM PromesseTenue == Spec => TientLaPromesse
<1> QED
  BY FraisInit, FraisStep, Coherence, PTL DEF Spec, TientLaPromesse, Frais!Spec
-----------------------------------------------------------------------------
(* The way out of LIVRE and ANNULE *)

\* What RetourParPaiement says of one parcel.
Retour(k) ==
    colis[k].statut \in {"LIVRE", "ANNULE"} /\ colis'[k].statut # colis[k].statut =>
        /\ colis[k].tx # Aucun
        /\ \/ /\ colis'[k].statut = "EN_ATTENTE"
              /\ tx[colis[k].tx].statut = "approved" /\ colis[k].reste >= 0
           \/ /\ colis'[k].statut = "ANNULE"
              /\ tx[colis[k].tx].statut \in Echec \/ colis[k].reste < 0

LEMMA RetourStep ==
    ASSUME TypeOK, [Next]_vars, NEW q \in Paquet \ Forces
    PROVE  Retour(q)
<1>1. ASSUME colis'[q].statut = colis[q].statut \/ colis[q].statut \notin {"LIVRE", "ANNULE"}
      PROVE  Retour(q)
  BY <1>1 DEF Retour
<1>2. ASSUME NEW k \in Paquet, NEW s, Statuer(k, s), k = q => Retour(q)
      PROVE  Retour(q)
  BY <1>1, <1>2, StatuerProps
<1>3. ASSUME NEW v \in Voyage, CreateVoyage(v) \/ StartVoyage(v) \/ EndVoyage(v) \/ CancelVoyage(v)
      PROVE  Retour(q)
  BY <1>1, <1>3 DEF CreateVoyage, StartVoyage, EndVoyage, CancelVoyage, Avancer
<1>4. ASSUME NEW k \in Paquet, NEW v \in Voyage, CreateColis(k, v)
      PROVE  Retour(q)
  BY <1>1, <1>4 DEF CreateColis, TypeOK
<1>5. ASSUME NEW k \in Paquet, NEW t \in Tx, InitierPaiement(k, t) \/ InitierPaiementSansLien(k, t)
      PROVE  Retour(q)
  BY <1>1, <1>5, InitierProps
<1>6. ASSUME NEW k \in Paquet, StatutPaiement(k)
      PROVE  Retour(q)
  <2>1. CASE PollExpire(k) \/ PollEchec(k)
    <3>1. Statuer(k, "ANNULE") /\ Interrogeable(k)
          /\ (tx[colis[k].tx].statut \in Echec \/ colis[k].reste < 0)
      BY <2>1 DEF PollExpire, PollEchec, Statuer
    <3>2. ASSUME k = q
          PROVE  Retour(q)
      BY <3>1, <3>2, StatuerProps DEF Retour, Interrogeable
    <3> QED
      BY <1>2, <3>1, <3>2
  <2>2. CASE PollConfirme(k)
    <3>1. Statuer(k, "EN_ATTENTE") /\ Interrogeable(k)
          /\ tx[colis[k].tx].statut = "approved" /\ colis[k].reste >= 0
      BY <2>2 DEF PollConfirme, Statuer, Succes
    <3>2. ASSUME k = q
          PROVE  Retour(q)
      BY <3>1, <3>2, StatuerProps DEF Retour, Interrogeable
    <3> QED
      BY <1>2, <3>1, <3>2
  <2> QED
    BY <1>6, <2>1, <2>2 DEF StatutPaiement
<1>7. ASSUME NEW k \in Paquet, AnnulerColis(k) \/ Confirmer(k) \/ MettreEnTransit(k) \/ Livrer(k)
      PROVE  Retour(q)
  <2>1. (\E s : Statuer(k, s)) /\ colis[k].statut \notin {"LIVRE", "ANNULE"}
    BY <1>7 DEF AnnulerColis, Confirmer, MettreEnTransit, Livrer, Changer, Statuer
  <2> QED
    BY <1>1, <1>2, <2>1
<1>8. ASSUME NEW k \in Forces, ValidateColis(k) \/ RejectColis(k)
      PROVE  Retour(q)
  <2>1. (\E s : Statuer(k, s)) /\ k \in Paquet /\ k # q
    BY <1>8, ForcesAssumption DEF ValidateColis, RejectColis, Changer, Statuer
  <2> QED
    BY <1>2, <2>1
<1>9. ASSUME AnnulerExpires \/ Tick
      PROVE  Retour(q)
  BY <1>1, <1>9, BalayageProps
<1>10. ASSUME NEW t \in Tx, FedaPay(t)
       PROVE  Retour(q)
  BY <1>1, <1>10 DEF FedaPay
<1>11. CASE UNCHANGED vars
  BY <1>1, <1>11 DEF vars
<1> QED
  BY <1>3, <1>4, <1>5, <1>6, <1>7, <1>8, <1>9, <1>10, <1>11 DEF Next

\* Unless the back office intervenes, a parcel leaves LIVRE or ANNULE only by a poll of its
\* payment, whatever other request, sweep or notification comes in between.
THEOREM SortieParPoll == Spec => RetourParPaiement
<1>1. TypeOK /\ [Next]_vars =>
          [\A k \in Paquet \ Forces :
               LET nommee == tx[colis[k].tx].statut
               IN  colis[k].statut \in {"LIVRE", "ANNULE"} /\ colis'[k].statut # colis[k].statut =>
                       /\ colis[k].tx # Aucun
                       /\ \/ colis'[k].statut = "EN_ATTENTE" /\ nommee = "approved" /\ colis[k].reste >= 0
                          \/ colis'[k].statut = "ANNULE" /\ (nommee \in Echec \/ colis[k].reste < 0)]_vars
  BY RetourStep DEF Retour
<1> QED
  BY <1>1, TypeCorrect, PTL DEF Spec, RetourParPaiement
=============================================================================
