---------------------------- MODULE ComptesProofs ---------------------------
(***************************************************************************)
(* Theorems about Comptes: the tables agree with each other however the    *)
(* requests race, and what a suspended account can become.                 *)
(***************************************************************************)
EXTENDS Comptes, TLAPS

Inscription == {"register", "register_chauffeur", "seed"}
Reponse     == {"traiter_lu", "traiter", "rejeter"}
Conversion  == {"convertir_lu", "convertir"}
Usage       == {"SUSPENDU", "ACTIF", "SUPPRIME"}

\* The rows that the requests in progress name exist.
Cibles ==
    \A s \in Session :
        LET q == session[s] IN
        /\ q.op \in Inscription => q.cible \in Tel
        /\ q.op \in Reponse => q.cible \in Demande /\ demandes[q.cible].tel # Aucun
        /\ q.op \in Conversion \cup Usage => q.cible \in Compte /\ Existe(q.cible)

\* A row of users that does not exist has the defaults, and a request to become a
\* driver that gave an account has a telephone.
Vierges ==
    /\ \A a \in Compte : ~Existe(a) => comptes[a].statut = "ACTIF" /\ comptes[a].role = "CLIENT"
    /\ \A d \in Demande : demandes[d].compte # Aucun => demandes[d].tel # Aucun

\* A rejection in progress of a request that gave an account overlapped its treatment.
RejetsNotes ==
    \A s \in Session :
        session[s].op = "rejeter" /\ session[s].cible \in Demande
            /\ demandes[session[s].cible].compte # Aucun
            => session[s].cible \in chevauche

IInv ==
    /\ TypeOK /\ Cibles /\ Vierges /\ RejetsNotes
    /\ UnCompteParTelephone /\ ProfilSsiChauffeur /\ DemandeAvecCompte

LEMMA LibreRequete == Libre \in Requete
  BY DEF Libre, Requete, Operation

LEMMA InitOK == Init => IInv
<1> SUFFICES ASSUME Init
             PROVE  IInv
  OBVIOUS
<1> USE AucunAssumption DEF Init
<1>1. TypeOK
  BY LibreRequete DEF TypeOK, CompteRow, DemandeRow, Role, Statut
<1>2. Cibles
  BY DEF Cibles, Libre, Inscription, Reponse, Conversion, Usage
<1>3. Vierges /\ RejetsNotes
  BY DEF Vierges, RejetsNotes, Existe, Libre
<1>4. UnCompteParTelephone /\ ProfilSsiChauffeur /\ DemandeAvecCompte
  BY DEF UnCompteParTelephone, ProfilSsiChauffeur, DemandeAvecCompte, Existe
<1> QED
  BY <1>1, <1>2, <1>3, <1>4 DEF IInv

-----------------------------------------------------------------------------
(* The effect of the steps *)

\* A step that leaves the tables alone, and leaves request s either free or as r,
\* where r is a request that IInv allows.
Permise(r) ==
    /\ r \in Requete
    /\ r.op \in Inscription => r.cible \in Tel
    /\ r.op \in Reponse => r.cible \in Demande /\ demandes[r.cible].tel # Aucun
    /\ r.op \in Conversion \cup Usage => r.cible \in Compte /\ Existe(r.cible)
    /\ r.op = "rejeter" /\ demandes[r.cible].compte # Aucun => r.cible \in chevauche

LEMMA LibrePermise == Permise(Libre)
  BY LibreRequete DEF Permise, Libre, Inscription, Reponse, Conversion, Usage

LEMMA Garde ==
    ASSUME IInv, NEW s \in Session, NEW r, Permise(r),
           session' = [session EXCEPT ![s] = r],
           UNCHANGED <<comptes, profils, demandes, chevauche>>
    PROVE  IInv'
<1> USE DEF IInv, TypeOK
<1>1. \A u \in Session : session'[u] = IF u = s THEN r ELSE session[u]
  OBVIOUS
<1>2. TypeOK'
  BY DEF Permise
<1>3. Cibles'
  BY <1>1 DEF Cibles, Permise, Existe
<1>4. RejetsNotes'
  BY <1>1 DEF RejetsNotes, Permise
<1>5. Vierges' /\ UnCompteParTelephone' /\ ProfilSsiChauffeur' /\ DemandeAvecCompte'
  BY DEF Vierges, UnCompteParTelephone, ProfilSsiChauffeur, DemandeAvecCompte, Existe
<1> QED
  BY <1>2, <1>3, <1>4, <1>5

\* The reads, and a request that is given up.
Lecture(s) ==
    \/ \E t \in Tel : Register(s, t) \/ RegisterChauffeur(s, t) \/ SeedAdmins(s, t)
    \/ \E d \in Demande : TraiterDemande(s, d) \/ RejeterDemande(s, d)
    \/ TraiterVerifier(s) \/ ConvertirVerifier(s)
    \/ \E a \in Compte : ConvertToChauffeur(s, a) \/ SuspendUser(s, a) \/ ActivateUser(s, a)
                         \/ DeleteMe(s, a)
    \/ Abandon(s)

LEMMA LectureOK ==
    ASSUME IInv, NEW s \in Session, Lecture(s)
    PROVE  IInv'
<1> USE DEF IInv, TypeOK
<1>1. CASE \E t \in Tel : Register(s, t) \/ RegisterChauffeur(s, t) \/ SeedAdmins(s, t)
  <2>1. PICK t \in Tel, op \in Inscription : Debuter(s, op, t, "rien")
    BY <1>1 DEF Register, RegisterChauffeur, SeedAdmins, Inscrire, Inscription
  <2>2. Permise([op |-> op, cible |-> t, lu |-> "rien"])
    BY DEF Permise, Requete, Operation, Inscription, Reponse, Conversion, Usage
  <2> QED
    BY <2>1, <2>2, Garde DEF Debuter
<1>2. CASE \E d \in Demande : TraiterDemande(s, d) \/ RejeterDemande(s, d)
  <2>1. PICK d \in Demande, op \in {"traiter_lu", "rejeter"} : Repondre(s, d, op)
    BY <1>2 DEF TraiterDemande, RejeterDemande
  <2>2. demandes[d].compte # Aucun => d \in chevauche
    BY <2>1 DEF Repondre, DemandeAvecCompte
  <2>3. demandes[d].statut \in {"NOUVELLE", "TRAITEE", "REJETEE"}
    BY DEF DemandeRow
  <2>4. Permise([op |-> op, cible |-> d, lu |-> demandes[d].statut])
    BY <2>1, <2>2, <2>3 DEF Permise, Repondre, Requete, Operation, Inscription, Reponse, Conversion, Usage
  <2> QED
    BY <2>1, <2>4, Garde DEF Repondre, Debuter
<1>3. CASE TraiterVerifier(s) \/ ConvertirVerifier(s)
  <2>1. PICK op \in {"traiter", "convertir"} :
            /\ session' = [session EXCEPT ![s] = [session[s] EXCEPT !.op = op]]
            /\ op = "traiter" => session[s].op = "traiter_lu"
            /\ op = "convertir" => session[s].op = "convertir_lu"
            /\ UNCHANGED <<comptes, profils, demandes, chevauche>>
    BY <1>3 DEF TraiterVerifier, ConvertirVerifier
  <2>2. Permise([session[s] EXCEPT !.op = op])
    BY <2>1 DEF Permise, Cibles, Requete, Operation, Inscription, Reponse, Conversion, Usage
  <2> QED
    BY <2>1, <2>2, Garde
<1>4. CASE \E a \in Compte : ConvertToChauffeur(s, a) \/ SuspendUser(s, a)
                             \/ ActivateUser(s, a) \/ DeleteMe(s, a)
  <2>1. PICK a \in Compte, op \in {"convertir_lu", "SUSPENDU", "ACTIF", "SUPPRIME"} :
            Existe(a) /\ Debuter(s, op, a, comptes[a].statut)
    BY <1>4 DEF ConvertToChauffeur, SuspendUser, ActivateUser, DeleteMe
  <2>2. comptes[a].statut \in Statut
    BY DEF CompteRow
  <2>3. Permise([op |-> op, cible |-> a, lu |-> comptes[a].statut])
    BY <2>1, <2>2 DEF Permise, Requete, Operation, Inscription, Reponse, Conversion, Usage
  <2> QED
    BY <2>1, <2>3, Garde DEF Debuter
<1>5. CASE Abandon(s)
  BY <1>5, LibrePermise, Garde DEF Abandon, Finir
<1> QED
  BY <1>1, <1>2, <1>3, <1>4, <1>5 DEF Lecture

\* A new row of users, with its profile if it is a driver's.
Cree(s, t, role, a) ==
    /\ comptes' \in [Compte -> CompteRow]
    /\ profils' \in [Compte -> Nat]
    /\ session' \in [Session -> Requete]
    /\ ~Existe(a) /\ comptes'[a].tel = t /\ comptes'[a].role = role
    /\ \A b \in Compte : b # a => comptes'[b] = comptes[b] /\ profils'[b] = profils[b]
    /\ \A b \in Compte : Existe(b) => Existe(b)'
    /\ \A u \in Session : session'[u] = IF u = s THEN Libre ELSE session[u]
    /\ UnCompteParTelephone' /\ ProfilSsiChauffeur'
    /\ \A b \in Compte : ~Existe(b)' => comptes'[b].statut = "ACTIF" /\ comptes'[b].role = "CLIENT"

LEMMA InsererEffet ==
    ASSUME IInv, NEW s \in Session, NEW t \in Tel, NEW role \in Role, NEW statut \in Statut,
           NEW a \in Compte, Inserer(s, t, role, statut, a)
    PROVE  Cree(s, t, role, a)
<1> USE AucunAssumption DEF IInv, TypeOK
<1>1. [tel |-> t, role |-> role, statut |-> statut] \in CompteRow
  BY DEF CompteRow
<1>2. /\ comptes' \in [Compte -> CompteRow]
      /\ ~Existe(a) /\ comptes'[a] = [tel |-> t, role |-> role, statut |-> statut]
      /\ \A b \in Compte : b # a => comptes'[b] = comptes[b]
  BY <1>1 DEF Inserer
<1>3. /\ profils' \in [Compte -> Nat]
      /\ \A b \in Compte : b # a => profils'[b] = profils[b]
      /\ profils'[a] = IF role = "CHAUFFEUR" THEN profils[a] + 1 ELSE profils[a]
  BY DEF Inserer
<1>4. session' \in [Session -> Requete] /\ \A u \in Session : session'[u] = IF u = s THEN Libre ELSE session[u]
  BY LibreRequete DEF Inserer, Finir
<1>5. \A b \in Compte : Existe(b)' <=> Existe(b) \/ b = a
  BY <1>2 DEF Existe
<1>6. UnCompteParTelephone'
  BY <1>2, <1>5 DEF UnCompteParTelephone, Inserer, TelLibre, Existe
<1>7. profils[a] = 0
  BY <1>2 DEF ProfilSsiChauffeur
<1>8. ProfilSsiChauffeur'
  <2> SUFFICES ASSUME NEW b \in Compte
               PROVE  profils'[b] = IF Existe(b)' /\ comptes'[b].role = "CHAUFFEUR" THEN 1 ELSE 0
    BY DEF ProfilSsiChauffeur
  <2>1. CASE b = a
    BY <2>1, <1>2, <1>3, <1>5, <1>7
  <2>2. CASE b # a
    BY <2>2, <1>2, <1>3, <1>5 DEF ProfilSsiChauffeur
  <2> QED
    BY <2>1, <2>2
<1>9. \A b \in Compte : ~Existe(b)' => comptes'[b].statut = "ACTIF" /\ comptes'[b].role = "CLIENT"
  BY <1>2, <1>5 DEF Vierges
<1> QED
  BY <1>2, <1>3, <1>4, <1>5, <1>6, <1>8, <1>9 DEF Cree

LEMMA InscrireValiderOK ==
    ASSUME IInv, NEW s \in Session, NEW a \in Compte, InscrireValider(s, a)
    PROVE  IInv'
<1> USE DEF IInv
<1>0. session[s].cible \in Tel /\ RoleDe(session[s].op) \in Role
  BY DEF InscrireValider, Cibles, Inscription, RoleDe, Role
<1>1. PICK t \in Tel, role \in Role :
          Inserer(s, t, role, "ACTIF", a) /\ UNCHANGED <<demandes, chevauche>>
  BY <1>0 DEF InscrireValider
<1>2. "ACTIF" \in Statut
  BY DEF Statut
<1> HIDE DEF IInv
<1>3. Cree(s, t, role, a)
  BY <1>1, <1>2, InsererEffet
<1> USE DEF IInv
<1>4. TypeOK'
  BY <1>1, <1>3 DEF TypeOK, Cree
<1>5. Cibles'
  BY <1>1, <1>3 DEF Cree, Cibles, Libre, Inscription, Reponse, Conversion, Usage
<1>6. Vierges' /\ RejetsNotes'
  BY <1>1, <1>3 DEF Cree, Vierges, RejetsNotes, Libre
<1>7. \A d \in Demande : demandes[d].compte # Aucun => demandes[d].compte \in Compte /\ demandes[d].compte # a
  BY <1>3, AucunAssumption DEF Cree, Vierges, DemandeAvecCompte, Existe, TypeOK, DemandeRow
<1>8. DemandeAvecCompte'
  BY <1>1, <1>3, <1>7 DEF Cree, DemandeAvecCompte
<1> QED
  BY <1>3, <1>4, <1>5, <1>6, <1>8 DEF Cree

LEMMA SubmitDemandeOK ==
    ASSUME IInv, NEW d \in Demande, NEW t \in Tel, SubmitDemande(d, t)
    PROVE  IInv'
<1> USE DEF IInv, SubmitDemande
<1>1. demandes[d].compte = Aucun
  BY DEF Vierges
<1>2. \A e \in Demande : /\ e # d => demandes'[e] = demandes[e]
                         /\ demandes'[e].compte = demandes[e].compte
                         /\ demandes'[e].statut = demandes[e].statut
                         /\ demandes[e].tel # Aucun => demandes'[e].tel = demandes[e].tel
  BY DEF TypeOK, DemandeRow
<1>3. TypeOK'
  BY DEF TypeOK, DemandeRow
<1>4. Cibles' /\ RejetsNotes'
  BY <1>2 DEF Cibles, RejetsNotes, Existe
<1>5. Vierges' /\ UnCompteParTelephone' /\ ProfilSsiChauffeur'
  BY <1>1, <1>2 DEF Vierges, UnCompteParTelephone, ProfilSsiChauffeur, Existe
<1>6. DemandeAvecCompte'
  BY <1>1, <1>2 DEF DemandeAvecCompte
<1> QED
  BY <1>3, <1>4, <1>5, <1>6

\* A treatment in progress of the same request, or a rejection, is recorded.
LEMMA TraiterValiderOK ==
    ASSUME IInv, NEW s \in Session, NEW a \in Compte, TraiterValider(s, a)
    PROVE  IInv'
<1> USE DEF IInv
<1>0. session[s].cible \in Demande /\ demandes[session[s].cible].tel \in Tel
  BY DEF TraiterValider, Cibles, Reponse, TypeOK, DemandeRow
<1>1. PICK d \in Demande, t \in Tel :
      /\ demandes[d].tel = t /\ d = session[s].cible
      /\ Inserer(s, t, "CHAUFFEUR", "EN_ATTENTE_KYC", a)
      /\ demandes' = [demandes EXCEPT ![d].statut = "TRAITEE", ![d].compte = a]
      /\ chevauche \subseteq chevauche' /\ chevauche' \subseteq Demande
      /\ \A u \in Session : u # s /\ session[u].op = "rejeter" /\ session[u].cible = d => d \in chevauche'
  BY <1>0 DEF TraiterValider, NoteChevauche, Inserer, Finir, TypeOK
<1>2. "CHAUFFEUR" \in Role /\ "EN_ATTENTE_KYC" \in Statut
  BY DEF Role, Statut
<1> HIDE DEF IInv
<1>3. Cree(s, t, "CHAUFFEUR", a)
  BY <1>1, <1>2, InsererEffet
<1> USE DEF IInv
<1>4. \A e \in Demande : /\ demandes'[e].tel = demandes[e].tel
                         /\ e # d => demandes'[e] = demandes[e]
                         /\ e = d => demandes'[e].statut = "TRAITEE" /\ demandes'[e].compte = a
  BY <1>1 DEF TypeOK, DemandeRow
<1>5. TypeOK'
  BY <1>1, <1>3 DEF Cree, TypeOK, DemandeRow
<1>6. /\ \A u \in Session : session'[u] = IF u = s THEN Libre ELSE session[u]
      /\ \A b \in Compte : b # a => comptes'[b] = comptes[b]
      /\ comptes'[a].tel = demandes[d].tel /\ comptes'[a].role = "CHAUFFEUR"
      /\ comptes[a].tel = Aucun
      /\ \A b \in Compte : comptes[b].tel # Aucun => comptes'[b].tel # Aucun
  BY <1>1, <1>3 DEF Cree, Existe
<1>7. Cibles'
  BY <1>4, <1>6 DEF Cibles, Existe, Libre, Inscription, Reponse, Conversion, Usage
<1>8. RejetsNotes'
  BY <1>1, <1>4, <1>6 DEF RejetsNotes, Libre
<1>9. Vierges'
  <2>1. \A b \in Compte : ~Existe(b)' => comptes'[b].statut = "ACTIF" /\ comptes'[b].role = "CLIENT"
    BY <1>3 DEF Cree
  <2>2. demandes[d].tel # Aucun
    BY <1>0, <1>1, AucunAssumption
  <2>3. \A e \in Demande : demandes'[e].compte # Aucun => demandes'[e].tel # Aucun
    BY <1>4, <2>2 DEF Vierges
  <2> QED
    BY <2>1, <2>3 DEF Vierges
<1>10. a # Aucun
  BY AucunAssumption
<1>11. \A e \in Demande : demandes[e].compte # Aucun => demandes[e].compte \in Compte /\ demandes[e].compte # a
  BY <1>6, AucunAssumption DEF Vierges, DemandeAvecCompte, TypeOK, DemandeRow
<1>12. DemandeAvecCompte'
  <2> SUFFICES ASSUME NEW e \in Demande
               PROVE  /\ demandes'[e].statut = "TRAITEE" => demandes'[e].compte # Aucun
                      /\ demandes'[e].compte # Aucun =>
                            /\ comptes'[demandes'[e].compte].tel = demandes'[e].tel
                            /\ comptes'[demandes'[e].compte].role = "CHAUFFEUR"
                            /\ \A f \in Demande : demandes'[f].compte = demandes'[e].compte => f = e
                            /\ e \notin chevauche' => demandes'[e].statut = "TRAITEE"
    BY DEF DemandeAvecCompte
  <2> HIDE DEF IInv
  <2>0. DemandeAvecCompte
    BY DEF IInv
  <2>1. CASE e = d
    <3>1. demandes'[e].statut = "TRAITEE" /\ demandes'[e].compte = a /\ demandes'[e].tel = demandes[d].tel
      BY <2>1, <1>4
    <3>2. \A f \in Demande : demandes'[f].compte = a => f = e
      BY <2>1, <1>4, <1>10, <1>11
    <3> QED
      BY <3>1, <3>2, <1>6, <1>10
  <2>2. CASE e # d
    <3>1. demandes'[e] = demandes[e]
      BY <2>2, <1>4
    <3>2. \A f \in Demande : demandes[e].compte # Aucun /\ demandes'[f].compte = demandes[e].compte => f = e
      BY <2>0, <1>4, <1>11 DEF DemandeAvecCompte
    <3>3. demandes[e].statut = "TRAITEE" => demandes[e].compte # Aucun
      BY <2>0 DEF DemandeAvecCompte
    <3>4. demandes[e].compte # Aucun => /\ comptes'[demandes[e].compte].tel = demandes[e].tel
                                        /\ comptes'[demandes[e].compte].role = "CHAUFFEUR"
      BY <2>0, <1>6, <1>11 DEF DemandeAvecCompte
    <3>5. demandes[e].compte # Aucun /\ e \notin chevauche' => demandes[e].statut = "TRAITEE"
      BY <2>0, <1>1 DEF DemandeAvecCompte
    <3> QED
      BY <3>1, <3>2, <3>3, <3>4, <3>5
  <2> QED
    BY <2>1, <2>2
<1> QED
  BY <1>3, <1>5, <1>7, <1>8, <1>9, <1>12 DEF Cree

LEMMA RejeterValiderOK ==
    ASSUME IInv, NEW s \in Session, RejeterValider(s)
    PROVE  IInv'
<1> DEFINE d == session[s].cible
<1> USE DEF IInv
<1>1. /\ d \in Demande /\ demandes[d].tel # Aucun
      /\ chevauche \subseteq chevauche' /\ chevauche' \subseteq Demande
      /\ demandes[d].compte # Aucun => d \in chevauche
      /\ UNCHANGED <<comptes, profils>>
  BY DEF RejeterValider, NoteChevauche, Cibles, Reponse, RejetsNotes, TypeOK
<1>2. session' \in [Session -> Requete] /\ \A u \in Session : session'[u] = IF u = s THEN Libre ELSE session[u]
  BY LibreRequete DEF RejeterValider, Finir, TypeOK
<1>3. \A e \in Demande : /\ demandes'[e].tel = demandes[e].tel
                         /\ demandes'[e].compte = demandes[e].compte
                         /\ e # d => demandes'[e] = demandes[e]
                         /\ e = d => demandes'[e].statut \in {demandes[e].statut, "REJETEE"}
  BY DEF RejeterValider, Ecrit, TypeOK, DemandeRow
<1>4. TypeOK'
  BY <1>1, <1>2 DEF TypeOK, RejeterValider, Ecrit, DemandeRow
<1>5. Cibles' /\ RejetsNotes'
  BY <1>1, <1>2, <1>3 DEF Cibles, RejetsNotes, Existe, Libre, Inscription, Reponse, Conversion, Usage
<1>6. Vierges' /\ UnCompteParTelephone' /\ ProfilSsiChauffeur'
  BY <1>1, <1>3 DEF Vierges, UnCompteParTelephone, ProfilSsiChauffeur, Existe
<1>7. DemandeAvecCompte'
  BY <1>1, <1>3 DEF DemandeAvecCompte
<1> QED
  BY <1>4, <1>5, <1>6, <1>7

LEMMA ConvertirValiderOK ==
    ASSUME IInv, NEW s \in Session, ConvertirValider(s)
    PROVE  IInv'
<1> DEFINE c == session[s].cible
<1> USE DEF IInv
<1>1. c \in Compte /\ Existe(c) /\ profils[c] = 0 /\ UNCHANGED <<demandes, chevauche>>
  BY DEF ConvertirValider, Cibles, Conversion
<1>2. session' \in [Session -> Requete] /\ \A u \in Session : session'[u] = IF u = s THEN Libre ELSE session[u]
  BY LibreRequete DEF ConvertirValider, Finir, TypeOK
<1>3. /\ \A b \in Compte : b # c => comptes'[b] = comptes[b] /\ profils'[b] = profils[b]
      /\ comptes'[c].tel = comptes[c].tel /\ comptes'[c].role = "CHAUFFEUR" /\ profils'[c] = 1
  BY <1>1 DEF ConvertirValider, TypeOK, CompteRow
<1>4. TypeOK'
  BY <1>1, <1>2 DEF TypeOK, ConvertirValider, Ecrit, CompteRow, Role, Statut
<1>5. \A b \in Compte : Existe(b)' <=> Existe(b)
  BY <1>3 DEF Existe
<1>6. Cibles' /\ RejetsNotes'
  BY <1>1, <1>2, <1>5 DEF Cibles, RejetsNotes, Libre, Inscription, Reponse, Conversion, Usage
<1>7. Vierges' /\ UnCompteParTelephone' /\ ProfilSsiChauffeur'
  BY <1>1, <1>3, <1>5 DEF Vierges, UnCompteParTelephone, ProfilSsiChauffeur, Existe
<1>8. DemandeAvecCompte'
  BY <1>1, <1>3 DEF DemandeAvecCompte, TypeOK, DemandeRow
<1> QED
  BY <1>4, <1>6, <1>7, <1>8

LEMMA StatutValiderOK ==
    ASSUME IInv, NEW s \in Session, StatutValider(s)
    PROVE  IInv'
<1> DEFINE c == session[s].cible
<1> USE DEF IInv
<1>1. c \in Compte /\ Existe(c) /\ UNCHANGED <<profils, demandes, chevauche>>
  BY DEF StatutValider, Cibles, Usage
<1>2. session' \in [Session -> Requete] /\ \A u \in Session : session'[u] = IF u = s THEN Libre ELSE session[u]
  BY LibreRequete DEF StatutValider, Finir, TypeOK
<1>3. \A b \in Compte : /\ b # c => comptes'[b] = comptes[b]
                        /\ comptes'[b].tel = comptes[b].tel /\ comptes'[b].role = comptes[b].role
  BY <1>1 DEF StatutValider, TypeOK, CompteRow
<1>4. TypeOK'
  BY <1>1, <1>2 DEF TypeOK, StatutValider, Ecrit, CompteRow, Statut
<1>5. \A b \in Compte : Existe(b)' <=> Existe(b)
  BY <1>3 DEF Existe
<1>6. Cibles' /\ RejetsNotes'
  BY <1>1, <1>2, <1>5 DEF Cibles, RejetsNotes, Libre, Inscription, Reponse, Conversion, Usage
<1>7. Vierges' /\ UnCompteParTelephone' /\ ProfilSsiChauffeur'
  BY <1>1, <1>3, <1>5 DEF Vierges, UnCompteParTelephone, ProfilSsiChauffeur, Existe
<1>8. DemandeAvecCompte'
  BY <1>1, <1>3, AucunAssumption DEF DemandeAvecCompte, TypeOK, DemandeRow
<1> QED
  BY <1>4, <1>6, <1>7, <1>8

-----------------------------------------------------------------------------
(* The theorems *)

THEOREM Inductif == Spec => []IInv
<1>1. IInv /\ [Next]_vars => IInv'
  <2> SUFFICES ASSUME IInv, [Next]_vars
               PROVE  IInv'
    OBVIOUS
  <2>1. CASE \E s \in Session : Lecture(s)
    BY <2>1, LectureOK
  <2>2. CASE \E s \in Session, a \in Compte : InscrireValider(s, a)
    BY <2>2, InscrireValiderOK
  <2>3. CASE \E d \in Demande, t \in Tel : SubmitDemande(d, t)
    BY <2>3, SubmitDemandeOK
  <2>4. CASE \E s \in Session, a \in Compte : TraiterValider(s, a)
    BY <2>4, TraiterValiderOK
  <2>5. CASE \E s \in Session : RejeterValider(s)
    BY <2>5, RejeterValiderOK
  <2>6. CASE \E s \in Session : ConvertirValider(s)
    BY <2>6, ConvertirValiderOK
  <2>7. CASE \E s \in Session : StatutValider(s)
    BY <2>7, StatutValiderOK
  <2>8. CASE UNCHANGED vars
    BY <2>8 DEF vars, IInv, TypeOK, Cibles, Vierges, RejetsNotes, UnCompteParTelephone,
                ProfilSsiChauffeur, DemandeAvecCompte, Existe
  <2> QED
    BY <2>1, <2>2, <2>3, <2>4, <2>5, <2>6, <2>7, <2>8 DEF Next, Lecture
<1> QED
  BY <1>1, InitOK, PTL DEF Spec

\* The tables keep their shape, whatever the requests.
THEOREM TypeCorrect == Spec => []TypeOK
<1>1. IInv => TypeOK
  BY DEF IInv
<1> QED
  BY <1>1, Inductif, PTL

\* register, register_chauffeur, seed_admins and traiter_demande never leave two
\* accounts for a telephone, although each of them tests and inserts in two steps.
THEOREM CompteUnique == Spec => []UnCompteParTelephone
<1>1. IInv => UnCompteParTelephone
  BY DEF IInv
<1> QED
  BY <1>1, Inductif, PTL

\* A driver has exactly one profile and nobody else has one, through every
\* registration, treatment and conversion.
THEOREM Profils == Spec => []ProfilSsiChauffeur
<1>1. IInv => ProfilSsiChauffeur
  BY DEF IInv
<1> QED
  BY <1>1, Inductif, PTL

\* A treated request has its account, and keeps its answer unless two overlapped.
THEOREM DemandesEnRegle == Spec => []DemandeAvecCompte
<1>1. IInv => DemandeAvecCompte
  BY DEF IInv
<1> QED
  BY <1>1, Inductif, PTL

\* What gives a suspended or deleted account back: convert_to_chauffeur, or an
\* activation that did not find the account ACTIF.
THEOREM Retours == Spec => RetourVoulu
<1> DEFINE Voulu(a) ==
      comptes[a].statut \in {"SUSPENDU", "SUPPRIME"}
      /\ comptes'[a].statut \in {"ACTIF", "EN_ATTENTE_KYC"}
      => \E s \in Session :
            /\ session[s].cible = a
            /\ \/ session[s].op = "convertir"
               \/ session[s].op = "ACTIF" /\ session[s].lu # "ACTIF"
<1>1. IInv /\ [Next]_vars => [\A a \in Compte : Voulu(a)]_vars
  <2> SUFFICES ASSUME IInv, [Next]_vars, NEW a \in Compte,
                      comptes[a].statut \in {"SUSPENDU", "SUPPRIME"},
                      comptes'[a].statut \in {"ACTIF", "EN_ATTENTE_KYC"}
               PROVE  \E s \in Session :
                        /\ session[s].cible = a
                        /\ \/ session[s].op = "convertir"
                           \/ session[s].op = "ACTIF" /\ session[s].lu # "ACTIF"
    OBVIOUS
  <2>1. comptes'[a] # comptes[a]
    OBVIOUS
  <2>2. comptes \in [Compte -> CompteRow]
    BY DEF IInv, TypeOK
  <2>3. ASSUME NEW s \in Session, NEW t, NEW role, NEW statut, NEW b \in Compte,
               Inserer(s, t, role, statut, b)
        PROVE  FALSE
    <3>1. a # b
      BY <2>3, AucunAssumption DEF Inserer, IInv, Vierges
    <3> QED
      BY <3>1, <2>1, <2>2, <2>3 DEF Inserer
  <2>4. \A s \in Session : ~Lecture(s)
    BY <2>1 DEF Lecture, Register, RegisterChauffeur, SeedAdmins, Inscrire, TraiterDemande,
                RejeterDemande, Repondre, TraiterVerifier, ConvertirVerifier, ConvertToChauffeur,
                SuspendUser, ActivateUser, DeleteMe, Debuter, Abandon
  <2>5. \A s \in Session, b \in Compte : ~InscrireValider(s, b) /\ ~TraiterValider(s, b)
    BY <2>3 DEF InscrireValider, TraiterValider
  <2>6. \A s \in Session : ~RejeterValider(s)
    BY <2>1 DEF RejeterValider
  <2>7. \A d \in Demande, t \in Tel : ~SubmitDemande(d, t)
    BY <2>1 DEF SubmitDemande
  <2>8. ~UNCHANGED vars
    BY <2>1 DEF vars
  <2>9. ASSUME NEW s \in Session, ConvertirValider(s)
        PROVE  session[s].cible = a /\ session[s].op = "convertir"
    BY <2>1, <2>2, <2>9 DEF ConvertirValider
  <2>10. ASSUME NEW s \in Session, StatutValider(s)
         PROVE  session[s].cible = a /\ session[s].op = "ACTIF" /\ session[s].lu # "ACTIF"
    <3>1. session[s].cible = a
      BY <2>1, <2>2, <2>10 DEF StatutValider
    <3>2. comptes'[a].statut = IF session[s].lu = session[s].op THEN comptes[a].statut ELSE session[s].op
      BY <3>1, <2>2, <2>10 DEF StatutValider, Ecrit, CompteRow
    <3> QED
      BY <3>1, <3>2, <2>10 DEF StatutValider
  <2> QED
    BY <2>4, <2>5, <2>6, <2>7, <2>8, <2>9, <2>10 DEF Next, Lecture
<1> QED
  BY <1>1, Inductif, PTL DEF Spec, RetourVoulu
=============================================================================
