-------------------------- MODULE ChauffeursProofs --------------------------
(***************************************************************************)
(* Theorems about Chauffeurs: what the guards of the requests are worth at *)
(* their commit, given the tables on which requests overlapped, and how    *)
(* many active trips a driver can have however they overlap.               *)
(***************************************************************************)
EXTENDS Chauffeurs, FiniteSetTheorems, TLAPS

\* Two requests in progress on one table are recorded.
Exclusif ==
    \A s, u \in Session :
        s # u => Tables(session[s]) \cap Tables(session[u]) \subseteq chevauche

\* A publication that has found no active trip commits while there is none but those a
\* stale commit has reopened since.
PublieSeul ==
    "voyages" \notin chevauche =>
        \A s \in Session : session[s].op = "publie" => Actifs \ rouverts = {}

\* A request on a trip has found it published.
CoursePublie ==
    \A s \in Session : session[s].op = "course" => voyages[session[s].v] # "aucun"

\* What the requests on the vehicle have read is still true.
VehiculeLu ==
    "vehicules" \notin chevauche =>
        \A s \in Session :
            /\ session[s].op \in {"depot", "revue"} => session[s].lu = valides
            /\ session[s].op = "revue" => session[s].docs = docs

\* What a publication has read is still true.
PublieEnRegle ==
    chevauche = {} =>
        \A s \in Session :
            /\ session[s].op \in {"publier", "publie"} => Connecte /\ kyc /\ enLigne
            /\ session[s].op = "publie" => etat = "actif"

IInv ==
    /\ TypeOK /\ Exclusif
    /\ UnSeulActif /\ PublieSeul /\ CoursePublie
    /\ DocsRevus /\ VehiculeLu
    /\ PublieEnRegle

-----------------------------------------------------------------------------
(* The effect of the steps *)

LEMMA TablesCas ==
    ASSUME NEW r
    PROVE  /\ Tables(r) \in SUBSET Table
           /\ r.op \in {"publier", "publie"} => Tables(r) = Table
           /\ r.op \in {"depot", "revue"} => Tables(r) = {"vehicules"}
           /\ r.op \in {"compte", "presence", "kyc", "ajout", "retrait"} => Tables(r) # {}
           /\ r = Libre => Tables(r) = {}
  BY DEF Tables, Table, Libre

\* What the rest needs to know of a request r that begins.
Lit(r) ==
    /\ r \in SessionRec
    /\ r.op # "publie"
    /\ r.op = "publier" => Connecte /\ kyc /\ enLigne
    /\ r.op \in {"depot", "revue"} => r.lu = valides
    /\ r.op = "revue" => r.docs = docs
    /\ r.op = "course" => voyages[r.v] = "actif"

LEMMA LectureEffet ==
    ASSUME TypeOK, NEW s \in Session, Lecture(s)
    PROVE  /\ \E r : Lit(r) /\ Debuter(s, r)
           /\ UNCHANGED <<lignes, approuve, rouverts>> /\ depots' \in 0..MaxDepots
<1> USE DEF TypeOK
<1>1. ASSUME NEW vers \in StatutCompte, CompteLire(s, vers)
      PROVE  \E r : Lit(r) /\ Debuter(s, r)
  <2>1. Lit([op |-> "compte", lu |-> compte, vers |-> vers])
    BY DEF Lit, SessionRec
  <2> QED
    BY <1>1, <2>1 DEF CompteLire
<1>2. ASSUME NEW vers \in BOOLEAN, KycLire(s, vers)
      PROVE  \E r : Lit(r) /\ Debuter(s, r)
  <2>1. Lit([op |-> "kyc", lu |-> kyc, vers |-> vers])
    BY DEF Lit, SessionRec
  <2> QED
    BY <1>2, <2>1 DEF KycLire
<1>3. ASSUME NEW vers \in BOOLEAN, PresenceLire(s, vers)
      PROVE  \E r : Lit(r) /\ Debuter(s, r)
  <2>1. Lit([op |-> "presence", lu |-> enLigne, vers |-> vers])
    BY DEF Lit, SessionRec
  <2> QED
    BY <1>3, <2>1 DEF PresenceLire
<1>4. ASSUME AddVehicule(s) \/ DeleteVehicule(s)
      PROVE  \E r : Lit(r) /\ Debuter(s, r)
  <2>1. Lit([op |-> "ajout"]) /\ Lit([op |-> "retrait"])
    BY DEF Lit, SessionRec
  <2> QED
    BY <1>4, <2>1 DEF AddVehicule, DeleteVehicule
<1>5. ASSUME UploadVehiculeDocuments(s)
      PROVE  \E r : Lit(r) /\ Debuter(s, r)
  <2>1. depots < MaxDepots => Lit([op |-> "depot", lu |-> valides, docs |-> depots + 1])
    BY DepotsAssumption DEF Lit, SessionRec
  <2>2. Lit([op |-> "depot", lu |-> valides, docs |-> 0])
    BY DepotsAssumption DEF Lit, SessionRec
  <2> QED
    BY <1>5, <2>1, <2>2 DEF UploadVehiculeDocuments
<1>6. ASSUME NEW vers \in BOOLEAN, RevueLire(s, vers)
      PROVE  \E r : Lit(r) /\ Debuter(s, r)
  <2>1. Lit([op |-> "revue", lu |-> valides, vers |-> vers, docs |-> docs])
    BY DEF Lit, SessionRec
  <2> QED
    BY <1>6, <2>1 DEF RevueLire
<1>7. ASSUME CreateVoyage(s)
      PROVE  \E r : Lit(r) /\ Debuter(s, r)
  <2>1. Connecte /\ kyc /\ enLigne => Lit([op |-> "publier"])
    BY DEF Lit, SessionRec
  <2> QED
    BY <1>7, <2>1 DEF CreateVoyage
<1>0. ASSUME NEW v \in Voyage, NEW vers \in {"actif", "clos"}, CourseLire(s, v, vers)
      PROVE  \E r : Lit(r) /\ Debuter(s, r)
  <2>1. voyages[v] = "actif" => Lit([op |-> "course", v |-> v, vers |-> vers])
    BY DEF Lit, SessionRec
  <2> QED
    BY <1>0, <2>1 DEF CourseLire
<1>8. \E r : Lit(r) /\ Debuter(s, r)
  BY <1>0, <1>1, <1>2, <1>3, <1>4, <1>5, <1>6, <1>7
     DEF Lecture, SuspendUser, ActivateUser, DeleteMe, ValidateKyc, RejectKyc, GoOnline, GoOffline,
     ValiderDocsVehicule, RejeterDocsVehicule, StatutCompte
<1>9. UNCHANGED <<lignes, approuve, rouverts>> /\ depots' \in 0..MaxDepots
  <2>1. CASE \/ SuspendUser(s) \/ ActivateUser(s) \/ DeleteMe(s)
             \/ ValidateKyc(s) \/ RejectKyc(s) \/ GoOnline(s) \/ GoOffline(s)
    BY <2>1 DEF SuspendUser, ActivateUser, DeleteMe, ValidateKyc, RejectKyc, GoOnline, GoOffline,
       CompteLire, KycLire, PresenceLire
  <2>2. CASE \/ AddVehicule(s) \/ DeleteVehicule(s) \/ CreateVoyage(s)
             \/ ValiderDocsVehicule(s) \/ RejeterDocsVehicule(s)
    BY <2>2 DEF AddVehicule, DeleteVehicule, CreateVoyage, ValiderDocsVehicule,
       RejeterDocsVehicule, RevueLire
  <2>3. CASE UploadVehiculeDocuments(s)
    BY <2>3, DepotsAssumption DEF UploadVehiculeDocuments
  <2>4. CASE \E v \in Voyage, vers \in {"actif", "clos"} : CourseLire(s, v, vers)
    BY <2>4 DEF CourseLire
  <2> QED
    BY <2>1, <2>2, <2>3, <2>4 DEF Lecture
<1> QED
  BY <1>8, <1>9

LEMMA DebuterEffet ==
    ASSUME TypeOK, NEW s \in Session, NEW r \in SessionRec, Debuter(s, r)
    PROVE  /\ session[s] = Libre
           /\ session' \in [Session -> SessionRec]
           /\ \A u \in Session : session'[u] = IF u = s THEN r ELSE session[u]
           /\ chevauche' \in SUBSET Table /\ chevauche \subseteq chevauche'
           /\ \A u \in Session : Tables(r) \cap Tables(session[u]) \subseteq chevauche'
  BY TablesCas DEF TypeOK, Debuter

\* The ends of requests.
Issue(s) == Validation(s) \/ Abandon(s)

LEMMA IssueEffet ==
    ASSUME TypeOK, NEW s \in Session, Issue(s)
    PROVE  /\ session[s] # Libre
           /\ session' \in [Session -> SessionRec]
           /\ \A u \in Session : session'[u] = IF u = s THEN Libre ELSE session[u]
           /\ UNCHANGED <<depots, chevauche>>
<1>1. session[s] # Libre /\ Finir(s) /\ UNCHANGED <<depots, chevauche>>
  <2>1. CASE Abandon(s)
    BY <2>1 DEF Abandon
  <2>2. CASE Validation(s)
    <3>1. Libre.op = "libre"
      BY DEF Libre
    <3>2. CASE CompteValider(s) \/ KycValider(s) \/ PresenceValider(s)
      BY <3>1, <3>2 DEF CompteValider, KycValider, PresenceValider
    <3>3. CASE AddVehiculeValider(s) \/ DeleteVehiculeValider(s)
      BY <3>1, <3>3 DEF AddVehiculeValider, DeleteVehiculeValider
    <3>4. CASE UploadValider(s) \/ RevueValider(s)
      BY <3>1, <3>4 DEF UploadValider, RevueValider
    <3>5. CASE \E v \in Voyage : CreateVoyageValider(s, v)
      BY <3>1, <3>5 DEF CreateVoyageValider
    <3>6. CASE CourseValider(s)
      BY <3>1, <3>6 DEF CourseValider
    <3> QED
      BY <2>2, <3>2, <3>3, <3>4, <3>5, <3>6 DEF Validation
  <2> QED
    BY <2>1, <2>2 DEF Issue
<1>2. Libre \in SessionRec
  BY DEF SessionRec
<1> QED
  BY <1>1, <1>2 DEF Finir, TypeOK

LEMMA VerifierEffet ==
    ASSUME TypeOK, NEW s \in Session, CreateVoyageVerifier(s)
    PROVE  /\ session[s].op = "publier" /\ Actifs = {} /\ etat = "actif"
           /\ session' \in [Session -> SessionRec]
           /\ \A u \in Session : session'[u] = IF u = s THEN [op |-> "publie"] ELSE session[u]
           /\ UNCHANGED <<lignes, approuve, depots, rouverts, chevauche>>
<1>1. [op |-> "publie"] \in SessionRec
  BY DEF SessionRec
<1> QED
  BY <1>1 DEF CreateVoyageVerifier, TypeOK

\* The steps of Next, regrouped.
LEMMA NextCas ==
    ASSUME [Next]_vars
    PROVE  \/ \E s \in Session : Lecture(s) \/ Issue(s) \/ CreateVoyageVerifier(s)
           \/ UNCHANGED vars
  BY DEF Next, Issue

-----------------------------------------------------------------------------
(* Type correctness *)

LEMMA InitType == Init => TypeOK
<1> SUFFICES ASSUME Init
             PROVE  TypeOK
  OBVIOUS
<1>1. session \in [Session -> SessionRec]
  BY DEF Init, SessionRec
<1>2. 0 \in 0..MaxDepots /\ -1 \in -1..MaxDepots
  BY DepotsAssumption
<1>3. voyages \in [Voyage -> {"aucun", "actif", "clos"}]
  BY DEF Init
<1> QED
  BY <1>1, <1>2, <1>3 DEF Init, TypeOK, StatutCompte, Table

LEMMA NextType == TypeOK /\ [Next]_vars => TypeOK'
<1> SUFFICES ASSUME TypeOK, [Next]_vars
             PROVE  TypeOK'
  OBVIOUS
<1>1. ASSUME NEW s \in Session, Lecture(s)
      PROVE  TypeOK'
  <2>1. PICK r : Lit(r) /\ Debuter(s, r)
    BY <1>1, LectureEffet
  <2>2. session' \in [Session -> SessionRec] /\ chevauche' \in SUBSET Table
    BY <2>1, DebuterEffet DEF Lit
  <2> QED
    BY <1>1, <2>2, LectureEffet DEF TypeOK, lignes
<1>2. ASSUME NEW s \in Session, Issue(s)
      PROVE  TypeOK'
  <2>1. session' \in [Session -> SessionRec] /\ UNCHANGED <<depots, chevauche>>
    BY <1>2, IssueEffet
  <2>2. session[s] \in SessionRec
    BY DEF TypeOK
  <2>3. /\ session[s].op = "compte" => session[s].vers \in StatutCompte
        /\ session[s].op \in {"kyc", "presence", "revue"} => session[s].vers \in BOOLEAN
        /\ session[s].op \in {"depot", "revue"} => session[s].docs \in 0..MaxDepots
    BY <2>2 DEF SessionRec, Libre
  <2>4. CASE CompteValider(s)
    BY <2>1, <2>3, <2>4 DEF CompteValider, Ecrit, TypeOK
  <2>5. CASE KycValider(s)
    BY <2>1, <2>3, <2>5 DEF KycValider, Ecrit, TypeOK
  <2>6. CASE PresenceValider(s)
    BY <2>1, <2>3, <2>6 DEF PresenceValider, Ecrit, TypeOK
  <2>7. CASE AddVehiculeValider(s) \/ DeleteVehiculeValider(s)
    BY <2>1, <2>7 DEF AddVehiculeValider, DeleteVehiculeValider, TypeOK
  <2>8. CASE UploadValider(s)
    BY <2>1, <2>3, <2>8 DEF UploadValider, NouveauxDocs, Ecrit, TypeOK
  <2>9. CASE RevueValider(s)
    <3>1. approuve' \in -1..MaxDepots
      BY <2>3, <2>9, DepotsAssumption DEF RevueValider
    <3> QED
      BY <2>1, <2>3, <2>9, <3>1 DEF RevueValider, Ecrit, TypeOK
  <2>10. CASE \E v \in Voyage : CreateVoyageValider(s, v)
    BY <2>1, <2>10 DEF CreateVoyageValider, TypeOK
  <2>11. CASE Abandon(s)
    BY <2>1, <2>11 DEF Abandon, lignes, TypeOK
  <2>12. CASE CourseValider(s)
    <3>1. session[s].v \in Voyage /\ session[s].vers \in {"actif", "clos"}
      BY <2>2, <2>12 DEF CourseValider, SessionRec, Libre
    <3>2. rouverts' \in SUBSET Voyage
      BY <2>12, <3>1 DEF CourseValider, TypeOK
    <3>3. voyages' \in [Voyage -> {"aucun", "actif", "clos"}]
      BY <2>12, <3>1 DEF CourseValider, TypeOK
    <3> QED
      BY <2>1, <2>12, <3>2, <3>3 DEF CourseValider, TypeOK
  <2> QED
    BY <1>2, <2>4, <2>5, <2>6, <2>7, <2>8, <2>9, <2>10, <2>11, <2>12 DEF Issue, Validation
<1>3. ASSUME NEW s \in Session, CreateVoyageVerifier(s)
      PROVE  TypeOK'
  BY <1>3, VerifierEffet DEF TypeOK, lignes
<1>4. CASE UNCHANGED vars
  BY <1>4 DEF vars, TypeOK
<1> QED
  BY <1>1, <1>2, <1>3, <1>4, NextCas

\* Every reachable state keeps the shape of the rows and of the requests in progress.
THEOREM TypeCorrect == Spec => []TypeOK
  BY InitType, NextType, PTL DEF Spec

-----------------------------------------------------------------------------
(* Overlaps *)

LEMMA NextExclusif == TypeOK /\ Exclusif /\ [Next]_vars => Exclusif'
<1> SUFFICES ASSUME TypeOK, Exclusif, [Next]_vars
             PROVE  Exclusif'
  OBVIOUS
<1>1. ASSUME NEW s \in Session, Lecture(s)
      PROVE  Exclusif'
  <2>1. PICK r : Lit(r) /\ Debuter(s, r)
    BY <1>1, LectureEffet
  <2>2. r \in SessionRec
    BY <2>1 DEF Lit
  <2> QED
    BY <2>1, <2>2, DebuterEffet DEF Exclusif
<1>2. ASSUME NEW s \in Session, Issue(s)
      PROVE  Exclusif'
  BY <1>2, IssueEffet, TablesCas DEF Exclusif
<1>3. ASSUME NEW s \in Session, CreateVoyageVerifier(s)
      PROVE  Exclusif'
  <2>1. Tables([op |-> "publie"]) = Table /\ Tables(session[s]) = Table
    BY <1>3, VerifierEffet, TablesCas
  <2> QED
    BY <1>3, <2>1, VerifierEffet DEF Exclusif
<1>4. CASE UNCHANGED <<session, chevauche>>
  BY <1>4 DEF Exclusif
<1>5. UNCHANGED vars => UNCHANGED <<session, chevauche>>
  BY DEF vars
<1> QED
  BY <1>1, <1>2, <1>3, <1>4, <1>5, NextCas

\* A request that commits is alone on its tables, unless the overlap was recorded.
LEMMA SeulSurTable ==
    ASSUME Exclusif, NEW s \in Session, NEW u \in Session, s # u, NEW t,
           t \in Tables(session[s]), t \in Tables(session[u])
    PROVE  t \in chevauche
  BY DEF Exclusif

-----------------------------------------------------------------------------
(* One active trip *)

\* The active trips that were not reopened.
Reguliers == Actifs \ rouverts

\* What a request on a trip does: it adds none of these, and leaves no trip unpublished.
LEMMA CourseEffet ==
    ASSUME TypeOK, NEW s \in Session, CourseValider(s)
    PROVE  Reguliers' \subseteq Reguliers /\ \A v \in Voyage : voyages[v] # "aucun" => voyages'[v] # "aucun"
<1>1. session[s].v \in Voyage /\ session[s].vers \in {"actif", "clos"}
  BY DEF CourseValider, TypeOK, SessionRec, Libre
<1> QED
  BY <1>1 DEF CourseValider, TypeOK, Reguliers, Actifs

LEMMA PublierEffet ==
    ASSUME TypeOK, NEW s \in Session, NEW v \in Voyage, CreateVoyageValider(s, v)
    PROVE  /\ session[s].op = "publie" /\ v \notin Reguliers /\ Reguliers' \subseteq Reguliers \cup {v}
           /\ \A w \in Voyage : voyages[w] # "aucun" => voyages'[w] # "aucun"
  BY DEF CreateVoyageValider, TypeOK, Reguliers, Actifs

\* The commits that change no trip.
LEMMA AutresIssues ==
    ASSUME NEW s \in Session, Issue(s)
    PROVE  \/ \E v \in Voyage : CreateVoyageValider(s, v)
           \/ CourseValider(s)
           \/ UNCHANGED <<voyages, rouverts>>
  BY DEF Issue, Validation, Abandon, CompteValider, KycValider, PresenceValider,
     AddVehiculeValider, DeleteVehiculeValider, UploadValider, RevueValider, lignes

LEMMA NextActif == IInv /\ [Next]_vars => UnSeulActif' /\ PublieSeul'
<1> SUFFICES ASSUME IInv, [Next]_vars
             PROVE  UnSeulActif' /\ PublieSeul'
  OBVIOUS
<1>0. TypeOK /\ Exclusif /\ UnSeulActif /\ PublieSeul
  BY DEF IInv
<1> USE DEF Reguliers
<1>1. ASSUME NEW s \in Session, Lecture(s)
      PROVE  UnSeulActif' /\ PublieSeul'
  <2>1. PICK r : Lit(r) /\ Debuter(s, r)
    BY <1>0, <1>1, LectureEffet
  <2>2. r \in SessionRec /\ r.op # "publie"
    BY <2>1 DEF Lit
  <2>3. Reguliers' = Reguliers
    BY <1>0, <1>1, LectureEffet DEF lignes, Actifs
  <2>4. chevauche \subseteq chevauche' /\ \A u \in Session : session'[u] = IF u = s THEN r ELSE session[u]
    BY <1>0, <2>1, <2>2, DebuterEffet
  <2> QED
    BY <1>0, <2>2, <2>3, <2>4 DEF UnSeulActif, PublieSeul
<1>2. ASSUME NEW s \in Session, Issue(s)
      PROVE  UnSeulActif' /\ PublieSeul'
  <2>1. /\ \A u \in Session : session'[u] = IF u = s THEN Libre ELSE session[u]
        /\ chevauche' = chevauche /\ Libre.op # "publie"
    BY <1>0, <1>2, IssueEffet DEF Libre
  <2>2. CASE Reguliers' \subseteq Reguliers
    BY <1>0, <2>1, <2>2 DEF UnSeulActif, PublieSeul
  <2>3. ASSUME NEW v \in Voyage, CreateVoyageValider(s, v), "voyages" \notin chevauche
        PROVE  Reguliers' \subseteq {v} /\ \A u \in Session : session'[u].op # "publie"
    <3>1. session[s].op = "publie" /\ Reguliers = {}
      BY <1>0, <2>3 DEF CreateVoyageValider, PublieSeul
    <3>2. Reguliers' \subseteq {v}
      BY <1>0, <2>3, <3>1, PublierEffet
    <3>3. ASSUME NEW u \in Session, u # s, session[u].op = "publie"
          PROVE  FALSE
      <4>1. "voyages" \in Tables(session[s]) /\ "voyages" \in Tables(session[u])
        BY <3>1, <3>3, TablesCas DEF Table
      <4> QED
        BY <1>0, <2>3, <3>3, <4>1, SeulSurTable
    <3> QED
      BY <2>1, <3>2, <3>3
  <2>4. (\E v \in Voyage : CreateVoyageValider(s, v)) \/ Reguliers' \subseteq Reguliers
    BY <1>0, <1>2, AutresIssues, CourseEffet DEF Actifs
  <2> QED
    BY <2>1, <2>2, <2>3, <2>4 DEF UnSeulActif, PublieSeul
<1>3. ASSUME NEW s \in Session, CreateVoyageVerifier(s)
      PROVE  UnSeulActif' /\ PublieSeul'
  <2>1. Reguliers = {} /\ Reguliers' = Reguliers
    BY <1>0, <1>3, VerifierEffet DEF lignes, Actifs
  <2> QED
    BY <2>1 DEF UnSeulActif, PublieSeul
<1>4. CASE UNCHANGED vars
  BY <1>0, <1>4 DEF vars, Actifs, UnSeulActif, PublieSeul
<1> QED
  BY <1>1, <1>2, <1>3, <1>4, NextCas

\* No step makes a trip unpublished.
LEMMA NextPublie == IInv /\ [Next]_vars => CoursePublie'
<1> SUFFICES ASSUME IInv, [Next]_vars
             PROVE  CoursePublie'
  OBVIOUS
<1>0. TypeOK /\ CoursePublie
  BY DEF IInv
<1>1. ASSUME NEW s \in Session, session[s].op = "course"
      PROVE  session[s].v \in Voyage
  BY <1>0, <1>1 DEF TypeOK, SessionRec, Libre
<1>2. ASSUME NEW s \in Session, Lecture(s)
      PROVE  CoursePublie'
  <2>1. PICK r : Lit(r) /\ Debuter(s, r)
    BY <1>0, <1>2, LectureEffet
  <2>2. \A u \in Session : session'[u] = IF u = s THEN r ELSE session[u]
    BY <1>0, <2>1, DebuterEffet DEF Lit
  <2>3. voyages' = voyages /\ (r.op = "course" => voyages[r.v] # "aucun")
    BY <1>0, <1>2, <2>1, LectureEffet DEF lignes, Lit
  <2> QED
    BY <1>0, <2>2, <2>3 DEF CoursePublie
<1>3. ASSUME NEW s \in Session, Issue(s)
      PROVE  CoursePublie'
  <2>1. \A u \in Session : session'[u] = IF u = s THEN Libre ELSE session[u]
    BY <1>0, <1>3, IssueEffet
  <2>2. \A v \in Voyage : voyages[v] # "aucun" => voyages'[v] # "aucun"
    BY <1>0, <1>3, AutresIssues, CourseEffet, PublierEffet
  <2> QED
    BY <1>0, <1>1, <2>1, <2>2 DEF CoursePublie, Libre
<1>4. ASSUME NEW s \in Session, CreateVoyageVerifier(s)
      PROVE  CoursePublie'
  BY <1>0, <1>4, VerifierEffet DEF CoursePublie, lignes
<1>5. CASE UNCHANGED vars
  BY <1>0, <1>5 DEF CoursePublie, vars
<1> QED
  BY <1>2, <1>3, <1>4, <1>5, NextCas

-----------------------------------------------------------------------------
(* The documents of the vehicle *)

LEMMA NextRevus == IInv /\ [Next]_vars => DocsRevus' /\ VehiculeLu'
<1> SUFFICES ASSUME IInv, [Next]_vars
             PROVE  DocsRevus' /\ VehiculeLu'
  OBVIOUS
<1>0. TypeOK /\ Exclusif /\ DocsRevus /\ VehiculeLu
  BY DEF IInv
<1>1. ASSUME NEW s \in Session, Lecture(s)
      PROVE  DocsRevus' /\ VehiculeLu'
  <2>1. PICK r : Lit(r) /\ Debuter(s, r)
    BY <1>0, <1>1, LectureEffet
  <2>2. /\ chevauche \subseteq chevauche'
        /\ \A u \in Session : session'[u] = IF u = s THEN r ELSE session[u]
    BY <1>0, <2>1, DebuterEffet DEF Lit
  <2>3. UNCHANGED <<docs, valides, approuve>>
    BY <1>0, <1>1, LectureEffet DEF lignes
  <2>4. /\ r.op \in {"depot", "revue"} => r.lu = valides
        /\ r.op = "revue" => r.docs = docs
    BY <2>1 DEF Lit
  <2> QED
    BY <1>0, <2>2, <2>3, <2>4 DEF DocsRevus, VehiculeLu
<1>2. ASSUME NEW s \in Session, Issue(s)
      PROVE  DocsRevus' /\ VehiculeLu'
  <2>1. /\ \A u \in Session : session'[u] = IF u = s THEN Libre ELSE session[u]
        /\ chevauche' = chevauche /\ Libre.op = "libre"
    BY <1>0, <1>2, IssueEffet DEF Libre
  <2>2. CASE UNCHANGED <<docs, valides, approuve>>
    BY <1>0, <2>1, <2>2 DEF DocsRevus, VehiculeLu
  <2>3. ASSUME UploadValider(s) \/ RevueValider(s), "vehicules" \notin chevauche
        PROVE  \A u \in Session : session'[u].op \notin {"depot", "revue"}
    <3>1. session[s].op \in {"depot", "revue"}
      BY <2>3 DEF UploadValider, RevueValider
    <3>2. ASSUME NEW u \in Session, u # s, session[u].op \in {"depot", "revue"}
          PROVE  FALSE
      <4>1. "vehicules" \in Tables(session[s]) /\ "vehicules" \in Tables(session[u])
        BY <3>1, <3>2, TablesCas
      <4> QED
        BY <1>0, <2>3, <3>2, <4>1, SeulSurTable
    <3> QED
      BY <2>1, <3>2
  <2>4. ASSUME UploadValider(s), "vehicules" \notin chevauche
        PROVE  ~valides'
    <3>1. session[s].lu = valides /\ valides \in BOOLEAN
      BY <1>0, <2>4 DEF UploadValider, VehiculeLu, TypeOK
    <3> QED
      BY <2>4, <3>1 DEF UploadValider, Ecrit
  <2>5. ASSUME RevueValider(s), "vehicules" \notin chevauche
        PROVE  valides' => approuve' = docs'
    <3>1. session[s].lu = valides /\ valides \in BOOLEAN /\ session[s].docs = docs
      BY <1>0, <2>5 DEF RevueValider, VehiculeLu, TypeOK
    <3> QED
      BY <2>5, <3>1 DEF RevueValider, Ecrit
  <2>6. UploadValider(s) \/ RevueValider(s) \/ UNCHANGED <<docs, valides, approuve>>
    BY <1>2 DEF Issue, Validation, Abandon, CompteValider, KycValider, PresenceValider,
       AddVehiculeValider, DeleteVehiculeValider, CreateVoyageValider, CourseValider, lignes
  <2>7. CASE UploadValider(s) \/ RevueValider(s)
    BY <2>1, <2>3, <2>4, <2>5, <2>7 DEF DocsRevus, VehiculeLu
  <2> QED
    BY <2>2, <2>6, <2>7
<1>3. ASSUME NEW s \in Session, CreateVoyageVerifier(s)
      PROVE  DocsRevus' /\ VehiculeLu'
  BY <1>0, <1>3, VerifierEffet DEF DocsRevus, VehiculeLu, lignes
<1>4. CASE UNCHANGED <<docs, valides, approuve, session, chevauche>>
  BY <1>0, <1>4 DEF DocsRevus, VehiculeLu
<1>5. UNCHANGED vars => UNCHANGED <<docs, valides, approuve, session, chevauche>>
  BY DEF vars
<1> QED
  BY <1>1, <1>2, <1>3, <1>4, <1>5, NextCas

-----------------------------------------------------------------------------
(* The guards of a publication *)

LEMMA NextEnRegle == IInv /\ [Next]_vars => PublieEnRegle'
<1> SUFFICES ASSUME IInv, [Next]_vars
             PROVE  PublieEnRegle'
  OBVIOUS
<1>0. TypeOK /\ Exclusif /\ PublieEnRegle
  BY DEF IInv
<1>1. ASSUME NEW s \in Session, Lecture(s)
      PROVE  PublieEnRegle'
  <2>1. PICK r : Lit(r) /\ Debuter(s, r)
    BY <1>0, <1>1, LectureEffet
  <2>2. /\ chevauche \subseteq chevauche'
        /\ \A u \in Session : session'[u] = IF u = s THEN r ELSE session[u]
    BY <1>0, <2>1, DebuterEffet DEF Lit
  <2>3. UNCHANGED <<compte, kyc, enLigne, etat>>
    BY <1>0, <1>1, LectureEffet DEF lignes
  <2>4. r.op # "publie" /\ (r.op = "publier" => Connecte /\ kyc /\ enLigne)
    BY <2>1 DEF Lit
  <2> QED
    BY <1>0, <2>2, <2>3, <2>4 DEF PublieEnRegle, Connecte
<1>2. ASSUME NEW s \in Session, Issue(s)
      PROVE  PublieEnRegle'
  <2>1. /\ \A u \in Session : session'[u] = IF u = s THEN Libre ELSE session[u]
        /\ chevauche' = chevauche /\ Libre.op = "libre"
    BY <1>0, <1>2, IssueEffet DEF Libre
  <2>2. CASE UNCHANGED <<compte, kyc, enLigne, etat>>
    BY <1>0, <2>1, <2>2 DEF PublieEnRegle, Connecte
  <2>3. ASSUME session[s].op \in {"compte", "kyc", "presence", "ajout", "retrait"},
               chevauche = {}
        PROVE  \A u \in Session : session'[u].op \notin {"publier", "publie"}
    <3>1. ASSUME NEW u \in Session, u # s, session[u].op \in {"publier", "publie"}
          PROVE  FALSE
      <4>1. Tables(session[s]) # {} /\ Tables(session[s]) \in SUBSET Table
            /\ Tables(session[u]) = Table
        BY <2>3, <3>1, TablesCas
      <4> QED
        BY <1>0, <2>3, <3>1, <4>1, SeulSurTable
    <3> QED
      BY <2>1, <3>1
  <2>4. \/ session[s].op \in {"compte", "kyc", "presence", "ajout", "retrait"}
        \/ UNCHANGED <<compte, kyc, enLigne, etat>>
    BY <1>2 DEF Issue, Validation, Abandon, CompteValider, KycValider, PresenceValider,
       AddVehiculeValider, DeleteVehiculeValider, UploadValider, RevueValider,
       CreateVoyageValider, CourseValider, lignes
  <2> QED
    BY <2>1, <2>2, <2>3, <2>4 DEF PublieEnRegle
<1>3. ASSUME NEW s \in Session, CreateVoyageVerifier(s)
      PROVE  PublieEnRegle'
  BY <1>0, <1>3, VerifierEffet DEF PublieEnRegle, Connecte, lignes
<1>4. CASE UNCHANGED <<compte, kyc, enLigne, etat, session, chevauche>>
  BY <1>0, <1>4 DEF PublieEnRegle, Connecte
<1>5. UNCHANGED vars => UNCHANGED <<compte, kyc, enLigne, etat, session, chevauche>>
  BY DEF vars
<1> QED
  BY <1>1, <1>2, <1>3, <1>4, <1>5, NextCas

-----------------------------------------------------------------------------
(* The theorems *)

\* The inductive invariant: overlaps are recorded, and where there was none what a request
\* read is still true when it commits.
THEOREM Inductif == Spec => []IInv
<1>1. Init => IInv
  <2> SUFFICES ASSUME Init
               PROVE  IInv
    OBVIOUS
  <2>1. \A s \in Session : session[s] = Libre /\ Tables(session[s]) = {}
    BY TablesCas DEF Init
  <2>2. Libre.op = "libre"
    BY DEF Libre
  <2>3. Exclusif
    BY <2>1 DEF Exclusif
  <2>4. PublieSeul /\ CoursePublie /\ VehiculeLu /\ PublieEnRegle
    BY <2>1, <2>2 DEF PublieSeul, CoursePublie, VehiculeLu, PublieEnRegle
  <2>5. UnSeulActif /\ DocsRevus
    BY DEF Init, UnSeulActif, Actifs, DocsRevus
  <2> QED
    BY <2>3, <2>4, <2>5, InitType DEF IInv
<1>2. IInv /\ [Next]_vars => IInv'
  BY NextType, NextExclusif, NextActif, NextPublie, NextRevus, NextEnRegle DEF IInv
<1> QED
  BY <1>1, <1>2, PTL DEF Spec

\* One active trip, those that a stale commit reopened apart, as long as no two
\* publications overlap (create_voyage).
THEOREM ActifUnique == Spec => []UnSeulActif
<1>1. IInv => UnSeulActif
  BY DEF IInv
<1> QED
  BY <1>1, Inductif, PTL

\* Validated documents are those that were approved, as long as no two requests on the
\* vehicle overlap (upload_vehicule_documents, valider_docs_vehicule).
THEOREM Revues == Spec => []DocsRevus
<1>1. IInv => DocsRevus
  BY DEF IInv
<1> QED
  BY <1>1, Inductif, PTL

\* What create_voyage checked still holds when it commits, if nothing overlaps.
THEOREM EnRegle == Spec => PublicationEnRegle
<1>1. ASSUME IInv, [Next]_vars, NEW v \in Voyage,
             voyages[v] = "aucun", voyages'[v] = "actif", chevauche = {}
      PROVE  Connecte /\ kyc /\ enLigne /\ etat = "actif"
  <2>0. TypeOK /\ PublieEnRegle /\ CoursePublie
    BY <1>1 DEF IInv
  <2>1. ASSUME NEW s \in Session, Lecture(s) \/ CreateVoyageVerifier(s)
        PROVE  FALSE
    BY <1>1, <2>0, <2>1, LectureEffet, VerifierEffet DEF lignes
  <2>2. voyages' # voyages
    BY <1>1
  <2>3. PICK s \in Session : Issue(s)
    BY <1>1, <2>1, <2>2, NextCas DEF vars
  <2>4. ~CourseValider(s)
    <3>1. ASSUME CourseValider(s)
          PROVE  FALSE
      <4>1. session[s].op = "course" /\ voyages' = [voyages EXCEPT ![session[s].v] = session[s].vers]
        BY <3>1 DEF CourseValider
      <4>2. session[s].v = v
        BY <1>1, <4>1
      <4> QED
        BY <1>1, <2>0, <4>1, <4>2 DEF CoursePublie
    <3> QED
      BY <3>1
  <2>5. session[s].op = "publie"
    BY <2>2, <2>3, <2>4, AutresIssues DEF CreateVoyageValider
  <2> QED
    BY <1>1, <2>0, <2>5 DEF PublieEnRegle
<1>2. IInv /\ [Next]_vars =>
          [\A v \in Voyage :
              voyages[v] = "aucun" /\ voyages'[v] = "actif" /\ chevauche = {} =>
                  Connecte /\ kyc /\ enLigne /\ etat = "actif"]_vars
  BY <1>1
<1> QED
  BY <1>2, Inductif, PTL DEF Spec, PublicationEnRegle

-----------------------------------------------------------------------------
(* The number of active trips, those that a stale commit reopened apart *)

\* The publications that have found no active trip.
Pub == {s \in Session : session[s].op = "publie"}

Publications == Cardinality(Reguliers) + Cardinality(Pub) <= Cardinality(Session)

LEMMA EnsemblesFinis ==
    /\ IsFiniteSet(Reguliers) /\ Cardinality(Reguliers) \in Nat
    /\ IsFiniteSet(Pub) /\ Cardinality(Pub) \in Nat
    /\ Cardinality(Pub) <= Cardinality(Session) /\ Cardinality(Session) \in Nat
    /\ Cardinality({}) = 0
<1>1. Pub \in SUBSET Session /\ Reguliers \in SUBSET Voyage
  BY DEF Pub, Reguliers, Actifs
<1> QED
  BY <1>1, SessionAssumption, VoyageAssumption, FS_Subset, FS_CardinalityType, FS_EmptySet

LEMMA EnsemblesFinisPrime ==
    /\ Cardinality(Pub') \in Nat /\ Cardinality(Pub') <= Cardinality(Session)
    /\ Cardinality(Reguliers') \in Nat
<1>1. Pub' \in SUBSET Session /\ Reguliers' \in SUBSET Voyage
  BY DEF Pub, Reguliers, Actifs
<1> QED
  BY <1>1, SessionAssumption, VoyageAssumption, FS_Subset, FS_CardinalityType

LEMMA NextPublications == TypeOK /\ Publications /\ [Next]_vars => Publications'
<1> SUFFICES ASSUME TypeOK, Publications, [Next]_vars
             PROVE  Publications'
  OBVIOUS
<1>1. ASSUME Reguliers' \subseteq Reguliers, Pub' \subseteq Pub
      PROVE  Publications'
  <2>1. Cardinality(Reguliers') <= Cardinality(Reguliers) /\ Cardinality(Pub') <= Cardinality(Pub)
    BY <1>1, EnsemblesFinis, FS_Subset
  <2> QED
    BY <2>1, EnsemblesFinis, EnsemblesFinisPrime DEF Publications
<1>2. ASSUME NEW s \in Session, Lecture(s)
      PROVE  Publications'
  <2>1. PICK r : Lit(r) /\ Debuter(s, r)
    BY <1>2, LectureEffet
  <2>2. Pub' \subseteq Pub
    BY <2>1, DebuterEffet DEF Lit, Pub
  <2>3. Reguliers' = Reguliers
    BY <1>2, LectureEffet DEF lignes, Actifs, Reguliers
  <2> QED
    BY <1>1, <2>2, <2>3
<1>3. ASSUME NEW s \in Session, Issue(s)
      PROVE  Publications'
  <2>1. Pub' \subseteq Pub
    BY <1>3, IssueEffet DEF Pub, Libre
  <2>2. ASSUME NEW v \in Voyage, CreateVoyageValider(s, v)
        PROVE  Publications'
    <3>1. s \in Pub /\ Pub' = Pub \ {s}
      BY <1>3, <2>2, IssueEffet DEF CreateVoyageValider, Pub, Libre
    <3>2. v \notin Reguliers /\ Reguliers' \subseteq Reguliers \cup {v}
      BY <2>2, PublierEffet
    <3>3. Cardinality(Pub') = Cardinality(Pub) - 1
      BY <3>1, EnsemblesFinis, FS_RemoveElement
    <3>4. /\ IsFiniteSet(Reguliers \cup {v})
          /\ Cardinality(Reguliers \cup {v}) = Cardinality(Reguliers) + 1
      BY <3>2, EnsemblesFinis, FS_AddElement
    <3>5. Cardinality(Reguliers') <= Cardinality(Reguliers) + 1
      BY <3>2, <3>4, FS_Subset
    <3> QED
      BY <3>3, <3>5, EnsemblesFinis, EnsemblesFinisPrime DEF Publications
  <2>3. (\E v \in Voyage : CreateVoyageValider(s, v)) \/ Reguliers' \subseteq Reguliers
    BY <1>3, AutresIssues, CourseEffet DEF Reguliers, Actifs
  <2> QED
    BY <1>1, <2>1, <2>2, <2>3
<1>4. ASSUME NEW s \in Session, CreateVoyageVerifier(s)
      PROVE  Publications'
  <2>1. Reguliers' = {}
    BY <1>4, VerifierEffet DEF lignes, Actifs, Reguliers
  <2>2. Cardinality(Reguliers') = 0
    BY <2>1, EnsemblesFinis
  <2> QED
    BY <2>2, EnsemblesFinisPrime DEF Publications
<1>5. CASE UNCHANGED vars
  BY <1>1, <1>5 DEF vars, Actifs, Pub, Reguliers
<1> QED
  BY <1>2, <1>3, <1>4, <1>5, NextCas

\* However the publications overlap, there are no more active trips, those that a stale
\* commit reopened apart, than requests at once.
THEOREM Bornes == Spec => []ActifsBornes
<1>1. Init => Publications
  <2> SUFFICES ASSUME Init
               PROVE  Publications
    OBVIOUS
  <2>1. Reguliers = {}
    BY DEF Init, Actifs, Reguliers
  <2> QED
    BY <2>1, EnsemblesFinis DEF Publications
<1>2. Publications => ActifsBornes
  BY EnsemblesFinis DEF Publications, ActifsBornes, Reguliers
<1> QED
  BY <1>1, <1>2, NextPublications, TypeCorrect, PTL DEF Spec
=============================================================================
