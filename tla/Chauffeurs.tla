----------------------------- MODULE Chauffeurs -----------------------------
(***************************************************************************)
(* A driver: his account, his KYC and presence, his vehicle and its        *)
(* documents, and the trips he publishes.                                  *)
(*                                                                         *)
(* Every request reads rows, then commits.  SQLAlchemy only updates the    *)
(* columns that differ from what the request read (operator Ecrit), so a   *)
(* value set again to what it was when it was read is not written at all,  *)
(* whatever the row has become.                                            *)
(*                                                                         *)
(* One driver and one vehicle.  ACTIF stands for ACTIF and EN_ATTENTE_KYC, *)
(* which no guard tells apart.  A definition whose name ends in _mut... is *)
(* a plausible mistake in the definition that follows it; no action uses   *)
(* it.                                                                     *)
(***************************************************************************)
EXTENDS Integers, FiniteSets

CONSTANTS
    Voyage,      \* the trips the driver may publish
    Session,     \* the requests in progress at once
    MaxDepots    \* bound: documents submitted

ASSUME VoyageAssumption  == IsFiniteSet(Voyage)
ASSUME SessionAssumption == IsFiniteSet(Session)
ASSUME DepotsAssumption  == MaxDepots \in Nat

VARIABLES
    compte,      \* users.statut
    kyc,         \* chauffeurs.kyc_valide
    enLigne,     \* chauffeurs.en_ligne
    etat,        \* the vehicle: none, actif, or no longer actif
    docs,        \* version of the documents of the vehicle, 0: none
    valides,     \* vehicules.docs_vehicule_valides
    voyages,     \* statut of each trip; "actif" is PUBLIE, COMPLET or EN_COURS
    session,     \* the requests in progress
    approuve,    \* history: version of the documents last approved, -1: none, or rejected since
    depots,      \* counter, for the versions
    rouverts,    \* history: active trips that a stale commit reopened
    chevauche    \* history: tables on whose rows two requests were in progress at once

lignes == <<compte, kyc, enLigne, etat, docs, valides, voyages>>
vars == <<compte, kyc, enLigne, etat, docs, valides, voyages, session, approuve, depots, rouverts, chevauche>>

StatutCompte == {"ACTIF", "SUSPENDU", "SUPPRIME"}
Table == {"users", "chauffeurs", "vehicules", "voyages"}

Libre == [op |-> "libre"]
SessionRec ==
    {Libre}
      \cup [op : {"presence", "kyc"}, lu : BOOLEAN, vers : BOOLEAN]
      \cup [op : {"compte"}, lu : StatutCompte, vers : StatutCompte]
      \cup [op : {"ajout", "retrait", "publier", "publie"}]
      \cup [op : {"course"}, v : Voyage, vers : {"actif", "clos"}]
      \cup [op : {"depot"}, lu : BOOLEAN, docs : 0..MaxDepots]
      \cup [op : {"revue"}, lu : BOOLEAN, vers : BOOLEAN, docs : 0..MaxDepots]

TypeOK ==
    /\ compte \in StatutCompte
    /\ kyc \in BOOLEAN /\ enLigne \in BOOLEAN
    /\ etat \in {"aucun", "actif", "retire"}
    /\ docs \in 0..MaxDepots /\ valides \in BOOLEAN
    /\ voyages \in [Voyage -> {"aucun", "actif", "clos"}]
    /\ session \in [Session -> SessionRec]
    /\ approuve \in -1..MaxDepots
    /\ depots \in 0..MaxDepots
    /\ rouverts \in SUBSET Voyage
    /\ chevauche \in SUBSET Table

Init ==
    /\ compte = "ACTIF"
    /\ kyc = FALSE /\ enLigne = FALSE
    /\ etat = "aucun" /\ docs = 0 /\ valides = FALSE
    /\ voyages = [v \in Voyage |-> "aucun"]
    /\ session = [s \in Session |-> Libre]
    /\ approuve = -1 /\ depots = 0 /\ rouverts = {} /\ chevauche = {}

Actifs == {v \in Voyage : voyages[v] = "actif"}

-----------------------------------------------------------------------------
(* Requests *)

\* The tables a request depends on.
Tables(r) ==
    CASE r.op \in {"publier", "publie"} -> Table
      [] r.op = "compte" -> {"users"}
      [] r.op \in {"presence", "kyc"} -> {"chauffeurs"}
      [] r.op \in {"ajout", "retrait", "depot", "revue"} -> {"vehicules"}
      [] OTHER -> {}

Debuter(s, r) ==
    /\ session[s] = Libre
    /\ session' = [session EXCEPT ![s] = r]
    /\ chevauche' = chevauche \cup UNION {Tables(r) \cap Tables(session[u]) : u \in Session}

Finir(s) == session' = [session EXCEPT ![s] = Libre]

\* What the commit leaves in a column that was read as lu and set to vers.
Ecrit(colonne, lu, vers) == IF vers = lu THEN colonne ELSE vers

\* The request fails and its session is rolled back.
Abandon(s) ==
    /\ session[s] # Libre
    /\ Finir(s)
    /\ UNCHANGED <<lignes, approuve, depots, rouverts, chevauche>>

\* get_current_user, which each request of the driver starts with.
Connecte == compte \notin {"SUSPENDU", "SUPPRIME"}

-----------------------------------------------------------------------------
(* The account: suspended and reactivated by the back office, deleted by its owner *)

CompteLire(s, vers) ==
    /\ Debuter(s, [op |-> "compte", lu |-> compte, vers |-> vers])
    /\ UNCHANGED <<lignes, approuve, depots, rouverts>>

SuspendUser(s) == CompteLire(s, "SUSPENDU")
ActivateUser(s) == CompteLire(s, "ACTIF")
DeleteMe(s) == Connecte /\ CompteLire(s, "SUPPRIME")

CompteValider(s) ==
    /\ session[s].op = "compte"
    /\ compte' = Ecrit(compte, session[s].lu, session[s].vers)
    /\ Finir(s)
    /\ UNCHANGED <<kyc, enLigne, etat, docs, valides, voyages, approuve, depots, rouverts, chevauche>>

-----------------------------------------------------------------------------
(* KYC and presence *)

KycLire(s, vers) ==
    /\ Debuter(s, [op |-> "kyc", lu |-> kyc, vers |-> vers])
    /\ UNCHANGED <<lignes, approuve, depots, rouverts>>

ValidateKyc(s) == KycLire(s, TRUE)
RejectKyc(s) == KycLire(s, FALSE)

KycValider(s) ==
    /\ session[s].op = "kyc"
    /\ kyc' = Ecrit(kyc, session[s].lu, session[s].vers)
    /\ Finir(s)
    /\ UNCHANGED <<compte, enLigne, etat, docs, valides, voyages, approuve, depots, rouverts, chevauche>>

PresenceLire(s, vers) ==
    /\ Connecte
    /\ Debuter(s, [op |-> "presence", lu |-> enLigne, vers |-> vers])
    /\ UNCHANGED <<lignes, approuve, depots, rouverts>>

GoOnline(s) == kyc /\ PresenceLire(s, TRUE)
GoOffline(s) == PresenceLire(s, FALSE)

PresenceValider(s) ==
    /\ session[s].op = "presence"
    /\ enLigne' = Ecrit(enLigne, session[s].lu, session[s].vers)
    /\ Finir(s)
    /\ UNCHANGED <<compte, kyc, etat, docs, valides, voyages, approuve, depots, rouverts, chevauche>>

-----------------------------------------------------------------------------
(* The vehicle *)

AddVehicule(s) ==
    /\ Connecte /\ etat = "aucun"
    /\ Debuter(s, [op |-> "ajout"])
    /\ UNCHANGED <<lignes, approuve, depots, rouverts>>

\* The number plate is unique: of two inserts the second fails (Abandon).
AddVehiculeValider(s) ==
    /\ session[s].op = "ajout" /\ etat = "aucun"
    /\ etat' = "actif"
    /\ Finir(s)
    /\ UNCHANGED <<compte, kyc, enLigne, docs, valides, voyages, approuve, depots, rouverts, chevauche>>

DeleteVehicule(s) ==
    /\ Connecte /\ etat # "aucun"
    /\ Debuter(s, [op |-> "retrait"])
    /\ UNCHANGED <<lignes, approuve, depots, rouverts>>

DeleteVehiculeValider(s) ==
    /\ session[s].op = "retrait"
    /\ etat' = "retire"
    /\ Finir(s)
    /\ UNCHANGED <<compte, kyc, enLigne, docs, valides, voyages, approuve, depots, rouverts, chevauche>>

\* A form with new documents, whose version is drawn here, or without any.
UploadVehiculeDocuments(s) ==
    /\ Connecte /\ etat # "aucun"
    /\ \/ /\ depots < MaxDepots /\ depots' = depots + 1
          /\ Debuter(s, [op |-> "depot", lu |-> valides, docs |-> depots + 1])
       \/ /\ Debuter(s, [op |-> "depot", lu |-> valides, docs |-> 0])
          /\ UNCHANGED depots
    /\ UNCHANGED <<lignes, approuve, rouverts>>

NouveauxDocs(s) == IF session[s].docs = 0 THEN docs ELSE session[s].docs

UploadValider_mutSansReset(s) ==
    /\ session[s].op = "depot"
    /\ docs' = NouveauxDocs(s)
    /\ Finir(s)
    /\ UNCHANGED <<compte, kyc, enLigne, etat, valides, voyages, approuve, depots, rouverts, chevauche>>

\* The validation is reset, if the request had read it as given.
UploadValider(s) ==
    /\ session[s].op = "depot"
    /\ docs' = NouveauxDocs(s)
    /\ valides' = Ecrit(valides, session[s].lu, FALSE)
    /\ Finir(s)
    /\ UNCHANGED <<compte, kyc, enLigne, etat, voyages, approuve, depots, rouverts, chevauche>>

RevueLire(s, vers) ==
    /\ etat # "aucun"
    /\ Debuter(s, [op |-> "revue", lu |-> valides, vers |-> vers, docs |-> docs])
    /\ UNCHANGED <<lignes, approuve, depots, rouverts>>

ValiderDocsVehicule(s) == RevueLire(s, TRUE)
RejeterDocsVehicule(s) == RevueLire(s, FALSE)

RevueValider(s) ==
    /\ session[s].op = "revue"
    /\ valides' = Ecrit(valides, session[s].lu, session[s].vers)
    /\ approuve' = IF session[s].vers THEN session[s].docs ELSE -1
    /\ Finir(s)
    /\ UNCHANGED <<compte, kyc, enLigne, etat, docs, voyages, depots, rouverts, chevauche>>

-----------------------------------------------------------------------------
(* Publication of a trip *)

CreateVoyage_mutSansKyc(s) ==
    /\ Connecte /\ enLigne
    /\ Debuter(s, [op |-> "publier"])
    /\ UNCHANGED <<lignes, approuve, depots, rouverts>>

CreateVoyage(s) ==
    /\ Connecte /\ kyc /\ enLigne
    /\ Debuter(s, [op |-> "publier"])
    /\ UNCHANGED <<lignes, approuve, depots, rouverts>>

CreateVoyageVerifier_mutSansActif(s) ==
    /\ session[s].op = "publier"
    /\ etat = "actif"
    /\ session' = [session EXCEPT ![s] = [op |-> "publie"]]
    /\ UNCHANGED <<lignes, approuve, depots, rouverts, chevauche>>

\* No active trip, and an active vehicle.
CreateVoyageVerifier(s) ==
    /\ session[s].op = "publier"
    /\ Actifs = {}
    /\ etat = "actif"
    /\ session' = [session EXCEPT ![s] = [op |-> "publie"]]
    /\ UNCHANGED <<lignes, approuve, depots, rouverts, chevauche>>

CreateVoyageValider(s, v) ==
    /\ session[s].op = "publie"
    /\ voyages[v] = "aucun"
    /\ voyages' = [voyages EXCEPT ![v] = "actif"]
    /\ Finir(s)
    /\ UNCHANGED <<compte, kyc, enLigne, etat, docs, valides, approuve, depots, rouverts, chevauche>>

\* A request that changes the statut of a trip it has read active: started, booked up or
\* given seats back ("actif"), ended or cancelled ("clos").
CourseLire(s, v, vers) ==
    /\ voyages[v] = "actif"
    /\ Debuter(s, [op |-> "course", v |-> v, vers |-> vers])
    /\ UNCHANGED <<lignes, approuve, depots, rouverts>>

\* Its commit writes the statut, whatever the trip has become: one that was closed
\* meanwhile is open again.
CourseValider(s) ==
    /\ session[s].op = "course"
    /\ voyages' = [voyages EXCEPT ![session[s].v] = session[s].vers]
    /\ rouverts' = IF session[s].vers = "actif"
                   THEN rouverts \cup ({session[s].v} \ Actifs)
                   ELSE rouverts \ {session[s].v}
    /\ Finir(s)
    /\ UNCHANGED <<compte, kyc, enLigne, etat, docs, valides, approuve, depots, chevauche>>

Lecture(s) ==
    \/ SuspendUser(s) \/ ActivateUser(s) \/ DeleteMe(s)
    \/ ValidateKyc(s) \/ RejectKyc(s) \/ GoOnline(s) \/ GoOffline(s)
    \/ AddVehicule(s) \/ DeleteVehicule(s) \/ UploadVehiculeDocuments(s)
    \/ ValiderDocsVehicule(s) \/ RejeterDocsVehicule(s) \/ CreateVoyage(s)
    \/ \E v \in Voyage, vers \in {"actif", "clos"} : CourseLire(s, v, vers)

Validation(s) ==
    \/ CompteValider(s) \/ KycValider(s) \/ PresenceValider(s)
    \/ AddVehiculeValider(s) \/ DeleteVehiculeValider(s) \/ UploadValider(s) \/ RevueValider(s)
    \/ CourseValider(s)
    \/ \E v \in Voyage : CreateVoyageValider(s, v)

Next == \E s \in Session : Lecture(s) \/ CreateVoyageVerifier(s) \/ Validation(s) \/ Abandon(s)

Spec == Init /\ [][Next]_vars

-----------------------------------------------------------------------------
(* Properties *)

\* A driver has one active trip, those that a stale commit reopened apart, as long as no
\* two publications overlap.
UnSeulActif ==
    "voyages" \notin chevauche => \A v, w \in Actifs \ rouverts : v = w

\* However they overlap, he has no more active trips, those that a stale commit reopened
\* apart, than requests were in progress when he had none: what is published later finds
\* the first of them.
ActifsBornes == Cardinality(Actifs \ rouverts) <= Cardinality(Session)

\* The documents of a vehicle that counts as validated are those the back office last
\* approved, as long as no two requests on the vehicle overlap.
DocsRevus ==
    "vehicules" \notin chevauche => (valides => approuve = docs)

\* If nothing overlaps, a trip is published by a driver whose account is usable, whose KYC
\* is valid, who is online, and with a vehicle in use.
PublicationEnRegle ==
    [][\A v \in Voyage :
          voyages[v] = "aucun" /\ voyages'[v] = "actif" /\ chevauche = {} =>
              Connecte /\ kyc /\ enLigne /\ etat = "actif"]_vars

=============================================================================
