------------------------------- MODULE Comptes ------------------------------
(***************************************************************************)
(* Accounts and what gives birth to them: the two registrations, the       *)
(* script that seeds the administrators, the requests to become a driver   *)
(* that the back office treats or rejects, and the conversion of a client. *)
(*                                                                         *)
(* Every request reads first and writes in the commit that ends it; other  *)
(* requests run in between, at READ COMMITTED and without a row lock.  Its *)
(* UPDATEs carry the columns whose value changed since it read them.       *)
(***************************************************************************)
EXTENDS Integers

CONSTANTS
    Compte,       \* identifiers of table users
    Demande,      \* identifiers of table demandes_inscription_chauffeur
    Tel,          \* telephone numbers
    Session,      \* the requests that can be in progress at once
    Aucun         \* NULL, and the telephone of a row that does not exist

ASSUME AucunAssumption ==
    /\ Aucun \notin Tel
    /\ Aucun \notin Compte
    /\ Aucun \notin Demande

VARIABLES
    comptes,      \* table users
    profils,      \* how many rows of table chauffeurs each account has
    demandes,     \* table demandes_inscription_chauffeur
    session,      \* what each request in progress has read
    chevauche     \* history: the requests for which two answers overlapped

vars == <<comptes, profils, demandes, session, chevauche>>

Role   == {"CLIENT", "CHAUFFEUR", "ADMIN"}
Statut == {"ACTIF", "SUSPENDU", "EN_ATTENTE_KYC", "SUPPRIME"}

CompteRow  == [tel : Tel \cup {Aucun}, role : Role, statut : Statut]
DemandeRow == [tel : Tel \cup {Aucun}, statut : {"NOUVELLE", "TRAITEE", "REJETEE"},
               compte : Compte \cup {Aucun}]

Operation ==
    {"libre", "register", "register_chauffeur", "seed", "traiter_lu", "traiter",
     "rejeter", "convertir_lu", "convertir", "SUSPENDU", "ACTIF", "SUPPRIME"}

Requete == [op : Operation, cible : Tel \cup Compte \cup Demande \cup {Aucun},
            lu : Statut \cup {"NOUVELLE", "TRAITEE", "REJETEE", "rien"}]

Libre == [op |-> "libre", cible |-> Aucun, lu |-> "rien"]

\* The tables and the requests keep their shape.
TypeOK ==
    /\ comptes \in [Compte -> CompteRow]
    /\ profils \in [Compte -> Nat]
    /\ demandes \in [Demande -> DemandeRow]
    /\ session \in [Session -> Requete]
    /\ chevauche \subseteq Demande

Init ==
    /\ comptes = [a \in Compte |-> [tel |-> Aucun, role |-> "CLIENT", statut |-> "ACTIF"]]
    /\ profils = [a \in Compte |-> 0]
    /\ demandes = [d \in Demande |-> [tel |-> Aucun, statut |-> "NOUVELLE", compte |-> Aucun]]
    /\ session = [s \in Session |-> Libre]
    /\ chevauche = {}

Existe(a)    == comptes[a].tel # Aucun
TelLibre(t)  == \A a \in Compte : comptes[a].tel # t

Debuter(s, op, cible, lu) ==
    /\ session[s] = Libre
    /\ session' = [session EXCEPT ![s] = [op |-> op, cible |-> cible, lu |-> lu]]
    /\ UNCHANGED <<comptes, profils, demandes, chevauche>>

Finir(s) == session' = [session EXCEPT ![s] = Libre]

Ecrit(colonne, lu, vers) == IF lu = vers THEN colonne ELSE vers

\* The answer is an error, or the client has gone: nothing is committed.
Abandon(s) ==
    /\ session[s] # Libre
    /\ Finir(s)
    /\ UNCHANGED <<comptes, profils, demandes, chevauche>>

-----------------------------------------------------------------------------
(* Registration *)

\* The telephone is tested here and inserted later; the unique index on it
\* makes the second of two inserts fail, which ends in Abandon.
Inserer(s, t, role, statut, a) ==
    /\ ~Existe(a)
    /\ TelLibre(t)
    /\ comptes' = [comptes EXCEPT ![a] = [tel |-> t, role |-> role, statut |-> statut]]
    /\ profils' = [profils EXCEPT ![a] = IF role = "CHAUFFEUR" THEN @ + 1 ELSE @]
    /\ Finir(s)

RoleDe(op) ==
    CASE op = "register" -> "CLIENT"
      [] op = "register_chauffeur" -> "CHAUFFEUR"
      [] op = "seed" -> "ADMIN"

Inscrire(s, op, t) == TelLibre(t) /\ Debuter(s, op, t, "rien")

Register(s, t)          == Inscrire(s, "register", t)
RegisterChauffeur(s, t) == Inscrire(s, "register_chauffeur", t)
SeedAdmins(s, t)        == Inscrire(s, "seed", t)

InscrireValider(s, a) ==
    /\ session[s].op \in {"register", "register_chauffeur", "seed"}
    /\ Inserer(s, session[s].cible, RoleDe(session[s].op), "ACTIF", a)
    /\ UNCHANGED <<demandes, chevauche>>

-----------------------------------------------------------------------------
(* Requests to become a driver *)

\* Public, as often as one likes and whatever the telephone.
SubmitDemande(d, t) ==
    /\ demandes[d].tel = Aucun
    /\ demandes' = [demandes EXCEPT ![d].tel = t]
    /\ UNCHANGED <<comptes, profils, session, chevauche>>

\* A rejected one may still be treated, and rejected again.
Repondre_mutSansGarde(s, d, op) ==
    /\ demandes[d].tel # Aucun
    /\ Debuter(s, op, d, demandes[d].statut)

Repondre(s, d, op) ==
    /\ demandes[d].tel # Aucun
    /\ demandes[d].statut # "TRAITEE"
    /\ Debuter(s, op, d, demandes[d].statut)

TraiterDemande(s, d) == Repondre(s, d, "traiter_lu")
RejeterDemande(s, d) == Repondre(s, d, "rejeter")

TraiterVerifier(s) ==
    /\ session[s].op = "traiter_lu"
    /\ TelLibre(demandes[session[s].cible].tel)
    /\ session' = [session EXCEPT ![s].op = "traiter"]
    /\ UNCHANGED <<comptes, profils, demandes, chevauche>>

NoteChevauche(s) ==
    LET d == session[s].cible IN
    chevauche' = chevauche \cup {x \in {d} : \E autre \in Session \ {s} :
        session[autre].op \in {"traiter_lu", "traiter", "rejeter"} /\ session[autre].cible = d}

TraiterValider(s, a) ==
    /\ session[s].op = "traiter"
    /\ LET d == session[s].cible IN
       /\ Inserer(s, demandes[d].tel, "CHAUFFEUR", "EN_ATTENTE_KYC", a)
       /\ demandes' = [demandes EXCEPT ![d].statut = "TRAITEE", ![d].compte = a]
    /\ NoteChevauche(s)

RejeterValider(s) ==
    /\ session[s].op = "rejeter"
    /\ demandes' = [demandes EXCEPT ![session[s].cible].statut = Ecrit(@, session[s].lu, "REJETEE")]
    /\ NoteChevauche(s)
    /\ Finir(s)
    /\ UNCHANGED <<comptes, profils>>

-----------------------------------------------------------------------------
(* The back office on an account *)

ConvertToChauffeur(s, a) ==
    /\ Existe(a)
    /\ comptes[a].role = "CLIENT"
    /\ Debuter(s, "convertir_lu", a, comptes[a].statut)

ConvertirVerifier(s) ==
    /\ session[s].op = "convertir_lu"
    /\ profils[session[s].cible] = 0
    /\ session' = [session EXCEPT ![s].op = "convertir"]
    /\ UNCHANGED <<comptes, profils, demandes, chevauche>>

\* The unique index on chauffeurs.user_id makes the second of two fail.
ConvertirValider_mutSansIndex(s) ==
    /\ session[s].op = "convertir"
    /\ LET a == session[s].cible IN
       /\ comptes' = [comptes EXCEPT ![a].role = "CHAUFFEUR",
                          ![a].statut = Ecrit(@, session[s].lu, "EN_ATTENTE_KYC")]
       /\ profils' = [profils EXCEPT ![a] = @ + 1]
    /\ Finir(s)
    /\ UNCHANGED <<demandes, chevauche>>

ConvertirValider(s) ==
    /\ session[s].op = "convertir"
    /\ LET a == session[s].cible IN
       /\ profils[a] = 0
       /\ comptes' = [comptes EXCEPT ![a].role = "CHAUFFEUR",
                          ![a].statut = Ecrit(@, session[s].lu, "EN_ATTENTE_KYC")]
       /\ profils' = [profils EXCEPT ![a] = @ + 1]
    /\ Finir(s)
    /\ UNCHANGED <<demandes, chevauche>>

\* suspend_user, activate_user and, by a user that is neither suspended nor
\* deleted, delete_me.
SuspendUser(s, a)  == Existe(a) /\ Debuter(s, "SUSPENDU", a, comptes[a].statut)
ActivateUser(s, a) == Existe(a) /\ Debuter(s, "ACTIF", a, comptes[a].statut)
DeleteMe(s, a) ==
    /\ Existe(a)
    /\ comptes[a].statut \notin {"SUSPENDU", "SUPPRIME"}
    /\ Debuter(s, "SUPPRIME", a, comptes[a].statut)

StatutValider_mutToujours(s) ==
    /\ session[s].op \in {"SUSPENDU", "ACTIF", "SUPPRIME"}
    /\ comptes' = [comptes EXCEPT ![session[s].cible].statut = session[s].op]
    /\ Finir(s)
    /\ UNCHANGED <<profils, demandes, chevauche>>

StatutValider(s) ==
    /\ session[s].op \in {"SUSPENDU", "ACTIF", "SUPPRIME"}
    /\ comptes' = [comptes EXCEPT ![session[s].cible].statut = Ecrit(@, session[s].lu, session[s].op)]
    /\ Finir(s)
    /\ UNCHANGED <<profils, demandes, chevauche>>

-----------------------------------------------------------------------------
Next ==
    \/ \E s \in Session, t \in Tel : Register(s, t) \/ RegisterChauffeur(s, t) \/ SeedAdmins(s, t)
    \/ \E s \in Session, a \in Compte : InscrireValider(s, a)
    \/ \E d \in Demande, t \in Tel : SubmitDemande(d, t)
    \/ \E s \in Session, d \in Demande : TraiterDemande(s, d) \/ RejeterDemande(s, d)
    \/ \E s \in Session : TraiterVerifier(s) \/ RejeterValider(s)
    \/ \E s \in Session, a \in Compte : TraiterValider(s, a)
    \/ \E s \in Session, a \in Compte : ConvertToChauffeur(s, a)
    \/ \E s \in Session : ConvertirVerifier(s) \/ ConvertirValider(s)
    \/ \E s \in Session, a \in Compte : SuspendUser(s, a) \/ ActivateUser(s, a) \/ DeleteMe(s, a)
    \/ \E s \in Session : StatutValider(s) \/ Abandon(s)

Spec == Init /\ [][Next]_vars

-----------------------------------------------------------------------------
(* Properties *)

\* A telephone has one account, whichever requests race to create it: the test
\* that it is free is not enough, get_by_telephone relies on the index.
UnCompteParTelephone ==
    \A a, b \in Compte : Existe(a) /\ comptes[a].tel = comptes[b].tel => a = b

\* An account has one profile of driver if its role is CHAUFFEUR and none
\* otherwise, whatever races: what _get_chauffeur_or_404 relies on, and why
\* me/setup, which creates a missing profile, always answers 409.
ProfilSsiChauffeur ==
    \A a \in Compte :
        profils[a] = IF Existe(a) /\ comptes[a].role = "CHAUFFEUR" THEN 1 ELSE 0

\* A treated request has the account of its telephone, a driver's; no account comes
\* from two requests; and a request that gave an account stays TRAITEE, unless a
\* rejection that had read it before overlapped the treatment and was committed later.
DemandeAvecCompte ==
    \A d \in Demande :
        /\ demandes[d].statut = "TRAITEE" => demandes[d].compte # Aucun
        /\ demandes[d].compte # Aucun =>
               /\ comptes[demandes[d].compte].tel = demandes[d].tel
               /\ comptes[demandes[d].compte].role = "CHAUFFEUR"
               /\ \A e \in Demande : demandes[e].compte = demandes[d].compte => e = d
               /\ d \notin chevauche => demandes[d].statut = "TRAITEE"

\* A suspended or deleted account becomes usable again only through a
\* conversion, or an activation that did not find it ACTIF: one that found it
\* ACTIF writes nothing over a suspension committed meanwhile.
RetourVoulu ==
    [][\A a \in Compte :
          comptes[a].statut \in {"SUSPENDU", "SUPPRIME"}
          /\ comptes'[a].statut \in {"ACTIF", "EN_ATTENTE_KYC"}
          => \E s \in Session :
                /\ session[s].cible = a
                /\ \/ session[s].op = "convertir"
                   \/ session[s].op = "ACTIF" /\ session[s].lu # "ACTIF"]_vars
=============================================================================
