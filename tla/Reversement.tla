----------------------------- MODULE Reversement ----------------------------
(***************************************************************************)
(* The end of a trip and the payout of its driver: the requests that end   *)
(* the trip, those that decide on its reservations or cancel it, and the   *)
(* driver's payout account, interleaved at the statements that matter.     *)
(*                                                                         *)
(* end_voyage reads the trip, then its CONFIRMEE reservations; the bulk    *)
(* update that follows flushes the trip's row, which locks it, and the     *)
(* rows it changes, until the commit.  The driver, his wallet and his      *)
(* payout account are read, and the operator is called, under that lock.   *)
(* A request that writes a locked row waits.  What is written under the    *)
(* lock is taken at the commit: nobody else sees it before.                *)
(*                                                                         *)
(* Withdrawals and transfers by the driver write the same wallet, and      *)
(* REVERSEMENT rows of their own.  One driver, who has been paid before,   *)
(* and one trip that has started; what else fills a wallet is in module    *)
(* Portefeuille.  A definition whose name ends in _mut... is a plausible   *)
(* mistake in the definition that follows it; no action uses it.           *)
(***************************************************************************)
EXTENDS Integers, FiniteSets

CONSTANTS
    Resa,         \* the reservations of the trip
    Total,        \* the sum of prix_total of each set of them
    Session,      \* the requests in progress at once
    Avoir,        \* what earlier trips brought to the wallet
    Montants,     \* amounts of withdrawals and transfers that are tried
    MaxCoupures,  \* bound: payouts cut off after the operator took the order
    MaxSorties    \* bound: sum of the rows of withdrawals and transfers

ASSUME TotalAssumption    == Total \in [SUBSET Resa -> Nat]
ASSUME CroissanceAssumption == \A S, T \in SUBSET Resa : S \subseteq T => Total[S] <= Total[T]
ASSUME SessionAssumption  == IsFiniteSet(Session)
ASSUME AvoirAssumption    == Avoir \in Nat /\ Montants \subseteq Nat \ {0}
ASSUME BornesAssumption   == MaxCoupures \in Nat /\ MaxSorties \in Nat

VARIABLES
    voyage,     \* voyages.statut
    resas,      \* statut of each reservation
    compte,     \* operateur of comptes_payout_chauffeurs
    revenus,    \* chauffeurs.revenus_total
    solde,      \* wallets.solde
    lignes,     \* sums of the rows of table transactions, see Lignes
    payees,     \* history: how many times the driver got the price of each reservation
    session,    \* the requests in progress
    chevauche,  \* history: two requests on the trip were in progress at once
    croise,     \* history: two requests had read the wallet at once
    coupures    \* counter, for the bound

base == <<voyage, resas, compte, revenus, solde, lignes>>
vars == <<voyage, resas, compte, revenus, solde, lignes, payees, session, chevauche, croise, coupures>>

StatutVoyage == {"EN_COURS", "TERMINE", "ANNULE"}
StatutReservation == {"EN_ATTENTE", "CONFIRMEE", "REFUSEE", "ANNULEE", "TERMINEE"}

\* "direct": MTN, Celtis, or the two calls of FedaPay; "sans_api": Moov and the others,
\* for which payer_chauffeur raises.
Directs == {"direct"}
Operateurs == Directs \cup {"sans_api"}

\* The REVERSEMENT rows of payer_chauffeur, EN_COURS or credited (REUSSI, ECHEC); those of
\* withdrawals and transfers, sent (EN_COURS, REUSSI) or refused (ECHEC); and what the rows
\* of withdrawals and transfers take from the wallet, with those EN_ATTENTE, less what a
\* transfer to oneself brings back.
Lignes == [direct : Nat, credit : Nat, sorties : Nat, refus : Nat, debits : Nat]

Sorties == {"retrait", "retrait_verrou", "transfert"}

Libre == [op |-> "libre"]
SessionRec ==
    {Libre}
      \cup [op : {"fin_voyage"}]
      \cup [op : {"fin_lues"}, lues : SUBSET Resa]
      \cup [op : {"fin_verrou"}, lues : SUBSET Resa, prises : SUBSET Resa,
            compte : Operateurs \cup {"aucun"}, revenus : Nat, solde : Nat]
      \cup [op : {"decision"}, r : Resa, vers : StatutReservation, places : BOOLEAN]
      \cup [op : {"annulation"}]
      \cup {t \in [op : Sorties, m : Montants, solde : Nat] : t.m <= t.solde}

TypeOK ==
    /\ voyage \in StatutVoyage
    /\ resas \in [Resa -> StatutReservation]
    /\ compte \in Operateurs \cup {"aucun"}
    /\ revenus \in Nat /\ solde \in Nat
    /\ lignes \in Lignes
    /\ payees \in [Resa -> Nat]
    /\ session \in [Session -> SessionRec]
    /\ chevauche \in BOOLEAN /\ croise \in BOOLEAN
    /\ coupures \in 0..MaxCoupures

\* The trip has just started, with reservations the driver accepted or has yet to; earlier
\* ones were credited.
Init ==
    /\ voyage = "EN_COURS"
    /\ resas \in [Resa -> {"EN_ATTENTE", "CONFIRMEE"}]
    /\ compte \in Operateurs \cup {"aucun"}
    /\ revenus = Avoir /\ solde = Avoir
    /\ lignes = [direct |-> 0, credit |-> Avoir, sorties |-> 0, refus |-> 0, debits |-> 0]
    /\ payees = [r \in Resa |-> 0]
    /\ session = [s \in Session |-> Libre]
    /\ chevauche = FALSE /\ croise = FALSE
    /\ coupures = 0

\* me/revenus: the REVERSEMENT rows EN_COURS, REUSSI or ECHEC of the wallet, whoever wrote
\* them, added up over a day, a week or a month; here over all time, like revenus_total.
Revenus == lignes.direct + lignes.credit + lignes.sorties + lignes.refus

-----------------------------------------------------------------------------
(* Requests and locks *)

SurVoyage(s) == session[s].op \notin Sorties \cup {"libre"}
SurSolde(s)  == session[s].op \in Sorties \cup {"fin_verrou"}

Debuter(s, etat) ==
    /\ session[s] = Libre
    /\ session' = [session EXCEPT ![s] = etat]
    /\ chevauche' = (chevauche \/ \E u \in Session : SurVoyage(u))

\* A request reads the wallet.
LireSolde == croise' = (croise \/ \E u \in Session : SurSolde(u))

Poursuivre(s, etat) == session' = [session EXCEPT ![s] = etat]

Verrouille(s) == session[s].op = "fin_verrou"
VoyageLibre == \A s \in Session : ~Verrouille(s)
ResaLibre(r) == \A s \in Session : Verrouille(s) => r \notin session[s].prises
SoldeLibre == \A s \in Session : session[s].op # "retrait_verrou"

\* The request fails and its session is rolled back.
Abandon(s) ==
    /\ session[s] # Libre
    /\ Poursuivre(s, Libre)
    /\ UNCHANGED <<base, payees, chevauche, croise, coupures>>

-----------------------------------------------------------------------------
(* end_voyage *)

FinLireVoyage_mutSansGarde(s) ==
    /\ Debuter(s, [op |-> "fin_voyage"])
    /\ UNCHANGED <<base, payees, croise, coupures>>

FinLireVoyage(s) ==
    /\ voyage = "EN_COURS"
    /\ Debuter(s, [op |-> "fin_voyage"])
    /\ UNCHANGED <<base, payees, croise, coupures>>

FinLireResas_mutSansStatut(s) ==
    /\ session[s].op = "fin_voyage"
    /\ Poursuivre(s, [op |-> "fin_lues", lues |-> Resa])
    /\ UNCHANGED <<base, payees, chevauche, croise, coupures>>

FinLireResas(s) ==
    /\ session[s].op = "fin_voyage"
    /\ Poursuivre(s, [op |-> "fin_lues", lues |-> {r \in Resa : resas[r] = "CONFIRMEE"}])
    /\ UNCHANGED <<base, payees, chevauche, croise, coupures>>

Verrou(s) ==
    [op |-> "fin_verrou", lues |-> session[s].lues,
     prises |-> {r \in Resa : resas[r] = "CONFIRMEE"},
     compte |-> compte, revenus |-> revenus, solde |-> solde]

FinVerrouiller_mutSansFlush(s) ==
    /\ session[s].op = "fin_lues"
    /\ Poursuivre(s, Verrou(s))
    /\ LireSolde
    /\ UNCHANGED <<base, payees, chevauche, coupures>>

\* The flush and the bulk update, once the locks are free; then the driver, the wallet and
\* the payout account are read.
FinVerrouiller(s) ==
    /\ session[s].op = "fin_lues"
    /\ VoyageLibre
    /\ Poursuivre(s, Verrou(s))
    /\ LireSolde
    /\ UNCHANGED <<base, payees, chevauche, coupures>>

Clore(s) ==
    /\ voyage' = "TERMINE"
    /\ resas' = [r \in Resa |-> IF r \in session[s].prises THEN "TERMINEE" ELSE resas[r]]
    /\ Poursuivre(s, Libre)

\* The driver gets the price of the reservations that were read.
Remettre(s) == payees' = [r \in Resa |-> IF r \in session[s].lues THEN payees[r] + 1 ELSE payees[r]]

Du(s) == Total[session[s].lues]

FinSansVersement(s) ==
    /\ Verrouille(s) /\ Du(s) = 0
    /\ Clore(s)
    /\ UNCHANGED <<compte, revenus, solde, lignes, payees, chevauche, croise, coupures>>

\* The operator took the order: the row is EN_COURS.
FinVersementDirect(s) ==
    /\ Verrouille(s) /\ Du(s) > 0
    /\ session[s].compte \in Directs
    /\ revenus' = session[s].revenus + Du(s)
    /\ lignes' = [lignes EXCEPT !.direct = @ + Du(s)]
    /\ Remettre(s)
    /\ Clore(s)
    /\ UNCHANGED <<compte, solde, chevauche, croise, coupures>>

FinVersementCredit_mutSansRepli(s) ==
    /\ Verrouille(s) /\ Du(s) > 0
    /\ session[s].compte = "aucun"
    /\ SoldeLibre
    /\ solde' = session[s].solde + Du(s)
    /\ revenus' = session[s].revenus + Du(s)
    /\ lignes' = [lignes EXCEPT !.credit = @ + Du(s)]
    /\ Remettre(s)
    /\ Clore(s)
    /\ UNCHANGED <<compte, chevauche, croise, coupures>>

\* No payout account (row REUSSI), an operator without payouts, or one that refuses, the
\* second call of FedaPay included (row ECHEC): the wallet is credited, once its row is free.
FinVersementCredit(s) ==
    /\ Verrouille(s) /\ Du(s) > 0
    /\ SoldeLibre
    /\ solde' = session[s].solde + Du(s)
    /\ revenus' = session[s].revenus + Du(s)
    /\ lignes' = [lignes EXCEPT !.credit = @ + Du(s)]
    /\ Remettre(s)
    /\ Clore(s)
    /\ UNCHANGED <<compte, chevauche, croise, coupures>>

\* httpx times out, or the process dies, after the operator took the order: all is rolled
\* back and the trip is still EN_COURS.
FinVersementPerdu(s) ==
    /\ Verrouille(s) /\ Du(s) > 0
    /\ session[s].compte \in Directs
    /\ coupures < MaxCoupures /\ coupures' = coupures + 1
    /\ Remettre(s)
    /\ Poursuivre(s, Libre)
    /\ UNCHANGED <<base, chevauche, croise>>

Fin(s) == FinSansVersement(s) \/ FinVersementDirect(s) \/ FinVersementCredit(s)

-----------------------------------------------------------------------------
(* Decisions on a reservation, cancellation of the trip by the back office *)

\* accept, reject (places are only given back before the departure), cancel by the client
\* or the driver, which writes the trip's row, cancel by the back office, which does not.
Decisions ==
    [de : {"EN_ATTENTE"}, vers : {"CONFIRMEE", "REFUSEE"}, places : {FALSE}]
      \cup [de : {"EN_ATTENTE", "CONFIRMEE"}, vers : {"ANNULEE"}, places : BOOLEAN]

DeciderLire(s, r, d) ==
    /\ resas[r] = d.de
    /\ Debuter(s, [op |-> "decision", r |-> r, vers |-> d.vers,
                   places |-> d.places /\ voyage = "EN_COURS"])
    /\ UNCHANGED <<base, payees, croise, coupures>>

DeciderValider(s) ==
    /\ session[s].op = "decision"
    /\ ResaLibre(session[s].r)
    /\ session[s].places => VoyageLibre
    /\ resas' = [resas EXCEPT ![session[s].r] = session[s].vers]
    /\ Poursuivre(s, Libre)
    /\ UNCHANGED <<voyage, compte, revenus, solde, lignes, payees, chevauche, croise, coupures>>

AnnulerVoyageLire(s) ==
    /\ voyage = "EN_COURS"
    /\ Debuter(s, [op |-> "annulation"])
    /\ UNCHANGED <<base, payees, croise, coupures>>

AnnulerVoyageValider(s) ==
    /\ session[s].op = "annulation"
    /\ VoyageLibre
    /\ voyage' = "ANNULE"
    /\ resas' = [r \in Resa |-> IF resas[r] \in {"EN_ATTENTE", "CONFIRMEE"} THEN "ANNULEE" ELSE resas[r]]
    /\ Poursuivre(s, Libre)
    /\ UNCHANGED <<compte, revenus, solde, lignes, payees, chevauche, croise, coupures>>

-----------------------------------------------------------------------------
(* Withdrawals and transfers by the driver *)

SortirLire(s, op, m) ==
    /\ solde >= m
    /\ lignes.sorties + lignes.refus + lignes.debits < MaxSorties
    /\ session[s] = Libre
    /\ Poursuivre(s, [op |-> op, m |-> m, solde |-> solde])
    /\ LireSolde
    /\ UNCHANGED <<base, payees, chevauche, coupures>>

RetraitLire(s, m)   == SortirLire(s, "retrait", m)
TransfertLire(s, m) == SortirLire(s, "transfert", m)

\* The flush of the debit locks the wallet's row while the operator is called.
RetraitVerrouiller(s) ==
    /\ session[s].op = "retrait"
    /\ SoldeLibre
    /\ Poursuivre(s, [session[s] EXCEPT !.op = "retrait_verrou"])
    /\ UNCHANGED <<base, payees, chevauche, croise, coupures>>

\* The commit of a request that leaves the wallet with reste, and these rows.
Sortir(s, reste, rangees) ==
    /\ solde' = reste
    /\ lignes' = rangees
    /\ Poursuivre(s, Libre)
    /\ UNCHANGED <<voyage, resas, compte, revenus, payees, chevauche, croise, coupures>>

Reste(s) == session[s].solde - session[s].m

\* The operator took the payout (row EN_COURS).
RetraitParti(s) ==
    /\ session[s].op = "retrait_verrou"
    /\ Sortir(s, Reste(s), [lignes EXCEPT !.sorties = @ + session[s].m, !.debits = @ + session[s].m])

\* Orange, Moov: to be paid by hand (row EN_ATTENTE).
RetraitManuel(s) ==
    /\ session[s].op = "retrait_verrou"
    /\ Sortir(s, Reste(s), [lignes EXCEPT !.debits = @ + session[s].m])

\* The operator refuses (row ECHEC), or is not one (row ANNULE): the balance that was read
\* is written back.
RetraitRefuse(s) ==
    /\ session[s].op = "retrait_verrou"
    /\ \/ Sortir(s, session[s].solde, [lignes EXCEPT !.refus = @ + session[s].m])
       \/ Sortir(s, session[s].solde, lignes)

\* To another user (row REUSSI).
TransfertValider(s) ==
    /\ session[s].op = "transfert"
    /\ SoldeLibre
    /\ Sortir(s, Reste(s), [lignes EXCEPT !.sorties = @ + session[s].m, !.debits = @ + session[s].m])

\* To himself: the session's one wallet ends as it was and is not written, and the rows of
\* the two sides are.
TransfertASoi(s) ==
    /\ session[s].op = "transfert"
    /\ Sortir(s, solde, [lignes EXCEPT !.sorties = @ + session[s].m])

Retirer(s) == RetraitParti(s) \/ RetraitManuel(s) \/ RetraitRefuse(s)
Transferer(s) == TransfertValider(s) \/ TransfertASoi(s)

-----------------------------------------------------------------------------
(* The payout account, by the driver or the back office *)

UpsertCompte(o) ==
    /\ compte' = o
    /\ UNCHANGED <<voyage, resas, revenus, solde, lignes, payees, session, chevauche, croise, coupures>>

DeleteCompte ==
    /\ compte # "aucun"
    /\ compte' = "aucun"
    /\ UNCHANGED <<voyage, resas, revenus, solde, lignes, payees, session, chevauche, croise, coupures>>

\* The back office sets and deletes the account of a driver in the same way.
AdminUpsertCompte(o) == UpsertCompte(o)
AdminDeleteCompte    == DeleteCompte

GererCompte ==
    \/ \E o \in Operateurs : UpsertCompte(o) \/ AdminUpsertCompte(o)
    \/ DeleteCompte \/ AdminDeleteCompte

Next ==
    \/ \E s \in Session :
          \/ Abandon(s)
          \/ FinLireVoyage(s) \/ FinLireResas(s) \/ FinVerrouiller(s)
          \/ Fin(s) \/ FinVersementPerdu(s)
          \/ \E r \in Resa, d \in Decisions : DeciderLire(s, r, d)
          \/ DeciderValider(s)
          \/ AnnulerVoyageLire(s) \/ AnnulerVoyageValider(s)
          \/ \E m \in Montants : RetraitLire(s, m) \/ TransfertLire(s, m)
          \/ RetraitVerrouiller(s) \/ Retirer(s) \/ Transferer(s)
    \/ GererCompte

Spec == Init /\ [][Next]_vars

\* A request runs on: the calls time out after 30 s, and PostgreSQL serves the requests
\* that wait for a lock in their order of arrival.
FairSpec ==
    /\ Spec
    /\ \A s \in Session :
          /\ WF_vars(FinLireResas(s) \/ Retirer(s))
          /\ SF_vars(FinVerrouiller(s) \/ DeciderValider(s) \/ AnnulerVoyageValider(s))
          /\ SF_vars(Fin(s) \/ RetraitVerrouiller(s) \/ Transferer(s))

-----------------------------------------------------------------------------
(* Properties *)

\* What me/revenus adds up is what the driver has earned and, on top of it, what he took out
\* or tried to, whatever overlaps: no end of a trip writes back an income read before another
\* one's commit.  And his wallet holds what was credited, less what the rows of his
\* withdrawals and transfers took, unless two requests had read it at once.
RevenuComptable ==
    /\ Revenus = revenus + lignes.sorties + lignes.refus
    /\ ~croise => solde = lignes.credit - lignes.debits

\* As long as no two requests on the trip overlap and no payout is cut off, the driver of a
\* finished trip was paid once for each reservation travelled, and for no other.
VersementExact ==
    ~chevauche /\ coupures = 0 /\ voyage = "TERMINE" =>
        \A r \in Resa : Total[{r}] > 0 => payees[r] = IF resas[r] = "TERMINEE" THEN 1 ELSE 0

\* However the requests overlap, if no payout is cut off the price of a reservation is paid
\* at most once by each request that was in progress when the trip was closed.
PaiementBorne ==
    coupures = 0 => \A r \in Resa : payees[r] <= Cardinality(Session)

\* No request waits for ever for the rows that another one holds.
RequeteAboutit == \A s \in Session : session[s] # Libre ~> session[s] = Libre

=============================================================================
