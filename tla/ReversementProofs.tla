-------------------------- MODULE ReversementProofs -------------------------
(***************************************************************************)
(* Theorems about Reversement: what the driver earned follows the rows of  *)
(* the transactions, because the trip's row is locked while it is in hand, *)
(* and his wallet does unless two requests had read it at once; a trip is  *)
(* not paid more often than there were requests when it was closed, and    *)
(* each reservation exactly once when nothing overlapped.                  *)
(***************************************************************************)
EXTENDS Reversement, FiniteSetTheorems, TLAPS

\* Two ends of the trip are never both past their flush.
Exclusion ==
    \A s, u \in Session : Verrouille(s) /\ Verrouille(u) => s = u

\* What the driver earned, in the hands of the holder of the lock, is what the table says.
Lus == \A s \in Session : Verrouille(s) => session[s].revenus = revenus

\* A wallet that no two requests have read at once is in the hands of one at most, as it is.
SoldeLu ==
    ~croise =>
        /\ \A s, u \in Session : SurSolde(s) /\ SurSolde(u) => s = u
        /\ \A s \in Session : SurSolde(s) => session[s].solde = solde

\* The ends of the trip in progress, each of which may still pay.
Fins == {s \in Session : session[s].op \in {"fin_voyage", "fin_lues", "fin_verrou"}}

Paiements ==
    coupures = 0 =>
        \A r \in Resa :
            /\ voyage = "EN_COURS" => payees[r] = 0
            /\ payees[r] + Cardinality(Fins) <= Cardinality(Session)

IInv == TypeOK /\ Exclusion /\ Lus /\ SoldeLu /\ RevenuComptable

-----------------------------------------------------------------------------
(* Type correctness *)

\* What a request in progress holds, by what it is.
LEMMA SessionCas ==
    ASSUME TypeOK, NEW s \in Session
    PROVE  /\ session[s].op = "fin_lues" => session[s].lues \in SUBSET Resa
           /\ session[s].op = "fin_verrou" =>
                  /\ session[s].lues \in SUBSET Resa /\ session[s].prises \in SUBSET Resa
                  /\ session[s].revenus \in Nat /\ session[s].solde \in Nat
           /\ session[s].op = "decision" =>
                  session[s].r \in Resa /\ session[s].vers \in StatutReservation
           /\ session[s].op \in Sorties =>
                  /\ session[s].m \in Montants /\ session[s].solde \in Nat
                  /\ session[s].m <= session[s].solde
  BY DEF TypeOK, SessionRec, Libre, Sorties

LEMMA PoursuivreType ==
    ASSUME TypeOK, NEW s \in Session, NEW etat \in SessionRec, Poursuivre(s, etat)
    PROVE  /\ session' \in [Session -> SessionRec]
           /\ \A u \in Session : session'[u] = IF u = s THEN etat ELSE session[u]
  BY DEF TypeOK, Poursuivre

LEMMA DebuterType ==
    ASSUME TypeOK, NEW s \in Session, NEW etat \in SessionRec, Debuter(s, etat)
    PROVE  /\ session' \in [Session -> SessionRec] /\ chevauche' \in BOOLEAN
           /\ \A u \in Session : session'[u] = IF u = s THEN etat ELSE session[u]
  BY DEF TypeOK, Debuter

LEMMA LibreType == Libre \in SessionRec
  BY DEF SessionRec

LEMMA VerrouType ==
    ASSUME TypeOK, NEW s \in Session, session[s].op = "fin_lues"
    PROVE  /\ Verrou(s) \in SessionRec /\ Verrou(s).op = "fin_verrou"
           /\ Verrou(s).revenus = revenus /\ Verrou(s).solde = solde
<1>1. session[s].lues \in SUBSET Resa
  BY SessionCas
<1> QED
  BY <1>1 DEF Verrou, SessionRec, TypeOK

\* The requests that only read.
Lecture(s) ==
    \/ FinLireVoyage(s) \/ FinLireResas(s) \/ FinVerrouiller(s) \/ AnnulerVoyageLire(s)
    \/ \E r \in Resa, d \in Decisions : DeciderLire(s, r, d)
    \/ \E m \in Montants : RetraitLire(s, m) \/ TransfertLire(s, m)
    \/ RetraitVerrouiller(s)

LEMMA LectureEffet ==
    ASSUME TypeOK, NEW s \in Session, Lecture(s)
    PROVE  /\ UNCHANGED <<voyage, resas, compte, revenus, solde, lignes, payees, coupures>>
           /\ chevauche' \in BOOLEAN /\ croise' \in BOOLEAN
           /\ \E etat \in SessionRec :
                 /\ session' \in [Session -> SessionRec]
                 /\ \A u \in Session : session'[u] = IF u = s THEN etat ELSE session[u]
                 /\ etat.op \in {"fin_voyage", "fin_lues", "fin_verrou"} =>
                        s \in Fins \/ voyage = "EN_COURS"
                 /\ etat.op = "fin_verrou" =>
                        VoyageLibre /\ etat.revenus = revenus
<1>0. chevauche \in BOOLEAN /\ croise \in BOOLEAN
  BY DEF TypeOK
<1>1. CASE FinLireVoyage(s)
  <2>1. [op |-> "fin_voyage"] \in SessionRec
    BY DEF SessionRec
  <2> QED
    BY <1>0, <1>1, <2>1, DebuterType DEF FinLireVoyage, base
<1>2. CASE FinLireResas(s)
  <2> DEFINE lues == {r \in Resa : resas[r] = "CONFIRMEE"}
  <2>1. [op |-> "fin_lues", lues |-> lues] \in SessionRec
    BY DEF SessionRec
  <2> QED
    BY <1>0, <1>2, <2>1, PoursuivreType DEF FinLireResas, Fins, base
<1>3. CASE FinVerrouiller(s)
  <2>1. croise' \in BOOLEAN
    BY <1>0, <1>3 DEF FinVerrouiller, LireSolde
  <2> QED
    BY <1>0, <1>3, <2>1, VerrouType, PoursuivreType DEF FinVerrouiller, Fins, base
<1>4. CASE AnnulerVoyageLire(s)
  <2>1. [op |-> "annulation"] \in SessionRec
    BY DEF SessionRec
  <2> QED
    BY <1>0, <1>4, <2>1, DebuterType DEF AnnulerVoyageLire, base
<1>5. ASSUME NEW r \in Resa, NEW d \in Decisions, DeciderLire(s, r, d)
      PROVE  /\ UNCHANGED <<voyage, resas, compte, revenus, solde, lignes, payees, coupures>>
             /\ chevauche' \in BOOLEAN /\ croise' \in BOOLEAN
             /\ \E etat \in SessionRec :
                   /\ session' \in [Session -> SessionRec]
                   /\ \A u \in Session : session'[u] = IF u = s THEN etat ELSE session[u]
                   /\ etat.op = "decision"
  <2> DEFINE etat == [op |-> "decision", r |-> r, vers |-> d.vers,
                      places |-> (d.places /\ voyage = "EN_COURS")]
  <2>1. d.vers \in StatutReservation /\ d.places \in BOOLEAN
    BY DEF Decisions, StatutReservation
  <2>2. (d.places /\ voyage = "EN_COURS") \in BOOLEAN
    OBVIOUS
  <2>3. etat \in SessionRec
    BY <2>1, <2>2 DEF SessionRec
  <2>4. Debuter(s, etat)
    BY <1>5 DEF DeciderLire
  <2>5. etat.op = "decision"
    OBVIOUS
  <2> HIDE DEF etat
  <2> QED
    BY <1>0, <1>5, <2>3, <2>4, <2>5, DebuterType DEF DeciderLire, base
<1>6. ASSUME NEW m \in Montants, NEW op \in {"retrait", "transfert"}, SortirLire(s, op, m)
      PROVE  /\ UNCHANGED <<voyage, resas, compte, revenus, solde, lignes, payees, coupures>>
             /\ chevauche' \in BOOLEAN /\ croise' \in BOOLEAN
             /\ \E etat \in SessionRec :
                   /\ session' \in [Session -> SessionRec]
                   /\ \A u \in Session : session'[u] = IF u = s THEN etat ELSE session[u]
                   /\ etat.op \in {"retrait", "transfert"}
  <2>0. m <= solde
    BY <1>6 DEF SortirLire
  <2>1. [op |-> op, m |-> m, solde |-> solde] \in SessionRec
    BY <2>0 DEF SessionRec, Sorties, TypeOK
  <2>2. croise' \in BOOLEAN
    BY <1>0, <1>6 DEF SortirLire, LireSolde
  <2> QED
    BY <1>0, <1>6, <2>1, <2>2, PoursuivreType DEF SortirLire, base
<1>7. CASE RetraitVerrouiller(s)
  <2> DEFINE etat == [session[s] EXCEPT !.op = "retrait_verrou"]
  <2>1. etat \in SessionRec /\ etat.op = "retrait_verrou"
    BY <1>7 DEF RetraitVerrouiller, TypeOK, SessionRec, Libre, Sorties
  <2> HIDE DEF etat
  <2> QED
    BY <1>0, <1>7, <2>1, PoursuivreType DEF RetraitVerrouiller, base, etat
<1> QED
  BY <1>1, <1>2, <1>3, <1>4, <1>5, <1>6, <1>7 DEF Lecture, RetraitLire, TransfertLire

\* The ends of requests: each one leaves its session free.
Issue(s) ==
    \/ Abandon(s) \/ Fin(s) \/ FinVersementPerdu(s) \/ DeciderValider(s) \/ AnnulerVoyageValider(s)
    \/ Retirer(s) \/ Transferer(s)

\* The commit of a withdrawal or a transfer: what it leaves in the wallet and in the rows.
LEMMA SortieEffet ==
    ASSUME TypeOK, NEW s \in Session, Retirer(s) \/ Transferer(s)
    PROVE  /\ Poursuivre(s, Libre) /\ session[s].op \in Sorties
           /\ UNCHANGED <<voyage, resas, compte, revenus, payees, chevauche, croise, coupures>>
           /\ solde' \in Nat /\ lignes' \in Lignes
           /\ lignes'.direct = lignes.direct /\ lignes'.credit = lignes.credit
           /\ session[s].solde = solde => solde' + lignes'.debits = solde + lignes.debits
<1>1. session[s].op \in Sorties
  BY DEF Retirer, RetraitParti, RetraitManuel, RetraitRefuse, Transferer, TransfertValider,
     TransfertASoi, Sorties
<1>2. /\ session[s].m \in Nat /\ session[s].solde \in Nat /\ session[s].m <= session[s].solde
      /\ solde \in Nat /\ lignes \in Lignes
  BY <1>1, SessionCas, AvoirAssumption DEF TypeOK
<1>3. CASE RetraitParti(s) \/ TransfertValider(s)
  <2>1. Sortir(s, Reste(s), [lignes EXCEPT !.sorties = @ + session[s].m,
                                          !.debits = @ + session[s].m])
    BY <1>3 DEF RetraitParti, TransfertValider
  <2>2. /\ lignes' \in Lignes /\ lignes'.debits = lignes.debits + session[s].m
        /\ lignes'.direct = lignes.direct /\ lignes'.credit = lignes.credit
    <3> DEFINE rangees == [lignes EXCEPT !.sorties = lignes.sorties + session[s].m,
                                         !.debits = lignes.debits + session[s].m]
    <3>1. lignes' = rangees
      BY <2>1 DEF Sortir
    <3>2. lignes.sorties + session[s].m \in Nat /\ lignes.debits + session[s].m \in Nat
      BY <1>2 DEF Lignes
    <3>3. /\ rangees \in Lignes /\ rangees.debits = lignes.debits + session[s].m
          /\ rangees.direct = lignes.direct /\ rangees.credit = lignes.credit
      BY <1>2, <3>2 DEF Lignes
    <3> QED
      BY <3>1, <3>3
  <2>3. solde' = session[s].solde - session[s].m /\ lignes.debits \in Nat
    BY <1>2, <2>1 DEF Sortir, Reste, Lignes
  <2> QED
    BY <1>1, <1>2, <2>1, <2>2, <2>3 DEF Sortir
<1>4. CASE RetraitManuel(s)
  BY <1>1, <1>2, <1>4 DEF RetraitManuel, Sortir, Reste, Lignes
<1>5. CASE RetraitRefuse(s)
  BY <1>1, <1>2, <1>5 DEF RetraitRefuse, Sortir, Lignes
<1>6. CASE TransfertASoi(s)
  BY <1>1, <1>2, <1>6 DEF TransfertASoi, Sortir, Lignes
<1> QED
  BY <1>3, <1>4, <1>5, <1>6 DEF Retirer, Transferer

LEMMA IssueEffet ==
    ASSUME TypeOK, NEW s \in Session, Issue(s)
    PROVE  /\ session' \in [Session -> SessionRec]
           /\ \A u \in Session : session'[u] = IF u = s THEN Libre ELSE session[u]
           /\ session[s] # Libre /\ chevauche' = chevauche /\ croise' = croise
<1>1. Poursuivre(s, Libre)
  BY SortieEffet DEF Issue, Abandon, Fin, FinSansVersement, FinVersementDirect,
     FinVersementCredit, Clore, FinVersementPerdu, DeciderValider, AnnulerVoyageValider
<1>2. session[s] # Libre /\ chevauche' = chevauche /\ croise' = croise
  <2>1. CASE Retirer(s) \/ Transferer(s)
    BY <2>1, SortieEffet DEF Sorties, Libre
  <2>2. CASE ~(Retirer(s) \/ Transferer(s))
    BY <2>2 DEF Issue, Abandon, Fin, FinSansVersement, FinVersementDirect, FinVersementCredit,
       FinVersementPerdu, DeciderValider, AnnulerVoyageValider, Verrouille, Libre
  <2> QED
    BY <2>1, <2>2
<1> QED
  BY <1>1, <1>2, LibreType, PoursuivreType

\* The steps of Next, regrouped.
LEMMA NextCas ==
    ASSUME [Next]_vars
    PROVE  \/ \E s \in Session : Lecture(s) \/ Issue(s)
           \/ GererCompte
           \/ UNCHANGED vars
  BY DEF Next, Lecture, Issue

\* What an end of the trip is about to pay.
LEMMA DuType ==
    ASSUME TypeOK, NEW s \in Session, Verrouille(s)
    PROVE  Du(s) \in Nat
  BY SessionCas, TotalAssumption DEF Verrouille, Du

LEMMA InitType == Init => TypeOK
<1> SUFFICES ASSUME Init
             PROVE  TypeOK
  OBVIOUS
<1>1. session \in [Session -> SessionRec]
  BY LibreType DEF Init
<1>2. resas \in [Resa -> StatutReservation]
  BY DEF Init, StatutReservation
<1>3. coupures \in 0..MaxCoupures /\ lignes \in Lignes /\ revenus \in Nat /\ solde \in Nat
  BY BornesAssumption, AvoirAssumption DEF Init, Lignes
<1> QED
  BY <1>1, <1>2, <1>3 DEF Init, TypeOK, StatutVoyage

LEMMA RemettreType ==
    ASSUME TypeOK, NEW s \in Session, Remettre(s)
    PROVE  payees' \in [Resa -> Nat]
  BY DEF Remettre, TypeOK

LEMMA CloreType ==
    ASSUME TypeOK, NEW s \in Session, Clore(s)
    PROVE  voyage' = "TERMINE" /\ resas' \in [Resa -> StatutReservation]
  BY DEF Clore, TypeOK, StatutReservation

LEMMA NextType == TypeOK /\ [Next]_vars => TypeOK'
<1> SUFFICES ASSUME TypeOK, [Next]_vars
             PROVE  TypeOK'
  OBVIOUS
<1>1. ASSUME NEW s \in Session, Lecture(s)
      PROVE  TypeOK'
  BY <1>1, LectureEffet DEF TypeOK
<1>2. ASSUME NEW s \in Session, Abandon(s)
      PROVE  TypeOK'
  BY <1>2, IssueEffet DEF Issue, Abandon, base, TypeOK
<1>3. ASSUME NEW s \in Session, Fin(s)
      PROVE  TypeOK'
  <2>1. Verrouille(s) /\ Clore(s) /\ Issue(s)
    BY <1>3 DEF Fin, FinSansVersement, FinVersementDirect, FinVersementCredit, Issue
  <2>2. Du(s) \in Nat /\ session[s].revenus \in Nat /\ session[s].solde \in Nat
    BY <2>1, DuType, SessionCas DEF Verrouille
  <2>3. session' \in [Session -> SessionRec] /\ chevauche' \in BOOLEAN /\ croise' \in BOOLEAN
    BY <2>1, IssueEffet DEF TypeOK
  <2>4. payees' \in [Resa -> Nat]
    BY <1>3, RemettreType DEF Fin, FinSansVersement, FinVersementDirect, FinVersementCredit, TypeOK
  <2>5. /\ revenus' \in Nat /\ solde' \in Nat /\ lignes' \in Lignes
        /\ UNCHANGED <<compte, coupures>>
    BY <1>3, <2>2 DEF Fin, FinSansVersement, FinVersementDirect, FinVersementCredit, Lignes, TypeOK
  <2> QED
    BY <2>1, <2>3, <2>4, <2>5, CloreType DEF TypeOK, StatutVoyage
<1>4. ASSUME NEW s \in Session, FinVersementPerdu(s)
      PROVE  TypeOK'
  <2>2. session' \in [Session -> SessionRec] /\ chevauche' \in BOOLEAN /\ croise' \in BOOLEAN
    BY <1>4, IssueEffet DEF Issue, TypeOK
  <2>3. coupures' \in 0..MaxCoupures
    BY <1>4, BornesAssumption DEF FinVersementPerdu, TypeOK
  <2>4. payees' \in [Resa -> Nat]
    BY <1>4, RemettreType DEF FinVersementPerdu, TypeOK
  <2> QED
    BY <1>4, <2>2, <2>3, <2>4 DEF FinVersementPerdu, base, TypeOK
<1>5. ASSUME NEW s \in Session, DeciderValider(s) \/ AnnulerVoyageValider(s)
      PROVE  TypeOK'
  <2>1. session' \in [Session -> SessionRec] /\ chevauche' \in BOOLEAN /\ croise' \in BOOLEAN
    BY <1>5, IssueEffet DEF Issue, TypeOK
  <2>2. resas' \in [Resa -> StatutReservation]
    BY <1>5, SessionCas DEF DeciderValider, AnnulerVoyageValider, TypeOK, StatutReservation
  <2> QED
    BY <1>5, <2>1, <2>2 DEF DeciderValider, AnnulerVoyageValider, TypeOK, StatutVoyage
<1>6. CASE GererCompte
  BY <1>6 DEF GererCompte, AdminUpsertCompte, AdminDeleteCompte, UpsertCompte, DeleteCompte, TypeOK
<1>7. CASE UNCHANGED vars
  BY <1>7 DEF vars, TypeOK
<1>8. ASSUME NEW s \in Session, Retirer(s) \/ Transferer(s)
      PROVE  TypeOK'
  <2>1. session' \in [Session -> SessionRec] /\ chevauche' \in BOOLEAN /\ croise' \in BOOLEAN
    BY <1>8, IssueEffet DEF Issue, TypeOK
  <2> QED
    BY <1>8, <2>1, SortieEffet DEF TypeOK
<1> QED
  BY <1>1, <1>2, <1>3, <1>4, <1>5, <1>6, <1>7, <1>8, NextCas DEF Issue

\* Every reachable state keeps the shape of the tables and of the requests in progress.
THEOREM TypeCorrect == Spec => []TypeOK
  BY InitType, NextType, PTL DEF Spec

-----------------------------------------------------------------------------
(* The totals, under the lock *)

\* The lock is held by one session, which took it when nobody did.
LEMMA NextExclusion == IInv /\ [Next]_vars => Exclusion'
<1> SUFFICES ASSUME IInv, [Next]_vars
             PROVE  Exclusion'
  OBVIOUS
<1>1. ASSUME NEW s \in Session, Lecture(s)
      PROVE  Exclusion'
  BY <1>1, LectureEffet DEF IInv, Exclusion, Verrouille, VoyageLibre
<1>2. ASSUME NEW s \in Session, Issue(s)
      PROVE  Exclusion'
  BY <1>2, IssueEffet DEF IInv, Exclusion, Verrouille, Libre
<1>3. CASE UNCHANGED session
  BY <1>3 DEF IInv, Exclusion, Verrouille
<1>4. GererCompte \/ UNCHANGED vars => UNCHANGED session
  BY DEF GererCompte, AdminUpsertCompte, AdminDeleteCompte, UpsertCompte, DeleteCompte, vars
<1> QED
  BY <1>1, <1>2, <1>3, <1>4, NextCas

\* Only the holder of the lock moves what the driver earned, and it lets the lock go.
LEMMA NextLus == IInv /\ [Next]_vars => Lus'
<1> SUFFICES ASSUME IInv, [Next]_vars
             PROVE  Lus'
  OBVIOUS
<1>1. ASSUME NEW s \in Session, Lecture(s)
      PROVE  Lus'
  BY <1>1, LectureEffet DEF IInv, Lus, Verrouille
<1>2. ASSUME NEW s \in Session, Issue(s)
      PROVE  Lus'
  <2>1. CASE Verrouille(s)
    BY <1>2, <2>1, IssueEffet DEF IInv, Exclusion, Lus, Verrouille, Libre
  <2>2. CASE ~Verrouille(s)
    <3>1. UNCHANGED revenus
      BY <1>2, <2>2, SortieEffet DEF IInv, Issue, Abandon, Fin, FinSansVersement,
         FinVersementDirect, FinVersementCredit, FinVersementPerdu, DeciderValider,
         AnnulerVoyageValider, base
    <3> QED
      BY <1>2, <3>1, IssueEffet DEF IInv, Lus, Verrouille, Libre
  <2> QED
    BY <2>1, <2>2
<1>3. CASE UNCHANGED <<session, revenus>>
  BY <1>3 DEF IInv, Lus, Verrouille
<1>4. GererCompte \/ UNCHANGED vars => UNCHANGED <<session, revenus>>
  BY DEF GererCompte, AdminUpsertCompte, AdminDeleteCompte, UpsertCompte, DeleteCompte, vars
<1> QED
  BY <1>1, <1>2, <1>3, <1>4, NextCas

\* The readings of the wallet: each one finds nobody else with it, or is recorded.
LEMMA LectureSolde ==
    ASSUME TypeOK, NEW s \in Session, Lecture(s), ~croise'
    PROVE  /\ ~croise
           /\ SurSolde(s)' =>
                 \/ SurSolde(s) /\ session'[s].solde = session[s].solde
                 \/ session'[s].solde = solde /\ \A u \in Session : ~SurSolde(u)
<1>1. CASE FinLireVoyage(s) \/ FinLireResas(s) \/ AnnulerVoyageLire(s)
  <2>1. session'[s].op \in {"fin_voyage", "fin_lues", "annulation"}
    BY <1>1 DEF FinLireVoyage, FinLireResas, AnnulerVoyageLire, Debuter, Poursuivre, TypeOK
  <2>2. ~croise
    BY <1>1 DEF FinLireVoyage, FinLireResas, AnnulerVoyageLire
  <2> QED
    BY <2>1, <2>2 DEF SurSolde, Sorties
<1>2. CASE FinVerrouiller(s)
  <2>1. session'[s] = Verrou(s) /\ Verrou(s).solde = solde
    BY <1>2, VerrouType DEF FinVerrouiller, Poursuivre, TypeOK
  <2> QED
    BY <1>2, <2>1 DEF FinVerrouiller, LireSolde
<1>3. ASSUME NEW r \in Resa, NEW d \in Decisions, DeciderLire(s, r, d)
      PROVE  ~croise /\ ~SurSolde(s)'
  <2>1. session'[s].op = "decision"
    BY <1>3 DEF DeciderLire, Debuter, TypeOK
  <2> QED
    BY <1>3, <2>1 DEF DeciderLire, SurSolde, Sorties
<1>4. ASSUME NEW op, NEW m, SortirLire(s, op, m)
      PROVE  ~croise /\ session'[s].solde = solde /\ \A u \in Session : ~SurSolde(u)
  BY <1>4 DEF SortirLire, Poursuivre, LireSolde, TypeOK
<1>5. CASE RetraitVerrouiller(s)
  <2> DEFINE etat == [session[s] EXCEPT !.op = "retrait_verrou"]
  <2>1. session[s].op = "retrait" /\ session[s] \in SessionRec
    BY <1>5 DEF RetraitVerrouiller, TypeOK
  <2>2. etat.solde = session[s].solde /\ SurSolde(s)
    BY <2>1 DEF SessionRec, Libre, SurSolde, Sorties
  <2>3. session'[s] = etat /\ ~croise
    BY <1>5 DEF RetraitVerrouiller, Poursuivre, TypeOK
  <2> HIDE DEF etat
  <2> QED
    BY <2>2, <2>3
<1> QED
  BY <1>1, <1>2, <1>3, <1>4, <1>5 DEF Lecture, RetraitLire, TransfertLire

\* What writes the balance had read it, and lets it go.
LEMMA NextSoldeLu == IInv /\ [Next]_vars => SoldeLu'
<1> SUFFICES ASSUME IInv, [Next]_vars, ~croise'
             PROVE  SoldeLu'
  BY DEF SoldeLu
<1>0. TypeOK /\ SoldeLu
  BY DEF IInv
<1>1. ASSUME NEW s \in Session, Lecture(s)
      PROVE  SoldeLu'
  <2>1. solde' = solde /\ \A u \in Session \ {s} : session'[u] = session[u]
    BY <1>0, <1>1, LectureEffet
  <2> QED
    BY <1>0, <1>1, <2>1, LectureSolde DEF SoldeLu, SurSolde
<1>2. ASSUME NEW s \in Session, Issue(s)
      PROVE  SoldeLu'
  <2>1. /\ \A u \in Session : session'[u] = IF u = s THEN Libre ELSE session[u]
        /\ ~croise
    BY <1>0, <1>2, IssueEffet
  <2>2. SurSolde(s) \/ UNCHANGED solde
    BY <1>0, <1>2, SortieEffet DEF Issue, Abandon, Fin, FinSansVersement, FinVersementDirect,
       FinVersementCredit, FinVersementPerdu, DeciderValider, AnnulerVoyageValider, base,
       SurSolde, Verrouille
  <2>3. \A u \in Session : SurSolde(u)' => u # s /\ SurSolde(u)
    BY <2>1 DEF SurSolde, Libre, Sorties
  <2> QED
    BY <1>0, <2>1, <2>2, <2>3 DEF SoldeLu
<1>3. CASE UNCHANGED <<session, solde, croise>>
  BY <1>0, <1>3 DEF SoldeLu, SurSolde
<1>4. GererCompte \/ UNCHANGED vars => UNCHANGED <<session, solde, croise>>
  BY DEF GererCompte, AdminUpsertCompte, AdminDeleteCompte, UpsertCompte, DeleteCompte, vars
<1> QED
  BY <1>1, <1>2, <1>3, <1>4, NextCas

LEMMA NextRevenu == IInv /\ [Next]_vars => RevenuComptable'
<1> SUFFICES ASSUME IInv, [Next]_vars
             PROVE  RevenuComptable'
  OBVIOUS
<1>0. /\ TypeOK /\ RevenuComptable
      /\ lignes \in Lignes /\ revenus \in Nat /\ solde \in Nat
  BY DEF IInv, TypeOK
<1>1. CASE UNCHANGED <<revenus, solde, lignes>> /\ (~croise' => ~croise)
  BY <1>0, <1>1 DEF RevenuComptable, Revenus
<1>2. ASSUME NEW s \in Session, Fin(s)
      PROVE  RevenuComptable'
  <2>1. Verrouille(s) /\ Du(s) \in Nat /\ croise' = croise
    BY <1>0, <1>2, DuType DEF Fin, FinSansVersement, FinVersementDirect, FinVersementCredit
  <2>2. session[s].revenus = revenus /\ (~croise => session[s].solde = solde)
    BY <2>1 DEF IInv, Lus, SoldeLu, SurSolde, Verrouille
  <2>4. CASE FinSansVersement(s)
    BY <1>0, <2>1, <2>4 DEF FinSansVersement, RevenuComptable, Revenus
  <2>5. CASE FinVersementDirect(s)
    BY <1>0, <2>1, <2>2, <2>5 DEF FinVersementDirect, RevenuComptable, Revenus, Lignes
  <2>6. CASE FinVersementCredit(s)
    BY <1>0, <2>1, <2>2, <2>6 DEF FinVersementCredit, RevenuComptable, Revenus, Lignes
  <2> QED
    BY <1>2, <2>4, <2>5, <2>6 DEF Fin
<1>3. ASSUME NEW s \in Session, Retirer(s) \/ Transferer(s)
      PROVE  RevenuComptable'
  <2>1. ~croise => session[s].solde = solde
    BY <1>0, <1>3, SortieEffet DEF IInv, SoldeLu, SurSolde
  <2>2. /\ UNCHANGED <<revenus, croise>> /\ solde' \in Nat /\ lignes' \in Lignes
        /\ lignes'.direct = lignes.direct /\ lignes'.credit = lignes.credit
        /\ ~croise => solde' + lignes'.debits = solde + lignes.debits
    BY <1>0, <1>3, <2>1, SortieEffet
  <2> QED
    BY <1>0, <2>2 DEF RevenuComptable, Revenus, Lignes
<1>4. ASSUME NEW s \in Session, Issue(s), ~Fin(s), ~(Retirer(s) \/ Transferer(s))
      PROVE  UNCHANGED <<revenus, solde, lignes, croise>>
  BY <1>4 DEF Issue, Abandon, FinVersementPerdu, DeciderValider, AnnulerVoyageValider, base
<1>5. ASSUME NEW s \in Session, Lecture(s)
      PROVE  UNCHANGED <<revenus, solde, lignes>> /\ (~croise' => ~croise)
  BY <1>0, <1>5, LectureEffet, LectureSolde
<1>6. GererCompte \/ UNCHANGED vars => UNCHANGED <<revenus, solde, lignes, croise>>
  BY DEF GererCompte, AdminUpsertCompte, AdminDeleteCompte, UpsertCompte, DeleteCompte, vars
<1> QED
  BY <1>1, <1>2, <1>3, <1>4, <1>5, <1>6, NextCas

\* The inductive invariant: the lock is held by one session, which has in hand what the
\* driver earned, and so has the wallet whoever is alone to have read it.
THEOREM Inductif == Spec => []IInv
<1>1. Init => IInv
  <2> SUFFICES ASSUME Init
               PROVE  IInv
    OBVIOUS
  <2>1. \A s \in Session : ~Verrouille(s) /\ ~SurSolde(s)
    BY DEF Init, Verrouille, SurSolde, Sorties, Libre
  <2>2. RevenuComptable
    BY AvoirAssumption DEF Init, RevenuComptable, Revenus
  <2> QED
    BY <2>1, <2>2, InitType DEF IInv, Exclusion, Lus, SoldeLu
<1>2. IInv /\ [Next]_vars => IInv'
  BY NextType, NextExclusion, NextLus, NextSoldeLu, NextRevenu DEF IInv
<1> QED
  BY <1>1, <1>2, PTL DEF Spec

\* What the driver earned is what the rows of the ends of his trips say, however requests
\* overlap, and the wallet is what its rows say unless two requests had read it at once
\* (services/payout.py, routers/wallet.py).
THEOREM Comptabilite == Spec => []RevenuComptable
<1>1. IInv => RevenuComptable
  BY DEF IInv
<1> QED
  BY <1>1, Inductif, PTL

-----------------------------------------------------------------------------
(* The number of payments *)

LEMMA FinsFini == IsFiniteSet(Fins) /\ Cardinality(Fins) \in Nat
                  /\ Cardinality(Fins) <= Cardinality(Session) /\ Cardinality(Session) \in Nat
<1>1. Fins \in SUBSET Session
  BY DEF Fins
<1> QED
  BY <1>1, SessionAssumption, FS_Subset, FS_CardinalityType

\* Fewer requests can still pay once the trip is closed.
LEMMA FinsDecroit ==
    ASSUME Fins' \subseteq Fins
    PROVE  Cardinality(Fins') \in Nat /\ Cardinality(Fins') <= Cardinality(Fins)
  BY FinsFini, FS_Subset, FS_CardinalityType

LEMMA NextPaiements == TypeOK /\ Paiements /\ [Next]_vars => Paiements'
<1> SUFFICES ASSUME TypeOK, Paiements, [Next]_vars, coupures' = 0, NEW r \in Resa
             PROVE  /\ voyage' = "EN_COURS" => payees'[r] = 0
                    /\ payees'[r] + Cardinality(Fins') <= Cardinality(Session)
  BY DEF Paiements
<1>0. payees[r] \in Nat /\ Cardinality(Fins) \in Nat /\ Cardinality(Session) \in Nat
  BY FinsFini DEF TypeOK
<1>a. Cardinality(Fins') \in Nat /\ Cardinality(Fins') <= Cardinality(Session)
  <2>1. Fins' \in SUBSET Session
    BY DEF Fins
  <2> QED
    BY <2>1, SessionAssumption, FS_Subset, FS_CardinalityType
<1>1. ASSUME NEW s \in Session, Lecture(s)
      PROVE  /\ voyage' = "EN_COURS" => payees'[r] = 0
             /\ payees'[r] + Cardinality(Fins') <= Cardinality(Session)
  <2>1. UNCHANGED <<voyage, payees, coupures>>
    BY <1>1, LectureEffet
  <2>2. CASE voyage = "EN_COURS"
    BY <1>0, <1>a, <2>1, <2>2 DEF Paiements
  <2>3. CASE voyage # "EN_COURS"
    <3>1. Fins' \subseteq Fins
      BY <1>1, <2>3, LectureEffet DEF Fins
    <3> QED
      BY <1>0, <2>1, <2>3, <3>1, FinsDecroit DEF Paiements
  <2> QED
    BY <2>2, <2>3
<1>2. ASSUME NEW s \in Session, Issue(s), ~Fin(s)
      PROVE  /\ voyage' = "EN_COURS" => payees'[r] = 0
             /\ payees'[r] + Cardinality(Fins') <= Cardinality(Session)
  <2>1. ~FinVersementPerdu(s)
    BY DEF FinVersementPerdu, TypeOK
  <2>2. UNCHANGED <<payees, coupures>> /\ (voyage' = "EN_COURS" => voyage = "EN_COURS")
    BY <1>2, <2>1, SortieEffet DEF Issue, Abandon, DeciderValider, AnnulerVoyageValider, base
  <2>3. Fins' \subseteq Fins
    BY <1>2, IssueEffet DEF Fins, Libre
  <2> QED
    BY <1>0, <2>2, <2>3, FinsDecroit DEF Paiements
<1>3. ASSUME NEW s \in Session, Fin(s)
      PROVE  /\ voyage' = "EN_COURS" => payees'[r] = 0
             /\ payees'[r] + Cardinality(Fins') <= Cardinality(Session)
  <2>1. /\ voyage' = "TERMINE" /\ UNCHANGED coupures /\ Verrouille(s)
        /\ payees'[r] \in Nat /\ payees'[r] <= payees[r] + 1
    BY <1>0, <1>3 DEF Fin, FinSansVersement, FinVersementDirect, FinVersementCredit, Clore,
       Remettre, TypeOK
  <2>2. s \in Fins /\ Fins' = Fins \ {s}
    BY <1>3, <2>1, IssueEffet DEF Issue, Fins, Verrouille, Libre
  <2>3. Cardinality(Fins') = Cardinality(Fins) - 1
    BY <2>2, FinsFini, FS_RemoveElement
  <2> QED
    BY <1>0, <2>1, <2>3 DEF Paiements
<1>4. CASE UNCHANGED <<voyage, payees, session, coupures>>
  BY <1>4 DEF Paiements, Fins
<1>5. GererCompte \/ UNCHANGED vars
          => UNCHANGED <<voyage, payees, session, coupures>>
  BY DEF GererCompte, AdminUpsertCompte, AdminDeleteCompte, UpsertCompte, DeleteCompte, vars
<1> QED
  BY <1>1, <1>2, <1>3, <1>4, <1>5, NextCas

\* However many requests end the trip at once, a reservation is paid at most once by each
\* of them, and by none that begins after the trip was closed.
THEOREM Bornes == Spec => []PaiementBorne
<1>1. Init => Paiements
  <2> SUFFICES ASSUME Init, NEW r \in Resa
               PROVE  payees[r] = 0 /\ payees[r] + Cardinality(Fins) <= Cardinality(Session)
    BY DEF Paiements
  <2> QED
    BY FinsFini DEF Init
<1>2. TypeOK /\ Paiements => PaiementBorne
  <2> SUFFICES ASSUME TypeOK, Paiements, coupures = 0, NEW r \in Resa
               PROVE  payees[r] <= Cardinality(Session)
    BY DEF PaiementBorne
  <2> QED
    BY FinsFini DEF Paiements, TypeOK
<1> QED
  BY <1>1, <1>2, NextPaiements, TypeCorrect, PTL DEF Spec
-----------------------------------------------------------------------------
(* What is paid, when requests do not overlap *)

Confirmees == {r \in Resa : resas[r] = "CONFIRMEE"}

\* What the only request on the trip in progress has read still holds: there is no other one
\* to change it.
Tenue(etat) ==
    /\ etat.op \in {"fin_voyage", "fin_lues", "fin_verrou", "annulation"} => voyage = "EN_COURS"
    /\ etat.op \in {"fin_lues", "fin_verrou"} => etat.lues = Confirmees
    /\ etat.op = "fin_verrou" => etat.prises = Confirmees
    /\ etat.op = "decision" => etat.vers # "TERMINEE" /\ resas[etat.r] # "TERMINEE"

Seul ==
    ~chevauche =>
        /\ \A s, u \in Session : SurVoyage(s) /\ SurVoyage(u) => s = u
        /\ \A s \in Session : Tenue(session[s])
        /\ voyage = "EN_COURS" => \A r \in Resa : resas[r] # "TERMINEE"

LEMMA TenueHors ==
    /\ \A u \in Session : ~SurVoyage(u) => Tenue(session[u])
    /\ \A u \in Session : ~SurVoyage(u)' => Tenue(session[u])'
  BY DEF Tenue, SurVoyage, Sorties

\* A step that leaves the trip alone, of a session that is then alone on the trip, or not on
\* it.
LEMMA SeulLecture ==
    ASSUME TypeOK, Seul, ~chevauche, UNCHANGED <<voyage, resas>>,
           NEW s \in Session, NEW etat, Tenue(etat),
           session' = [session EXCEPT ![s] = etat],
           \A u \in Session \ {s} : ~SurVoyage(u)
    PROVE  Seul'
<1>1. \A u \in Session : session'[u] = IF u = s THEN etat ELSE session[u]
  BY DEF TypeOK
<1>2. \A u \in Session : SurVoyage(u)' => u = s
  BY <1>1 DEF SurVoyage
<1>3. \A u \in Session : Tenue(session[u])'
  <2> SUFFICES ASSUME NEW u \in Session
               PROVE  Tenue(session[u])'
    OBVIOUS
  <2>1. Tenue(session'[u])
    BY <1>1 DEF Seul
  <2> QED
    BY <2>1 DEF Tenue, Confirmees
<1> QED
  BY <1>2, <1>3 DEF Seul

LEMMA SeulHors ==
    ASSUME TypeOK, Seul, ~chevauche, UNCHANGED <<voyage, resas>>, NEW s \in Session,
           \A u \in Session \ {s} : session'[u] = session[u], ~SurVoyage(s)'
    PROVE  Seul'
<1>1. \A u \in Session : SurVoyage(u)' => u # s /\ SurVoyage(u)
  BY DEF SurVoyage
<1>3. \A u \in Session : Tenue(session[u])'
  <2> SUFFICES ASSUME NEW u \in Session, u # s
               PROVE  Tenue(session[u])'
    BY TenueHors
  <2>1. Tenue(session'[u])
    BY DEF Seul
  <2> QED
    BY <2>1 DEF Tenue, Confirmees
<1> QED
  BY <1>1, <1>3 DEF Seul

\* A request that starts while none is on the trip, and one that goes on, are alone.
LEMMA SeulDebut ==
    ASSUME TypeOK, Seul, UNCHANGED <<voyage, resas>>, NEW s \in Session, NEW etat,
           Tenue(etat), Debuter(s, etat), ~chevauche'
    PROVE  Seul'
<1>1. ~chevauche /\ session' = [session EXCEPT ![s] = etat]
      /\ \A u \in Session \ {s} : ~SurVoyage(u)
  BY DEF Debuter
<1> QED
  BY <1>1, SeulLecture

LEMMA SeulSuite ==
    ASSUME TypeOK, Seul, UNCHANGED <<voyage, resas, chevauche>>, NEW s \in Session, NEW etat,
           Tenue(etat), Poursuivre(s, etat), SurVoyage(s), ~chevauche'
    PROVE  Seul'
<1>1. ~chevauche /\ session' = [session EXCEPT ![s] = etat]
      /\ \A u \in Session \ {s} : ~SurVoyage(u)
  BY DEF Poursuivre, Seul
<1> QED
  BY <1>1, SeulLecture

LEMMA NextSeul == TypeOK /\ Seul /\ [Next]_vars => Seul'
<1> SUFFICES ASSUME TypeOK, Seul, [Next]_vars, ~chevauche'
             PROVE  Seul'
  BY DEF Seul
<1>1. ASSUME NEW s \in Session, FinLireVoyage(s)
      PROVE  Seul'
  <2>1. Tenue([op |-> "fin_voyage"])
    BY <1>1 DEF FinLireVoyage, Tenue
  <2> QED
    BY <1>1, <2>1, SeulDebut DEF FinLireVoyage, base
<1>2. ASSUME NEW s \in Session, FinLireResas(s)
      PROVE  Seul'
  <2>1. voyage = "EN_COURS" /\ SurVoyage(s)
    BY <1>2 DEF FinLireResas, Seul, Tenue, SurVoyage, Sorties
  <2> DEFINE etat == [op |-> "fin_lues", lues |-> {r \in Resa : resas[r] = "CONFIRMEE"}]
  <2>2. Tenue(etat)
    BY <2>1 DEF Tenue, Confirmees
  <2>3. Poursuivre(s, etat) /\ UNCHANGED <<voyage, resas, chevauche>>
    BY <1>2 DEF FinLireResas, base
  <2> HIDE DEF etat
  <2> QED
    BY <2>1, <2>2, <2>3, SeulSuite
<1>3. ASSUME NEW s \in Session, FinVerrouiller(s)
      PROVE  Seul'
  <2>1. Tenue(session[s]) /\ SurVoyage(s) /\ session[s].op = "fin_lues"
    BY <1>3 DEF FinVerrouiller, Seul, SurVoyage, Sorties
  <2>2. Tenue(Verrou(s))
    BY <2>1 DEF Tenue, Verrou, Confirmees
  <2>3. Poursuivre(s, Verrou(s)) /\ UNCHANGED <<voyage, resas, chevauche>>
    BY <1>3 DEF FinVerrouiller, base
  <2> QED
    BY <2>1, <2>2, <2>3, SeulSuite
<1>4. ASSUME NEW s \in Session, AnnulerVoyageLire(s)
      PROVE  Seul'
  <2>1. Tenue([op |-> "annulation"])
    BY <1>4 DEF AnnulerVoyageLire, Tenue
  <2> QED
    BY <1>4, <2>1, SeulDebut DEF AnnulerVoyageLire, base
<1>5. ASSUME NEW s \in Session, NEW r \in Resa, NEW d \in Decisions, DeciderLire(s, r, d)
      PROVE  Seul'
  <2> DEFINE etat == [op |-> "decision", r |-> r, vers |-> d.vers,
                      places |-> (d.places /\ voyage = "EN_COURS")]
  <2>1. d.vers # "TERMINEE" /\ d.de # "TERMINEE" /\ resas[r] = d.de
    BY <1>5 DEF Decisions, DeciderLire
  <2>2. Tenue(etat)
    BY <2>1 DEF Tenue
  <2>3. Debuter(s, etat) /\ UNCHANGED <<voyage, resas>>
    BY <1>5 DEF DeciderLire, base
  <2> HIDE DEF etat
  <2> QED
    BY <2>2, <2>3, SeulDebut
<1>6. ASSUME NEW s \in Session, Issue(s)
      PROVE  Seul'
  <2>1. /\ \A u \in Session : session'[u] = IF u = s THEN Libre ELSE session[u]
        /\ ~chevauche /\ ~SurVoyage(s)'
    BY <1>6, IssueEffet DEF SurVoyage, Libre
  <2>2. CASE Abandon(s) \/ FinVersementPerdu(s) \/ Retirer(s) \/ Transferer(s)
    <3>1. UNCHANGED <<voyage, resas>>
      BY <2>2, SortieEffet DEF Abandon, FinVersementPerdu, base
    <3> QED
      BY <2>1, <3>1, SeulHors
  <2>3. CASE Fin(s) \/ DeciderValider(s) \/ AnnulerVoyageValider(s)
    <3>1. SurVoyage(s)
      BY <2>3 DEF Fin, FinSansVersement, FinVersementDirect, FinVersementCredit, Verrouille,
         DeciderValider, AnnulerVoyageValider, SurVoyage, Sorties
    <3>2. \A u \in Session : ~SurVoyage(u)'
      BY <2>1, <3>1 DEF Seul, SurVoyage
    <3>3. \A u \in Session : Tenue(session[u])'
      BY <3>2, TenueHors
    <3>4. voyage' = "EN_COURS" => \A r \in Resa : resas'[r] # "TERMINEE"
      <4>1. CASE Fin(s)
        BY <4>1 DEF Fin, FinSansVersement, FinVersementDirect, FinVersementCredit, Clore
      <4>2. CASE DeciderValider(s)
        <5>1. session[s].vers # "TERMINEE" /\ session[s].r \in Resa
          BY <2>1, <4>2, SessionCas DEF DeciderValider, Seul, Tenue
        <5> QED
          BY <2>1, <4>2, <5>1 DEF DeciderValider, Seul, TypeOK
      <4>3. CASE AnnulerVoyageValider(s)
        BY <4>3 DEF AnnulerVoyageValider
      <4> QED
        BY <2>3, <4>1, <4>2, <4>3
    <3> QED
      BY <3>2, <3>3, <3>4 DEF Seul
  <2> QED
    BY <1>6, <2>2, <2>3 DEF Issue
<1>9. ASSUME NEW s \in Session,
             RetraitVerrouiller(s) \/ \E m \in Montants : RetraitLire(s, m) \/ TransfertLire(s, m)
      PROVE  Seul'
  <2>1. session'[s].op \in Sorties /\ \A u \in Session \ {s} : session'[u] = session[u]
    <3>1. CASE RetraitVerrouiller(s)
      <4>1. session[s].op = "retrait" /\ session[s] \in SessionRec
        BY <3>1 DEF RetraitVerrouiller, TypeOK
      <4>2. [session[s] EXCEPT !.op = "retrait_verrou"].op = "retrait_verrou"
        BY <4>1 DEF SessionRec, Libre
      <4> QED
        BY <3>1, <4>2 DEF RetraitVerrouiller, Poursuivre, Sorties, TypeOK
    <3>2. CASE \E m \in Montants : RetraitLire(s, m) \/ TransfertLire(s, m)
      BY <3>2 DEF RetraitLire, TransfertLire, SortirLire, Poursuivre, Sorties, TypeOK
    <3> QED
      BY <1>9, <3>1, <3>2
  <2>3. UNCHANGED <<voyage, resas, chevauche>>
    BY <1>9 DEF RetraitVerrouiller, RetraitLire, TransfertLire, SortirLire, base
  <2>2. ~SurVoyage(s)'
    BY <2>1 DEF SurVoyage
  <2> QED
    BY <2>1, <2>2, <2>3, SeulHors
<1>7. CASE UNCHANGED <<voyage, resas, session, chevauche>>
  BY <1>7 DEF Seul, SurVoyage, Tenue, Confirmees
<1>8. GererCompte \/ UNCHANGED vars => UNCHANGED <<voyage, resas, session, chevauche>>
  BY DEF GererCompte, AdminUpsertCompte, AdminDeleteCompte, UpsertCompte, DeleteCompte, vars
<1> QED
  BY <1>1, <1>2, <1>3, <1>4, <1>5, <1>6, <1>7, <1>8, <1>9, NextCas DEF Lecture

\* The end of the trip, alone, pays the reservations that it finishes.
LEMMA FinExacte ==
    ASSUME TypeOK, Paiements, Seul, ~chevauche, coupures = 0,
           NEW s \in Session, Fin(s), NEW r \in Resa, Total[{r}] > 0
    PROVE  payees'[r] = IF resas'[r] = "TERMINEE" THEN 1 ELSE 0
<1>1. session[s].op = "fin_verrou"
  BY DEF Fin, FinSansVersement, FinVersementDirect, FinVersementCredit, Verrouille
<1>2. /\ session[s].lues = Confirmees /\ session[s].prises = Confirmees
      /\ resas[r] # "TERMINEE" /\ payees[r] = 0
  BY <1>1 DEF Seul, Tenue, Paiements
<1>3. resas'[r] = "TERMINEE" <=> r \in Confirmees
  BY <1>2 DEF Fin, FinSansVersement, FinVersementDirect, FinVersementCredit, Clore
<1>4. CASE FinSansVersement(s)
  <2>1. r \notin Confirmees
    <3> SUFFICES ASSUME r \in Confirmees
                 PROVE  FALSE
      OBVIOUS
    <3>1. {r} \in SUBSET Resa /\ Confirmees \in SUBSET Resa /\ {r} \subseteq Confirmees
      BY DEF Confirmees
    <3>2. Total[{r}] <= Total[Confirmees] /\ Total[{r}] \in Nat /\ Total[Confirmees] \in Nat
      BY <3>1, TotalAssumption, CroissanceAssumption
    <3>3. Total[Confirmees] = 0
      BY <1>2, <1>4 DEF FinSansVersement, Du
    <3> QED
      BY <3>2, <3>3
  <2>2. payees' = payees
    BY <1>4 DEF FinSansVersement
  <2> QED
    BY <1>2, <1>3, <2>1, <2>2
<1>5. CASE FinVersementDirect(s) \/ FinVersementCredit(s)
  <2>1. payees'[r] = IF r \in Confirmees THEN 1 ELSE 0
    BY <1>2, <1>5 DEF FinVersementDirect, FinVersementCredit, Remettre
  <2> QED
    BY <1>3, <2>1
<1> QED
  BY <1>4, <1>5 DEF Fin

LEMMA NextVersement == TypeOK /\ Paiements /\ Seul /\ VersementExact /\ [Next]_vars => VersementExact'
<1> SUFFICES ASSUME TypeOK, Paiements, Seul, VersementExact, [Next]_vars,
                    ~chevauche', coupures' = 0, voyage' = "TERMINE", NEW r \in Resa, Total[{r}] > 0
             PROVE  payees'[r] = IF resas'[r] = "TERMINEE" THEN 1 ELSE 0
  BY DEF VersementExact
<1> DEFINE Juste == payees'[r] = IF resas'[r] = "TERMINEE" THEN 1 ELSE 0
<1>1. ASSUME UNCHANGED <<voyage, resas, payees, coupures>>, ~chevauche
      PROVE  Juste
  BY <1>1 DEF VersementExact
<1>2. ASSUME NEW s \in Session, Lecture(s)
      PROVE  Juste
  <2>1. UNCHANGED <<voyage, resas, payees, coupures>>
    BY <1>2, LectureEffet
  <2>2. ~chevauche
    BY <1>2 DEF Lecture, FinLireVoyage, FinLireResas, FinVerrouiller, AnnulerVoyageLire, DeciderLire,
       Debuter, RetraitLire, TransfertLire, SortirLire, RetraitVerrouiller
  <2> HIDE DEF Juste
  <2> QED
    BY <1>1, <2>1, <2>2
<1>3. ASSUME NEW s \in Session, Issue(s)
      PROVE  Juste
  <2>0. ~chevauche
    BY <1>3, IssueEffet
  <2>1. CASE Fin(s)
    <3>1. coupures = 0
      BY <2>1 DEF Fin, FinSansVersement, FinVersementDirect, FinVersementCredit
    <3> QED
      BY <2>0, <2>1, <3>1, FinExacte
  <2>2. CASE Abandon(s)
    BY <1>1, <2>0, <2>2 DEF Abandon, base
  <2>3. CASE FinVersementPerdu(s)
    BY <2>3 DEF FinVersementPerdu, TypeOK
  <2>4. CASE DeciderValider(s)
    <3>1. /\ session[s].vers # "TERMINEE" /\ session[s].r \in Resa
          /\ resas[session[s].r] # "TERMINEE"
      BY <2>0, <2>4, SessionCas DEF DeciderValider, Seul, Tenue
    <3>2. resas'[r] = "TERMINEE" <=> resas[r] = "TERMINEE"
      BY <2>4, <3>1 DEF DeciderValider, TypeOK
    <3> QED
      BY <2>0, <2>4, <3>2 DEF DeciderValider, VersementExact
  <2>5. CASE AnnulerVoyageValider(s)
    BY <2>5 DEF AnnulerVoyageValider
  <2>6. CASE Retirer(s) \/ Transferer(s)
    <3>1. UNCHANGED <<voyage, resas, payees, coupures>>
      BY <2>6, SortieEffet
    <3> HIDE DEF Juste
    <3> QED
      BY <1>1, <2>0, <3>1
  <2> QED
    BY <1>3, <2>1, <2>2, <2>3, <2>4, <2>5, <2>6 DEF Issue
<1>4. CASE GererCompte \/ UNCHANGED vars
  <2>1. UNCHANGED <<voyage, resas, payees, coupures>> /\ ~chevauche
    BY <1>4 DEF GererCompte, AdminUpsertCompte, AdminDeleteCompte, UpsertCompte, DeleteCompte, vars
  <2> QED
    BY <1>1, <2>1
<1> QED
  BY <1>2, <1>3, <1>4, NextCas

\* Until requests on the trip overlap or a payout is cut off, the driver of a finished trip is paid once
\* for each reservation travelled and for no other, whatever was decided or cancelled before.
THEOREM Exactitude == Spec => []VersementExact
<1>1. Init => Paiements
  <2> SUFFICES ASSUME Init, NEW r \in Resa
               PROVE  payees[r] = 0 /\ payees[r] + Cardinality(Fins) <= Cardinality(Session)
    BY DEF Paiements
  <2> QED
    BY FinsFini DEF Init
<1>2. Init => Seul /\ VersementExact
  <2> SUFFICES ASSUME Init
               PROVE  Seul /\ VersementExact
    OBVIOUS
  <2>1. \A s \in Session : session[s] = Libre
    BY DEF Init
  <2>2. \A s \in Session : ~SurVoyage(s) /\ Tenue(session[s])
    BY <2>1, TenueHors DEF SurVoyage, Libre
  <2>3. \A r \in Resa : resas[r] # "TERMINEE"
    BY DEF Init
  <2> QED
    BY <2>1, <2>2, <2>3 DEF Seul, VersementExact, Init
<1> QED
  BY <1>1, <1>2, TypeCorrect, NextPaiements, NextSeul, NextVersement, PTL DEF Spec
=============================================================================
