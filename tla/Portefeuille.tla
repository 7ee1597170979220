---------------------------- MODULE Portefeuille ----------------------------
(***************************************************************************)
(* The wallets: top-ups through a mobile-money operator, withdrawals to    *)
(* one, transfers between two wallets, and the Celery task that settles    *)
(* the pending top-ups beside the requests.                                *)
(*                                                                         *)
(* Here a request is not atomic.  It reads its rows (READ COMMITTED, no    *)
(* lock), awaits the operator, and writes the balance it computed from     *)
(* what it read.  A write is taken at the commit of its session: the lock  *)
(* that PostgreSQL takes at the flush makes the other writers of the row   *)
(* wait, and one that waited writes the same value afterwards.  A session  *)
(* that ends without a commit leaves its rows as they were.                *)
(*                                                                         *)
(* A definition whose name ends in _mut... is a plausible mistake in the   *)
(* definition that follows it; no action uses it.                          *)
(***************************************************************************)
EXTENDS Integers, FiniteSets, FiniteSetsExt

CONSTANTS
    Wallet,        \* wallets, one per user
    Recharge,      \* top-ups, rows RECHARGE of table transactions
    De,            \* the wallet of each top-up
    Montant,       \* its amount
    Suivies,       \* top-ups of the operators that the task polls: MTN, Orange, Moov
    Session,       \* the requests in progress at once
    Montants,      \* amounts of withdrawals and transfers that are tried
    MaxOperations, \* bound: withdrawals and transfers begun
    MaxCoupures    \* bound: calls that end in an error or a timeout

ASSUME DeAssumption       == De \in [Recharge -> Wallet]
ASSUME MontantAssumption  == Montant \in [Recharge -> Nat \ {0}] /\ Montants \subseteq Nat \ {0}
ASSUME TablesAssumption   == IsFiniteSet(Wallet) /\ IsFiniteSet(Recharge)
ASSUME SuiviesAssumption  == Suivies \subseteq Recharge
ASSUME BornesAssumption   == MaxOperations \in Nat /\ MaxCoupures \in Nat

VARIABLES
    solde,       \* wallets.solde
    recharges,   \* statut of each top-up
    operateur,   \* what the operator knows of its collection (external)
    autres,      \* per wallet, its other rows of transactions: transfers in, less
                 \* transfers out and withdrawals not in ECHEC
    envoye,      \* money that left through the operators (external)
    session,     \* the requests in progress
    tache,       \* the run of check_pending_payments in progress
    chevauches,  \* wallets on which two units of work were in progress at once
    operations, coupures    \* counters, for the bounds

donnees == <<solde, recharges, autres>>
vars == <<solde, recharges, operateur, autres, envoye, session, tache, chevauches, operations, coupures>>

StatutRecharge == {"absente", "EN_ATTENTE", "REUSSI", "ECHEC"}

\* The statuts of the operators, those read alike as one.  Only FedaPay refunds.
StatutOperateur == {"aucune", "pending", "success", "failed", "refunded"}

Libre == [op |-> "libre"]
SessionRec ==
    {Libre}
      \cup [op : {"confirm"}, w : Wallet, r : Recharge, lu : Int]
      \cup [op : {"retrait"}, w : Wallet, m : Montants, lu : Int]
      \cup [op : {"transfert"}, w : Wallet, d : Wallet, m : Montants, lu : Int]
      \cup [op : {"transfert_lu"}, w : Wallet, d : Wallet, m : Montants, lu : Int, luDest : Int]

\* The task: the rows it selected, those still to poll, the statuts it will write, and
\* the balance it will write for each wallet that its session has loaded.
Repos == [lot |-> {}, reste |-> {}, reussies |-> {}, echouees |-> {}, charges |-> [w \in Wallet |-> 0]]
TacheRec == [lot : SUBSET Suivies, reste : SUBSET Suivies, reussies : SUBSET Suivies,
             echouees : SUBSET Suivies, charges : [Wallet -> Int]]

TypeOK ==
    /\ solde \in [Wallet -> Int]
    /\ recharges \in [Recharge -> StatutRecharge]
    /\ operateur \in [Recharge -> StatutOperateur]
    /\ autres \in [Wallet -> Int]
    /\ envoye \in Nat
    /\ session \in [Session -> SessionRec]
    /\ tache \in TacheRec
    /\ tache.reste \subseteq tache.lot
    /\ tache.reussies \cup tache.echouees \subseteq tache.lot \ tache.reste
    /\ chevauches \subseteq Wallet
    /\ operations \in 0..MaxOperations /\ coupures \in 0..MaxCoupures

Init ==
    /\ solde = [w \in Wallet |-> 0]
    /\ recharges = [r \in Recharge |-> "absente"]
    /\ operateur = [r \in Recharge |-> "aucune"]
    /\ autres = [w \in Wallet |-> 0]
    /\ envoye = 0
    /\ session = [s \in Session |-> Libre]
    /\ tache = Repos
    /\ chevauches = {}
    /\ operations = 0 /\ coupures = 0

-----------------------------------------------------------------------------
(* Units of work *)

\* The wallets a session, or the task, is working on.
Touches(s) ==
    CASE session[s].op = "libre" -> {}
      [] session[s].op \in {"confirm", "retrait"} -> {session[s].w}
      [] OTHER -> {session[s].w, session[s].d}
TouchesParTache == {De[r] : r \in tache.lot}

Occupes == (UNION {Touches(s) : s \in Session}) \cup TouchesParTache

Debuter(s, etat, W) ==
    /\ session[s] = Libre
    /\ session' = [session EXCEPT ![s] = etat]
    /\ chevauches' = chevauches \cup (W \cap Occupes)

Terminer(s) == session' = [session EXCEPT ![s] = Libre]

Compter == operations < MaxOperations /\ operations' = operations + 1
Couper == coupures < MaxCoupures /\ coupures' = coupures + 1

\* The request fails, or its session is rolled back, with nothing written.
Abandon(s) ==
    /\ session[s] # Libre
    /\ Couper
    /\ Terminer(s)
    /\ UNCHANGED <<donnees, operateur, envoye, tache, chevauches, operations>>

-----------------------------------------------------------------------------
(* Top-ups *)

\* initiate_recharge: the row is inserted, the operator called, the whole committed.
InitierRecharge(r) ==
    /\ recharges[r] = "absente" /\ operateur[r] = "aucune"
    /\ recharges' = [recharges EXCEPT ![r] = "EN_ATTENTE"]
    /\ operateur' = [operateur EXCEPT ![r] = "pending"]
    /\ UNCHANGED <<solde, autres, envoye, session, tache, chevauches, operations, coupures>>

\* The operator refuses: the row is committed in ECHEC.
InitierRefusee(r) ==
    /\ recharges[r] = "absente" /\ operateur[r] = "aucune"
    /\ Couper
    /\ recharges' = [recharges EXCEPT ![r] = "ECHEC"]
    /\ UNCHANGED <<solde, operateur, autres, envoye, session, tache, chevauches, operations>>

\* httpx times out after the operator took the order: no except clause names it, the row
\* is rolled back, and what the user pays belongs to nobody.
InitierPerdue(r) ==
    /\ recharges[r] = "absente" /\ operateur[r] = "aucune"
    /\ Couper
    /\ operateur' = [operateur EXCEPT ![r] = "pending"]
    /\ UNCHANGED <<donnees, envoye, session, tache, chevauches, operations>>

\* The wallet and the row are read together: a row that is EN_ATTENTE when it is read
\* already was when the wallet was.
ConfirmerLire(s, r) ==
    /\ recharges[r] = "EN_ATTENTE"
    /\ Debuter(s, [op |-> "confirm", w |-> De[r], r |-> r, lu |-> solde[De[r]]], {De[r]})
    /\ UNCHANGED <<donnees, operateur, envoye, tache, operations, coupures>>

Confirme(s, statuts) ==
    session[s].op = "confirm" /\ operateur[session[s].r] \in statuts

ConfirmerReussie(s) ==
    /\ Confirme(s, {"success"})
    /\ recharges' = [recharges EXCEPT ![session[s].r] = "REUSSI"]
    /\ solde' = [solde EXCEPT ![session[s].w] = session[s].lu + Montant[session[s].r]]
    /\ Terminer(s)
    /\ UNCHANGED <<operateur, autres, envoye, tache, chevauches, operations, coupures>>

ConfirmerEchouee(s) ==
    /\ Confirme(s, {"failed", "refunded"})
    /\ recharges' = [recharges EXCEPT ![session[s].r] = "ECHEC"]
    /\ Terminer(s)
    /\ UNCHANGED <<solde, operateur, autres, envoye, tache, chevauches, operations, coupures>>

\* 202: not settled yet.
ConfirmerEnAttente(s) ==
    /\ Confirme(s, {"pending"})
    /\ Terminer(s)
    /\ UNCHANGED <<donnees, operateur, envoye, tache, chevauches, operations, coupures>>

-----------------------------------------------------------------------------
(* Withdrawals *)

RetraitLire(s, w, m) ==
    /\ solde[w] >= m
    /\ Compter
    /\ Debuter(s, [op |-> "retrait", w |-> w, m |-> m, lu |-> solde[w]], {w})
    /\ UNCHANGED <<donnees, operateur, envoye, tache, coupures>>

\* The balance that was read, less the amount, and a row that is not in ECHEC.
Debiter(s) ==
    LET t == session[s]
    IN  /\ solde' = [solde EXCEPT ![t.w] = t.lu - t.m]
        /\ autres' = [autres EXCEPT ![t.w] = @ - t.m]

\* MTN, Celtis, FedaPay: the operator takes the payout, and the row is EN_COURS.
RetraitAccepte(s) ==
    /\ session[s].op = "retrait"
    /\ Debiter(s)
    /\ envoye' = envoye + session[s].m
    /\ Terminer(s)
    /\ UNCHANGED <<recharges, operateur, tache, chevauches, operations, coupures>>

\* Orange, Moov: the row stays EN_ATTENTE, for somebody to pay by hand.
RetraitManuel(s) ==
    /\ session[s].op = "retrait"
    /\ Debiter(s)
    /\ Terminer(s)
    /\ UNCHANGED <<recharges, operateur, envoye, tache, chevauches, operations, coupures>>

RetraitRefuse_mutSansRemise(s) ==
    /\ session[s].op = "retrait"
    /\ Couper
    /\ solde' = [solde EXCEPT ![session[s].w] = session[s].lu - session[s].m]
    /\ Terminer(s)
    /\ UNCHANGED <<recharges, operateur, autres, envoye, tache, chevauches, operations>>

\* The operator refuses: the row is in ECHEC, and the balance that was read is written.
RetraitRefuse(s) ==
    /\ session[s].op = "retrait"
    /\ Couper
    /\ solde' = [solde EXCEPT ![session[s].w] = session[s].lu]
    /\ Terminer(s)
    /\ UNCHANGED <<recharges, operateur, autres, envoye, tache, chevauches, operations>>

\* httpx times out after the operator took the payout: everything is rolled back.
RetraitPerdu(s) ==
    /\ session[s].op = "retrait"
    /\ Couper
    /\ envoye' = envoye + session[s].m
    /\ Terminer(s)
    /\ UNCHANGED <<donnees, operateur, tache, chevauches, operations>>

-----------------------------------------------------------------------------
(* Transfers: nothing keeps the two wallets from being the same one *)

TransfertLire(s, w, d, m) ==
    /\ solde[w] >= m
    /\ Compter
    /\ Debuter(s, [op |-> "transfert", w |-> w, d |-> d, m |-> m, lu |-> solde[w]], {w, d})
    /\ UNCHANGED <<donnees, operateur, envoye, tache, coupures>>

TransfertLireDest(s) ==
    LET t == session[s]
    IN  /\ t.op = "transfert"
        /\ session' = [session EXCEPT ![s] =
               [op |-> "transfert_lu", w |-> t.w, d |-> t.d, m |-> t.m, lu |-> t.lu,
                luDest |-> solde[t.d]]]
        /\ UNCHANGED <<donnees, operateur, envoye, tache, chevauches, operations, coupures>>

TransfertValider_mutDeuxLectures(s) ==
    LET t == session[s]
    IN  /\ t.op = "transfert_lu"
        /\ solde' = [solde EXCEPT ![t.w] = t.lu - t.m, ![t.d] = t.luDest + t.m]
        /\ autres' = [autres EXCEPT ![t.w] = @ - t.m, ![t.d] = @ + t.m]
        /\ Terminer(s)
        /\ UNCHANGED <<recharges, operateur, envoye, tache, chevauches, operations, coupures>>

\* To oneself, the session holds one object, which ends as it was and is not written.
TransfertValider(s) ==
    LET t == session[s]
    IN  /\ t.op = "transfert_lu"
        /\ IF t.w = t.d
           THEN UNCHANGED <<solde, autres>>
           ELSE /\ solde' = [solde EXCEPT ![t.w] = t.lu - t.m, ![t.d] = t.luDest + t.m]
                /\ autres' = [autres EXCEPT ![t.w] = @ - t.m, ![t.d] = @ + t.m]
        /\ Terminer(s)
        /\ UNCHANGED <<recharges, operateur, envoye, tache, chevauches, operations, coupures>>

-----------------------------------------------------------------------------
(* check_pending_payments: one session and one commit for all the rows it selects *)

EnAttente == {r \in Suivies : recharges[r] = "EN_ATTENTE"}

TacheLancer ==
    /\ tache = Repos /\ EnAttente # {}
    /\ tache' = [Repos EXCEPT !.lot = EnAttente, !.reste = EnAttente]
    /\ chevauches' = chevauches \cup ({De[r] : r \in EnAttente} \cap Occupes)
    /\ UNCHANGED <<donnees, operateur, envoye, session, operations, coupures>>

\* db.get reads the balance once, for the first top-up of the wallet that succeeded.
Charge(w) == IF \E r \in tache.reussies : De[r] = w THEN tache.charges[w] ELSE solde[w]

TacheInterroger(r) ==
    LET w == De[r]
        statut == operateur[r]
        suite == [tache EXCEPT !.reste = @ \ {r}]
    IN  /\ r \in tache.reste
        /\ tache' = IF statut = "success"
                    THEN [suite EXCEPT
                            !.reussies = @ \cup {r},
                            !.charges = [@ EXCEPT ![w] = Charge(w) + Montant[r]]]
                    ELSE IF statut = "failed" THEN [suite EXCEPT !.echouees = @ \cup {r}]
                    ELSE suite
        /\ UNCHANGED <<donnees, operateur, envoye, session, chevauches, operations, coupures>>

\* The operator answers with an error: the task goes on with the next row.
TacheIgnorer(r) ==
    /\ r \in tache.reste
    /\ Couper
    /\ tache' = [tache EXCEPT !.reste = @ \ {r}]
    /\ UNCHANGED <<donnees, operateur, envoye, session, chevauches, operations>>

TacheValider_mutSansEchec ==
    /\ tache.lot # {} /\ tache.reste = {}
    /\ recharges' = [r \in Recharge |-> IF r \in tache.reussies THEN "REUSSI" ELSE recharges[r]]
    /\ solde' = [w \in Wallet |-> Charge(w)]
    /\ tache' = Repos
    /\ UNCHANGED <<operateur, autres, envoye, session, chevauches, operations, coupures>>

TacheValider ==
    /\ tache.lot # {} /\ tache.reste = {}
    /\ recharges' = [r \in Recharge |-> IF r \in tache.reussies THEN "REUSSI"
                                        ELSE IF r \in tache.echouees THEN "ECHEC"
                                        ELSE recharges[r]]
    /\ solde' = [w \in Wallet |-> Charge(w)]
    /\ tache' = Repos
    /\ UNCHANGED <<operateur, autres, envoye, session, chevauches, operations, coupures>>

\* httpx times out, or the worker is lost: the whole batch is, and Celery starts again.
TachePerdue ==
    /\ tache.lot # {}
    /\ Couper
    /\ tache' = Repos
    /\ UNCHANGED <<donnees, operateur, envoye, session, chevauches, operations>>

-----------------------------------------------------------------------------
(* The operators: what the user does on the phone, and a refund by FedaPay *)

Operateur(r) ==
    /\ \/ operateur[r] = "pending" /\ operateur' = [operateur EXCEPT ![r] = "success"]
       \/ operateur[r] = "pending" /\ operateur' = [operateur EXCEPT ![r] = "failed"]
       \/ /\ operateur[r] = "success" /\ r \notin Suivies
          /\ operateur' = [operateur EXCEPT ![r] = "refunded"]
    /\ UNCHANGED <<donnees, envoye, session, tache, chevauches, operations, coupures>>

Next ==
    \/ \E r \in Recharge : InitierRecharge(r) \/ InitierRefusee(r) \/ InitierPerdue(r) \/ Operateur(r)
    \/ \E s \in Session :
          \/ Abandon(s)
          \/ \E r \in Recharge : ConfirmerLire(s, r)
          \/ ConfirmerReussie(s) \/ ConfirmerEchouee(s) \/ ConfirmerEnAttente(s)
          \/ \E w \in Wallet, m \in Montants : RetraitLire(s, w, m)
          \/ RetraitAccepte(s) \/ RetraitManuel(s) \/ RetraitRefuse(s) \/ RetraitPerdu(s)
          \/ \E w, d \in Wallet, m \in Montants : TransfertLire(s, w, d, m)
          \/ TransfertLireDest(s) \/ TransfertValider(s)
    \/ TacheLancer
    \/ \E r \in Recharge : TacheInterroger(r) \/ TacheIgnorer(r)
    \/ TacheValider
    \/ TachePerdue

Spec == Init /\ [][Next]_vars

\* Celery beat starts the task every minute; a run that is not lost goes to its end.
FairSpec ==
    /\ Spec
    /\ WF_vars(TacheLancer)
    /\ WF_vars(\E r \in Recharge : TacheInterroger(r))
    /\ WF_vars(TacheValider)

-----------------------------------------------------------------------------
(* Properties *)

\* No wallet goes below zero, whatever stale balance a request or the task writes back.
SoldePositif == \A w \in Wallet : solde[w] >= 0

\* What the rows of transactions say a wallet holds.
Credit(R) == MapThenSumSet(LAMBDA r : Montant[r], R)
Compte(w) == autres[w] + Credit({r \in Recharge : De[r] = w /\ recharges[r] = "REUSSI"})

\* The balance of a wallet is what its rows add up to, as long as two units of work never
\* worked on it at once, whatever is refused, cut off or lost on the way.
SoldeComptable == \A w \in Wallet \ chevauches : solde[w] = Compte(w)

\* A top-up is only concluded on the word of the operator: no balance grows out of a
\* collection that did not succeed, and none that succeeded is written off unless refunded.
ConclueSurReponse ==
    \A r \in Recharge :
        /\ recharges[r] = "REUSSI" => operateur[r] \in {"success", "refunded"}
        /\ recharges[r] = "ECHEC"  => operateur[r] \in {"aucune", "failed", "refunded"}

\* As long as no two units of work ran at once on a wallet and no call was cut off, the
\* platform never sent out more than its users paid in, less what it still owes them.
Solvable ==
    chevauches = {} /\ coupures = 0 =>
        envoye + MapThenSumSet(LAMBDA w : solde[w], Wallet)
            <= Credit({r \in Recharge : operateur[r] \in {"success", "refunded"}})

\* A settled top-up that the task polls does not stay pending.
RechargeTraitee ==
    \A r \in Suivies : recharges[r] = "EN_ATTENTE" /\ operateur[r] \in {"success", "failed"}
                           ~> recharges[r] # "EN_ATTENTE"

=============================================================================
