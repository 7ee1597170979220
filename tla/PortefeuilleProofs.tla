------------------------- MODULE PortefeuilleProofs --------------------------
(***************************************************************************)
(* Proofs about Portefeuille, for any finite tables of wallets and         *)
(* top-ups, any amounts and any number of requests in progress.            *)
(*                                                                         *)
(* A request writes back a balance it read long ago, so the invariants     *)
(* have to speak of what is in flight.  Lectures bounds the balances that  *)
(* the requests and the task have in hand, TacheSure says that the task    *)
(* only holds answers that the operators did give, and Comptable that on a *)
(* wallet where no two of them overlapped, what each has in hand is still  *)
(* what the table holds.                                                   *)
(*                                                                         *)
(* The accounts are sums over the tables: the theory of Somme below is     *)
(* proved by taking a smallest set that would contradict it, from the      *)
(* well-foundedness of strict inclusion between finite sets.               *)
(*                                                                         *)
(* The last part is about AvisNotes, the other component that keeps in     *)
(* columns what a sum over its rows gives: the theory is the same.         *)
(***************************************************************************)
EXTENDS Portefeuille, FiniteSetTheorems, TLAPS

Lectures ==
    /\ \A s \in Session :
           /\ session[s].op = "confirm" => session[s].lu >= 0
           /\ session[s].op \in {"retrait", "transfert", "transfert_lu"} => session[s].lu >= session[s].m
           /\ session[s].op = "transfert_lu" => session[s].luDest >= 0
    /\ \A r \in tache.reussies : tache.charges[De[r]] >= 0

TacheSure ==
    /\ \A r \in tache.reussies : operateur[r] = "success"
    /\ \A r \in tache.echouees : operateur[r] = "failed"

IInv == TypeOK /\ SoldePositif /\ Lectures /\ ConclueSurReponse /\ TacheSure

-----------------------------------------------------------------------------
(* Type correctness *)

\* What a request in progress holds, by what it is.
LEMMA SessionCas ==
    ASSUME TypeOK, NEW s \in Session
    PROVE  /\ session[s].op = "confirm" =>
                  session[s].w \in Wallet /\ session[s].r \in Recharge /\ session[s].lu \in Int
           /\ session[s].op = "retrait" =>
                  session[s].w \in Wallet /\ session[s].m \in Montants /\ session[s].lu \in Int
           /\ session[s].op \in {"transfert", "transfert_lu"} =>
                  /\ session[s].w \in Wallet /\ session[s].d \in Wallet
                  /\ session[s].m \in Montants /\ session[s].lu \in Int
           /\ session[s].op = "transfert_lu" => session[s].luDest \in Int
  BY DEF TypeOK, SessionRec, Libre

LEMMA TerminerType ==
    ASSUME TypeOK, NEW s \in Session, Terminer(s)
    PROVE  session' \in [Session -> SessionRec]
  BY DEF TypeOK, Terminer, SessionRec

LEMMA InitType == Init => TypeOK
  BY BornesAssumption DEF Init, TypeOK, SessionRec, Libre, Repos, TacheRec,
     StatutRecharge, StatutOperateur

\* What TypeOK says of the task.
TacheOK ==
    /\ tache \in TacheRec
    /\ tache.reste \subseteq tache.lot
    /\ tache.reussies \cup tache.echouees \subseteq tache.lot \ tache.reste

\* The task goes on to the next row: with a success, with a failure, or with neither.
LEMMA TacheSuite ==
    ASSUME TypeOK, NEW r \in Recharge, TacheInterroger(r) \/ TacheIgnorer(r)
    PROVE  /\ r \in tache.reste
           /\ \/ /\ operateur[r] = "success"
                 /\ tache' = [lot |-> tache.lot, reste |-> tache.reste \ {r},
                              reussies |-> tache.reussies \cup {r}, echouees |-> tache.echouees,
                              charges |-> [tache.charges EXCEPT ![De[r]] = Charge(De[r]) + Montant[r]]]
              \/ /\ operateur[r] = "failed"
                 /\ tache' = [lot |-> tache.lot, reste |-> tache.reste \ {r},
                              reussies |-> tache.reussies, echouees |-> tache.echouees \cup {r},
                              charges |-> tache.charges]
              \/ tache' = [lot |-> tache.lot, reste |-> tache.reste \ {r},
                           reussies |-> tache.reussies, echouees |-> tache.echouees,
                           charges |-> tache.charges]
<1> DEFINE suite == [tache EXCEPT !.reste = tache.reste \ {r}]
<1>1. suite = [lot |-> tache.lot, reste |-> tache.reste \ {r}, reussies |-> tache.reussies,
               echouees |-> tache.echouees, charges |-> tache.charges]
  <2>1. tache \in TacheRec
    BY DEF TypeOK
  <2>2. tache = [lot |-> tache.lot, reste |-> tache.reste, reussies |-> tache.reussies,
                 echouees |-> tache.echouees, charges |-> tache.charges]
    BY <2>1 DEF TacheRec
  <2> QED
    BY <2>2
<1>2. CASE TacheInterroger(r) /\ operateur[r] = "success"
  <2>1. tache' = [suite EXCEPT
            !.reussies = suite.reussies \cup {r},
            !.charges = [suite.charges EXCEPT ![De[r]] = Charge(De[r]) + Montant[r]]]
    BY <1>2 DEF TacheInterroger
  <2> QED
    BY <1>1, <1>2, <2>1 DEF TacheInterroger
<1>3. CASE TacheInterroger(r) /\ operateur[r] = "failed"
  <2>1. tache' = [suite EXCEPT !.echouees = suite.echouees \cup {r}]
    BY <1>3 DEF TacheInterroger
  <2> QED
    BY <1>1, <1>3, <2>1 DEF TacheInterroger
<1>4. CASE TacheIgnorer(r) \/ (TacheInterroger(r) /\ operateur[r] \notin {"success", "failed"})
  BY <1>1, <1>4 DEF TacheInterroger, TacheIgnorer
<1> QED
  BY <1>2, <1>3, <1>4

LEMMA NextType == TypeOK /\ [Next]_vars => TypeOK'
<1> SUFFICES ASSUME TypeOK, [Next]_vars
             PROVE  TypeOK'
  OBVIOUS
<1>1. ASSUME NEW r \in Recharge,
             InitierRecharge(r) \/ InitierRefusee(r) \/ InitierPerdue(r) \/ Operateur(r)
      PROVE  TypeOK'
  BY <1>1, BornesAssumption DEF TypeOK, InitierRecharge, InitierRefusee, InitierPerdue, Operateur,
     Couper, donnees, StatutRecharge, StatutOperateur
<1>2. ASSUME NEW s \in Session, Abandon(s) \/ ConfirmerEnAttente(s) \/ RetraitPerdu(s)
      PROVE  TypeOK'
  <2>1. session' \in [Session -> SessionRec]
    BY <1>2, TerminerType DEF Abandon, ConfirmerEnAttente, RetraitPerdu
  <2>2. envoye' \in Nat
    <3>1. session[s].op = "retrait" => session[s].m \in Nat
      BY SessionCas, MontantAssumption
    <3> QED
      BY <1>2, <3>1 DEF Abandon, ConfirmerEnAttente, RetraitPerdu, TypeOK
  <2>3. coupures' \in 0..MaxCoupures
    BY <1>2, BornesAssumption DEF Abandon, ConfirmerEnAttente, RetraitPerdu, Couper, TypeOK
  <2> QED
    BY <1>2, <2>1, <2>2, <2>3 DEF Abandon, ConfirmerEnAttente, RetraitPerdu, donnees, TypeOK
<1>3. ASSUME NEW s \in Session, NEW r \in Recharge, ConfirmerLire(s, r)
      PROVE  TypeOK'
  <2>1. De[r] \in Wallet /\ solde[De[r]] \in Int
    BY DeAssumption DEF TypeOK
  <2>2. session' \in [Session -> SessionRec] /\ chevauches' \subseteq Wallet
    BY <1>3, <2>1 DEF ConfirmerLire, Debuter, SessionRec, TypeOK
  <2> QED
    BY <1>3, <2>2 DEF ConfirmerLire, donnees, TypeOK
<1>4. ASSUME NEW s \in Session, ConfirmerReussie(s) \/ ConfirmerEchouee(s)
      PROVE  TypeOK'
  <2>1. session' \in [Session -> SessionRec]
    BY <1>4, TerminerType DEF ConfirmerReussie, ConfirmerEchouee
  <2>2. session[s].w \in Wallet /\ session[s].r \in Recharge /\ session[s].lu \in Int
    BY <1>4, SessionCas DEF ConfirmerReussie, ConfirmerEchouee, Confirme
  <2>3. Montant[session[s].r] \in Int
    BY <2>2, MontantAssumption
  <2> QED
    BY <1>4, <2>1, <2>2, <2>3 DEF ConfirmerReussie, ConfirmerEchouee, TypeOK, StatutRecharge
<1>5. ASSUME NEW s \in Session, NEW w \in Wallet, NEW m \in Montants, RetraitLire(s, w, m)
      PROVE  TypeOK'
  <2>1. session' \in [Session -> SessionRec] /\ chevauches' \subseteq Wallet
    BY <1>5 DEF RetraitLire, Debuter, SessionRec, TypeOK
  <2> QED
    BY <1>5, <2>1, BornesAssumption DEF RetraitLire, Compter, donnees, TypeOK
<1>6. ASSUME NEW s \in Session, RetraitAccepte(s) \/ RetraitManuel(s) \/ RetraitRefuse(s)
      PROVE  TypeOK'
  <2>1. session' \in [Session -> SessionRec]
    BY <1>6, TerminerType DEF RetraitAccepte, RetraitManuel, RetraitRefuse
  <2>2. session[s].w \in Wallet /\ session[s].m \in Nat /\ session[s].lu \in Int
    BY <1>6, SessionCas, MontantAssumption DEF RetraitAccepte, RetraitManuel, RetraitRefuse
  <2>3. solde' \in [Wallet -> Int] /\ autres' \in [Wallet -> Int] /\ envoye' \in Nat
    BY <1>6, <2>2 DEF RetraitAccepte, RetraitManuel, RetraitRefuse, Debiter, TypeOK
  <2>4. coupures' \in 0..MaxCoupures
    BY <1>6, BornesAssumption DEF RetraitAccepte, RetraitManuel, RetraitRefuse, Couper, TypeOK
  <2> QED
    BY <1>6, <2>1, <2>3, <2>4 DEF RetraitAccepte, RetraitManuel, RetraitRefuse, TypeOK
<1>7. ASSUME NEW s \in Session, NEW w \in Wallet, NEW d \in Wallet, NEW m \in Montants,
             TransfertLire(s, w, d, m)
      PROVE  TypeOK'
  <2>1. session' \in [Session -> SessionRec] /\ chevauches' \subseteq Wallet
    BY <1>7 DEF TransfertLire, Debuter, SessionRec, TypeOK
  <2> QED
    BY <1>7, <2>1, BornesAssumption DEF TransfertLire, Compter, donnees, TypeOK
<1>8. ASSUME NEW s \in Session, TransfertLireDest(s)
      PROVE  TypeOK'
  <2>1. /\ session[s].w \in Wallet /\ session[s].d \in Wallet
        /\ session[s].m \in Montants /\ session[s].lu \in Int
    BY <1>8, SessionCas DEF TransfertLireDest
  <2>2. session' \in [Session -> SessionRec]
    BY <1>8, <2>1 DEF TransfertLireDest, SessionRec, TypeOK
  <2> QED
    BY <1>8, <2>2 DEF TransfertLireDest, donnees, TypeOK
<1>9. ASSUME NEW s \in Session, TransfertValider(s)
      PROVE  TypeOK'
  <2>1. session' \in [Session -> SessionRec]
    BY <1>9, TerminerType DEF TransfertValider
  <2>2. /\ session[s].w \in Wallet /\ session[s].d \in Wallet
        /\ session[s].m \in Nat /\ session[s].lu \in Int /\ session[s].luDest \in Int
    BY <1>9, SessionCas, MontantAssumption DEF TransfertValider
  <2>3. solde' \in [Wallet -> Int] /\ autres' \in [Wallet -> Int]
    BY <1>9, <2>2 DEF TransfertValider, TypeOK
  <2> QED
    BY <1>9, <2>1, <2>3 DEF TransfertValider, TypeOK
<1>10. ASSUME TacheLancer
       PROVE  TypeOK'
  <2>1. tache' = [lot |-> EnAttente, reste |-> EnAttente, reussies |-> {}, echouees |-> {},
                  charges |-> [w \in Wallet |-> 0]]
    BY <1>10 DEF TacheLancer, Repos
  <2>2. EnAttente \subseteq Suivies
    BY DEF EnAttente
  <2>3. TacheOK'
    BY <2>1, <2>2 DEF TacheOK, TacheRec
  <2>4. chevauches' \subseteq Wallet
    BY <1>10, <2>2, DeAssumption, SuiviesAssumption DEF TacheLancer, TypeOK
  <2> QED
    BY <1>10, <2>3, <2>4 DEF TacheLancer, donnees, TacheOK, TypeOK
<1>11. ASSUME NEW r \in Recharge, TacheInterroger(r) \/ TacheIgnorer(r)
       PROVE  TypeOK'
  <2>1. De[r] \in Wallet /\ Charge(De[r]) + Montant[r] \in Int
    BY DeAssumption, MontantAssumption DEF TypeOK, TacheRec, Charge
  <2>2. TacheOK'
    BY <1>11, <2>1, TacheSuite DEF TypeOK, TacheOK, TacheRec
  <2>3. coupures' \in 0..MaxCoupures
    BY <1>11, BornesAssumption DEF TacheInterroger, TacheIgnorer, Couper, TypeOK
  <2> QED
    BY <1>11, <2>2, <2>3 DEF TacheInterroger, TacheIgnorer, donnees, TacheOK, TypeOK
<1>12. ASSUME TacheValider \/ TachePerdue
       PROVE  TypeOK'
  <2>1. TacheOK'
    BY <1>12 DEF TacheValider, TachePerdue, TacheOK, TacheRec, Repos
  <2>2. solde' \in [Wallet -> Int] /\ recharges' \in [Recharge -> StatutRecharge]
    BY <1>12 DEF TacheValider, TachePerdue, Charge, donnees, TypeOK, TacheRec, StatutRecharge
  <2>3. coupures' \in 0..MaxCoupures
    BY <1>12, BornesAssumption DEF TacheValider, TachePerdue, Couper, TypeOK
  <2> QED
    BY <1>12, <2>1, <2>2, <2>3 DEF TacheValider, TachePerdue, donnees, TacheOK, TypeOK
<1>13. CASE UNCHANGED vars
  BY <1>13 DEF vars, donnees, TypeOK
<1> QED
  BY <1>1, <1>2, <1>3, <1>4, <1>5, <1>6, <1>7, <1>8, <1>9, <1>10, <1>11, <1>12, <1>13 DEF Next

\* Every reachable state keeps the shape of the tables (models/wallet.py, transaction.py).
THEOREM TypeCorrect == Spec => []TypeOK
  BY InitType, NextType, PTL DEF Spec

-----------------------------------------------------------------------------
(* The balances in hand are never negative, so those written back are not *)

\* A session that ends holds nothing, and the others hold what they held.
LEMMA LecturesTerminer ==
    ASSUME TypeOK, Lectures, NEW s \in Session, Terminer(s), UNCHANGED tache
    PROVE  Lectures'
<1>1. \A q \in Session : session'[q] = IF q = s THEN Libre ELSE session[q]
  BY DEF Terminer, TypeOK
<1> QED
  BY <1>1 DEF Lectures, Libre

LEMMA LecturesDebuter ==
    ASSUME TypeOK, Lectures, NEW s \in Session, NEW etat, session' = [session EXCEPT ![s] = etat],
           etat.op = "confirm" => etat.lu >= 0,
           etat.op \in {"retrait", "transfert", "transfert_lu"} => etat.lu >= etat.m,
           etat.op = "transfert_lu" => etat.luDest >= 0,
           UNCHANGED tache
    PROVE  Lectures'
<1>1. \A q \in Session : session'[q] = IF q = s THEN etat ELSE session[q]
  BY DEF TypeOK
<1> QED
  BY <1>1 DEF Lectures

LEMMA EcrireSolde ==
    ASSUME TypeOK, SoldePositif, NEW w \in Wallet, NEW n \in Nat, solde' = [solde EXCEPT ![w] = n]
    PROVE  SoldePositif'
<1>1. \A x \in Wallet : solde'[x] = IF x = w THEN n ELSE solde[x]
  BY DEF TypeOK
<1> QED
  BY <1>1 DEF SoldePositif

LEMMA NextSolde ==
    TypeOK /\ SoldePositif /\ Lectures /\ [Next]_vars => SoldePositif' /\ Lectures'
<1> SUFFICES ASSUME TypeOK, SoldePositif, Lectures, [Next]_vars
             PROVE  SoldePositif' /\ Lectures'
  OBVIOUS
<1>1. ASSUME UNCHANGED <<solde, session, tache>>
      PROVE  SoldePositif' /\ Lectures'
  BY <1>1 DEF SoldePositif, Lectures
<1>2. ASSUME NEW r \in Recharge,
             InitierRecharge(r) \/ InitierRefusee(r) \/ InitierPerdue(r) \/ Operateur(r)
      PROVE  SoldePositif' /\ Lectures'
  BY <1>1, <1>2 DEF InitierRecharge, InitierRefusee, InitierPerdue, Operateur, donnees
<1>3. ASSUME NEW s \in Session, Abandon(s) \/ ConfirmerEchouee(s) \/ ConfirmerEnAttente(s) \/ RetraitPerdu(s)
      PROVE  SoldePositif' /\ Lectures'
  <2>1. Terminer(s) /\ UNCHANGED <<solde, tache>>
    BY <1>3 DEF Abandon, ConfirmerEchouee, ConfirmerEnAttente, RetraitPerdu, donnees
  <2> QED
    BY <2>1, LecturesTerminer DEF SoldePositif
<1>4. ASSUME NEW s \in Session, NEW r \in Recharge, ConfirmerLire(s, r)
      PROVE  SoldePositif' /\ Lectures'
  <2>1. solde[De[r]] >= 0 /\ UNCHANGED <<solde, tache>>
    BY <1>4, DeAssumption DEF ConfirmerLire, SoldePositif, donnees
  <2>2. session' = [session EXCEPT ![s] = [op |-> "confirm", w |-> De[r], r |-> r, lu |-> solde[De[r]]]]
    BY <1>4 DEF ConfirmerLire, Debuter
  <2> QED
    BY <2>1, <2>2, LecturesDebuter DEF SoldePositif
<1>5. ASSUME NEW s \in Session, NEW w \in Wallet, NEW m \in Montants, RetraitLire(s, w, m)
      PROVE  SoldePositif' /\ Lectures'
  <2>1. solde[w] >= m /\ UNCHANGED <<solde, tache>>
    BY <1>5 DEF RetraitLire, donnees
  <2>2. session' = [session EXCEPT ![s] = [op |-> "retrait", w |-> w, m |-> m, lu |-> solde[w]]]
    BY <1>5 DEF RetraitLire, Debuter
  <2> QED
    BY <2>1, <2>2, LecturesDebuter DEF SoldePositif
<1>6. ASSUME NEW s \in Session, NEW w \in Wallet, NEW d \in Wallet, NEW m \in Montants,
             TransfertLire(s, w, d, m)
      PROVE  SoldePositif' /\ Lectures'
  <2>1. solde[w] >= m /\ UNCHANGED <<solde, tache>>
    BY <1>6 DEF TransfertLire, donnees
  <2>2. session' = [session EXCEPT ![s] = [op |-> "transfert", w |-> w, d |-> d, m |-> m, lu |-> solde[w]]]
    BY <1>6 DEF TransfertLire, Debuter
  <2> QED
    BY <2>1, <2>2, LecturesDebuter DEF SoldePositif
<1>7. ASSUME NEW s \in Session, TransfertLireDest(s)
      PROVE  SoldePositif' /\ Lectures'
  <2>1. /\ session[s].op = "transfert" /\ UNCHANGED <<solde, tache>>
        /\ session' = [session EXCEPT ![s] =
               [op |-> "transfert_lu", w |-> session[s].w, d |-> session[s].d, m |-> session[s].m,
                lu |-> session[s].lu, luDest |-> solde[session[s].d]]]
    BY <1>7 DEF TransfertLireDest, donnees
  <2>2. session[s].lu >= session[s].m /\ solde[session[s].d] >= 0
    BY <2>1, SessionCas DEF Lectures, SoldePositif
  <2> QED
    BY <2>1, <2>2, LecturesDebuter DEF SoldePositif
<1>8. ASSUME NEW s \in Session,
             \/ ConfirmerReussie(s) \/ RetraitAccepte(s) \/ RetraitManuel(s) \/ RetraitRefuse(s)
             \/ TransfertValider(s)
      PROVE  SoldePositif' /\ Lectures'
  <2>1. Terminer(s) /\ UNCHANGED tache
    BY <1>8 DEF ConfirmerReussie, RetraitAccepte, RetraitManuel, RetraitRefuse, TransfertValider
  <2>2. ASSUME ConfirmerReussie(s)
        PROVE  SoldePositif'
    <3>1. /\ session[s].w \in Wallet /\ session[s].lu \in Int /\ session[s].lu >= 0
          /\ Montant[session[s].r] \in Nat
      BY <2>2, SessionCas, MontantAssumption DEF ConfirmerReussie, Confirme, Lectures
    <3>2. /\ solde' = [solde EXCEPT ![session[s].w] = session[s].lu + Montant[session[s].r]]
          /\ session[s].lu + Montant[session[s].r] \in Nat
      BY <2>2, <3>1 DEF ConfirmerReussie
    <3> QED
      BY <3>1, <3>2, EcrireSolde
  <2>3. ASSUME RetraitAccepte(s) \/ RetraitManuel(s) \/ RetraitRefuse(s)
        PROVE  SoldePositif'
    <3>1. session[s].op = "retrait"
      BY <2>3 DEF RetraitAccepte, RetraitManuel, RetraitRefuse
    <3>2. /\ session[s].w \in Wallet /\ session[s].lu \in Int /\ session[s].m \in Nat
          /\ session[s].lu >= session[s].m
      BY <3>1, SessionCas, MontantAssumption DEF Lectures
    <3>3. /\ session[s].lu \in Nat /\ session[s].lu - session[s].m \in Nat
          /\ \/ solde' = [solde EXCEPT ![session[s].w] = session[s].lu - session[s].m]
             \/ solde' = [solde EXCEPT ![session[s].w] = session[s].lu]
      BY <2>3, <3>2 DEF RetraitAccepte, RetraitManuel, RetraitRefuse, Debiter
    <3> QED
      BY <3>2, <3>3, EcrireSolde
  <2>4. ASSUME TransfertValider(s)
        PROVE  SoldePositif'
    <3>1. session[s].op = "transfert_lu"
      BY <2>4 DEF TransfertValider
    <3>2. /\ session[s].w \in Wallet /\ session[s].d \in Wallet /\ session[s].lu \in Int
          /\ session[s].m \in Nat /\ session[s].luDest \in Int
          /\ session[s].lu >= session[s].m /\ session[s].luDest >= 0
      BY <3>1, SessionCas, MontantAssumption DEF Lectures
    <3>3. CASE session[s].w = session[s].d
      BY <2>4, <3>3 DEF TransfertValider, SoldePositif
    <3>4. CASE session[s].w # session[s].d
      <4>1. \A x \in Wallet : solde'[x] = IF x = session[s].d THEN session[s].luDest + session[s].m
                                          ELSE IF x = session[s].w THEN session[s].lu - session[s].m
                                          ELSE solde[x]
        <5>1. solde' = [solde EXCEPT ![session[s].w] = session[s].lu - session[s].m,
                                     ![session[s].d] = session[s].luDest + session[s].m]
          BY <2>4, <3>4 DEF TransfertValider
        <5> QED
          BY <3>2, <3>4, <5>1 DEF TypeOK
      <4> QED
        BY <3>2, <4>1 DEF SoldePositif
    <3> QED
      BY <3>3, <3>4
  <2>5. SoldePositif'
    BY <1>8, <2>2, <2>3, <2>4
  <2> QED
    BY <2>1, <2>5, LecturesTerminer
<1>9. ASSUME TacheLancer \/ TachePerdue
      PROVE  SoldePositif' /\ Lectures'
  <2>1. UNCHANGED <<solde, session>> /\ tache'.reussies = {}
    <3>1. CASE TacheLancer
      <4>1. tache' = [lot |-> EnAttente, reste |-> EnAttente, reussies |-> {}, echouees |-> {},
                      charges |-> [w \in Wallet |-> 0]]
        BY <3>1 DEF TacheLancer, Repos
      <4>2. tache'.reussies = {}
        BY <4>1
      <4> QED
        BY <3>1, <4>2 DEF TacheLancer, donnees
    <3>2. CASE TachePerdue
      BY <3>2 DEF TachePerdue, donnees, Repos
    <3> QED
      BY <1>9, <3>1, <3>2
  <2> QED
    BY <2>1 DEF SoldePositif, Lectures
<1>10. ASSUME NEW r \in Recharge, TacheInterroger(r) \/ TacheIgnorer(r)
       PROVE  SoldePositif' /\ Lectures'
  <2>1. UNCHANGED <<solde, session>>
    BY <1>10 DEF TacheInterroger, TacheIgnorer, donnees
  <2>2. /\ Charge(De[r]) \in Int /\ Charge(De[r]) >= 0 /\ Montant[r] \in Nat /\ De[r] \in Wallet
        /\ tache.charges \in [Wallet -> Int]
    BY DeAssumption, MontantAssumption, SuiviesAssumption
       DEF Charge, Lectures, SoldePositif, TypeOK, TacheRec
  <2>3. \A q \in tache'.reussies : tache'.charges[De[q]] >= 0
    <3>1. \A q \in tache.reussies : De[q] \in Wallet /\ tache.charges[De[q]] >= 0
      BY DeAssumption, SuiviesAssumption DEF Lectures, TypeOK, TacheRec
    <3> QED
      BY <1>10, <2>2, <3>1, TacheSuite
  <2> QED
    BY <2>1, <2>3 DEF SoldePositif, Lectures
<1>11. ASSUME TacheValider
       PROVE  SoldePositif' /\ Lectures'
  <2>1. UNCHANGED session /\ tache'.reussies = {} /\ solde' = [w \in Wallet |-> Charge(w)]
    BY <1>11 DEF TacheValider, Repos
  <2>2. \A w \in Wallet : Charge(w) >= 0
    BY DEF Charge, Lectures, SoldePositif
  <2> QED
    BY <2>1, <2>2 DEF SoldePositif, Lectures
<1>12. CASE UNCHANGED vars
  BY <1>1, <1>12 DEF vars
<1> QED
  BY <1>2, <1>3, <1>4, <1>5, <1>6, <1>7, <1>8, <1>9, <1>10, <1>11, <1>12 DEF Next

-----------------------------------------------------------------------------
(* Nothing is concluded but on the word of the operator *)

\* Top-ups and operators as they were, for the steps that leave both alone.
LEMMA ConclueMeme ==
    ASSUME TypeOK, ConclueSurReponse, TacheSure, UNCHANGED <<recharges, operateur>>,
           \A r \in tache'.reussies : operateur[r] = "success",
           \A r \in tache'.echouees : operateur[r] = "failed"
    PROVE  ConclueSurReponse' /\ TacheSure'
  BY DEF ConclueSurReponse, TacheSure

LEMMA ConclueUne ==
    ASSUME TypeOK, ConclueSurReponse, TacheSure, UNCHANGED <<operateur, tache>>,
           NEW r \in Recharge, NEW statut, recharges' = [recharges EXCEPT ![r] = statut],
           statut = "REUSSI" => operateur[r] \in {"success", "refunded"},
           statut = "ECHEC" => operateur[r] \in {"aucune", "failed", "refunded"}
    PROVE  ConclueSurReponse' /\ TacheSure'
<1>1. \A q \in Recharge : recharges'[q] = IF q = r THEN statut ELSE recharges[q]
  BY DEF TypeOK
<1> QED
  BY <1>1 DEF ConclueSurReponse, TacheSure

LEMMA NextConclue ==
    TypeOK /\ ConclueSurReponse /\ TacheSure /\ [Next]_vars => ConclueSurReponse' /\ TacheSure'
<1> SUFFICES ASSUME TypeOK, ConclueSurReponse, TacheSure, [Next]_vars
             PROVE  ConclueSurReponse' /\ TacheSure'
  OBVIOUS
<1>1. ASSUME UNCHANGED <<recharges, operateur, tache>>
      PROVE  ConclueSurReponse' /\ TacheSure'
  BY <1>1 DEF ConclueSurReponse, TacheSure
<1>2. ASSUME NEW r \in Recharge, InitierRecharge(r) \/ InitierPerdue(r)
      PROVE  ConclueSurReponse' /\ TacheSure'
  <2>1. /\ operateur[r] = "aucune" /\ operateur' = [operateur EXCEPT ![r] = "pending"]
        /\ recharges[r] = "absente" /\ UNCHANGED tache
        /\ recharges' = recharges \/ recharges' = [recharges EXCEPT ![r] = "EN_ATTENTE"]
    BY <1>2 DEF InitierRecharge, InitierPerdue, donnees
  <2>2. \A q \in Recharge : q # r => operateur'[q] = operateur[q] /\ recharges'[q] = recharges[q]
    BY <2>1 DEF TypeOK
  <2>3. recharges'[r] \in {"absente", "EN_ATTENTE"}
    BY <2>1 DEF TypeOK
  <2>4. tache.reussies \subseteq Recharge /\ tache.echouees \subseteq Recharge
    BY SuiviesAssumption DEF TypeOK, TacheRec
  <2> QED
    BY <2>1, <2>2, <2>3, <2>4 DEF ConclueSurReponse, TacheSure
<1>3. ASSUME NEW r \in Recharge, InitierRefusee(r)
      PROVE  ConclueSurReponse' /\ TacheSure'
  BY <1>3, ConclueUne DEF InitierRefusee
<1>4. ASSUME NEW r \in Recharge, Operateur(r)
      PROVE  ConclueSurReponse' /\ TacheSure'
  <2>1. PICK o \in StatutOperateur :
            /\ operateur' = [operateur EXCEPT ![r] = o]
            /\ \/ operateur[r] = "pending"
               \/ operateur[r] = "success" /\ r \notin Suivies /\ o = "refunded"
    BY <1>4 DEF Operateur, StatutOperateur
  <2>2. \A q \in Recharge : operateur'[q] = IF q = r THEN o ELSE operateur[q]
    BY <2>1 DEF TypeOK
  <2>3. UNCHANGED <<recharges, tache>>
    BY <1>4 DEF Operateur, donnees
  <2>4. tache.reussies \subseteq Suivies /\ tache.echouees \subseteq Suivies
    BY DEF TypeOK, TacheRec
  <2> QED
    BY <2>1, <2>2, <2>3, <2>4, SuiviesAssumption DEF ConclueSurReponse, TacheSure
<1>5. ASSUME NEW s \in Session, ConfirmerReussie(s) \/ ConfirmerEchouee(s)
      PROVE  ConclueSurReponse' /\ TacheSure'
  <2>1. session[s].r \in Recharge
    BY <1>5, SessionCas DEF ConfirmerReussie, ConfirmerEchouee, Confirme
  <2>2. CASE ConfirmerReussie(s)
    BY <2>1, <2>2, ConclueUne DEF ConfirmerReussie, Confirme
  <2>3. CASE ConfirmerEchouee(s)
    BY <2>1, <2>3, ConclueUne DEF ConfirmerEchouee, Confirme
  <2> QED
    BY <1>5, <2>2, <2>3
<1>6. ASSUME NEW s \in Session,
             \/ Abandon(s) \/ ConfirmerEnAttente(s) \/ TransfertLireDest(s) \/ TransfertValider(s)
             \/ RetraitAccepte(s) \/ RetraitManuel(s) \/ RetraitRefuse(s) \/ RetraitPerdu(s)
             \/ \E r \in Recharge : ConfirmerLire(s, r)
             \/ \E w \in Wallet, m \in Montants : RetraitLire(s, w, m)
             \/ \E w, d \in Wallet, m \in Montants : TransfertLire(s, w, d, m)
      PROVE  ConclueSurReponse' /\ TacheSure'
  BY <1>1, <1>6 DEF Abandon, ConfirmerEnAttente, TransfertLireDest, TransfertValider, RetraitAccepte,
     RetraitManuel, RetraitRefuse, RetraitPerdu, ConfirmerLire, RetraitLire, TransfertLire, donnees
<1>7. ASSUME TacheLancer \/ TachePerdue
      PROVE  ConclueSurReponse' /\ TacheSure'
  <2>1. CASE TacheLancer
    <3>1. tache' = [lot |-> EnAttente, reste |-> EnAttente, reussies |-> {}, echouees |-> {},
                    charges |-> [w \in Wallet |-> 0]]
      BY <2>1 DEF TacheLancer, Repos
    <3>2. tache'.reussies = {} /\ tache'.echouees = {}
      BY <3>1
    <3>3. UNCHANGED <<recharges, operateur>>
      BY <2>1 DEF TacheLancer, donnees
    <3> QED
      BY <3>2, <3>3, ConclueMeme
  <2>2. CASE TachePerdue
    <3>1. tache'.reussies = {} /\ tache'.echouees = {} /\ UNCHANGED <<recharges, operateur>>
      BY <2>2 DEF TachePerdue, Repos, donnees
    <3> QED
      BY <3>1, ConclueMeme
  <2> QED
    BY <1>7, <2>1, <2>2
<1>8. ASSUME NEW r \in Recharge, TacheInterroger(r) \/ TacheIgnorer(r)
      PROVE  ConclueSurReponse' /\ TacheSure'
  <2>1. UNCHANGED <<recharges, operateur>>
    BY <1>8 DEF TacheInterroger, TacheIgnorer, donnees
  <2>2. /\ \A q \in tache'.reussies : operateur[q] = "success"
        /\ \A q \in tache'.echouees : operateur[q] = "failed"
    BY <1>8, TacheSuite DEF TacheSure
  <2> QED
    BY <2>1, <2>2, ConclueMeme
<1>9. ASSUME TacheValider
      PROVE  ConclueSurReponse' /\ TacheSure'
  <2>1. \A q \in Recharge : recharges'[q] = IF q \in tache.reussies THEN "REUSSI"
                                            ELSE IF q \in tache.echouees THEN "ECHEC" ELSE recharges[q]
    BY <1>9 DEF TacheValider
  <2>2. UNCHANGED operateur /\ tache'.reussies = {} /\ tache'.echouees = {}
    BY <1>9 DEF TacheValider, Repos
  <2> QED
    BY <2>1, <2>2 DEF ConclueSurReponse, TacheSure
<1>10. CASE UNCHANGED vars
  BY <1>1, <1>10 DEF vars
<1> QED
  BY <1>2, <1>3, <1>4, <1>5, <1>6, <1>7, <1>8, <1>9, <1>10 DEF Next

-----------------------------------------------------------------------------
(* The theorems *)

\* IInv holds at the start and no step of a request, of the task or of an operator breaks it.
THEOREM Inductif == (Init => IInv) /\ (IInv /\ [Next]_vars => IInv')
<1>1. Init => SoldePositif /\ Lectures /\ ConclueSurReponse /\ TacheSure
  BY DEF Init, SoldePositif, Lectures, Libre, Repos, ConclueSurReponse, TacheSure
<1> QED
  BY <1>1, InitType, NextType, NextSolde, NextConclue DEF IInv

\* No wallet goes below zero, however many requests write stale balances back.
THEOREM JamaisNegatif == Spec => []SoldePositif
<1>1. IInv => SoldePositif
  BY DEF IInv
<1> QED
  BY <1>1, Inductif, PTL DEF Spec

\* A top-up is only concluded on the word of its operator, by a request or by the task.
THEOREM ReponseAvantConclusion == Spec => []ConclueSurReponse
<1>1. IInv => ConclueSurReponse
  BY DEF IInv
<1> QED
  BY <1>1, Inductif, PTL DEF Spec

-----------------------------------------------------------------------------
(* Sums over finite sets *)

\* The element that MapThenSumSet takes first, and the function it computes.
Un(s)            == CHOOSE x \in s : TRUE
Terme(f, g, s)   == IF s = {} THEN 0 ELSE f[Un(s)] + g[s \ {Un(s)}]
Partielles(f, S) == CHOOSE g : g = [s \in SUBSET S |-> Terme(f, g, s)]
Somme(f, S)      == Partielles(f, S)[S]

LEMMA UnDe == \A s : s # {} => Un(s) \in s
<1> SUFFICES ASSUME NEW s, NEW x \in s
             PROVE  Un(s) \in s
  OBVIOUS
<1> QED
  BY DEF Un

\* Induction over the natural numbers, and over the parts of a finite set, for those
\* that belong to a set G: there is no least one that does not.
LEMMA Recurrence ==
    ASSUME NEW G, 0 \in G, \A n \in Nat : n \in G => n + 1 \in G
    PROVE  \A n \in Nat : n \in G
<1> SUFFICES ASSUME Nat \ G # {}
             PROVE  FALSE
  OBVIOUS
<1>1. \E n \in Nat \ G : \A m \in Nat \ G : ~ (<<m, n>> \in OpToRel(<, Nat))
  BY NatLessThanWellFounded, WFMin
<1>2. \A m, n \in Nat : <<m, n>> \in OpToRel(<, Nat) <=> m < n
  BY DEF OpToRel
<1>3. PICK n \in Nat \ G : \A m \in Nat \ G : ~ (m < n)
  BY <1>1, <1>2
<1>4. n - 1 \in Nat /\ n - 1 < n /\ (n - 1) + 1 = n
  BY <1>3
<1> QED
  BY <1>3, <1>4

LEMMA RecurrenceParties ==
    ASSUME NEW S, IsFiniteSet(S), NEW G, {} \in G,
           \A T \in SUBSET S : T # {} /\ (\A x \in T : T \ {x} \in G) => T \in G
    PROVE  S \in G
<1> SUFFICES ASSUME (SUBSET S) \ G # {}
             PROVE  FALSE
  OBVIOUS
<1> DEFINE B == (SUBSET S) \ G
<1>1. B \subseteq SUBSET S /\ B # {}
  OBVIOUS
<1> HIDE DEF B
<1>2. \E T \in B : \A U \in B : ~ (<<U, T>> \in StrictSubsetOrdering(S))
  BY <1>1, FS_StrictSubsetOrderingWellFounded, WFMin, FS_FiniteSubsetsOfFinite
<1>3. \A U, T \in SUBSET S : <<U, T>> \in StrictSubsetOrdering(S) <=> U \subseteq T /\ U # T
  BY DEF StrictSubsetOrdering
<1>4. PICK T \in B : \A U \in B : ~ (U \subseteq T /\ U # T)
  BY <1>1, <1>2, <1>3
<1>5. \A x \in T : T \ {x} \in SUBSET S /\ T \ {x} \subseteq T /\ T \ {x} # T
  BY <1>4 DEF B
<1> QED
  BY <1>4, <1>5 DEF B

\* What is computed one element at a time is defined on every part of a finite set.
LEMMA PartiellesDefinies ==
    ASSUME NEW f, NEW S, IsFiniteSet(S)
    PROVE  \A s \in SUBSET S : Partielles(f, S)[s] = Terme(f, Partielles(f, S), s)
<1> DEFINE Couche(n) == {s \in SUBSET S : Cardinality(s) <= n}
           G == {n \in Nat : \E g : \A s \in Couche(n) : g[s] = Terme(f, g, s)}
<1>1. ASSUME NEW s \in SUBSET S
      PROVE  /\ Cardinality(s) \in Nat /\ Cardinality(s) <= Cardinality(S)
             /\ s = {} \/ (/\ s # {} /\ s \ {Un(s)} \in SUBSET S
                           /\ Cardinality(s \ {Un(s)}) = Cardinality(s) - 1 /\ Cardinality(s) # 0)
  <2>1. IsFiniteSet(s) /\ Cardinality(s) <= Cardinality(S)
    BY FS_Subset
  <2>2. Cardinality(s) \in Nat /\ (Cardinality(s) = 0 => s = {})
    BY <2>1, FS_CardinalityType, FS_EmptySet
  <2>3. s # {} => Cardinality(s \ {Un(s)}) = Cardinality(s) - 1
    BY <2>1, UnDe, FS_RemoveElement
  <2> QED
    BY <2>1, <2>2, <2>3
<1>2. Cardinality(S) \in Nat
  BY FS_CardinalityType
<1>3. 0 \in G
  <2> DEFINE g == [s \in SUBSET S |-> 0]
  <2>1. ASSUME NEW s \in Couche(0)
        PROVE  s = {}
    <3>1. s \in SUBSET S /\ Cardinality(s) <= 0
      OBVIOUS
    <3> HIDE DEF G, g, Couche
    <3>2. Cardinality(s) \in Nat /\ (s = {} \/ Cardinality(s) # 0)
      BY <1>1, <3>1
    <3> QED
      BY <3>1, <3>2
  <2>2. \A s \in Couche(0) : g[s] = Terme(f, g, s)
    BY <2>1 DEF Terme
  <2> HIDE DEF g
  <2> QED
    BY <2>2
<1>4. ASSUME NEW n \in Nat, n \in G
      PROVE  n + 1 \in G
  <2>1. PICK g : \A s \in Couche(n) : g[s] = Terme(f, g, s)
    BY <1>4
  <2> DEFINE h == [s \in SUBSET S |-> IF Cardinality(s) <= n THEN g[s] ELSE Terme(f, g, s)]
  <2>2. \A s \in Couche(n) : h[s] = g[s]
    OBVIOUS
  <2>3. ASSUME NEW s \in Couche(n + 1)
        PROVE  h[s] = Terme(f, h, s)
    <3>1. h[s] = Terme(f, g, s)
      BY <2>1
    <3>2. s = {} \/ s \ {Un(s)} \in Couche(n)
      BY <1>1
    <3> HIDE DEF h
    <3> QED
      BY <3>1, <3>2, <2>2 DEF Terme
  <2> HIDE DEF h
  <2> QED
    BY <2>3
<1> HIDE DEF G
<1>5. Cardinality(S) \in G
  BY <1>2, <1>3, <1>4, Recurrence
<1>6. \E g : g = [s \in SUBSET S |-> Terme(f, g, s)]
  <2>1. PICK g : \A s \in Couche(Cardinality(S)) : g[s] = Terme(f, g, s)
    BY <1>5 DEF G
  <2> DEFINE h == [s \in SUBSET S |-> g[s]]
  <2>2. ASSUME NEW s \in SUBSET S
        PROVE  g[s] = Terme(f, h, s)
    <3>1. g[s] = Terme(f, g, s)
      BY <1>1, <2>1
    <3>2. s = {} \/ h[s \ {Un(s)}] = g[s \ {Un(s)}]
      BY <1>1
    <3> HIDE DEF h
    <3> QED
      BY <3>1, <3>2 DEF Terme
  <2>3. h = [s \in SUBSET S |-> Terme(f, h, s)]
    BY <2>2
  <2> HIDE DEF h
  <2> QED
    BY <2>3, Zenon
<1> DEFINE p == Partielles(f, S)
<1>7. p = [s \in SUBSET S |-> Terme(f, p, s)]
  BY <1>6, Zenon DEF Partielles
<1> HIDE DEF p
<1>8. \A s \in SUBSET S : p[s] = Terme(f, p, s)
  BY <1>7
<1> QED
  BY <1>8 DEF p

\* The sum of a part does not depend on the set it is a part of.
LEMMA SommePartielle ==
    ASSUME NEW f, NEW S, IsFiniteSet(S), NEW T \in SUBSET S
    PROVE  Partielles(f, S)[T] = Somme(f, T)
<1>1. IsFiniteSet(T)
  BY FS_Subset
<1> DEFINE g == Partielles(f, S)
           h == Partielles(f, T)
           G == {U \in SUBSET T : g[U] = h[U]}
<1>4. ASSUME NEW U \in SUBSET T
      PROVE  g[U] = Terme(f, g, U) /\ h[U] = Terme(f, h, U)
  BY <1>1, PartiellesDefinies
<1> HIDE DEF g, h
<1>5. {} \in G
  BY <1>4 DEF Terme
<1>6. ASSUME NEW U \in SUBSET T, U # {}, \A x \in U : U \ {x} \in G
      PROVE  U \in G
  <2>1. g[U \ {Un(U)}] = h[U \ {Un(U)}]
    BY <1>6, UnDe
  <2> QED
    BY <1>4, <2>1 DEF Terme
<1> HIDE DEF G
<1>7. T \in G
  BY <1>1, <1>5, <1>6, RecurrenceParties
<1> QED
  BY <1>7 DEF g, h, G, Somme

LEMMA SommeVide == \A f : Somme(f, {}) = 0
<1> SUFFICES ASSUME NEW f
             PROVE  Somme(f, {}) = 0
  OBVIOUS
<1> DEFINE g == Partielles(f, {})
<1>1. g[{}] = Terme(f, g, {})
  BY FS_EmptySet, PartiellesDefinies
<1> QED
  BY <1>1 DEF Somme, Terme

LEMMA SommeUn ==
    ASSUME NEW f, NEW S, IsFiniteSet(S), S # {}
    PROVE  Somme(f, S) = f[Un(S)] + Somme(f, S \ {Un(S)})
<1> DEFINE g == Partielles(f, S)
<1>1. g[S \ {Un(S)}] = Somme(f, S \ {Un(S)})
  BY SommePartielle
<1>2. g[S] = Terme(f, g, S)
  BY PartiellesDefinies
<1> QED
  BY <1>1, <1>2 DEF Somme, Terme

LEMMA SommeType ==
    ASSUME NEW S, IsFiniteSet(S), NEW f, \A x \in S : f[x] \in Int
    PROVE  Somme(f, S) \in Int
<1> DEFINE G == {T \in SUBSET S : Somme(f, T) \in Int}
<1>1. {} \in G
  BY SommeVide
<1>2. ASSUME NEW T \in SUBSET S, T # {}, \A x \in T : T \ {x} \in G
      PROVE  T \in G
  <2>1. Somme(f, T) = f[Un(T)] + Somme(f, T \ {Un(T)})
    BY <1>2, SommeUn, FS_Subset
  <2> QED
    BY <1>2, <2>1, UnDe
<1> HIDE DEF G
<1>3. S \in G
  BY <1>1, <1>2, RecurrenceParties
<1> QED
  BY <1>3 DEF G

\* The sum does not depend on the order in which the elements are taken.
LEMMA SommeSans ==
    ASSUME NEW S, IsFiniteSet(S), NEW f, \A x \in S : f[x] \in Int, NEW x \in S
    PROVE  Somme(f, S) = f[x] + Somme(f, S \ {x})
<1> DEFINE G == {T \in SUBSET S : \A y \in T : Somme(f, T) = f[y] + Somme(f, T \ {y})}
<1>1. {} \in G
  OBVIOUS
<1>2. ASSUME NEW T \in SUBSET S, T # {}, \A y \in T : T \ {y} \in G
      PROVE  T \in G
  <2> SUFFICES ASSUME NEW y \in T, y # Un(T)
               PROVE  Somme(f, T) = f[y] + Somme(f, T \ {y})
    BY <1>2, SommeUn, FS_Subset
  <2> DEFINE c == Un(T)
             R == (T \ {y}) \ {c}
  <2>1. c \in T /\ y # c /\ IsFiniteSet(T) /\ (T \ {c}) \ {y} = R
    BY UnDe, FS_Subset
  <2>2. Somme(f, T) = f[c] + Somme(f, T \ {c})
    BY <1>2, <2>1, SommeUn
  <2> HIDE DEF c
  <2>3. Somme(f, T \ {c}) = f[y] + Somme(f, R)
    BY <1>2, <2>1
  <2>4. Somme(f, T \ {y}) = f[c] + Somme(f, R)
    BY <1>2, <2>1
  <2>5. IsFiniteSet(R) /\ \A z \in R : f[z] \in Int
    BY <2>1, FS_Subset
  <2> HIDE DEF R
  <2>6. Somme(f, R) \in Int /\ f[c] \in Int /\ f[y] \in Int
    BY <2>1, <2>5, SommeType
  <2> HIDE DEF G
  <2> QED
    BY <2>2, <2>3, <2>4, <2>6
<1> HIDE DEF G
<1>3. S \in G
  BY <1>1, <1>2, RecurrenceParties
<1> QED
  BY <1>3 DEF G

LEMMA SommeAvec ==
    ASSUME NEW S, IsFiniteSet(S), NEW f, \A y \in S : f[y] \in Int, NEW x, x \notin S, f[x] \in Int
    PROVE  Somme(f, S \cup {x}) = Somme(f, S) + f[x]
<1>1. IsFiniteSet(S \cup {x}) /\ x \in S \cup {x} /\ (S \cup {x}) \ {x} = S
  BY FS_AddElement
<1>2. Somme(f, S \cup {x}) = f[x] + Somme(f, S)
  BY <1>1, SommeSans
<1>3. Somme(f, S) \in Int
  BY SommeType
<1> QED
  BY <1>2, <1>3

LEMMA SommeEgale ==
    ASSUME NEW S, IsFiniteSet(S), NEW f, NEW g, \A x \in S : f[x] = g[x]
    PROVE  Somme(f, S) = Somme(g, S)
<1> DEFINE G == {T \in SUBSET S : Somme(f, T) = Somme(g, T)}
<1>1. {} \in G
  BY SommeVide
<1>2. ASSUME NEW T \in SUBSET S, T # {}, \A x \in T : T \ {x} \in G
      PROVE  T \in G
  <2>1. /\ Somme(f, T) = f[Un(T)] + Somme(f, T \ {Un(T)})
        /\ Somme(g, T) = g[Un(T)] + Somme(g, T \ {Un(T)})
    BY <1>2, SommeUn, FS_Subset
  <2> QED
    BY <1>2, <2>1, UnDe
<1> HIDE DEF G
<1>3. S \in G
  BY <1>1, <1>2, RecurrenceParties
<1> QED
  BY <1>3 DEF G

\* The sum of two functions is the sum of their sums.
LEMMA SommePlus ==
    ASSUME NEW S, IsFiniteSet(S), NEW f, NEW g, NEW h,
           \A x \in S : f[x] \in Int /\ g[x] \in Int /\ h[x] = f[x] + g[x]
    PROVE  Somme(h, S) = Somme(f, S) + Somme(g, S)
<1> DEFINE G == {T \in SUBSET S : Somme(h, T) = Somme(f, T) + Somme(g, T)}
<1>1. {} \in G
  BY SommeVide
<1>2. ASSUME NEW T \in SUBSET S, T # {}, \A x \in T : T \ {x} \in G
      PROVE  T \in G
  <2> DEFINE c == Un(T)
             R == T \ {c}
  <2>1. c \in T /\ IsFiniteSet(T) /\ IsFiniteSet(R) /\ \A x \in R : x \in S
    BY <1>2, UnDe, FS_Subset
  <2>2. /\ Somme(f, T) = f[c] + Somme(f, R)
        /\ Somme(g, T) = g[c] + Somme(g, R)
        /\ Somme(h, T) = h[c] + Somme(h, R)
    BY <1>2, <2>1, SommeUn
  <2>3. Somme(h, R) = Somme(f, R) + Somme(g, R)
    BY <1>2, <2>1
  <2> HIDE DEF c, R
  <2>4. Somme(f, R) \in Int /\ Somme(g, R) \in Int /\ f[c] \in Int /\ g[c] \in Int /\ h[c] = f[c] + g[c]
    BY <2>1, SommeType
  <2>5. Somme(h, T) = Somme(f, T) + Somme(g, T)
    BY <2>2, <2>3, <2>4
  <2> QED
    BY <2>5
<1> HIDE DEF G
<1>3. S \in G
  BY <1>1, <1>2, RecurrenceParties
<1> QED
  BY <1>3 DEF G

\* The sum of a part, and of the rest.
LEMMA SommeUnion ==
    ASSUME NEW S, IsFiniteSet(S), NEW T \in SUBSET S, NEW f, \A x \in S : f[x] \in Int
    PROVE  Somme(f, S) = Somme(f, T) + Somme(f, S \ T)
<1> DEFINE R == S \ T
           G == {U \in SUBSET T : Somme(f, U \cup R) = Somme(f, U) + Somme(f, R)}
<1>1. IsFiniteSet(T) /\ IsFiniteSet(R) /\ Somme(f, R) \in Int
  BY FS_Subset, SommeType
<1>2. R \subseteq S /\ T \cap R = {} /\ T \cup R = S
  OBVIOUS
<1> HIDE DEF R
<1>3. {} \in G
  <2>1. {} \cup R = R
    OBVIOUS
  <2> QED
    BY <1>1, <2>1, SommeVide
<1>4. ASSUME NEW U \in SUBSET T, U # {}, \A x \in U : U \ {x} \in G
      PROVE  U \in G
  <2>1. PICK x : x \in U
    BY <1>4
  <2> DEFINE V == U \ {x}
             W == V \cup R
  <2>2. Somme(f, W) = Somme(f, V) + Somme(f, R)
    BY <1>4, <2>1
  <2>3. x \notin V /\ x \notin W /\ V \cup {x} = U /\ W \cup {x} = U \cup R
        /\ V \subseteq S /\ W \subseteq S /\ x \in S
    BY <1>2, <2>1
  <2> HIDE DEF V, W
  <2>4. IsFiniteSet(V) /\ IsFiniteSet(W) /\ f[x] \in Int
        /\ (\A y \in V : f[y] \in Int) /\ (\A y \in W : f[y] \in Int)
    BY <2>3, FS_Subset
  <2>5. Somme(f, V \cup {x}) = Somme(f, V) + f[x] /\ Somme(f, W \cup {x}) = Somme(f, W) + f[x]
    BY <2>3, <2>4, SommeAvec
  <2>6. Somme(f, V) \in Int
    BY <2>4, SommeType
  <2>7. Somme(f, W) + f[x] = Somme(f, V) + f[x] + Somme(f, R)
    <3> HIDE DEF G
    <3> QED
      BY <1>1, <2>2, <2>4, <2>6
  <2> QED
    BY <2>3, <2>5, <2>7
<1> HIDE DEF G
<1>5. T \in G
  BY <1>1, <1>3, <1>4, RecurrenceParties
<1> QED
  BY <1>2, <1>5 DEF G, R

\* A sum of natural numbers is one, and grows with the set.
LEMMA SommePositive ==
    ASSUME NEW S, IsFiniteSet(S), NEW f, \A x \in S : f[x] \in Nat
    PROVE  Somme(f, S) \in Nat
<1> DEFINE G == {T \in SUBSET S : Somme(f, T) \in Nat}
<1>1. {} \in G
  BY SommeVide
<1>2. ASSUME NEW T \in SUBSET S, T # {}, \A x \in T : T \ {x} \in G
      PROVE  T \in G
  <2>1. Somme(f, T) = f[Un(T)] + Somme(f, T \ {Un(T)})
    BY <1>2, SommeUn, FS_Subset
  <2> QED
    BY <1>2, <2>1, UnDe
<1> HIDE DEF G
<1>3. S \in G
  BY <1>1, <1>2, RecurrenceParties
<1> QED
  BY <1>3 DEF G

LEMMA SommeCroissante ==
    ASSUME NEW S, IsFiniteSet(S), NEW T \in SUBSET S, NEW f, \A x \in S : f[x] \in Nat
    PROVE  Somme(f, T) <= Somme(f, S)
<1>1. Somme(f, S) = Somme(f, T) + Somme(f, S \ T)
  BY SommeUnion
<1>2. Somme(f, T) \in Nat /\ Somme(f, S \ T) \in Nat
  BY FS_Subset, SommePositive
<1> QED
  BY <1>1, <1>2

LEMMA SommeModifiee ==
    ASSUME NEW S, IsFiniteSet(S), NEW f, NEW g, NEW x \in S,
           \A y \in S : f[y] \in Int, g[x] \in Int, \A y \in S \ {x} : g[y] = f[y]
    PROVE  Somme(g, S) = Somme(f, S) - f[x] + g[x]
<1>1. \A y \in S : g[y] \in Int
  OBVIOUS
<1>2. Somme(g, S) = g[x] + Somme(g, S \ {x}) /\ Somme(f, S) = f[x] + Somme(f, S \ {x})
  BY <1>1, SommeSans
<1>3. IsFiniteSet(S \ {x}) /\ Somme(f, S \ {x}) \in Int
  BY FS_Subset, SommeType
<1>4. Somme(g, S \ {x}) = Somme(f, S \ {x})
  BY <1>3, SommeEgale
<1> QED
  BY <1>2, <1>3, <1>4

LEMMA DoubleNul ==
    ASSUME NEW n \in Int, n = n + n
    PROVE  n = 0
  OBVIOUS

\* Grouped by what a function p sends them to, the terms add up to the same.
LEMMA SommeGroupee ==
    ASSUME NEW S, IsFiniteSet(S), NEW I, IsFiniteSet(I), NEW f, \A x \in S : f[x] \in Int,
           NEW p, \A x \in S : p[x] \in I
    PROVE  Somme([i \in I |-> Somme(f, {x \in S : p[x] = i})], I) = Somme(f, S)
<1> DEFINE Groupes(T) == [i \in I |-> Somme(f, {x \in T : p[x] = i})]
           G == {T \in SUBSET S : Somme(Groupes(T), I) = Somme(f, T)}
<1>1. ASSUME NEW T \in SUBSET S, NEW i \in I
      PROVE  Groupes(T)[i] \in Int
  <2>1. IsFiniteSet({x \in T : p[x] = i}) /\ \A x \in {x \in T : p[x] = i} : f[x] \in Int
    BY FS_Subset
  <2> QED
    BY <2>1, SommeType
<1>2. {} \in G
  <2> DEFINE z == [i \in I |-> 0]
  <2>1. \A i \in I : Groupes({})[i] = z[i]
    <3>1. \A i \in I : {x \in {} : p[x] = i} = {}
      OBVIOUS
    <3> QED
      BY <3>1, SommeVide
  <2>2. \A i \in I : z[i] \in Int /\ z[i] = z[i] + z[i]
    OBVIOUS
  <2> HIDE DEF z
  <2>3. Somme(z, I) \in Int /\ Somme(z, I) = Somme(z, I) + Somme(z, I)
    BY <2>2, SommeType, SommePlus
  <2> DEFINE y == Groupes({})
  <2>4. \A i \in I : y[i] = z[i]
    BY <2>1
  <2> HIDE DEF y
  <2>5. Somme(y, I) = Somme(z, I)
    BY <2>4, SommeEgale
  <2>6. Somme(y, I) = 0
    <3>1. PICK n : n = Somme(z, I)
      OBVIOUS
    <3>2. n \in Int /\ n = n + n
      BY <2>3, <3>1
    <3>3. n = 0
      BY <3>2, DoubleNul
    <3> QED
      BY <2>5, <3>1, <3>3
  <2> QED
    BY <2>6, SommeVide DEF y
<1>3. ASSUME NEW T \in SUBSET S, T # {}, \A x \in T : T \ {x} \in G
      PROVE  T \in G
  <2>1. PICK c : c \in T
    BY <1>3
  <2> DEFINE R == T \ {c}
             a == Groupes(R)
             b == Groupes(T)
  <2>2. Somme(a, I) = Somme(f, R)
    BY <1>3, <2>1
  <2>3. R \in SUBSET S /\ IsFiniteSet(T) /\ IsFiniteSet(R) /\ p[c] \in I /\ f[c] \in Int
    BY <2>1, FS_Subset
  <2>4. Somme(f, T) = f[c] + Somme(f, R)
    BY <2>1, <2>3, SommeSans
  <2>5. \A i \in I \ {p[c]} : b[i] = a[i]
    <3>1. ASSUME NEW i \in I \ {p[c]}
          PROVE  {x \in T : p[x] = i} = {x \in R : p[x] = i}
      OBVIOUS
    <3> QED
      BY <3>1
  <2>6. b[p[c]] = a[p[c]] + f[c]
    <3> DEFINE U == {x \in R : p[x] = p[c]}
    <3>1. {x \in T : p[x] = p[c]} = U \cup {c} /\ c \notin U /\ IsFiniteSet(U) /\ \A x \in U : f[x] \in Int
      BY <2>1, <2>3, FS_Subset
    <3>2. a[p[c]] = Somme(f, U) /\ b[p[c]] = Somme(f, U \cup {c})
      BY <2>3, <3>1
    <3> HIDE DEF U, a, b
    <3>3. Somme(f, U \cup {c}) = Somme(f, U) + f[c]
      BY <2>3, <3>1, SommeAvec
    <3> QED
      BY <3>2, <3>3
  <2>7. \A i \in I : a[i] \in Int /\ b[i] \in Int
    BY <1>1, <2>3
  <2> HIDE DEF a, b, R, G, Groupes
  <2> DEFINE j == p[c]
  <2>8. Somme(b, I) = Somme(a, I) - a[p[c]] + b[p[c]]
    <3>1. j \in I /\ (\A i \in I : a[i] \in Int) /\ b[j] \in Int /\ \A i \in I \ {j} : b[i] = a[i]
      BY <2>3, <2>5, <2>7
    <3> HIDE DEF j
    <3>2. Somme(b, I) = Somme(a, I) - a[j] + b[j]
      BY <3>1, SommeModifiee
    <3> QED
      BY <3>2 DEF j
  <2>9. a[p[c]] \in Int /\ Somme(a, I) \in Int
    BY <2>3, <2>7, SommeType
  <2>10. Somme(b, I) = Somme(f, T)
    BY <2>2, <2>3, <2>4, <2>6, <2>8, <2>9
  <2> QED
    BY <2>10 DEF b, G
<1> HIDE DEF G
<1>4. S \in G
  BY <1>2, <1>3, RecurrenceParties
<1> QED
  BY <1>4 DEF G

-----------------------------------------------------------------------------
(* The balances and the rows *)

\* What a request in progress read of a wallet is still so, as long as nothing else
\* worked on it.
Fraiche(t) ==
    /\ t.op # "libre" /\ t.w \notin chevauches => t.lu = solde[t.w]
    /\ t.op = "transfert_lu" /\ t.d \notin chevauches => t.luDest = solde[t.d]
    /\ t.op = "confirm" => t.w = De[t.r] /\ (t.w \notin chevauches => recharges[t.r] = "EN_ATTENTE")
Fraiches == \A s \in Session : Fraiche(session[s])

\* Nothing else does: a wallet that is not in chevauches is in one hand at most.
Exclusifs ==
    \A w \in Wallet \ chevauches, s \in Session :
        w \in Touches(s) => w \notin TouchesParTache /\ \A q \in Session : w \in Touches(q) => q = s

\* The task will write what it adds to the balance as it is.
TacheFraiche ==
    \A w \in Wallet \ chevauches :
        /\ \A r \in tache.lot : De[r] = w => recharges[r] = "EN_ATTENTE"
        /\ Charge(w) = solde[w] + Credit({r \in tache.reussies : De[r] = w})

Comptable == SoldeComptable /\ Fraiches /\ Exclusifs /\ TacheFraiche

Touche(t) ==
    IF t.op = "libre" THEN {} ELSE IF t.op \in {"confirm", "retrait"} THEN {t.w} ELSE {t.w, t.d}

LEMMA TouchesDe == \A s : Touches(s) = Touche(session[s])
  BY DEF Touches, Touche

LEMMA TouchesSuite == \A s : Touches(s)' = Touche(session'[s])
  BY DEF Touches, Touche

LEMMA CreditSomme == \A R : Credit(R) = Somme(Montant, R)
<1> SUFFICES ASSUME NEW R
             PROVE  Credit(R) = Somme(Montant, R)
  OBVIOUS
<1> QED
  BY DEF Credit, MapThenSumSet, MapThenFoldSet, Somme, Partielles, Terme, Un

LEMMA CreditVide == Credit({}) = 0
  BY CreditSomme, SommeVide

LEMMA CreditEntier ==
    ASSUME NEW R \in SUBSET Recharge
    PROVE  IsFiniteSet(R) /\ Credit(R) \in Nat
<1>1. IsFiniteSet(R) /\ \A r \in R : Montant[r] \in Nat
  BY TablesAssumption, MontantAssumption, FS_Subset
<1> QED
  BY <1>1, CreditSomme, SommePositive

LEMMA CreditAvec ==
    ASSUME NEW R \in SUBSET Recharge, NEW r \in Recharge \ R
    PROVE  Credit(R \cup {r}) = Credit(R) + Montant[r]
<1>1. IsFiniteSet(R) /\ (\A x \in R : Montant[x] \in Int) /\ Montant[r] \in Int
  BY CreditEntier, MontantAssumption
<1> QED
  BY <1>1, CreditSomme, SommeAvec

LEMMA CreditUnion ==
    ASSUME NEW R \in SUBSET Recharge, NEW Q \in SUBSET Recharge, R \cap Q = {}
    PROVE  Credit(R \cup Q) = Credit(R) + Credit(Q)
<1>1. IsFiniteSet(R \cup Q) /\ (\A x \in R \cup Q : Montant[x] \in Int)
  BY CreditEntier, MontantAssumption
<1>2. (R \cup Q) \ R = Q /\ R \in SUBSET (R \cup Q)
  OBVIOUS
<1>3. Somme(Montant, R \cup Q) = Somme(Montant, R) + Somme(Montant, (R \cup Q) \ R)
  BY <1>1, <1>2, SommeUnion
<1> QED
  BY <1>2, <1>3, CreditSomme

\* The top-ups that the account of a wallet counts.
Gagnees(w) == {r \in Recharge : De[r] = w /\ recharges[r] = "REUSSI"}

LEMMA CompteDe == \A w : Compte(w) = autres[w] + Credit(Gagnees(w))
  BY DEF Compte, Gagnees

LEMMA CompteSuite == \A w : Compte(w)' = autres'[w] + Credit(Gagnees(w)')
  BY DEF Compte, Gagnees

LEMMA CompteMeme ==
    ASSUME NEW w, autres'[w] = autres[w],
           \A r \in Recharge : De[r] = w => (recharges'[r] = "REUSSI" <=> recharges[r] = "REUSSI")
    PROVE  Compte(w)' = Compte(w)
<1>1. Gagnees(w)' = Gagnees(w)
  BY DEF Gagnees
<1> QED
  BY <1>1, CompteDe, CompteSuite

\* A wallet whose top-ups the task did not find settled.
LEMMA ChargeSans ==
    ASSUME NEW w, \A r \in tache.reussies : De[r] # w
    PROVE  Charge(w) = solde[w] /\ {r \in tache.reussies : De[r] = w} = {}
  BY DEF Charge

LEMMA TacheParties ==
    ASSUME TypeOK
    PROVE  /\ tache.lot \subseteq Recharge /\ tache.reussies \subseteq tache.lot
           /\ tache.echouees \subseteq tache.lot /\ tache.reste \subseteq tache.lot
           /\ tache.reussies \cap tache.reste = {}
           /\ tache \in TacheRec
  BY SuiviesAssumption DEF TypeOK, TacheRec

\* The end of a request, which wrote no wallet that it did not hold.
LEMMA FinSession ==
    ASSUME TypeOK, TypeOK', Comptable, NEW s \in Session, Terminer(s), UNCHANGED <<tache, chevauches>>,
           \A w \in Wallet \ chevauches : w \notin Touches(s) => solde'[w] = solde[w],
           \A r \in Recharge : De[r] \notin chevauches /\ De[r] \notin Touches(s) => recharges'[r] = recharges[r],
           SoldeComptable'
    PROVE  Comptable'
<1>1. \A q \in Session : session'[q] = IF q = s THEN Libre ELSE session[q]
  BY DEF Terminer, TypeOK
<1>2. \A q \in Session : Touches(q)' = IF q = s THEN {} ELSE Touches(q)
  <2>1. Touche(Libre) = {}
    BY DEF Touche, Libre
  <2> QED
    BY <1>1, <2>1, TouchesDe, TouchesSuite
<1>3. UNCHANGED TouchesParTache
  BY DEF TouchesParTache
<1>4. Exclusifs'
  BY <1>2, <1>3 DEF Comptable, Exclusifs
<1>5. Fraiches'
  <2> SUFFICES ASSUME NEW q \in Session
               PROVE  Fraiche(session[q])'
    BY DEF Fraiches
  <2>1. CASE q = s
    BY <1>1, <2>1 DEF Fraiche, Libre
  <2>2. CASE q # s
    <3> DEFINE t == session[q]
    <3>1. t' = t /\ Fraiche(t)
      BY <1>1, <2>2 DEF Comptable, Fraiches
    <3>2. ASSUME NEW w \in Touches(q), w \in Wallet \ chevauches
          PROVE  w \notin Touches(s) /\ solde'[w] = solde[w]
      BY <2>2, <3>2 DEF Comptable, Exclusifs
    <3>3. /\ t.op # "libre" => t.w \in Touches(q) /\ t.w \in Wallet
          /\ t.op = "transfert_lu" => t.d \in Touches(q) /\ t.d \in Wallet
          /\ t.op = "confirm" => t.r \in Recharge
      BY TouchesDe DEF Touche, TypeOK, SessionRec, Libre
    <3> HIDE DEF t
    <3> QED
      BY <3>1, <3>2, <3>3 DEF Fraiche, t
  <2> QED
    BY <2>1, <2>2
<1>6. TacheFraiche'
  <2> SUFFICES ASSUME NEW w \in Wallet \ chevauches
               PROVE  /\ \A r \in tache.lot : De[r] = w => recharges'[r] = "EN_ATTENTE"
                      /\ Charge(w)' = solde'[w] + Credit({r \in tache.reussies : De[r] = w})
    BY DEF TacheFraiche
  <2>1. CASE w \in TouchesParTache
    <3>1. w \notin Touches(s)
      BY <2>1 DEF Comptable, Exclusifs
    <3>2. solde'[w] = solde[w] /\ Charge(w)' = Charge(w)
      BY <3>1 DEF Charge
    <3>3. \A r \in Recharge : De[r] = w => recharges'[r] = recharges[r]
      BY <3>1
    <3> QED
      BY <3>2, <3>3, TacheParties DEF Comptable, TacheFraiche
  <2>2. CASE w \notin TouchesParTache
    <3>1. \A r \in tache.lot : De[r] # w
      BY <2>2 DEF TouchesParTache
    <3>2. Charge(w)' = solde'[w] /\ {r \in tache.reussies : De[r] = w} = {}
      BY <3>1, TacheParties DEF Charge
    <3>3. solde'[w] = solde'[w] + Credit({})
      <4>1. solde'[w] \in Int
        BY DEF TypeOK
      <4> QED
        BY <4>1, CreditVide
    <3>4. Charge(w)' = solde'[w] + Credit({r \in tache.reussies : De[r] = w})
      BY <3>2, <3>3
    <3> QED
      BY <3>1, <3>4
  <2> QED
    BY <2>1, <2>2
<1> QED
  BY <1>4, <1>5, <1>6 DEF Comptable

\* A request reads its wallets: either it is alone on them, or they are in chevauches.
LEMMA DebutSession ==
    ASSUME TypeOK, Comptable, NEW s \in Session, NEW etat \in SessionRec,
           Debuter(s, etat, Touche(etat)), UNCHANGED <<solde, recharges, autres, tache>>,
           etat.op \in {"confirm", "retrait", "transfert"}, etat.lu = solde[etat.w],
           etat.op = "confirm" => etat.w = De[etat.r] /\ recharges[etat.r] = "EN_ATTENTE"
    PROVE  Comptable'
<1>1. \A q \in Session : session'[q] = IF q = s THEN etat ELSE session[q]
  BY DEF Debuter, TypeOK
<1>2. Touches(s) = {} /\ Touches(s)' = Touche(etat) /\ \A q \in Session \ {s} : Touches(q)' = Touches(q)
  <2>1. session[s] = Libre /\ Touche(Libre) = {}
    BY DEF Debuter, Touche, Libre
  <2> QED
    BY <1>1, <2>1, TouchesDe, TouchesSuite
<1>3. chevauches' = chevauches \cup (Touche(etat) \cap Occupes) /\ UNCHANGED TouchesParTache
  BY DEF Debuter, TouchesParTache
<1>4. \A w \in Touche(etat) : w \notin chevauches' =>
          w \notin TouchesParTache /\ \A q \in Session : w \notin Touches(q)
  BY <1>3 DEF Occupes
<1>5. Exclusifs'
  BY <1>2, <1>3, <1>4 DEF Comptable, Exclusifs
<1>6. Fraiches'
  <2> SUFFICES ASSUME NEW q \in Session
               PROVE  Fraiche(session[q])'
    BY DEF Fraiches
  <2>1. CASE q = s
    BY <1>1, <2>1 DEF Fraiche
  <2>2. CASE q # s
    BY <1>1, <1>3, <2>2 DEF Comptable, Fraiches, Fraiche
  <2> QED
    BY <2>1, <2>2
<1>7. TacheFraiche'
  <2>1. \A w : Charge(w)' = Charge(w)
    BY DEF Charge
  <2> QED
    BY <1>3, <2>1 DEF Comptable, TacheFraiche
<1>8. SoldeComptable'
  <2>1. \A w : Compte(w)' = Compte(w)
    BY CompteMeme
  <2> QED
    BY <1>3, <2>1 DEF Comptable, SoldeComptable
<1> QED
  BY <1>5, <1>6, <1>7, <1>8 DEF Comptable


\* The rows of no wallet count for more, and those that were pending still are.
LEMMA AutresRecharges ==
    ASSUME TypeOK, Comptable, UNCHANGED <<solde, autres, session, tache, chevauches>>,
           \A r \in Recharge : /\ recharges[r] = "EN_ATTENTE" => recharges'[r] = "EN_ATTENTE"
                               /\ recharges'[r] = "REUSSI" <=> recharges[r] = "REUSSI"
    PROVE  Comptable'
<1>1. \A w : Compte(w)' = Compte(w)
  BY CompteMeme
<1>2. SoldeComptable'
  BY <1>1 DEF Comptable, SoldeComptable
<1>3. \A q : Touches(q)' = Touches(q)
  BY TouchesDe, TouchesSuite
<1>4. Exclusifs'
  BY <1>3 DEF Comptable, Exclusifs, TouchesParTache
<1>5. Fraiches'
  <2> SUFFICES ASSUME NEW q \in Session
               PROVE  Fraiche(session[q])'
    BY DEF Fraiches
  <2>1. session[q].op = "confirm" => session[q].r \in Recharge
    BY SessionCas
  <2>2. Fraiche(session[q])
    BY DEF Comptable, Fraiches
  <2> QED
    BY <2>1, <2>2 DEF Fraiche
<1>6. TacheFraiche'
  <2>1. \A w : Charge(w)' = Charge(w)
    BY DEF Charge
  <2> QED
    BY <2>1, TacheParties DEF Comptable, TacheFraiche
<1> QED
  BY <1>2, <1>4, <1>5, <1>6 DEF Comptable

\* What a session holds, and that it is fresh.
LEMMA Tenue ==
    ASSUME TypeOK, Comptable, NEW s \in Session
    PROVE  /\ Fraiche(session[s])
           /\ session[s].op # "libre" => session[s].w \in Touches(s)
           /\ session[s].op = "confirm" => Touches(s) = {session[s].w}
           /\ session[s].op = "retrait" => Touches(s) = {session[s].w}
           /\ session[s].op = "transfert_lu" => Touches(s) = {session[s].w, session[s].d}
<1>1. Fraiche(session[s])
  BY DEF Comptable, Fraiches
<1> QED
  BY <1>1, TouchesDe DEF Touche

LEMMA ConfirmerOK ==
    ASSUME TypeOK, TypeOK', Comptable, NEW s \in Session, ConfirmerReussie(s) \/ ConfirmerEchouee(s)
    PROVE  Comptable'
<1> DEFINE r == session[s].r
           w == session[s].w
<1>1. session[s].op = "confirm" /\ Terminer(s) /\ UNCHANGED <<autres, tache, chevauches>>
  BY DEF ConfirmerReussie, ConfirmerEchouee, Confirme
<1>2. r \in Recharge /\ w \in Wallet /\ session[s].lu \in Int
  BY <1>1, SessionCas
<1>3. /\ Touches(s) = {w} /\ w = De[r]
      /\ w \notin chevauches => session[s].lu = solde[w] /\ recharges[r] = "EN_ATTENTE"
  BY <1>1, Tenue DEF Fraiche
<1> HIDE DEF r, w
<1>4. \A q \in Recharge : q # r => recharges'[q] = recharges[q]
  BY <1>2 DEF ConfirmerReussie, ConfirmerEchouee, TypeOK, r
<1>5. \A x \in Wallet : x # w => solde'[x] = solde[x]
  BY <1>2 DEF ConfirmerReussie, ConfirmerEchouee, TypeOK, w
<1>6. SoldeComptable'
  <2> SUFFICES ASSUME NEW x \in Wallet \ chevauches
               PROVE  solde'[x] = Compte(x)'
    BY <1>1 DEF SoldeComptable
  <2>0. solde[x] = Compte(x)
    BY DEF Comptable, SoldeComptable
  <2>1. CASE x # w
    <3>1. Compte(x)' = Compte(x)
      <4>1. \A q \in Recharge : De[q] = x => recharges'[q] = recharges[q]
        BY <1>3, <1>4, <2>1
      <4> QED
        BY <1>1, <4>1, CompteMeme
    <3> QED
      BY <1>5, <2>0, <2>1, <3>1
  <2>2. CASE x = w /\ ConfirmerEchouee(s)
    <3>1. recharges[r] = "EN_ATTENTE" /\ recharges'[r] = "ECHEC" /\ UNCHANGED solde
      BY <1>2, <1>3, <2>2 DEF ConfirmerEchouee, TypeOK, r
    <3>2. Compte(x)' = Compte(x)
      BY <1>1, <1>4, <3>1, CompteMeme
    <3> QED
      BY <2>0, <3>1, <3>2
  <2>3. CASE x = w /\ ConfirmerReussie(s)
    <3>1. /\ recharges[r] = "EN_ATTENTE" /\ recharges'[r] = "REUSSI" /\ De[r] = x
          /\ solde'[x] = solde[x] + Montant[r]
      BY <1>2, <1>3, <2>3 DEF ConfirmerReussie, TypeOK, r, w
    <3>2. Gagnees(x)' = Gagnees(x) \cup {r}
      BY <1>2, <1>4, <3>1 DEF Gagnees
    <3>3. Gagnees(x) \in SUBSET Recharge /\ r \in Recharge \ Gagnees(x)
      BY <1>2, <3>1 DEF Gagnees
    <3>4. Credit(Gagnees(x) \cup {r}) = Credit(Gagnees(x)) + Montant[r]
      BY <3>3, CreditAvec
    <3>5. Credit(Gagnees(x)) \in Int /\ Montant[r] \in Int /\ autres[x] \in Int
      BY <1>2, <3>3, CreditEntier, MontantAssumption DEF TypeOK
    <3>6. solde[x] = autres[x] + Credit(Gagnees(x)) /\ Compte(x)' = autres[x] + Credit(Gagnees(x) \cup {r})
      BY <1>1, <2>0, <3>2, CompteDe, CompteSuite
    <3> QED
      BY <3>1, <3>4, <3>5, <3>6
  <2> QED
    BY <2>1, <2>2, <2>3
<1>7. /\ \A x \in Wallet \ chevauches : x \notin Touches(s) => solde'[x] = solde[x]
      /\ \A q \in Recharge : De[q] \notin Touches(s) => recharges'[q] = recharges[q]
  BY <1>3, <1>4, <1>5
<1> QED
  BY <1>1, <1>6, <1>7, FinSession

LEMMA RetraitOK ==
    ASSUME TypeOK, TypeOK', Comptable, NEW s \in Session,
           RetraitAccepte(s) \/ RetraitManuel(s) \/ RetraitRefuse(s)
    PROVE  Comptable'
<1> DEFINE w == session[s].w
           m == session[s].m
<1>1. session[s].op = "retrait" /\ Terminer(s) /\ UNCHANGED <<recharges, tache, chevauches>>
  BY DEF RetraitAccepte, RetraitManuel, RetraitRefuse
<1>2. w \in Wallet /\ m \in Nat /\ session[s].lu \in Int
  BY <1>1, SessionCas, MontantAssumption
<1>3. Touches(s) = {w} /\ (w \notin chevauches => session[s].lu = solde[w])
  BY <1>1, Tenue DEF Fraiche
<1> HIDE DEF w, m
<1>4. \A x \in Wallet : x # w => solde'[x] = solde[x] /\ autres'[x] = autres[x]
  BY <1>2 DEF RetraitAccepte, RetraitManuel, RetraitRefuse, Debiter, TypeOK, w
<1>5. w \notin chevauches => \/ solde'[w] = solde[w] - m /\ autres'[w] = autres[w] - m
                             \/ solde'[w] = solde[w] /\ autres'[w] = autres[w]
  BY <1>2, <1>3 DEF RetraitAccepte, RetraitManuel, RetraitRefuse, Debiter, TypeOK, w, m
<1>6. SoldeComptable'
  <2> SUFFICES ASSUME NEW x \in Wallet \ chevauches
               PROVE  solde'[x] = Compte(x)'
    BY <1>1 DEF SoldeComptable
  <2>1. solde[x] = autres[x] + Credit(Gagnees(x))
    BY CompteDe DEF Comptable, SoldeComptable
  <2>2. Compte(x)' = autres'[x] + Credit(Gagnees(x))
    <3>1. Gagnees(x)' = Gagnees(x)
      BY <1>1 DEF Gagnees
    <3> QED
      BY <3>1, CompteSuite
  <2>3. Credit(Gagnees(x)) \in Int /\ autres[x] \in Int
    <3>1. Gagnees(x) \in SUBSET Recharge
      BY DEF Gagnees
    <3> QED
      BY <3>1, CreditEntier DEF TypeOK
  <2> QED
    BY <1>2, <1>4, <1>5, <2>1, <2>2, <2>3
<1>7. \A x \in Wallet \ chevauches : x \notin Touches(s) => solde'[x] = solde[x]
  BY <1>3, <1>4
<1> QED
  BY <1>1, <1>6, <1>7, FinSession

LEMMA TransfertOK ==
    ASSUME TypeOK, TypeOK', Comptable, NEW s \in Session, TransfertValider(s)
    PROVE  Comptable'
<1> DEFINE w == session[s].w
           d == session[s].d
           m == session[s].m
<1>1. session[s].op = "transfert_lu" /\ Terminer(s) /\ UNCHANGED <<recharges, tache, chevauches>>
  BY DEF TransfertValider
<1>2. w \in Wallet /\ d \in Wallet /\ m \in Nat /\ session[s].lu \in Int /\ session[s].luDest \in Int
  BY <1>1, SessionCas, MontantAssumption
<1>3. /\ Touches(s) = {w, d}
      /\ w \notin chevauches => session[s].lu = solde[w]
      /\ d \notin chevauches => session[s].luDest = solde[d]
  BY <1>1, Tenue DEF Fraiche
<1>4. CASE w = d
  <2>1. UNCHANGED <<solde, autres>>
    BY <1>4 DEF TransfertValider
  <2>2. \A x : Compte(x)' = Compte(x)
    BY <1>1, <2>1, CompteMeme
  <2>3. SoldeComptable'
    BY <1>1, <2>1, <2>2 DEF Comptable, SoldeComptable
  <2> QED
    BY <1>1, <2>1, <2>3, FinSession
<1>5. CASE w # d
  <2>1. /\ solde' = [solde EXCEPT ![w] = session[s].lu - m, ![d] = session[s].luDest + m]
        /\ autres' = [autres EXCEPT ![w] = autres[w] - m, ![d] = autres[d] + m]
    <3>1. autres' = [autres EXCEPT ![w] = autres[w] - m, ![d] = [autres EXCEPT ![w] = autres[w] - m][d] + m]
      BY <1>5 DEF TransfertValider
    <3>2. [autres EXCEPT ![w] = autres[w] - m][d] = autres[d]
      BY <1>2, <1>5 DEF TypeOK
    <3> QED
      BY <1>5, <3>1, <3>2 DEF TransfertValider
  <2> HIDE DEF w, d, m
  <2>2. \A x \in Wallet : x \notin {w, d} => solde'[x] = solde[x] /\ autres'[x] = autres[x]
    BY <1>2, <2>1 DEF TypeOK
  <2>3. /\ solde'[w] = session[s].lu - m /\ autres'[w] = autres[w] - m
        /\ solde'[d] = session[s].luDest + m /\ autres'[d] = autres[d] + m
    BY <1>2, <1>5, <2>1 DEF TypeOK
  <2>4. SoldeComptable'
    <3> SUFFICES ASSUME NEW x \in Wallet \ chevauches
                 PROVE  solde'[x] = Compte(x)'
      BY <1>1 DEF SoldeComptable
    <3>1. solde[x] = autres[x] + Credit(Gagnees(x))
      BY CompteDe DEF Comptable, SoldeComptable
    <3>2. Compte(x)' = autres'[x] + Credit(Gagnees(x))
      <4>1. Gagnees(x)' = Gagnees(x)
        BY <1>1 DEF Gagnees
      <4> QED
        BY <4>1, CompteSuite
    <3>3. Credit(Gagnees(x)) \in Int /\ autres[x] \in Int
      <4>1. Gagnees(x) \in SUBSET Recharge
        BY DEF Gagnees
      <4> QED
        BY <4>1, CreditEntier DEF TypeOK
    <3> QED
      BY <1>2, <1>3, <2>2, <2>3, <3>1, <3>2, <3>3
  <2>5. \A x \in Wallet \ chevauches : x \notin Touches(s) => solde'[x] = solde[x]
    BY <1>3, <2>2
  <2> QED
    BY <1>1, <2>4, <2>5, FinSession
<1> QED
  BY <1>4, <1>5

\* The second reading of a transfer.
LEMMA LireDestOK ==
    ASSUME TypeOK, TypeOK', Comptable, NEW s \in Session, TransfertLireDest(s)
    PROVE  Comptable'
<1>1. /\ session[s].op = "transfert" /\ UNCHANGED <<solde, recharges, autres, tache, chevauches>>
      /\ session' = [session EXCEPT ![s] =
             [op |-> "transfert_lu", w |-> session[s].w, d |-> session[s].d, m |-> session[s].m,
              lu |-> session[s].lu, luDest |-> solde[session[s].d]]]
  BY DEF TransfertLireDest, donnees
<1>2. /\ session'[s].op = "transfert_lu" /\ session'[s].w = session[s].w /\ session'[s].d = session[s].d
      /\ session'[s].lu = session[s].lu /\ session'[s].luDest = solde[session[s].d]
      /\ \A q \in Session \ {s} : session'[q] = session[q]
  BY <1>1 DEF TypeOK
<1>3. \A q \in Session : Touches(q)' = Touches(q)
  BY <1>1, <1>2, TouchesDe, TouchesSuite DEF Touche
<1>4. Exclusifs'
  BY <1>1, <1>3 DEF Comptable, Exclusifs, TouchesParTache
<1>5. Fraiches'
  <2> SUFFICES ASSUME NEW q \in Session
               PROVE  Fraiche(session[q])'
    BY DEF Fraiches
  <2>1. CASE q = s
    BY <1>1, <1>2, <2>1 DEF Comptable, Fraiches, Fraiche
  <2>2. CASE q # s
    BY <1>1, <1>2, <2>2 DEF Comptable, Fraiches, Fraiche
  <2> QED
    BY <2>1, <2>2
<1>6. TacheFraiche'
  <2>1. \A w : Charge(w)' = Charge(w)
    BY <1>1 DEF Charge
  <2> QED
    BY <1>1, <2>1 DEF Comptable, TacheFraiche
<1>7. SoldeComptable'
  <2>1. \A w : Compte(w)' = Compte(w)
    BY <1>1, CompteMeme
  <2> QED
    BY <1>1, <2>1 DEF Comptable, SoldeComptable
<1> QED
  BY <1>4, <1>5, <1>6, <1>7 DEF Comptable


\* The task selects its rows: it is alone on their wallets, or these are in chevauches.
LEMMA TacheLancerOK ==
    ASSUME TypeOK, TypeOK', Comptable, TacheLancer
    PROVE  Comptable'
<1>1. /\ UNCHANGED <<solde, recharges, autres, session>>
      /\ chevauches' = chevauches \cup ({De[r] : r \in EnAttente} \cap Occupes)
  BY DEF TacheLancer, donnees
<1>2. tache'.lot = EnAttente /\ tache'.reussies = {} /\ tache'.charges = tache.charges
  <2>1. tache = Repos
    BY DEF TacheLancer
  <2>2. tache' = [lot |-> EnAttente, reste |-> EnAttente, reussies |-> {}, echouees |-> {},
                  charges |-> [w \in Wallet |-> 0]]
    BY DEF TacheLancer, Repos
  <2> QED
    BY <2>1, <2>2 DEF Repos
<1>3. EnAttente \subseteq Recharge /\ \A r \in EnAttente : recharges[r] = "EN_ATTENTE"
  BY SuiviesAssumption DEF EnAttente
<1>4. \A q : Touches(q)' = Touches(q)
  BY <1>1, TouchesDe, TouchesSuite
<1>5. \A w : w \in TouchesParTache' => w \in {De[r] : r \in EnAttente}
  BY <1>2 DEF TouchesParTache
<1>6. Exclusifs'
  <2> SUFFICES ASSUME NEW w \in Wallet \ chevauches', NEW s \in Session, w \in Touches(s)
               PROVE  w \notin TouchesParTache' /\ \A q \in Session : w \in Touches(q) => q = s
    BY <1>4 DEF Exclusifs
  <2>1. w \notin chevauches /\ w \in Occupes
    BY <1>1 DEF Occupes
  <2>2. w \notin {De[r] : r \in EnAttente}
    BY <1>1, <2>1
  <2> QED
    BY <1>5, <2>1, <2>2 DEF Comptable, Exclusifs
<1>7. Fraiches'
  BY <1>1 DEF Comptable, Fraiches, Fraiche
<1>8. TacheFraiche'
  <2> SUFFICES ASSUME NEW w \in Wallet
               PROVE  /\ \A r \in tache'.lot : recharges'[r] = "EN_ATTENTE"
                      /\ Charge(w)' = solde'[w] + Credit({r \in tache'.reussies : De[r] = w})
    BY DEF TacheFraiche
  <2>1. Charge(w)' = solde[w] /\ {r \in tache'.reussies : De[r] = w} = {} /\ solde[w] \in Int
    BY <1>1, <1>2 DEF Charge, TypeOK
  <2>2. solde[w] = solde[w] + Credit({})
    BY <2>1, CreditVide
  <2>3. Charge(w)' = solde'[w] + Credit({r \in tache'.reussies : De[r] = w})
    BY <1>1, <2>1, <2>2
  <2> QED
    BY <1>1, <1>2, <1>3, <2>3
<1>9. SoldeComptable'
  <2>1. \A w : Compte(w)' = Compte(w)
    BY <1>1, CompteMeme
  <2> QED
    BY <1>1, <2>1 DEF Comptable, SoldeComptable
<1> QED
  BY <1>6, <1>7, <1>8, <1>9 DEF Comptable

\* The task goes on to the next row, or gives its rows back.
LEMMA TacheRowOK ==
    ASSUME TypeOK, TypeOK', Comptable, UNCHANGED <<solde, recharges, autres, session, chevauches>>,
           tache'.lot \subseteq tache.lot,
           \A w \in Wallet \ chevauches : Charge(w)' = solde[w] + Credit({r \in tache'.reussies : De[r] = w})
    PROVE  Comptable'
<1>1. \A q : Touches(q)' = Touches(q)
  BY TouchesDe, TouchesSuite
<1>2. \A w : w \in TouchesParTache' => w \in TouchesParTache
  BY DEF TouchesParTache
<1>3. Exclusifs'
  BY <1>1, <1>2 DEF Comptable, Exclusifs
<1>4. Fraiches'
  BY DEF Comptable, Fraiches, Fraiche
<1>5. TacheFraiche'
  BY DEF Comptable, TacheFraiche
<1>6. SoldeComptable'
  <2>1. \A w : Compte(w)' = Compte(w)
    BY CompteMeme
  <2> QED
    BY <2>1 DEF Comptable, SoldeComptable
<1> QED
  BY <1>3, <1>4, <1>5, <1>6 DEF Comptable

LEMMA TacheInterrogerOK ==
    ASSUME TypeOK, TypeOK', Comptable, NEW r \in Recharge, TacheInterroger(r) \/ TacheIgnorer(r)
    PROVE  Comptable'
<1>1. UNCHANGED <<solde, recharges, autres, session, chevauches>>
  BY DEF TacheInterroger, TacheIgnorer, donnees
<1>2. r \in tache.reste /\ tache'.lot = tache.lot
  BY TacheSuite
<1>3. /\ tache.reussies \subseteq Recharge /\ r \notin tache.reussies /\ tache.charges \in [Wallet -> Int]
      /\ De[r] \in Wallet /\ Montant[r] \in Int
  BY <1>2, TacheParties, DeAssumption, MontantAssumption DEF TacheRec
<1>4. ASSUME NEW w \in Wallet \ chevauches
      PROVE  Charge(w)' = solde[w] + Credit({q \in tache'.reussies : De[q] = w})
  <2> DEFINE R == {q \in tache.reussies : De[q] = w}
  <2>1. Charge(w) = solde[w] + Credit(R) /\ R \in SUBSET Recharge /\ solde[w] \in Int
    BY <1>3 DEF Comptable, TacheFraiche, TypeOK
  <2>2. CASE /\ tache'.reussies = tache.reussies \cup {r}
             /\ tache'.charges = [tache.charges EXCEPT ![De[r]] = Charge(De[r]) + Montant[r]]
    <3>1. CASE De[r] = w
      <4>1. {q \in tache'.reussies : De[q] = w} = R \cup {r} /\ r \in Recharge \ R
        BY <1>3, <2>2, <3>1
      <4>2. Charge(w)' = Charge(w) + Montant[r]
        <5>1. \E q \in tache'.reussies : De[q] = w
          BY <2>2, <3>1
        <5>2. tache'.charges[w] = Charge(w) + Montant[r]
          BY <1>3, <2>2, <3>1
        <5> QED
          BY <5>1, <5>2 DEF Charge
      <4> HIDE DEF R
      <4>3. Credit(R \cup {r}) = Credit(R) + Montant[r] /\ Credit(R) \in Int
        BY <2>1, <4>1, CreditAvec, CreditEntier
      <4>4. Charge(w)' = solde[w] + (Credit(R) + Montant[r])
        BY <1>3, <2>1, <4>2, <4>3
      <4> QED
        BY <4>1, <4>3, <4>4
    <3>2. CASE De[r] # w
      <4>1. {q \in tache'.reussies : De[q] = w} = R
        BY <2>2, <3>2
      <4>2. Charge(w)' = Charge(w)
        BY <1>1, <1>3, <2>2, <3>2 DEF Charge
      <4> QED
        BY <2>1, <4>1, <4>2
    <3> QED
      BY <3>1, <3>2
  <2>3. CASE tache'.reussies = tache.reussies /\ tache'.charges = tache.charges
    BY <1>1, <2>1, <2>3 DEF Charge
  <2>4. \/ /\ tache'.reussies = tache.reussies \cup {r}
           /\ tache'.charges = [tache.charges EXCEPT ![De[r]] = Charge(De[r]) + Montant[r]]
        \/ tache'.reussies = tache.reussies /\ tache'.charges = tache.charges
    BY TacheSuite
  <2> QED
    BY <2>2, <2>3, <2>4
<1> QED
  BY <1>1, <1>2, <1>4, TacheRowOK

LEMMA TachePerdueOK ==
    ASSUME TypeOK, TypeOK', Comptable, TachePerdue
    PROVE  Comptable'
<1>1. UNCHANGED <<solde, recharges, autres, session, chevauches>> /\ tache' = Repos
  BY DEF TachePerdue, donnees
<1>2. tache'.lot = {} /\ tache'.reussies = {}
  BY <1>1 DEF Repos
<1>3. ASSUME NEW w \in Wallet
      PROVE  Charge(w)' = solde[w] + Credit({q \in tache'.reussies : De[q] = w})
  <2>1. Charge(w)' = solde[w] /\ {q \in tache'.reussies : De[q] = w} = {} /\ solde[w] \in Int
    BY <1>1, <1>2 DEF Charge, TypeOK
  <2>2. solde[w] = solde[w] + Credit({})
    BY <2>1, CreditVide
  <2> QED
    BY <2>1, <2>2
<1> QED
  BY <1>1, <1>2, <1>3, TacheRowOK

\* The commit of the task, all its rows at once.
LEMMA TacheValiderOK ==
    ASSUME TypeOK, TypeOK', Comptable, TacheValider
    PROVE  Comptable'
<1>1. /\ UNCHANGED <<autres, session, chevauches>> /\ tache' = Repos
      /\ \A w \in Wallet : solde'[w] = Charge(w)
      /\ \A r \in Recharge : recharges'[r] = IF r \in tache.reussies THEN "REUSSI"
                                             ELSE IF r \in tache.echouees THEN "ECHEC" ELSE recharges[r]
  BY DEF TacheValider
<1>2. tache'.lot = {} /\ tache'.reussies = {}
  BY <1>1 DEF Repos
<1>3. ASSUME NEW w \in Wallet \ chevauches, w \notin TouchesParTache
      PROVE  solde'[w] = solde[w] /\ \A r \in Recharge : De[r] = w => recharges'[r] = recharges[r]
  <2>1. \A r \in tache.lot : De[r] # w
    BY <1>3 DEF TouchesParTache
  <2> QED
    BY <1>1, <2>1, TacheParties DEF Charge
<1>4. \A q : Touches(q)' = Touches(q)
  BY <1>1, TouchesDe, TouchesSuite
<1>5. Exclusifs'
  <2>1. \A w : w \notin TouchesParTache'
    BY <1>2 DEF TouchesParTache
  <2> QED
    BY <1>1, <1>4, <2>1 DEF Comptable, Exclusifs
<1>6. Fraiches'
  <2> SUFFICES ASSUME NEW q \in Session
               PROVE  Fraiche(session[q])'
    BY DEF Fraiches
  <2> DEFINE t == session[q]
  <2>1. t' = t /\ Fraiche(t)
    BY <1>1 DEF Comptable, Fraiches
  <2>2. ASSUME NEW w \in Touches(q), w \in Wallet \ chevauches
        PROVE  solde'[w] = solde[w] /\ \A r \in Recharge : De[r] = w => recharges'[r] = recharges[r]
    BY <1>3, <2>2 DEF Comptable, Exclusifs
  <2>3. /\ t.op # "libre" => t.w \in Touches(q) /\ t.w \in Wallet
        /\ t.op = "transfert_lu" => t.d \in Touches(q) /\ t.d \in Wallet
        /\ t.op = "confirm" => t.r \in Recharge
    BY TouchesDe DEF Touche, TypeOK, SessionRec, Libre
  <2> HIDE DEF t
  <2> QED
    BY <1>1, <2>1, <2>2, <2>3 DEF Fraiche, t
<1>7. TacheFraiche'
  <2> SUFFICES ASSUME NEW w \in Wallet
               PROVE  Charge(w)' = solde'[w] + Credit({q \in tache'.reussies : De[q] = w})
    BY <1>2 DEF TacheFraiche
  <2>1. Charge(w)' = solde'[w] /\ {q \in tache'.reussies : De[q] = w} = {} /\ solde'[w] \in Int
    BY <1>1, <1>2 DEF Charge, TypeOK
  <2>2. solde'[w] = solde'[w] + Credit({})
    BY <2>1, CreditVide
  <2> QED
    BY <2>1, <2>2
<1>8. SoldeComptable'
  <2> SUFFICES ASSUME NEW w \in Wallet \ chevauches
               PROVE  solde'[w] = Compte(w)'
    BY <1>1 DEF SoldeComptable
  <2> DEFINE R == {r \in tache.reussies : De[r] = w}
             A == Gagnees(w)
  <2>1. /\ solde[w] = autres[w] + Credit(A) /\ solde'[w] = solde[w] + Credit(R)
        /\ \A r \in tache.lot : De[r] = w => recharges[r] = "EN_ATTENTE"
    BY <1>1, CompteDe DEF Comptable, SoldeComptable, TacheFraiche
  <2>2. A \in SUBSET Recharge /\ R \in SUBSET Recharge /\ A \cap R = {}
    BY <2>1, TacheParties DEF Gagnees
  <2>3. Gagnees(w)' = A \cup R
    BY <1>1, <2>1, TacheParties DEF Gagnees
  <2>4. Compte(w)' = autres[w] + Credit(A \cup R)
    BY <1>1, <2>3, CompteSuite
  <2> HIDE DEF A, R
  <2>5. Credit(A \cup R) = Credit(A) + Credit(R) /\ Credit(A) \in Int /\ Credit(R) \in Int /\ autres[w] \in Int
    BY <2>2, CreditUnion, CreditEntier DEF TypeOK
  <2> QED
    BY <2>1, <2>4, <2>5
<1> QED
  BY <1>5, <1>6, <1>7, <1>8 DEF Comptable


LEMMA NextComptable == TypeOK /\ TypeOK' /\ Comptable /\ [Next]_vars => Comptable'
<1> SUFFICES ASSUME TypeOK, TypeOK', Comptable, [Next]_vars
             PROVE  Comptable'
  OBVIOUS
<1>1. ASSUME NEW r \in Recharge,
             InitierRecharge(r) \/ InitierRefusee(r) \/ InitierPerdue(r) \/ Operateur(r)
      PROVE  Comptable'
  <2>1. /\ UNCHANGED <<solde, autres, session, tache, chevauches>>
        /\ \/ UNCHANGED recharges
           \/ /\ recharges[r] = "absente"
              /\ \E statut \in {"EN_ATTENTE", "ECHEC"} : recharges' = [recharges EXCEPT ![r] = statut]
    BY <1>1 DEF InitierRecharge, InitierRefusee, InitierPerdue, Operateur, donnees
  <2>2. \A q \in Recharge : /\ recharges[q] = "EN_ATTENTE" => recharges'[q] = "EN_ATTENTE"
                            /\ recharges'[q] = "REUSSI" <=> recharges[q] = "REUSSI"
    BY <2>1 DEF TypeOK
  <2> QED
    BY <2>1, <2>2, AutresRecharges
<1>2. ASSUME NEW s \in Session, Abandon(s) \/ ConfirmerEnAttente(s) \/ RetraitPerdu(s)
      PROVE  Comptable'
  <2>1. Terminer(s) /\ UNCHANGED <<solde, recharges, autres, tache, chevauches>>
    BY <1>2 DEF Abandon, ConfirmerEnAttente, RetraitPerdu, donnees
  <2>2. \A w : Compte(w)' = Compte(w)
    BY <2>1, CompteMeme
  <2>3. SoldeComptable'
    BY <2>1, <2>2 DEF Comptable, SoldeComptable
  <2> QED
    BY <2>1, <2>3, FinSession
<1>3. ASSUME NEW s \in Session, NEW r \in Recharge, ConfirmerLire(s, r)
      PROVE  Comptable'
  <2> DEFINE etat == [op |-> "confirm", w |-> De[r], r |-> r, lu |-> solde[De[r]]]
  <2>1. etat \in SessionRec
    BY DeAssumption DEF SessionRec, TypeOK
  <2>2. Touche(etat) = {De[r]} /\ etat.op = "confirm" /\ etat.lu = solde[etat.w]
        /\ etat.w = De[etat.r] /\ recharges[etat.r] = "EN_ATTENTE"
    BY <1>3 DEF Touche, ConfirmerLire
  <2>3. Debuter(s, etat, {De[r]}) /\ UNCHANGED <<solde, recharges, autres, tache>>
    BY <1>3 DEF ConfirmerLire, donnees
  <2> HIDE DEF etat
  <2> QED
    BY <2>1, <2>2, <2>3, DebutSession
<1>4. ASSUME NEW s \in Session, NEW w \in Wallet, NEW m \in Montants, RetraitLire(s, w, m)
      PROVE  Comptable'
  <2> DEFINE etat == [op |-> "retrait", w |-> w, m |-> m, lu |-> solde[w]]
  <2>1. etat \in SessionRec
    BY DEF SessionRec, TypeOK
  <2>2. Touche(etat) = {w} /\ etat.op = "retrait" /\ etat.lu = solde[etat.w]
    BY DEF Touche
  <2>3. Debuter(s, etat, {w}) /\ UNCHANGED <<solde, recharges, autres, tache>>
    BY <1>4 DEF RetraitLire, donnees
  <2> HIDE DEF etat
  <2> QED
    BY <2>1, <2>2, <2>3, DebutSession
<1>5. ASSUME NEW s \in Session, NEW w \in Wallet, NEW d \in Wallet, NEW m \in Montants,
             TransfertLire(s, w, d, m)
      PROVE  Comptable'
  <2> DEFINE etat == [op |-> "transfert", w |-> w, d |-> d, m |-> m, lu |-> solde[w]]
  <2>1. etat \in SessionRec
    BY DEF SessionRec, TypeOK
  <2>2. Touche(etat) = {w, d} /\ etat.op = "transfert" /\ etat.lu = solde[etat.w]
    BY DEF Touche
  <2>3. Debuter(s, etat, {w, d}) /\ UNCHANGED <<solde, recharges, autres, tache>>
    BY <1>5 DEF TransfertLire, donnees
  <2> HIDE DEF etat
  <2> QED
    BY <2>1, <2>2, <2>3, DebutSession
<1>6. ASSUME NEW s \in Session,
             \/ ConfirmerReussie(s) \/ ConfirmerEchouee(s) \/ TransfertLireDest(s) \/ TransfertValider(s)
             \/ RetraitAccepte(s) \/ RetraitManuel(s) \/ RetraitRefuse(s)
      PROVE  Comptable'
  BY <1>6, ConfirmerOK, RetraitOK, LireDestOK, TransfertOK
<1>7. ASSUME NEW r \in Recharge, TacheInterroger(r) \/ TacheIgnorer(r)
      PROVE  Comptable'
  BY <1>7, TacheInterrogerOK
<1>8. CASE TacheLancer \/ TacheValider \/ TachePerdue
  BY <1>8, TacheLancerOK, TacheValiderOK, TachePerdueOK
<1>9. CASE UNCHANGED vars
  BY <1>9, AutresRecharges DEF vars
<1> QED
  BY <1>1, <1>2, <1>3, <1>4, <1>5, <1>6, <1>7, <1>8, <1>9 DEF Next

LEMMA InitComptable == Init => Comptable
<1> SUFFICES ASSUME Init
             PROVE  Comptable
  OBVIOUS
<1>1. /\ solde = [w \in Wallet |-> 0] /\ autres = [w \in Wallet |-> 0] /\ tache = Repos
      /\ session = [s \in Session |-> Libre] /\ recharges = [r \in Recharge |-> "absente"]
  BY DEF Init
<1>2. tache.lot = {} /\ tache.reussies = {}
  BY <1>1 DEF Repos
<1>3. \A s \in Session : Touches(s) = {}
  BY <1>1, TouchesDe DEF Touche, Libre
<1>4. Exclusifs /\ Fraiches
  BY <1>1, <1>3 DEF Exclusifs, Fraiches, Fraiche, Libre
<1>5. SoldeComptable
  <2>1. \A w : Gagnees(w) = {}
    BY <1>1 DEF Gagnees
  <2>2. ASSUME NEW w \in Wallet
        PROVE  Compte(w) = 0
    <3>1. autres[w] = 0
      BY <1>1
    <3>2. Credit(Gagnees(w)) = 0
      BY <2>1, CreditVide
    <3>3. Compte(w) = autres[w] + Credit(Gagnees(w))
      BY CompteDe
    <3> QED
      BY <3>1, <3>2, <3>3
  <2> QED
    BY <1>1, <2>2 DEF SoldeComptable
<1>6. TacheFraiche
  <2>1. \A w \in Wallet : Charge(w) = 0 /\ {r \in tache.reussies : De[r] = w} = {}
    BY <1>1, <1>2 DEF Charge
  <2> QED
    BY <1>1, <1>2, <2>1, CreditVide DEF TacheFraiche
<1> QED
  BY <1>4, <1>5, <1>6 DEF Comptable

-----------------------------------------------------------------------------
(* What left *)

\* As long as no call was cut off, what left through the operators is in the rows.
Sorties == coupures = 0 => envoye + Somme(autres, Wallet) <= 0

LEMMA SortiesInit == Init => Sorties
<1> SUFFICES ASSUME Init
             PROVE  Sorties
  OBVIOUS
<1> DEFINE z == [w \in Wallet |-> 0]
<1>1. \A w \in Wallet : z[w] \in Int /\ z[w] = z[w] + z[w]
  OBVIOUS
<1>2. autres = z /\ envoye = 0
  BY DEF Init
<1> HIDE DEF z
<1>3. Somme(z, Wallet) \in Int /\ Somme(z, Wallet) = Somme(z, Wallet) + Somme(z, Wallet)
  BY <1>1, TablesAssumption, SommeType, SommePlus
<1> QED
  BY <1>2, <1>3 DEF Sorties

LEMMA SortiesMoins ==
    ASSUME NEW w \in Wallet, NEW n \in Int, NEW f, NEW g, \A y \in Wallet : f[y] \in Int,
           g[w] = f[w] + n, \A y \in Wallet \ {w} : g[y] = f[y]
    PROVE  Somme(g, Wallet) = Somme(f, Wallet) + n /\ Somme(f, Wallet) \in Int
<1>1. f[w] \in Int /\ IsFiniteSet(Wallet) /\ \A y \in Wallet : g[y] \in Int
  BY TablesAssumption
<1>2. Somme(g, Wallet) = g[w] + Somme(g, Wallet \ {w}) /\ Somme(f, Wallet) = f[w] + Somme(f, Wallet \ {w})
  BY <1>1, SommeSans
<1>3. IsFiniteSet(Wallet \ {w}) /\ Somme(f, Wallet \ {w}) \in Int
  BY <1>1, FS_Subset, SommeType
<1>4. Somme(g, Wallet \ {w}) = Somme(f, Wallet \ {w})
  BY <1>3, SommeEgale
<1>5. Somme(f, Wallet) \in Int
  BY <1>1, SommeType
<1> QED
  BY <1>1, <1>2, <1>3, <1>4, <1>5

LEMMA NextSorties == TypeOK /\ TypeOK' /\ Sorties /\ [Next]_vars => Sorties'
<1> SUFFICES ASSUME TypeOK, TypeOK', Sorties, [Next]_vars, coupures' = 0
             PROVE  envoye' + Somme(autres', Wallet) <= 0
  BY DEF Sorties
<1>1. CASE UNCHANGED <<envoye, autres, coupures>>
  BY <1>1 DEF Sorties
<1>2. ASSUME Couper
      PROVE  FALSE
  BY <1>2 DEF Couper, TypeOK
<1>3. ASSUME NEW s \in Session, RetraitAccepte(s) \/ RetraitManuel(s)
      PROVE  envoye' + Somme(autres', Wallet) <= 0
  <2> DEFINE w == session[s].w
             m == session[s].m
  <2>1. w \in Wallet /\ m \in Nat
    BY <1>3, SessionCas, MontantAssumption DEF RetraitAccepte, RetraitManuel
  <2>2. autres' = [autres EXCEPT ![w] = autres[w] - m] /\ envoye' \in {envoye, envoye + m} /\ coupures = 0
    BY <1>3 DEF RetraitAccepte, RetraitManuel, Debiter
  <2>3. autres \in [Wallet -> Int] /\ (\A y \in Wallet : autres[y] \in Int) /\ envoye \in Int
    BY DEF TypeOK
  <2> HIDE DEF w, m
  <2>4. autres'[w] = autres[w] + (0 - m) /\ 0 - m \in Int /\ \A y \in Wallet \ {w} : autres'[y] = autres[y]
    BY <2>1, <2>2, <2>3
  <2>5. Somme(autres', Wallet) = Somme(autres, Wallet) + (0 - m) /\ Somme(autres, Wallet) \in Int
    BY <2>1, <2>3, <2>4, SortiesMoins
  <2> QED
    BY <2>1, <2>2, <2>3, <2>5 DEF Sorties
<1>4. ASSUME NEW s \in Session, TransfertValider(s)
      PROVE  envoye' + Somme(autres', Wallet) <= 0
  <2> DEFINE w == session[s].w
             d == session[s].d
             m == session[s].m
  <2>1. w \in Wallet /\ d \in Wallet /\ m \in Nat /\ UNCHANGED <<envoye, coupures>>
    BY <1>4, SessionCas, MontantAssumption DEF TransfertValider
  <2>2. CASE w = d
    BY <1>4, <2>1, <2>2 DEF TransfertValider, Sorties
  <2>3. CASE w # d
    <3> DEFINE f == [autres EXCEPT ![w] = autres[w] - m]
    <3>1. autres' = [f EXCEPT ![d] = f[d] + m] /\ autres \in [Wallet -> Int] /\ \A y \in Wallet : autres[y] \in Int
      BY <1>4, <2>3 DEF TransfertValider, TypeOK
    <3> HIDE DEF w, d, m
    <3>2. /\ (\A y \in Wallet : f[y] \in Int) /\ m \in Int /\ 0 - m \in Int /\ f[w] = autres[w] + (0 - m)
          /\ \A y \in Wallet \ {w} : f[y] = autres[y]
          /\ autres'[d] = f[d] + m /\ \A y \in Wallet \ {d} : autres'[y] = f[y]
      BY <2>1, <3>1
    <3> HIDE DEF f
    <3>3. Somme(f, Wallet) = Somme(autres, Wallet) + (0 - m) /\ Somme(autres, Wallet) \in Int
      BY <2>1, <3>1, <3>2, SortiesMoins
    <3>4. Somme(autres', Wallet) = Somme(f, Wallet) + m
      <4>1. /\ d \in Wallet /\ m \in Int /\ \A y \in Wallet : f[y] \in Int
            /\ autres'[d] = f[d] + m /\ \A y \in Wallet \ {d} : autres'[y] = f[y]
        BY <2>1, <3>2
      <4> QED
        BY <4>1, SortiesMoins
    <3>5. Somme(autres', Wallet) = Somme(autres, Wallet)
      BY <2>1, <3>2, <3>3, <3>4
    <3> QED
      BY <2>1, <3>5 DEF Sorties
  <2> QED
    BY <2>2, <2>3
<1>5. ASSUME NEW r \in Recharge,
             \/ InitierRecharge(r) \/ InitierRefusee(r) \/ InitierPerdue(r) \/ Operateur(r)
             \/ TacheInterroger(r) \/ TacheIgnorer(r)
      PROVE  envoye' + Somme(autres', Wallet) <= 0
  BY <1>1, <1>2, <1>5 DEF InitierRecharge, InitierRefusee, InitierPerdue, Operateur, TacheInterroger,
     TacheIgnorer, donnees
<1>6. ASSUME NEW s \in Session,
             \/ Abandon(s) \/ ConfirmerReussie(s) \/ ConfirmerEchouee(s) \/ ConfirmerEnAttente(s)
             \/ RetraitRefuse(s) \/ RetraitPerdu(s) \/ TransfertLireDest(s)
             \/ \E r \in Recharge : ConfirmerLire(s, r)
             \/ \E w \in Wallet, m \in Montants : RetraitLire(s, w, m)
             \/ \E w, d \in Wallet, m \in Montants : TransfertLire(s, w, d, m)
      PROVE  envoye' + Somme(autres', Wallet) <= 0
  BY <1>1, <1>2, <1>6 DEF Abandon, ConfirmerReussie, ConfirmerEchouee, ConfirmerEnAttente, RetraitRefuse,
     RetraitPerdu, TransfertLireDest, ConfirmerLire, RetraitLire, TransfertLire, donnees
<1>7. CASE TacheLancer \/ TacheValider \/ TachePerdue \/ UNCHANGED vars
  BY <1>1, <1>2, <1>7 DEF TacheLancer, TacheValider, TachePerdue, donnees, vars
<1> QED
  BY <1>3, <1>4, <1>5, <1>6, <1>7 DEF Next

-----------------------------------------------------------------------------
(* The accounts *)

\* The balances agree with the rows wherever no two operations overlapped, and the rows
\* account for what left, along every behaviour.
THEOREM InductifComptable == Spec => [](Comptable /\ Sorties)
<1>1. Init => Comptable /\ Sorties
  BY InitComptable, SortiesInit
<1>2. TypeOK /\ TypeOK' /\ Comptable /\ Sorties /\ [Next]_vars => Comptable' /\ Sorties'
  BY NextComptable, NextSorties
<1> QED
  BY <1>1, <1>2, TypeCorrect, PTL DEF Spec

\* The balance of a wallet on which two units of work never ran at once is what
\* its rows add up to, however many there are.
THEOREM Comptes == Spec => []SoldeComptable
<1>1. Comptable => SoldeComptable
  BY DEF Comptable
<1> QED
  BY <1>1, InductifComptable, PTL

\* The platform does not send out more than was paid in, less what it owes.
THEOREM JamaisADecouvert == Spec => []Solvable
<1>1. TypeOK /\ Comptable /\ Sorties /\ ConclueSurReponse => Solvable
  <2> SUFFICES ASSUME TypeOK, Comptable, Sorties, ConclueSurReponse, chevauches = {}, coupures = 0
               PROVE  envoye + MapThenSumSet(LAMBDA w : solde[w], Wallet)
                          <= Credit({r \in Recharge : operateur[r] \in {"success", "refunded"}})
    BY DEF Solvable
  <2> DEFINE P == {r \in Recharge : operateur[r] \in {"success", "refunded"}}
             R == {r \in Recharge : recharges[r] = "REUSSI"}
             g == [w \in Wallet |-> Somme(Montant, {r \in R : De[r] = w})]
  <2>1. MapThenSumSet(LAMBDA w : solde[w], Wallet) = Somme(solde, Wallet)
    BY DEF MapThenSumSet, MapThenFoldSet, Somme, Partielles, Terme, Un
  <2>2. R \in SUBSET Recharge /\ R \in SUBSET P /\ P \in SUBSET Recharge
    BY DEF ConclueSurReponse
  <2>3. Credit(R) <= Credit(P) /\ Credit(R) \in Int /\ Credit(P) \in Int
    <3>1. IsFiniteSet(P) /\ \A x \in P : Montant[x] \in Nat
      BY <2>2, CreditEntier, MontantAssumption
    <3> HIDE DEF P, R
    <3>2. Somme(Montant, R) <= Somme(Montant, P)
      BY <2>2, <3>1, SommeCroissante
    <3> QED
      BY <2>2, <3>2, CreditSomme, CreditEntier
  <2>4. Somme(g, Wallet) = Credit(R)
    <3>1. IsFiniteSet(R) /\ (\A x \in R : Montant[x] \in Int) /\ \A x \in R : De[x] \in Wallet
      BY <2>2, CreditEntier, MontantAssumption, DeAssumption
    <3> HIDE DEF R
    <3> QED
      BY <3>1, TablesAssumption, SommeGroupee, CreditSomme
  <2>5. ASSUME NEW w \in Wallet
        PROVE  autres[w] \in Int /\ g[w] \in Int /\ solde[w] = autres[w] + g[w]
    <3>1. {r \in R : De[r] = w} = Gagnees(w) /\ Gagnees(w) \in SUBSET Recharge
      BY DEF Gagnees
    <3>2. g[w] = Credit(Gagnees(w))
      BY <3>1, CreditSomme
    <3> HIDE DEF g
    <3>3. solde[w] = Compte(w)
      BY DEF Comptable, SoldeComptable
    <3> QED
      BY <3>1, <3>2, <3>3, CreditEntier, CompteDe DEF TypeOK
  <2> HIDE DEF g, R, P
  <2>6. Somme(solde, Wallet) = Somme(autres, Wallet) + Somme(g, Wallet)
    BY <2>5, TablesAssumption, SommePlus
  <2>7. Somme(autres, Wallet) \in Int /\ envoye \in Int
    BY <2>5, TablesAssumption, SommeType DEF TypeOK
  <2>8. envoye + Somme(autres, Wallet) <= 0
    BY DEF Sorties
  <2>9. envoye + Somme(solde, Wallet) <= Credit(P)
    BY <2>3, <2>4, <2>6, <2>7, <2>8
  <2> QED
    BY <2>1, <2>9 DEF P
<1> QED
  BY <1>1, InductifComptable, TypeCorrect, ReponseAvantConclusion, PTL

-----------------------------------------------------------------------------
(* The reviews *)

CONSTANTS Avis, Auteur, Voyage, Cible, Conducteur, Note, Aucun
VARIABLES terminees, trajets, avis, cibles, requetes, propre, aJour

Av == INSTANCE AvisNotes WITH session <- requetes

\* The assumptions of AvisNotes.
Donnees ==
    /\ IsFiniteSet(Avis) /\ Conducteur \in [Voyage -> Cible] /\ Note \subseteq 1..5
    /\ Aucun \notin Avis /\ Aucun \notin Auteur /\ Aucun \notin Voyage

LEMMA Division ==
    ASSUME NEW a \in Nat, NEW b \in Nat \ {0}
    PROVE  a \div b \in Nat /\ b * (a \div b) <= a /\ a < b * ((a \div b) + 1)
  OBVIOUS

\* The mean of marks between 1 and 5, in hundredths and rounded, is between 100 and 500.
LEMMA Arrondi ==
    ASSUME NEW t \in Nat, NEW n \in Nat \ {0}, n <= t, t <= 5 * n
    PROVE  (200 * t + n) \div (2 * n) \in 100..500
<1> DEFINE q == (200 * t + n) \div (2 * n)
<1>1. q \in Nat /\ (2 * n) * q <= 200 * t + n /\ 200 * t + n < (2 * n) * (q + 1)
  <2> DEFINE a == 200 * t + n
             b == 2 * n
  <2>1. a \in Nat /\ b \in Nat \ {0}
    OBVIOUS
  <2> HIDE DEF a, b
  <2>2. a \div b \in Nat /\ b * (a \div b) <= a /\ a < b * ((a \div b) + 1)
    BY <2>1, Division
  <2> QED
    BY <2>2 DEF a, b
<1> HIDE DEF q
<1>2. ASSUME q <= 99
      PROVE  FALSE
  <2>1. (2 * n) * (q + 1) <= (2 * n) * 100
    BY <1>1, <1>2
  <2> QED
    BY <1>1, <2>1
<1>3. ASSUME q >= 501
      PROVE  FALSE
  <2>1. (2 * n) * q >= (2 * n) * 501
    BY <1>1, <1>3
  <2> QED
    BY <1>1, <2>1
<1> QED
  BY <1>1, <1>2, <1>3 DEF q

\* The function that FoldSet computes on the parts of a set of marks.
TermeNote(g, s) == IF s = {} THEN 0 ELSE Un(s)[2] + g[s \ {Un(s)}]
Cumuls(S)       == CHOOSE g : g = [s \in SUBSET S |-> TermeNote(g, s)]

LEMMA MemeCardinal == \A S : Av!Cardinality(S) = Cardinality(S)
<1> SUFFICES ASSUME NEW S
             PROVE  Av!Cardinality(S) = Cardinality(S)
  OBVIOUS
<1> QED
  BY DEF Av!Cardinality, Cardinality

LEMMA MemeFold ==
    \A S : Av!FoldSet(LAMBDA x, acc : x[2] + acc, 0, S) = Cumuls(S)[S]
<1> SUFFICES ASSUME NEW S
             PROVE  Av!FoldSet(LAMBDA x, acc : x[2] + acc, 0, S) = Cumuls(S)[S]
  OBVIOUS
<1> QED
  BY DEF Av!FoldSet, Av!MapThenFoldSet, MapThenFoldSet, Cumuls, TermeNote, Un

LEMMA MoyenneDe ==
    \A S : Av!Moyenne(S) =
        [moyenne |-> IF Cardinality(S) = 0 THEN 0
                     ELSE (200 * Cumuls(S)[S] + Cardinality(S)) \div (2 * Cardinality(S)),
         nombre |-> Cardinality(S)]
<1> SUFFICES ASSUME NEW S
             PROVE  Av!Moyenne(S) =
        [moyenne |-> IF Cardinality(S) = 0 THEN 0
                     ELSE (200 * Cumuls(S)[S] + Cardinality(S)) \div (2 * Cardinality(S)),
         nombre |-> Cardinality(S)]
  OBVIOUS
<1> QED
  BY MemeCardinal, MemeFold DEF Av!Moyenne

LEMMA CumulsDefinis ==
    ASSUME NEW S, IsFiniteSet(S)
    PROVE  \A s \in SUBSET S : Cumuls(S)[s] = TermeNote(Cumuls(S), s)
<1> DEFINE f == [x \in S |-> x[2]]
           p == Partielles(f, S)
           h == [s \in SUBSET S |-> p[s]]
<1>1. ASSUME NEW s \in SUBSET S
      PROVE  h[s] = TermeNote(h, s)
  <2>1. p[s] = Terme(f, p, s)
    BY PartiellesDefinies
  <2>2. s # {} => Un(s) \in S /\ s \ {Un(s)} \in SUBSET S
    BY UnDe
  <2> HIDE DEF p
  <2> QED
    BY <2>1, <2>2 DEF Terme, TermeNote
<1>2. h = [s \in SUBSET S |-> TermeNote(h, s)]
  <2> HIDE DEF p
  <2> QED
    BY <1>1
<1> HIDE DEF h
<1>3. \E g : g = [s \in SUBSET S |-> TermeNote(g, s)]
  BY <1>2, Zenon
<1> DEFINE g == Cumuls(S)
<1>4. g = [s \in SUBSET S |-> TermeNote(g, s)]
  BY <1>3, Zenon DEF Cumuls
<1> HIDE DEF g
<1>5. \A s \in SUBSET S : g[s] = TermeNote(g, s)
  BY <1>4
<1> QED
  BY <1>5 DEF g

\* The mean and the number of a set of marks between 1 and 5.
LEMMA MoyenneBornee ==
    ASSUME NEW S, IsFiniteSet(S), \A x \in S : x[2] \in 1..5
    PROVE  /\ Av!Moyenne(S).nombre = Cardinality(S) /\ Cardinality(S) \in Nat
           /\ Av!Moyenne(S) \in Av!CibleRow
           /\ S = {} => Av!Moyenne(S) = Av!Vide
           /\ S # {} => Cardinality(S) > 0 /\ Av!Moyenne(S).moyenne \in 100..500
<1> DEFINE c == Cumuls(S)
           G == {T \in SUBSET S : c[T] \in Nat /\ Cardinality(T) <= c[T] /\ c[T] <= 5 * Cardinality(T)}
<1>1. \A s \in SUBSET S : c[s] = TermeNote(c, s)
  BY CumulsDefinis
<1> HIDE DEF c
<1>2. {} \in G
  <2>1. c[{}] = 0
    BY <1>1 DEF TermeNote
  <2>2. Cardinality({}) = 0
    BY FS_EmptySet
  <2> QED
    BY <2>1, <2>2
<1>3. ASSUME NEW T \in SUBSET S, T # {}, \A x \in T : T \ {x} \in G
      PROVE  T \in G
  <2> DEFINE x == Un(T)
             k == Cardinality(T \ {x})
             b == c[T \ {x}]
  <2>1. x \in T
    BY <1>3, UnDe
  <2>2. T \ {x} \in G
    BY <1>3, <2>1
  <2>3. IsFiniteSet(T) /\ x[2] \in 1..5
    BY <2>1, FS_Subset
  <2>4. k = Cardinality(T) - 1 /\ Cardinality(T) \in Nat /\ k \in Nat
    BY <2>1, <2>3, FS_RemoveElement, FS_CardinalityType
  <2>5. c[T] = x[2] + b
    BY <1>1, <1>3 DEF TermeNote
  <2>6. b \in Nat /\ k <= b /\ b <= 5 * k
    BY <2>2
  <2> HIDE DEF x, k, b, G
  <2>7. c[T] \in Nat /\ Cardinality(T) <= c[T] /\ c[T] <= 5 * Cardinality(T)
    BY <2>3, <2>4, <2>5, <2>6
  <2> QED
    BY <2>7 DEF G
<1> HIDE DEF G
<1>4. S \in G
  BY <1>2, <1>3, RecurrenceParties
<1>5. /\ Cardinality(S) \in Nat /\ (Cardinality(S) = 0 <=> S = {})
      /\ c[S] \in Nat /\ Cardinality(S) <= c[S] /\ c[S] <= 5 * Cardinality(S)
  BY <1>4, FS_CardinalityType, FS_EmptySet DEF G
<1> DEFINE n == Cardinality(S)
           m == (200 * c[S] + n) \div (2 * n)
<1>6. n # 0 => m \in 100..500
  BY <1>5, Arrondi
<1>7. Av!Moyenne(S) = [moyenne |-> IF n = 0 THEN 0 ELSE m, nombre |-> n]
  BY MoyenneDe DEF c
<1> HIDE DEF n, m
<1> QED
  BY <1>5, <1>6, <1>7 DEF Av!CibleRow, Av!Vide, n

-----------------------------------------------------------------------------
(* The shape of the reviews *)

\* The rows that the requests in progress name; no two of them insert the same review.
AvisNommes ==
    \A s \in Session :
        LET r == requetes[s] IN
        /\ r.op = "lu" \/ Av!Cree(s) => r.auteur \in Auteur /\ r.voyage \in Voyage
        /\ Av!Cree(s) =>
               /\ r.avis \in Avis /\ ~Av!Existe(r.avis)
               /\ \A j \in Avis : ~Av!De(j, r.auteur, r.voyage)
               /\ \A t \in Session : t # s /\ Av!Cree(t) =>
                      /\ requetes[t].avis # r.avis
                      /\ requetes[t].auteur # r.auteur \/ requetes[t].voyage # r.voyage
        /\ r.op \in {"masquer", "restaurer", "signaler"} => r.avis \in Avis /\ Av!Existe(r.avis)

LEMMA NoteRang == Donnees => \A n \in Note : n \in 1..5
  BY DEF Donnees

LEMMA LibreRequete == Av!Libre \in Av!Requete /\ Av!Libre.op = "libre"
  BY DEF Av!Libre, Av!Requete, Av!CibleRow, Av!Vide

LEMMA InitAvisType == Donnees /\ Av!Init => Av!TypeOK /\ AvisNommes
<1> SUFFICES ASSUME Donnees, Av!Init
             PROVE  Av!TypeOK /\ AvisNommes
  OBVIOUS
<1>1. /\ terminees \in [Auteur \X Voyage -> Nat] /\ trajets \subseteq Voyage
      /\ cibles \in [Cible -> Av!CibleRow] /\ propre \subseteq Session /\ aJour \subseteq Cible
  BY DEF Av!Init, Av!CibleRow, Av!Vide
<1>2. requetes \in [Session -> Av!Requete]
  BY LibreRequete DEF Av!Init
<1>3. avis \in [Avis -> Av!AvisRow] /\ \A i \in Avis : avis[i].auteur = Aucun
  BY DEF Av!Init, Av!AvisRow
<1>4. AvisNommes
  BY LibreRequete DEF Av!Init, AvisNommes, Av!Cree
<1> QED
  BY <1>1, <1>2, <1>3, <1>4 DEF Av!TypeOK

\* What TypeOK says of a request.
LEMMA TypeRequete ==
    ASSUME Av!TypeOK, NEW s \in Session
    PROVE  /\ requetes[s] \in Av!Requete /\ requetes \in [Session -> Av!Requete]
           /\ requetes[s].op \in {"libre", "lu", "insere", "calcule", "masquer", "restaurer", "signaler"}
           /\ requetes[s].note \in 1..5 /\ requetes[s].lu \in Av!CibleRow /\ requetes[s].calcul \in Av!CibleRow
           /\ requetes[s].visible \in BOOLEAN /\ requetes[s].signale \in BOOLEAN
<1>1. requetes[s] \in Av!Requete /\ requetes \in [Session -> Av!Requete]
  BY DEF Av!TypeOK
<1> QED
  BY <1>1 DEF Av!Requete

\* The marks of a driver, one per visible review.
LEMMA NotesFinies ==
    ASSUME Donnees, Av!TypeOK, NEW c
    PROVE  LET V == Av!Visibles(c) IN
           /\ V \in SUBSET Avis /\ IsFiniteSet(V) /\ IsFiniteSet(Av!Notes(V))
           /\ Cardinality(Av!Notes(V)) <= Cardinality(V)
           /\ \A x \in Av!Notes(V) : x[2] \in 1..5
<1> DEFINE V == Av!Visibles(c)
           N == Av!Notes(V)
           f == [i \in V |-> <<i, avis[i].note>>]
<1>1. V \in SUBSET Avis
  BY DEF Av!Visibles
<1>2. IsFiniteSet(V)
  BY <1>1, FS_Subset DEF Donnees
<1>3. \A i \in V : avis[i].note \in 1..5
  BY <1>1 DEF Av!TypeOK, Av!AvisRow
<1> HIDE DEF V
<1>4. N = {<<i, avis[i].note>> : i \in V}
  BY DEF Av!Notes
<1>5. f \in Surjection(V, N)
  BY <1>4 DEF Surjection
<1> HIDE DEF f
<1>6. IsFiniteSet(N) /\ Cardinality(N) <= Cardinality(V)
  BY <1>2, <1>5, FS_Surjection
<1>7. \A x \in N : x[2] \in 1..5
  BY <1>3, <1>4
<1> QED
  BY <1>1, <1>2, <1>6, <1>7 DEF V

\* A step that leaves the reviews alone and a request free.
LEMMA AvisFini ==
    ASSUME Av!TypeOK, AvisNommes, NEW s \in Session, Av!Finir(s), UNCHANGED avis
    PROVE  requetes' \in [Session -> Av!Requete] /\ AvisNommes'
<1>1. requetes' = [requetes EXCEPT ![s] = Av!Libre]
  BY DEF Av!Finir
<1>2. requetes' \in [Session -> Av!Requete]
  BY <1>1, TypeRequete, LibreRequete
<1>3. \A t \in Session : requetes'[t] = IF t = s THEN Av!Libre ELSE requetes[t]
  BY <1>1, TypeRequete
<1>4. AvisNommes'
  BY <1>3, LibreRequete DEF AvisNommes, Av!Cree, Av!Existe, Av!De
<1> QED
  BY <1>2, <1>4

LEMMA NextAvisType ==
    Donnees /\ Av!TypeOK /\ AvisNommes /\ [Av!Next]_(Av!vars) => Av!TypeOK' /\ AvisNommes'
<1> SUFFICES ASSUME Donnees, Av!TypeOK, AvisNommes, [Av!Next]_(Av!vars)
             PROVE  Av!TypeOK' /\ AvisNommes'
  OBVIOUS
<1>1. ASSUME NEW v \in Voyage, Av!EndVoyage(v)
      PROVE  Av!TypeOK' /\ AvisNommes'
  <2>1. UNCHANGED <<avis, cibles, requetes, propre, aJour>> /\ trajets' \subseteq Voyage
    BY <1>1 DEF Av!EndVoyage, Av!TypeOK
  <2>2. terminees' \in [Auteur \X Voyage -> Nat]
    <3>1. PICK n \in [Auteur -> 0..2] :
            terminees' = [x \in Auteur \X Voyage |-> IF x[2] = v THEN n[x[1]] ELSE terminees[x]]
      BY <1>1 DEF Av!EndVoyage
    <3>2. \A x \in Auteur \X Voyage : x[1] \in Auteur /\ n[x[1]] \in Nat /\ terminees[x] \in Nat
      BY DEF Av!TypeOK
    <3> QED
      BY <3>1, <3>2
  <2> QED
    BY <2>1, <2>2 DEF Av!TypeOK, AvisNommes, Av!Cree, Av!Existe, Av!De
<1>2. ASSUME NEW s \in Session, NEW u \in Auteur, NEW v \in Voyage, NEW n \in Note, Av!CreateAvis(s, u, v, n)
      PROVE  Av!TypeOK' /\ AvisNommes'
  <2> DEFINE r == [Av!Libre EXCEPT !.op = "lu", !.auteur = u, !.voyage = v, !.note = n]
  <2>1. r \in Av!Requete /\ r.op = "lu" /\ r.auteur = u /\ r.voyage = v
    BY NoteRang DEF Av!Libre, Av!Requete, Av!CibleRow, Av!Vide
  <2>2. requetes' = [requetes EXCEPT ![s] = r] /\ UNCHANGED <<terminees, trajets, avis, cibles, propre, aJour>>
    BY <1>2 DEF Av!CreateAvis
  <2> HIDE DEF r
  <2>3. requetes' \in [Session -> Av!Requete]
    BY <2>1, <2>2, TypeRequete
  <2>4. \A t \in Session : requetes'[t] = IF t = s THEN r ELSE requetes[t]
    BY <2>2, TypeRequete
  <2>5. AvisNommes'
    BY <2>1, <2>2, <2>4 DEF AvisNommes, Av!Cree, Av!Existe, Av!De
  <2> QED
    BY <2>2, <2>3, <2>5 DEF Av!TypeOK
<1>3. ASSUME NEW s \in Session, NEW i \in Avis, Av!Inserer(s, i)
      PROVE  Av!TypeOK' /\ AvisNommes'
  <2> DEFINE c == cibles[Conducteur[requetes[s].voyage]]
             r == [requetes[s] EXCEPT !.op = "insere", !.avis = i, !.lu = c]
  <2>1. requetes[s].op = "lu" /\ requetes[s].auteur \in Auteur /\ requetes[s].voyage \in Voyage
    BY <1>3 DEF Av!Inserer, AvisNommes
  <2>2. c \in Av!CibleRow
    BY <2>1 DEF Av!TypeOK, Donnees
  <2>3. requetes' = [requetes EXCEPT ![s] = r] /\ UNCHANGED <<terminees, trajets, avis, cibles, aJour>>
        /\ propre' = propre \cup {s}
    BY <1>3, TypeRequete DEF Av!Inserer
  <2> HIDE DEF c
  <2>4. /\ r \in Av!Requete /\ r.op = "insere" /\ r.avis = i
        /\ r.auteur = requetes[s].auteur /\ r.voyage = requetes[s].voyage
    BY <2>2, TypeRequete DEF Av!Requete
  <2> HIDE DEF r
  <2>5. requetes' \in [Session -> Av!Requete]
    BY <2>3, <2>4, TypeRequete
  <2>6. \A t \in Session : requetes'[t] = IF t = s THEN r ELSE requetes[t]
    BY <2>3, TypeRequete
  <2>7. /\ ~Av!Existe(i) /\ \A j \in Avis : ~Av!De(j, requetes[s].auteur, requetes[s].voyage)
        /\ \A t \in Session : Av!Cree(t) =>
               /\ requetes[t].avis # i
               /\ requetes[t].auteur # requetes[s].auteur \/ requetes[t].voyage # requetes[s].voyage
    BY <1>3 DEF Av!Inserer, Av!Inserable
  <2>8. AvisNommes'
    BY <2>1, <2>3, <2>4, <2>6, <2>7 DEF AvisNommes, Av!Cree, Av!Existe, Av!De
  <2> QED
    BY <2>3, <2>5, <2>8 DEF Av!TypeOK
<1>4. ASSUME NEW s \in Session, Av!Calculer(s)
      PROVE  Av!TypeOK' /\ AvisNommes'
  <2> DEFINE S == Av!Notes(Av!Visibles(Conducteur[requetes[s].voyage])) \cup {<<requetes[s].avis, requetes[s].note>>}
             m == Av!Moyenne(S)
             r == [requetes[s] EXCEPT !.op = "calcule", !.calcul = m]
  <2>1. IsFiniteSet(S) /\ \A x \in S : x[2] \in 1..5
    <3> DEFINE N == Av!Notes(Av!Visibles(Conducteur[requetes[s].voyage]))
               x == <<requetes[s].avis, requetes[s].note>>
    <3>1. IsFiniteSet(N) /\ \A y \in N : y[2] \in 1..5
      BY NotesFinies
    <3>2. x[2] \in 1..5
      BY TypeRequete
    <3> HIDE DEF N, x
    <3>3. IsFiniteSet(N \cup {x}) /\ \A y \in N \cup {x} : y[2] \in 1..5
      BY <3>1, <3>2, FS_AddElement
    <3> QED
      BY <3>3 DEF N, x
  <2>2. m \in Av!CibleRow
    <3> HIDE DEF S
    <3> QED
      BY <2>1, MoyenneBornee
  <2>3. requetes' = [requetes EXCEPT ![s] = r] /\ UNCHANGED <<terminees, trajets, avis, cibles, propre, aJour>>
        /\ requetes[s].op = "insere"
    BY <1>4, TypeRequete DEF Av!Calculer
  <2> HIDE DEF m
  <2>4. /\ r \in Av!Requete /\ r.op = "calcule" /\ r.avis = requetes[s].avis
        /\ r.auteur = requetes[s].auteur /\ r.voyage = requetes[s].voyage
    BY <2>2, TypeRequete DEF Av!Requete
  <2> HIDE DEF r
  <2>5. requetes' \in [Session -> Av!Requete]
    BY <2>3, <2>4, TypeRequete
  <2>6. \A t \in Session : requetes'[t] = IF t = s THEN r ELSE requetes[t]
    BY <2>3, TypeRequete
  <2>7. AvisNommes'
    BY <2>3, <2>4, <2>6 DEF AvisNommes, Av!Cree, Av!Existe, Av!De
  <2> QED
    BY <2>3, <2>5, <2>7 DEF Av!TypeOK
<1>5. ASSUME NEW s \in Session, Av!CreerValider(s)
      PROVE  Av!TypeOK' /\ AvisNommes'
  <2> DEFINE r == requetes[s]
             c == Conducteur[r.voyage]
             i == r.avis
             ligne == [auteur |-> r.auteur, voyage |-> r.voyage, note |-> r.note, visible |-> TRUE, signale |-> FALSE]
             m == Av!EcritMoyenne(cibles[c].moyenne, r.lu.moyenne, r.calcul.moyenne)
             k == Av!Ecrit(cibles[c].nombre, r.lu.nombre, r.calcul.nombre)
  <2>1. Av!Cree(s)
    BY <1>5 DEF Av!CreerValider, Av!Cree
  <2>2. /\ i \in Avis /\ ~Av!Existe(i) /\ r.auteur \in Auteur /\ r.voyage \in Voyage
        /\ \A j \in Avis : ~Av!De(j, r.auteur, r.voyage)
        /\ \A t \in Session : t # s /\ Av!Cree(t) =>
               /\ requetes[t].avis # i
               /\ requetes[t].auteur # r.auteur \/ requetes[t].voyage # r.voyage
    BY <2>1 DEF AvisNommes
  <2>3. c \in Cible /\ cibles[c] \in Av!CibleRow
    BY <2>2 DEF Donnees, Av!TypeOK
  <2>4. avis' = [avis EXCEPT ![i] = ligne] /\ Av!Finir(s) /\ UNCHANGED <<terminees, trajets>>
        /\ propre' \subseteq propre /\ aJour' \subseteq aJour \cup {c}
    BY <1>5 DEF Av!CreerValider, Av!Salir
  <2>5. cibles' = [cibles EXCEPT ![c] = [cibles[c] EXCEPT !.moyenne = m, !.nombre = k]]
    BY <1>5 DEF Av!CreerValider
  <2>6. m \in Nat /\ k \in Nat
    BY <2>3, TypeRequete DEF Av!CibleRow, Av!EcritMoyenne, Av!Ecrit
  <2>7. ligne \in Av!AvisRow /\ ligne.auteur = r.auteur /\ ligne.voyage = r.voyage
    BY <2>2, TypeRequete DEF Av!AvisRow
  <2> HIDE DEF m, k, ligne
  <2>8. cibles' \in [Cible -> Av!CibleRow]
    BY <2>3, <2>5, <2>6 DEF Av!TypeOK, Av!CibleRow
  <2> HIDE DEF c, r
  <2>9. avis' \in [Avis -> Av!AvisRow] /\ \A j \in Avis : avis'[j] = IF j = i THEN ligne ELSE avis[j]
    BY <2>2, <2>4, <2>7 DEF Av!TypeOK
  <2>10. requetes' = [requetes EXCEPT ![s] = Av!Libre] /\ requetes' \in [Session -> Av!Requete]
    BY <2>4, TypeRequete, LibreRequete DEF Av!Finir
  <2>11. \A t \in Session : requetes'[t] = IF t = s THEN Av!Libre ELSE requetes[t]
    BY <2>10, TypeRequete
  <2>12. \A x, y \in Avis :
             avis'[x].auteur # Aucun /\ avis'[x].auteur = avis'[y].auteur /\ avis'[x].voyage = avis'[y].voyage
                 => x = y
    BY <2>2, <2>7, <2>9 DEF Av!TypeOK, Av!De
  <2>13. \A x \in Avis : Av!Existe(x)' <=> x = i \/ Av!Existe(x)
    BY <2>2, <2>7, <2>9 DEF Av!Existe, Donnees
  <2>14. AvisNommes'
    <3> SUFFICES ASSUME NEW t \in Session
                 PROVE  (LET q == requetes[t] IN
        /\ q.op = "lu" \/ Av!Cree(t) => q.auteur \in Auteur /\ q.voyage \in Voyage
        /\ Av!Cree(t) =>
               /\ q.avis \in Avis /\ ~Av!Existe(q.avis)
               /\ \A j \in Avis : ~Av!De(j, q.auteur, q.voyage)
               /\ \A z \in Session : z # t /\ Av!Cree(z) =>
                      /\ requetes[z].avis # q.avis
                      /\ requetes[z].auteur # q.auteur \/ requetes[z].voyage # q.voyage
        /\ q.op \in {"masquer", "restaurer", "signaler"} => q.avis \in Avis /\ Av!Existe(q.avis))'
      BY DEF AvisNommes
    <3>1. CASE t = s
      BY <2>11, <3>1, LibreRequete DEF Av!Cree
    <3>2. CASE t # s
      <4>1. requetes'[t] = requetes[t] /\ Av!Cree(t)' = Av!Cree(t)
        BY <2>11, <3>2 DEF Av!Cree
      <4>2. \A z \in Session : Av!Cree(z)' => z # s /\ requetes'[z] = requetes[z] /\ Av!Cree(z)
        BY <2>11, LibreRequete DEF Av!Cree
      <4>3. \A j \in Avis : Av!Cree(t) => ~Av!De(j, requetes[t].auteur, requetes[t].voyage)'
        BY <2>2, <2>7, <2>9, <3>2, <4>1 DEF Av!De, AvisNommes
      <4> QED
        BY <2>2, <2>13, <3>2, <4>1, <4>2, <4>3 DEF AvisNommes
    <3> QED
      BY <3>1, <3>2
  <2> QED
    BY <2>3, <2>4, <2>8, <2>9, <2>10, <2>12, <2>14 DEF Av!TypeOK
<1>6. ASSUME NEW s \in Session, NEW i \in Avis,
             Av!MasquerAvis(s, i) \/ Av!RestaurerAvis(s, i) \/ Av!SignalerAvis(s, i)
      PROVE  Av!TypeOK' /\ AvisNommes'
  <2>1. PICK op \in {"masquer", "restaurer", "signaler"} : Av!ModererLire(s, i, op)
    BY <1>6 DEF Av!MasquerAvis, Av!RestaurerAvis, Av!SignalerAvis
  <2> DEFINE r == [Av!Libre EXCEPT !.op = op, !.avis = i, !.visible = avis[i].visible, !.signale = avis[i].signale]
  <2>2. avis[i].visible \in BOOLEAN /\ avis[i].signale \in BOOLEAN
    BY DEF Av!TypeOK, Av!AvisRow
  <2>3. r \in Av!Requete /\ r.op = op /\ r.avis = i
    <3>1. op \in {"libre", "lu", "insere", "calcule", "masquer", "restaurer", "signaler"} /\ i \in Avis \cup {Aucun}
      BY <2>1
    <3> QED
      BY <2>2, <3>1, LibreRequete DEF Av!Requete
  <2>4. /\ requetes' = [requetes EXCEPT ![s] = r] /\ UNCHANGED <<terminees, trajets, avis, cibles, propre, aJour>>
        /\ Av!Existe(i)
    BY <2>1 DEF Av!ModererLire
  <2> HIDE DEF r
  <2>5. requetes' \in [Session -> Av!Requete]
    BY <2>3, <2>4, TypeRequete
  <2>6. \A t \in Session : requetes'[t] = IF t = s THEN r ELSE requetes[t]
    BY <2>4, TypeRequete
  <2>7. AvisNommes'
    BY <2>1, <2>3, <2>4, <2>6 DEF AvisNommes, Av!Cree, Av!Existe, Av!De
  <2> QED
    BY <2>4, <2>5, <2>7 DEF Av!TypeOK
<1>7. ASSUME NEW s \in Session, Av!ModererValider(s)
      PROVE  Av!TypeOK' /\ AvisNommes'
  <2> DEFINE i == requetes[s].avis
  <2>1. i \in Avis /\ Av!Existe(i)
    BY <1>7 DEF Av!ModererValider, AvisNommes
  <2>2. PICK b \in BOOLEAN, d \in BOOLEAN : avis' = [avis EXCEPT ![i].visible = b, ![i].signale = d]
    <3> DEFINE q == requetes[s]
               v == CASE q.op = "masquer" -> FALSE [] q.op = "restaurer" -> TRUE [] OTHER -> q.visible
               e == CASE q.op = "restaurer" -> FALSE [] q.op = "signaler" -> TRUE [] OTHER -> q.signale
               b == Av!Ecrit(avis[i].visible, q.visible, v)
               d == Av!Ecrit(avis[i].signale, q.signale, e)
    <3>1. avis' = [avis EXCEPT ![i].visible = b, ![i].signale = d]
      BY <1>7 DEF Av!ModererValider
    <3>2. avis[i].visible \in BOOLEAN /\ avis[i].signale \in BOOLEAN
      BY <2>1 DEF Av!TypeOK, Av!AvisRow
    <3>3. v \in BOOLEAN /\ e \in BOOLEAN
      BY TypeRequete
    <3> HIDE DEF v, e
    <3>4. b \in BOOLEAN /\ d \in BOOLEAN
      BY <3>2, <3>3, TypeRequete DEF Av!Ecrit
    <3> HIDE DEF b, d
    <3> QED
      BY <3>1, <3>4
  <2>3. /\ Av!Finir(s) /\ propre' \subseteq propre /\ aJour' \subseteq aJour
        /\ UNCHANGED <<terminees, trajets, cibles>>
    BY <1>7 DEF Av!ModererValider, Av!Salir
  <2>4. /\ avis' \in [Avis -> Av!AvisRow]
        /\ \A j \in Avis : avis'[j].auteur = avis[j].auteur /\ avis'[j].voyage = avis[j].voyage
    <3> DEFINE ligne == [avis[i] EXCEPT !.visible = b, !.signale = d]
    <3>1. avis[i] \in Av!AvisRow /\ avis \in [Avis -> Av!AvisRow]
      BY <2>1 DEF Av!TypeOK
    <3>2. ligne \in Av!AvisRow /\ ligne.auteur = avis[i].auteur /\ ligne.voyage = avis[i].voyage
      BY <3>1 DEF Av!AvisRow
    <3>3. avis' = [avis EXCEPT ![i] = ligne]
      BY <2>1, <2>2, <3>1
    <3> HIDE DEF ligne
    <3> QED
      BY <2>1, <3>1, <3>2, <3>3
  <2>5. requetes' = [requetes EXCEPT ![s] = Av!Libre] /\ requetes' \in [Session -> Av!Requete]
    BY <2>3, TypeRequete, LibreRequete DEF Av!Finir
  <2>6. \A t \in Session : requetes'[t] = IF t = s THEN Av!Libre ELSE requetes[t]
    BY <2>5, TypeRequete
  <2> HIDE DEF i
  <2>7. AvisNommes'
    BY <2>4, <2>6, LibreRequete DEF AvisNommes, Av!Cree, Av!Existe, Av!De
  <2> QED
    BY <2>3, <2>4, <2>5, <2>7 DEF Av!TypeOK
<1>8. ASSUME NEW s \in Session, Av!Abandon(s)
      PROVE  Av!TypeOK' /\ AvisNommes'
  <2>1. Av!Finir(s) /\ propre' \subseteq propre /\ UNCHANGED <<terminees, trajets, avis, cibles, aJour>>
    BY <1>8 DEF Av!Abandon
  <2> QED
    BY <2>1, AvisFini DEF Av!TypeOK
<1>9. CASE UNCHANGED Av!vars
  BY <1>9 DEF Av!vars, Av!TypeOK, AvisNommes, Av!Cree, Av!Existe, Av!De
<1> QED
  BY <1>1, <1>2, <1>3, <1>4, <1>5, <1>6, <1>7, <1>8, <1>9 DEF Av!Next

-----------------------------------------------------------------------------
(* The exact mean *)

\* What a request that nothing overlapped has in hand is what the tables give.
Courant(s) ==
    LET r == requetes[s]
        c == Conducteur[r.voyage]
    IN  /\ Av!Cree(s)
        /\ r.lu = cibles[c]
        /\ r.op = "calcule" =>
               r.calcul = Av!Moyenne(Av!Notes(Av!Visibles(c)) \cup {<<r.avis, r.note>>})
Courants == \A s \in propre : Courant(s)

Exactes == Courants /\ Av!NoteExacte

\* A driver whose reviews and columns are as they were.
LEMMA MemesNotes ==
    ASSUME NEW c,
           \A i \in Avis : /\ i \in Av!Visibles(c)' <=> i \in Av!Visibles(c)
                           /\ i \in Av!Visibles(c) => avis'[i].note = avis[i].note
    PROVE  Av!Visibles(c)' = Av!Visibles(c) /\ Av!Notes(Av!Visibles(c))' = Av!Notes(Av!Visibles(c))
<1>1. Av!Visibles(c)' = Av!Visibles(c)
  BY DEF Av!Visibles
<1>2. Av!Notes(Av!Visibles(c))' = {<<i, avis'[i].note>> : i \in Av!Visibles(c)'}
  BY DEF Av!Notes
<1>3. Av!Notes(Av!Visibles(c)) = {<<i, avis[i].note>> : i \in Av!Visibles(c)}
  BY DEF Av!Notes
<1>4. \A i \in Av!Visibles(c) : avis'[i].note = avis[i].note
  BY DEF Av!Visibles
<1> QED
  BY <1>1, <1>2, <1>3, <1>4

LEMMA MoyennePrime == \A S : Av!Moyenne(S) = Av!Moyenne(S)'
  OBVIOUS

\* Nothing else than a commit touches what a request or a driver depends on.
LEMMA ExactesLoin ==
    ASSUME Av!TypeOK, Exactes, NEW s \in Session, UNCHANGED <<avis, cibles>>, aJour' \subseteq aJour,
           \A t \in Session : t # s => requetes'[t] = requetes[t],
           propre' \subseteq propre \cup {s}, s \in propre' => Courant(s)'
    PROVE  Exactes'
<1>1. \A c : Av!Visibles(c)' = Av!Visibles(c) /\ Av!Notes(Av!Visibles(c))' = Av!Notes(Av!Visibles(c))
  BY DEF Av!Visibles, Av!Existe, Av!Notes
<1>2. Av!NoteExacte'
  BY <1>1 DEF Exactes, Av!NoteExacte
<1>3. ASSUME NEW t \in propre', t # s
      PROVE  Courant(t)'
  <2>1. t \in propre /\ t \in Session /\ requetes'[t] = requetes[t]
    BY <1>3 DEF Av!TypeOK
  <2>2. Courant(t)
    BY <2>1 DEF Exactes, Courants
  <2> QED
    BY <1>1, <2>1, <2>2 DEF Courant, Av!Cree
<1> QED
  BY <1>2, <1>3 DEF Exactes, Courants

\* A commit on the reviews or the columns of a driver c leaves the others as they were.
LEMMA ExactesHors ==
    ASSUME Av!TypeOK, Exactes, NEW c, NEW s \in Session,
           \A d : d # c => Av!Visibles(d)' = Av!Visibles(d) /\ Av!Notes(Av!Visibles(d))' = Av!Notes(Av!Visibles(d)),
           \A d \in Cible : d # c => cibles'[d] = cibles[d],
           \A t \in Session : t # s => requetes'[t] = requetes[t],
           propre' \subseteq {t \in propre : t # s /\ Conducteur[requetes[t].voyage] # c},
           \A d \in aJour' : d = c \/ d \in aJour,
           \A t \in propre : Conducteur[requetes[t].voyage] \in Cible,
           c \in aJour' => cibles'[c] = Av!Moyenne(Av!Notes(Av!Visibles(c)))'
    PROVE  Exactes'
<1>1. ASSUME NEW d \in aJour'
      PROVE  (cibles[d] = Av!Moyenne(Av!Notes(Av!Visibles(d))))'
  <2>1. CASE d = c
    BY <1>1, <2>1
  <2>2. CASE d # c
    <3>1. d \in aJour /\ d \in Cible
      BY <1>1, <2>2 DEF Av!TypeOK
    <3>2. cibles[d] = Av!Moyenne(Av!Notes(Av!Visibles(d)))
      BY <3>1 DEF Exactes, Av!NoteExacte
    <3> QED
      BY <2>2, <3>1, <3>2
  <2> QED
    BY <2>1, <2>2
<1>2. ASSUME NEW t \in propre'
      PROVE  Courant(t)'
  <2>1. /\ t \in propre /\ t \in Session /\ requetes'[t] = requetes[t]
        /\ Conducteur[requetes[t].voyage] # c /\ Conducteur[requetes[t].voyage] \in Cible
    BY <1>2 DEF Av!TypeOK
  <2>2. Courant(t)
    BY <2>1 DEF Exactes, Courants
  <2> QED
    BY <2>1, <2>2 DEF Courant, Av!Cree
<1> QED
  BY <1>1, <1>2 DEF Exactes, Courants, Av!NoteExacte

LEMMA InitExactes == Donnees /\ Av!Init => Exactes
<1> SUFFICES ASSUME Donnees, Av!Init
             PROVE  Exactes
  OBVIOUS
<1>1. ASSUME NEW c \in aJour
      PROVE  cibles[c] = Av!Moyenne(Av!Notes(Av!Visibles(c)))
  <2>1. Av!Notes(Av!Visibles(c)) = {} /\ cibles[c] = Av!Vide
    BY <1>1 DEF Av!Init, Av!Visibles, Av!Existe, Av!Notes
  <2>2. Av!Moyenne({}) = Av!Vide
    BY FS_EmptySet, MoyenneBornee
  <2> QED
    BY <2>1, <2>2
<1> QED
  BY <1>1 DEF Exactes, Courants, Av!NoteExacte, Av!Init

LEMMA NextExactes ==
    Donnees /\ Av!TypeOK /\ Av!TypeOK' /\ AvisNommes /\ Exactes /\ [Av!Next]_(Av!vars) => Exactes'
<1> SUFFICES ASSUME Donnees, Av!TypeOK, Av!TypeOK', AvisNommes, Exactes, [Av!Next]_(Av!vars)
             PROVE  Exactes'
  OBVIOUS
<1>1. ASSUME UNCHANGED <<avis, cibles, requetes, propre, aJour>>
      PROVE  Exactes'
  BY <1>1 DEF Exactes, Courants, Courant, Av!NoteExacte, Av!Cree, Av!Visibles, Av!Existe, Av!Notes
<1>2. ASSUME NEW s \in Session, requetes[s] = Av!Libre, UNCHANGED <<avis, cibles, propre, aJour>>,
             \A t \in Session : t # s => requetes'[t] = requetes[t]
      PROVE  Exactes'
  <2>1. s \notin propre
    BY <1>2, LibreRequete DEF Exactes, Courants, Courant, Av!Cree
  <2> QED
    BY <1>2, <2>1, ExactesLoin
<1>3. ASSUME NEW s \in Session, NEW i \in Avis, Av!Inserer(s, i)
      PROVE  Exactes'
  <2>1. /\ UNCHANGED <<avis, cibles, aJour>> /\ propre' = propre \cup {s}
        /\ \A t \in Session : t # s => requetes'[t] = requetes[t]
        /\ requetes'[s] = [requetes[s] EXCEPT !.op = "insere", !.avis = i,
                                              !.lu = cibles[Conducteur[requetes[s].voyage]]]
    BY <1>3, TypeRequete DEF Av!Inserer
  <2>2. requetes'[s].op = "insere" /\ requetes'[s].voyage = requetes[s].voyage
        /\ requetes'[s].lu = cibles[Conducteur[requetes[s].voyage]]
    BY <2>1, TypeRequete DEF Av!Requete
  <2>3. Courant(s)'
    BY <2>1, <2>2 DEF Courant, Av!Cree
  <2> QED
    BY <2>1, <2>3, ExactesLoin
<1>4. ASSUME NEW s \in Session, Av!Calculer(s)
      PROVE  Exactes'
  <2> DEFINE c == Conducteur[requetes[s].voyage]
             m == Av!Moyenne(Av!Notes(Av!Visibles(c)) \cup {<<requetes[s].avis, requetes[s].note>>})
  <2>1. /\ UNCHANGED <<avis, cibles, propre, aJour>>
        /\ \A t \in Session : t # s => requetes'[t] = requetes[t]
        /\ requetes'[s] = [requetes[s] EXCEPT !.op = "calcule", !.calcul = m]
    BY <1>4, TypeRequete DEF Av!Calculer
  <2> HIDE DEF m
  <2>2. /\ requetes'[s].op = "calcule" /\ requetes'[s].voyage = requetes[s].voyage
        /\ requetes'[s].lu = requetes[s].lu /\ requetes'[s].calcul = m
        /\ requetes'[s].avis = requetes[s].avis /\ requetes'[s].note = requetes[s].note
    BY <2>1, TypeRequete DEF Av!Requete
  <2>3. ASSUME s \in propre
        PROVE  Courant(s)'
    <3>1. requetes[s].lu = cibles[c]
      BY <2>3 DEF Exactes, Courants, Courant
    <3>2. Av!Visibles(c)' = Av!Visibles(c) /\ Av!Notes(Av!Visibles(c))' = Av!Notes(Av!Visibles(c))
      BY <2>1 DEF Av!Visibles, Av!Existe, Av!Notes
    <3> QED
      BY <2>1, <2>2, <3>1, <3>2 DEF Courant, Av!Cree, m
  <2> QED
    BY <2>1, <2>3, ExactesLoin
<1>5. ASSUME NEW s \in Session, Av!CreerValider(s)
      PROVE  Exactes'
  <2>0. PICK r, c, i : r = requetes[s] /\ c = Conducteur[r.voyage] /\ i = r.avis
    OBVIOUS
  <2> DEFINE ligne == [auteur |-> r.auteur, voyage |-> r.voyage, note |-> r.note, visible |-> TRUE, signale |-> FALSE]
             N == Av!Notes(Av!Visibles(c))
  <2>1. Av!Cree(s) /\ r.op = "calcule"
    BY <1>5, <2>0 DEF Av!CreerValider, Av!Cree
  <2>2. i \in Avis /\ ~Av!Existe(i) /\ r.voyage \in Voyage /\ r.auteur # Aucun
    BY <2>0, <2>1 DEF AvisNommes, Donnees
  <2>3. c \in Cible /\ cibles[c] \in Av!CibleRow
    BY <2>0, <2>2 DEF Donnees, Av!TypeOK
  <2>4. \A j \in Avis : avis'[j] = IF j = i THEN ligne ELSE avis[j]
    BY <1>5, <2>0, <2>2 DEF Av!CreerValider, Av!TypeOK
  <2>5. /\ ligne.auteur = r.auteur /\ ligne.voyage = r.voyage /\ ligne.note = r.note /\ ligne.visible
        /\ \A t \in Session : t # s => requetes'[t] = requetes[t]
    BY <1>5, <2>0, TypeRequete DEF Av!CreerValider, Av!Finir
  <2> HIDE DEF ligne
  <2>6. \A d : \A j \in Avis : j \in Av!Visibles(d)' <=> j \in Av!Visibles(d) \/ (j = i /\ d = c)
    BY <2>0, <2>2, <2>4, <2>5 DEF Av!Visibles, Av!Existe
  <2>7. \A d : i \notin Av!Visibles(d)
    BY <2>2 DEF Av!Visibles
  <2>8. ASSUME NEW d, d # c
        PROVE  Av!Visibles(d)' = Av!Visibles(d) /\ Av!Notes(Av!Visibles(d))' = Av!Notes(Av!Visibles(d))
    <3>1. \A j \in Avis : /\ j \in Av!Visibles(d)' <=> j \in Av!Visibles(d)
                          /\ j \in Av!Visibles(d) => avis'[j].note = avis[j].note
      BY <2>4, <2>6, <2>7, <2>8
    <3> QED
      BY <3>1, MemesNotes
  <2>9. Av!Notes(Av!Visibles(c))' = N \cup {<<i, r.note>>}
    <3>1. Av!Visibles(c)' = Av!Visibles(c) \cup {i}
      BY <2>2, <2>6 DEF Av!Visibles
    <3>2. Av!Notes(Av!Visibles(c))' = {<<j, avis'[j].note>> : j \in Av!Visibles(c)'}
      BY DEF Av!Notes
    <3>3. N = {<<j, avis[j].note>> : j \in Av!Visibles(c)}
      BY DEF Av!Notes
    <3>4. avis'[i].note = r.note /\ \A j \in Av!Visibles(c) : avis'[j].note = avis[j].note
      BY <2>2, <2>4, <2>5, <2>7 DEF Av!Visibles
    <3> HIDE DEF N
    <3> QED
      BY <3>1, <3>2, <3>3, <3>4
  <2>10. /\ cibles' = [cibles EXCEPT
                ![c].moyenne = Av!EcritMoyenne(@, r.lu.moyenne, r.calcul.moyenne),
                ![c].nombre  = Av!Ecrit(@, r.lu.nombre, r.calcul.nombre)]
         /\ propre' = {t \in propre : Av!Cree(t) /\ Conducteur[requetes[t].voyage] # c}
         /\ aJour' = IF s \in propre THEN aJour \cup {c} ELSE aJour \ {c}
    BY <1>5, <2>0 DEF Av!CreerValider, Av!Salir
  <2>11. ASSUME c \in aJour'
         PROVE  cibles'[c] = Av!Moyenne(Av!Notes(Av!Visibles(c)))'
    <3>1. s \in propre
      BY <2>10, <2>11
    <3>2. Courant(s)
      BY <3>1 DEF Exactes, Courants
    <3>3. r.lu = cibles[c] /\ r.calcul = Av!Moyenne(N \cup {<<i, r.note>>})
      BY <2>0, <2>1, <3>2 DEF Courant
    <3>4. r.calcul \in Av!CibleRow
      BY <2>0, TypeRequete
    <3> HIDE DEF N
    <3>5. cibles'[c] = [moyenne |-> Av!EcritMoyenne(cibles[c].moyenne, r.lu.moyenne, r.calcul.moyenne),
                        nombre  |-> Av!Ecrit(cibles[c].nombre, r.lu.nombre, r.calcul.nombre)]
      BY <2>3, <2>10 DEF Av!TypeOK, Av!CibleRow
    <3>6. /\ Av!EcritMoyenne(cibles[c].moyenne, r.lu.moyenne, r.calcul.moyenne) = r.calcul.moyenne
          /\ Av!Ecrit(cibles[c].nombre, r.lu.nombre, r.calcul.nombre) = r.calcul.nombre
      BY <3>3 DEF Av!EcritMoyenne, Av!Ecrit
    <3>7. cibles'[c] = r.calcul
      BY <3>4, <3>5, <3>6 DEF Av!CibleRow
    <3> QED
      BY <2>9, <3>3, <3>7
  <2>12. \A d \in Cible : d # c => cibles'[d] = cibles[d]
    BY <2>10 DEF Av!TypeOK
  <2>13. \A t \in propre : t \in Session /\ Conducteur[requetes[t].voyage] \in Cible
    BY DEF Av!TypeOK, Exactes, Courants, Courant, AvisNommes, Donnees
  <2>14. propre' \subseteq {t \in propre : t # s /\ Conducteur[requetes[t].voyage] # c}
    BY <2>0, <2>10
  <2>15. \A d \in aJour' : d = c \/ d \in aJour
    BY <2>10
  <2> HIDE DEF N
  <2> QED
    BY <2>5, <2>8, <2>11, <2>12, <2>13, <2>14, <2>15, ExactesHors
<1>6. ASSUME NEW s \in Session, NEW i \in Avis,
             Av!MasquerAvis(s, i) \/ Av!RestaurerAvis(s, i) \/ Av!SignalerAvis(s, i)
      PROVE  Exactes'
  BY <1>2, <1>6, TypeRequete DEF Av!MasquerAvis, Av!RestaurerAvis, Av!SignalerAvis, Av!ModererLire
<1>7. ASSUME NEW s \in Session, Av!ModererValider(s)
      PROVE  Exactes'
  <2> DEFINE i == requetes[s].avis
             c == Conducteur[avis[i].voyage]
  <2>1. i \in Avis /\ Av!Existe(i) /\ ~Av!Cree(s)
    BY <1>7 DEF Av!ModererValider, AvisNommes, Av!Cree
  <2>2. s \notin propre
    BY <2>1 DEF Exactes, Courants, Courant
  <2>3. /\ \A j \in Avis : /\ avis'[j].auteur = avis[j].auteur /\ avis'[j].voyage = avis[j].voyage
                          /\ avis'[j].note = avis[j].note /\ (j # i => avis'[j] = avis[j])
        /\ cibles' = cibles /\ \A t \in Session : t # s => requetes'[t] = requetes[t]
    <3> DEFINE q == requetes[s]
               v == CASE q.op = "masquer" -> FALSE [] q.op = "restaurer" -> TRUE [] OTHER -> q.visible
               e == CASE q.op = "restaurer" -> FALSE [] q.op = "signaler" -> TRUE [] OTHER -> q.signale
               b == Av!Ecrit(avis[i].visible, q.visible, v)
               d == Av!Ecrit(avis[i].signale, q.signale, e)
    <3>1. avis' = [avis EXCEPT ![i].visible = b, ![i].signale = d] /\ Av!Finir(s) /\ cibles' = cibles
      BY <1>7 DEF Av!ModererValider
    <3> HIDE DEF b, d
    <3>2. avis \in [Avis -> Av!AvisRow]
      BY DEF Av!TypeOK
    <3> HIDE DEF i, q
    <3> QED
      BY <2>1, <3>1, <3>2, TypeRequete DEF Av!Finir, Av!AvisRow
  <2>4. ASSUME NEW d, d # c \/ avis'[i].visible = avis[i].visible
        PROVE  Av!Visibles(d)' = Av!Visibles(d) /\ Av!Notes(Av!Visibles(d))' = Av!Notes(Av!Visibles(d))
    <3>1. \A j \in Avis : /\ j \in Av!Visibles(d)' <=> j \in Av!Visibles(d)
                          /\ j \in Av!Visibles(d) => avis'[j].note = avis[j].note
      BY <2>1, <2>3, <2>4 DEF Av!Visibles, Av!Existe
    <3> QED
      BY <3>1, MemesNotes
  <2>5. CASE avis'[i].visible = avis[i].visible
    <3>1. UNCHANGED <<propre, aJour>>
      BY <1>7, <2>5 DEF Av!ModererValider
    <3>2. Av!NoteExacte'
      BY <2>3, <2>4, <2>5, <3>1 DEF Exactes, Av!NoteExacte
    <3>3. ASSUME NEW t \in propre
          PROVE  Courant(t)'
      <4>1. t # s /\ t \in Session /\ requetes'[t] = requetes[t] /\ Courant(t)
        BY <2>2, <2>3, <3>3 DEF Av!TypeOK, Exactes, Courants
      <4> QED
        BY <2>3, <2>4, <2>5, <4>1 DEF Courant, Av!Cree
    <3> QED
      BY <3>1, <3>2, <3>3 DEF Exactes, Courants
  <2>6. CASE avis'[i].visible # avis[i].visible
    <3>1. /\ propre' = {t \in propre : Av!Cree(t) /\ Conducteur[requetes[t].voyage] # c}
          /\ aJour' = aJour \ {c}
      BY <1>7, <2>6 DEF Av!ModererValider, Av!Salir
    <3>2. \A t \in propre : t \in Session /\ Conducteur[requetes[t].voyage] \in Cible
      BY DEF Av!TypeOK, Exactes, Courants, Courant, AvisNommes, Donnees
    <3>3. /\ propre' \subseteq {t \in propre : t # s /\ Conducteur[requetes[t].voyage] # c}
          /\ (\A d \in aJour' : d = c \/ d \in aJour) /\ c \notin aJour'
      BY <2>2, <3>1
    <3> HIDE DEF i, c
    <3> QED
      BY <2>3, <2>4, <3>2, <3>3, ExactesHors
  <2> QED
    BY <2>5, <2>6
<1>8. ASSUME NEW s \in Session, Av!Abandon(s)
      PROVE  Exactes'
  <2>1. /\ UNCHANGED <<avis, cibles, aJour>> /\ propre' = propre \ {s}
        /\ \A t \in Session : t # s => requetes'[t] = requetes[t]
    BY <1>8, TypeRequete DEF Av!Abandon, Av!Finir
  <2> QED
    BY <2>1, ExactesLoin
<1>9. ASSUME NEW s \in Session, NEW u \in Auteur, NEW v \in Voyage, NEW n \in Note, Av!CreateAvis(s, u, v, n)
      PROVE  Exactes'
  BY <1>2, <1>9, TypeRequete DEF Av!CreateAvis
<1>10. CASE UNCHANGED Av!vars \/ \E v \in Voyage : Av!EndVoyage(v)
  BY <1>1, <1>10 DEF Av!vars, Av!EndVoyage
<1> QED
  BY <1>3, <1>4, <1>5, <1>6, <1>7, <1>8, <1>9, <1>10 DEF Av!Next

-----------------------------------------------------------------------------
(* What any request may write *)

\* Only a review that exists is reported.
Vierges == \A i \in Avis : ~Av!Existe(i) => ~avis[i].signale

LEMMA InitVierges == Av!Init => Vierges
  BY DEF Av!Init, Vierges

LEMMA NextVierges == Av!TypeOK /\ AvisNommes /\ Vierges /\ [Av!Next]_(Av!vars) => Vierges'
<1> SUFFICES ASSUME Av!TypeOK, AvisNommes, Vierges, [Av!Next]_(Av!vars)
             PROVE  Vierges'
  OBVIOUS
<1>1. ASSUME UNCHANGED avis
      PROVE  Vierges'
  BY <1>1 DEF Vierges, Av!Existe
<1>2. ASSUME NEW s \in Session, Av!CreerValider(s)
      PROVE  Vierges'
  <2>1. \A j \in Avis : avis'[j].signale => avis'[j] = avis[j]
    BY <1>2 DEF Av!CreerValider, Av!TypeOK
  <2> QED
    BY <2>1 DEF Vierges, Av!Existe
<1>3. ASSUME NEW s \in Session, Av!ModererValider(s)
      PROVE  Vierges'
  <2>0. PICK q, k : q = requetes[s] /\ k = q.avis
    OBVIOUS
  <2> DEFINE v == CASE q.op = "masquer" -> FALSE [] q.op = "restaurer" -> TRUE [] OTHER -> q.visible
             e == CASE q.op = "restaurer" -> FALSE [] q.op = "signaler" -> TRUE [] OTHER -> q.signale
             b == Av!Ecrit(avis[k].visible, q.visible, v)
             d == Av!Ecrit(avis[k].signale, q.signale, e)
  <2>1. avis' = [avis EXCEPT ![k].visible = b, ![k].signale = d] /\ q.op \in {"masquer", "restaurer", "signaler"}
    BY <1>3, <2>0 DEF Av!ModererValider
  <2>2. k \in Avis /\ Av!Existe(k) /\ avis \in [Avis -> Av!AvisRow]
    BY <2>0, <2>1 DEF AvisNommes, Av!TypeOK
  <2> HIDE DEF b, d
  <2>3. \A j \in Avis : avis'[j].auteur = avis[j].auteur /\ (j # k => avis'[j] = avis[j])
    BY <2>1, <2>2 DEF Av!AvisRow
  <2> QED
    BY <2>2, <2>3 DEF Vierges, Av!Existe
<1>4. CASE UNCHANGED Av!vars
  BY <1>1, <1>4 DEF Av!vars
<1> QED
  BY <1>1, <1>2, <1>3, <1>4 DEF Av!Next, Av!EndVoyage, Av!CreateAvis, Av!Inserer, Av!MasquerAvis, Av!RestaurerAvis,
     Av!SignalerAvis, Av!ModererLire, Av!Calculer, Av!Abandon

\* The reviews of a driver, hidden or not.
Lignes(c) == {i \in Avis : Av!Existe(i) /\ Conducteur[avis[i].voyage] = c}

Bornee(c) ==
    /\ cibles[c].nombre <= Cardinality(Lignes(c))
    /\ Lignes(c) = {} => cibles[c] = Av!Vide
    /\ Lignes(c) # {} => cibles[c].nombre > 0 /\ cibles[c].moyenne \in 100..500

\* What a request x on a driver with the reviews L will write, should it change
\* the columns it has read.
CalculPlausible(x, L) ==
    /\ L = {} => x.lu = Av!Vide
    /\ x.op = "calcule" => /\ x.calcul.nombre \in 1..(Cardinality(L) + 1)
                           /\ x.calcul.moyenne \in 100..500

Plausible(s, c) ==
    Av!Cree(s) /\ Conducteur[requetes[s].voyage] = c => CalculPlausible(requetes[s], Lignes(c))

Bornes == (\A c \in Cible : Bornee(c)) /\ (\A s \in Session, c \in Cible : Plausible(s, c))

LEMMA LignesFinies ==
    ASSUME Donnees
    PROVE  \A c : /\ IsFiniteSet(Lignes(c)) /\ Cardinality(Lignes(c)) \in Nat
                  /\ Cardinality(Lignes(c)) = 0 <=> Lignes(c) = {}
<1> SUFFICES ASSUME NEW c
             PROVE  /\ IsFiniteSet(Lignes(c)) /\ Cardinality(Lignes(c)) \in Nat
                    /\ Cardinality(Lignes(c)) = 0 <=> Lignes(c) = {}
  OBVIOUS
<1>1. Lignes(c) \in SUBSET Avis
  BY DEF Lignes
<1>2. IsFiniteSet(Lignes(c))
  BY <1>1, FS_Subset DEF Donnees
<1> QED
  BY <1>2, FS_CardinalityType, FS_EmptySet

\* A request that has not moved, with the rows of the driver as they were.
LEMMA PlausibleReste ==
    ASSUME NEW t, NEW c, Plausible(t, c), requetes'[t] = requetes[t], Lignes(c)' = Lignes(c)
    PROVE  Plausible(t, c)'
  BY DEF Plausible, Av!Cree

\* A request that is not about to commit a review, with the tables as they were.
LEMMA BornesLoin ==
    ASSUME Bornes, NEW s \in Session, \A c : Lignes(c)' = Lignes(c), cibles' = cibles,
           \A t \in Session : t # s => requetes'[t] = requetes[t],
           \A c \in Cible : Plausible(s, c)'
    PROVE  Bornes'
<1>1. \A c \in Cible : Bornee(c)'
  BY DEF Bornes, Bornee
<1>2. ASSUME NEW t \in Session, t # s, NEW c \in Cible
      PROVE  Plausible(t, c)'
  <2>1. requetes'[t] = requetes[t] /\ Plausible(t, c) /\ Lignes(c)' = Lignes(c)
    BY <1>2 DEF Bornes
  <2> QED
    BY <2>1, PlausibleReste
<1> QED
  BY <1>1, <1>2 DEF Bornes

LEMMA InitBornes == Donnees /\ Av!Init => Bornes
<1> SUFFICES ASSUME Donnees, Av!Init
             PROVE  Bornes
  OBVIOUS
<1>1. ASSUME NEW c \in Cible
      PROVE  Bornee(c)
  <2>1. Lignes(c) = {} /\ cibles[c] = Av!Vide
    BY DEF Av!Init, Lignes, Av!Existe
  <2> QED
    BY <2>1, FS_EmptySet DEF Bornee, Av!Vide
<1>2. \A s \in Session, c \in Cible : Plausible(s, c)
  BY LibreRequete DEF Av!Init, Plausible, Av!Cree
<1> QED
  BY <1>1, <1>2 DEF Bornes

LEMMA NextBornes ==
    Donnees /\ Av!TypeOK /\ AvisNommes /\ Bornes /\ [Av!Next]_(Av!vars) => Bornes'
<1> SUFFICES ASSUME Donnees, Av!TypeOK, AvisNommes, Bornes, [Av!Next]_(Av!vars)
             PROVE  Bornes'
  OBVIOUS
<1>1. ASSUME UNCHANGED <<avis, cibles, requetes>>
      PROVE  Bornes'
  <2>1. \A c : Lignes(c)' = Lignes(c)
    BY <1>1 DEF Lignes, Av!Existe
  <2>2. \A c \in Cible : Bornee(c)'
    BY <1>1, <2>1 DEF Bornes, Bornee
  <2>3. ASSUME NEW s \in Session, NEW c \in Cible
        PROVE  Plausible(s, c)'
    <3>1. Plausible(s, c) /\ requetes'[s] = requetes[s] /\ Lignes(c)' = Lignes(c)
      BY <1>1, <2>1 DEF Bornes
    <3> QED
      BY <3>1, PlausibleReste
  <2> QED
    BY <2>2, <2>3 DEF Bornes
<1>2. ASSUME UNCHANGED avis
      PROVE  \A c : Lignes(c)' = Lignes(c)
  BY <1>2 DEF Lignes, Av!Existe
<1>3. ASSUME NEW s \in Session, UNCHANGED cibles, \A c : Lignes(c)' = Lignes(c),
             \A t \in Session : t # s => requetes'[t] = requetes[t],
             requetes'[s].op \notin {"insere", "calcule"}
      PROVE  Bornes'
  <2>1. \A c \in Cible : Plausible(s, c)'
    BY <1>3 DEF Plausible, Av!Cree
  <2> QED
    BY <1>3, <2>1, BornesLoin
<1>4. ASSUME NEW s \in Session, NEW i \in Avis, Av!Inserer(s, i)
      PROVE  Bornes'
  <2>0. PICK c : c = Conducteur[requetes[s].voyage]
    OBVIOUS
  <2>1. /\ UNCHANGED <<avis, cibles>> /\ requetes[s].op = "lu"
        /\ \A t \in Session : t # s => requetes'[t] = requetes[t]
        /\ requetes'[s] = [requetes[s] EXCEPT !.op = "insere", !.avis = i, !.lu = cibles[c]]
    BY <1>4, <2>0, TypeRequete DEF Av!Inserer
  <2>2. requetes'[s].op = "insere" /\ Conducteur[requetes'[s].voyage] = c /\ requetes'[s].lu = cibles[c]
    BY <2>0, <2>1, TypeRequete DEF Av!Requete
  <2>3. c \in Cible
    BY <2>0, <2>1 DEF AvisNommes, Donnees
  <2>4. \A d : Lignes(d)' = Lignes(d)
    BY <1>2, <2>1
  <2>5. Bornee(c)
    BY <2>3 DEF Bornes
  <2>6. CalculPlausible(requetes'[s], Lignes(c)')
    BY <2>2, <2>4, <2>5 DEF CalculPlausible, Bornee
  <2>7. \A d \in Cible : Plausible(s, d)'
    BY <2>2, <2>6 DEF Plausible
  <2> QED
    BY <2>1, <2>4, <2>7, BornesLoin
<1>5. ASSUME NEW s \in Session, Av!Calculer(s)
      PROVE  Bornes'
  <2>0. PICK c, x : c = Conducteur[requetes[s].voyage] /\ x = <<requetes[s].avis, requetes[s].note>>
    OBVIOUS
  <2> DEFINE V == Av!Visibles(c)
             N == Av!Notes(V)
             S == N \cup {x}
             m == Av!Moyenne(S)
  <2>1. /\ UNCHANGED <<avis, cibles>> /\ requetes[s].op = "insere"
        /\ \A t \in Session : t # s => requetes'[t] = requetes[t]
        /\ requetes'[s] = [requetes[s] EXCEPT !.op = "calcule", !.calcul = m]
    BY <1>5, <2>0, TypeRequete DEF Av!Calculer
  <2>2. x[2] \in 1..5
    BY <2>0, TypeRequete
  <2>3. /\ V \in SUBSET Avis /\ IsFiniteSet(V) /\ IsFiniteSet(N) /\ Cardinality(N) <= Cardinality(V)
        /\ \A y \in N : y[2] \in 1..5
    BY NotesFinies
  <2>4. V \in SUBSET Lignes(c)
    BY DEF Av!Visibles, Lignes
  <2> HIDE DEF V, N
  <2>5. Cardinality(V) <= Cardinality(Lignes(c)) /\ Cardinality(Lignes(c)) \in Nat
    BY <2>4, LignesFinies, FS_Subset
  <2>6. IsFiniteSet(S) /\ Cardinality(S) <= Cardinality(N) + 1 /\ Cardinality(N) \in Nat
    <3>1. Cardinality(N) \in Nat /\ IsFiniteSet(N)
      BY <2>3, FS_CardinalityType
    <3>2. /\ IsFiniteSet(N \cup {x})
          /\ Cardinality(N \cup {x}) = IF x \in N THEN Cardinality(N) ELSE Cardinality(N) + 1
      BY <3>1, FS_AddElement
    <3> QED
      BY <3>1, <3>2
  <2>7. S # {} /\ \A y \in S : y[2] \in 1..5
    BY <2>2, <2>3
  <2> HIDE DEF S
  <2>8. /\ m.nombre = Cardinality(S) /\ Cardinality(S) \in Nat /\ Cardinality(S) > 0
        /\ m.moyenne \in 100..500
    BY <2>6, <2>7, MoyenneBornee
  <2> HIDE DEF m
  <2>9. m.nombre \in 1..(Cardinality(Lignes(c)) + 1)
    <3>1. Cardinality(V) \in Nat
      BY <2>3, FS_CardinalityType
    <3> QED
      BY <2>3, <2>5, <2>6, <2>8, <3>1
  <2>10. /\ requetes'[s].op = "calcule" /\ Conducteur[requetes'[s].voyage] = c
         /\ requetes'[s].lu = requetes[s].lu /\ requetes'[s].calcul = m
    BY <2>0, <2>1, TypeRequete DEF Av!Requete
  <2>11. \A d : Lignes(d)' = Lignes(d)
    BY <1>2, <2>1
  <2>12. Lignes(c) = {} => requetes[s].lu = Av!Vide
    <3>1. c \in Cible /\ Av!Cree(s)
      BY <2>0, <2>1 DEF AvisNommes, Donnees, Av!Cree
    <3> QED
      BY <2>0, <3>1 DEF Bornes, Plausible, CalculPlausible
  <2>13. CalculPlausible(requetes'[s], Lignes(c)')
    BY <2>8, <2>9, <2>10, <2>11, <2>12 DEF CalculPlausible
  <2>14. \A d \in Cible : Plausible(s, d)'
    BY <2>10, <2>13 DEF Plausible
  <2> QED
    BY <2>1, <2>11, <2>14, BornesLoin
<1>6. ASSUME NEW s \in Session, Av!CreerValider(s)
      PROVE  Bornes'
  <2>0. PICK r, c, i : r = requetes[s] /\ c = Conducteur[r.voyage] /\ i = r.avis
    OBVIOUS
  <2>1. Av!Cree(s) /\ r.op = "calcule"
    BY <1>6, <2>0 DEF Av!CreerValider, Av!Cree
  <2>2. i \in Avis /\ ~Av!Existe(i) /\ r.voyage \in Voyage /\ r.auteur # Aucun
    BY <2>0, <2>1 DEF AvisNommes, Donnees
  <2>3. c \in Cible /\ cibles[c] \in Av!CibleRow
    BY <2>0, <2>2 DEF Donnees, Av!TypeOK
  <2>4. \A j \in Avis : IF j = i THEN avis'[j].auteur = r.auteur /\ avis'[j].voyage = r.voyage
                        ELSE avis'[j] = avis[j]
    BY <1>6, <2>0, <2>2 DEF Av!CreerValider, Av!TypeOK
  <2>5. /\ \A t \in Session : t # s => requetes'[t] = requetes[t]
        /\ requetes'[s] = Av!Libre
    BY <1>6, TypeRequete DEF Av!CreerValider, Av!Finir
  <2>6. /\ i \notin Lignes(c) /\ Lignes(c)' = Lignes(c) \cup {i}
        /\ \A d : d # c => Lignes(d)' = Lignes(d)
    BY <2>0, <2>2, <2>4 DEF Lignes, Av!Existe
  <2>7. /\ IsFiniteSet(Lignes(c)) /\ Cardinality(Lignes(c)) \in Nat
        /\ Cardinality(Lignes(c)) = 0 <=> Lignes(c) = {}
    BY LignesFinies
  <2>8. Cardinality(Lignes(c)') = Cardinality(Lignes(c)) + 1
    <3>1. PICK L : L = Lignes(c)
      OBVIOUS
    <3>2. IsFiniteSet(L) /\ i \notin L
      BY <2>6, <2>7, <3>1
    <3>3. Cardinality(L \cup {i}) = Cardinality(L) + 1
      BY ONLY <3>2, FS_AddElement
    <3>4. Lignes(c)' = L \cup {i}
      BY <2>6, <3>1
    <3> QED
      BY ONLY <3>1, <3>3, <3>4
  <2>9. /\ Lignes(c) = {} => r.lu = Av!Vide
        /\ r.calcul.nombre \in 1..(Cardinality(Lignes(c)) + 1) /\ r.calcul.moyenne \in 100..500
    BY <2>0, <2>1, <2>3 DEF Bornes, Plausible, CalculPlausible
  <2>10. Bornee(c)
    BY <2>3 DEF Bornes
  <2>11. /\ cibles'[c].moyenne = Av!EcritMoyenne(cibles[c].moyenne, r.lu.moyenne, r.calcul.moyenne)
         /\ cibles'[c].nombre  = Av!Ecrit(cibles[c].nombre, r.lu.nombre, r.calcul.nombre)
         /\ \A d \in Cible : d # c => cibles'[d] = cibles[d]
    <3>1. cibles' = [cibles EXCEPT
                ![c].moyenne = Av!EcritMoyenne(@, r.lu.moyenne, r.calcul.moyenne),
                ![c].nombre  = Av!Ecrit(@, r.lu.nombre, r.calcul.nombre)]
      BY <1>6, <2>0 DEF Av!CreerValider
    <3> QED
      BY <2>3, <3>1 DEF Av!TypeOK, Av!CibleRow
  <2>12. cibles'[c].moyenne \in 100..500
    <3>1. cibles'[c].moyenne = r.calcul.moyenne
          \/ (cibles'[c].moyenne = cibles[c].moyenne /\ r.lu.moyenne = r.calcul.moyenne)
      BY <2>11 DEF Av!EcritMoyenne, Av!Ecrit
    <3>2. r.lu.moyenne = r.calcul.moyenne => Lignes(c) # {}
      BY <2>9 DEF Av!Vide
    <3> QED
      BY <2>9, <2>10, <3>1, <3>2 DEF Bornee
  <2>13. cibles'[c].nombre > 0 /\ cibles'[c].nombre <= Cardinality(Lignes(c)) + 1
    <3>1. cibles'[c].nombre = r.calcul.nombre
          \/ (cibles'[c].nombre = cibles[c].nombre /\ r.lu.nombre = r.calcul.nombre)
      BY <2>11 DEF Av!Ecrit
    <3>2. r.lu.nombre = r.calcul.nombre => Lignes(c) # {}
      BY <2>7, <2>9 DEF Av!Vide
    <3>3. cibles[c].nombre \in Nat
      BY <2>3 DEF Av!CibleRow
    <3> QED
      BY <2>7, <2>9, <2>10, <3>1, <3>2, <3>3 DEF Bornee
  <2>14. \A d \in Cible : Bornee(d)'
    <3>1. Bornee(c)'
      BY <2>6, <2>8, <2>12, <2>13 DEF Bornee
    <3>2. ASSUME NEW d \in Cible, d # c
          PROVE  Bornee(d)'
      <4>1. Lignes(d)' = Lignes(d) /\ cibles'[d] = cibles[d] /\ Bornee(d)
        BY <2>6, <2>11, <3>2 DEF Bornes
      <4> QED
        BY <4>1 DEF Bornee
    <3> QED
      BY <3>1, <3>2
  <2>15. ASSUME NEW t \in Session, NEW d \in Cible
         PROVE  Plausible(t, d)'
    <3>1. CASE t = s
      BY <2>5, <3>1, LibreRequete DEF Plausible, Av!Cree
    <3>2. CASE t # s
      <4>1. requetes'[t] = requetes[t] /\ Plausible(t, d)
        BY <2>5, <3>2 DEF Bornes
      <4>2. CASE d = c
        <5>1. PICK x, K, L : x = requetes[t] /\ K = Lignes(c) /\ L = Lignes(c)'
          OBVIOUS
        <5>2. L # {} /\ \A k \in 1..(Cardinality(K) + 1) : k \in 1..(Cardinality(L) + 1)
          BY <2>6, <2>7, <2>8, <5>1
        <5>3. CalculPlausible(x, K) => CalculPlausible(x, L)
          BY ONLY <5>2 DEF CalculPlausible
        <5> QED
          BY <4>1, <4>2, <5>1, <5>3 DEF Plausible, Av!Cree
      <4>3. CASE d # c
        BY <2>6, <4>1, <4>3, PlausibleReste
      <4> QED
        BY <4>2, <4>3
    <3> QED
      BY <3>1, <3>2
  <2> QED
    BY <2>14, <2>15 DEF Bornes
<1>7. ASSUME NEW s \in Session, Av!ModererValider(s)
      PROVE  Bornes'
  <2> DEFINE i == requetes[s].avis
  <2>1. i \in Avis
    BY <1>7 DEF Av!ModererValider, AvisNommes
  <2>2. /\ \A j \in Avis : avis'[j].auteur = avis[j].auteur /\ avis'[j].voyage = avis[j].voyage
        /\ cibles' = cibles /\ requetes' = [requetes EXCEPT ![s] = Av!Libre]
    <3> DEFINE q == requetes[s]
               v == CASE q.op = "masquer" -> FALSE [] q.op = "restaurer" -> TRUE [] OTHER -> q.visible
               e == CASE q.op = "restaurer" -> FALSE [] q.op = "signaler" -> TRUE [] OTHER -> q.signale
               b == Av!Ecrit(avis[i].visible, q.visible, v)
               d == Av!Ecrit(avis[i].signale, q.signale, e)
    <3>1. avis' = [avis EXCEPT ![i].visible = b, ![i].signale = d] /\ Av!Finir(s) /\ cibles' = cibles
      BY <1>7 DEF Av!ModererValider
    <3> HIDE DEF b, d
    <3>2. avis \in [Avis -> Av!AvisRow]
      BY DEF Av!TypeOK
    <3> HIDE DEF i, q
    <3> QED
      BY <2>1, <3>1, <3>2 DEF Av!Finir, Av!AvisRow
  <2>3. \A c : Lignes(c)' = Lignes(c)
    BY <2>2 DEF Lignes, Av!Existe
  <2>4. requetes'[s] = Av!Libre /\ \A t \in Session : t # s => requetes'[t] = requetes[t]
    BY <2>2, TypeRequete
  <2> QED
    BY <1>3, <2>2, <2>3, <2>4, LibreRequete
<1>8. ASSUME NEW s \in Session, Av!Abandon(s)
      PROVE  Bornes'
  <2>1. UNCHANGED <<avis, cibles>> /\ requetes'[s] = Av!Libre
        /\ \A t \in Session : t # s => requetes'[t] = requetes[t]
    BY <1>8, TypeRequete DEF Av!Abandon, Av!Finir
  <2> QED
    BY <1>2, <1>3, <2>1, LibreRequete
<1>9. ASSUME NEW s \in Session, NEW u \in Auteur, NEW v \in Voyage, NEW n \in Note, Av!CreateAvis(s, u, v, n)
      PROVE  Bornes'
  <2>1. /\ UNCHANGED <<avis, cibles>> /\ \A t \in Session : t # s => requetes'[t] = requetes[t]
        /\ requetes'[s].op = "lu"
    BY <1>9, TypeRequete DEF Av!CreateAvis, Av!Libre
  <2> QED
    BY <1>2, <1>3, <2>1
<1>10. ASSUME NEW s \in Session, NEW i \in Avis,
              Av!MasquerAvis(s, i) \/ Av!RestaurerAvis(s, i) \/ Av!SignalerAvis(s, i)
       PROVE  Bornes'
  <2>1. PICK op \in {"masquer", "restaurer", "signaler"} : Av!ModererLire(s, i, op)
    BY <1>10 DEF Av!MasquerAvis, Av!RestaurerAvis, Av!SignalerAvis
  <2>2. /\ UNCHANGED <<avis, cibles>> /\ \A t \in Session : t # s => requetes'[t] = requetes[t]
        /\ requetes'[s].op = op
    BY <2>1, TypeRequete DEF Av!ModererLire, Av!Libre
  <2> QED
    BY <1>2, <1>3, <2>1, <2>2
<1>11. CASE UNCHANGED Av!vars \/ \E v \in Voyage : Av!EndVoyage(v)
  BY <1>1, <1>11 DEF Av!vars, Av!EndVoyage
<1> QED
  BY <1>4, <1>5, <1>6, <1>7, <1>8, <1>9, <1>10, <1>11 DEF Av!Next

-----------------------------------------------------------------------------
(* The theorems about the reviews *)

\* The inductive invariant of AvisNotes: the rows in hand of the requests, what a request
\* that nothing overlapped has computed, and what any request may write.
IInvAvis == Av!TypeOK /\ AvisNommes /\ Vierges /\ Exactes /\ Bornes

\* IInvAvis holds at the start and no step of a review or of its moderation breaks it.
THEOREM InductifAvis ==
    ASSUME Donnees
    PROVE  (Av!Init => IInvAvis) /\ (IInvAvis /\ [Av!Next]_(Av!vars) => IInvAvis')
  BY InitAvisType, InitVierges, InitExactes, InitBornes, NextAvisType, NextVierges, NextExactes, NextBornes
     DEF IInvAvis

\* Reviews, columns and requests in progress keep their shape, and a client has one
\* review of a trip, however two of its requests race (routers/avis.py).
THEOREM UnAvisParVoyage == Donnees => (Av!Spec => []Av!TypeOK)
<1> SUFFICES ASSUME Donnees
             PROVE  Av!Spec => []Av!TypeOK
  OBVIOUS
<1>1. IInvAvis => Av!TypeOK
  BY DEF IInvAvis
<1> QED
  BY <1>1, InductifAvis, PTL DEF Av!Spec

\* note_moyenne and nombre_avis are those of the visible reviews after a create_avis
\* that nothing overlapped, until the next moderation.
THEOREM MoyenneExacte == Donnees => (Av!Spec => []Av!NoteExacte)
<1> SUFFICES ASSUME Donnees
             PROVE  Av!Spec => []Av!NoteExacte
  OBVIOUS
<1>1. IInvAvis => Av!NoteExacte
  BY DEF IInvAvis, Exactes
<1> QED
  BY <1>1, InductifAvis, PTL DEF Av!Spec

\* Whatever overlaps, a driver with reviews has a mean between 1 and 5 and at most as many
\* reviews as rows, and a driver without any has none.
THEOREM MoyenneEncadree == Donnees => (Av!Spec => []Av!NoteBornee)
<1> SUFFICES ASSUME Donnees
             PROVE  Av!Spec => []Av!NoteBornee
  OBVIOUS
<1>1. IInvAvis => Av!NoteBornee
  <2> SUFFICES ASSUME IInvAvis, NEW c \in Cible
               PROVE  LET n == Av!Cardinality(Lignes(c)) IN
                      /\ cibles[c].nombre <= n
                      /\ n = 0 => cibles[c] = Av!Vide
                      /\ n > 0 => cibles[c].nombre > 0 /\ cibles[c].moyenne \in 100..500
    BY DEF Av!NoteBornee, Lignes
  <2>1. Bornee(c) /\ Av!Cardinality(Lignes(c)) = Cardinality(Lignes(c))
    BY MemeCardinal DEF IInvAvis, Bornes
  <2> QED
    BY <2>1, LignesFinies DEF Bornee
<1> QED
  BY <1>1, InductifAvis, PTL DEF Av!Spec

\* A report is withdrawn only by a restoration that saw it (routers/admin.py).
THEOREM SignalementEcoute == Donnees => (Av!Spec => Av!SignalementVu)
<1> SUFFICES ASSUME Donnees
             PROVE  Av!Spec => Av!SignalementVu
  OBVIOUS
<1> DEFINE A == \A i \in Avis : avis[i].signale /\ ~avis'[i].signale =>
          \E s \in Session : requetes[s].op = "restaurer" /\ requetes[s].avis = i /\ requetes[s].signale
<1>1. Av!TypeOK /\ AvisNommes /\ Vierges /\ [Av!Next]_(Av!vars) => [A]_(Av!vars)
  <2> SUFFICES ASSUME Av!TypeOK, AvisNommes, Vierges, Av!Next, NEW i \in Avis, avis[i].signale, ~avis'[i].signale
               PROVE  \E s \in Session :
                          requetes[s].op = "restaurer" /\ requetes[s].avis = i /\ requetes[s].signale
    OBVIOUS
  <2>1. ASSUME NEW s \in Session, Av!CreerValider(s)
        PROVE  FALSE
    <3>1. Av!Cree(s)
      BY <2>1 DEF Av!CreerValider, Av!Cree
    <3>2. avis'[i] = avis[i] \/ i = requetes[s].avis
      BY <2>1 DEF Av!CreerValider, Av!TypeOK
    <3>3. ~Av!Existe(requetes[s].avis)
      BY <3>1 DEF AvisNommes
    <3> QED
      BY <3>2, <3>3 DEF Vierges
  <2>2. ASSUME NEW s \in Session, Av!ModererValider(s)
        PROVE  requetes[s].op = "restaurer" /\ requetes[s].avis = i /\ requetes[s].signale
    <3>0. PICK q, k : q = requetes[s] /\ k = q.avis
      OBVIOUS
    <3> DEFINE v == CASE q.op = "masquer" -> FALSE [] q.op = "restaurer" -> TRUE [] OTHER -> q.visible
               e == CASE q.op = "restaurer" -> FALSE [] q.op = "signaler" -> TRUE [] OTHER -> q.signale
               b == Av!Ecrit(avis[k].visible, q.visible, v)
               d == Av!Ecrit(avis[k].signale, q.signale, e)
    <3>1. avis' = [avis EXCEPT ![k].visible = b, ![k].signale = d] /\ q.op \in {"masquer", "restaurer", "signaler"}
      BY <2>2, <3>0 DEF Av!ModererValider
    <3>2. k \in Avis /\ avis \in [Avis -> Av!AvisRow]
      BY <3>0, <3>1 DEF AvisNommes, Av!TypeOK
    <3> HIDE DEF b, d
    <3>3. k = i /\ avis'[i].signale = d
      BY <3>1, <3>2 DEF Av!AvisRow
    <3>4. ~d /\ avis[k].signale /\ q.signale \in BOOLEAN
      BY <3>0, <3>3, TypeRequete
    <3>5. q.signale # e /\ ~e
      <4> HIDE DEF e
      <4> QED
        BY <3>4 DEF d, Av!Ecrit
    <3> QED
      BY <3>0, <3>1, <3>3, <3>4, <3>5
  <2>3. ASSUME UNCHANGED avis
        PROVE  FALSE
    BY <2>3
  <2> QED
    BY <2>1, <2>2, <2>3 DEF Av!Next, Av!EndVoyage, Av!CreateAvis, Av!Inserer, Av!MasquerAvis, Av!RestaurerAvis,
       Av!SignalerAvis, Av!ModererLire, Av!Calculer, Av!Abandon
<1>2. Av!SignalementVu <=> [][A]_(Av!vars)
  BY DEF Av!SignalementVu
<1>3. IInvAvis => Av!TypeOK /\ AvisNommes /\ Vierges
  BY DEF IInvAvis
<1> QED
  BY <1>1, <1>2, <1>3, InductifAvis, PTL DEF Av!Spec

=============================================================================
