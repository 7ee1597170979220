----------------------------- MODULE TarifsProofs ---------------------------
(***************************************************************************)
(* Theorems about Tarifs: the fares stay attached to their towns, a route  *)
(* has one fare, its prices agree unless two updates overlapped, and a     *)
(* trip is published under the cap that its request read.                  *)
(***************************************************************************)
EXTENDS Tarifs, TLAPS

\* A fare that exists has its columns.
Complets == \A t \in Tarif : Tarife(t) => /\ tarifs[t].de \in Ville /\ tarifs[t].a \in Ville
                                          /\ tarifs[t].recommande \in Prix /\ tarifs[t].max \in Prix

NomsUniques   == \A x, y \in Ville : Existe(x) /\ villes[x] = villes[y] => x = y
RoutesUniques == \A t, u \in Tarif :
    Tarife(t) /\ tarifs[t].de = tarifs[u].de /\ tarifs[t].a = tarifs[u].a => t = u

\* An update in progress names a fare and fields of it; if what it read still
\* holds, what it is going to write is coherent.
Lectures ==
    \A s \in Session :
        /\ session[s].op = "update_tarif" => session[s].cible \in Tarif /\ session[s].champs \in Champs
        /\ session[s].op = "create_voyage" => session[s].cible \in Voyage
        /\ session[s].op = "update_tarif" /\ s \in frais =>
               Coherent(Avec(tarifs[session[s].cible], session[s].champs))

IInv ==
    /\ TypeOK /\ Complets /\ NomsUniques /\ RoutesUniques
    /\ Rattaches /\ Lectures /\ PrixCoherents

\* A change of fields leaves the towns of a fare.
LEMMA AvecTarif ==
    ASSUME NEW tarif \in TarifRow, NEW champs \in Champs
    PROVE  /\ Avec(tarif, champs) \in TarifRow
           /\ Avec(tarif, champs).de = tarif.de /\ Avec(tarif, champs).a = tarif.a
           /\ tarif.recommande \in Prix => Avec(tarif, champs).recommande \in Prix
           /\ tarif.max \in Prix => Avec(tarif, champs).max \in Prix
<1>1. DOMAIN tarif = {"de", "a", "recommande", "max", "actif"}
  BY DEF TarifRow
<1>2. CASE \E p \in Prix : champs = [recommande |-> p]
  <2>1. PICK p \in Prix : champs = [recommande |-> p]
    BY <1>2
  <2>2. DOMAIN champs = {"recommande"} /\ champs["recommande"] = p
    BY <2>1
  <2>3. Avec(tarif, champs) = [tarif EXCEPT !.recommande = p]
    BY <1>1, <2>2 DEF Avec, TarifRow
  <2> QED
    BY <2>3 DEF TarifRow
<1>3. CASE \E p \in Prix : champs = [max |-> p]
  <2>1. PICK p \in Prix : champs = [max |-> p]
    BY <1>3
  <2>2. DOMAIN champs = {"max"} /\ champs["max"] = p
    BY <2>1
  <2>3. Avec(tarif, champs) = [tarif EXCEPT !.max = p]
    BY <1>1, <2>2 DEF Avec, TarifRow
  <2> QED
    BY <2>3 DEF TarifRow
<1>4. CASE \E b \in BOOLEAN : champs = [actif |-> b]
  <2>1. PICK b \in BOOLEAN : champs = [actif |-> b]
    BY <1>4
  <2>2. DOMAIN champs = {"actif"} /\ champs["actif"] = b
    BY <2>1
  <2>3. Avec(tarif, champs) = [tarif EXCEPT !.actif = b]
    BY <1>1, <2>2 DEF Avec, TarifRow
  <2> QED
    BY <2>3 DEF TarifRow
<1> QED
  BY <1>2, <1>3, <1>4 DEF Champs

LEMMA SansTarifOK == SansTarif \in TarifRow /\ SansTarif.de = Aucun
  BY DEF SansTarif, TarifRow

LEMMA LibreRequete == Libre \in Requete /\ Libre.op = "libre"
  BY DEF Libre, Requete, Operation, SansVoyage, VoyageRow

LEMMA InitOK == Init => IInv
<1> SUFFICES ASSUME Init
             PROVE  IInv
  OBVIOUS
<1> USE AucunAssumption, SansTarifOK, LibreRequete DEF Init
<1>1. TypeOK
  BY DEF TypeOK, SansVoyage, VoyageRow
<1>2. Complets /\ RoutesUniques /\ Rattaches /\ PrixCoherents
  BY DEF Complets, RoutesUniques, Rattaches, PrixCoherents, Tarife
<1>3. NomsUniques /\ Lectures
  BY DEF NomsUniques, Lectures, Existe
<1> QED
  BY <1>1, <1>2, <1>3 DEF IInv

-----------------------------------------------------------------------------
(* Requests that start or end without writing a fare *)

LEMMA DebuterOK ==
    ASSUME IInv, NEW s \in Session, NEW r \in Requete, Debuter(s, r),
           r.op = "update_tarif" => /\ r.cible \in Tarif /\ r.champs \in Champs
                                    /\ Coherent(Avec(tarifs[r.cible], r.champs)),
           r.op = "create_voyage" => r.cible \in Voyage
    PROVE  IInv'
<1> USE DEF IInv, TypeOK, Debuter
<1>1. \A u \in Session : session'[u] = IF u = s THEN r ELSE session[u]
  OBVIOUS
<1>2. TypeOK'
  OBVIOUS
<1>3. Complets' /\ NomsUniques' /\ RoutesUniques' /\ Rattaches' /\ PrixCoherents'
  BY DEF Complets, NomsUniques, RoutesUniques, Rattaches, PrixCoherents, Existe, Tarife
<1>4. Lectures'
  BY <1>1 DEF Lectures
<1> QED
  BY <1>2, <1>3, <1>4

LEMMA UpdateTarifOK ==
    ASSUME IInv, NEW s \in Session, NEW t \in Tarif, NEW champs \in Champs, UpdateTarif(s, t, champs)
    PROVE  IInv'
<1> DEFINE r == [Libre EXCEPT !.op = "update_tarif", !.cible = t, !.champs = champs]
<1>1. r \in Requete /\ r.op = "update_tarif" /\ r.cible = t /\ r.champs = champs
  BY LibreRequete DEF Libre, Requete, Operation
<1>2. Debuter(s, r) /\ Coherent(Avec(tarifs[t], champs))
  BY DEF UpdateTarif
<1> HIDE DEF r
<1> QED
  BY <1>1, <1>2, DebuterOK

LEMMA CreateVoyageOK ==
    ASSUME IInv, NEW s \in Session, NEW v \in Voyage, NEW de \in Nom, NEW a \in Nom, NEW p \in Prix,
           CreateVoyage(s, v, de, a, p)
    PROVE  IInv'
<1> DEFINE r == [Libre EXCEPT !.op = "create_voyage", !.cible = v,
                              !.voyage = [de |-> de, a |-> a, prix |-> p]]
<1>1. r \in Requete /\ r.op = "create_voyage" /\ r.cible = v
  BY LibreRequete DEF Libre, Requete, Operation, VoyageRow
<1>2. Debuter(s, r)
  BY DEF CreateVoyage
<1> HIDE DEF r
<1> QED
  BY <1>1, <1>2, DebuterOK

\* The steps that change neither towns nor fares, and free a request at most.
Ailleurs ==
    \/ \E s \in Session : Abandon(s) \/ CreateVoyageValider(s)
    \/ \E g \in Gare : DeleteGare(g) \/ \E x \in Ville : CreateGare(g, x)
    \/ \E v \in Voyage, p \in Prix : UpdateVoyage(v, p)
    \/ UNCHANGED vars

LEMMA AilleursOK ==
    ASSUME IInv, Ailleurs
    PROVE  IInv'
<1> USE DEF IInv, TypeOK
<1>1. UNCHANGED <<villes, tarifs, melanges>> /\ frais' \subseteq frais
  BY DEF Ailleurs, Abandon, CreateVoyageValider, DeleteGare, CreateGare, UpdateVoyage, vars
<1>2. session' \in [Session -> Requete] /\ \A u \in Session : session'[u] \in {Libre, session[u]}
  BY LibreRequete DEF Ailleurs, Abandon, CreateVoyageValider, DeleteGare, CreateGare, UpdateVoyage, vars, Finir
<1>3. gares' \in [Gare -> Ville \cup {Aucun}] /\ \A g \in Gare : gares'[g] # Aucun => Existe(gares'[g])
  <2> USE DEF Rattaches
  <2>1. CASE UNCHANGED gares
    BY <2>1
  <2>2. CASE \E g \in Gare : DeleteGare(g) \/ \E x \in Ville : CreateGare(g, x)
    BY <2>2 DEF DeleteGare, CreateGare
  <2> QED
    BY <2>1, <2>2 DEF Ailleurs, Abandon, CreateVoyageValider, UpdateVoyage, vars
<1>4. voyages' \in [Voyage -> VoyageRow]
  <2>1. CASE UNCHANGED voyages
    BY <2>1
  <2>2. CASE \E s \in Session : CreateVoyageValider(s)
    BY <2>2 DEF CreateVoyageValider, Requete
  <2>3. CASE \E v \in Voyage, p \in Prix : UpdateVoyage(v, p)
    BY <2>3 DEF UpdateVoyage, VoyageRow
  <2> QED
    BY <2>1, <2>2, <2>3 DEF Ailleurs, Abandon, DeleteGare, CreateGare, vars
<1>5. TypeOK'
  BY <1>1, <1>2, <1>3, <1>4
<1>6. Complets' /\ NomsUniques' /\ RoutesUniques' /\ PrixCoherents'
  BY <1>1 DEF Complets, NomsUniques, RoutesUniques, PrixCoherents, Existe, Tarife
<1>7. Rattaches'
  BY <1>1, <1>3 DEF Rattaches, Existe, Tarife
<1>8. Lectures'
  BY <1>1, <1>2, LibreRequete DEF Lectures
<1> QED
  BY <1>5, <1>6, <1>7, <1>8

-----------------------------------------------------------------------------
(* Writes of towns and fares *)

\* A step that changes the fares in touches only, and those that read them.
LEMMA LecturesGardees ==
    ASSUME IInv, NEW touches \in SUBSET Tarif, NEW autres \in SUBSET Session,
           \A t \in Tarif \ touches : tarifs'[t] = tarifs[t],
           frais' = frais \ (autres \cup Perimes(touches)),
           \A s \in Session : session'[s] \in {Libre, session[s]}
    PROVE  Lectures'
<1> SUFFICES ASSUME NEW s \in Session
             PROVE  /\ session'[s].op = "update_tarif" =>
                           session'[s].cible \in Tarif /\ session'[s].champs \in Champs
                    /\ session'[s].op = "create_voyage" => session'[s].cible \in Voyage
                    /\ session'[s].op = "update_tarif" /\ s \in frais' =>
                           Coherent(Avec(tarifs'[session'[s].cible], session'[s].champs))
  BY DEF Lectures, Coherent, Avec
<1>1. CASE session'[s] = Libre
  BY <1>1, LibreRequete
<1>2. CASE session'[s] = session[s]
  <2>1. session[s].op = "update_tarif" /\ s \in frais' =>
            s \in frais /\ session[s].cible \in Tarif \ touches
    BY DEF Perimes, IInv, Lectures
  <2> QED
    BY <1>2, <2>1 DEF IInv, Lectures
<1> QED
  BY <1>1, <1>2

LEMMA NommerOK ==
    ASSUME IInv, NEW x \in Ville, NEW n \in Nom, CreateVille(x, n) \/ UpdateVille(x, n)
    PROVE  IInv'
<1> USE DEF IInv, TypeOK
<1>1. /\ villes' = [villes EXCEPT ![x] = n]
      /\ \A y \in Ville : y # x => villes[y] # n
      /\ frais' = frais \ Perimes({})
      /\ UNCHANGED <<gares, tarifs, voyages, session, melanges>>
  BY DEF CreateVille, UpdateVille, NomLibre, Existe
<1>2. TypeOK'
  BY <1>1
<1>3. \A y \in Ville : Existe(y) => villes'[y] # Aucun
  BY <1>1, AucunAssumption DEF Existe
<1>4. Complets' /\ RoutesUniques' /\ PrixCoherents'
  BY <1>1 DEF Complets, RoutesUniques, PrixCoherents, Tarife
<1>5. Rattaches'
  BY <1>1, <1>3 DEF Rattaches, Complets, Existe, Tarife
<1>6. NomsUniques'
  BY <1>1 DEF NomsUniques, Existe
<1>7. Lectures'
  <2>1. \A t \in Tarif \ {} : tarifs'[t] = tarifs[t]
    BY <1>1
  <2>2. \A s \in Session : session'[s] \in {Libre, session[s]}
    BY <1>1
  <2>3. frais' = frais \ ({} \cup Perimes({})) /\ {} \in SUBSET Session /\ {} \in SUBSET Tarif
    BY <1>1
  <2> HIDE DEF IInv, TypeOK
  <2> QED
    BY <2>1, <2>2, <2>3, LecturesGardees
<1> QED
  BY <1>2, <1>4, <1>5, <1>6, <1>7

LEMMA DeleteVilleOK ==
    ASSUME IInv, NEW x \in Ville, DeleteVille(x)
    PROVE  IInv'
<1> DEFINE perdus == {t \in Tarif : x \in {tarifs[t].de, tarifs[t].a}}
<1> USE DEF IInv, TypeOK
<1>1. /\ villes' = [villes EXCEPT ![x] = Aucun]
      /\ gares' = [g \in Gare |-> IF gares[g] = x THEN Aucun ELSE gares[g]]
      /\ tarifs' = [t \in Tarif |-> IF t \in perdus THEN SansTarif ELSE tarifs[t]]
      /\ frais' = frais \ Perimes(perdus)
      /\ melanges' = melanges \ perdus
      /\ UNCHANGED <<voyages, session>>
  BY DEF DeleteVille
<1>2. TypeOK'
  BY <1>1, SansTarifOK
<1>3. \A t \in Tarif : tarifs'[t].de # Aucun =>
          /\ tarifs'[t] = tarifs[t] /\ Tarife(t)
          /\ tarifs[t].de # x /\ tarifs[t].a # x
          /\ t \in melanges => t \in melanges'
  BY <1>1, SansTarifOK DEF Tarife
<1>4. Complets' /\ PrixCoherents'
  BY <1>3 DEF Complets, PrixCoherents, Tarife
<1>5. RoutesUniques'
  <2> SUFFICES ASSUME NEW t \in Tarif, NEW u \in Tarif, tarifs'[t].de # Aucun,
                      tarifs'[t].de = tarifs'[u].de, tarifs'[t].a = tarifs'[u].a
               PROVE  t = u
    BY DEF RoutesUniques, Tarife
  <2> QED
    BY <1>3 DEF RoutesUniques
<1>6. Rattaches'
  <2>1. \A y \in Ville : y # x /\ villes[y] # Aucun => villes'[y] # Aucun
    BY <1>1
  <2>2. \A t \in Tarif : tarifs'[t].de # Aucun =>
            /\ tarifs'[t].de # tarifs'[t].a
            /\ villes'[tarifs'[t].de] # Aucun /\ villes'[tarifs'[t].a] # Aucun
    BY <1>3, <2>1 DEF Rattaches, Complets, Existe
  <2>3. \A g \in Gare : gares'[g] # Aucun => villes'[gares'[g]] # Aucun
    BY <1>1 DEF Rattaches, Existe
  <2> QED
    BY <2>2, <2>3 DEF Rattaches, Tarife, Existe
<1>7. NomsUniques'
  BY <1>1, AucunAssumption DEF NomsUniques, Existe
<1>8. Lectures'
  <2>1. frais' = frais \ ({} \cup Perimes(perdus)) /\ perdus \in SUBSET Tarif
        /\ {} \in SUBSET Session
    BY <1>1
  <2>2. \A t \in Tarif \ perdus : tarifs'[t] = tarifs[t]
    BY <1>1
  <2>3. \A s \in Session : session'[s] \in {Libre, session[s]}
    BY <1>1
  <2> HIDE DEF perdus, IInv, TypeOK
  <2> QED
    BY <2>1, <2>2, <2>3, LecturesGardees
<1> QED
  BY <1>2, <1>4, <1>5, <1>6, <1>7, <1>8

\* A fare takes the row r, which IInv allows.
LEMMA EcrireTarif ==
    ASSUME IInv, NEW t \in Tarif, NEW r \in TarifRow, NEW autres \in SUBSET Session,
           tarifs' = [tarifs EXCEPT ![t] = r],
           frais' = frais \ (autres \cup Perimes({t})),
           melanges' \subseteq melanges \cup {t}, melanges \ {t} \subseteq melanges',
           session' \in [Session -> Requete],
           \A s \in Session : session'[s] \in {Libre, session[s]},
           UNCHANGED <<villes, gares, voyages>>,
           r.de # Aucun => /\ r.de \in Ville /\ r.a \in Ville /\ r.recommande \in Prix /\ r.max \in Prix
                           /\ r.de # r.a /\ Existe(r.de) /\ Existe(r.a)
                           /\ \A u \in Tarif : tarifs[u].de = r.de /\ tarifs[u].a = r.a => u = t
                           /\ t \in melanges' \/ Coherent(r)
    PROVE  IInv'
<1> USE DEF IInv, TypeOK
<1>1. \A u \in Tarif : tarifs'[u] = IF u = t THEN r ELSE tarifs[u]
  OBVIOUS
<1>2. TypeOK'
  OBVIOUS
<1>3. Complets' /\ PrixCoherents'
  BY <1>1 DEF Complets, PrixCoherents, Tarife
<1>4. RoutesUniques'
  BY <1>1 DEF RoutesUniques, Tarife
<1>5. Rattaches' /\ NomsUniques'
  BY <1>1 DEF Rattaches, NomsUniques, Existe, Tarife
<1>6. Lectures'
  <2>1. \A u \in Tarif \ {t} : tarifs'[u] = tarifs[u]
    BY <1>1
  <2> QED
    BY <2>1, LecturesGardees, {t} \in SUBSET Tarif
<1> QED
  BY <1>2, <1>3, <1>4, <1>5, <1>6

LEMMA CreateTarifOK ==
    ASSUME IInv, NEW t \in Tarif, NEW x \in Ville, NEW y \in Ville, NEW p \in Prix, NEW q \in Prix,
           CreateTarif(t, x, y, p, q)
    PROVE  IInv'
<1> DEFINE r == [de |-> x, a |-> y, recommande |-> p, max |-> q, actif |-> TRUE]
<1>1. r \in TarifRow /\ r.de = x /\ r.a = y /\ r.recommande = p /\ r.max = q
  BY DEF TarifRow
<1>2. tarifs' = [tarifs EXCEPT ![t] = r] /\ x # y /\ Existe(x) /\ Existe(y)
      /\ frais' = frais \ ({} \cup Perimes({t})) /\ UNCHANGED <<villes, gares, voyages, session, melanges>>
  BY DEF CreateTarif
<1>3. \A u \in Tarif : tarifs[u].de = x /\ tarifs[u].a = y => u = t
  BY DEF CreateTarif, SurRoute
<1>4. Coherent(r)
  BY <1>1 DEF CreateTarif, Coherent
<1>5. session' \in [Session -> Requete] /\ \A s \in Session : session'[s] \in {Libre, session[s]}
  BY <1>2 DEF IInv, TypeOK
<1>6. melanges' \subseteq melanges \cup {t} /\ melanges \ {t} \subseteq melanges' /\ {} \in SUBSET Session
  BY <1>2
<1> HIDE DEF r
<1> QED
  BY <1>1, <1>2, <1>3, <1>4, <1>5, <1>6, EcrireTarif

LEMMA DeleteTarifOK ==
    ASSUME IInv, NEW t \in Tarif, DeleteTarif(t)
    PROVE  IInv'
<1>1. tarifs' = [tarifs EXCEPT ![t] = SansTarif]
      /\ frais' = frais \ ({} \cup Perimes({t})) /\ UNCHANGED <<villes, gares, voyages, session>>
      /\ melanges' \subseteq melanges \cup {t} /\ melanges \ {t} \subseteq melanges' /\ {} \in SUBSET Session
  BY DEF DeleteTarif
<1>2. session' \in [Session -> Requete] /\ \A s \in Session : session'[s] \in {Libre, session[s]}
  BY <1>1 DEF IInv, TypeOK
<1> QED
  BY <1>1, <1>2, SansTarifOK, EcrireTarif

LEMMA UpdateTarifValiderOK ==
    ASSUME IInv, NEW s \in Session, UpdateTarifValider(s)
    PROVE  IInv'
<1> DEFINE t == session[s].cible
           r == Avec(tarifs[t], session[s].champs)
<1>1. t \in Tarif /\ session[s].champs \in Champs /\ Tarife(t) /\ tarifs[t] \in TarifRow
  BY DEF UpdateTarifValider, IInv, Lectures, TypeOK
<1>2. /\ r \in TarifRow /\ r.de = tarifs[t].de /\ r.a = tarifs[t].a
      /\ tarifs[t].recommande \in Prix => r.recommande \in Prix
      /\ tarifs[t].max \in Prix => r.max \in Prix
  BY <1>1, AvecTarif
<1>3. r.de \in Ville /\ r.a \in Ville /\ r.recommande \in Prix /\ r.max \in Prix
  BY <1>1, <1>2 DEF IInv, Complets
<1>4. r.de # r.a /\ Existe(r.de) /\ Existe(r.a)
  BY <1>1, <1>2 DEF IInv, Rattaches
<1>5. \A u \in Tarif : tarifs[u].de = r.de /\ tarifs[u].a = r.a => u = t
  BY <1>1, <1>2 DEF IInv, RoutesUniques
<1>6. tarifs' = [tarifs EXCEPT ![t] = r]
      /\ frais' = frais \ ({s} \cup Perimes({t})) /\ UNCHANGED <<villes, gares, voyages>>
      /\ melanges' \subseteq melanges \cup {t} /\ melanges \ {t} \subseteq melanges' /\ {s} \in SUBSET Session
  BY <1>1 DEF UpdateTarifValider, IInv, TypeOK
<1>7. t \in melanges' \/ Coherent(r)
  BY DEF UpdateTarifValider, IInv, Lectures
<1>8. session' \in [Session -> Requete] /\ \A u \in Session : session'[u] \in {Libre, session[u]}
  BY LibreRequete DEF UpdateTarifValider, Finir, IInv, TypeOK
<1> HIDE DEF t, r
<1> QED
  BY <1>1, <1>2, <1>3, <1>4, <1>5, <1>6, <1>7, <1>8, EcrireTarif

-----------------------------------------------------------------------------
(* The theorems *)

THEOREM Inductif == Spec => []IInv
<1>1. IInv /\ [Next]_vars => IInv'
  <2> SUFFICES ASSUME IInv, [Next]_vars
               PROVE  IInv'
    OBVIOUS
  <2>1. CASE \E x \in Ville, n \in Nom : CreateVille(x, n) \/ UpdateVille(x, n)
    BY <2>1, NommerOK
  <2>2. CASE \E x \in Ville : DeleteVille(x)
    BY <2>2, DeleteVilleOK
  <2>3. CASE \E t \in Tarif, x, y \in Ville, p, q \in Prix : CreateTarif(t, x, y, p, q)
    BY <2>3, CreateTarifOK
  <2>4. CASE \E s \in Session, t \in Tarif, champs \in Champs : UpdateTarif(s, t, champs)
    BY <2>4, UpdateTarifOK
  <2>5. CASE \E t \in Tarif : DeleteTarif(t)
    BY <2>5, DeleteTarifOK
  <2>6. CASE \E s \in Session : UpdateTarifValider(s)
    BY <2>6, UpdateTarifValiderOK
  <2>7. CASE \E s \in Session, v \in Voyage, de, a \in Nom, p \in Prix : CreateVoyage(s, v, de, a, p)
    BY <2>7, CreateVoyageOK
  <2>8. CASE Ailleurs
    BY <2>8, AilleursOK
  <2> QED
    BY <2>1, <2>2, <2>3, <2>4, <2>5, <2>6, <2>7, <2>8 DEF Next, Ailleurs
<1> QED
  BY <1>1, InitOK, PTL DEF Spec

\* The tables and the requests keep their shape.
THEOREM TypeCorrect == Spec => []TypeOK
<1>1. IInv => TypeOK
  BY DEF IInv
<1> QED
  BY <1>1, Inductif, PTL

\* The cascades of delete_ville leave no fare and no station without its towns.
THEOREM Attaches == Spec => []Rattaches
<1>1. IInv => Rattaches
  BY DEF IInv
<1> QED
  BY <1>1, Inductif, PTL

\* create_voyage, which looks the fare up by the names of the towns, never finds two.
THEOREM TarifUnique == Spec => []UnTarifParRoute
<1>1. IInv => UnTarifParRoute
  BY DEF IInv, UnTarifParRoute, Rattaches, NomsUniques, RoutesUniques, Complets
<1> QED
  BY <1>1, Inductif, PTL

\* update_tarif keeps the recommended price under the maximum, unless two overlap.
THEOREM Coherence == Spec => []PrixCoherents
<1>1. IInv => PrixCoherents
  BY DEF IInv
<1> QED
  BY <1>1, Inductif, PTL
-----------------------------------------------------------------------------
(* The price of a trip and the maximum of its fare *)

SousPlafond(voyage) == \A t \in Plafonds(voyage.de, voyage.a) : voyage.prix <= tarifs[t].max

\* What a publication in progress compared still stands, as long as its reading holds.
Plafonnes == \A s \in frais : session[s].op = "create_voyage" => SousPlafond(session[s].voyage)


\* The publications in progress whose reading a step leaves valid were there before it,
\* and what they read is unchanged; but for the one that starts.
LEMMA PlafonnesEtape ==
    ASSUME IInv, [Next]_vars, NEW s \in frais', session'[s].op = "create_voyage"
    PROVE  \/ s \in frais /\ session'[s] = session[s] /\ UNCHANGED <<villes, tarifs>>
           \/ UNCHANGED <<villes, tarifs>> /\ SousPlafond(session'[s].voyage)
<1> USE DEF IInv, TypeOK
<1>0. Libre.op # "create_voyage"
  BY DEF Libre
<1>1. ASSUME NEW touches, NEW autres, frais' = frais \ (autres \cup Perimes(touches)),
             \A u \in Session : session'[u] \in {Libre, session[u]}
      PROVE  FALSE
  BY <1>0, <1>1 DEF Perimes
<1>2. CASE \E x \in Ville, n \in Nom : CreateVille(x, n) \/ UpdateVille(x, n)
  <2>1. frais' = frais \ ({} \cup Perimes({})) /\ UNCHANGED session
    BY <1>2 DEF CreateVille, UpdateVille
  <2> QED
    BY <1>1, <2>1
<1>3. CASE \E x \in Ville : DeleteVille(x)
  <2>1. UNCHANGED session /\ \E touches : frais' = frais \ ({} \cup Perimes(touches))
    BY <1>3 DEF DeleteVille
  <2> QED
    BY <1>1, <2>1
<1>4. CASE \E t \in Tarif, x, y \in Ville, p, q \in Prix : CreateTarif(t, x, y, p, q)
  <2>1. UNCHANGED session /\ \E touches : frais' = frais \ ({} \cup Perimes(touches))
    BY <1>4 DEF CreateTarif
  <2> QED
    BY <1>1, <2>1
<1>5. CASE \E t \in Tarif : DeleteTarif(t)
  <2>1. UNCHANGED session /\ \E touches : frais' = frais \ ({} \cup Perimes(touches))
    BY <1>5 DEF DeleteTarif
  <2> QED
    BY <1>1, <2>1
<1>6. CASE \E u \in Session : UpdateTarifValider(u)
  <2>1. /\ \E autres, touches : frais' = frais \ (autres \cup Perimes(touches))
        /\ \A u \in Session : session'[u] \in {Libre, session[u]}
    BY <1>6 DEF UpdateTarifValider, Finir
  <2> QED
    BY <1>1, <2>1
<1>7. CASE \E u \in Session, t \in Tarif, champs \in Champs : UpdateTarif(u, t, champs)
  <2>1. PICK u \in Session : \E r : Debuter(u, r) /\ r.op = "update_tarif"
    <3>1. PICK u \in Session, t \in Tarif, champs \in Champs : UpdateTarif(u, t, champs)
      BY <1>7
    <3> DEFINE r == [Libre EXCEPT !.op = "update_tarif", !.cible = t, !.champs = champs]
    <3>2. Debuter(u, r) /\ r.op = "update_tarif"
      BY <3>1 DEF UpdateTarif, Libre
    <3> HIDE DEF r
    <3> QED
      BY <3>2
  <2> QED
    BY <2>1 DEF Debuter
<1>8. CASE \E u \in Session, v \in Voyage, de, a \in Nom, p \in Prix : CreateVoyage(u, v, de, a, p)
  <2>0. PICK u \in Session : \E r : Debuter(u, r) /\ SousPlafond(r.voyage)
    <3>1. PICK u \in Session, v \in Voyage, de \in Nom, a \in Nom, p \in Prix : CreateVoyage(u, v, de, a, p)
      BY <1>8
    <3> DEFINE r == [Libre EXCEPT !.op = "create_voyage", !.cible = v,
                                  !.voyage = [de |-> de, a |-> a, prix |-> p]]
    <3>2. r.voyage = [de |-> de, a |-> a, prix |-> p]
      BY DEF Libre
    <3>3. SousPlafond(r.voyage)
      BY <3>1, <3>2 DEF CreateVoyage, SousPlafond
    <3>4. Debuter(u, r)
      BY <3>1 DEF CreateVoyage
    <3> HIDE DEF r
    <3> QED
      BY <3>3, <3>4
  <2>1. PICK r : Debuter(u, r) /\ SousPlafond(r.voyage)
    BY <2>0
  <2>2. UNCHANGED <<villes, tarifs>> /\ session'[s] = IF s = u THEN r ELSE session[s]
    BY <2>1 DEF Debuter
  <2>3. s = u \/ s \in frais
    BY <2>1 DEF Debuter
  <2> QED
    BY <2>1, <2>2, <2>3
<1>9. CASE Ailleurs
  <2>1. UNCHANGED <<villes, tarifs>> /\ frais' \subseteq frais
    BY <1>9 DEF Ailleurs, Abandon, CreateVoyageValider, DeleteGare, CreateGare, UpdateVoyage, vars
  <2>2. session'[s] \in {Libre, session[s]}
    BY <1>9, <2>1 DEF Ailleurs, Abandon, CreateVoyageValider, DeleteGare, CreateGare, UpdateVoyage, vars, Finir
  <2> QED
    BY <1>0, <2>1, <2>2
<1> QED
  BY <1>2, <1>3, <1>4, <1>5, <1>6, <1>7, <1>8, <1>9 DEF Next, Ailleurs

LEMMA PlafonnesStep == IInv /\ Plafonnes /\ [Next]_vars => Plafonnes'
<1> SUFFICES ASSUME IInv, Plafonnes, [Next]_vars, NEW s \in frais', session'[s].op = "create_voyage"
             PROVE  SousPlafond(session[s].voyage)'
  BY DEF Plafonnes
<1>1. UNCHANGED <<villes, tarifs>>
  BY PlafonnesEtape
<1>2. SousPlafond(session'[s].voyage)
  BY PlafonnesEtape DEF Plafonnes
<1> QED
  BY <1>1, <1>2 DEF SousPlafond, Plafonds, Tarife

\* What PublieSousPlafond says of one publication.
Publication(s) ==
    /\ session[s].op = "create_voyage" /\ voyages'[session[s].cible] # voyages[session[s].cible]
    /\ session'[s] = Libre
    => \A t \in Plafonds(session[s].voyage.de, session[s].voyage.a) :
          voyages'[session[s].cible].prix <= tarifs[t].max

LEMMA PublicationStep ==
    ASSUME IInv, Plafonnes, [Next]_vars, NEW s \in frais
    PROVE  Publication(s)
<1> SUFFICES ASSUME session[s].op = "create_voyage", session'[s] = Libre,
                    voyages'[session[s].cible] # voyages[session[s].cible],
                    NEW t \in Plafonds(session[s].voyage.de, session[s].voyage.a)
             PROVE  voyages'[session[s].cible].prix <= tarifs[t].max
  BY DEF Publication
<1>1. s \in Session /\ session[s] # Libre /\ session[s].cible \in Voyage
  BY DEF IInv, TypeOK, Lectures, Libre
<1>2. PICK u \in Session : CreateVoyageValider(u)
  <2>1. voyages' # voyages /\ session' # session
    BY <1>1
  <2> QED
    BY <2>1 DEF Next, CreateVille, UpdateVille, DeleteVille, CreateGare, DeleteGare, CreateTarif,
                UpdateTarif, DeleteTarif, UpdateTarifValider, Abandon, CreateVoyage, UpdateVoyage,
                Debuter, vars
<1>3. u = s
  BY <1>1, <1>2 DEF CreateVoyageValider, Finir, IInv, TypeOK
<1>4. voyages'[session[s].cible] = session[s].voyage
  BY <1>1, <1>2, <1>3 DEF CreateVoyageValider, IInv, TypeOK
<1> QED
  BY <1>4 DEF Plafonnes, SousPlafond

\* create_voyage publishes under the maximum of the fare, unless a fare or a town changed
\* between its reading and its commit.
THEOREM SousLePlafond == Spec => PublieSousPlafond
<1>1. Init => Plafonnes
  BY DEF Init, Plafonnes
<1>2. IInv /\ Plafonnes /\ [Next]_vars =>
          [\A s \in frais : session[s].op = "create_voyage" /\ voyages'[session[s].cible] # voyages[session[s].cible]
              /\ session'[s] = Libre
              => \A t \in Plafonds(session[s].voyage.de, session[s].voyage.a) :
                    voyages'[session[s].cible].prix <= tarifs[t].max]_vars
  BY PublicationStep DEF Publication
<1> QED
  BY <1>1, <1>2, PlafonnesStep, Inductif, PTL DEF Spec, PublieSousPlafond
=============================================================================
