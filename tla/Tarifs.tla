------------------------------- MODULE Tarifs -------------------------------
(***************************************************************************)
(* Reference data of the back office: the towns, their stations, the fares *)
(* between towns, and the cap that a fare puts on the price of a trip when *)
(* the trip is published.                                                  *)
(*                                                                         *)
(* An UPDATE of a fare and the publication of a trip read first and write  *)
(* in the commit that ends them; others run in between.  The UPDATE        *)
(* carries the columns whose value changed since they were read.  The      *)
(* other requests test only what the database tests again when they commit *)
(* (unique names, one fare per route, foreign keys that cascade), so the   *)
(* commit decides alone and each is one action.  Whether a town or a       *)
(* station is active is read by the lists only and is left out.            *)
(***************************************************************************)
EXTENDS Integers

CONSTANTS
    Ville, Gare, Tarif, Voyage,   \* identifiers of the four tables
    Nom,          \* names of towns; trips name theirs in the same way
    Prix,         \* prices
    Session,      \* the requests that can be in progress at once
    Aucun         \* NULL, no row

ASSUME PrixAssumption  == Prix \subseteq Nat \ {0}
ASSUME AucunAssumption == Aucun \notin Ville /\ Aucun \notin Nom /\ Aucun \notin Gare
                          /\ Aucun \notin Tarif /\ Aucun \notin Voyage /\ Aucun \notin Prix

VARIABLES
    villes,       \* the name of each town, or Aucun
    gares,        \* the town of each station, or Aucun
    tarifs,       \* table tarifs_trajets
    voyages,      \* the towns, by name, and the price of each trip
    session,      \* what each request in progress has read
    frais,        \* history: the requests whose readings still hold
    melanges      \* history: fares written by an update whose reading did not hold

vars == <<villes, gares, tarifs, voyages, session, frais, melanges>>

TarifRow  == [de : Ville \cup {Aucun}, a : Ville \cup {Aucun},
              recommande : Prix \cup {Aucun}, max : Prix \cup {Aucun}, actif : BOOLEAN]
VoyageRow == [de : Nom \cup {Aucun}, a : Nom \cup {Aucun}, prix : Prix \cup {Aucun}]

SansTarif  == [de |-> Aucun, a |-> Aucun, recommande |-> Aucun, max |-> Aucun, actif |-> TRUE]
SansVoyage == [de |-> Aucun, a |-> Aucun, prix |-> Aucun]

Operation == {"libre", "update_tarif", "create_voyage"}

\* The columns of a fare that a request changes, and their new values.
Champs == {[recommande |-> p] : p \in Prix} \cup {[max |-> p] : p \in Prix}
          \cup {[actif |-> b] : b \in BOOLEAN}
Avec(tarif, champs) ==
    [c \in DOMAIN tarif |-> IF c \in DOMAIN champs THEN champs[c] ELSE tarif[c]]

Requete == [op : Operation, cible : Tarif \cup Voyage \cup {Aucun},
            champs : Champs \cup {<<>>}, voyage : VoyageRow]

Libre == [op |-> "libre", cible |-> Aucun, champs |-> <<>>, voyage |-> SansVoyage]

\* The tables and the requests keep their shape.
TypeOK ==
    /\ villes \in [Ville -> Nom \cup {Aucun}]
    /\ gares \in [Gare -> Ville \cup {Aucun}]
    /\ tarifs \in [Tarif -> TarifRow]
    /\ voyages \in [Voyage -> VoyageRow]
    /\ session \in [Session -> Requete]
    /\ frais \subseteq Session
    /\ melanges \subseteq Tarif

Init ==
    /\ villes = [x \in Ville |-> Aucun]
    /\ gares = [g \in Gare |-> Aucun]
    /\ tarifs = [t \in Tarif |-> SansTarif]
    /\ voyages = [v \in Voyage |-> SansVoyage]
    /\ session = [s \in Session |-> Libre]
    /\ frais = {}
    /\ melanges = {}

Existe(x)      == villes[x] # Aucun
Tarife(t)      == tarifs[t].de # Aucun
SurRoute(x, y) == {t \in Tarif : tarifs[t].de = x /\ tarifs[t].a = y}

Debuter(s, requete) ==
    /\ session[s] = Libre
    /\ session' = [session EXCEPT ![s] = requete]
    /\ frais' = frais \cup {s}
    /\ UNCHANGED <<villes, gares, tarifs, voyages, melanges>>

Finir(s) == session' = [session EXCEPT ![s] = Libre]

\* What the requests read no longer holds: those on the fares in touches, and
\* those that publish a trip, which look fares and towns up by name.
Perimes(touches) == {s \in Session : session[s].op = "create_voyage" \/ session[s].cible \in touches}

\* An error, or the client has gone: nothing is committed.
Abandon(s) ==
    /\ session[s] # Libre
    /\ Finir(s)
    /\ frais' = frais \ {s}
    /\ UNCHANGED <<villes, gares, tarifs, voyages, melanges>>

-----------------------------------------------------------------------------
(* Towns and stations *)

\* The unique index on the name.
NomLibre(n, saufPour) == \A x \in Ville \ saufPour : villes[x] # n

CreateVille(x, n) ==
    /\ ~Existe(x)
    /\ NomLibre(n, {})
    /\ villes' = [villes EXCEPT ![x] = n]
    /\ frais' = frais \ Perimes({})
    /\ UNCHANGED <<gares, tarifs, voyages, session, melanges>>

\* No test of the name but the index.
UpdateVille(x, n) ==
    /\ Existe(x)
    /\ villes[x] # n
    /\ NomLibre(n, {x})
    /\ villes' = [villes EXCEPT ![x] = n]
    /\ frais' = frais \ Perimes({})
    /\ UNCHANGED <<gares, tarifs, voyages, session, melanges>>

\* ON DELETE CASCADE, on the stations and on the fares from and to the town.
DeleteVille(x) ==
    LET perdus == {t \in Tarif : x \in {tarifs[t].de, tarifs[t].a}} IN
    /\ Existe(x)
    /\ villes' = [villes EXCEPT ![x] = Aucun]
    /\ gares' = [g \in Gare |-> IF gares[g] = x THEN Aucun ELSE gares[g]]
    /\ tarifs' = [t \in Tarif |-> IF t \in perdus THEN SansTarif ELSE tarifs[t]]
    /\ frais' = frais \ Perimes(perdus)
    /\ melanges' = melanges \ perdus
    /\ UNCHANGED <<voyages, session>>

CreateGare(g, x) ==
    /\ gares[g] = Aucun
    /\ Existe(x)
    /\ gares' = [gares EXCEPT ![g] = x]
    /\ UNCHANGED <<villes, tarifs, voyages, session, frais, melanges>>

DeleteGare(g) ==
    /\ gares[g] # Aucun
    /\ gares' = [gares EXCEPT ![g] = Aucun]
    /\ UNCHANGED <<villes, tarifs, voyages, session, frais, melanges>>

-----------------------------------------------------------------------------
(* Fares *)

Coherent(tarif) == tarif.recommande <= tarif.max

CreateTarif(t, x, y, recommande, max) ==
    /\ ~Tarife(t)
    /\ recommande <= max
    /\ x # y
    /\ Existe(x) /\ Existe(y)
    /\ SurRoute(x, y) = {}
    /\ tarifs' = [tarifs EXCEPT ![t] = [de |-> x, a |-> y, recommande |-> recommande,
                                        max |-> max, actif |-> TRUE]]
    /\ frais' = frais \ Perimes({t})
    /\ UNCHANGED <<villes, gares, voyages, session, melanges>>

\* The fields of the request replace those that were read, and the two prices
\* are compared.  The UPDATE will carry the fields that changed.
UpdateTarif_mutSansTest(s, t, champs) ==
    /\ Tarife(t)
    /\ Avec(tarifs[t], champs) # tarifs[t]
    /\ Debuter(s, [Libre EXCEPT !.op = "update_tarif", !.cible = t, !.champs = champs])

UpdateTarif(s, t, champs) ==
    /\ Tarife(t)
    /\ Avec(tarifs[t], champs) # tarifs[t]
    /\ Coherent(Avec(tarifs[t], champs))
    /\ Debuter(s, [Libre EXCEPT !.op = "update_tarif", !.cible = t, !.champs = champs])

UpdateTarifValider(s) ==
    LET t == session[s].cible IN
    /\ session[s].op = "update_tarif"
    /\ Tarife(t)
    /\ tarifs' = [tarifs EXCEPT ![t] = Avec(@, session[s].champs)]
    /\ Finir(s)
    /\ frais' = frais \ ({s} \cup Perimes({t}))
    /\ melanges' = IF s \in frais THEN melanges ELSE melanges \cup {t}
    /\ UNCHANGED <<villes, gares, voyages>>

DeleteTarif(t) ==
    /\ Tarife(t)
    /\ tarifs' = [tarifs EXCEPT ![t] = SansTarif]
    /\ frais' = frais \ Perimes({t})
    /\ melanges' = melanges \ {t}
    /\ UNCHANGED <<villes, gares, voyages, session>>

-----------------------------------------------------------------------------
(* Trips *)

Plafonds(de, a) ==
    {t \in Tarif : Tarife(t) /\ tarifs[t].actif
                   /\ villes[tarifs[t].de] = de /\ villes[tarifs[t].a] = a}

\* By the names of the towns; scalar_one_or_none.
CreateVoyage_mutInverse(s, v, de, a, prix) ==
    /\ voyages[v] = SansVoyage
    /\ \A t \in Plafonds(a, de) : prix <= tarifs[t].max
    /\ Debuter(s, [Libre EXCEPT !.op = "create_voyage", !.cible = v,
                                !.voyage = [de |-> de, a |-> a, prix |-> prix]])

CreateVoyage(s, v, de, a, prix) ==
    /\ voyages[v] = SansVoyage
    /\ \A t \in Plafonds(de, a) : prix <= tarifs[t].max
    /\ Debuter(s, [Libre EXCEPT !.op = "create_voyage", !.cible = v,
                                !.voyage = [de |-> de, a |-> a, prix |-> prix]])

CreateVoyageValider(s) ==
    LET v == session[s].cible IN
    /\ session[s].op = "create_voyage"
    /\ voyages[v] = SansVoyage
    /\ voyages' = [voyages EXCEPT ![v] = session[s].voyage]
    /\ Finir(s)
    /\ frais' = frais \ {s}
    /\ UNCHANGED <<villes, gares, tarifs, melanges>>

\* While the trip is PUBLIE, which is left out here.  The new price is compared with
\* no fare.
UpdateVoyage(v, prix) ==
    /\ voyages[v] # SansVoyage
    /\ voyages' = [voyages EXCEPT ![v].prix = prix]
    /\ UNCHANGED <<villes, gares, tarifs, session, frais, melanges>>

-----------------------------------------------------------------------------
Next ==
    \/ \E x \in Ville, n \in Nom : CreateVille(x, n) \/ UpdateVille(x, n)
    \/ \E x \in Ville : DeleteVille(x)
    \/ \E g \in Gare, x \in Ville : CreateGare(g, x)
    \/ \E g \in Gare : DeleteGare(g)
    \/ \E t \in Tarif, x, y \in Ville, p, q \in Prix : CreateTarif(t, x, y, p, q)
    \/ \E s \in Session, t \in Tarif, champs \in Champs : UpdateTarif(s, t, champs)
    \/ \E t \in Tarif : DeleteTarif(t)
    \/ \E s \in Session : UpdateTarifValider(s) \/ CreateVoyageValider(s) \/ Abandon(s)
    \/ \E s \in Session, v \in Voyage, de, a \in Nom, p \in Prix : CreateVoyage(s, v, de, a, p)
    \/ \E v \in Voyage, p \in Prix : UpdateVoyage(v, p)

Spec == Init /\ [][Next]_vars

-----------------------------------------------------------------------------
(* Properties *)

\* Fares join two different towns and stations lie in a town, which exist,
\* whatever is deleted.
Rattaches ==
    /\ \A t \in Tarif : Tarife(t) =>
           tarifs[t].de # tarifs[t].a /\ Existe(tarifs[t].de) /\ Existe(tarifs[t].a)
    /\ \A g \in Gare : gares[g] # Aucun => Existe(gares[g])

\* Two names designate at most one fare, whatever is created or renamed at the
\* same time: create_voyage reads it with scalar_one_or_none, which fails on
\* two.
UnTarifParRoute ==
    \A t, u \in Tarif :
        /\ Tarife(t) /\ Tarife(u)
        /\ villes[tarifs[t].de] = villes[tarifs[u].de]
        /\ villes[tarifs[t].a] = villes[tarifs[u].a]
        => t = u

\* The recommended price of a fare is at most its maximum, unless two updates
\* of it overlapped: each compares its own field with the other one as read.
PrixCoherents ==
    \A t \in Tarif \ melanges : Tarife(t) => Coherent(tarifs[t])

\* A trip is published at no more than the maximum of its fare, unless a fare
\* or a town changed between the reading and the commit.
PublieSousPlafond ==
    [][\A s \in frais : session[s].op = "create_voyage" /\ voyages'[session[s].cible] # voyages[session[s].cible]
          /\ session'[s] = Libre
          => \A t \in Plafonds(session[s].voyage.de, session[s].voyage.a) :
                voyages'[session[s].cible].prix <= tarifs[t].max]_vars
=============================================================================
