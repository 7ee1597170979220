------------------------------ MODULE AvisNotes -----------------------------
(***************************************************************************)
(* Reviews of drivers, their moderation, and the mean mark and number of   *)
(* reviews kept with the driver's account.                                 *)
(*                                                                         *)
(* create_avis is taken apart at its statements: it reads the trip, the    *)
(* reservation and whether the review exists; it inserts the review, which *)
(* nobody sees before the commit, and reads the account of the driver; it  *)
(* reads the visible reviews and computes the two columns; it commits.     *)
(* UPDATEs carry the columns whose value changed since they were read.     *)
(* Marks are whole numbers; the mean is kept in hundredths, Numeric(3,2).  *)
(***************************************************************************)
EXTENDS Integers, FiniteSets, FiniteSetsExt

CONSTANTS
    Avis,         \* identifiers of table avis
    Auteur,       \* the clients
    Voyage,       \* the trips
    Cible,        \* accounts of the drivers
    Conducteur,   \* the driver of each trip
    Note,         \* the marks given
    Session,      \* the requests that can be in progress at once
    Aucun         \* NULL

ASSUME AvisAssumption       == IsFiniteSet(Avis)
ASSUME ConducteurAssumption == Conducteur \in [Voyage -> Cible]
ASSUME NoteAssumption       == Note \subseteq 1..5
ASSUME AucunAssumption      == Aucun \notin Avis /\ Aucun \notin Auteur /\ Aucun \notin Voyage

VARIABLES
    terminees,    \* how many TERMINEE reservations a client has on a trip
    trajets,      \* the trips that are TERMINE
    avis,         \* table avis
    cibles,       \* note_moyenne and nombre_avis of each driver
    session,      \* what each request in progress has done and read
    propre,       \* history: nothing of its driver was committed since it read the account
    aJour         \* history: drivers whose two columns were last written by a
                  \* create_avis that nothing overlapped, and not moderated since

vars == <<terminees, trajets, avis, cibles, session, propre, aJour>>

AvisRow  == [auteur : Auteur \cup {Aucun}, voyage : Voyage \cup {Aucun}, note : 1..5,
             visible : BOOLEAN, signale : BOOLEAN]
CibleRow == [moyenne : Nat, nombre : Nat]

Vide  == [moyenne |-> 0, nombre |-> 0]
Libre == [op |-> "libre", avis |-> Aucun, auteur |-> Aucun, voyage |-> Aucun, note |-> 1,
          lu |-> Vide, calcul |-> Vide, visible |-> TRUE, signale |-> FALSE]

Requete == [op : {"libre", "lu", "insere", "calcule", "masquer", "restaurer", "signaler"},
            avis : Avis \cup {Aucun}, auteur : Auteur \cup {Aucun}, voyage : Voyage \cup {Aucun},
            note : 1..5, lu : CibleRow, calcul : CibleRow, visible : BOOLEAN, signale : BOOLEAN]

\* The tables and the requests keep their shape, and a client has one review of
\* a trip, however two of its requests race.
TypeOK ==
    /\ terminees \in [Auteur \X Voyage -> Nat]
    /\ trajets \subseteq Voyage
    /\ avis \in [Avis -> AvisRow]
    /\ cibles \in [Cible -> CibleRow]
    /\ session \in [Session -> Requete]
    /\ propre \subseteq Session
    /\ aJour \subseteq Cible
    /\ \A i, j \in Avis :
           avis[i].auteur # Aucun /\ avis[i].auteur = avis[j].auteur /\ avis[i].voyage = avis[j].voyage
               => i = j

Init ==
    /\ terminees = [x \in Auteur \X Voyage |-> 0]
    /\ trajets = {}
    /\ avis = [i \in Avis |-> [auteur |-> Aucun, voyage |-> Aucun, note |-> 1,
                               visible |-> TRUE, signale |-> FALSE]]
    /\ cibles = [c \in Cible |-> Vide]
    /\ session = [s \in Session |-> Libre]
    /\ propre = {}
    /\ aJour = Cible

Existe(i)     == avis[i].auteur # Aucun
De(i, u, v)   == avis[i].auteur = u /\ avis[i].voyage = v
Visibles(c)   == {i \in Avis : Existe(i) /\ avis[i].visible /\ Conducteur[avis[i].voyage] = c}

\* sum(notes) / len(notes), rounded by the column to two decimals.
Moyenne(notes) ==
    LET n == Cardinality(notes)
        total == FoldSet(LAMBDA x, acc : x[2] + acc, 0, notes)
    IN  [moyenne |-> IF n = 0 THEN 0 ELSE (200 * total + n) \div (2 * n), nombre |-> n]

Notes(ids) == {<<i, avis[i].note>> : i \in ids}

Finir(s) == session' = [session EXCEPT ![s] = Libre]

Ecrit(colonne, lu, vers) == IF lu = vers THEN colonne ELSE vers

\* The mean is a float and what was read a decimal: they compare equal only when
\* the mean is a whole number of quarters (of fewer than 50 reviews).
EcritMoyenne(colonne, lu, vers) == IF vers % 25 = 0 THEN Ecrit(colonne, lu, vers) ELSE vers

-----------------------------------------------------------------------------
(* The trips, which Reservations models *)

\* The client may have several reservations on the trip.
EndVoyage(v) ==
    /\ v \notin trajets
    /\ trajets' = trajets \cup {v}
    /\ \E n \in [Auteur -> 0..2] :
           terminees' = [x \in Auteur \X Voyage |-> IF x[2] = v THEN n[x[1]] ELSE terminees[x]]
    /\ UNCHANGED <<avis, cibles, session, propre, aJour>>

-----------------------------------------------------------------------------
(* create_avis *)

\* scalar_one_or_none raises when there are two reservations.
CreateAvis(s, u, v, n) ==
    /\ session[s] = Libre
    /\ v \in trajets
    /\ terminees[u, v] = 1
    /\ \A i \in Avis : ~De(i, u, v)
    /\ session' = [session EXCEPT ![s] =
           [Libre EXCEPT !.op = "lu", !.auteur = u, !.voyage = v, !.note = n]]
    /\ UNCHANGED <<terminees, trajets, avis, cibles, propre, aJour>>

Cree(s) == session[s].op \in {"insere", "calcule"}

\* The unique index on (auteur_id, voyage_id): an insert waits for another one
\* in progress, then fails if that one was committed.
Inserable_mutSansIndex(s, i) ==
    /\ ~Existe(i)
    /\ \A autre \in Session : Cree(autre) => session[autre].avis # i

Inserable(s, i) ==
    /\ ~Existe(i)
    /\ \A j \in Avis : ~De(j, session[s].auteur, session[s].voyage)
    /\ \A autre \in Session : Cree(autre) =>
           /\ session[autre].avis # i
           /\ <<session[autre].auteur, session[autre].voyage>> # <<session[s].auteur, session[s].voyage>>

Inserer(s, i) ==
    /\ session[s].op = "lu"
    /\ Inserable(s, i)
    /\ session' = [session EXCEPT ![s].op = "insere", ![s].avis = i,
                                  ![s].lu = cibles[Conducteur[session[s].voyage]]]
    /\ propre' = propre \cup {s}
    /\ UNCHANGED <<terminees, trajets, avis, cibles, aJour>>

\* The transaction sees the committed rows and its own.
Calculer_mutSansFlush(s) ==
    /\ session[s].op = "insere"
    /\ session' = [session EXCEPT ![s].op = "calcule",
           ![s].calcul = Moyenne(Notes(Visibles(Conducteur[session[s].voyage])))]
    /\ UNCHANGED <<terminees, trajets, avis, cibles, propre, aJour>>

Calculer(s) ==
    /\ session[s].op = "insere"
    /\ session' = [session EXCEPT ![s].op = "calcule",
           ![s].calcul = Moyenne(Notes(Visibles(Conducteur[session[s].voyage]))
                                 \cup {<<session[s].avis, session[s].note>>})]
    /\ UNCHANGED <<terminees, trajets, avis, cibles, propre, aJour>>

\* What is committed on a driver is unknown to the other requests that create
\* a review of it.
Salir(c) == propre' = {s \in propre : Cree(s) /\ Conducteur[session[s].voyage] # c}

CreerValider(s) ==
    LET r == session[s]
        c == Conducteur[r.voyage]
    IN  /\ r.op = "calcule"
        /\ avis' = [avis EXCEPT ![r.avis] = [auteur |-> r.auteur, voyage |-> r.voyage, note |-> r.note,
                                            visible |-> TRUE, signale |-> FALSE]]
        /\ cibles' = [cibles EXCEPT ![c].moyenne = EcritMoyenne(@, r.lu.moyenne, r.calcul.moyenne),
                                    ![c].nombre  = Ecrit(@, r.lu.nombre, r.calcul.nombre)]
        /\ Finir(s)
        /\ Salir(c)
        /\ aJour' = IF s \in propre THEN aJour \cup {c} ELSE aJour \ {c}
        /\ UNCHANGED <<terminees, trajets>>

-----------------------------------------------------------------------------
(* Moderation *)

ModererLire(s, i, op) ==
    /\ session[s] = Libre
    /\ Existe(i)
    /\ session' = [session EXCEPT ![s] =
           [Libre EXCEPT !.op = op, !.avis = i, !.visible = avis[i].visible, !.signale = avis[i].signale]]
    /\ UNCHANGED <<terminees, trajets, avis, cibles, propre, aJour>>

MasquerAvis(s, i)   == ModererLire(s, i, "masquer")
RestaurerAvis(s, i) == ModererLire(s, i, "restaurer")
SignalerAvis(s, i)  == ModererLire(s, i, "signaler")

\* The two columns of the driver are left as they are.
ModererValider(s) ==
    LET r == session[s]
        visible == CASE r.op = "masquer" -> FALSE [] r.op = "restaurer" -> TRUE [] OTHER -> r.visible
        signale == CASE r.op = "restaurer" -> FALSE [] r.op = "signaler" -> TRUE [] OTHER -> r.signale
        c == Conducteur[avis[r.avis].voyage]
    IN  /\ r.op \in {"masquer", "restaurer", "signaler"}
        /\ avis' = [avis EXCEPT ![r.avis].visible = Ecrit(@, r.visible, visible),
                                ![r.avis].signale = Ecrit(@, r.signale, signale)]
        /\ Finir(s)
        /\ IF avis'[r.avis].visible # avis[r.avis].visible
           THEN Salir(c) /\ aJour' = aJour \ {c}
           ELSE UNCHANGED <<propre, aJour>>
        /\ UNCHANGED <<terminees, trajets, cibles>>

\* An error, or the client has gone: the transaction is rolled back.
Abandon(s) ==
    /\ session[s] # Libre
    /\ Finir(s)
    /\ propre' = propre \ {s}
    /\ UNCHANGED <<terminees, trajets, avis, cibles, aJour>>

-----------------------------------------------------------------------------
Next ==
    \/ \E v \in Voyage : EndVoyage(v)
    \/ \E s \in Session, u \in Auteur, v \in Voyage, n \in Note : CreateAvis(s, u, v, n)
    \/ \E s \in Session, i \in Avis :
           Inserer(s, i) \/ MasquerAvis(s, i) \/ RestaurerAvis(s, i) \/ SignalerAvis(s, i)
    \/ \E s \in Session : Calculer(s) \/ CreerValider(s) \/ ModererValider(s) \/ Abandon(s)

Spec == Init /\ [][Next]_vars

-----------------------------------------------------------------------------
(* Properties *)

\* The mean and the number kept with a driver are those of its visible reviews
\* after a create_avis that nothing overlapped, until the next moderation.
NoteExacte ==
    \A c \in aJour : cibles[c] = Moyenne(Notes(Visibles(c)))

\* Whatever overlaps, and although two requests may each write one of the two
\* columns, a driver has a mean between 1 and 5 as soon as a review of it
\* exists and none before, and never more reviews than were written.
NoteBornee ==
    \A c \in Cible :
        LET n == Cardinality({i \in Avis : Existe(i) /\ Conducteur[avis[i].voyage] = c}) IN
        /\ cibles[c].nombre <= n
        /\ n = 0 => cibles[c] = Vide
        /\ n > 0 => cibles[c].nombre > 0 /\ cibles[c].moyenne \in 100..500

\* A report is withdrawn only by a restoration that saw it: one that found the
\* review not reported leaves a report that came meanwhile.
SignalementVu ==
    [][\A i \in Avis : avis[i].signale /\ ~avis'[i].signale =>
          \E s \in Session : session[s].op = "restaurer" /\ session[s].avis = i /\ session[s].signale]_vars
=============================================================================
