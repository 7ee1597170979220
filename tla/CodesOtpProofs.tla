---------------------------- MODULE CodesOtpProofs --------------------------
(***************************************************************************)
(* Theorems about CodesOtp, for any number of requests, of codes and of    *)
(* attempts: what a code was compared with as long as no two verifications *)
(* overlap, and how often it is compared when two do.                      *)
(***************************************************************************)
EXTENDS CodesOtp, FiniteSetTheorems, TLAPS

\* What the requests read is a code that was generated.
Lus ==
    \A s \in Session :
        /\ session[s].etape \in {"conclure", "verrouiller"} => session[s].lu.code \in emis
        /\ session[s].etape = "conclure" => session[s].lu.essais < Max

\* So is the key; and a code that was not generated was not compared.
Histoire ==
    /\ cle # Absente => cle.code \in emis
    /\ cle.essais < Max
    /\ dernier \in emis \cup {Aucun}
    /\ \A c \in Code \ emis : essais[c] = 0 /\ acceptes[c] = 0

\* While no two verifications overlap: a request that is about to conclude read
\* the key as it is, the key counts the comparisons of the last code, and a
\* request that is about to lock has removed it.
Isolee ==
    ~chevauche =>
        /\ \A s \in Session : session[s].etape = "conclure" => cle = session[s].lu
        /\ cle # Absente => cle = [code |-> dernier, essais |-> essais[dernier]]
                            /\ acceptes[dernier] = 0
        /\ dernier # Aucun => acceptes[dernier] <= 1 /\ essais[dernier] < Max
        /\ \A s \in Session :
               session[s].etape = "verrouiller" /\ session[s].lu.code = dernier =>
                   essais[dernier] = Max - 1 /\ acceptes[dernier] = 0 /\ cle = Absente

IInv == TypeOK /\ Lus /\ Histoire /\ Isolee

LEMMA AbsenteCle == Absente \in Cle /\ Absente.code = Aucun /\ Absente.essais = 0
  BY DEF Absente, Cle

LEMMA LibreRequete == Libre \in Requete /\ Libre.etape = "libre"
  BY AbsenteCle DEF Libre, Requete, But

LEMMA InitOK == Init => IInv
<1> SUFFICES ASSUME Init
             PROVE  IInv
  OBVIOUS
<1> USE AucunAssumption, MaxAssumption, AbsenteCle, LibreRequete DEF Init
<1>1. TypeOK
  BY DEF TypeOK
<1>2. Lus /\ Histoire /\ Isolee
  BY DEF Lus, Histoire, Isolee
<1> QED
  BY <1>1, <1>2 DEF IInv

-----------------------------------------------------------------------------
(* Steps that leave the key and the history alone *)

\* Request s becomes r, which IInv allows.
Permise(r) ==
    /\ r \in Requete
    /\ r.etape \in {"conclure", "verrouiller"} => r.lu.code \in emis
    /\ r.etape = "conclure" => r.lu.essais < Max /\ r.lu = cle
    /\ r.etape # "verrouiller"

LEMMA LibrePermise == Permise(Libre)
  BY LibreRequete DEF Permise

LEMMA Suite ==
    ASSUME IInv, NEW s \in Session, NEW r, Permise(r),
           session' = [session EXCEPT ![s] = r],
           verrou' \in BOOLEAN,
           compte' \in [existe : BOOLEAN, verifie : BOOLEAN, mdp : {"initial", "nouveau"}],
           UNCHANGED <<cle, emis, dernier, essais, acceptes, chevauche>>
    PROVE  IInv'
<1> USE DEF IInv, TypeOK
<1>1. \A u \in Session : session'[u] = IF u = s THEN r ELSE session[u]
  OBVIOUS
<1>2. TypeOK'
  BY DEF Permise
<1>3. Lus'
  BY <1>1 DEF Lus, Permise
<1>4. Histoire'
  BY DEF Histoire
<1>5. Isolee'
  BY <1>1 DEF Isolee, Permise
<1> QED
  BY <1>2, <1>3, <1>4, <1>5

LEMMA LireOK ==
    ASSUME IInv, NEW s \in Session, Lire(s)
    PROVE  IInv'
<1> USE DEF IInv, TypeOK
<1>1. CASE cle = Absente
  BY <1>1, LibrePermise, Suite DEF Lire
<1>2. CASE cle # Absente
  <2> DEFINE r == [session[s] EXCEPT !.etape = "conclure", !.lu = cle]
  <2>1. Permise(r)
    BY <1>2 DEF Permise, Requete, Histoire
  <2>2. session' = [session EXCEPT ![s] = r]
    BY <1>2 DEF Lire
  <2> QED
    BY <2>1, <2>2, Suite DEF Lire
<1> QED
  BY <1>1, <1>2

\* The other steps of this kind.
Autre(s) ==
    \/ \E but \in But, soumis \in Code \cup {Aucun} : Commencer(s, but, soumis)
    \/ Verrouiller(s) \/ Activer(s) \/ Reinitialiser(s) \/ Interrompre(s)

LEMMA AutreOK ==
    ASSUME IInv, NEW s \in Session, Autre(s)
    PROVE  IInv'
<1> USE DEF IInv, TypeOK
<1>1. CASE \E but \in But, soumis \in Code \cup {Aucun} : Commencer(s, but, soumis)
  <2>1. PICK but \in But, soumis \in Code \cup {Aucun} : Commencer(s, but, soumis)
    BY <1>1
  <2>2. Permise([etape |-> "lire", but |-> but, soumis |-> soumis, lu |-> Absente])
    BY AbsenteCle DEF Permise, Requete
  <2> QED
    BY <2>1, <2>2, Suite DEF Commencer
<1>2. CASE Verrouiller(s) \/ Interrompre(s)
  BY <1>2, LibrePermise, Suite DEF Verrouiller, Interrompre
<1>3. CASE Activer(s) \/ Reinitialiser(s)
  BY <1>3, LibrePermise, Suite DEF Activer, Reinitialiser
<1> QED
  BY <1>1, <1>2, <1>3 DEF Autre

-----------------------------------------------------------------------------
(* Steps that write the key *)

LEMMA GenererOK ==
    ASSUME IInv, NEW c \in Code, GenerateAndStoreOtp(c)
    PROVE  IInv'
<1> USE MaxAssumption, AucunAssumption DEF IInv, TypeOK, GenerateAndStoreOtp
<1>1. /\ c \notin emis /\ emis' = emis \cup {c} /\ dernier' = c
      /\ cle' = [code |-> c, essais |-> 0]
      /\ essais[c] = 0 /\ acceptes[c] = 0
      /\ UNCHANGED <<verrou, compte, session, essais, acceptes>>
  BY DEF Histoire
<1>2. TypeOK'
  BY DEF Cle
<1>3. Lus'
  BY <1>1 DEF Lus
<1>4. Histoire'
  BY <1>1 DEF Histoire
<1>5. Isolee'
  <2>1. ~chevauche' => \A s \in Session : session[s].etape # "conclure"
    BY DEF A_Lu
  <2>2. \A s \in Session : session[s].etape = "verrouiller" => session[s].lu.code # c
    BY <1>1 DEF Lus
  <2> QED
    BY <1>1, <2>1, <2>2 DEF Isolee
<1> QED
  BY <1>2, <1>3, <1>4, <1>5

LEMMA ExpirerCleOK ==
    ASSUME IInv, ExpirerCle
    PROVE  IInv'
<1> USE MaxAssumption, AbsenteCle DEF IInv, TypeOK, ExpirerCle, EcritCle
<1>1. TypeOK' /\ Lus'
  BY DEF Lus
<1>2. Histoire'
  BY DEF Histoire
<1>3. Isolee'
  BY DEF Isolee, A_Lu
<1> QED
  BY <1>1, <1>2, <1>3

\* What a request that concludes finds, when its reading still holds.
LEMMA Lecture ==
    ASSUME IInv, NEW s \in Session, session[s].etape = "conclure"
    PROVE  LET lu == session[s].lu IN
           /\ lu \in Cle /\ lu.code \in emis /\ lu.essais < Max
           /\ ~chevauche => /\ cle = lu /\ lu.code = dernier /\ dernier # Aucun
                            /\ lu.essais = essais[dernier] /\ acceptes[dernier] = 0
                            /\ \A u \in Session : ~(session[u].etape = "verrouiller"
                                                    /\ session[u].lu.code = dernier)
<1> DEFINE lu == session[s].lu
<1>1. lu \in Cle /\ lu.code \in emis /\ lu.essais < Max
  BY DEF IInv, TypeOK, Requete, Lus
<1>2. lu # Absente
  BY <1>1, AbsenteCle, AucunAssumption DEF IInv, TypeOK
<1>3. ASSUME ~chevauche
      PROVE  /\ cle = lu /\ lu.code = dernier /\ lu.essais = essais[dernier]
             /\ acceptes[dernier] = 0
             /\ \A u \in Session : ~(session[u].etape = "verrouiller" /\ session[u].lu.code = dernier)
  <2>1. cle = lu
    BY <1>3 DEF IInv, Isolee
  <2>2. cle = [code |-> dernier, essais |-> essais[dernier]] /\ acceptes[dernier] = 0
    BY <1>2, <1>3, <2>1 DEF IInv, Isolee
  <2>3. lu.code = dernier /\ lu.essais = essais[dernier]
    BY <2>1, <2>2
  <2>4. \A u \in Session : ~(session[u].etape = "verrouiller" /\ session[u].lu.code = dernier)
    BY <1>2, <1>3, <2>1 DEF IInv, Isolee
  <2> QED
    BY <2>1, <2>2, <2>3, <2>4
<1>4. dernier # Aucun \/ lu.code # dernier
  BY <1>1, AucunAssumption DEF IInv, TypeOK
<1> QED
  BY <1>1, <1>3, <1>4

LEMMA EffacerOK ==
    ASSUME IInv, NEW s \in Session, Effacer(s)
    PROVE  IInv'
<1> USE MaxAssumption, AbsenteCle DEF IInv, TypeOK
<1>1. /\ session[s].etape = "conclure"
      /\ cle' = Absente
      /\ ~chevauche' => ~chevauche /\ \A u \in Session \ {s} : session[u].etape # "conclure"
      /\ chevauche' \in BOOLEAN
      /\ UNCHANGED <<verrou, compte, emis, dernier, essais, acceptes>>
  BY DEF Effacer, EcritCle, A_Lu
<1>2. \A u \in Session : session'[u] = IF u = s THEN [session[s] EXCEPT !.etape = "verrouiller"]
                                       ELSE session[u]
  BY DEF Effacer
<1>3. session[s].lu.code \in emis /\ session[s].lu.essais + 1 >= Max /\ session[s].lu.essais < Max
      /\ session[s].lu \in Cle
  BY <1>1, Lecture DEF Effacer, Essai
<1>4. TypeOK'
  BY <1>1 DEF Effacer, Requete
<1>5. /\ \A u \in Session : session'[u].etape = "conclure" => u # s /\ session[u].etape = "conclure"
      /\ session'[s].etape = "verrouiller"
      /\ \A u \in Session : u # s => session'[u] = session[u]
      /\ \A u \in Session : session'[u].lu = session[u].lu
  BY <1>2 DEF Requete
<1>6. Lus'
  BY <1>1, <1>3, <1>5 DEF Lus
<1>7. Histoire'
  BY <1>1 DEF Histoire
<1>8. ASSUME ~chevauche
      PROVE  /\ dernier # Aucun => acceptes[dernier] <= 1 /\ essais[dernier] < Max
             /\ essais[dernier] = Max - 1 /\ acceptes[dernier] = 0
  <2>1. session[s].lu.essais = essais[dernier] /\ acceptes[dernier] = 0 /\ session[s].lu.essais \in Nat
    BY <1>1, <1>3, <1>8, Lecture DEF Cle
  <2> QED
    BY <1>3, <2>1
<1>9. Isolee'
  BY <1>1, <1>5, <1>8 DEF Isolee
<1> QED
  BY <1>4, <1>6, <1>7, <1>9

\* Refuser and Accepter: one comparison more of the code that was read.
LEMMA CompareOK ==
    ASSUME IInv, NEW s \in Session, Refuser(s) \/ Accepter(s)
    PROVE  IInv'
<1> DEFINE lu == session[s].lu
<1> USE MaxAssumption, AbsenteCle DEF IInv, TypeOK
<1>1. /\ session[s].etape = "conclure"
      /\ lu.essais + 1 < Max
      /\ ~chevauche' => ~chevauche /\ \A u \in Session \ {s} : session[u].etape # "conclure"
      /\ chevauche' \in BOOLEAN
      /\ essais' = Compter(essais, lu.code)
      /\ UNCHANGED <<verrou, compte, emis, dernier>>
  BY DEF Refuser, Accepter, EcritCle, A_Lu, Essai
<1>2. lu \in Cle /\ lu.code \in emis /\ lu.code \in Code /\ lu.essais \in Nat
  BY <1>1, Lecture DEF Cle
<1>3. PICK r \in Requete : session' = [session EXCEPT ![s] = r] /\ r.etape \in {"libre", "ecrire"}
  <2>1. CASE Refuser(s)
    BY <2>1, LibreRequete DEF Refuser
  <2>2. CASE Accepter(s)
    <3>1. [session[s] EXCEPT !.etape = "ecrire"] \in Requete
      BY DEF Requete
    <3> QED
      BY <2>2, <3>1 DEF Accepter, Requete
  <2> QED
    BY <2>1, <2>2
<1>4. \A u \in Session : session'[u] = IF u = s THEN r ELSE session[u]
  BY <1>3
<1>5. \/ /\ cle' = [code |-> lu.code, essais |-> lu.essais + 1] /\ acceptes' = acceptes
      \/ /\ cle' = Absente /\ acceptes' = Compter(acceptes, lu.code)
  BY DEF Refuser, Accepter, EcritCle, Essai
<1>6. /\ essais' \in [Code -> Nat] /\ acceptes' \in [Code -> Nat]
      /\ essais'[lu.code] = essais[lu.code] + 1
      /\ acceptes'[lu.code] \in {acceptes[lu.code], acceptes[lu.code] + 1}
      /\ cle' # Absente => acceptes' = acceptes
      /\ \A c \in Code : c # lu.code => essais'[c] = essais[c] /\ acceptes'[c] = acceptes[c]
  BY <1>1, <1>2, <1>5 DEF Compter
<1>7. cle' \in Cle /\ cle'.essais < Max /\ (cle' # Absente => cle'.code \in emis)
  BY <1>1, <1>2, <1>5 DEF Cle
<1>8. TypeOK'
  BY <1>1, <1>3, <1>6, <1>7
<1>9. Lus'
  BY <1>1, <1>3, <1>4 DEF Lus
<1>10. Histoire'
  BY <1>1, <1>2, <1>6, <1>7 DEF Histoire
<1>11. ASSUME ~chevauche
       PROVE  /\ lu.code = dernier /\ lu.essais = essais[dernier] /\ acceptes[dernier] = 0
              /\ \A u \in Session : ~(session[u].etape = "verrouiller" /\ session[u].lu.code = dernier)
  BY <1>1, <1>11, Lecture
<1>12. ASSUME ~chevauche'
       PROVE  /\ \A u \in Session : session'[u].etape # "conclure"
              /\ cle' # Absente => cle' = [code |-> dernier, essais |-> essais'[dernier]]
                                   /\ acceptes'[dernier] = 0
              /\ acceptes'[dernier] <= 1 /\ essais'[dernier] < Max
              /\ \A u \in Session : ~(session'[u].etape = "verrouiller" /\ session'[u].lu.code = dernier)
  <2>1. ~chevauche
    BY <1>1, <1>12
  <2>2. \A u \in Session : session'[u].etape # "conclure"
    BY <1>1, <1>3, <1>4, <1>12
  <2>3. essais'[dernier] = lu.essais + 1 /\ acceptes'[dernier] <= 1
    BY <1>6, <1>11, <2>1
  <2>4. cle' # Absente => cle' = [code |-> dernier, essais |-> lu.essais + 1] /\ acceptes'[dernier] = 0
    BY <1>5, <1>6, <1>11, <2>1
  <2>5. \A u \in Session : ~(session'[u].etape = "verrouiller" /\ session'[u].lu.code = dernier)
    BY <1>3, <1>4, <1>11, <2>1
  <2> QED
    BY <1>1, <2>2, <2>3, <2>4, <2>5
<1>13. Isolee'
  BY <1>1, <1>12 DEF Isolee
<1> QED
  BY <1>8, <1>9, <1>10, <1>13

-----------------------------------------------------------------------------
(* The theorems *)

THEOREM Inductif == Spec => []IInv
<1>1. IInv /\ [Next]_vars => IInv'
  <2> SUFFICES ASSUME IInv, [Next]_vars
               PROVE  IInv'
    OBVIOUS
  <2>1. CASE \E c \in Code : OtpSend(c) \/ PasswordForgot(c)
    BY <2>1, GenererOK DEF OtpSend, PasswordForgot
  <2>2. CASE ExpirerCle
    BY <2>2, ExpirerCleOK
  <2>3. CASE Inscrire \/ ExpirerVerrou \/ UNCHANGED vars
    BY <2>3 DEF Inscrire, ExpirerVerrou, vars, IInv, TypeOK, Lus, Histoire, Isolee
  <2>4. CASE \E s \in Session : Autre(s)
    BY <2>4, AutreOK
  <2>5. CASE \E s \in Session : Lire(s)
    BY <2>5, LireOK
  <2>6. CASE \E s \in Session : Effacer(s)
    BY <2>6, EffacerOK
  <2>7. CASE \E s \in Session : Refuser(s) \/ Accepter(s)
    BY <2>7, CompareOK
  <2> QED
    BY <2>1, <2>2, <2>3, <2>4, <2>5, <2>6, <2>7 DEF Next, Verifier, Autre
<1> QED
  BY <1>1, InitOK, PTL DEF Spec

\* The keys, the account and the requests keep their shape.
THEOREM TypeCorrect == Spec => []TypeOK
<1>1. IInv => TypeOK
  BY DEF IInv
<1> QED
  BY <1>1, Inductif, PTL

\* verify_otp puts an older code back only when it overlaps a new one.
THEOREM CodeCourant == Spec => []DernierCode
<1>1. IInv => DernierCode
  BY DEF IInv, Isolee, DernierCode
<1> QED
  BY <1>1, Inductif, PTL

\* The attempts kept with the code are the comparisons it went through.
THEOREM Comptage == Spec => []EssaisComptes
<1>1. IInv => EssaisComptes
  <2> SUFFICES ASSUME IInv
               PROVE  EssaisComptes
    OBVIOUS
  <2>1. ~chevauche /\ cle # Absente => cle.code = dernier /\ cle.essais = essais[dernier]
    BY DEF IInv, Isolee
  <2> QED
    BY <2>1 DEF IInv, Histoire, EssaisComptes
<1> QED
  BY <1>1, Inductif, PTL

\* Whatever the number of attempts allowed, an undisturbed code is accepted once.
THEOREM UneFois == Spec => []UsageUnique
<1>1. IInv => UsageUnique
  BY DEF IInv, Isolee, UsageUnique
<1> QED
  BY <1>1, Inductif, PTL

\* An undisturbed telephone is locked by Max - 1 comparisons that failed.
THEOREM Verrous == Spec => []VerrouMerite
<1>1. IInv => VerrouMerite
  BY DEF IInv, Isolee, VerrouMerite
<1> QED
  BY <1>1, Inductif, PTL

-----------------------------------------------------------------------------
(* Two verifications that overlap *)

\* For the code c: the attempts that the key holds, and those that the request s will
\* write back one more than; Max - 1, which allows no comparison, when there is none.
CleDe(c) == IF cle.code = c THEN cle.essais ELSE Max - 1
LuDe(s, c) ==
    IF s \in Session /\ session[s].etape = "conclure" /\ session[s].lu.code = c
    THEN session[s].lu.essais ELSE Max - 1

Plus(a, b)  == IF a >= b THEN a ELSE b
Moins(a, b) == IF a <= b THEN a ELSE b

Triangle(u) == u * (u + 1)

\* Twice the comparisons, and one more, that a code may still go through when the key
\* holds k attempts and two requests have read a and b.  The smallest of the three can be
\* written back last, when the others have gone up to Max - 1.
Reste(k, a, b) == 2 * (Max - Moins(k, Plus(a, b))) + Triangle(Max - 1 - Moins(k, Moins(a, b)))

\* Every comparison takes from what remains.
Epuise(p, q) ==
    \A c \in Code : 2 * essais[c] + Reste(CleDe(c), LuDe(p, c), LuDe(q, c)) <= Max * (Max + 1)

LEMMA TriangleProps ==
    /\ Triangle(0) = 0
    /\ \A u \in Nat : Triangle(u) \in Nat /\ Triangle(u + 1) = Triangle(u) + 2 * (u + 1)
    /\ \A u, w \in Nat : u <= w => Triangle(u) <= Triangle(w)
<1>1. \A u \in Nat : Triangle(u) \in Nat /\ Triangle(u + 1) = Triangle(u) + 2 * (u + 1)
  BY DEF Triangle
<1>2. ASSUME NEW u \in Nat, NEW w \in Nat, u <= w
      PROVE  Triangle(u) <= Triangle(w)
  <2>1. PICK d \in Nat : w = u + d
    <3>1. w - u \in Nat /\ w = u + (w - u)
      BY <1>2
    <3> QED
      BY <3>1
  <2>2. u * d \in Nat /\ d * d \in Nat
    OBVIOUS
  <2>3. Triangle(w) = Triangle(u) + 2 * (u * d) + d * d + d
    BY <2>1, <2>2 DEF Triangle
  <2>4. Triangle(u) \in Nat
    BY <1>1
  <2> QED
    BY <2>2, <2>3, <2>4
<1> QED
  BY <1>1, <1>2 DEF Triangle

Compteur == 0..(Max - 1)

\* Less remains when the key or a reading is replaced by a higher one.
LEMMA ResteMonotone ==
    ASSUME NEW k \in Compteur, NEW a \in Compteur, NEW b \in Compteur,
           NEW l \in Compteur, NEW d \in Compteur, NEW e \in Compteur,
           k <= l, a <= d, b <= e
    PROVE  Reste(l, d, e) <= Reste(k, a, b)
<1> DEFINE x == Moins(k, Moins(a, b))
           y == Moins(k, Plus(a, b))
           z == Moins(l, Moins(d, e))
           t == Moins(l, Plus(d, e))
<1>1. /\ x \in Compteur /\ y \in Compteur /\ z \in Compteur /\ t \in Compteur
      /\ x <= z /\ y <= t
  BY MaxAssumption DEF Compteur, Moins, Plus
<1> HIDE DEF x, y, z, t
<1>2. Max - 1 - z \in Nat /\ Max - 1 - x \in Nat /\ Max - 1 - z <= Max - 1 - x
  BY <1>1, MaxAssumption DEF Compteur
<1>3. /\ Triangle(Max - 1 - z) <= Triangle(Max - 1 - x)
      /\ Triangle(Max - 1 - z) \in Nat /\ Triangle(Max - 1 - x) \in Nat
  BY <1>2, TriangleProps
<1>4. 2 * (Max - t) + Triangle(Max - 1 - z) <= 2 * (Max - y) + Triangle(Max - 1 - x)
  BY <1>1, <1>3, MaxAssumption DEF Compteur
<1> QED
  BY <1>4 DEF Reste, x, y, z, t

LEMMA ResteSymetrique ==
    ASSUME NEW k \in Compteur, NEW a \in Compteur, NEW b \in Compteur
    PROVE  Reste(k, a, b) = Reste(k, b, a)
<1>1. Moins(a, b) = Moins(b, a) /\ Plus(a, b) = Plus(b, a)
  BY DEF Moins, Plus, Compteur
<1> QED
  BY <1>1 DEF Reste

\* A request that reads the key adds nothing.
LEMMA ResteLire ==
    ASSUME NEW k \in Compteur, NEW b \in Compteur
    PROVE  Reste(k, k, b) = Reste(k, Max - 1, b)
<1>1. /\ Moins(k, Plus(k, b)) = Moins(k, Plus(Max - 1, b))
      /\ Moins(k, Moins(k, b)) = Moins(k, Moins(Max - 1, b))
  BY MaxAssumption DEF Moins, Plus, Compteur
<1> QED
  BY <1>1 DEF Reste

\* A request that compares the code, and writes it back with one attempt more or removes
\* it, leaves one comparison less.
LEMMA ResteComparer ==
    ASSUME NEW k \in Compteur, NEW a \in Compteur, NEW b \in Compteur, a + 1 < Max
    PROVE  /\ 2 + Reste(a + 1, Max - 1, b) <= Reste(k, a, b)
           /\ 2 + Reste(Max - 1, Max - 1, b) <= Reste(k, a, b)
<1>1. a + 1 \in Compteur /\ Max - 1 \in Compteur /\ b <= b /\ k <= Max - 1 /\ a + 1 <= Max - 1
      /\ Max - 1 <= Max - 1 /\ a <= a /\ Max \in Int
  BY MaxAssumption DEF Compteur
<1>2. Reste(Max - 1, a, b) <= Reste(k, a, b)
  BY <1>1, ResteMonotone
<1>3. Reste(Max - 1, Max - 1, b) <= Reste(a + 1, Max - 1, b)
  BY <1>1, ResteMonotone
<1>4. 2 + Reste(a + 1, Max - 1, b) <= Reste(Max - 1, a, b)
  <2> DEFINE u == Max - 1 - Moins(a + 1, b)
  <2>1. CASE b <= a
    <3>1. /\ Reste(a + 1, Max - 1, b) = 2 * (Max - (a + 1)) + Triangle(Max - 1 - b)
          /\ Reste(Max - 1, a, b) = 2 * (Max - a) + Triangle(Max - 1 - b)
      <4>1. /\ Moins(a + 1, Plus(Max - 1, b)) = a + 1 /\ Moins(a + 1, Moins(Max - 1, b)) = b
            /\ Moins(Max - 1, Plus(a, b)) = a /\ Moins(Max - 1, Moins(a, b)) = b
        BY <1>1, <2>1 DEF Compteur, Moins, Plus
      <4> QED
        BY <4>1 DEF Reste
    <3>2. Max - 1 - b \in Nat
      BY <1>1 DEF Compteur
    <3>3. Triangle(Max - 1 - b) \in Nat
      BY <3>2, TriangleProps
    <3> QED
      BY <1>1, <3>1, <3>3 DEF Compteur
  <2>2. CASE a < b
    <3> DEFINE w == Max - 1 - (a + 1)
    <3>1. /\ Reste(a + 1, Max - 1, b) = 2 * (Max - (a + 1)) + Triangle(w)
          /\ Reste(Max - 1, a, b) = 2 * (Max - b) + Triangle(w + 1)
      <4>1. /\ Moins(a + 1, Plus(Max - 1, b)) = a + 1 /\ Moins(a + 1, Moins(Max - 1, b)) = a + 1
            /\ Moins(Max - 1, Plus(a, b)) = b /\ Moins(Max - 1, Moins(a, b)) = a
            /\ Max - 1 - a = w + 1
        BY <1>1, <2>2 DEF Compteur, Moins, Plus
      <4> HIDE DEF w
      <4>2. Reste(a + 1, Max - 1, b) = 2 * (Max - (a + 1)) + Triangle(Max - 1 - (a + 1))
        BY <4>1 DEF Reste
      <4>3. Reste(Max - 1, a, b) = 2 * (Max - b) + Triangle(w + 1)
        BY <4>1 DEF Reste
      <4> QED
        BY <4>2, <4>3 DEF w
    <3>2. w \in Nat
      BY <1>1 DEF Compteur
    <3>3. Triangle(w) \in Nat /\ Triangle(w + 1) = Triangle(w) + 2 * (w + 1)
      BY <3>2, TriangleProps
    <3>4. b <= Max - 1 /\ b \in Int /\ a \in Int
      BY <1>1 DEF Compteur
    <3> QED
      BY <1>1, <3>1, <3>3, <3>4
  <2>3. a \in Int /\ b \in Int
    BY DEF Compteur
  <2> QED
    BY <2>1, <2>2, <2>3
<1>5. /\ Reste(k, a, b) \in Int /\ Reste(Max - 1, a, b) \in Int
      /\ Reste(a + 1, Max - 1, b) \in Int /\ Reste(Max - 1, Max - 1, b) \in Int
  <2>1. ASSUME NEW i \in Compteur, NEW j \in Compteur, NEW h \in Compteur
        PROVE  Reste(i, j, h) \in Int
    <3>1. Max - 1 - Moins(i, Moins(j, h)) \in Nat /\ 2 * (Max - Moins(i, Plus(j, h))) \in Int
      BY <1>1 DEF Compteur, Moins, Plus
    <3>2. Triangle(Max - 1 - Moins(i, Moins(j, h))) \in Nat
      BY <3>1, TriangleProps
    <3> QED
      BY <3>1, <3>2 DEF Reste
  <2> QED
    BY <1>1, <2>1
<1> QED
  BY <1>2, <1>3, <1>4, <1>5

Comptes ==
    \A c \in Code : /\ CleDe(c) \in Compteur /\ essais[c] \in Nat
                    /\ \A s : LuDe(s, c) \in Compteur

LEMMA ComptesOK == IInv => Comptes
<1> SUFFICES ASSUME IInv
             PROVE  Comptes
  OBVIOUS
<1>1. \A n \in Nat : n < Max => n \in Compteur
  BY MaxAssumption DEF Compteur
<1>2. cle.essais \in Compteur
  BY <1>1 DEF IInv, TypeOK, Cle, Histoire
<1>3. ASSUME NEW s \in Session, session[s].etape = "conclure"
      PROVE  session[s].lu.essais \in Compteur
  <2>1. session[s].lu \in Cle /\ session[s].lu.essais < Max
    BY <1>3 DEF IInv, TypeOK, Requete, Lus
  <2> QED
    BY <1>1, <2>1 DEF Cle
<1>4. Max - 1 \in Compteur
  BY MaxAssumption DEF Compteur
<1> QED
  BY <1>2, <1>3, <1>4 DEF Comptes, CleDe, LuDe, IInv, TypeOK

LEMMA ComptesSuite == IInv' => Comptes'
  BY ComptesOK, PTL

LEMMA EpuiseSymetrique ==
    ASSUME IInv, NEW p, NEW q, Epuise(p, q)
    PROVE  Epuise(q, p)
<1>1. \A c \in Code : Reste(CleDe(c), LuDe(p, c), LuDe(q, c)) = Reste(CleDe(c), LuDe(q, c), LuDe(p, c))
  BY ComptesOK, ResteSymetrique DEF Comptes
<1> QED
  BY <1>1 DEF Epuise

LEMMA ResteEntier ==
    ASSUME NEW k \in Compteur, NEW a \in Compteur, NEW b \in Compteur
    PROVE  Reste(k, a, b) \in Int /\ Reste(k, a, b) >= 2
<1> DEFINE x == Max - 1 - Moins(k, Moins(a, b))
           y == Max - Moins(k, Plus(a, b))
<1>1. x \in Nat /\ y \in Int /\ y >= 1
  BY MaxAssumption DEF Compteur, Moins, Plus
<1>2. Reste(k, a, b) = 2 * y + Triangle(x)
  BY DEF Reste
<1> HIDE DEF x, y
<1>3. Triangle(x) \in Nat
  BY <1>1, TriangleProps
<1> QED
  BY <1>1, <1>2, <1>3

\* A step without a comparison, after which nothing lower can be written back.
LEMMA EpuiseBaisse ==
    ASSUME IInv, IInv', NEW p, NEW q, Epuise(p, q), UNCHANGED essais,
           \A c \in Code : /\ CleDe(c)' >= CleDe(c)
                           /\ LuDe(p, c)' >= LuDe(p, c) /\ LuDe(q, c)' >= LuDe(q, c)
    PROVE  Epuise(p, q)'
<1> SUFFICES ASSUME NEW c \in Code
             PROVE  2 * essais[c] + Reste(CleDe(c)', LuDe(p, c)', LuDe(q, c)') <= Max * (Max + 1)
  BY DEF Epuise
<1> DEFINE k == CleDe(c)
           a == LuDe(p, c)
           b == LuDe(q, c)
<1>1. /\ k \in Compteur /\ a \in Compteur /\ b \in Compteur /\ essais[c] \in Nat
      /\ k' \in Compteur /\ a' \in Compteur /\ b' \in Compteur
      /\ k <= k' /\ a <= a' /\ b <= b'
  <2>1. Comptes /\ Comptes'
    BY ComptesOK, ComptesSuite
  <2> QED
    BY <2>1 DEF Comptes, Compteur
<1>2. 2 * essais[c] + Reste(k, a, b) <= Max * (Max + 1)
  BY DEF Epuise
<1> HIDE DEF k, a, b
<1>3. Reste(k', a', b') <= Reste(k, a, b)
  BY <1>1, ResteMonotone
<1>4. Reste(k', a', b') \in Int /\ Reste(k, a, b) \in Int /\ Max * (Max + 1) \in Int
  BY <1>1, ResteEntier, MaxAssumption
<1>5. 2 * essais[c] + Reste(k', a', b') <= Max * (Max + 1)
  BY <1>1, <1>2, <1>3, <1>4
<1> QED
  BY <1>5 DEF k, a, b

LEMMA EpuiseGenerer ==
    ASSUME IInv, IInv', NEW p, NEW q, Epuise(p, q), NEW c \in Code, GenerateAndStoreOtp(c)
    PROVE  Epuise(p, q)'
<1> SUFFICES ASSUME NEW d \in Code
             PROVE  2 * essais'[d] + Reste(CleDe(d)', LuDe(p, d)', LuDe(q, d)') <= Max * (Max + 1)
  BY DEF Epuise
<1>1. /\ c \notin emis /\ cle' = [code |-> c, essais |-> 0]
      /\ UNCHANGED <<session, essais>>
  BY DEF GenerateAndStoreOtp
<1>2. LuDe(p, d)' = LuDe(p, d) /\ LuDe(q, d)' = LuDe(q, d)
  BY <1>1 DEF LuDe
<1>3. Comptes /\ Comptes'
  BY ComptesOK, ComptesSuite
<1>4. CASE d = c
  <2>1. essais[c] = 0 /\ LuDe(p, c) = Max - 1 /\ LuDe(q, c) = Max - 1 /\ CleDe(c)' = 0
    BY <1>1 DEF IInv, Histoire, Lus, LuDe, CleDe
  <2>2. Reste(0, Max - 1, Max - 1) = Max * (Max + 1)
    <3>1. Moins(0, Plus(Max - 1, Max - 1)) = 0 /\ Moins(0, Moins(Max - 1, Max - 1)) = 0
      BY MaxAssumption DEF Moins, Plus
    <3>2. Reste(0, Max - 1, Max - 1) = 2 * (Max - 0) + Triangle(Max - 1 - 0)
      BY <3>1 DEF Reste
    <3>3. Max - 1 - 0 = Max - 1 /\ (Max - 1) * (Max - 1 + 1) = Max * Max - Max
          /\ Max * (Max + 1) = Max * Max + Max /\ Max * Max \in Int
      BY MaxAssumption
    <3> QED
      BY <3>2, <3>3, MaxAssumption DEF Triangle
  <2>3. Max * (Max + 1) \in Int
    BY MaxAssumption
  <2> QED
    BY <1>1, <1>2, <1>4, <2>1, <2>2, <2>3
<1>5. CASE d # c
  <2>1. CleDe(d)' = Max - 1
    BY <1>1, <1>5 DEF CleDe
  <2> DEFINE k == CleDe(d)
             a == LuDe(p, d)
             b == LuDe(q, d)
  <2>2. k \in Compteur /\ a \in Compteur /\ b \in Compteur /\ essais[d] \in Nat
    BY <1>3 DEF Comptes
  <2>3. 2 * essais[d] + Reste(k, a, b) <= Max * (Max + 1)
    BY DEF Epuise
  <2> HIDE DEF k, a, b
  <2>4. Max - 1 \in Compteur /\ k <= Max - 1 /\ a <= a /\ b <= b
    BY <2>2, MaxAssumption DEF Compteur
  <2>5. Reste(Max - 1, a, b) <= Reste(k, a, b)
    BY <2>2, <2>4, ResteMonotone
  <2>6. Reste(Max - 1, a, b) \in Int /\ Reste(k, a, b) \in Int /\ Max * (Max + 1) \in Int
    BY <2>2, <2>4, ResteEntier, MaxAssumption
  <2>7. 2 * essais[d] + Reste(Max - 1, a, b) <= Max * (Max + 1)
    BY <2>2, <2>3, <2>5, <2>6
  <2> QED
    BY <1>1, <1>2, <2>1, <2>7 DEF a, b
<1> QED
  BY <1>4, <1>5

LEMMA EpuiseComparer ==
    ASSUME IInv, IInv', NEW p \in Session, NEW q, q # p, Epuise(p, q), Refuser(p) \/ Accepter(p)
    PROVE  Epuise(p, q)'
<1> DEFINE lu == session[p].lu
<1>1. /\ session[p].etape = "conclure" /\ lu.essais + 1 < Max /\ essais' = Compter(essais, lu.code)
      /\ \/ cle' = [code |-> lu.code, essais |-> lu.essais + 1]
         \/ cle' = Absente
  BY DEF Refuser, Accepter, EcritCle, A_Lu, Essai
<1>2. lu \in Cle /\ lu.code \in Code
  BY <1>1, Lecture DEF IInv, TypeOK
<1>3. session'[p].etape # "conclure" /\ \A s \in Session \ {p} : session'[s] = session[s]
  BY LibreRequete DEF Refuser, Accepter, IInv, TypeOK, Requete
<1>4. \A d \in Code : LuDe(p, d)' = Max - 1 /\ LuDe(q, d)' = LuDe(q, d)
  BY <1>3 DEF LuDe
<1>5. Comptes /\ Comptes'
  BY ComptesOK, ComptesSuite
<1> SUFFICES ASSUME NEW d \in Code
             PROVE  2 * essais'[d] + Reste(CleDe(d)', LuDe(p, d)', LuDe(q, d)') <= Max * (Max + 1)
  BY DEF Epuise
<1> DEFINE k == CleDe(d)
           a == LuDe(p, d)
           b == LuDe(q, d)
<1>6. k \in Compteur /\ a \in Compteur /\ b \in Compteur /\ essais[d] \in Nat
      /\ CleDe(d)' \in Compteur
  BY <1>5 DEF Comptes
<1>7. 2 * essais[d] + Reste(k, a, b) <= Max * (Max + 1)
  BY DEF Epuise
<1>8. Max - 1 \in Compteur /\ Max \in Int /\ Max * (Max + 1) \in Int
  BY MaxAssumption DEF Compteur
<1>9. CASE d = lu.code
  <2>1. a = lu.essais /\ a + 1 < Max
    BY <1>1, <1>9 DEF LuDe
  <2>2. essais'[d] = essais[d] + 1 /\ CleDe(d)' \in {a + 1, Max - 1}
    <3>1. essais'[d] = essais[d] + 1
      BY <1>1, <1>9 DEF Compter, IInv, TypeOK
    <3>2. CleDe(d)' \in {lu.essais + 1, Max - 1}
      BY <1>1, <1>9, AbsenteCle, AucunAssumption DEF CleDe
    <3> QED
      BY <2>1, <3>1, <3>2
  <2>3. CleDe(d)' \in Compteur
    BY <1>6
  <2> DEFINE h == CleDe(d)'
  <2> HIDE DEF k, a, b, h
  <2>4. 2 + Reste(h, Max - 1, b) <= Reste(k, a, b)
    BY <1>6, <2>1, <2>2, ResteComparer DEF h
  <2>5. Reste(h, Max - 1, b) \in Int /\ Reste(k, a, b) \in Int
    BY <1>6, <1>8, <2>3, ResteEntier DEF h
  <2>6. 2 * essais'[d] + Reste(h, Max - 1, b) <= Max * (Max + 1)
    BY <1>6, <1>7, <1>8, <2>2, <2>4, <2>5
  <2> QED
    BY <1>4, <2>6 DEF h, b
<1>10. CASE d # lu.code
  <2>1. essais'[d] = essais[d] /\ CleDe(d)' = Max - 1
    BY <1>1, <1>2, <1>10, AbsenteCle, AucunAssumption DEF Compter, IInv, TypeOK, CleDe
  <2> HIDE DEF k, a, b
  <2>2. k <= Max - 1 /\ a <= Max - 1 /\ b <= b
    BY <1>6, <1>8 DEF Compteur
  <2>3. Reste(Max - 1, Max - 1, b) <= Reste(k, a, b)
    BY <1>6, <1>8, <2>2, ResteMonotone
  <2>4. Reste(Max - 1, Max - 1, b) \in Int /\ Reste(k, a, b) \in Int
    BY <1>6, <1>8, ResteEntier
  <2>5. 2 * essais[d] + Reste(Max - 1, Max - 1, b) <= Max * (Max + 1)
    BY <1>6, <1>7, <1>8, <2>3, <2>4
  <2> QED
    BY <1>4, <2>1, <2>5 DEF b
<1> QED
  BY <1>9, <1>10

LEMMA EpuiseLire ==
    ASSUME IInv, IInv', NEW p \in Session, NEW q, q # p, Epuise(p, q), Lire(p), cle # Absente
    PROVE  Epuise(p, q)'
<1> SUFFICES ASSUME NEW d \in Code
             PROVE  2 * essais'[d] + Reste(CleDe(d)', LuDe(p, d)', LuDe(q, d)') <= Max * (Max + 1)
  BY DEF Epuise
<1>1. /\ session[p].etape = "lire" /\ UNCHANGED <<cle, essais>>
      /\ session' = [session EXCEPT ![p] = [session[p] EXCEPT !.etape = "conclure", !.lu = cle]]
  BY DEF Lire
<1>2. /\ session'[p].etape = "conclure" /\ session'[p].lu = cle
      /\ \A s \in Session \ {p} : session'[s] = session[s]
  BY <1>1 DEF IInv, TypeOK, Requete
<1>3. LuDe(p, d)' = CleDe(d) /\ LuDe(q, d)' = LuDe(q, d) /\ CleDe(d)' = CleDe(d)
      /\ LuDe(p, d) = Max - 1
  BY <1>1, <1>2 DEF LuDe, CleDe
<1>4. CleDe(d) \in Compteur /\ LuDe(q, d) \in Compteur
  BY ComptesOK DEF Comptes
<1>5. Reste(CleDe(d), CleDe(d), LuDe(q, d)) = Reste(CleDe(d), Max - 1, LuDe(q, d))
  BY <1>4, ResteLire
<1>6. 2 * essais[d] + Reste(CleDe(d), LuDe(p, d), LuDe(q, d)) <= Max * (Max + 1)
  BY DEF Epuise
<1> QED
  BY <1>1, <1>3, <1>5, <1>6

\* The step of one of the two requests, which another may overlap.
LEMMA EpuiseRequete ==
    ASSUME IInv, IInv', NEW p \in Session, NEW q, q # p, Epuise(p, q),
           Autre(p) \/ Lire(p) \/ Effacer(p) \/ Refuser(p) \/ Accepter(p)
    PROVE  Epuise(p, q)'
<1>1. Comptes
  BY ComptesOK
<1>2. CASE Refuser(p) \/ Accepter(p)
  BY <1>2, EpuiseComparer
<1>3. CASE Lire(p) /\ cle # Absente
  BY <1>3, EpuiseLire
<1>4. CASE Autre(p) \/ Effacer(p) \/ (Lire(p) /\ cle = Absente)
  <2>1. UNCHANGED essais /\ cle' \in {cle, Absente}
    BY <1>4 DEF Autre, Commencer, Verrouiller, Activer, Reinitialiser, Interrompre, Effacer, Lire, EcritCle
  <2>2. session'[p].etape # "conclure" /\ \A s \in Session \ {p} : session'[s] = session[s]
    <3>1. \E r : session' = [session EXCEPT ![p] = r] /\ r.etape # "conclure"
      <4>1. CASE Autre(p) \/ (Lire(p) /\ cle = Absente)
        BY <4>1, LibreRequete DEF Autre, Commencer, Verrouiller, Activer, Reinitialiser, Interrompre, Lire
      <4>2. CASE Effacer(p)
        <5>1. session' = [session EXCEPT ![p] = [session[p] EXCEPT !.etape = "verrouiller"]]
          BY <4>2 DEF Effacer
        <5>2. [session[p] EXCEPT !.etape = "verrouiller"].etape # "conclure"
          BY DEF IInv, TypeOK, Requete
        <5> QED
          BY <5>1, <5>2
      <4> QED
        BY <1>4, <4>1, <4>2
    <3> QED
      BY <3>1 DEF IInv, TypeOK
  <2>3. ASSUME NEW d \in Code
        PROVE  /\ CleDe(d)' \in {CleDe(d), Max - 1}
               /\ LuDe(p, d)' = Max - 1 /\ LuDe(q, d)' = LuDe(q, d)
    BY <2>1, <2>2, AbsenteCle, AucunAssumption DEF CleDe, LuDe
  <2>4. \A d \in Code : /\ CleDe(d)' >= CleDe(d)
                        /\ LuDe(p, d)' >= LuDe(p, d) /\ LuDe(q, d)' >= LuDe(q, d)
    <3> SUFFICES ASSUME NEW d \in Code
                 PROVE  /\ CleDe(d)' >= CleDe(d)
                        /\ LuDe(p, d)' >= LuDe(p, d) /\ LuDe(q, d)' >= LuDe(q, d)
      OBVIOUS
    <3>1. CleDe(d) \in Compteur /\ LuDe(p, d) \in Compteur /\ LuDe(q, d) \in Compteur
      BY <1>1 DEF Comptes
    <3>2. \A n \in Compteur : Max - 1 >= n /\ n >= n
      BY MaxAssumption DEF Compteur
    <3> QED
      BY <2>3, <3>1, <3>2
  <2> QED
    BY <2>1, <2>4, EpuiseBaisse
<1> QED
  BY <1>2, <1>3, <1>4

LEMMA EpuiseSymetriqueSuite ==
    ASSUME IInv', NEW CONSTANT p, NEW CONSTANT q, Epuise(q, p)'
    PROVE  Epuise(p, q)'
<1>1. \A c \in Code : Reste(CleDe(c)', LuDe(p, c)', LuDe(q, c)') = Reste(CleDe(c)', LuDe(q, c)', LuDe(p, c)')
  BY ComptesSuite, ResteSymetrique DEF Comptes
<1> QED
  BY <1>1 DEF Epuise

LEMMA EpuiseSuite ==
    ASSUME IInv, IInv', [Next]_vars, NEW CONSTANT p, NEW CONSTANT q, p # q,
           Session \subseteq {p, q}, Epuise(p, q)
    PROVE  Epuise(p, q)'
<1>1. ASSUME NEW c \in Code, OtpSend(c) \/ PasswordForgot(c)
      PROVE  Epuise(p, q)'
  BY <1>1, EpuiseGenerer DEF OtpSend, PasswordForgot
<1>2. ASSUME NEW s \in Session, Verifier(s) \/ Interrompre(s)
      PROVE  Epuise(p, q)'
  <2>1. Autre(s) \/ Lire(s) \/ Effacer(s) \/ Refuser(s) \/ Accepter(s)
    BY <1>2 DEF Verifier, Autre
  <2>2. CASE s = p
    BY <2>1, <2>2, EpuiseRequete
  <2>3. CASE s = q
    <3>1. Epuise(q, p)
      BY EpuiseSymetrique
    <3>2. Epuise(q, p)'
      BY <2>1, <2>3, <3>1, EpuiseRequete
    <3> QED
      BY <3>2, EpuiseSymetriqueSuite
  <2> QED
    BY <2>2, <2>3
<1>3. CASE Inscrire \/ ExpirerCle \/ ExpirerVerrou \/ UNCHANGED vars
  <2>1. UNCHANGED <<essais, session>> /\ cle' \in {cle, Absente}
    BY <1>3 DEF Inscrire, ExpirerCle, ExpirerVerrou, EcritCle, vars
  <2>2. ASSUME NEW d \in Code
        PROVE  /\ CleDe(d)' >= CleDe(d)
               /\ LuDe(p, d)' >= LuDe(p, d) /\ LuDe(q, d)' >= LuDe(q, d)
    <3>1. CleDe(d)' \in {CleDe(d), Max - 1} /\ LuDe(p, d)' = LuDe(p, d) /\ LuDe(q, d)' = LuDe(q, d)
      BY <2>1, AbsenteCle, AucunAssumption DEF CleDe, LuDe
    <3>2. CleDe(d) \in Compteur /\ LuDe(p, d) \in Compteur /\ LuDe(q, d) \in Compteur
      BY ComptesOK DEF Comptes
    <3>3. \A n \in Compteur : Max - 1 >= n /\ n >= n
      BY MaxAssumption DEF Compteur
    <3> QED
      BY <3>1, <3>2, <3>3
  <2> QED
    BY <2>1, <2>2, EpuiseBaisse
<1> QED
  BY <1>1, <1>2, <1>3 DEF Next

LEMMA EpuiseInit ==
    ASSUME Init, NEW p, NEW q
    PROVE  Epuise(p, q)
<1> SUFFICES ASSUME NEW c \in Code
             PROVE  2 * essais[c] + Reste(CleDe(c), LuDe(p, c), LuDe(q, c)) <= Max * (Max + 1)
  BY DEF Epuise
<1>1. /\ essais[c] = 0 /\ CleDe(c) = Max - 1 /\ LuDe(p, c) = Max - 1 /\ LuDe(q, c) = Max - 1
  BY AbsenteCle, LibreRequete, AucunAssumption DEF Init, CleDe, LuDe
<1>2. Reste(Max - 1, Max - 1, Max - 1) = 2
  <2>1. /\ Moins(Max - 1, Plus(Max - 1, Max - 1)) = Max - 1
        /\ Moins(Max - 1, Moins(Max - 1, Max - 1)) = Max - 1
    BY MaxAssumption DEF Moins, Plus
  <2>2. Reste(Max - 1, Max - 1, Max - 1) = 2 * (Max - (Max - 1)) + Triangle(Max - 1 - (Max - 1))
    BY <2>1 DEF Reste
  <2>3. Max - 1 - (Max - 1) = 0 /\ Max - (Max - 1) = 1
    BY MaxAssumption
  <2> QED
    BY <2>2, <2>3, TriangleProps
<1>3. Max * (Max + 1) >= 2
  <2>1. Max * Max \in Nat /\ Max * (Max + 1) = Max * Max + Max
    BY MaxAssumption
  <2> QED
    BY <2>1, MaxAssumption
<1> QED
  BY <1>1, <1>2, <1>3

\* Two names are enough for two requests.
LEMMA DeuxRequetes ==
    ASSUME Cardinality(Session) <= 2
    PROVE  \E p, q : p # q /\ Session \subseteq {p, q}
<1>1. CASE Session = {}
  <2>1. {} # {{}} /\ Session \subseteq {{}, {{}}}
    BY <1>1
  <2> QED
    BY <2>1, Zenon
<1>2. ASSUME NEW p \in Session
      PROVE  \E q : p # q /\ Session \subseteq {p, q}
  <2>1. CASE Session \ {p} = {}
    <3>1. p # {p} \/ p # {}
      OBVIOUS
    <3>2. Session \subseteq {p, {p}} /\ Session \subseteq {p, {}}
      BY <2>1
    <3> QED
      BY <3>1, <3>2, Zenon
  <2>2. ASSUME NEW q \in Session \ {p}
        PROVE  p # q /\ Session \subseteq {p, q}
    <3>1. ASSUME NEW r \in Session, r # p, r # q
          PROVE  FALSE
      <4>1. IsFiniteSet({p, q, r}) /\ Cardinality({p, q, r}) = 3
        <5>1. IsFiniteSet({}) /\ Cardinality({}) = 0
          BY FS_EmptySet
        <5>2. IsFiniteSet({p}) /\ Cardinality({p}) = 1
          BY FS_Singleton
        <5>3. {p} \cup {q} = {p, q} /\ q \notin {p} /\ {p, q} \cup {r} = {p, q, r} /\ r \notin {p, q}
          BY <2>2, <3>1
        <5>4. IsFiniteSet({p, q}) /\ Cardinality({p, q}) = 1 + 1
          BY <5>2, <5>3, FS_AddElement
        <5>5. IsFiniteSet({p, q, r}) /\ Cardinality({p, q, r}) = 1 + 1 + 1
          BY <5>3, <5>4, FS_AddElement
        <5> QED
          BY <5>5
      <4>2. {p, q, r} \subseteq Session
        OBVIOUS
      <4>3. Cardinality({p, q, r}) <= Cardinality(Session) /\ Cardinality(Session) \in Nat
        BY <4>2, SessionAssumption, FS_Subset, FS_CardinalityType
      <4> QED
        BY <4>1, <4>3
    <3> QED
      BY <2>2, <3>1
  <2> QED
    BY <2>1, <2>2, Zenon
<1> QED
  BY <1>1, <1>2, Zenon

\* Two verifications that overlap, which may each write back what the other
\* has already counted, compare a code a bounded number of times all the same.
THEOREM EssaisLimites == Spec => []EssaisBornes
<1>1. CASE ~(Cardinality(Session) <= 2)
  <2>1. EssaisBornes
    BY <1>1 DEF EssaisBornes
  <2> QED
    BY <2>1, PTL
<1>2. CASE Cardinality(Session) <= 2
  <2>1. PICK p, q : p # q /\ Session \subseteq {p, q}
    BY <1>2, DeuxRequetes
  <2>2. Init => Epuise(p, q)
    BY EpuiseInit
  <2>3. IInv /\ IInv' /\ [Next]_vars /\ Epuise(p, q) => Epuise(p, q)'
    BY <2>1, EpuiseSuite
  <2>4. IInv /\ Epuise(p, q) => EssaisBornes
    <3> SUFFICES ASSUME IInv, Epuise(p, q), NEW c \in Code
                 PROVE  2 * essais[c] <= Max * (Max + 1) - 2
      BY DEF EssaisBornes
    <3> DEFINE r == Reste(CleDe(c), LuDe(p, c), LuDe(q, c))
    <3>1. r \in Int /\ r >= 2 /\ essais[c] \in Nat
      BY ComptesOK, ResteEntier DEF Comptes
    <3>2. 2 * essais[c] + r <= Max * (Max + 1)
      BY DEF Epuise
    <3>3. Max * (Max + 1) \in Int
      BY MaxAssumption
    <3> HIDE DEF r
    <3> QED
      BY <3>1, <3>2, <3>3
  <2> QED
    BY <2>2, <2>3, <2>4, Inductif, PTL DEF Spec
<1> QED
  BY <1>1, <1>2
====
