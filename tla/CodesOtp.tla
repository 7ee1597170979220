------------------------------ MODULE CodesOtp ------------------------------
(***************************************************************************)
(* One-time codes of one telephone (utils/otp.py), with the requests that  *)
(* use them: otp/send, password/forgot, otp/verify and password/reset.     *)
(* Every key and every test is the telephone's own, so that one telephone  *)
(* says it all.                                                            *)
(*                                                                         *)
(* verify_otp is taken apart at its awaits: it sends one Redis command at  *)
(* a time and other requests run in between.  What it read of the key is   *)
(* kept with the request until the command that concludes it.  A key may   *)
(* expire at any moment, whatever its time to live.                        *)
(***************************************************************************)
EXTENDS Integers, FiniteSets

CONSTANTS
    Session,      \* the requests that can be in progress at once
    Code,         \* the codes that are generated, each once
    Aucun,        \* no code; submitted, a code that was never generated
    Max           \* OTP_MAX_ATTEMPTS

ASSUME SessionAssumption == IsFiniteSet(Session)
ASSUME AucunAssumption == Aucun \notin Code
ASSUME MaxAssumption   == Max \in Nat /\ Max > 1

VARIABLES
    cle,          \* otp:<telephone>
    verrou,       \* otp_lock:<telephone> exists
    compte,       \* the account of the telephone
    session,      \* what each request in progress has done and read
    emis,         \* history: the codes generated
    dernier,      \* history: the last one
    essais,       \* history: how often each code was compared with a submitted one
    acceptes,     \* history: how often each code was accepted
    chevauche     \* history: since the last code was generated, the key was
                  \* written while a request was about to act on what it had read

vars == <<cle, verrou, compte, session, emis, dernier, essais, acceptes, chevauche>>

Absente == [code |-> Aucun, essais |-> 0]
But     == {"verifier", "reinitialiser"}
Libre   == [etape |-> "libre", but |-> "verifier", soumis |-> Aucun, lu |-> Absente]

Cle     == [code : Code \cup {Aucun}, essais : Nat]
Requete == [etape : {"libre", "lire", "conclure", "verrouiller", "ecrire"},
            but : But, soumis : Code \cup {Aucun}, lu : Cle]

\* The keys, the account and the requests keep their shape.
TypeOK ==
    /\ cle \in Cle
    /\ verrou \in BOOLEAN
    /\ compte \in [existe : BOOLEAN, verifie : BOOLEAN, mdp : {"initial", "nouveau"}]
    /\ session \in [Session -> Requete]
    /\ emis \subseteq Code
    /\ dernier \in Code \cup {Aucun}
    /\ essais \in [Code -> Nat]
    /\ acceptes \in [Code -> Nat]
    /\ chevauche \in BOOLEAN

Init ==
    /\ cle = Absente
    /\ verrou = FALSE
    /\ compte = [existe |-> FALSE, verifie |-> FALSE, mdp |-> "initial"]
    /\ session = [s \in Session |-> Libre]
    /\ emis = {}
    /\ dernier = Aucun
    /\ essais = [c \in Code |-> 0]
    /\ acceptes = [c \in Code |-> 0]
    /\ chevauche = FALSE

A_Lu(s) == session[s].etape = "conclure"

\* The key is written by the request s, or by no request of verify_otp.
EcritCle(valeur, autres) ==
    /\ cle' = valeur
    /\ chevauche' = (chevauche \/ \E s \in autres : A_Lu(s))

-----------------------------------------------------------------------------
(* Codes *)

\* The first request of a telephone may come before its account.
Inscrire ==
    /\ ~compte.existe
    /\ compte' = [compte EXCEPT !.existe = TRUE]
    /\ UNCHANGED <<cle, verrou, session, emis, dernier, essais, acceptes, chevauche>>

\* One SET: a fresh code, no attempt, a fresh time to live.  The lock stays.
GenerateAndStoreOtp_mutGardeEssais(c) ==
    /\ c \in Code \ emis
    /\ cle' = [code |-> c, essais |-> cle.essais]
    /\ emis' = emis \cup {c}
    /\ dernier' = c
    /\ chevauche' = \E s \in Session : A_Lu(s)
    /\ UNCHANGED <<verrou, compte, session, essais, acceptes>>

GenerateAndStoreOtp(c) ==
    /\ c \in Code \ emis
    /\ cle' = [code |-> c, essais |-> 0]
    /\ emis' = emis \cup {c}
    /\ dernier' = c
    /\ chevauche' = \E s \in Session : A_Lu(s)
    /\ UNCHANGED <<verrou, compte, session, essais, acceptes>>

OtpSend(c)        == GenerateAndStoreOtp(c)
PasswordForgot(c) == compte.existe /\ GenerateAndStoreOtp(c)

ExpirerCle ==
    /\ cle # Absente
    /\ EcritCle(Absente, Session)
    /\ UNCHANGED <<verrou, compte, session, emis, dernier, essais, acceptes>>

ExpirerVerrou ==
    /\ verrou
    /\ verrou' = FALSE
    /\ UNCHANGED <<cle, compte, session, emis, dernier, essais, acceptes, chevauche>>

-----------------------------------------------------------------------------
(* verify_otp, one Redis command per action *)

Compter(f, c) == [f EXCEPT ![c] = @ + 1]

\* EXISTS on the lock; a locked telephone is answered at once.
Commencer(s, but, soumis) ==
    /\ session[s] = Libre
    /\ soumis \in emis \cup {Aucun}
    /\ ~verrou
    /\ session' = [session EXCEPT ![s] =
           [etape |-> "lire", but |-> but, soumis |-> soumis, lu |-> Absente]]
    /\ UNCHANGED <<cle, verrou, compte, emis, dernier, essais, acceptes, chevauche>>

\* GET on the code; without one the request is refused.
Lire(s) ==
    /\ session[s].etape = "lire"
    /\ session' = [session EXCEPT ![s] =
           IF cle = Absente THEN Libre ELSE [@ EXCEPT !.etape = "conclure", !.lu = cle]]
    /\ UNCHANGED <<cle, verrou, compte, emis, dernier, essais, acceptes, chevauche>>

Essai(s)   == session[s].lu.essais + 1
Correct(s) == session[s].soumis = session[s].lu.code

\* The attempt that reaches Max: the code is not even compared.
Effacer_mutTropTot(s) ==
    /\ A_Lu(s)
    /\ Essai(s) >= Max - 1
    /\ EcritCle(Absente, Session \ {s})
    /\ session' = [session EXCEPT ![s].etape = "verrouiller"]
    /\ UNCHANGED <<verrou, compte, emis, dernier, essais, acceptes>>

Effacer(s) ==
    /\ A_Lu(s)
    /\ Essai(s) >= Max
    /\ EcritCle(Absente, Session \ {s})
    /\ session' = [session EXCEPT ![s].etape = "verrouiller"]
    /\ UNCHANGED <<verrou, compte, emis, dernier, essais, acceptes>>

Verrouiller(s) ==
    /\ session[s].etape = "verrouiller"
    /\ verrou' = TRUE
    /\ session' = [session EXCEPT ![s] = Libre]
    /\ UNCHANGED <<cle, compte, emis, dernier, essais, acceptes, chevauche>>

\* The key is written back whole: the code as it was read, one attempt more.
Refuser_mutSansCompter(s) ==
    /\ A_Lu(s)
    /\ Essai(s) < Max
    /\ ~Correct(s)
    /\ EcritCle(session[s].lu, Session \ {s})
    /\ essais' = Compter(essais, session[s].lu.code)
    /\ session' = [session EXCEPT ![s] = Libre]
    /\ UNCHANGED <<verrou, compte, emis, dernier, acceptes>>

Refuser(s) ==
    /\ A_Lu(s)
    /\ Essai(s) < Max
    /\ ~Correct(s)
    /\ EcritCle([code |-> session[s].lu.code, essais |-> Essai(s)], Session \ {s})
    /\ essais' = Compter(essais, session[s].lu.code)
    /\ session' = [session EXCEPT ![s] = Libre]
    /\ UNCHANGED <<verrou, compte, emis, dernier, acceptes>>

Accepter_mutGardeCle(s) ==
    /\ A_Lu(s)
    /\ Essai(s) < Max
    /\ Correct(s)
    /\ EcritCle(cle, Session \ {s})
    /\ essais' = Compter(essais, session[s].lu.code)
    /\ acceptes' = Compter(acceptes, session[s].lu.code)
    /\ session' = [session EXCEPT ![s].etape = "ecrire"]
    /\ UNCHANGED <<verrou, compte, emis, dernier>>

Accepter(s) ==
    /\ A_Lu(s)
    /\ Essai(s) < Max
    /\ Correct(s)
    /\ EcritCle(Absente, Session \ {s})
    /\ essais' = Compter(essais, session[s].lu.code)
    /\ acceptes' = Compter(acceptes, session[s].lu.code)
    /\ session' = [session EXCEPT ![s].etape = "ecrire"]
    /\ UNCHANGED <<verrou, compte, emis, dernier>>

\* The account is written by a later commit, if there is one.
Activer(s) ==
    /\ session[s].etape = "ecrire"
    /\ session[s].but = "verifier"
    /\ compte' = [compte EXCEPT !.verifie = @ \/ compte.existe]
    /\ session' = [session EXCEPT ![s] = Libre]
    /\ UNCHANGED <<cle, verrou, emis, dernier, essais, acceptes, chevauche>>

Reinitialiser(s) ==
    /\ session[s].etape = "ecrire"
    /\ session[s].but = "reinitialiser"
    /\ compte' = [compte EXCEPT !.mdp = IF compte.existe THEN "nouveau" ELSE @]
    /\ session' = [session EXCEPT ![s] = Libre]
    /\ UNCHANGED <<cle, verrou, emis, dernier, essais, acceptes, chevauche>>

\* The worker stops, or Redis or the database fails: what was sent stays.
Interrompre(s) ==
    /\ session[s] # Libre
    /\ session' = [session EXCEPT ![s] = Libre]
    /\ UNCHANGED <<cle, verrou, compte, emis, dernier, essais, acceptes, chevauche>>

Verifier(s) ==
    \/ \E but \in But, soumis \in Code \cup {Aucun} : Commencer(s, but, soumis)
    \/ Lire(s)
    \/ Effacer(s)
    \/ Verrouiller(s)
    \/ Refuser(s)
    \/ Accepter(s)
    \/ Activer(s)
    \/ Reinitialiser(s)

Next ==
    \/ Inscrire
    \/ \E c \in Code : OtpSend(c) \/ PasswordForgot(c)
    \/ ExpirerCle
    \/ ExpirerVerrou
    \/ \E s \in Session : Verifier(s) \/ Interrompre(s)

Spec == Init /\ [][Next]_vars

-----------------------------------------------------------------------------
(* Properties *)

\* The code that a telephone may still submit is the last one generated for
\* it, unless a verification wrote back an older one that it had read.
DernierCode ==
    ~chevauche /\ cle # Absente => cle.code = dernier

\* The number of attempts kept with the code is the number of comparisons it
\* went through, and never reaches Max: none is forgotten and none is counted
\* twice as long as no two verifications overlap.
EssaisComptes ==
    /\ cle.essais < Max
    /\ ~chevauche /\ cle # Absente => cle.essais = essais[cle.code]

\* The last code is compared Max - 1 times at most, and accepted once, unless
\* verifications overlap.
UsageUnique ==
    ~chevauche /\ dernier # Aucun => acceptes[dernier] <= 1 /\ essais[dernier] < Max

\* A telephone is about to be locked for the last code only after Max - 1
\* comparisons of it that failed, unless verifications overlap.
VerrouMerite ==
    \A s \in Session :
        ~chevauche /\ session[s].etape = "verrouiller" /\ session[s].lu.code = dernier
            => essais[dernier] = Max - 1 /\ acceptes[dernier] = 0

\* Even when they overlap, two verifications at a time compare a code a bounded
\* number of times, about half the square of Max instead of Max - 1: what one of
\* them writes back is one more than what it read.
EssaisBornes ==
    Cardinality(Session) <= 2 =>
        \A c \in Code : 2 * essais[c] <= Max * (Max + 1) - 2
=============================================================================
