SPECIFICATION Spec
CONSTANTS
    a1 = a1
    a2 = a2
    d1 = d1
    d2 = d2
    t1 = t1
    t2 = t2
    s1 = s1
    s2 = s2
    Aucun = Aucun
    Compte = {a1, a2}
    Demande = {d1, d2}
    Tel = {t1, t2}
    Session = {s1, s2}
SYMMETRY Symetrie
INVARIANTS
    ProfilSsiChauffeur
    DemandeAvecCompte
PROPERTY
    RetourVoulu
CHECK_DEADLOCK FALSE
