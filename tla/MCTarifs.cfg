SPECIFICATION Spec
CONSTANTS
    x1 = x1
    x2 = x2
    g1 = g1
    t1 = t1
    t2 = t2
    v1 = v1
    n1 = n1
    n2 = n2
    s1 = s1
    s2 = s2
    Aucun = Aucun
    Ville = {x1, x2}
    Gare = {g1}
    Tarif = {t1, t2}
    Voyage = {v1}
    Nom = {n1, n2}
    Prix = {1, 2}
    Session = {s1, s2}
SYMMETRY Symetrie
INVARIANTS
    PrixCoherents
PROPERTY
    PublieSousPlafond
CHECK_DEADLOCK FALSE
