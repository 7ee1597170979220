SPECIFICATION Spec
CONSTANTS
    v1 = v1
    v2 = v2
    c1 = c1
    r1 = r1
    r2 = r2
    t1 = t1
    t2 = t2
    Aucun = Aucun
    Voyage = {v1, v2}
    Chauffeur = {c1}
    Conducteur <- MCConducteur
    Resa = {r1, r2}
    Tx = {t1, t2}
    TotalPlaces = {2}
    PlacesDemandees = {1, 2}
    Delai = 1
    MaxRestantes = 3
    PollStatuts <- PollSobre
SYMMETRY Symetrie
INVARIANTS
    PasDeSurreservation
    ReversementExact
    EcritureUnique
PROPERTY
    TerminauxIrreversibles
CHECK_DEADLOCK FALSE
