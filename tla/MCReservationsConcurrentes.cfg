SPECIFICATION SpecC
CONSTANTS
    v1 = v1
    c1 = c1
    r1 = r1
    r2 = r2
    t1 = t1
    t2 = t2
    s1 = s1
    s2 = s2
    Aucun = Aucun
    Voyage = {v1}
    Chauffeur = {c1}
    Conducteur <- MCConducteur
    Resa = {r1, r2}
    Tx = {t1}
    TotalPlaces = {1, 2}
    PlacesDemandees = {1}
    Delai = 1
    MaxRestantes = 2
    PollStatuts <- PollSobre
    Session = {s1, s2}
SYMMETRY Symetrie
CONSTRAINT UneCourse
INVARIANTS
    TypeOKC
    PayeeAvantVisible
    SansMelange
PROPERTY
    Serialisable
    VieSansMelange
CHECK_DEADLOCK FALSE
