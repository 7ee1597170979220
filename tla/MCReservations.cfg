SPECIFICATION FairSpec
CONSTANTS
    v1 = v1
    v2 = v2
    c1 = c1
    r1 = r1
    r2 = r2
    t1 = t1
    t2 = t2
    Aucun = Aucun
    Voyage = {v1}
    Chauffeur = {c1}
    Conducteur <- MCConducteur
    Resa = {r1, r2}
    Tx = {t1, t2}
    TotalPlaces = {2}
    PlacesDemandees = {1, 2}
    Delai = 1
    MaxRestantes = 2
    PollStatuts <- StatutReservation
INVARIANTS
    CoherenceComplet
    PayeeAvantVisible
PROPERTIES
    VoyageClosFige
    TientLaPromesse
    PlacesLiberees
CHECK_DEADLOCK FALSE
