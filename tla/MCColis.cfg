SPECIFICATION FairSpec
CONSTANTS
    v1 = v1
    k1 = k1
    k2 = k2
    t1 = t1
    t2 = t2
    Aucun = Aucun
    Voyage = {v1}
    Paquet = {k1, k2}
    Tx = {t1, t2}
    Delai = 1
    Forces = {k2}
INVARIANTS
    PayeOuValide
    TransitApresDepart
PROPERTIES
    RetourParPaiement
    TientLaPromesse
    AttenteBornee
CHECK_DEADLOCK FALSE
