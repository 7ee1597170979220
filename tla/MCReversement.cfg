SPECIFICATION FairSpec
CONSTANTS
    r1 = r1
    s1 = s1
    s2 = s2
    Resa = {r1}
    Total <- MCTotal
    Session = {s1, s2}
    Avoir = 1
    Montants = {1}
    MaxCoupures = 1
    MaxSorties = 1
INVARIANTS
    RevenuComptable
    VersementExact
    PaiementBorne
PROPERTY
    RequeteAboutit
