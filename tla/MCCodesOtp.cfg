SPECIFICATION Spec
CONSTANTS
    s1 = s1
    s2 = s2
    c1 = c1
    c2 = c2
    Aucun = Aucun
    Session = {s1, s2}
    Code = {c1, c2}
    Max = 3
SYMMETRY Symetrie
INVARIANTS
    EssaisComptes
    UsageUnique
    VerrouMerite
    EssaisBornes
CHECK_DEADLOCK FALSE
