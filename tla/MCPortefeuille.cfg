SPECIFICATION FairSpec
CONSTANTS
    w1 = w1
    w2 = w2
    r1 = r1
    r2 = r2
    s1 = s1
    s2 = s2
    Wallet = {w1, w2}
    Recharge = {r1, r2}
    De <- MCDe
    Montant <- MCMontant
    Suivies = {r1}
    Session = {s1, s2}
    Montants = {1}
    MaxOperations = 2
    MaxCoupures = 1
INVARIANTS
    SoldeComptable
    Solvable
PROPERTY
    RechargeTraitee
CHECK_DEADLOCK FALSE
