SPECIFICATION Spec
CONSTANTS
    i1 = i1
    i2 = i2
    i3 = i3
    u1 = u1
    u2 = u2
    u3 = u3
    v1 = v1
    c1 = c1
    s1 = s1
    s2 = s2
    Aucun = Aucun
    Avis = {i1, i2, i3}
    Auteur = {u1, u2, u3}
    Voyage = {v1}
    Cible = {c1}
    Conducteur <- MCConducteur
    Note = {1, 2}
    Session = {s1, s2}
SYMMETRY Symetrie
INVARIANTS
    TypeOK
    NoteExacte
CHECK_DEADLOCK FALSE
