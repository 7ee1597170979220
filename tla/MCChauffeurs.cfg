SPECIFICATION Spec
CONSTANTS
    v1 = v1
    v2 = v2
    s1 = s1
    s2 = s2
    Voyage = {v1, v2}
    Session = {s1, s2}
    MaxDepots = 1
SYMMETRY Symetrie
INVARIANTS
    UnSeulActif
    DocsRevus
PROPERTY
    PublicationEnRegle
