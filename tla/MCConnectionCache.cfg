SPECIFICATION Spec
CONSTANTS
    None = None
    Goroutines = {g1, g2, g3}
    DSNs = {d1, d2}
    MaxRaces = 2
SYMMETRY Symmetric
INVARIANTS
    TypeOK
    OpenedOnce
    NeverStale
