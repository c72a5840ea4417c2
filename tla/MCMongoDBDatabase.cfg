SPECIFICATION Spec
CONSTANTS
    None = None
    w1 = w1
    w2 = w2
    k1 = k1
    k2 = k2
    long = long
    Names = {k1, k2, long}
    Workers = {w1, w2}
    Draws <- RandomDraws
    MaxFaults = 2
    MaxCalls = 4
SYMMETRY Symmetric
INVARIANTS
    TypeOK
    CreatedUsable
    DroppedGone
    
PROPERTIES
    UsableKept
CHECK_DEADLOCK FALSE
