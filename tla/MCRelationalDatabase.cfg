SPECIFICATION Spec
CONSTANTS
    None = None
    w1 = w1
    w2 = w2
    k1 = k1
    k2 = k2
    c1 = c1
    c2 = c2
    Names = {k1, k2}
    Workers = {w1, w2}
    Sessions = {c1, c2}
    Draws <- Colliding
    Seeds <- OneSeed
    MaxFaults = 1
    MaxCalls = 4
SYMMETRY Symmetric
INVARIANTS
    TypeOK
    CreatedUsable
    DroppedGone
PROPERTIES
    UsableKept
    Implements
CHECK_DEADLOCK FALSE
