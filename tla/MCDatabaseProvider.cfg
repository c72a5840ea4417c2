SPECIFICATION FairSpec
CONSTANTS
    a = a
    b = b
    s1 = s1
    s2 = s2
    Names = {a, b}
    Servers = {s1, s2}
    Specs <- AllSpecs
    MaxFaults = 2
    MaxOperations = 3
INVARIANTS
    TypeOK
    ReadyServes
PROPERTIES
    SpecKept
    Converges
    DuplicatesReported
CHECK_DEADLOCK FALSE
