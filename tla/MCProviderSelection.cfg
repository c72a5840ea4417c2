SPECIFICATION FairSpec
CONSTANTS
    None = None
    a = a
    b = b
    p = p
    q = q
    s1 = s1
    s2 = s2
    Requests = {r1}
    Servers = {s1, s2}
    Providers = {p, q}
    Names = {a, b}
    Specs <- AllSpecs
    Loads = {0, 1}
    MaxLoad = 2
    MaxFaults = 2
    MaxOperations = 3
INVARIANTS
    TypeOK
    ReferenceLocates
PROPERTIES
    CreatedOnLeast
    Settles
CHECK_DEADLOCK FALSE
