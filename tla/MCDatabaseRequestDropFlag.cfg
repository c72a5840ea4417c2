SPECIFICATION Spec
CONSTANTS
    None = None
    n1 = n1
    n2 = n2
    r1 = r1
    r2 = r2
    s1 = s1
    Connections <- One
    Pool <- One
    Requests = {r1}
    SeedCredentials <- NoSeeds
    SeedDatabases <- NoSeeds
    Specs <- KeepDatabase
    Edits = {"force"}
    CacheLag = FALSE
    MaxConcurrentReconciles = 1
    MaxFaults = 0
    MaxOperations = 2
PROPERTIES
    NothingDropped
CHECK_DEADLOCK FALSE
