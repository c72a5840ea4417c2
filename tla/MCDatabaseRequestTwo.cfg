SPECIFICATION Spec
CONSTANTS
    None = None
    n1 = n1
    n2 = n2
    r1 = r1
    r2 = r2
    s1 = s1
    Connections <- One
    Pool <- One
    Requests = {r1, r2}
    SeedCredentials <- SeedUsers
    SeedDatabases <- SeedOnN1
    Specs <- SeededOrPlain
    Edits = {}
    CacheLag = FALSE
    MaxConcurrentReconciles = 2
    MaxFaults = 1
    MaxOperations = 4
SYMMETRY Symmetric
INVARIANTS
    RowsDistinct
PROPERTIES
    LiveDatabaseKept
    ServersUsed
CHECK_DEADLOCK FALSE
