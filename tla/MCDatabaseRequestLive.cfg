SPECIFICATION FairSpec
CONSTANTS
    None = None
    n1 = n1
    n2 = n2
    r1 = r1
    r2 = r2
    s1 = s1
    Connections <- One
    Pool <- One
    Requests = {r1}
    SeedCredentials <- NoSeeds
    SeedDatabases <- NoSeeds
    Specs <- MySQL
    Edits = {"force"}
    CacheLag = TRUE
    MaxConcurrentReconciles = 1
    MaxFaults = 2
    MaxOperations = 3
PROPERTIES
    DeletionCompletes
    
CHECK_DEADLOCK FALSE
