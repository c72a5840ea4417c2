SPECIFICATION Spec
CONSTANTS
    None = None
    n1 = n1
    n2 = n2
    r1 = r1
    r2 = r2
    s1 = s1
    Connections <- Two
    Pool <- Two
    Requests = {r1}
    SeedCredentials <- SeedUsers
    SeedDatabases <- SeedOnBoth
    Specs <- PlainOrSeededAnywhere
    Edits = {"reference"}
    CacheLag = FALSE
    MaxConcurrentReconciles = 1
    MaxFaults = 1
    MaxOperations = 4

    
PROPERTIES
    ServersUsed
    CredentialsStable
CHECK_DEADLOCK FALSE
