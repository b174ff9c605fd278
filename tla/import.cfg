SPECIFICATION FairSpec
CONSTANTS
    Repos = {r1, r2}
    Importers = {i1}
    Gateway = Gateway
    None = None
    Versions <- MCVersions
    Databases <- MCDatabases
    First <- MCFirst
    MaxImports = 2
    MaxFaults = 2
    MaxGeneration = 2
INVARIANTS GatewayRunsClean NothingRevived
PROPERTIES ImplementsAtomicImport PendingEnds
