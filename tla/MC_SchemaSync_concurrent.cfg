\* Two engines run Sync2 on the same catalog at once, with connection failures.
CONSTANTS
    Procs = {p1, p2}
    Tables <- MCTables
    Columns <- MCColumns
    Fold <- MCFold
    IndexNames <- MCIndexNames
    Beans <- MCBeans
    DBType = "mysql"
    CreateIfNotExists = TRUE
    DefaultEngine = "default"
    SessionEngine = "default"
    MaxLen = 2
    MaxFaults = 1
    InitCatalogs <- MCInitCatalogs

SPECIFICATION Spec

INVARIANT TypeOK
INVARIANT IdempotentResync
PROPERTY ColumnsOnlyWiden
PROPERTY SyncEventuallySucceeds
PROPERTY EventuallyConverged
