\* One engine: Sync2 with connection failures and repeated calls.
CONSTANTS
    Procs = {p1}
    Tables <- MCTables
    Columns <- MCColumns
    Fold <- MCFold
    IndexNames <- MCIndexNames
    Beans <- MCBeans
    DBType = "mysql"
    CreateIfNotExists = FALSE
    DefaultEngine = "default"
    SessionEngine = "default"
    MaxLen = 2
    MaxFaults = 1
    InitCatalogs <- MCInitCatalogs

SPECIFICATION Spec

INVARIANT TypeOK
INVARIANT SyncedWhenDone
INVARIANT IdempotentResync
PROPERTY ColumnsOnlyWiden
PROPERTY SyncEventuallySucceeds
