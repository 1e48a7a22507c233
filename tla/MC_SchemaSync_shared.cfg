\* One engine, a fresh database, and two structs mapped to the same table,
\* the second with an extra column.  Does a Sync2 that returned nil leave
\* both structs' columns in the table?
CONSTANTS
    Procs = {p1}
    Tables <- MCTables
    Columns <- MCColumns
    Fold <- MCFold
    IndexNames <- MCIndexNames
    Beans <- MCBeansShared
    DBType = "mysql"
    CreateIfNotExists = TRUE
    DefaultEngine = "default"
    SessionEngine = "default"
    MaxLen = 2
    MaxFaults = 0
    InitCatalogs <- MCInitEmpty

SPECIFICATION Spec

INVARIANT SyncedWhenDone
