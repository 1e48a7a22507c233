\* One engine on a fresh database; the session was given a StoreEngine
\* before Sync2.  Do all created tables get it?
CONSTANTS
    Procs = {p1}
    Tables <- MCTables
    Columns <- MCColumns
    Fold <- MCFold
    IndexNames <- MCIndexNames
    Beans <- MCBeans
    DBType = "mysql"
    CreateIfNotExists = FALSE
    DefaultEngine = "default"
    SessionEngine = "innodb"
    MaxLen = 2
    MaxFaults = 0
    InitCatalogs <- MCInitEmpty

SPECIFICATION Spec

INVARIANT StoreEngineApplied
