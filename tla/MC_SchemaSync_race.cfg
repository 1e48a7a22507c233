\* Two engines run Sync2 on the same catalog at once; does a Sync2 that
\* returned nil always leave the catalog converged?
CONSTANTS
    Procs = {p1, p2}
    Tables <- MCTables
    Columns <- MCColumns
    Fold <- MCFold
    IndexNames <- MCIndexNames
    Beans <- MCBeans
    DBType = "mysql"
    CreateIfNotExists = FALSE
    DefaultEngine = "default"
    SessionEngine = "default"
    MaxLen = 2
    MaxFaults = 0
    InitCatalogs <- MCInitRace

SPECIFICATION Spec

INVARIANT SyncedWhenDone
