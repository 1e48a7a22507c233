\* One engine; the catalog holds t1 exactly as the struct declares it, but
\* with its first column stored as "C1" where the struct says "c1".  Is a
\* Sync2 on this converged catalog free of DDL?
CONSTANTS
    Procs = {p1}
    Tables <- MCTables
    Columns <- MCColumnsCase
    Fold <- MCFoldCase
    IndexNames <- MCIndexNames
    Beans <- MCBeansCase
    DBType = "mysql"
    CreateIfNotExists = FALSE
    DefaultEngine = "default"
    SessionEngine = "default"
    MaxLen = 2
    MaxFaults = 0
    InitCatalogs <- MCInitCase

SPECIFICATION Spec

INVARIANT IdempotentResync
