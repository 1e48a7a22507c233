\* Two sessions on a cached table, no cache faults: a read that misses the
\* set cache races a write of the other session.
CONSTANTS
    s1 = s1
    s2 = s2
    k1 = k1
    k2 = k2
    v1 = v1
    v2 = v2
    Sessions <- MCTwoSessions
    Copies <- MCOneCopy
    Vals <- MCVals
    Queries <- MCQueries
    MaxRows = 2
    MaxVer = 3
    SetCap = 2
    BeanCap = 1
    MaxCacheFaults = 0
SPECIFICATION Spec
PROPERTIES ImplementsRowStore
