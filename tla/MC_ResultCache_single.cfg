\* One session holding two beans of the same rows, as in the optimistic
\* versioning test; the cache holds two queries and one bean, one cache fault.
CONSTANTS
    s1 = s1
    s2 = s2
    k1 = k1
    k2 = k2
    v1 = v1
    v2 = v2
    Sessions <- MCOneSession
    Copies <- MCTwoCopies
    Vals <- MCVals
    Queries <- MCQueries
    MaxRows = 2
    MaxVer = 3
    SetCap = 2
    BeanCap = 1
    MaxCacheFaults = 1
SPECIFICATION Spec
INVARIANTS TypeOK
PROPERTIES ImplementsRowStore
