CONSTANTS
    Procs = {p1}
    Bean <- MCBean
    ColSets <- MCColSets
    CreateIfNotExists = TRUE
    DropIfExists = TRUE
    IndexIfNotExists = TRUE
    RetryOnFault = TRUE
    MaxFaults = 1
SPECIFICATION Spec
PROPERTIES DropIndexesRetrySucceeds
