CONSTANTS
    Procs = {p1, p2}
    Bean <- MCBean
    ColSets <- MCColSets
    CreateIfNotExists = TRUE
    DropIfExists = FALSE
    IndexIfNotExists = TRUE
    RetryOnFault = FALSE
    MaxFaults = 0
SPECIFICATION Spec
PROPERTIES DropTableErrorMeansPresent
