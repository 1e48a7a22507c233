CONSTANTS
    Procs = {p1, p2}
    Bean <- MCBean
    ColSets <- MCColSets
    CreateIfNotExists = TRUE
    DropIfExists = FALSE
    IndexIfNotExists = TRUE
    RetryOnFault = TRUE
    MaxFaults = 1
SPECIFICATION Spec
INVARIANTS TypeOK IndexAnswerCorrect
