SPECIFICATION UnresumedSpec
CONSTANTS
    p1 = p1
    p2 = p2
    NoProgram = NoProgram
    Program <- MCTwoPrograms
    Retractable = 2
    MaxRevision = 4
    MaxModule = 1
    Strict = TRUE
    TrustMissing = FALSE
SYMMETRY MCSymmetry
PROPERTIES
    TakesBackToWhatRuns
CHECK_DEADLOCK FALSE
