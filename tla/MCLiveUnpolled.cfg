SPECIFICATION Spec
CONSTANTS
    p1 = p1
    p2 = p2
    NoProgram = NoProgram
    Program <- MCTwoPrograms
    Retractable = 2
    MaxRevision = 2
    MaxModule = 1
    Strict = FALSE
    TrustMissing = FALSE
SYMMETRY MCSymmetry
PROPERTIES
    UnchangedLeavesPublication
CHECK_DEADLOCK FALSE
