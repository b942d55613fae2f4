SPECIFICATION ResumingSpec
CONSTANTS
    p1 = p1
    p2 = p2
    p3 = p3
    Program <- MCTwoPrograms
    NoProgram = NoProgram
    Retractable = 3
    RevisionCap = 3
    ModuleCap = 1
SYMMETRY MCSymmetry
INVARIANT
    NumbersDetermineContent
CHECK_DEADLOCK FALSE
