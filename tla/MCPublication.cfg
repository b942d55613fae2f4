SPECIFICATION MCSpec
CONSTANTS
    p1 = p1
    p2 = p2
    Program <- MCPrograms
    NoProgram = NoProgram
    Retractable = 2
    RevisionCap = 3
    ModuleCap = 1
    MaxRevision = 2
    MaxModule = 2
    Strict = FALSE
    TrustMissing = FALSE
SYMMETRY MCSymmetry
INVARIANTS
    
    BaselineCoherent
    HistoryUnbroken
    ReconcileSound
    NumbersStayUnique
    MarkerVouches
    ResumesPublishedModule
    

    
CHECK_DEADLOCK FALSE
