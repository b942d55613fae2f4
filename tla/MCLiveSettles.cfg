SPECIFICATION MCSpec
CONSTANTS
    p1 = p1
    p2 = p2
    Program <- MCPrograms
    NoProgram = NoProgram
    Retractable = 2
    MaxRevision = 3
    MaxModule = 1
    Strict = FALSE
    TrustMissing = FALSE
PROPERTIES
    PublicationsSettle
    TrustEndsWaiting
CHECK_DEADLOCK FALSE
