SPECIFICATION MCSpec
CONSTANTS
    Libraries = {"a"}
    Calls <- MCCalls
    Threads = {"main", "other"}
    Main = "main"
    MaxControls = 2
    MaxObjects = 3
    MaxNatives = 1
    MaxDepth = 3
    Payloads <- MCPayloads
    Header = 2
    SmallLimit = 4
    PageSize = 7
    MaxPages = 2
    MinBudget = 6
INVARIANTS
    RuntimeTypeOK
    ArraysHoldTheirElements
    
    OwnedPointersReleasedOnce
    CallbackScopesEnd
    BlocksTileTheHeap
CHECK_DEADLOCK FALSE
