SPECIFICATION MCSpec
CONSTANTS
    p = p
    q = q
    s = s
    Components = {"plans", "scheduler", "child"}
    Resources = {p, q}
    Surfaces = {s}
    Lists <- MCLists
    Overlays <- MCOverlays
    MayMiss <- MCMayMiss
    Layouts <- MCLayouts
    EffectRoom = 2
    MaxFrames = 3
    MaxGeneration = 2
    MaxFailures = 1
    MaxMisses = 1
    MaxFrame = 3
    MaxRuntime = 2
    MaxBackend = 2
    Platforms = {"posix", "windows"}
    Detached = {TRUE, FALSE}
    QueueSize = 3
    BufferSize = 2
    PipeSize = 2
    MaxIn = 4
    MaxOut = 2
INVARIANTS
    NativeTypeOK
    FramesShowTheirList
    
    FramesAreOwned
    StreamsArriveWhole
PROPERTIES
    PresentsInOrder
    EveryTicketCloses
    CloseEndsTheChild
CHECK_DEADLOCK FALSE
