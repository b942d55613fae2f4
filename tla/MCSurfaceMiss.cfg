SPECIFICATION MCSpec
CONSTANTS
    p = p
    q = q
    s = s
    Components = {"plans"}
    Resources = {p, q}
    Surfaces = {s}
    Lists <- MCTinted
    Overlays <- MCNone
    MayMiss <- MCTinted
    Layouts <- MCNone
    EffectRoom = 2
    MaxFrames = 3
    MaxGeneration = 2
    MaxFailures = 0
    MaxMisses = 1
    MaxFrame = 3
    MaxRuntime = 2
    MaxBackend = 2
    Platforms = {"posix", "windows"}
    Detached = {TRUE, FALSE}
    QueueSize = 3
    BufferSize = 2
    PipeSize = 2
    MaxIn = 4
    MaxOut = 2
INVARIANT FramesShowTheirList
CHECK_DEADLOCK FALSE
