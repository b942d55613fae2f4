SPECIFICATION FairSpec
CONSTANTS
    Callers <- OnlyClient
    MaxCalls <- Calls2And1
    Capacity = 1
    MaxId = 2
    MaxNotices <- OneFromServer
    MaxExtras = 1
INVARIANTS WithinLimits OrphansAreCancelled WaitsForSomething RepliesOnce
PROPERTIES ImplementsRemoteCalls EveryCallSettles
CHECK_DEADLOCK FALSE
