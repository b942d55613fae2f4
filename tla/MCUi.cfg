SPECIFICATION MCSpec
CONSTANTS
    Id = {1, 2, 3}
    Looks <- MCLooks
    Roots = {1, 2}
    Session = "labels"
    Editor = "text"
    EngineOf <- MCEngineOf
    Shows <- MCShows
    Revisions <- MCOneEdited
    MaxGeneration = 2
    Plain = {"target"}
    ResourceSlot = {1, 2}
    Reserved = 1
    List <- MCLists
    SessionSlot = {9}
    Node = {1}
    Font = {"sans"}
    Generations = 2
    ListGenerations = 1
    l1 = l1
    l2 = l2
SYMMETRY MCSymmetry
INVARIANTS
    UiTypeOK
    SealedFramesShowWhatWasAsked
    CleanPagesAreUploaded
    PlansNameGlyphsThatExist
    RetainedTreeIsExact
    LayoutIsAsIfRebuilt
    MirrorIsExact
    OnlyTreesAreAccepted
    UsersKeepWhatTheyWereGiven
CHECK_DEADLOCK FALSE
