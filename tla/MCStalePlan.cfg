SPECIFICATION FramesSpec
CONSTANTS
    Session = "labels"
    Editor = "text"
    EngineOf <- MCEngineOf
    Shows <- MCShows
    Revisions <- MCRevisions
    MaxGeneration = 2
INVARIANTS ReusedPlansShowWhatWasAsked
CHECK_DEADLOCK FALSE
