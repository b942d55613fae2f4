SPECIFICATION Spec
CONSTANTS
    Id = {1, 2, 3}
    Looks <- MCLooks
    Roots = {1, 2}
INVARIANT ReentryIsRefused
CHECK_DEADLOCK FALSE
