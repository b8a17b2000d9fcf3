CONSTANTS
    MaxPages = 3
    Timeout = 3
    PageSize = 2
    MaxTime = 8
SPECIFICATION Spec
CHECK_DEADLOCK FALSE
INVARIANT AllOrNothing
INVARIANT Bounded
PROPERTY Ends
