CONSTANTS
    MaxCalls = 2
    MaxLines = 3
SPECIFICATION Spec
CHECK_DEADLOCK FALSE
INVARIANT NothingLost
INVARIANT AnswersMatch
INVARIANT CloseJoins
PROPERTY ProbeEnds
