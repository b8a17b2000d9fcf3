CONSTANTS
    OutputCap = 3
    MaxOutput = 6
SPECIFICATION RunSpec
CHECK_DEADLOCK FALSE
INVARIANT CaptureExact
PROPERTY ResultComplete
PROPERTY RunReturns
