CONSTANTS
    Boxes <- MCBoxes
    Losses <- MCLosses
    Lasting <- MCLasting
    Changes <- MCChanges
    Verdicts <- MCVerdicts
    MaxEvents = 1
    MaxScans = 2
SPECIFICATION Spec
 
INVARIANT VerdictsExact
INVARIANT ProbedAsWritten
INVARIANT LossNeverClears
INVARIANT LossNeverAccuses
INVARIANT RegressionFailsCI
PROPERTY OnlyChangeFailsCI
CHECK_DEADLOCK FALSE
