SPECIFICATION Spec
CHECK_DEADLOCK FALSE
INVARIANT TypeOK
INVARIANT GroupGone
INVARIANT AppliedHonest
INVARIANT DeadlineKillsGroup
PROPERTY CloseSparesStrangers
PROPERTY SessionEnds
