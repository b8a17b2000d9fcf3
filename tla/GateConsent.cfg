CONSTANTS
    Servers = {1, 2, 3}
    Kind <- Mixed
    Flags <- AnyFlags
SPECIFICATION Spec
CHECK_DEADLOCK FALSE
INVARIANT OnlyWithConsent
INVARIANT GateHolds
INVARIANT NoSilentSkip
INVARIANT ExactCommands
