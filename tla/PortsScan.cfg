CONSTANTS
    NumPorts = 3
    Concurrency = 2
    TLSPorts = {1}
SPECIFICATION Spec
CHECK_DEADLOCK FALSE
INVARIANT SlotsMatch
INVARIANT AllReported
INVARIANT TruthfulEntries
PROPERTY Returns
