CONSTANTS
    Procs = {p1}
    Servers = {s1}
    Tools = {t1, t2}
    Hashes = {h1, h2}
    Ids = {i1, i2}
    NoHash = NoHash
    NoId = NoId
    Faults = {"io", "crash", "corrupt", "powerloss"}
    Listings <- Distinct
SPECIFICATION Spec
INVARIANT PoisonStaysFlagged
PROPERTY RegisterSpec
