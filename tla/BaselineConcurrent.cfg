CONSTANTS
    Procs = {p1, p2}
    Servers = {s1}
    Tools = {t1}
    Hashes = {h1, h2}
    Ids = {i1}
    NoHash = NoHash
    NoId = NoId
    Faults = {"io", "crash", "powerloss", "latewrite"}
    Listings <- Duplicates
SPECIFICATION VSpec
INVARIANT SaveIsAtomic
INVARIANT PendingIsUnapproved
PROPERTY PassIsClean
