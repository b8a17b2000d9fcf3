CONSTANTS
    Procs = {p1}
    Servers = {s1, s2}
    Tools = {t1}
    Hashes = {h1, h2}
    Ids = {i1}
    NoHash = NoHash
    NoId = NoId
    Faults = {}
    Listings <- Distinct
SPECIFICATION VSpec
PROPERTY KeepsFailing
