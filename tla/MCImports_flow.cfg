CONSTANTS
    o1 = o1  o2 = o2  c = c  d = d  h = h
    rd = rd  tb = tb  dl = dl
    None = None
    Imports = {o1, o2}
    Hashes = {h}
    HashOf <- OneRelease
    Categories = {c, d}
    CategoryOf <- TwoCategories
    MaxSaves = 1
    MaxRestarts = 1
    Symlinks = {o1}
    Override = {}
    ArrUncached <- Mixed
    Clients = {rd, tb, dl}
    KindOf <- KindOfClient
    ClientUncached <- SomeUncached
    WithCache = {rd}
    Files = {1}
    MaxDownloads = 1
    MaxCalls = 1
    Ops = {"SetCategory", "Delete", "DeleteMultiple"}
SPECIFICATION FairSpec

INVARIANTS TypeOK CompleteMeansPlaced AcceptedIsListed
 
\* Every import may have ended.
CHECK_DEADLOCK FALSE
