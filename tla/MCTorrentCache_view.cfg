CONSTANTS
    a = a  b = b  c = c  f = f  g = g  h = h  n = n  m = m
    None = None  Refresher = Refresher
    Ids = {a, b, c}
    Names = {n, m}
    FileNames = {f, g}
    Objects = {o1, o2, o3}
    Threads = {t1}
    NameOf <- AllInOne
    FolderOf <- ThirdApart
    FolderById = FALSE
    FilesOf <- DisjointHere
    AddedOf <- InOrder
    SaveSlots = 1
    Flaky = TRUE
    Ops = {"DeleteTorrent"}
SPECIFICATION Spec
CONSTRAINT TwoAtATime
SYMMETRY ObjectSymmetry
INVARIANTS TypeOK RefreshExclusive FolderCoherent ViewComplete ViewCurrent Persisted
\* Once the callers have stopped there may be nothing left to do.
CHECK_DEADLOCK FALSE
