CONSTANTS
    a = a  b = b  c = c  f = f  g = g  h = h  n = n  m = m
    None = None  Refresher = Refresher
    Ids = {a, b}
    Names = {n}
    FileNames = {f}
    Objects = {o1, o2, o3}
    Threads = {t1}
    NameOf <- AllInOne
    FolderOf <- AllInOne
    FolderById = FALSE
    FilesOf <- SameFile
    AddedOf <- InOrder
    SaveSlots = 0
    Flaky = FALSE
    Ops = {"AddTorrent", "refreshTorrent", "DeleteTorrents"}
SPECIFICATION FairSpec
PROPERTIES Converges NoFalseDeletion
\* Once the callers have stopped there may be nothing left to do.
CHECK_DEADLOCK FALSE
