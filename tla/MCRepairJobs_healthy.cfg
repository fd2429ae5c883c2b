CONSTANTS
    None = None
    a1 = a1
    a2 = a2
    m1 = m1
    m2 = m2
    m3 = m3
    s1 = s1
    s2 = s2
    p1 = p1
    p2 = p2
    p3 = p3
    all = all
    some = some
    Arrs = {a1, a2}
    Skipped = {a2}
    Media = {m1, m2, m3}
    Contents = {s1, s2}
    Folders = {p1, p2, p3}
    Foreign = {p2}
    ContentOf <- MCContentOf
    FolderOf <- MCFolderOf
    ArrOf <- MCArrOf
    Keys = {all, some}
    Named <- MCNamed
    Wanted <- MCWanted
    Requests <- AllRequests
    JobIds = {j1, j2}
    MaxRuns = 2
    MaxProcs = 1
    UseWebdav = TRUE
    MaxVersion = 2
SPECIFICATION Spec
PROPERTIES DeletesOnlyBroken
CHECK_DEADLOCK FALSE
