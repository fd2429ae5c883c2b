CONSTANTS
    None = None
    a1 = a1
    s1 = s1
    p1 = p1
    Arrs = {a1}
    Skipped = {}
    Media = {m1}
    Contents = {s1}
    Folders = {p1}
    Foreign = {}
    ContentOf <- MCContentOf
    FolderOf <- MCFolderOf
    ArrOf <- MCArrOf
    Keys = {all}
    Named <- Everything
    Wanted <- Everything
    Requests <- Scheduled
    JobIds = {j1, j2}
    UseWebdav = FALSE
    MaxRuns = 1
    MaxProcs = 1
    MaxVersion = 1
    MaxSaves = 1
SPECIFICATION ServiceSpec
INVARIANTS FileTypeOK PendingIsSaved
PROPERTIES Settles
CHECK_DEADLOCK FALSE
