CONSTANTS
    None = None
    Readers = {t1, t2}
    Files = {f1, f2}
    MaxLinks = 2
    Urls <- SomeUrls
    Kind = "torbox"
SPECIFICATION Spec
SYMMETRY ReaderSymmetry
INVARIANTS RightFile
