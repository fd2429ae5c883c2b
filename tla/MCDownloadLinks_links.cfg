CONSTANTS
    None = None
    Readers = {t1, t2}
    Files = {f1, f2}
    MaxLinks = 2
    Urls <- SomeUrls
    Kind = "realdebrid"
SPECIFICATION Spec
CONSTRAINT OneFileLater
SYMMETRY ReaderSymmetry
INVARIANTS TypeOK RightFile WaitersServed
PROPERTIES NotAgain
