CONSTANTS
    None = None
    Size = 3
    Links = {l1, l2, l3}
    HonoursRange = TRUE
SPECIFICATION Spec
INVARIANTS TypeOK BodiesClosed InvalidWereRefused
PROPERTIES RandomAccessSpec
