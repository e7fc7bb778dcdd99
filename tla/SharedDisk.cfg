SPECIFICATION FairSpec
CONSTANTS
    p1 = p1
    p2 = p2
    long = long
    short = short
    Process = {p1, p2}
    Viewer = {p2}
    Archive = {long, short}
    Pieces <- Lengths
    MaxDisk = 3
    PurgeDisk = 1
    Free = Free
    Abandoned = Abandoned
    Done = Done
    MaxJobs = 2
    MaxEvents = 3
INVARIANTS
    TypeOK
    ServedWhole
    ReaderGetsItsItem
PROPERTIES
    EveryExtractorEnds
CHECK_DEADLOCK FALSE
