SPECIFICATION Spec
CONSTANTS
    a1 = a1
    a2 = a2
    r1 = r1
    r2 = r2
    Archive = {a1, a2}
    Caller = {r1}
    NumItems = 3
    Pieces <- ThreeItems
    Tid = {1}
    Absent = Absent
    MaxMemory = 2
    PurgeMemory = 4
    MaxDisk = 2
    PurgeDisk = 1
    Wide = 64
    Faults <- WithCrash
INVARIANTS
    TypeOK
    NeverTorn
    PurgeFindsVictim
    ItemInOnePlace
PROPERTIES
    DiskLimitHonoured
    SpillKeepsContent
