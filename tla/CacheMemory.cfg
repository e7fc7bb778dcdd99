SPECIFICATION Spec
CONSTANTS
    a1 = a1
    a2 = a2
    r1 = r1
    r2 = r2
    Archive = {a1, a2}
    Caller = {r1}
    NumItems = 3
    Pieces <- ThreeItems
    Tid = {1}
    Absent = Absent
    MaxMemory = 6
    PurgeMemory = 1
    MaxDisk <- Unlimited
    PurgeDisk = 1
    Wide = 64
    Faults <- WithCrash
INVARIANTS
    DeliveredComplete
    MarkedComplete
PROPERTIES
    ImplementsCacheContract
