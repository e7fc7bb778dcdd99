SPECIFICATION Spec
CONSTANTS
    a1 = a1
    a2 = a2
    r1 = r1
    r2 = r2
    Archive = {a1, a2}
    Caller = {r1, r2}
    NumItems = 2
    Pieces <- TwoItems
    Tid = {1}
    Absent = Absent
    MaxMemory = 9
    PurgeMemory = 1
    MaxDisk <- Unlimited
    PurgeDisk = 1
    Wide = 64
    Faults <- NoFaults
INVARIANTS
    DeliveredComplete
