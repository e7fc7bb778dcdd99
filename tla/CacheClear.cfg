SPECIFICATION Spec
CONSTANTS
    a1 = a1
    a2 = a2
    r1 = r1
    r2 = r2
    Archive = {a1, a2}
    Caller = {r1}
    NumItems = 2
    Pieces <- TwoFullItems
    Tid = {1}
    Absent = Absent
    MaxMemory = 1
    PurgeMemory = 1
    MaxDisk = 2
    PurgeDisk = 1
    Wide = 64
    Faults <- WithClear
INVARIANTS
    MemoryBounded
