--------------------------- MODULE SolidCacheProps ---------------------------
(* What the solid-archive cache promises. *)
EXTENDS SolidCache

\* The places where the extractor has a current item, and where it purges.
ItemPC == {"write", "lookup", "appendMem", "measure", "callReduce",
           "appendDisk", "result", "markMem", "markDisk", "notify"} \cup LockedPC
PurgePC == {"purgeUnmarked", "purgeUnreferenced", "purgeDisk"}

CallPC == {"idle", "peekMem", "peekDisk", "getFileCache", "readMem",
           "readDisk", "extract", "wait", "done"}
Position == 0..NumItems + 1
EntryIndex == 0..NumItems
ExtState ==
    [pc : ExtPC, a : Archive, i : Position, c : Nat, tid : Tid \cup {0},
     last : BOOLEAN, v : Archive, j : EntryIndex, direct : BOOLEAN,
     w : Archive]
CallState ==
    [pc : CallPC, at : {"first", "again", "content", "last"}, a : Archive,
     i : EntryIndex, got : Content, signaled : BOOLEAN, waited : BOOLEAN,
     res : {"none", "ok", "error", "exception"}]

\* The types of the variables, and the keys of the three maps: every entry in
\* memory has its archive in m_mTable, every archive there has an access time
\* (GetLRUArchive_ starts from m_mAccess.begin() whenever m_mTable is not
\* empty), every row of "entry" has its row of "archive".
TypeOK ==
    /\ mem \in [Archive -> [Item -> MemEntry \cup {Absent}]]
    /\ disk \in [Archive -> [Item -> Row \cup {Absent}]]
    /\ table \subseteq access /\ access \subseteq Archive /\ rows \subseteq Archive
    /\ \A a \in Archive : Present(mem, a) # {} => a \in table
    /\ \A a \in Archive : Present(disk, a) # {} => a \in rows
    /\ thread \in [Archive -> {"none", "ready", "running", "exiting"}]
    /\ ext \in ExtState
    /\ call \in [Caller -> CallState]
    /\ clearing \in BOOLEAN

\* The bytes a store would hand out for an item it has marked as complete.
MarkedContent(a, i) ==
    (IF MemCached(mem, a, i) THEN {mem[a][i].buf} ELSE {})
    \cup (IF DiskCached(disk, a, i) THEN {disk[a][i].data} ELSE {})

\* An entry marked complete holds all pieces of its item in order, or nothing
\* at all: no interleaving of extraction, spilling, eviction, abort, crash and
\* readers leaves a marked entry with a part of an item, or with pieces twice.
NeverTorn ==
    \A a \in Archive, i \in Item :
        MarkedContent(a, i) \subseteq {Full(a, i), << >>}

\* The stronger promise, where memory has room for everything, that a marked
\* entry is complete whenever somebody can look (no section under the exclusive
\* lock is open).
MarkedComplete ==
    ~Locked => \A a \in Archive, i \in Item :
        MarkedContent(a, i) \subseteq {Full(a, i)}

\* The pieces of the item being extracted are in exactly one store, all of
\* them in order, wherever purges have moved it between two Write() calls.
ItemInOnePlace ==
    LET a == ext.a  i == ext.i  soFar == Prefix(ext.c - 1) IN
    ext.pc = "write" /\ ext.c > 1 /\ ~Cached(mem, disk, a, i) =>
        \/ /\ Exists(mem, a, i) /\ mem[a][i].buf = soFar
           /\ ~Exists(disk, a, i)
        \/ /\ Exists(disk, a, i) /\ disk[a][i].data = soFar
           /\ disk[a][i].size = ext.c - 1 /\ disk[a][i].completed = ext.tid
           /\ Exists(mem, a, i) => mem[a][i].buf = << >>

\* After each append the memory cache is within its limit again, and before
\* the purge it is over by at most the piece just written; with a limit that
\* is not positive nothing is kept in memory.
MemoryBounded ==
    /\ MaxMemory > 0 => MemSize(mem) <= InBytes(MaxMemory) + 1
    /\ MaxMemory > 0 /\ MemSize(mem) > InBytes(MaxMemory) =>
          ext.pc \in {"measure", "callReduce"} \cup LockedPC
    /\ MaxMemory <= 0 => MemSize(mem) = 0

\* The amounts the two purge loops count down never wrap below zero, and the
\* purge of memory never has to look for a victim in an empty table: it ends.
PurgeFindsVictim ==
    /\ need \in Nat /\ dneed \in Nat
    /\ ext.pc = "reduce" /\ need > 0 => table # {}

\* Between extractions no store holds bytes of an unfinished item: nothing
\* would ever take them away, since eviction considers finished entries only.
NoOrphans ==
    ext.pc = "idle" =>
        \A a \in Archive, i \in Item :
            /\ Exists(mem, a, i) /\ ~mem[a][i].cached => mem[a][i].buf = << >>
            /\ IsProcessing(disk, a, i) => disk[a][i].size = 0

\* When a write to the disk cache is over, the disk cache is within its limit
\* or nothing that has a size is left to evict but the archive written to.
DiskLimitHonoured ==
    [][ext.pc = "store" /\ MaxDisk >= 0 =>
          \/ DiskSize(disk') <= InBytes(MaxDisk)
          \/ \A w \in Archive \ {ext.v} : \A i \in CompletedRows(disk', w) :
                 disk'[w][i].size = 0]_vars

\* A complete item in memory that a purge takes away is complete on disk
\* afterwards ("contents removed from memory are written out to disk"),
\* unless the process dies at that very step.
SpillKeepsContent ==
    [][\A a \in Archive, i \in Item :
          /\ MemCached(mem, a, i) /\ mem[a][i].buf = Full(a, i)
          /\ ext.pc = "store" /\ ext'.pc # "idle" /\ ~Exists(mem', a, i)
          => DiskCached(disk', a, i) /\ disk'[a][i].data = Full(a, i)]_vars

\* A GetFile call that reports success has delivered the whole item; with one
\* caller, and memory that has room for everything.
DeliveredComplete ==
    \A r \in Caller :
        call[r].pc = "done" /\ call[r].res = "ok" =>
            call[r].got = Full(call[r].a, call[r].i)

\* Nobody will mark item i of archive a: the extractor has gone on to later items
\* or to its last purge, or the thread has ended.
Beyond(x, i) ==
    \/ x.pc \in ItemPC \cup {"stream"} /\ x.i > i
    \/ x.pc \in PurgePC /\ x.last
    \/ x.pc = "cleanup"
Past(a, i) ==
    \/ thread[a] \in {"none", "exiting"}
    \/ thread[a] = "running" /\ Beyond(ext, i)

\* The cache as the host sees it.
KeptItems == {k \in Archive \X Item : Cached(mem, disk, k[1], k[2])}
ComingItems == {k \in Archive \X Item : ~Past(k[1], k[2])}
Outcome(c) ==
    IF c.pc # "done" THEN "asked"
    ELSE IF c.res = "ok" /\ c.got # Full(c.a, c.i) THEN "incomplete" ELSE c.res
RequestOf(c) ==
    IF c.pc = "idle" THEN [state |-> "none"]
    ELSE [state |-> Outcome(c), key |-> <<c.a, c.i>>]
Requests == [r \in Caller |-> RequestOf(call[r])]

Contract == INSTANCE CacheContract
            WITH kept <- KeptItems, coming <- ComingItems, request <- Requests

\* To a host that reads one file at a time, where memory has room for everything,
\* GetFile is one look at what has been extracted (CacheContract): its lookups,
\* its wait and its copy together never fail for an item that is there or yet to
\* come, and never succeed without it.
ImplementsCacheContract == Contract!Spec

\* Every GetFile call returns.
EveryCallReturns ==
    \A r \in Caller : call[r].pc # "idle" ~> call[r].pc = "done"

\* Every extraction that was asked for comes to its end.
EveryExtractionEnds ==
    \A a \in Archive : thread[a] # "none" ~> thread[a] = "none"

\* While an archive is being extracted, its complete items stay in the disk
\* cache even when that is over its limit.
CurrentArchiveKept ==
    [][ext.pc # "idle" =>
          \A i \in Item : DiskCached(disk, ext.a, i) => DiskCached(disk', ext.a, i)]_vars
=============================================================================
