------------------------------ MODULE CacheData ------------------------------
(***************************************************************************)
(* The data of the solid-archive cache and the pure functions on it:       *)
(* entries of the memory cache (SolidFileCacheMemory::Entry), rows of the  *)
(* disk cache (table "entry" together with its .tmp file), sizes, limits   *)
(* and the choice of what to throw away.                                   *)
(*                                                                         *)
(* An Archive is a key (path, mtime, size): a changed file is another      *)
(* archive.  Content is the sequence of the numbers of the pieces the      *)
(* decoder wrote; the unit of all sizes is one piece.                      *)
(***************************************************************************)
EXTENDS Integers, Sequences, FiniteSets, FiniteSetsExt

CONSTANTS
    Archive,      \* the archives, each standing for one MakeKey() value
    NumItems,     \* items of an archive, extracted in the order 1..NumItems
    Pieces,       \* Pieces[a][i]: Write() calls the decoder makes for an item
    Tid,          \* thread identifiers an extractor thread may get
    Absent,       \* "no such key" in a std::map or a table
    MaxMemory, PurgeMemory, MaxDisk, PurgeDisk,   \* the ini settings (int)
    Wide          \* 2^64 expressed in size units

Item == 1..NumItems

ASSUME NumItemsAssumption == NumItems \in Nat
ASSUME PiecesAssumption == Pieces \in [Archive -> [Item -> Nat]]
\* 2^64 bytes are more than one piece.
ASSUME LimitAssumption ==
    /\ MaxMemory \in Int /\ PurgeMemory \in Int
    /\ MaxDisk \in Int /\ PurgeDisk \in Int
    /\ Wide \in Nat \ {0, 1}
\* A Windows thread identifier is never 0; the column "completed" uses 0 for
\* a finished entry.
ASSUME TidAssumption == Tid \subseteq Nat \ {0}

Done == 0

Content == Seq(Nat)
MemEntry == [cached : BOOLEAN, buf : Content]
Row == [completed : Tid \cup {Done}, size : Nat, data : Content]

ASSUME AbsentAssumption == Absent \notin MemEntry /\ Absent \notin Row

NewEntry == [cached |-> FALSE, buf |-> << >>]
NoMem  == [a \in Archive |-> [i \in Item |-> Absent]]
NoDisk == [a \in Archive |-> [i \in Item |-> Absent]]

\* The first n pieces of an item, and all of them.
Prefix(n) == [k \in 1..n |-> k]
Full(a, i) == Prefix(Pieces[a][i])

\* A limit is an int multiplied by an unsigned 64-bit constant.
InBytes(n) == n % Wide

MaxOf(x, y) == IF x > y THEN x ELSE y
MinOf(x, y) == IF x < y THEN x ELSE y

----------------------------------------------------------------------------
(* The memory cache: m is m_mTable flattened. *)

Present(m, a) == {i \in Item : m[a][i] # Absent}
Exists(m, a, i) == m[a][i] # Absent
MemCached(m, a, i) == Exists(m, a, i) /\ m[a][i].cached

MemSize(m) ==
    MapThenSumSet(LAMBDA k : Len(m[k[1]][k[2]].buf),
                  {k \in Archive \X Item : Exists(m, k[1], k[2])})

\* GetSize() > GetMaxMemoryInBytes()
BadOverLimit(m) == MemSize(m) - 1 > InBytes(MaxMemory)
OverLimit(m) == MemSize(m) > InBytes(MaxMemory)

\* What one purge takes out of memory (argument of m_scm.ReduceSize).
BadMemReduction(m) ==
    MaxOf(InBytes(PurgeMemory), (MemSize(m) - InBytes(MaxMemory)) % Wide)
MemReduction(m) ==
    MinOf(MemSize(m), MaxOf(InBytes(PurgeMemory),
                            (MemSize(m) - InBytes(MaxMemory)) % Wide))

\* SolidFileCacheMemory::PurgeUnmarked_
BadMemPurged(m, a) == m
MemPurged(m, a) ==
    [m EXCEPT ![a] = [i \in Item |-> IF MemCached(m, a, i) THEN m[a][i] ELSE Absent]]

\* The archives GetLRUArchive_ can return.  Access times have a resolution
\* of one second, so any archive but the excluded one may be the oldest.
LRUArchives(accessed, exclude) ==
    IF accessed \ {exclude} # {} THEN accessed \ {exclude} ELSE accessed

\* The first index of an archive in memory, the next one spilled.
FirstIndex(m, a) ==
    CHOOSE i \in Present(m, a) : \A j \in Present(m, a) : i <= j

----------------------------------------------------------------------------
(* The disk cache: d is the table "entry" joined with the files. *)

DiskCached(d, a, i) == Exists(d, a, i) /\ d[a][i].completed = Done
IsProcessing(d, a, i) == Exists(d, a, i) /\ d[a][i].completed # Done
CompletedRows(d, a) == {i \in Item : DiskCached(d, a, i)}

SizeOfRows(d, a, S) == MapThenSumSet(LAMBDA i : d[a][i].size, S)
DiskSize(d) ==
    MapThenSumSet(LAMBDA k : d[k[1]][k[2]].size,
                  {k \in Archive \X Item : Exists(d, k[1], k[2])})

\* SolidCacheDisk::PurgeUnmarked_, files and rows.
BadDiskPurged(d, a) == d
DiskPurged(d, a) ==
    [d EXCEPT ![a] = [i \in Item |-> IF DiskCached(d, a, i) THEN d[a][i] ELSE Absent]]

\* How much a new piece of the given size makes the disk cache give up.
BadDiskReduction(d, size) ==
    IF MaxDisk >= 0 /\ DiskSize(d) >= InBytes(MaxDisk)
    THEN MaxOf(InBytes(PurgeDisk), DiskSize(d) - InBytes(MaxDisk))
    ELSE 0
DiskReduction(d, size) ==
    IF MaxDisk >= 0 /\ DiskSize(d) + size >= InBytes(MaxDisk)
    THEN MaxOf(InBytes(PurgeDisk), DiskSize(d) + size - InBytes(MaxDisk))
    ELSE 0

\* Rows ReduceSizeWithAIdx_ drops: completed ones in the order of their
\* index, until their sizes reach the amount asked for.
EvictedRows(d, a, size) ==
    {i \in CompletedRows(d, a) :
        SizeOfRows(d, a, {j \in CompletedRows(d, a) : j < i}) < size}

\* Archives ReduceSize_ may evict from when writing an entry of "exclude".
Evictable(d, archives, exclude) ==
    {a \in archives \ {exclude} : CompletedRows(d, a) # {}}

\* DELETE FROM archive WHERE idx NOT IN (SELECT aidx FROM entry) AND idx = a
BadPurgeUnreferencedWithAIdx(d, archives, a) == archives \ {a}
PurgeUnreferencedWithAIdx(d, archives, a) ==
    IF Present(d, a) = {} THEN archives \ {a} ELSE archives

\* AddEntry_ for a new row, AppendEntry_ for one this thread is filling; a
\* row of anyone else, or a finished one, is left alone.
BadStored(d, a, i, tid, data) ==
    [d EXCEPT ![a][i] = [completed |-> tid, size |-> Len(data), data |-> data]]
Stored(d, a, i, tid, data) ==
    IF ~Exists(d, a, i)
    THEN [d EXCEPT ![a][i] =
            [completed |-> tid, size |-> Len(data), data |-> data]]
    ELSE IF d[a][i].completed = tid
    THEN [d EXCEPT ![a][i].size = @ + Len(data),
                   ![a][i].data = @ \o data]
    ELSE d

\* SolidCacheDisk::Cached_
BadMarked(d, a, i) == d
Marked(d, a, i) ==
    IF IsProcessing(d, a, i) THEN [d EXCEPT ![a][i].completed = Done] ELSE d

\* SolidCache::Append: does the piece go to the disk cache?
BadGoesToDisk(d, a, i) == MaxMemory <= 0
GoesToDisk(d, a, i) == Exists(d, a, i) \/ MaxMemory <= 0

\* SolidCache::IsCached: memory first, then disk.
Cached(m, d, a, i) == MemCached(m, a, i) \/ DiskCached(d, a, i)
=============================================================================
