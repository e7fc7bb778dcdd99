------------------------- MODULE SolidCacheProofs -------------------------
(***************************************************************************)
(* Type correctness of SolidCache, what each of its actions does to one    *)
(* item of one archive, and the limits of the two stores, for all archives,*)
(* items, pieces, thread identifiers, callers and limits.  TypeOK alone is *)
(* not inductive: that a spilled entry exists when its turn comes needs    *)
(* the extractor's program counter to say what its registers v, j and      *)
(* direct mean (ExtOK), and that a caller reads an item of the archive     *)
(* needs CallOK.                                                           *)
(***************************************************************************)
EXTENDS SolidCacheProps, SumProofs

\* The two stores.
MemType == [Archive -> [Item -> MemEntry \cup {Absent}]]
DiskType == [Archive -> [Item -> Row \cup {Absent}]]

StoresOK ==
    /\ mem \in MemType
    /\ disk \in DiskType
    /\ table \subseteq access /\ access \subseteq Archive /\ rows \subseteq Archive
    /\ \A a \in Archive : Present(mem, a) # {} => a \in table
    /\ \A a \in Archive : Present(disk, a) # {} => a \in rows

\* The places where the extractor has a thread identifier, and where it is
\* writing the entry (v, j) to disk.
WorkPC == ExtPC \ {"idle", "cleanup"}
SpillPC == {"evict", "deleteRows", "store"}

\* What the registers of the extractor mean.
ExtOK ==
    /\ ext.pc \in WorkPC => ext.tid \in Tid
    /\ ext.pc \in ItemPC => ext.i \in Item
    /\ ext.pc \in SpillPC => ext.j \in Item
    /\ ext.pc \in SpillPC /\ ~ext.direct => Exists(mem, ext.v, ext.j)
    /\ ext.pc \in SpillPC /\ ext.direct => ext.v = ext.a /\ ext.j = ext.i
    /\ ext.pc \in WorkPC \ SpillPC => ~ext.direct
    /\ ext.pc \in WorkPC \ (SpillPC \cup {"spill"}) => ext.v = ext.a

\* A call under way is about an item.
CallOK ==
    /\ call \in [Caller -> CallState]
    /\ \A r \in Caller : call[r].pc # "idle" => call[r].i \in Item
ThreadOK == thread \in [Archive -> {"none", "ready", "running", "exiting"}]

\* The inductive invariant behind TypeOK.
TypeInv == StoresOK /\ ext \in ExtState /\ ExtOK /\ CallOK /\ ThreadOK /\ clearing \in BOOLEAN

\* An archive with entries in memory has a first one.
LEMMA FirstIndexType ==
    ASSUME NEW m, NEW a \in Archive, Present(m, a) # {}
    PROVE  /\ FirstIndex(m, a) \in Item
           /\ Exists(m, a, FirstIndex(m, a))
           /\ \A j \in Present(m, a) : FirstIndex(m, a) <= j
<1>1. Present(m, a) \subseteq Nat
  BY NumItemsAssumption DEF Present, Item
<1>2. PICK i \in Present(m, a) :
          \A j \in Present(m, a) : <<j, i>> \notin OpToRel(<, Nat)
  BY <1>1, NatLessThanWellFounded, WFMin, Zenon
<1>3. \A j \in Present(m, a) : i <= j
  <2> SUFFICES ASSUME NEW j \in Present(m, a), j < i PROVE FALSE
    BY <1>1
  <2>1. <<j, i>> \in {ss \in Nat \X Nat : ss[1] < ss[2]}
    BY <1>1
  <2> QED
    BY <1>2, <2>1 DEF OpToRel
<1> QED
  BY <1>3 DEF FirstIndex, Exists, Present

\* The three ways an entry in memory is made are entries.
LEMMA EntryUpdate ==
    /\ NewEntry \in MemEntry
    /\ \A e \in MemEntry : [e EXCEPT !.cached = TRUE] \in MemEntry
    /\ \A e \in MemEntry, n \in Nat : [e EXCEPT !.buf = Append(@, n)] \in MemEntry
<1>1. NewEntry \in MemEntry
  BY DEF NewEntry, MemEntry, Content
<1>2. ASSUME NEW e \in MemEntry
      PROVE  [e EXCEPT !.cached = TRUE] \in MemEntry
  BY DEF MemEntry
<1>3. ASSUME NEW e \in MemEntry, NEW n \in Nat
      PROVE  [e EXCEPT !.buf = Append(@, n)] \in MemEntry
  <2>1. Append(e.buf, n) \in Content
    BY DEF MemEntry, Content
  <2> DEFINE x == Append(e.buf, n)
  <2>2. [e EXCEPT !.buf = x] \in MemEntry
    <3> HIDE DEF x
    <3>1. x \in Content
      BY <2>1 DEF x
    <3> QED
      BY <3>1 DEF MemEntry
  <2> QED
    BY <2>2
<1> QED
  BY <1>1, <1>2, <1>3

\* PurgeUnmarked_ on memory only removes entries.
LEMMA MemPurgedType ==
    ASSUME NEW m \in MemType, NEW a \in Archive
    PROVE  /\ MemPurged(m, a) \in MemType
           /\ \A b \in Archive : Present(MemPurged(m, a), b) \subseteq Present(m, b)
  BY DEF MemType, MemPurged, Present

\* PurgeUnmarked_ on disk only removes rows.
LEMMA DiskPurgedType ==
    ASSUME NEW d \in DiskType, NEW a \in Archive
    PROVE  /\ DiskPurged(d, a) \in DiskType
           /\ \A b \in Archive : Present(DiskPurged(d, a), b) \subseteq Present(d, b)
  BY DEF DiskType, DiskPurged, Present

\* A row with another size and content is a row.
LEMMA RowUpdate ==
    ASSUME NEW r \in Row, NEW x \in Nat, NEW y \in Content
    PROVE  [r EXCEPT !.size = x, !.data = y] \in Row
  BY DEF Row

\* A row whose file is gone is a row.
LEMMA EmptiedRow ==
    ASSUME NEW r \in Row
    PROVE  [r EXCEPT !.data = << >>] \in Row
  BY << >> \in Content DEF Row, Content

\* Append_ on disk adds at most the row it writes.
LEMMA StoredType ==
    ASSUME NEW d \in DiskType, NEW a \in Archive, NEW i \in Item,
           NEW tid \in Tid, NEW data \in Content
    PROVE  /\ Stored(d, a, i, tid, data) \in DiskType
           /\ \A b \in Archive : \A j \in Present(Stored(d, a, i, tid, data), b) :
                 j \in Present(d, b) \/ (b = a /\ j = i)
<1> DEFINE s == Stored(d, a, i, tid, data)
<1>1. CASE ~Exists(d, a, i)
  BY <1>1 DEF DiskType, Stored, Present, Row, Content
<1>2. CASE Exists(d, a, i) /\ d[a][i].completed = tid
  <2>1. d[a][i] \in Row
    BY <1>2 DEF DiskType, Exists
  <2>2. [d[a][i] EXCEPT !.size = @ + Len(data), !.data = @ \o data] \in Row
    <3>1. d[a][i].size + Len(data) \in Nat /\ d[a][i].data \o data \in Content
      BY <2>1 DEF Row, Content
    <3> QED
      BY <2>1, <3>1, RowUpdate
  <2>3. s = [d EXCEPT ![a][i] = [d[a][i] EXCEPT !.size = @ + Len(data), !.data = @ \o data]]
    BY <1>2 DEF Stored, DiskType, Exists
  <2> QED
    BY <1>2, <2>2, <2>3 DEF DiskType, Present, Exists
<1>3. CASE Exists(d, a, i) /\ d[a][i].completed # tid
  BY <1>3 DEF Stored
<1> QED
  BY <1>1, <1>2, <1>3

\* Cached_ on disk adds and removes no row.
LEMMA MarkedType ==
    ASSUME NEW d \in DiskType, NEW a \in Archive, NEW i \in Item
    PROVE  /\ Marked(d, a, i) \in DiskType
           /\ \A b \in Archive : Present(Marked(d, a, i), b) = Present(d, b)
<1>1. CASE IsProcessing(d, a, i)
  <2>1. d[a][i] \in Row
    BY <1>1 DEF DiskType, Exists, IsProcessing
  <2>2. [d[a][i] EXCEPT !.completed = Done] \in Row
    BY <2>1 DEF Row
  <2>3. Marked(d, a, i) = [d EXCEPT ![a][i] = [d[a][i] EXCEPT !.completed = Done]]
    BY <1>1 DEF Marked, DiskType
  <2> QED
    BY <1>1, <2>2, <2>3, AbsentAssumption DEF DiskType, Present, Exists, IsProcessing
<1>2. CASE ~IsProcessing(d, a, i)
  BY <1>2 DEF Marked
<1> QED
  BY <1>1, <1>2

\* PurgeUnreferencedWithAIdx_ never drops an archive that has entries.
LEMMA PurgeUnreferencedRows ==
    ASSUME NEW d, NEW R \in SUBSET Archive, NEW a \in Archive
    PROVE  /\ PurgeUnreferencedWithAIdx(d, R, a) \subseteq R
           /\ \A b \in R : Present(d, b) # {} => b \in PurgeUnreferencedWithAIdx(d, R, a)
  BY DEF PurgeUnreferencedWithAIdx

\* Every step keeps the stores and their keys as they should be: one case per
\* action that changes a store.
LEMMA StoresStep ==
    ASSUME TypeInv, [Next]_vars
    PROVE  StoresOK'
<1> USE DEF TypeInv
<1>1. CASE UNCHANGED stores
  BY <1>1 DEF StoresOK, stores, Present
<1>2. CASE PurgeUnmarkedMem
  <2>1. ext.a \in Archive
    BY DEF ExtOK, ExtState
  <2>2. /\ mem' \in MemType
        /\ \A b \in Archive : Present(mem', b) \subseteq Present(mem, b)
    BY <1>2, <2>1, MemPurgedType DEF PurgeUnmarkedMem, StoresOK
  <2> QED
    BY <1>2, <2>1, <2>2 DEF PurgeUnmarkedMem, StoresOK, Present
<1>3. CASE PurgeUnreferencedMem
  BY <1>3 DEF PurgeUnreferencedMem, StoresOK, Present
<1>4. CASE PurgeUnmarkedDisk
  <2>1. ext.a \in Archive
    BY DEF ExtOK, ExtState
  <2>2. /\ disk' \in DiskType
        /\ \A b \in Archive : Present(disk', b) \subseteq Present(disk, b)
    BY <1>4, <2>1, DiskPurgedType DEF PurgeUnmarkedDisk, StoresOK
  <2>3. /\ rows' \subseteq rows
        /\ \A b \in rows : Present(disk', b) # {} => b \in rows'
    BY <1>4, <2>1, PurgeUnreferencedRows DEF PurgeUnmarkedDisk, StoresOK
  <2> QED
    BY <1>4, <2>2, <2>3 DEF PurgeUnmarkedDisk, StoresOK, Present
<1>5. CASE AppendLookup
  BY <1>5 DEF AppendLookup, StoresOK, Present, ExtOK, ExtState
<1>6. CASE AppendMem
  <2>1. ext.a \in Archive /\ ext.i \in Item /\ ext.c \in Nat
    BY <1>6 DEF AppendMem, ExtOK, ExtState, ItemPC
  <2> DEFINE e == IF Exists(mem, ext.a, ext.i) THEN mem[ext.a][ext.i] ELSE NewEntry
             f == [e EXCEPT !.buf = Append(@, ext.c)]
  <2>2. e \in MemEntry
    BY <2>1, EntryUpdate DEF StoresOK, MemType, Exists
  <2>3. f \in MemEntry
    BY <2>1, <2>2, EntryUpdate
  <2>4. mem' = IF ext.a \in table THEN [mem EXCEPT ![ext.a][ext.i] = f] ELSE mem
    BY <1>6 DEF AppendMem
  <2> HIDE DEF e, f
  <2> QED
    <3>1. mem' \in MemType
      BY <2>1, <2>3, <2>4 DEF StoresOK, MemType
    <3>2. \A b \in Archive, j \in Item :
             mem'[b][j] # Absent => mem[b][j] # Absent \/ b \in table
      BY <2>1, <2>3, <2>4 DEF StoresOK, MemType
    <3> QED
      BY <1>6, <3>1, <3>2 DEF AppendMem, StoresOK, Present
<1>7. CASE \E v \in Archive : ReduceVictim(v)
  BY <1>7 DEF ReduceVictim, StoresOK, Present
<1>8. CASE SpillFirst
  BY <1>8 DEF SpillFirst, StoresOK, Present, ExtOK, ExtState
<1>9. CASE StoreSpilled
  <2>1. /\ ext.v \in Archive /\ ext.j \in Item /\ ext.tid \in Tid
        /\ Exists(mem, ext.v, ext.j)
    BY <1>9 DEF StoreSpilled, ExtOK, ExtState, SpillPC, WorkPC, ExtPC, LockedPC
  <2> DEFINE e == mem[ext.v][ext.j]
             d == Stored(disk, ext.v, ext.j, ext.tid, e.buf)
  <2>2. e \in MemEntry
    BY <2>1 DEF StoresOK, MemType, Exists
  <2>3. e.buf \in Content
    BY <2>2 DEF MemEntry
  <2>4. /\ d \in DiskType
        /\ \A b \in Archive : \A j \in Present(d, b) :
              j \in Present(disk, b) \/ (b = ext.v /\ j = ext.j)
    BY <2>1, <2>3, StoredType DEF StoresOK
  <2>5. disk' = IF e.cached THEN Marked(d, ext.v, ext.j) ELSE d
    BY <1>9 DEF StoreSpilled
  <2> HIDE DEF e, d
  <2>6. disk' \in DiskType /\ \A b \in Archive : Present(disk', b) = Present(d, b)
    BY <2>1, <2>4, <2>5, MarkedType DEF Present
  <2>7. mem' = [mem EXCEPT ![ext.v][ext.j] = Absent]
    BY <1>9 DEF StoreSpilled
  <2>8. /\ mem' \in MemType
        /\ \A b \in Archive : Present(mem', b) \subseteq Present(mem, b)
    <3>1. /\ mem' \in MemType
          /\ \A b \in Archive, j \in Item : mem'[b][j] # Absent => mem[b][j] # Absent
      <4>1. Absent \in MemEntry \cup {Absent} /\ mem \in MemType
        BY DEF StoresOK
      <4> QED
        BY <2>1, <2>7, <4>1 DEF MemType
    <3> QED
      BY <3>1 DEF Present
  <2> QED
    BY <1>9, <2>1, <2>4, <2>6, <2>8 DEF StoreSpilled, StoresOK
<1>10. CASE AppendDisk
  BY <1>10 DEF AppendDisk, StoresOK, Present, ExtOK, ExtState
<1>11. CASE \E w \in Archive : EvictFiles(w)
  <2> PICK w \in Archive : EvictFiles(w)
    BY <1>11
  <2> DEFINE E == EvictedRows(disk, w, dneed)
             f == [i \in Item |-> IF i \in E THEN [disk[w][i] EXCEPT !.data = << >>]
                                 ELSE disk[w][i]]
  <2>1. ASSUME NEW i \in Item
        PROVE  /\ f[i] \in Row \cup {Absent}
               /\ f[i] # Absent <=> disk[w][i] # Absent
    <3>1. CASE i \in E
      <4>1. disk[w][i] \in Row
        BY <3>1 DEF EvictedRows, CompletedRows, DiskCached, Exists, StoresOK, DiskType
      <4>2. [disk[w][i] EXCEPT !.data = << >>] \in Row
        BY <4>1, EmptiedRow
      <4> QED
        BY <3>1, <4>1, <4>2, AbsentAssumption
    <3>2. CASE i \notin E
      BY <3>2 DEF StoresOK, DiskType
    <3> QED
      BY <3>1, <3>2
  <2>2. disk' = [disk EXCEPT ![w] = f]
    BY DEF EvictFiles
  <2>3. f \in [Item -> Row \cup {Absent}]
    BY <2>1
  <2> HIDE DEF f
  <2> QED
    BY <2>1, <2>2, <2>3 DEF EvictFiles, StoresOK, DiskType, Present
<1>12. CASE EvictRows
  <2>1. ext.w \in Archive
    BY DEF ExtOK, ExtState
  <2>2. /\ disk' \in DiskType
        /\ \A b \in Archive : Present(disk', b) \subseteq Present(disk, b)
    BY <1>12, <2>1 DEF EvictRows, StoresOK, DiskType, Present
  <2>3. /\ rows' \subseteq rows
        /\ \A b \in rows : Present(disk', b) # {} => b \in rows'
    BY <1>12, <2>1, PurgeUnreferencedRows DEF EvictRows, StoresOK
  <2> QED
    BY <1>12, <2>2, <2>3 DEF EvictRows, StoresOK, Present
<1>13. CASE StorePiece
  <2>1. ext.a \in Archive /\ ext.i \in Item /\ ext.tid \in Tid /\ << ext.c >> \in Content
    BY <1>13 DEF StorePiece, ExtOK, ExtState, ItemPC, WorkPC, ExtPC, LockedPC, Content
  <2>2. /\ disk' \in DiskType
        /\ \A b \in Archive : \A j \in Present(disk', b) :
              j \in Present(disk, b) \/ (b = ext.a /\ j = ext.i)
    BY <1>13, <2>1, StoredType DEF StorePiece, StoresOK
  <2> QED
    BY <1>13, <2>1, <2>2 DEF StorePiece, StoresOK
<1>14. CASE MarkMem
  <2>1. ext.a \in Archive /\ ext.i \in Item
    BY <1>14 DEF MarkMem, ExtOK, ExtState, ItemPC
  <2> DEFINE e == IF Exists(mem, ext.a, ext.i) THEN mem[ext.a][ext.i] ELSE NewEntry
             f == [e EXCEPT !.cached = TRUE]
  <2>2. e \in MemEntry
    BY <2>1, EntryUpdate DEF StoresOK, MemType, Exists
  <2>3. f \in MemEntry
    BY <2>2, EntryUpdate
  <2>4. mem' = [mem EXCEPT ![ext.a][ext.i] = f]
    BY <1>14 DEF MarkMem
  <2> HIDE DEF e, f
  <2> QED
    <3>1. mem' \in MemType
      BY <2>1, <2>3, <2>4 DEF StoresOK, MemType
    <3>2. \A b \in Archive, j \in Item :
             mem'[b][j] # Absent => mem[b][j] # Absent \/ b = ext.a
      BY <2>1, <2>3, <2>4 DEF StoresOK, MemType
    <3> QED
      BY <1>14, <2>1, <3>1, <3>2 DEF MarkMem, StoresOK, Present
<1>15. CASE MarkDisk
  <2>1. ext.a \in Archive /\ ext.i \in Item
    BY <1>15 DEF MarkDisk, ExtOK, ExtState, ItemPC
  <2> QED
    BY <1>15, <2>1, MarkedType DEF MarkDisk, StoresOK
<1>16. CASE \E r \in Caller : ReadMem(r)
  <2> PICK r \in Caller : ReadMem(r)
    BY <1>16
  <2>1. call[r].a \in Archive /\ call[r].i \in Item
    BY DEF ReadMem, CallOK, CallState
  <2>2. CASE UNCHANGED mem
    BY <2>2 DEF ReadMem, StoresOK, Present
  <2>3. CASE /\ call[r].a \in table
             /\ mem' = [mem EXCEPT ![call[r].a][call[r].i] = NewEntry]
    <3>1. /\ mem' \in MemType
          /\ \A b \in Archive, j \in Item :
                mem'[b][j] # Absent => mem[b][j] # Absent \/ b = call[r].a
      BY <2>1, <2>3, EntryUpdate DEF StoresOK, MemType
    <3> QED
      BY <2>3, <3>1 DEF ReadMem, StoresOK, Present
  <2> QED
    BY <2>2, <2>3 DEF ReadMem
<1>17. CASE ClearMem
  BY <1>17 DEF ClearMem, StoresOK, Present, NoMem, MemType
<1>18. CASE ClearDisk
  BY <1>18 DEF ClearDisk, StoresOK, Present, NoDisk, DiskType
<1>19. CASE Crash
  BY <1>19 DEF Crash, StoresOK, Present, NoMem, MemType
<1> QED
  BY <1>1, <1>2, <1>3, <1>4, <1>5, <1>6, <1>7, <1>8, <1>9, <1>10, <1>11, <1>12,
     <1>13, <1>14, <1>15, <1>16, <1>17, <1>18, <1>19
     DEF Next, vars, stores, Extractor, CallerStep, ExtStart, ExtNoItems, GetStream,
         ExtractReturns, ItemError, Write, ItemOK, Measure, CallReduce, ReduceSpin,
         ReduceEnd, EvictEnd, Result, Notify, Cleanup, ThreadExit, PeekMem, PeekDisk,
         GetFileCache, ReadDisk, Extract, WaitEnds, Returned, Request

\* Every step keeps the types of the extractor's registers.
LEMMA ExtType ==
    ASSUME TypeInv, [Next]_vars
    PROVE  ext' \in ExtState
<1> USE DEF TypeInv
<1>1. CASE UNCHANGED ext
  BY <1>1
<1>2. ext.pc \in ExtPC /\ ext.a \in Archive /\ ext.c \in Nat
  BY DEF ExtState
<1>3. /\ {"idle", "purgeUnmarked", "purgeUnreferenced", "purgeDisk",
         "stream", "write", "lookup", "appendMem", "measure", "callReduce",
         "appendDisk", "result", "markMem", "markDisk", "notify", "cleanup",
         "reduce", "spill", "evict", "deleteRows", "store"} \subseteq ExtPC
      /\ 0 \in Position /\ 1 \in Position /\ 0 \in EntryIndex
      /\ \A i \in Item : i \in EntryIndex /\ i + 1 \in Position
  BY NumItemsAssumption DEF ExtPC, LockedPC, Position, EntryIndex, Item
<1>4. Idle \in ExtState
  BY <1>3, ArchiveAssumption DEF Idle, AnArchive, ExtState
<1>5. CASE \E a \in Archive : ExtStart(a)
  <2> PICK a \in Archive, t \in Tid :
         ext' = [Idle EXCEPT !.pc = "purgeUnmarked", !.a = a, !.tid = t, !.v = a, !.w = a]
    BY <1>5 DEF ExtStart
  <2> QED
    BY <1>3, <1>4 DEF ExtState
<1>6. CASE \E a \in Archive : ExtNoItems(a)
  BY <1>6, <1>3, <1>4 DEF ExtNoItems, ExtState
<1>7. CASE Crash \/ Cleanup
  BY <1>7, <1>4 DEF Crash, Cleanup
<1>8. NextPiece => ext' \in ExtState
  <2>1. "write" \in ExtPC /\ ext.c + 1 \in Nat /\ 0 \in EntryIndex
    BY <1>2, <1>3
  <2> QED
    BY <2>1 DEF NextPiece, ExtState
<1>9. CASE AppendLookup
  BY <1>9, <1>2, <1>3 DEF AppendLookup, ExtState
<1>10. CASE AppendMem
  BY <1>10, <1>2, <1>3 DEF AppendMem, ExtState
<1>11. CASE CallReduce
  BY <1>11, <1>2, <1>3 DEF CallReduce, ExtState
<1>12. CASE MarkMem
  BY <1>12, <1>2, <1>3 DEF MarkMem, ExtState
<1>13. CASE MarkDisk
  BY <1>13, <1>2, <1>3 DEF MarkDisk, ExtState
<1>14. CASE Result
  BY <1>14, <1>2, <1>3 DEF Result, ExtState
<1>15. CASE Write
  BY <1>15, <1>2, <1>3 DEF Write, ExtState
<1>16. CASE ItemOK
  BY <1>16, <1>2, <1>3 DEF ItemOK, ExtState
<1>17. CASE ItemError
  BY <1>17, <1>2, <1>3 DEF ItemError, ExtOK, ItemPC, ExtState
<1>18. CASE Measure
  BY <1>18, <1>8, <1>3 DEF Measure, ExtState
<1>19. CASE ReduceEnd
  BY <1>19, <1>8 DEF ReduceEnd
<1>20. CASE Notify
  BY <1>20, <1>2, <1>3 DEF Notify, ExtOK, ItemPC, ExtState
<1>21. CASE GetStream
  BY <1>21, <1>2, <1>3 DEF GetStream, ExtState
<1>22. CASE ExtractReturns
  BY <1>22, <1>2, <1>3 DEF ExtractReturns, ExtState
<1>23. CASE PurgeUnmarkedMem
  BY <1>23, <1>2, <1>3 DEF PurgeUnmarkedMem, ExtState
<1>24. CASE PurgeUnreferencedMem
  BY <1>24, <1>2, <1>3 DEF PurgeUnreferencedMem, ExtState
<1>25. CASE PurgeUnmarkedDisk
  BY <1>25, <1>2, <1>3 DEF PurgeUnmarkedDisk, ExtState
<1>26. CASE SpillFirst
  <2>1. Present(mem, ext.v) # {} => FirstIndex(mem, ext.v) \in Item
    BY FirstIndexType DEF ExtState
  <2> QED
    BY <1>26, <1>2, <1>3, <2>1 DEF SpillFirst, ExtState
<1>27. CASE AppendDisk
  BY <1>27, <1>2, <1>3 DEF AppendDisk, ExtOK, ItemPC, ExtState
<1>28. CASE EvictRows
  BY <1>28, <1>2, <1>3 DEF EvictRows, ExtState
<1>29. CASE EvictEnd
  BY <1>29, <1>2, <1>3 DEF EvictEnd, ExtState
<1>30. CASE StorePiece
  BY <1>30, <1>8 DEF StorePiece
<1>31. CASE StoreSpilled
  BY <1>31, <1>2, <1>3 DEF StoreSpilled, ExtState
<1>32. CASE \E v \in Archive : ReduceVictim(v)
  BY <1>32, <1>3 DEF ReduceVictim, ExtState
<1>33. CASE \E v \in Archive : EvictFiles(v)
  BY <1>33, <1>3 DEF EvictFiles, ExtState
<1> QED
  BY <1>1, <1>5, <1>9, <1>10, <1>11, <1>12, <1>13, <1>14, <1>15, <1>16, <1>17, <1>18,
     <1>19, <1>20, <1>21, <1>22, <1>23, <1>24, <1>25, <1>26, <1>27, <1>28, <1>29,
     <1>30, <1>31, <1>6, <1>7, <1>32, <1>33
     DEF Next, vars, Extractor, CallerStep, ReduceSpin, ThreadExit, PeekMem, PeekDisk,
         GetFileCache, ReadMem, ReadDisk, Extract, WaitEnds, Returned, Request, ClearMem, ClearDisk

\* Every step keeps the meaning of the extractor's registers.
LEMMA ExtPlace ==
    ASSUME TypeInv, [Next]_vars
    PROVE  ExtOK'
<1> USE DEF TypeInv
<1>1. CASE UNCHANGED <<ext, mem>>
  BY <1>1 DEF ExtOK, Exists
<1>2. CASE (\E r \in Caller : ReadMem(r)) \/ ClearMem
  <2>1. ext' = ext /\ ext.pc \notin SpillPC
    BY <1>2 DEF ReadMem, ClearMem, Locked, LockedPC, SpillPC
  <2> QED
    BY <2>1 DEF ExtOK
<1>3. CASE ext'.pc \in {"idle", "cleanup"}
  BY <1>3 DEF ExtOK, WorkPC, ItemPC, SpillPC, LockedPC
<1>4. CASE \E a \in Archive : ExtStart(a)
  <2>1. /\ ext'.pc = "purgeUnmarked" /\ ext'.tid \in Tid
        /\ ~ext'.direct /\ ext'.v = ext'.a
    BY <1>4 DEF ExtStart, Idle
  <2> QED
    BY <2>1 DEF ExtOK, ItemPC, SpillPC, LockedPC
<1>5. CASE /\ ext'.pc \in {"stream", "purgeUnmarked", "purgeUnreferenced", "purgeDisk"}
           /\ ext.pc \in WorkPC \ (SpillPC \cup {"spill"})
           /\ ext'.tid = ext.tid /\ ext'.a = ext.a /\ ext'.v = ext.v
           /\ ext'.direct = ext.direct
  BY <1>5 DEF ExtOK, ItemPC, SpillPC, LockedPC
<1>6. CASE /\ ext'.pc \in ItemPC \ SpillPC
           /\ ext.pc \in ItemPC /\ ext'.tid = ext.tid /\ ext'.i = ext.i
           /\ ~ext'.direct
           /\ ext'.pc # "spill" => ext'.v = ext'.a
  BY <1>6 DEF ExtOK, WorkPC, ExtPC, ItemPC, SpillPC, LockedPC
<1>7. CASE GetStream
  <2>1. /\ ext'.pc = "write" /\ ext'.tid = ext.tid /\ ext'.i = ext.i /\ ext'.a = ext.a
        /\ ext'.v = ext.v /\ ext'.direct = ext.direct
    BY <1>7 DEF GetStream, ExtState
  <2> QED
    BY <1>7, <2>1 DEF GetStream, ExtOK, WorkPC, ExtPC, SpillPC, LockedPC
<1>8. CASE /\ ext'.pc \in SpillPC
           /\ ext'.tid \in Tid /\ ext'.i \in Item /\ ext'.j \in Item
           /\ ~ext'.direct => Exists(mem', ext'.v, ext'.j)
           /\ ext'.direct => ext'.v = ext'.a /\ ext'.j = ext'.i
  BY <1>8 DEF ExtOK
<1>9. CASE SpillFirst
  <2>1. ext.tid \in Tid /\ ext.i \in Item /\ ext.v \in Archive
    BY <1>9 DEF SpillFirst, ExtOK, ExtState, WorkPC, ExtPC, ItemPC, LockedPC
  <2>2. CASE need > 0 /\ Present(mem, ext.v) # {}
    <3> DEFINE j == FirstIndex(mem, ext.v)
    <3>1. j \in Item /\ Exists(mem, ext.v, j)
      BY <2>1, <2>2, FirstIndexType
    <3>2. ext' = [ext EXCEPT !.pc = "evict", !.j = j] /\ mem' = mem
      BY <1>9, <2>2 DEF SpillFirst
    <3>3. ~ext.direct
      BY <1>9 DEF SpillFirst, ExtOK, WorkPC, ExtPC, SpillPC, LockedPC
    <3> HIDE DEF j
    <3>4. /\ ext'.pc = "evict" /\ ext'.tid = ext.tid /\ ext'.i = ext.i
          /\ ext'.j = j /\ ext'.v = ext.v /\ ext'.direct = ext.direct
      BY <3>2 DEF ExtState
    <3> QED
      BY <1>8, <2>1, <3>1, <3>2, <3>3, <3>4 DEF SpillPC, Exists
  <2>3. CASE ~(need > 0 /\ Present(mem, ext.v) # {})
    <3>1. /\ ext'.pc = "reduce" /\ ext.pc = "spill" /\ ext'.tid = ext.tid /\ ext'.i = ext.i
          /\ ext'.direct = ext.direct /\ ext'.v = ext'.a
      <4>1. ext.pc = "spill" /\ ext' = [ext EXCEPT !.pc = "reduce", !.v = ext.a, !.j = 0]
        BY <1>9, <2>3 DEF SpillFirst
      <4> QED
        BY <4>1 DEF ExtState
    <3> QED
      BY <1>6, <3>1 DEF ExtOK, WorkPC, ExtPC, ItemPC, SpillPC, LockedPC
  <2> QED
    BY <2>2, <2>3
<1>10. CASE AppendDisk
  <2>1. ext.tid \in Tid /\ ext.i \in Item /\ ~ext.direct /\ ext.v = ext.a
    BY <1>10 DEF AppendDisk, ExtOK, ExtState, WorkPC, ExtPC, ItemPC, SpillPC, LockedPC
  <2>2. /\ ext'.pc = "evict" /\ ext'.tid = ext.tid /\ ext'.i = ext.i
        /\ ext'.j = ext.i /\ ext'.v = ext.v /\ ext'.a = ext.a /\ ext'.direct = TRUE
    BY <1>10 DEF AppendDisk, ExtState
  <2> QED
    BY <1>8, <2>1, <2>2 DEF SpillPC
<1>11. CASE (\E w \in Archive : EvictFiles(w)) \/ EvictRows \/ EvictEnd
  <2>1. /\ ext.pc \in SpillPC /\ ext'.pc \in SpillPC /\ mem' = mem
        /\ ext'.tid = ext.tid /\ ext'.i = ext.i /\ ext'.j = ext.j /\ ext'.v = ext.v
        /\ ext'.a = ext.a /\ ext'.direct = ext.direct
    <3>1. CASE \E w \in Archive : EvictFiles(w)
      BY <3>1 DEF EvictFiles, ExtState, SpillPC
    <3>2. CASE EvictRows
      BY <3>2 DEF EvictRows, ExtState, SpillPC
    <3>3. CASE EvictEnd
      BY <3>3 DEF EvictEnd, stores, ExtState, SpillPC
    <3> QED
      BY <1>11, <3>1, <3>2, <3>3
  <2> QED
    BY <1>8, <2>1 DEF ExtOK, Exists, WorkPC, ExtPC, ItemPC, SpillPC, LockedPC
<1>12. CASE PurgeUnmarkedMem \/ PurgeUnreferencedMem \/ PurgeUnmarkedDisk \/ ExtractReturns
  <2>1. /\ ext'.pc \in {"stream", "purgeUnmarked", "purgeUnreferenced", "purgeDisk", "cleanup"}
        /\ ext.pc \in {"stream", "purgeUnmarked", "purgeUnreferenced", "purgeDisk"}
        /\ ext'.tid = ext.tid /\ ext'.a = ext.a /\ ext'.v = ext.v /\ ext'.direct = ext.direct
    BY <1>12 DEF PurgeUnmarkedMem, PurgeUnreferencedMem, PurgeUnmarkedDisk,
                 ExtractReturns, ExtState
  <2> QED
    BY <2>1, <1>3, <1>5 DEF WorkPC, ExtPC, SpillPC, LockedPC
<1>13. CASE ItemError \/ Notify
  <2>1. /\ ext'.pc = "stream" /\ ext.pc \in {"write", "notify"}
        /\ ext'.tid = ext.tid /\ ext'.a = ext.a /\ ext'.v = ext.v /\ ext'.direct = ext.direct
    BY <1>13 DEF ItemError, Notify, ExtState
  <2> QED
    BY <2>1, <1>5 DEF WorkPC, ExtPC, SpillPC, LockedPC
<1>14. NextPiece => /\ ext'.pc = "write" /\ ext'.tid = ext.tid /\ ext'.i = ext.i
                    /\ ~ext'.direct /\ ext'.v = ext'.a
  BY DEF NextPiece, ExtState
<1>15. CASE Write \/ ItemOK \/ AppendLookup \/ AppendMem \/ CallReduce \/ Result \/ MarkMem \/ MarkDisk
  <2>1. /\ ext'.pc \in {"write", "appendDisk", "lookup", "result", "appendMem", "measure",
                         "reduce", "markMem", "markDisk", "notify"}
        /\ ext.pc \in {"write", "appendDisk", "lookup", "result", "appendMem", "measure",
                         "callReduce", "markMem", "markDisk"}
        /\ ext'.tid = ext.tid /\ ext'.i = ext.i
        /\ ext'.direct = ext.direct /\ ext'.v = ext.v /\ ext'.a = ext.a
    BY <1>15 DEF Write, ItemOK, AppendLookup, AppendMem, CallReduce, Result, MarkMem,
                 MarkDisk, ExtState
  <2> QED
    BY <2>1, <1>6 DEF ExtOK, WorkPC, ExtPC, ItemPC, SpillPC, LockedPC
<1>16. CASE Measure \/ ReduceEnd
  <2>1. CASE NextPiece
    BY <2>1, <1>14, <1>16, <1>6 DEF Measure, ReduceEnd, ItemPC, SpillPC, LockedPC
  <2>2. CASE ~NextPiece
    <3>1. /\ ext'.pc = "callReduce" /\ ext.pc = "measure" /\ ext'.tid = ext.tid
          /\ ext'.i = ext.i /\ ext'.direct = ext.direct /\ ext'.v = ext.v /\ ext'.a = ext.a
      BY <2>2, <1>16 DEF Measure, ReduceEnd, ExtState
    <3> QED
      BY <3>1, <1>6 DEF ExtOK, WorkPC, ExtPC, ItemPC, SpillPC, LockedPC
  <2> QED
    BY <2>1, <2>2
<1>17. CASE \E v \in Archive : ReduceVictim(v)
  <2> PICK v \in Archive : ReduceVictim(v)
    BY <1>17
  <2>1. CASE Present(mem, v) = {}
    BY <2>1, <1>1 DEF ReduceVictim
  <2>2. CASE Present(mem, v) # {}
    <3>1. /\ ext'.pc = "spill" /\ ext.pc = "reduce" /\ ext'.tid = ext.tid
          /\ ext'.i = ext.i /\ ext'.direct = ext.direct
      BY <2>2 DEF ReduceVictim, ExtState
    <3> QED
      BY <3>1, <1>6 DEF ExtOK, WorkPC, ExtPC, ItemPC, SpillPC, LockedPC
  <2> QED
    BY <2>1, <2>2
<1>18. CASE StorePiece
  BY <1>6, <1>14, <1>18 DEF StorePiece, ItemPC, SpillPC, LockedPC
<1>19. CASE StoreSpilled
  <2>1. /\ ext'.pc = "spill" /\ ext.pc = "store" /\ ext'.tid = ext.tid
        /\ ext'.i = ext.i /\ ~ext'.direct
    BY <1>19 DEF StoreSpilled, ExtState
  <2> QED
    BY <2>1, <1>6 DEF ItemPC, SpillPC, LockedPC
<1>20. CASE (\E a \in Archive : ExtNoItems(a)) \/ Cleanup \/ Crash
  <2>1. ext'.pc \in {"idle", "cleanup"}
    <3>1. CASE \E a \in Archive : ExtNoItems(a)
      BY <3>1 DEF ExtNoItems, Idle
    <3>2. CASE Cleanup \/ Crash
      BY <3>2 DEF Cleanup, Crash, Idle
    <3> QED
      BY <1>20, <3>1, <3>2
  <2> QED
    BY <2>1, <1>3
<1> QED
  BY <1>1, <1>2, <1>4, <1>7, <1>9, <1>10, <1>11, <1>12, <1>13, <1>15, <1>16, <1>17,
     <1>18, <1>19, <1>20
     DEF Next, vars, stores, Extractor, CallerStep, ReduceSpin, ThreadExit, PeekMem,
         PeekDisk, GetFileCache, ReadDisk, Extract, WaitEnds, Returned, Request, ClearDisk

\* A call replaced by another one.
LEMMA SetCall ==
    ASSUME TypeInv, NEW r \in Caller, NEW c \in CallState,
           c.pc # "idle" => c.i \in Item, Set(r, c)
    PROVE  CallOK'
  BY DEF TypeInv, CallOK, Set

\* Every step keeps the callers' records as they should be.
LEMMA CallPlace ==
    ASSUME TypeInv, [Next]_vars
    PROVE  CallOK'
<1> USE DEF TypeInv
<1>1. CASE UNCHANGED call
  BY <1>1 DEF CallOK
<1>2. ASSUME NEW a \in Archive, NEW S, Signal(a, S)
      PROVE  CallOK'
  BY <1>2 DEF CallOK, CallState, Signal
<1>3. ASSUME NEW r \in Caller,
             \/ CallerStep(r)
             \/ \E a \in Archive, i \in Item : Request(r, a, i)
      PROVE  CallOK'
  <2>1. /\ call[r] \in CallState
        /\ call[r].pc # "idle" => call[r].i \in Item
    BY DEF CallOK
  <2>2. /\ << >> \in Content /\ Garbage \in Content
        /\ {"idle", "peekMem", "peekDisk", "getFileCache", "readMem", "readDisk",
            "extract", "wait", "done"} \subseteq CallPC
        /\ 0 \in EntryIndex /\ \A i \in Item : i \in EntryIndex
    BY NumItemsAssumption DEF Garbage, Content, CallPC, EntryIndex, Item
  <2>3. NoCall \in CallState
    BY <2>2, ArchiveAssumption DEF NoCall, CallState, AnArchive
  <2>4. CASE \E a \in Archive, i \in Item : Request(r, a, i)
    <3> PICK a \in Archive, i \in Item : Request(r, a, i)
      BY <2>4
    <3> DEFINE c == [NoCall EXCEPT !.pc = "peekMem", !.a = a, !.i = i]
    <3>1. c \in CallState /\ c.i \in Item
      BY <2>2, <2>3 DEF CallState
    <3>2. Set(r, c)
      BY DEF Request
    <3> HIDE DEF c
    <3> QED
      BY <3>1, <3>2, SetCall
  <2> DEFINE At == {"first", "again", "content", "last"}
             Res == {"none", "ok", "error", "exception"}
  <2>5. CASE Returned(r)
    BY <2>5, <2>3, SetCall DEF Returned, NoCall
  <2>6. ASSUME NEW p \in CallPC, call[r].pc # "idle",
               Set(r, [call[r] EXCEPT !.pc = p])
        PROVE  CallOK'
    <3> DEFINE c == [call[r] EXCEPT !.pc = p]
    <3>1. c \in CallState
      BY <2>1 DEF CallState
    <3>2. c.i \in Item
      BY <2>1, <2>6 DEF CallState
    <3> HIDE DEF c
    <3> QED
      BY <3>1, <3>2, <2>6, SetCall DEF c
  <2>7. ASSUME NEW p \in CallPC, NEW x \in At, call[r].pc # "idle",
               Set(r, [call[r] EXCEPT !.pc = p, !.at = x])
        PROVE  CallOK'
    <3> DEFINE c == [call[r] EXCEPT !.pc = p, !.at = x]
    <3>1. c \in CallState
      BY <2>1 DEF CallState
    <3>2. c.i \in Item
      BY <2>1, <2>7 DEF CallState
    <3> HIDE DEF c
    <3> QED
      BY <3>1, <3>2, <2>7, SetCall DEF c
  <2>8. ASSUME NEW p \in CallPC, NEW x \in Res, call[r].pc # "idle",
               Set(r, [call[r] EXCEPT !.pc = p, !.res = x])
        PROVE  CallOK'
    <3> DEFINE c == [call[r] EXCEPT !.pc = p, !.res = x]
    <3>1. c \in CallState
      BY <2>1 DEF CallState
    <3>2. c.i \in Item
      BY <2>1, <2>8 DEF CallState
    <3> HIDE DEF c
    <3> QED
      BY <3>1, <3>2, <2>8, SetCall DEF c
  <2>9. ASSUME NEW g \in Content, NEW p \in CallPC, NEW x \in At, call[r].pc # "idle",
               Set(r, [[call[r] EXCEPT !.got = g] EXCEPT !.pc = p, !.at = x])
        PROVE  CallOK'
    <3> DEFINE c == [[call[r] EXCEPT !.got = g] EXCEPT !.pc = p, !.at = x]
    <3>1. c \in CallState
      BY <2>1 DEF CallState
    <3>2. c.i \in Item
      BY <2>1, <2>9 DEF CallState
    <3> HIDE DEF c
    <3> QED
      BY <3>1, <3>2, <2>9, SetCall DEF c
  <2>10. ASSUME NEW g \in Content, NEW p \in CallPC, NEW x \in Res, call[r].pc # "idle",
               Set(r, [[call[r] EXCEPT !.got = g] EXCEPT !.pc = p, !.res = x])
        PROVE  CallOK'
    <3> DEFINE c == [[call[r] EXCEPT !.got = g] EXCEPT !.pc = p, !.res = x]
    <3>1. c \in CallState
      BY <2>1 DEF CallState
    <3>2. c.i \in Item
      BY <2>1, <2>10 DEF CallState
    <3> HIDE DEF c
    <3> QED
      BY <3>1, <3>2, <2>10, SetCall DEF c
  <2>11. ASSUME NEW p \in CallPC, NEW w \in BOOLEAN, call[r].pc # "idle",
               Set(r, [call[r] EXCEPT !.pc = p, !.waited = w])
        PROVE  CallOK'
    <3> DEFINE c == [call[r] EXCEPT !.pc = p, !.waited = w]
    <3>1. c \in CallState
      BY <2>1 DEF CallState
    <3>2. c.i \in Item
      BY <2>1, <2>11 DEF CallState
    <3> HIDE DEF c
    <3> QED
      BY <3>1, <3>2, <2>11, SetCall DEF c
  <2>12. ASSUME NEW p \in CallPC, NEW x \in At, NEW w \in BOOLEAN, call[r].pc # "idle",
               Set(r, [call[r] EXCEPT !.pc = p, !.at = x, !.waited = w])
        PROVE  CallOK'
    <3> DEFINE c == [call[r] EXCEPT !.pc = p, !.at = x, !.waited = w]
    <3>1. c \in CallState
      BY <2>1 DEF CallState
    <3>2. c.i \in Item
      BY <2>1, <2>12 DEF CallState
    <3> HIDE DEF c
    <3> QED
      BY <3>1, <3>2, <2>12, SetCall DEF c
  <2>13. ASSUME NEW p \in CallPC, NEW x \in At, NEW w \in BOOLEAN, call[r].pc # "idle",
               Set(r, [call[r] EXCEPT !.pc = p, !.at = x, !.signaled = w])
        PROVE  CallOK'
    <3> DEFINE c == [call[r] EXCEPT !.pc = p, !.at = x, !.signaled = w]
    <3>1. c \in CallState
      BY <2>1 DEF CallState
    <3>2. c.i \in Item
      BY <2>1, <2>13 DEF CallState
    <3> HIDE DEF c
    <3> QED
      BY <3>1, <3>2, <2>13, SetCall DEF c
  <2>14. /\ "first" \in At /\ "again" \in At /\ "content" \in At /\ "last" \in At
         /\ "ok" \in Res /\ "error" \in Res /\ "exception" \in Res
    OBVIOUS
  <2> HIDE DEF At, Res
  <2>15. ASSUME NEW x \in {"getFileCache", "readDisk"}, call[r].pc # "idle", Hit(r, x)
         PROVE  CallOK'
    BY <2>2, <2>6, <2>7, <2>8, <2>14, <2>15 DEF Hit, Return
  <2>16. ASSUME NEW g \in Content, call[r].pc # "idle", ContentRead(r, g)
         PROVE  CallOK'
    BY <2>2, <2>9, <2>10, <2>14, <2>16 DEF ContentRead
  <2>17. ASSUME call[r].pc # "idle", Miss(r)
         PROVE  CallOK'
    BY <2>2, <2>6, <2>7, <2>8, <2>14, <2>16, <2>17 DEF Miss, Return
  <2>18. CASE PeekMem(r)
    BY <2>2, <2>6, <2>15, <2>18 DEF PeekMem
  <2>19. CASE PeekDisk(r)
    BY <2>15, <2>17, <2>19 DEF PeekDisk
  <2>20. CASE GetFileCache(r)
    BY <2>2, <2>6, <2>8, <2>14, <2>20 DEF GetFileCache, Return
  <2>21. CASE ReadMem(r)
    <3>1. Exists(mem, call[r].a, call[r].i) => mem[call[r].a][call[r].i].buf \in Content
      BY <2>1, <2>21 DEF ReadMem, StoresOK, MemType, MemEntry, CallState, Exists
    <3> QED
      BY <2>2, <2>16, <2>21, <3>1 DEF ReadMem
  <2>22. CASE ReadDisk(r)
    <3>1. Exists(disk, call[r].a, call[r].i) => disk[call[r].a][call[r].i].data \in Content
      BY <2>1, <2>22 DEF ReadDisk, StoresOK, DiskType, Row, CallState, Exists
    <3> QED
      BY <2>2, <2>8, <2>14, <2>16, <2>22, <3>1 DEF ReadDisk, Return
  <2>23. CASE Extract(r)
    BY <2>2, <2>11, <2>12, <2>14, <2>23 DEF Extract
  <2>24. CASE WaitEnds(r)
    BY <2>2, <2>13, <2>14, <2>24 DEF WaitEnds
  <2> QED
    BY <1>3, <2>4, <2>5, <2>18, <2>19, <2>20, <2>21, <2>22, <2>23, <2>24 DEF CallerStep
<1>4. CASE Notify \/ Cleanup
  BY <1>2, <1>4 DEF Notify, Cleanup, ExtState
<1>5. CASE Crash
  <2>1. NoCall \in CallState
    BY NumItemsAssumption, ArchiveAssumption
       DEF NoCall, CallState, AnArchive, CallPC, EntryIndex, Content
  <2> QED
    BY <1>5, <2>1 DEF Crash, CallOK, NoCall
<1> QED
  BY <1>1, <1>3, <1>4, <1>5
     DEF Next, vars, stores, Extractor,
         PurgeUnmarkedMem, PurgeUnreferencedMem, PurgeUnmarkedDisk, GetStream,
         ExtractReturns, ItemError, Write, ItemOK, AppendLookup, AppendMem, Measure,
         CallReduce, ReduceVictim, ReduceSpin, ReduceEnd, SpillFirst, StoreSpilled,
         AppendDisk, EvictFiles, EvictRows, EvictEnd, StorePiece, Result, MarkMem,
         MarkDisk, ExtStart, ExtNoItems, ThreadExit, ClearMem, ClearDisk

\* The initial state satisfies the invariant.
THEOREM TypeInvInit == Init => TypeInv
<1> SUFFICES ASSUME Init PROVE TypeInv
  OBVIOUS
<1> USE DEF Init
<1>1. StoresOK
  BY DEF StoresOK, MemType, DiskType, NoMem, NoDisk, Present
<1>2. ext \in ExtState
  BY NumItemsAssumption, ArchiveAssumption
     DEF ExtState, Idle, AnArchive, ExtPC, LockedPC, Position, EntryIndex
<1>3. ExtOK
  BY DEF ExtOK, Idle, WorkPC, ItemPC, SpillPC, LockedPC
<1>4. NoCall \in CallState
  BY NumItemsAssumption, ArchiveAssumption
     DEF NoCall, CallState, AnArchive, CallPC, EntryIndex, Content
<1>5. CallOK
  BY <1>4 DEF CallOK, NoCall
<1> QED
  BY <1>1, <1>2, <1>3, <1>5 DEF TypeInv, ThreadOK

\* Every step of the extractor, a caller, the dialog or a crash keeps it.
THEOREM TypeInvStep == TypeInv /\ [Next]_vars => TypeInv'
<1> SUFFICES ASSUME TypeInv, [Next]_vars PROVE TypeInv'
  OBVIOUS
<1>1. ThreadOK'
  <2>1. thread \in [Archive -> {"none", "ready", "running", "exiting"}]
    BY DEF TypeInv, ThreadOK
  <2> QED
    BY <2>1 DEF ThreadOK, Next, vars, stores, Extractor, CallerStep, ExtStart, ExtNoItems,
       PurgeUnmarkedMem, PurgeUnreferencedMem, PurgeUnmarkedDisk, GetStream,
       ExtractReturns, ItemError, Write, ItemOK, AppendLookup, AppendMem, Measure,
       CallReduce, ReduceVictim, ReduceSpin, ReduceEnd, SpillFirst, StoreSpilled,
       AppendDisk, EvictFiles, EvictRows, EvictEnd, StorePiece, Result, MarkMem,
       MarkDisk, Notify, Cleanup, ThreadExit, PeekMem, PeekDisk, GetFileCache, ReadMem,
       ReadDisk, Extract, WaitEnds, Returned, Request, ClearMem, ClearDisk, Crash
<1>2. (clearing \in BOOLEAN)'
  BY DEF TypeInv, Next, vars, stores, Extractor, CallerStep, ExtStart, ExtNoItems,
       PurgeUnmarkedMem, PurgeUnreferencedMem, PurgeUnmarkedDisk, GetStream,
       ExtractReturns, ItemError, Write, ItemOK, AppendLookup, AppendMem, Measure,
       CallReduce, ReduceVictim, ReduceSpin, ReduceEnd, SpillFirst, StoreSpilled,
       AppendDisk, EvictFiles, EvictRows, EvictEnd, StorePiece, Result, MarkMem,
       MarkDisk, Notify, Cleanup, ThreadExit, PeekMem, PeekDisk, GetFileCache, ReadMem,
       ReadDisk, Extract, WaitEnds, Returned, Request, ClearMem, ClearDisk, Crash
<1> QED
  BY <1>1, <1>2, StoresStep, ExtType, ExtPlace, CallPlace DEF TypeInv

\* In every reachable state the variables have their types, every entry in
\* memory has its archive in m_mTable and m_mAccess, and every row of "entry" has
\* its row of "archive": what GetLRUArchive_, PurgeUnreferenced_ and the JOINs of
\* the disk cache rely on.
THEOREM TypeCorrect == Spec => []TypeOK
<1>1. TypeInv => TypeOK
  BY DEF TypeInv, TypeOK, StoresOK, MemType, DiskType, CallOK, ThreadOK
<1> QED
  BY <1>1, TypeInvInit, TypeInvStep, PTL DEF Spec
----------------------------------------------------------------------------
(* One item of one archive: its entry e in memory, its row r on disk, and  *)
(* how each action changes the two.                                        *)

\* An entry SolidFileCacheMemory::Cached_ has marked, a finished row, and a row
\* that a thread is filling or has left unfinished.
IsMarked(e) == e # Absent /\ e.cached
IsFinished(r) == r # Absent /\ r.completed = Done
Processing(r) == r # Absent /\ r.completed # Done

\* Stored, Marked and the spill, on one row.
StoredRow(r, tid, data) ==
    IF r = Absent THEN [completed |-> tid, size |-> Len(data), data |-> data]
    ELSE IF r.completed = tid
    THEN [r EXCEPT !.size = @ + Len(data), !.data = @ \o data]
    ELSE r
MarkedRow(r) == IF Processing(r) THEN [r EXCEPT !.completed = Done] ELSE r
SpilledRow(e, r, tid) ==
    IF e.cached THEN MarkedRow(StoredRow(r, tid, e.buf)) ELSE StoredRow(r, tid, e.buf)

\* What SolidCacheDisk::Append_ makes of a row: a new row is owned by the
\* writing thread, its own row grows, any other is left alone.
LEMMA StoredRowFacts ==
    ASSUME NEW r \in Row \cup {Absent}, NEW tid \in Tid,
           NEW data \in Content
    PROVE  LET s == StoredRow(r, tid, data) IN
           /\ s \in Row
           /\ r = Absent => s.completed = tid /\ s.size = Len(data) /\ s.data = data
           /\ r # Absent => s.completed = r.completed
           /\ r # Absent /\ r.completed = tid =>
                 s.size = r.size + Len(data) /\ s.data = r.data \o data
           /\ r # Absent /\ r.completed # tid => s = r
<1> DEFINE s == StoredRow(r, tid, data)
<1>1. CASE r = Absent
  BY <1>1 DEF StoredRow, Row, Content
<1>2. CASE r # Absent /\ r.completed = tid
  <2>1. r \in Row
    BY <1>2
  <2>2. r.size + Len(data) \in Nat /\ r.data \o data \in Content
    BY <2>1 DEF Row, Content
  <2> DEFINE x == r.size + Len(data)
             y == r.data \o data
  <2>3. s = [r EXCEPT !.size = x, !.data = y]
    BY <1>2 DEF StoredRow
  <2>6. x \in Nat /\ y \in Content
    BY <2>2
  <2> HIDE DEF x, y
  <2>4. s \in Row
    BY <2>1, <2>3, <2>6 DEF Row
  <2>5. s.completed = r.completed /\ s.size = x /\ s.data = y
    BY <2>1, <2>3 DEF Row
  <2> QED
    BY <1>2, <2>4, <2>5 DEF x, y
<1>3. CASE r # Absent /\ r.completed # tid
  BY <1>3 DEF StoredRow
<1> QED
  BY <1>1, <1>2, <1>3

\* SolidCacheDisk::Cached_ changes only the column "completed".
LEMMA MarkedRowFacts ==
    ASSUME NEW r \in Row
    PROVE  LET s == MarkedRow(r) IN
           /\ s \in Row
           /\ s.completed = Done /\ s.size = r.size /\ s.data = r.data
  BY AbsentAssumption DEF MarkedRow, Processing, Row

\* Stored changes one row, to StoredRow.
LEMMA StoredAt ==
    ASSUME NEW d \in DiskType, NEW a \in Archive, NEW i \in Item,
           NEW tid \in Tid, NEW data \in Content, NEW b \in Archive, NEW k \in Item
    PROVE  Stored(d, a, i, tid, data)[b][k] =
               IF b = a /\ k = i THEN StoredRow(d[a][i], tid, data) ELSE d[b][k]
<1>1. CASE d[a][i] = Absent
  BY <1>1 DEF DiskType, Stored, StoredRow, Exists
<1>2. CASE d[a][i] # Absent /\ d[a][i].completed = tid
  <2>1. d[a][i] \in Row
    BY <1>2 DEF DiskType
  <2> DEFINE f == [d[a][i] EXCEPT !.size = @ + Len(data), !.data = @ \o data]
  <2>2. StoredRow(d[a][i], tid, data) = f
    BY <1>2 DEF StoredRow
  <2>3. Stored(d, a, i, tid, data) = [d EXCEPT ![a][i] = f]
    BY <1>2 DEF Stored, DiskType, Exists
  <2> HIDE DEF f
  <2> QED
    BY <2>2, <2>3 DEF DiskType
<1>3. CASE d[a][i] # Absent /\ d[a][i].completed # tid
  BY <1>3 DEF Stored, StoredRow, Exists
<1> QED
  BY <1>1, <1>2, <1>3

\* Marked changes one row, to MarkedRow.
LEMMA MarkedAt ==
    ASSUME NEW d \in DiskType, NEW a \in Archive, NEW i \in Item,
           NEW b \in Archive, NEW k \in Item
    PROVE  Marked(d, a, i)[b][k] =
               IF b = a /\ k = i THEN MarkedRow(d[a][i]) ELSE d[b][k]
<1>1. CASE Processing(d[a][i])
  <2> DEFINE f == [d[a][i] EXCEPT !.completed = Done]
  <2>1. MarkedRow(d[a][i]) = f
    BY <1>1 DEF MarkedRow
  <2>2. Marked(d, a, i) = [d EXCEPT ![a][i] = f]
    BY <1>1 DEF Marked, Processing, IsProcessing, Exists, DiskType
  <2> HIDE DEF f
  <2> QED
    BY <2>1, <2>2 DEF DiskType
<1>2. CASE ~Processing(d[a][i])
  BY <1>2 DEF Marked, MarkedRow, Processing, IsProcessing, Exists
<1> QED
  BY <1>1, <1>2

\* StoreSpilled, entry by entry: one entry leaves memory and reaches the disk.
LEMMA SpillEffect ==
    ASSUME TypeInv, StoreSpilled
    PROVE  /\ ext.v \in Archive /\ ext.j \in Item /\ ext.tid \in Tid
           /\ mem[ext.v][ext.j] \in MemEntry
           /\ disk[ext.v][ext.j] \in Row \cup {Absent}
           /\ \A b \in Archive, k \in Item :
                 /\ mem'[b][k] = IF b = ext.v /\ k = ext.j THEN Absent ELSE mem[b][k]
                 /\ disk'[b][k] = IF b = ext.v /\ k = ext.j
                                  THEN SpilledRow(mem[b][k], disk[b][k], ext.tid)
                                  ELSE disk[b][k]
<1>1. /\ ext.v \in Archive /\ ext.j \in Item /\ ext.tid \in Tid
      /\ Exists(mem, ext.v, ext.j)
  BY DEF StoreSpilled, TypeInv, ExtOK, ExtState, SpillPC, WorkPC, ExtPC, LockedPC
<1> DEFINE e == mem[ext.v][ext.j]
           d == Stored(disk, ext.v, ext.j, ext.tid, e.buf)
<1>2. e \in MemEntry /\ disk[ext.v][ext.j] \in Row \cup {Absent}
  BY <1>1 DEF TypeInv, StoresOK, MemType, DiskType, Exists
<1>3. e.buf \in Content
  BY <1>2 DEF MemEntry
<1>4. disk' = IF e.cached THEN Marked(d, ext.v, ext.j) ELSE d
  BY DEF StoreSpilled
<1>5. mem' = [mem EXCEPT ![ext.v][ext.j] = Absent]
  BY DEF StoreSpilled
<1>6. d \in DiskType
  BY <1>1, <1>3, StoredType DEF TypeInv, StoresOK
<1> HIDE DEF e
<1>7. ASSUME NEW b \in Archive, NEW k \in Item
      PROVE  d[b][k] = IF b = ext.v /\ k = ext.j
                       THEN StoredRow(disk[b][k], ext.tid, e.buf) ELSE disk[b][k]
  BY <1>1, <1>3, StoredAt DEF TypeInv, StoresOK
<1> HIDE DEF d
<1>8. ASSUME NEW b \in Archive, NEW k \in Item
      PROVE  disk'[b][k] = IF b = ext.v /\ k = ext.j
                           THEN SpilledRow(e, disk[b][k], ext.tid) ELSE disk[b][k]
  <2>1. CASE e.cached
    BY <1>1, <1>4, <1>6, <1>7, <2>1, MarkedAt DEF SpilledRow
  <2>2. CASE ~e.cached
    BY <1>4, <1>7, <2>2 DEF SpilledRow
  <2> QED
    BY <2>1, <2>2
<1>9. \A b \in Archive, k \in Item :
         mem'[b][k] = IF b = ext.v /\ k = ext.j THEN Absent ELSE mem[b][k]
  BY <1>1, <1>5 DEF TypeInv, StoresOK, MemType
<1> QED
  BY <1>1, <1>2, <1>8, <1>9 DEF e

\* StorePiece, entry by entry.
LEMMA StorePieceEffect ==
    ASSUME TypeInv, StorePiece
    PROVE  /\ ext.a \in Archive /\ ext.i \in Item /\ ext.tid \in Tid
           /\ UNCHANGED mem
           /\ \A b \in Archive, k \in Item :
                 disk'[b][k] = IF b = ext.a /\ k = ext.i
                               THEN StoredRow(disk[b][k], ext.tid, << ext.c >>)
                               ELSE disk[b][k]
<1> DEFINE x == << ext.c >>
<1>1. ext.a \in Archive /\ ext.i \in Item /\ ext.tid \in Tid /\ x \in Content
  BY DEF StorePiece, TypeInv, ExtOK, ExtState, ItemPC, WorkPC, ExtPC, LockedPC, Content
<1>2. mem' = mem /\ disk' = Stored(disk, ext.a, ext.i, ext.tid, x)
  BY DEF StorePiece
<1> HIDE DEF x
<1>3. ASSUME NEW b \in Archive, NEW k \in Item
      PROVE  disk'[b][k] = IF b = ext.a /\ k = ext.i
                           THEN StoredRow(disk[b][k], ext.tid, x) ELSE disk[b][k]
  BY <1>1, <1>2, StoredAt DEF TypeInv, StoresOK
<1> QED
  BY <1>1, <1>2, <1>3 DEF x

\* Eviction from the disk cache, entry by entry: only finished rows lose their
\* content or go.
LEMMA EvictEffect ==
    ASSUME TypeInv, (\E w \in Archive : EvictFiles(w)) \/ EvictRows
    PROVE  /\ UNCHANGED mem
           /\ \A b \in Archive, k \in Item :
                 \/ disk'[b][k] = disk[b][k]
                 \/ /\ IsFinished(disk[b][k])
                    /\ \/ disk'[b][k] = Absent
                       \/ IsFinished(disk'[b][k]) /\ disk'[b][k].data = << >>
<1>1. CASE \E w \in Archive : EvictFiles(w)
  <2> PICK w \in Archive : EvictFiles(w)
    BY <1>1
  <2> DEFINE E == EvictedRows(disk, w, dneed)
             f == [i \in Item |-> IF i \in E THEN [disk[w][i] EXCEPT !.data = << >>]
                                 ELSE disk[w][i]]
  <2>1. ASSUME NEW i \in Item
        PROVE  \/ f[i] = disk[w][i]
               \/ IsFinished(disk[w][i]) /\ IsFinished(f[i]) /\ f[i].data = << >>
    <3>1. CASE i \in E
      <4>1. disk[w][i] \in Row /\ IsFinished(disk[w][i])
        BY <3>1 DEF EvictedRows, CompletedRows, DiskCached, Exists, TypeInv, StoresOK,
                    DiskType, IsFinished
      <4>2. f[i] = [disk[w][i] EXCEPT !.data = << >>] /\ f[i] \in Row
        BY <3>1, <4>1, EmptiedRow
      <4>3. f[i].completed = disk[w][i].completed /\ f[i].data = << >>
        BY <4>1, <4>2 DEF Row
      <4> HIDE DEF f
      <4> QED
        BY <4>1, <4>2, <4>3, AbsentAssumption DEF IsFinished
    <3>2. CASE i \notin E
      BY <3>2
    <3> QED
      BY <3>1, <3>2
  <2>2. disk' = [disk EXCEPT ![w] = f] /\ mem' = mem
    BY DEF EvictFiles
  <2> HIDE DEF f
  <2> QED
    BY <2>1, <2>2 DEF TypeInv, StoresOK, DiskType
<1>2. CASE EvictRows
  <2>1. \A i \in EvictedRows(disk, ext.w, dneed) : IsFinished(disk[ext.w][i])
    BY DEF EvictedRows, CompletedRows, DiskCached, Exists, IsFinished
  <2>2. /\ disk' = [disk EXCEPT ![ext.w] =
                     [i \in Item |-> IF i \in EvictedRows(disk, ext.w, dneed)
                                     THEN Absent ELSE disk[ext.w][i]]]
        /\ mem' = mem
    BY <1>2 DEF EvictRows
  <2> QED
    BY <2>1, <2>2 DEF TypeInv, StoresOK, DiskType
<1> QED
  BY <1>1, <1>2

\* AppendMem, entry by entry, when the archive has its node in m_mTable.
LEMMA AppendMemEffect ==
    ASSUME TypeInv, AppendMem, ext.a \in table
    PROVE  /\ ext.a \in Archive /\ ext.i \in Item
           /\ UNCHANGED disk
           /\ \A b \in Archive, k \in Item :
                 b # ext.a \/ k # ext.i => mem'[b][k] = mem[b][k]
           /\ LET e == mem[ext.a][ext.i]  f == mem'[ext.a][ext.i] IN
              /\ f \in MemEntry
              /\ e = Absent => ~f.cached /\ f.buf = Append(<< >>, ext.c)
              /\ e # Absent => f.cached = e.cached /\ f.buf = Append(e.buf, ext.c)
<1>1. ext.a \in Archive /\ ext.i \in Item /\ ext.c \in Nat
  BY DEF AppendMem, TypeInv, ExtOK, ExtState, ItemPC
<1> DEFINE e == IF Exists(mem, ext.a, ext.i) THEN mem[ext.a][ext.i] ELSE NewEntry
           f == [e EXCEPT !.buf = Append(@, ext.c)]
<1>2. e \in MemEntry
  BY <1>1, EntryUpdate DEF TypeInv, StoresOK, MemType, Exists
<1>3. f \in MemEntry
  BY <1>1, <1>2, EntryUpdate
<1>4. f.cached = e.cached /\ f.buf = Append(e.buf, ext.c)
  BY <1>2 DEF MemEntry
<1>5. mem' = [mem EXCEPT ![ext.a][ext.i] = f] /\ disk' = disk
  BY DEF AppendMem
<1>6. /\ mem[ext.a][ext.i] # Absent => e = mem[ext.a][ext.i]
      /\ mem[ext.a][ext.i] = Absent => ~e.cached /\ e.buf = << >>
  BY DEF Exists, NewEntry
<1> HIDE DEF e, f
<1>7. /\ mem'[ext.a][ext.i] = f
      /\ \A b \in Archive, k \in Item :
            b # ext.a \/ k # ext.i => mem'[b][k] = mem[b][k]
  BY <1>1, <1>5 DEF TypeInv, StoresOK, MemType
<1> QED
  BY <1>1, <1>3, <1>4, <1>5, <1>6, <1>7

\* MarkMem, entry by entry, when the item has an entry.
LEMMA MarkMemEffect ==
    ASSUME TypeInv, MarkMem, mem[ext.a][ext.i] # Absent
    PROVE  /\ ext.a \in Archive /\ ext.i \in Item
           /\ UNCHANGED disk
           /\ \A b \in Archive, k \in Item :
                 b # ext.a \/ k # ext.i => mem'[b][k] = mem[b][k]
           /\ mem'[ext.a][ext.i] # Absent /\ mem'[ext.a][ext.i].cached
           /\ mem'[ext.a][ext.i].buf = mem[ext.a][ext.i].buf
<1>1. ext.a \in Archive /\ ext.i \in Item
  BY DEF MarkMem, TypeInv, ExtOK, ExtState, ItemPC
<1> DEFINE e == mem[ext.a][ext.i]
           f == [e EXCEPT !.cached = TRUE]
<1>2. e \in MemEntry
  BY <1>1 DEF TypeInv, StoresOK, MemType
<1>3. f \in MemEntry /\ f.buf = e.buf /\ f.cached
  BY <1>2 DEF MemEntry
<1>4. mem' = [mem EXCEPT ![ext.a][ext.i] = f] /\ disk' = disk
  BY DEF MarkMem, Exists
<1> HIDE DEF f
<1>5. /\ mem'[ext.a][ext.i] = f
      /\ \A b \in Archive, k \in Item :
            b # ext.a \/ k # ext.i => mem'[b][k] = mem[b][k]
  BY <1>1, <1>4 DEF TypeInv, StoresOK, MemType
<1> QED
  BY <1>1, <1>3, <1>4, <1>5, AbsentAssumption

\* MarkDisk, entry by entry.
LEMMA MarkDiskEffect ==
    ASSUME TypeInv, MarkDisk
    PROVE  /\ ext.a \in Archive /\ ext.i \in Item
           /\ UNCHANGED mem
           /\ \A b \in Archive, k \in Item :
                 disk'[b][k] = IF b = ext.a /\ k = ext.i
                               THEN MarkedRow(disk[b][k]) ELSE disk[b][k]
<1>1. ext.a \in Archive /\ ext.i \in Item
  BY DEF MarkDisk, TypeInv, ExtOK, ExtState, ItemPC
<1> QED
  BY <1>1, MarkedAt DEF MarkDisk, TypeInv, StoresOK

\* A reader changes memory at most by the empty, unmarked entry m_cache[index]
\* inserts.
LEMMA ReadMemEffect ==
    ASSUME TypeInv, NEW r \in Caller, ReadMem(r)
    PROVE  /\ UNCHANGED <<disk, ext>>
           /\ table' = table
           /\ \A b \in Archive, k \in Item :
                 \/ mem'[b][k] = mem[b][k]
                 \/ mem[b][k] = Absent /\ mem'[b][k] = NewEntry
  BY DEF ReadMem, TypeInv, StoresOK, MemType, CallOK, CallState, Exists
\* The two halves of PurgeUnmarked only take away what is not marked.
LEMMA PurgeMemEffect ==
    ASSUME TypeInv, PurgeUnmarkedMem
    PROVE  /\ UNCHANGED disk
           /\ \A b \in Archive, k \in Item : mem'[b][k] \in {mem[b][k], Absent}
           /\ \A k \in Item : mem'[ext.a][k] # Absent => mem'[ext.a][k].cached
<1>1. ext.a \in Archive
  BY DEF TypeInv, ExtState
<1> QED
  BY <1>1 DEF PurgeUnmarkedMem, MemPurged, MemCached, Exists, TypeInv, StoresOK, MemType

\* On disk only what is finished is left.
LEMMA PurgeDiskEffect ==
    ASSUME TypeInv, PurgeUnmarkedDisk
    PROVE  /\ UNCHANGED mem
           /\ \A b \in Archive, k \in Item : disk'[b][k] \in {disk[b][k], Absent}
           /\ \A k \in Item : ~Processing(disk'[ext.a][k])
<1>1. ext.a \in Archive
  BY DEF TypeInv, ExtState
<1>2. /\ mem' = mem
      /\ disk' = [disk EXCEPT ![ext.a] =
                    [i \in Item |-> IF IsFinished(disk[ext.a][i])
                                    THEN disk[ext.a][i] ELSE Absent]]
  BY DEF PurgeUnmarkedDisk, DiskPurged, DiskCached, Exists, IsFinished
<1> QED
  BY <1>1, <1>2 DEF TypeInv, StoresOK, DiskType, IsFinished, Processing

\* A crash empties the memory.
LEMMA CrashEffect ==
    ASSUME Crash
    PROVE  /\ UNCHANGED disk
           /\ \A b \in Archive, k \in Item : mem'[b][k] = Absent
  BY DEF Crash, NoMem

\* Every step that changes what the stores hold is one of those above, or Clear.
LEMMA StoreSteps ==
    ASSUME [Next]_vars, ~ClearMem, ~ClearDisk,
           ~PurgeUnmarkedMem, ~PurgeUnmarkedDisk, ~AppendMem, ~StorePiece,
           ~((\E w \in Archive : EvictFiles(w)) \/ EvictRows),
           ~StoreSpilled, ~MarkMem, ~MarkDisk,
           ~(\E r \in Caller : ReadMem(r)), ~Crash
    PROVE  UNCHANGED <<mem, disk>>
  BY DEF Next, vars, stores, Extractor, CallerStep, ExtStart, ExtNoItems,
         PurgeUnreferencedMem, GetStream, ExtractReturns, ItemError, Write, ItemOK,
         AppendLookup, Measure, CallReduce, ReduceVictim, ReduceSpin, ReduceEnd,
         SpillFirst, AppendDisk, EvictEnd, Result, Notify, Cleanup, ThreadExit,
         PeekMem, PeekDisk, GetFileCache, ReadDisk, Extract, WaitEnds, Returned,
         Request

----------------------------------------------------------------------------
(* The limits of the two stores: the sums MemSize and DiskSize, how each   *)
(* action changes them, and what the purges that keep them small ensure.   *)

\* What an entry and a row add to the size of their store.
EntryLen(e) == IF e = Absent THEN 0 ELSE Len(e.buf)
RowSize(r) == IF r = Absent THEN 0 ELSE r.size

Keys == Archive \X Item
Lens(m) == [k \in Keys |-> EntryLen(m[k[1]][k[2]])]
Sizes(d) == [k \in Keys |-> RowSize(d[k[1]][k[2]])]

\* Places where a purge of memory is under way.
Reducing(x) ==
    \/ x.pc \in {"callReduce", "reduce", "spill"}
    \/ x.pc \in SpillPC /\ ~x.direct

\* What a purge still has to take away is there.
NeedOK == Reducing(ext) => need <= MemSize(mem)

\* How much memory may hold, s, where the extractor is at x and a purge still
\* has to take n away.
MemBoundAt(x, s, n) ==
    LET limit == InBytes(MaxMemory) IN
    IF MaxMemory <= 0 THEN s = 0 /\ x.pc \notin {"lookup", "appendMem"}
    ELSE IF x.pc = "measure" THEN s <= limit + 1
    ELSE IF Reducing(x) THEN s <= limit + 1 /\ s <= limit + n
    ELSE s <= limit
MemBound == MemBoundAt(ext, MemSize(mem), need)

\* The size of what is about to be written to disk.
Cost == IF ext.direct THEN 1 ELSE EntryLen(mem[ext.v][ext.j])

\* How much the disk may hold while room is made for it.
NothingToEvict(d, v) ==
    \A w \in Archive \ {v} : \A i \in CompletedRows(d, w) : d[w][i].size = 0
DiskBound ==
    MaxDisk >= 0 =>
        /\ ext.pc \in {"evict", "deleteRows"} =>
               DiskSize(disk) + Cost <= InBytes(MaxDisk) + dneed
        /\ ext.pc = "store" =>
               DiskSize(disk) + Cost <= InBytes(MaxDisk) \/ NothingToEvict(disk, ext.v)
Amounts == need \in Nat /\ dneed \in Nat

----------------------------------------------------------------------------
(* The sums                                                                *)

\* There are finitely many entries and rows when there are finitely many archives.
LEMMA KeysFinite ==
    ASSUME IsFiniteSet(Archive)
    PROVE  IsFiniteSet(Keys) /\ IsFiniteSet(Item)
<1>1. IsFiniteSet(Item)
  BY NumItemsAssumption, FS_Interval DEF Item
<1> QED
  BY <1>1, FS_Product DEF Keys

\* What a key weighs.
LEMMA LenType ==
    ASSUME NEW e \in MemEntry \cup {Absent}
    PROVE  EntryLen(e) \in Nat /\ (e # Absent => EntryLen(e) = Len(e.buf))
<1>1. CASE e \in MemEntry
  <2>1. e.buf \in Seq(Nat)
    BY <1>1 DEF MemEntry, Content
  <2> QED
    BY <1>1, <2>1, AbsentAssumption DEF EntryLen
<1> QED
  BY <1>1 DEF EntryLen

\* Sizes are naturals: an absent row counts for nothing.
LEMMA SizeType ==
    ASSUME NEW r \in Row \cup {Absent}
    PROVE  RowSize(r) \in Nat /\ (r # Absent => RowSize(r) = r.size)
  BY AbsentAssumption DEF RowSize, Row

\* The lengths of all entries of a typed memory are naturals ...
LEMMA LensType ==
    ASSUME NEW m \in MemType
    PROVE  /\ \A k \in Keys : Lens(m)[k] \in Nat
           /\ \A a \in Archive, i \in Item : Lens(m)[<<a, i>>] = EntryLen(m[a][i])
<1>1. ASSUME NEW a \in Archive, NEW i \in Item
      PROVE  <<a, i>> \in Keys /\ Lens(m)[<<a, i>>] = EntryLen(m[a][i])
                /\ EntryLen(m[a][i]) \in Nat
  <2>1. m[a][i] \in MemEntry \cup {Absent}
    BY DEF MemType
  <2> QED
    BY <2>1, LenType DEF Keys, Lens
<1> QED
  BY <1>1 DEF Keys

\* ... and so are the sizes of all rows of a typed disk.
LEMMA SizesType ==
    ASSUME NEW d \in DiskType
    PROVE  /\ \A k \in Keys : Sizes(d)[k] \in Nat
           /\ \A a \in Archive, i \in Item : Sizes(d)[<<a, i>>] = RowSize(d[a][i])
<1>1. ASSUME NEW a \in Archive, NEW i \in Item
      PROVE  <<a, i>> \in Keys /\ Sizes(d)[<<a, i>>] = RowSize(d[a][i])
                /\ RowSize(d[a][i]) \in Nat
  <2>1. d[a][i] \in Row \cup {Absent}
    BY DEF DiskType
  <2> QED
    BY <2>1, SizeType DEF Keys, Sizes
<1> QED
  BY <1>1 DEF Keys

\* The sizes of the stores are sums over all keys.
LEMMA MemSizeIs ==
    ASSUME IsFiniteSet(Archive), NEW m \in MemType
    PROVE  MemSize(m) = Total(Keys, Lens(m)) /\ MemSize(m) \in Nat
<1> DEFINE S == {k \in Archive \X Item : Exists(m, k[1], k[2])}
           w == Lens(m)
           B(F) == [s \in SUBSET S |->
                        IF s = {} THEN 0
                        ELSE Len(m[(CHOOSE x \in s : TRUE)[1]][(CHOOSE x \in s : TRUE)[2]].buf)
                                + F[s \ {CHOOSE x \in s : TRUE}]]
           G == CHOOSE F : F = B(F)
<1>1. MemSize(m) = G[S]
  BY DEF MemSize, MapThenSumSet, MapThenFoldSet
<1>2. \A x \in S : w[x] = Len(m[x[1]][x[2]].buf)
  BY DEF Lens, Keys, EntryLen, Exists
<1>3. S \in SUBSET Keys /\ \A x \in Keys \ S : w[x] = 0
  BY DEF Lens, Keys, EntryLen, Exists
<1>4. IsFiniteSet(Keys) /\ IsFiniteSet(S) /\ \A x \in Keys : w[x] \in Nat
  BY <1>3, KeysFinite, LensType, FS_Subset
<1> HIDE DEF w
<1>5. ASSUME NEW F PROVE Sums(F, S, w) <=> F = B(F)
  <2>1. \A s \in SUBSET S : s # {} =>
           w[Picked(s)] = Len(m[(CHOOSE x \in s : TRUE)[1]][(CHOOSE x \in s : TRUE)[2]].buf)
    <3> HIDE DEF S
    <3> QED
      BY <1>2 DEF Picked
  <2> HIDE DEF S
  <2>2. B(F) = [s \in SUBSET S |->
                    IF s = {} THEN 0 ELSE w[Picked(s)] + F[s \ {Picked(s)}]]
    BY <2>1 DEF Picked
  <2> QED
    BY <2>2 DEF Sums
<1> HIDE DEF S, B
<1>6. (\E F : Sums(F, S, w)) /\ (\A F : Sums(F, S, w) => Total(S, w) = F[S])
        /\ Total(S, w) \in Nat
  BY <1>3, <1>4, TotalIs
<1>7. Sums(G, S, w)
  <2> PICK F : Sums(F, S, w)
    BY <1>6
  <2> QED
    BY <1>5
<1> HIDE DEF G
<1>8. Total(Keys, w) = Total(S, w)
  BY <1>3, <1>4, TotalOfPart
<1> QED
  BY <1>1, <1>6, <1>7, <1>8 DEF w

\* The same for the column "size" of the rows.
LEMMA DiskSizeIs ==
    ASSUME IsFiniteSet(Archive), NEW d \in DiskType
    PROVE  DiskSize(d) = Total(Keys, Sizes(d)) /\ DiskSize(d) \in Nat
<1> DEFINE S == {k \in Archive \X Item : Exists(d, k[1], k[2])}
           w == Sizes(d)
           B(F) == [s \in SUBSET S |->
                        IF s = {} THEN 0
                        ELSE d[(CHOOSE x \in s : TRUE)[1]][(CHOOSE x \in s : TRUE)[2]].size
                                + F[s \ {CHOOSE x \in s : TRUE}]]
           G == CHOOSE F : F = B(F)
<1>1. DiskSize(d) = G[S]
  BY DEF DiskSize, MapThenSumSet, MapThenFoldSet
<1>2. \A x \in S : w[x] = d[x[1]][x[2]].size
  BY DEF Sizes, Keys, RowSize, Exists
<1>3. S \in SUBSET Keys /\ \A x \in Keys \ S : w[x] = 0
  BY DEF Sizes, Keys, RowSize, Exists
<1>4. IsFiniteSet(Keys) /\ IsFiniteSet(S) /\ \A x \in Keys : w[x] \in Nat
  BY <1>3, KeysFinite, SizesType, FS_Subset
<1> HIDE DEF w
<1>5. ASSUME NEW F PROVE Sums(F, S, w) <=> F = B(F)
  <2>1. \A s \in SUBSET S : s # {} =>
           w[Picked(s)] = d[(CHOOSE x \in s : TRUE)[1]][(CHOOSE x \in s : TRUE)[2]].size
    <3> HIDE DEF S
    <3> QED
      BY <1>2 DEF Picked
  <2> HIDE DEF S
  <2>2. B(F) = [s \in SUBSET S |->
                    IF s = {} THEN 0 ELSE w[Picked(s)] + F[s \ {Picked(s)}]]
    BY <2>1 DEF Picked
  <2> QED
    BY <2>2 DEF Sums
<1> HIDE DEF S, B
<1>6. (\E F : Sums(F, S, w)) /\ (\A F : Sums(F, S, w) => Total(S, w) = F[S])
        /\ Total(S, w) \in Nat
  BY <1>3, <1>4, TotalIs
<1>7. Sums(G, S, w)
  <2> PICK F : Sums(F, S, w)
    BY <1>6
  <2> QED
    BY <1>5
<1> HIDE DEF G
<1>8. Total(Keys, w) = Total(S, w)
  BY <1>3, <1>4, TotalOfPart
<1> QED
  BY <1>1, <1>6, <1>7, <1>8 DEF w

\* And so is what the rows of one archive add up to.
LEMMA RowsSizeIs ==
    ASSUME IsFiniteSet(Archive), NEW d \in DiskType, NEW a \in Archive,
           NEW S \in SUBSET Item, \A i \in S : Exists(d, a, i)
    PROVE  /\ SizeOfRows(d, a, S) = Total({<<a, i>> : i \in S}, Sizes(d))
           /\ SizeOfRows(d, a, S) \in Nat
<1> DEFINE w == [i \in S |-> d[a][i].size]
           f == [i \in S |-> <<a, i>>]
           B(F) == [s \in SUBSET S |->
                        IF s = {} THEN 0
                        ELSE d[a][CHOOSE x \in s : TRUE].size
                                + F[s \ {CHOOSE x \in s : TRUE}]]
           G == CHOOSE F : F = B(F)
<1>1. SizeOfRows(d, a, S) = G[S]
  BY DEF SizeOfRows, MapThenSumSet, MapThenFoldSet
<1>2. IsFiniteSet(S)
  BY KeysFinite, FS_Subset
<1>3. /\ \A i \in S : w[i] \in Nat /\ Sizes(d)[f[i]] = w[i]
      /\ \A i, j \in S : f[i] = f[j] => i = j
      /\ {f[i] : i \in S} = {<<a, i>> : i \in S}
  <2>1. ASSUME NEW i \in S
        PROVE  w[i] \in Nat /\ Sizes(d)[f[i]] = w[i] /\ f[i] = <<a, i>>
    <3>1. d[a][i] \in Row \cup {Absent} /\ d[a][i] # Absent
      BY DEF DiskType, Exists
    <3>2. Sizes(d)[<<a, i>>] = RowSize(d[a][i])
      BY SizesType
    <3> QED
      BY <3>1, <3>2, SizeType
  <2> QED
    BY <2>1
<1>4. ASSUME NEW F PROVE Sums(F, S, w) <=> F = B(F)
  <2>1. \A s \in SUBSET S : s # {} => w[Picked(s)] = d[a][CHOOSE x \in s : TRUE].size
    BY DEF Picked
  <2>2. B(F) = [s \in SUBSET S |->
                    IF s = {} THEN 0 ELSE w[Picked(s)] + F[s \ {Picked(s)}]]
    BY <2>1 DEF Picked
  <2> QED
    BY <2>2 DEF Sums
<1> HIDE DEF w, B
<1>5. (\E F : Sums(F, S, w)) /\ (\A F : Sums(F, S, w) => Total(S, w) = F[S])
        /\ Total(S, w) \in Nat
  BY <1>2, <1>3, TotalIs
<1>6. Sums(G, S, w)
  <2> PICK F : Sums(F, S, w)
    BY <1>5
  <2> QED
    BY <1>4
<1> HIDE DEF G
<1>7. Total({f[i] : i \in S}, Sizes(d)) = Total(S, w)
  <2> HIDE DEF f
  <2> QED
    BY <1>2, <1>3, TotalRenamed
<1> QED
  BY <1>1, <1>3, <1>5, <1>6, <1>7

----------------------------------------------------------------------------
(* What a step does to the sums                                            *)

\* One entry changes.
LEMMA MemSizeAt ==
    ASSUME IsFiniteSet(Archive), NEW m \in MemType, NEW n \in MemType,
           NEW a \in Archive, NEW i \in Item,
           \A b \in Archive, k \in Item : b # a \/ k # i => n[b][k] = m[b][k]
    PROVE  MemSize(n) + EntryLen(m[a][i]) = MemSize(m) + EntryLen(n[a][i])
<1>1. <<a, i>> \in Keys /\ \A x \in Keys \ {<<a, i>>} : Lens(n)[x] = Lens(m)[x]
  BY DEF Keys, Lens
<1>2. \A x \in Keys : Lens(m)[x] \in Nat /\ Lens(n)[x] \in Nat
  BY LensType
<1>3. Total(Keys, Lens(n)) + Lens(m)[<<a, i>>] = Total(Keys, Lens(m)) + Lens(n)[<<a, i>>]
  BY <1>1, <1>2, KeysFinite, TotalStep
<1>4. Lens(m)[<<a, i>>] = EntryLen(m[a][i]) /\ Lens(n)[<<a, i>>] = EntryLen(n[a][i])
  BY LensType
<1> QED
  BY <1>3, <1>4, MemSizeIs

\* One row changes.
LEMMA DiskSizeAt ==
    ASSUME IsFiniteSet(Archive), NEW d \in DiskType, NEW n \in DiskType,
           NEW a \in Archive, NEW i \in Item,
           \A b \in Archive, k \in Item : b # a \/ k # i => n[b][k] = d[b][k]
    PROVE  DiskSize(n) + RowSize(d[a][i]) = DiskSize(d) + RowSize(n[a][i])
<1>1. <<a, i>> \in Keys /\ \A x \in Keys \ {<<a, i>>} : Sizes(n)[x] = Sizes(d)[x]
  BY DEF Keys, Sizes
<1>2. \A x \in Keys : Sizes(d)[x] \in Nat /\ Sizes(n)[x] \in Nat
  BY SizesType
<1>3. Total(Keys, Sizes(n)) + Sizes(d)[<<a, i>>] = Total(Keys, Sizes(d)) + Sizes(n)[<<a, i>>]
  BY <1>1, <1>2, KeysFinite, TotalStep
<1>4. Sizes(d)[<<a, i>>] = RowSize(d[a][i]) /\ Sizes(n)[<<a, i>>] = RowSize(n[a][i])
  BY SizesType
<1> QED
  BY <1>3, <1>4, DiskSizeIs

\* No entry gets longer.
LEMMA MemSizeLess ==
    ASSUME IsFiniteSet(Archive), NEW m \in MemType, NEW n \in MemType,
           \A b \in Archive, k \in Item : EntryLen(n[b][k]) <= EntryLen(m[b][k])
    PROVE  MemSize(n) <= MemSize(m)
<1>1. \A x \in Keys : Lens(n)[x] <= Lens(m)[x]
  BY DEF Keys, Lens
<1> QED
  BY <1>1, KeysFinite, LensType, MemSizeIs, TotalMonotone

\* A row changes, but not its size.
LEMMA DiskSizeSame ==
    ASSUME IsFiniteSet(Archive), NEW d \in DiskType, NEW n \in DiskType,
           \A b \in Archive, k \in Item : RowSize(n[b][k]) = RowSize(d[b][k])
    PROVE  DiskSize(n) = DiskSize(d)
<1>1. \A x \in Keys : Sizes(n)[x] = Sizes(d)[x]
  BY DEF Keys, Sizes
<1> QED
  BY <1>1, KeysFinite, SizesType, DiskSizeIs, TotalEqual

\* Only an append makes memory grow, by one piece; a spill takes an entry away,
\* and during a purge nothing else but a clear or a crash does.
LEMMA MemSizeStep ==
    ASSUME IsFiniteSet(Archive), TypeInv, [Next]_vars
    PROVE  /\ MemSize(mem) \in Nat /\ MemSize(mem') \in Nat
           /\ AppendMem => MemSize(mem') <= MemSize(mem) + 1
           /\ ~AppendMem => MemSize(mem') <= MemSize(mem)
           /\ StoreSpilled => MemSize(mem') + Len(mem[ext.v][ext.j].buf) = MemSize(mem)
           /\ Reducing(ext) /\ ~StoreSpilled /\ ~ClearMem /\ ~Crash => MemSize(mem') = MemSize(mem)
<1>1. mem \in MemType /\ mem' \in MemType
  BY TypeInvStep DEF TypeInv, StoresOK
<1>2. MemSize(mem) \in Nat /\ MemSize(mem') \in Nat
  BY <1>1, MemSizeIs
<1>3. \A b \in Archive, k \in Item :
         /\ mem[b][k] \in MemEntry \cup {Absent} /\ mem'[b][k] \in MemEntry \cup {Absent}
         /\ EntryLen(mem[b][k]) \in Nat /\ EntryLen(mem'[b][k]) \in Nat
  BY <1>1, LenType DEF MemType
<1>4. CASE StoreSpilled
  <2>1. /\ ext.v \in Archive /\ ext.j \in Item /\ mem[ext.v][ext.j] # Absent
        /\ \A b \in Archive, k \in Item :
              mem'[b][k] = IF b = ext.v /\ k = ext.j THEN Absent ELSE mem[b][k]
    BY <1>4, SpillEffect, AbsentAssumption
  <2>2. /\ MemSize(mem') + EntryLen(mem[ext.v][ext.j])
             = MemSize(mem) + EntryLen(mem'[ext.v][ext.j])
        /\ EntryLen(mem'[ext.v][ext.j]) = 0
        /\ EntryLen(mem[ext.v][ext.j]) = Len(mem[ext.v][ext.j].buf)
        /\ EntryLen(mem[ext.v][ext.j]) \in Nat
    BY <1>1, <1>3, <2>1, MemSizeAt DEF EntryLen
  <2>3. ~AppendMem /\ ~Crash
    BY <1>4, <2>1 DEF AppendMem, StoreSpilled, Crash, Idle
  <2> QED
    BY <1>2, <1>4, <2>2, <2>3
<1>5. CASE AppendMem
  <2>1. ~StoreSpilled /\ ~Reducing(ext)
    BY <1>5 DEF AppendMem, StoreSpilled, Reducing, SpillPC
  <2>2. CASE ext.a \notin table
    BY <1>2, <1>5, <2>1, <2>2 DEF AppendMem
  <2>3. CASE ext.a \in table
    <3>1. PICK e, f : e = mem[ext.a][ext.i] /\ f = mem'[ext.a][ext.i]
      OBVIOUS
    <3>2. /\ ext.a \in Archive /\ ext.i \in Item
          /\ \A b \in Archive, k \in Item : b # ext.a \/ k # ext.i => mem'[b][k] = mem[b][k]
          /\ f \in MemEntry
          /\ e = Absent => f.buf = Append(<< >>, ext.c)
          /\ e # Absent => f.buf = Append(e.buf, ext.c)
      BY <1>5, <2>3, <3>1, AppendMemEffect
    <3>3. ext.c \in Nat /\ e \in MemEntry \cup {Absent} /\ f # Absent
      BY <1>3, <3>1, <3>2, AbsentAssumption DEF TypeInv, ExtState
    <3>4. EntryLen(f) = EntryLen(e) + 1 /\ EntryLen(e) \in Nat
      <4>1. EntryLen(f) = Len(f.buf)
        BY <3>3 DEF EntryLen
      <4>2. CASE e = Absent
        <5>1. EntryLen(e) = 0
          BY <4>2 DEF EntryLen
        <5>2. PICK q : q = Append(<< >>, ext.c)
          OBVIOUS
        <5>3. Len(q) = 1
          BY <3>3, <5>2
        <5>4. f.buf = q
          BY <3>2, <4>2, <5>2, Zenon
        <5>5. Len(f.buf) = 1
          BY <5>3, <5>4, Zenon
        <5> QED
          BY <4>1, <5>1, <5>5
      <4>3. CASE e # Absent
        <5>1. e.buf \in Seq(Nat) /\ EntryLen(e) = Len(e.buf)
          BY <3>3, <4>3 DEF MemEntry, Content, EntryLen
        <5>2. Len(Append(e.buf, ext.c)) = Len(e.buf) + 1 /\ Len(e.buf) \in Nat
          BY <3>3, <5>1
        <5> QED
          BY <3>2, <4>1, <4>3, <5>1, <5>2
      <4> QED
        BY <4>2, <4>3
    <3>5. MemSize(mem') + EntryLen(e) = MemSize(mem) + EntryLen(f)
      BY <1>1, <3>1, <3>2, MemSizeAt
    <3> QED
      BY <1>2, <1>5, <2>1, <3>4, <3>5
  <2> QED
    BY <2>2, <2>3
<1>6. ASSUME ~AppendMem, ~StoreSpilled,
             \A b \in Archive, k \in Item : EntryLen(mem'[b][k]) = EntryLen(mem[b][k])
      PROVE  MemSize(mem') = MemSize(mem)
  <2>1. MemSize(mem') <= MemSize(mem) /\ MemSize(mem) <= MemSize(mem')
    BY <1>1, <1>3, <1>6, MemSizeLess
  <2> QED
    BY <1>2, <2>1
<1>7. CASE MarkMem
  <2>1. ~AppendMem /\ ~StoreSpilled
    BY <1>7 DEF MarkMem, AppendMem, StoreSpilled
  <2>2. ext.a \in Archive /\ ext.i \in Item
    BY <1>7 DEF MarkMem, TypeInv, ExtOK, ExtState, ItemPC
  <2>3. PICK e : e = IF Exists(mem, ext.a, ext.i) THEN mem[ext.a][ext.i] ELSE NewEntry
    OBVIOUS
  <2>4. e \in MemEntry /\ EntryLen(e) = EntryLen(mem[ext.a][ext.i])
    BY <1>3, <2>2, <2>3, EntryUpdate, AbsentAssumption DEF Exists, EntryLen, NewEntry
  <2>5. PICK f : f = [e EXCEPT !.cached = TRUE]
    OBVIOUS
  <2>6. f \in MemEntry /\ f.buf = e.buf /\ e # Absent /\ f # Absent
    BY <2>4, <2>5, AbsentAssumption DEF MemEntry
  <2>7. mem' = [mem EXCEPT ![ext.a][ext.i] = f]
    BY <1>7, <2>3, <2>5 DEF MarkMem
  <2>8. \A b \in Archive, k \in Item :
           mem'[b][k] = IF b = ext.a /\ k = ext.i THEN f ELSE mem[b][k]
    BY <1>1, <2>2, <2>7 DEF MemType
  <2>9. EntryLen(f) = EntryLen(e)
    BY <2>6 DEF EntryLen
  <2>10. MemSize(mem') = MemSize(mem)
    BY <1>6, <2>1, <2>4, <2>8, <2>9
  <2> QED
    BY <1>2, <2>1, <2>10
<1>8. CASE \E r \in Caller : ReadMem(r)
  <2> PICK r \in Caller : ReadMem(r)
    BY <1>8
  <2>1. /\ UNCHANGED ext
        /\ \A b \in Archive, k \in Item :
              \/ mem'[b][k] = mem[b][k]
              \/ mem[b][k] = Absent /\ mem'[b][k] = NewEntry
    BY ReadMemEffect
  <2>2. ~AppendMem /\ ~StoreSpilled
    BY <2>1 DEF AppendMem, StoreSpilled, TypeInv, ExtState
  <2>3. EntryLen(NewEntry) = 0 /\ EntryLen(Absent) = 0
    BY DEF EntryLen, NewEntry
  <2>4. MemSize(mem') = MemSize(mem)
    BY <1>6, <2>1, <2>2, <2>3
  <2> QED
    BY <1>2, <2>2, <2>4
<1>9. CASE PurgeUnmarkedMem
  <2>1. /\ ~AppendMem /\ ~StoreSpilled /\ ~Reducing(ext)
        /\ \A b \in Archive, k \in Item : mem'[b][k] \in {mem[b][k], Absent}
    BY <1>9, PurgeMemEffect DEF PurgeUnmarkedMem, AppendMem, StoreSpilled, Reducing, SpillPC
  <2>2. EntryLen(Absent) = 0
    BY DEF EntryLen
  <2>3. MemSize(mem') <= MemSize(mem)
    BY <1>1, <1>3, <2>1, <2>2, MemSizeLess
  <2> QED
    BY <1>2, <2>1, <2>3
<1>10. CASE (ClearMem \/ Crash) /\ ~AppendMem /\ ~StoreSpilled
  <2>1. \A b \in Archive, k \in Item : mem'[b][k] = Absent
    BY <1>10 DEF ClearMem, Crash, NoMem
  <2>2. EntryLen(Absent) = 0
    BY DEF EntryLen
  <2>3. MemSize(mem') <= MemSize(mem)
    BY <1>1, <1>3, <2>1, <2>2, MemSizeLess
  <2> QED
    BY <1>2, <1>10, <2>3
<1>11. CASE ~AppendMem /\ ~StoreSpilled /\ UNCHANGED mem
  BY <1>2, <1>11
<1>12. UNCHANGED mem \/ AppendMem \/ StoreSpilled \/ MarkMem
          \/ (\E r \in Caller : ReadMem(r)) \/ PurgeUnmarkedMem \/ ClearMem \/ Crash
  <2>1. ClearDisk \/ PurgeUnmarkedDisk \/ StorePiece \/ MarkDisk \/ EvictRows
           \/ (\E w \in Archive : EvictFiles(w)) => UNCHANGED mem
    BY DEF ClearDisk, PurgeUnmarkedDisk, StorePiece, MarkDisk, EvictRows, EvictFiles
  <2> QED
    BY <2>1, StoreSteps
<1> QED
  BY <1>4, <1>5, <1>7, <1>8, <1>9, <1>10, <1>11, <1>12

----------------------------------------------------------------------------
(* How much a purge takes away                                             *)

\* A limit counted in bytes is a natural number, and one piece does not wrap.
LEMMA LimitType ==
    ASSUME NEW n \in Int
    PROVE  InBytes(n) \in Nat /\ 1 % Wide = 1 /\ n % Wide \in Nat
<1>1. Wide \in Nat /\ Wide > 1
  BY LimitAssumption
<1> QED
  BY <1>1 DEF InBytes

\* The amount is there to be taken, and once it is gone memory is within its
\* limit, if it was over by at most a piece: the subtraction does not wrap.
LEMMA MemReductionFits ==
    ASSUME IsFiniteSet(Archive), NEW m \in MemType
    PROVE  /\ MemReduction(m) \in Nat /\ MemReduction(m) <= MemSize(m)
           /\ OverLimit(m) /\ MemSize(m) <= InBytes(MaxMemory) + 1
                 => MemSize(m) <= InBytes(MaxMemory) + MemReduction(m)
<1>1. PICK s, x, y, z : /\ s = MemSize(m) /\ x = InBytes(MaxMemory) /\ y = InBytes(PurgeMemory)
                        /\ z = (s - x) % Wide
  OBVIOUS
<1>2. s \in Nat /\ x \in Nat /\ y \in Nat
  BY <1>1, MemSizeIs, LimitType, LimitAssumption
<1>3. z \in Nat /\ (s = x + 1 => z = 1)
  <2>1. s - x \in Int
    BY <1>2
  <2>2. z \in Nat
    BY <1>1, <2>1, LimitType
  <2>3. s = x + 1 => s - x = 1
    BY <1>2
  <2> QED
    BY <1>1, <2>2, <2>3, LimitType
<1>4. MemReduction(m) = MinOf(s, MaxOf(y, z)) /\ (OverLimit(m) <=> s > x)
  BY <1>1 DEF MemReduction, OverLimit
<1> QED
  BY <1>1, <1>2, <1>3, <1>4 DEF MinOf, MaxOf

\* On disk the amount is at most what is in the rows, and makes room for the write.
LEMMA DiskReductionFits ==
    ASSUME IsFiniteSet(Archive), NEW d \in DiskType, NEW n \in Nat
    PROVE  /\ DiskReduction(d, n) \in Nat
           /\ MaxDisk >= 0 => DiskSize(d) + n <= InBytes(MaxDisk) + DiskReduction(d, n)
<1>1. PICK s, x, y : s = DiskSize(d) /\ x = InBytes(MaxDisk) /\ y = InBytes(PurgeDisk)
  OBVIOUS
<1>2. s \in Nat /\ x \in Nat /\ y \in Nat /\ MaxDisk \in Int
  BY <1>1, DiskSizeIs, LimitType, LimitAssumption
<1>3. DiskReduction(d, n) = IF MaxDisk >= 0 /\ s + n >= x THEN MaxOf(y, s + n - x) ELSE 0
  BY <1>1 DEF DiskReduction
<1> QED
  BY <1>1, <1>2, <1>3 DEF MaxOf

\* The amounts the purges count down never wrap below zero.
LEMMA AmountsStep ==
    ASSUME IsFiniteSet(Archive), TypeInv, Amounts, [Next]_vars
    PROVE  Amounts'
<1>1. CASE UNCHANGED <<need, dneed>>
  BY <1>1 DEF Amounts
<1>2. mem \in MemType /\ disk \in DiskType
  BY DEF TypeInv, StoresOK
<1>3. CASE Measure
  BY <1>2, <1>3, MemReductionFits DEF Measure, Amounts
<1>4. CASE SpillFirst
  <2>1. CASE need > 0 /\ Present(mem, ext.v) # {}
    <3>1. PICK j : j = FirstIndex(mem, ext.v)
      OBVIOUS
    <3>2. ext.v \in Archive
      BY DEF TypeInv, ExtState
    <3>3. j \in Item /\ mem[ext.v][j] \in MemEntry
      BY <1>2, <2>1, <3>1, <3>2, FirstIndexType DEF Exists, MemType
    <3>4. Len(mem[ext.v][j].buf) \in Nat
      BY <3>3 DEF MemEntry, Content
    <3>5. dneed' = DiskReduction(disk, Len(mem[ext.v][j].buf)) /\ need' = need
      BY <1>4, <2>1, <3>1 DEF SpillFirst
    <3> QED
      BY <1>2, <3>4, <3>5, DiskReductionFits DEF Amounts
  <2>2. CASE ~(need > 0 /\ Present(mem, ext.v) # {})
    BY <1>4, <2>2 DEF SpillFirst, Amounts
  <2> QED
    BY <2>1, <2>2
<1>5. CASE AppendDisk
  BY <1>2, <1>5, DiskReductionFits DEF AppendDisk, Amounts
<1>6. CASE EvictRows
  <2>1. PICK E : E = EvictedRows(disk, ext.w, dneed)
    OBVIOUS
  <2>2. ext.w \in Archive /\ E \in SUBSET Item /\ \A i \in E : Exists(disk, ext.w, i)
    BY <2>1 DEF TypeInv, ExtState, EvictedRows, CompletedRows, DiskCached
  <2>3. PICK freed : freed = SizeOfRows(disk, ext.w, E)
    OBVIOUS
  <2>4. freed \in Nat
    BY <1>2, <2>2, <2>3, RowsSizeIs
  <2>5. dneed' = (IF freed < dneed THEN dneed - freed ELSE 0) /\ need' = need
    BY <1>6, <2>1, <2>3 DEF EvictRows
  <2> QED
    BY <2>4, <2>5 DEF Amounts
<1>7. CASE EvictEnd
  BY <1>7 DEF EvictEnd, Amounts
<1>8. CASE StoreSpilled
  <2>1. PICK l : l = Len(mem[ext.v][ext.j].buf)
    OBVIOUS
  <2>2. l \in Nat
    <3>1. mem[ext.v][ext.j] \in MemEntry
      BY <1>8, SpillEffect
    <3> QED
      BY <2>1, <3>1 DEF MemEntry, Content
  <2>3. need' = (IF need < l THEN 0 ELSE need - l) /\ dneed' = dneed
    BY <1>8, <2>1 DEF StoreSpilled
  <2> QED
    BY <2>2, <2>3 DEF Amounts
<1>9. CASE Crash
  BY <1>9 DEF Crash, Amounts
<1> QED
  BY <1>1, <1>3, <1>4, <1>5, <1>6, <1>7, <1>8, <1>9
     DEF Next, vars, amounts, Extractor, CallerStep, ExtStart, ExtNoItems, PurgeUnmarkedMem,
         PurgeUnreferencedMem, PurgeUnmarkedDisk, GetStream, ExtractReturns, ItemError,
         Write, ItemOK, AppendLookup, AppendMem, CallReduce, ReduceVictim, ReduceSpin,
         ReduceEnd, EvictFiles, StorePiece, Result, MarkMem, MarkDisk, Notify, Cleanup,
         ThreadExit, PeekMem, PeekDisk, GetFileCache, ReadMem, ReadDisk, Extract, WaitEnds,
         Returned, Request, ClearMem, ClearDisk

----------------------------------------------------------------------------
(* Memory                                                                  *)

\* A spill counts what it takes away.
LEMMA SpillAmounts ==
    ASSUME IsFiniteSet(Archive), TypeInv, Amounts, StoreSpilled
    PROVE  \E l \in Nat :
              /\ l = Len(mem[ext.v][ext.j].buf)
              /\ need' = (IF need < l THEN 0 ELSE need - l)
              /\ MemSize(mem') + l = MemSize(mem)
<1>1. PICK l : l = Len(mem[ext.v][ext.j].buf)
  OBVIOUS
<1>2. l \in Nat
  <2>1. mem[ext.v][ext.j] \in MemEntry
    BY SpillEffect
  <2> QED
    BY <1>1, <2>1 DEF MemEntry, Content
<1>3. need' = (IF need < l THEN 0 ELSE need - l)
  BY <1>1 DEF StoreSpilled
<1>4. [Next]_vars
  BY DEF Next, Extractor
<1>5. MemSize(mem') + l = MemSize(mem)
  BY <1>1, <1>4, MemSizeStep
<1> QED
  BY <1>2, <1>3, <1>5, <1>1

\* The steps of the extractor that have nothing to do with a purge.
PlainPC == ExtPC \ ({"measure", "callReduce"} \cup LockedPC)
PlainMove ==
    /\ ext.pc \in PlainPC \ {"appendMem", "appendDisk"} /\ ext'.pc \in PlainPC
    /\ ext'.pc \in {"lookup", "appendMem"} /\ MaxMemory <= 0 => ext.pc = "lookup"
    /\ UNCHANGED amounts

\* They keep the amounts, and only the lookup leads to an append to memory.
LEMMA PlainMoves ==
    ASSUME TypeInv,
           \/ \E a \in Archive : ExtStart(a) \/ ExtNoItems(a)
           \/ PurgeUnmarkedMem \/ PurgeUnreferencedMem \/ PurgeUnmarkedDisk
           \/ GetStream \/ ExtractReturns \/ ItemError \/ Write \/ ItemOK
           \/ AppendLookup \/ Result \/ MarkMem \/ MarkDisk \/ Notify \/ Cleanup
    PROVE  PlainMove
<1> USE DEF PlainMove, PlainPC, ExtPC, LockedPC, amounts, TypeInv, ExtState
<1>1. CASE \E a \in Archive : ExtStart(a) \/ ExtNoItems(a)
  <2>1. ext.pc = "idle" /\ ext'.pc \in {"purgeUnmarked", "cleanup"} /\ UNCHANGED amounts
    BY <1>1 DEF ExtStart, ExtNoItems, Idle
  <2> QED
    BY <2>1
<1>2. CASE PurgeUnmarkedMem \/ PurgeUnreferencedMem
  BY <1>2 DEF PurgeUnmarkedMem, PurgeUnreferencedMem
<1>3. CASE PurgeUnmarkedDisk
  BY <1>3 DEF PurgeUnmarkedDisk
<1>4. CASE GetStream \/ ExtractReturns
  BY <1>4 DEF GetStream, ExtractReturns
<1>5. CASE ItemError \/ ItemOK
  BY <1>5 DEF ItemError, ItemOK
<1>6. CASE Write
  <2>1. ext.pc = "write" /\ UNCHANGED amounts
    BY <1>6 DEF Write
  <2>2. CASE Cached(mem, disk, ext.a, ext.i)
    BY <1>6, <2>1, <2>2 DEF Write
  <2>3. CASE ~Cached(mem, disk, ext.a, ext.i) /\ GoesToDisk(disk, ext.a, ext.i)
    BY <1>6, <2>1, <2>3 DEF Write
  <2>4. CASE ~Cached(mem, disk, ext.a, ext.i) /\ ~GoesToDisk(disk, ext.a, ext.i)
    <3>1. ext'.pc = "lookup" /\ ~(MaxMemory <= 0)
      BY <1>6, <2>4 DEF Write, GoesToDisk
    <3> QED
      BY <2>1, <3>1
  <2> QED
    BY <2>2, <2>3, <2>4
<1>7. CASE AppendLookup
  BY <1>7 DEF AppendLookup
<1>8. CASE Result
  BY <1>8 DEF Result
<1>9. CASE MarkMem \/ MarkDisk
  BY <1>9 DEF MarkMem, MarkDisk
<1>10. CASE Notify
  BY <1>10 DEF Notify
<1>11. CASE Cleanup
  <2>1. ext.pc = "cleanup" /\ ext'.pc = "idle" /\ UNCHANGED amounts
    BY <1>11 DEF Cleanup, Idle
  <2> QED
    BY <2>1
<1> QED
  BY <1>1, <1>2, <1>3, <1>4, <1>5, <1>6, <1>7, <1>8, <1>9, <1>10, <1>11

\* All steps, the plain ones and those that leave the extractor alone put together.
LEMMA Moves ==
    ASSUME TypeInv, [Next]_vars
    PROVE  \/ UNCHANGED <<ext, need, dneed>> /\ ~AppendMem /\ ~StoreSpilled
           \/ PlainMove
           \/ AppendMem \/ Measure \/ CallReduce \/ (\E v \in Archive : ReduceVictim(v))
           \/ ReduceEnd \/ SpillFirst \/ StoreSpilled
           \/ AppendDisk \/ (\E w \in Archive : EvictFiles(w)) \/ EvictRows \/ EvictEnd
           \/ StorePiece \/ Crash
<1>1. CASE UNCHANGED <<ext, need, dneed>>
  BY <1>1
<1>2. CASE ~UNCHANGED <<ext, need, dneed>>
  BY <1>2, PlainMoves
     DEF Next, vars, amounts, Extractor, CallerStep, ReduceSpin, ThreadExit,
         PeekMem, PeekDisk, GetFileCache, ReadMem, ReadDisk, Extract, WaitEnds, Returned,
         Request, ClearMem, ClearDisk
<1> QED
  BY <1>1, <1>2

\* The bound of the memory cache is kept by every step.
LEMMA MemBoundStep ==
    ASSUME IsFiniteSet(Archive), TypeInv, Amounts, MemBound, [Next]_vars
    PROVE  MemBound'
<1>1. PICK s, t, l, n, m : /\ s = MemSize(mem) /\ t = MemSize(mem') /\ l = InBytes(MaxMemory)
                           /\ n = need /\ m = need'
  OBVIOUS
<1>2. s \in Nat /\ t \in Nat /\ l \in Nat /\ n \in Nat /\ m \in Nat
  BY <1>1, MemSizeStep, AmountsStep, LimitType, LimitAssumption DEF Amounts
<1>3. ext \in ExtState /\ ext' \in ExtState /\ MaxMemory \in Int
  BY TypeInvStep, LimitAssumption DEF TypeInv
<1>4. (AppendMem => t <= s + 1) /\ (~AppendMem => t <= s)
  BY <1>1, MemSizeStep
<1> DEFINE B(x, y, z) == IF MaxMemory <= 0 THEN y = 0 /\ x.pc \notin {"lookup", "appendMem"}
                         ELSE IF x.pc = "measure" THEN y <= l + 1
                         ELSE IF Reducing(x) THEN y <= l + 1 /\ y <= l + z
                         ELSE y <= l
<1>5. B(ext, s, n)
  BY <1>1 DEF MemBound, MemBoundAt
<1>6. SUFFICES B(ext', t, m)
  BY <1>1 DEF MemBound, MemBoundAt
<1>7. CASE UNCHANGED <<ext, need, dneed>> /\ ~AppendMem /\ ~StoreSpilled
  <2>1. ext' = ext /\ m = n /\ t <= s
    BY <1>1, <1>4, <1>7
  <2> QED
    BY <1>2, <1>5, <2>1
<1>8. CASE PlainMove
  <2>1. /\ ext.pc # "measure" /\ ~Reducing(ext) /\ ext'.pc # "measure" /\ ~Reducing(ext')
        /\ ~AppendMem /\ ext.pc # "appendMem"
        /\ MaxMemory <= 0 /\ ext'.pc \in {"lookup", "appendMem"} => ext.pc = "lookup"
    BY <1>8 DEF PlainMove, PlainPC, ExtPC, LockedPC, Reducing, SpillPC, AppendMem
  <2> QED
    BY <1>2, <1>4, <1>5, <2>1
<1>9. CASE AppendMem
  <2>1. ext.pc = "appendMem" /\ ext'.pc = "measure" /\ ~Reducing(ext)
    BY <1>3, <1>9 DEF AppendMem, ExtState, Reducing, SpillPC
  <2> QED
    BY <1>2, <1>4, <1>5, <1>9, <2>1
<1>10. CASE Measure
  <2>1. ext.pc = "measure" /\ ~AppendMem /\ ~Reducing(ext) /\ UNCHANGED mem
    BY <1>10 DEF Measure, AppendMem, stores, Reducing, SpillPC
  <2>2. t = s
    BY <1>1, <2>1
  <2>3. CASE OverLimit(mem)
    <3>1. ext'.pc = "callReduce" /\ m = MemReduction(mem)
      BY <1>1, <1>3, <1>10, <2>3 DEF Measure, ExtState
    <3>2. mem \in MemType
      BY DEF TypeInv, StoresOK
    <3>3. s <= l + 1 => s <= l + m
      BY <1>1, <2>3, <3>1, <3>2, MemReductionFits
    <3>4. Reducing(ext')
      BY <3>1 DEF Reducing
    <3> QED
      BY <1>2, <1>5, <2>1, <2>2, <3>1, <3>3, <3>4
  <2>4. CASE ~OverLimit(mem)
    <3>1. ext'.pc = "write" /\ m = n
      BY <1>1, <1>3, <1>10, <2>4 DEF Measure, NextPiece, ExtState
    <3>2. s <= l
      BY <1>1, <1>2, <2>4 DEF OverLimit
    <3>3. ~Reducing(ext')
      BY <3>1 DEF Reducing, SpillPC
    <3> QED
      BY <1>2, <1>5, <2>2, <3>1, <3>2, <3>3
  <2> QED
    BY <2>3, <2>4
<1>11. CASE CallReduce \/ (\E v \in Archive : ReduceVictim(v)) \/ SpillFirst
  <2>1. /\ Reducing(ext) /\ Reducing(ext') /\ ext'.pc \in {"reduce", "spill", "evict"}
        /\ ext.pc \notin {"measure", "lookup", "appendMem"}
    <3>1. CASE CallReduce
      BY <1>3, <3>1 DEF CallReduce, ExtState, Reducing
    <3>2. CASE \E v \in Archive : ReduceVictim(v)
      BY <1>3, <3>2 DEF ReduceVictim, ExtState, Reducing
    <3>3. CASE SpillFirst
      <4>1. ~ext.direct
        BY <3>3 DEF SpillFirst, TypeInv, ExtOK, WorkPC, ExtPC, SpillPC, LockedPC
      <4> QED
        BY <1>3, <3>3, <4>1 DEF SpillFirst, ExtState, Reducing, SpillPC
    <3> QED
      BY <1>11, <3>1, <3>2, <3>3
  <2>2. m = n /\ ~AppendMem
    BY <1>1, <1>11, <2>1 DEF CallReduce, ReduceVictim, SpillFirst, amounts, AppendMem
  <2> QED
    BY <1>2, <1>4, <1>5, <2>1, <2>2
<1>12. CASE ReduceEnd
  <2>1. ext.pc = "reduce" /\ n = 0 /\ ext'.pc = "write" /\ ~AppendMem
    BY <1>1, <1>3, <1>12 DEF ReduceEnd, NextPiece, ExtState, AppendMem
  <2>2. Reducing(ext) /\ ~Reducing(ext')
    BY <2>1 DEF Reducing, SpillPC
  <2> QED
    BY <1>2, <1>4, <1>5, <2>1, <2>2
<1>13. CASE StoreSpilled
  <2>1. PICK k \in Nat : m = (IF n < k THEN 0 ELSE n - k) /\ t + k = s
    BY <1>1, <1>13, SpillAmounts
  <2>2. ext.pc = "store" /\ Reducing(ext) /\ ext'.pc = "spill" /\ Reducing(ext')
    BY <1>3, <1>13 DEF StoreSpilled, ExtState, Reducing, SpillPC
  <2> QED
    BY <1>2, <1>5, <2>1, <2>2
<1>14. CASE AppendDisk
  <2>1. ext.pc = "appendDisk" /\ ext'.pc = "evict" /\ ext'.direct /\ ~AppendMem
    BY <1>3, <1>14 DEF AppendDisk, ExtState, AppendMem
  <2>2. ~Reducing(ext) /\ ~Reducing(ext')
    BY <2>1 DEF Reducing, SpillPC
  <2> QED
    BY <1>2, <1>4, <1>5, <2>1, <2>2
<1>15. CASE (\E w \in Archive : EvictFiles(w)) \/ EvictRows \/ EvictEnd
  <2>1. ext.pc \in SpillPC /\ ext'.pc \in SpillPC /\ ext'.direct = ext.direct /\ m = n
    BY <1>1, <1>3, <1>15 DEF EvictFiles, EvictRows, EvictEnd, SpillPC, ExtState, amounts
  <2>2. (Reducing(ext) <=> Reducing(ext')) /\ ~AppendMem
    BY <2>1 DEF Reducing, SpillPC, AppendMem
  <2>3. ext.pc \notin {"measure", "lookup", "appendMem"} /\ ext'.pc \notin {"measure", "lookup", "appendMem"}
    BY <2>1 DEF SpillPC
  <2> QED
    BY <1>2, <1>4, <1>5, <2>1, <2>2, <2>3
<1>16. CASE StorePiece
  <2>1. ext.pc = "store" /\ ext.direct /\ ext'.pc = "write" /\ ~AppendMem
    BY <1>3, <1>16 DEF StorePiece, NextPiece, ExtState, AppendMem
  <2>2. ~Reducing(ext) /\ ~Reducing(ext')
    BY <2>1 DEF Reducing, SpillPC
  <2> QED
    BY <1>2, <1>4, <1>5, <2>1, <2>2
<1>17. CASE Crash
  <2>1. ext'.pc = "idle" /\ ~Reducing(ext')
    BY <1>17 DEF Crash, Idle, Reducing, SpillPC
  <2>2. t = 0
    <3>1. \A x \in Keys : Lens(mem')[x] = 0
      BY <1>17 DEF Crash, NoMem, Lens, Keys, EntryLen
    <3>2. mem' \in MemType
      BY TypeInvStep DEF TypeInv, StoresOK
    <3> QED
      BY <1>1, <3>1, <3>2, KeysFinite, MemSizeIs, TotalZero
  <2> QED
    BY <1>2, <2>1, <2>2
<1> QED
  BY Moves, <1>7, <1>8, <1>9, <1>10, <1>11, <1>12, <1>13, <1>14, <1>15, <1>16, <1>17

\* As long as nobody clears, what a purge still has to take away is there.
LEMMA NeedStep ==
    ASSUME IsFiniteSet(Archive), TypeInv, Amounts, NeedOK, [Next]_vars, "clear" \notin Faults
    PROVE  NeedOK'
<1>1. PICK s, t, n, m : s = MemSize(mem) /\ t = MemSize(mem') /\ n = need /\ m = need'
  OBVIOUS
<1>2. s \in Nat /\ t \in Nat /\ n \in Nat /\ m \in Nat
  BY <1>1, MemSizeStep, AmountsStep DEF Amounts
<1>3. ext \in ExtState /\ ext' \in ExtState
  BY TypeInvStep DEF TypeInv
<1>4. Reducing(ext) /\ ~StoreSpilled /\ ~Crash => t = s
  BY <1>1, MemSizeStep DEF ClearMem
<1>5. Reducing(ext) => n <= s
  BY <1>1 DEF NeedOK
<1>6. SUFFICES ASSUME Reducing(ext') PROVE m <= t
  BY <1>1 DEF NeedOK
<1>7. ~Crash
  BY <1>6 DEF Crash, Idle, Reducing, SpillPC
<1>8. CASE UNCHANGED <<ext, need, dneed>> /\ ~StoreSpilled
  BY <1>1, <1>4, <1>5, <1>6, <1>7, <1>8
<1>9. CASE PlainMove \/ AppendMem \/ ReduceEnd \/ StorePiece
  <2>1. ext'.pc \in PlainPC \cup {"measure"}
    <3>1. CASE PlainMove
      BY <3>1 DEF PlainMove
    <3>2. CASE AppendMem
      BY <1>3, <3>2 DEF AppendMem, ExtState
    <3>3. CASE ReduceEnd \/ StorePiece
      BY <1>3, <3>3 DEF ReduceEnd, StorePiece, NextPiece, ExtState, PlainPC, ExtPC, LockedPC
    <3> QED
      BY <1>9, <3>1, <3>2, <3>3
  <2> QED
    BY <1>6, <2>1 DEF PlainPC, ExtPC, LockedPC, Reducing, SpillPC
<1>10. CASE Measure
  <2>1. OverLimit(mem)
    <3>1. ~OverLimit(mem) => ext'.pc = "write"
      BY <1>3, <1>10 DEF Measure, NextPiece, ExtState
    <3> QED
      BY <1>6, <3>1 DEF Reducing, SpillPC
  <2>2. m = MemReduction(mem) /\ t = s /\ mem \in MemType
    BY <1>1, <1>10, <2>1 DEF Measure, stores, TypeInv, StoresOK
  <2> QED
    BY <1>1, <2>2, MemReductionFits
<1>11. CASE CallReduce \/ (\E v \in Archive : ReduceVictim(v)) \/ SpillFirst
  <2>1. Reducing(ext) /\ m = n /\ ~StoreSpilled
    BY <1>1, <1>11 DEF CallReduce, ReduceVictim, SpillFirst, StoreSpilled, amounts, Reducing
  <2> QED
    BY <1>4, <1>5, <1>7, <2>1
<1>12. CASE StoreSpilled
  <2>1. PICK k \in Nat : m = (IF n < k THEN 0 ELSE n - k) /\ t + k = s
    BY <1>1, <1>12, SpillAmounts
  <2>2. Reducing(ext)
    BY <1>12 DEF StoreSpilled, Reducing, SpillPC
  <2> QED
    BY <1>2, <1>5, <2>1, <2>2
<1>13. CASE AppendDisk
  <2>1. ext'.pc = "evict" /\ ext'.direct
    BY <1>3, <1>13 DEF AppendDisk, ExtState
  <2> QED
    BY <1>6, <2>1 DEF Reducing
<1>14. CASE (\E w \in Archive : EvictFiles(w)) \/ EvictRows \/ EvictEnd
  <2>1. ext.pc \in {"evict", "deleteRows"} /\ ext'.pc \in SpillPC /\ ext'.direct = ext.direct /\ m = n
    BY <1>1, <1>3, <1>14 DEF EvictFiles, EvictRows, EvictEnd, SpillPC, ExtState, amounts
  <2>2. Reducing(ext) /\ ~StoreSpilled
    BY <1>6, <2>1 DEF Reducing, SpillPC, StoreSpilled
  <2> QED
    BY <1>4, <1>5, <1>7, <2>1, <2>2
<1> QED
  BY Moves, <1>7, <1>8, <1>9, <1>10, <1>11, <1>12, <1>13, <1>14

\* Without entries there is nothing to take away.
LEMMA EmptyTable ==
    ASSUME IsFiniteSet(Archive), TypeInv, table = {}
    PROVE  MemSize(mem) = 0
<1>1. mem \in MemType /\ \A a \in Archive, i \in Item : mem[a][i] = Absent
  BY DEF TypeInv, StoresOK, Present
<1>2. \A x \in Keys : Lens(mem)[x] = 0
  BY <1>1 DEF Lens, Keys, EntryLen
<1> QED
  BY <1>1, <1>2, KeysFinite, MemSizeIs, TotalZero

----------------------------------------------------------------------------
(* Disk                                                                    *)

\* While an entry is on its way to disk, only the extractor touches the stores.
LEMMA LockedKeeps ==
    ASSUME TypeInv, [Next]_vars, ext.pc \in SpillPC, UNCHANGED ext
    PROVE  UNCHANGED <<mem, disk>>
<1>1. ext \in ExtState /\ Locked
  BY DEF TypeInv, SpillPC, Locked, LockedPC
<1>2. ~ClearMem /\ ~ClearDisk /\ ~(\E r \in Caller : ReadMem(r))
  BY <1>1 DEF ClearMem, ClearDisk, ReadMem
<1>3. ~PurgeUnmarkedMem /\ ~PurgeUnmarkedDisk /\ ~AppendMem /\ ~MarkMem /\ ~MarkDisk
  BY DEF PurgeUnmarkedMem, PurgeUnmarkedDisk, AppendMem, MarkMem, MarkDisk, SpillPC
<1>4. ~StorePiece /\ ~StoreSpilled /\ ~EvictRows /\ ~(\E w \in Archive : EvictFiles(w))
  BY <1>1 DEF StorePiece, StoreSpilled, EvictRows, EvictFiles, NextPiece, ExtState
<1>5. ~Crash
  BY DEF Crash, Idle, SpillPC
<1> QED
  BY <1>2, <1>3, <1>4, <1>5, StoreSteps

\* Deleting the files leaves the sizes in the table as they were ...
LEMMA EvictFilesSize ==
    ASSUME IsFiniteSet(Archive), TypeInv, NEW w \in Archive, EvictFiles(w)
    PROVE  DiskSize(disk') = DiskSize(disk)
<1>1. disk \in DiskType /\ disk' \in DiskType
  <2>1. [Next]_vars
    BY DEF Next, Extractor
  <2> QED
    BY <2>1, TypeInvStep DEF TypeInv, StoresOK
<1>2. PICK E : E = EvictedRows(disk, w, dneed)
  OBVIOUS
<1>3. PICK f : f = [i \in Item |-> IF i \in E THEN [disk[w][i] EXCEPT !.data = << >>]
                                  ELSE disk[w][i]]
  OBVIOUS
<1>4. ASSUME NEW i \in Item PROVE RowSize(f[i]) = RowSize(disk[w][i])
  <2>1. CASE i \in E
    <3>1. disk[w][i] \in Row
      BY <1>1, <1>2, <2>1 DEF EvictedRows, CompletedRows, DiskCached, Exists, DiskType
    <3>2. f[i] = [disk[w][i] EXCEPT !.data = << >>] /\ f[i] \in Row
      BY <1>3, <2>1, <3>1, EmptiedRow
    <3>3. f[i].size = disk[w][i].size
      BY <3>1, <3>2 DEF Row
    <3> QED
      BY <3>1, <3>2, <3>3, AbsentAssumption DEF RowSize
  <2>2. CASE i \notin E
    BY <1>3, <2>2
  <2> QED
    BY <2>1, <2>2
<1>5. disk' = [disk EXCEPT ![w] = f]
  BY <1>2, <1>3 DEF EvictFiles
<1>6. \A b \in Archive, k \in Item : RowSize(disk'[b][k]) = RowSize(disk[b][k])
  BY <1>1, <1>4, <1>5 DEF DiskType
<1> QED
  BY <1>1, <1>6, DiskSizeSame

\* ... and deleting the rows takes away what ReduceSizeWithAIdx_ says it does.
LEMMA EvictRowsSize ==
    ASSUME IsFiniteSet(Archive), TypeInv, EvictRows
    PROVE  \E freed \in Nat :
              /\ dneed' = (IF freed < dneed THEN dneed - freed ELSE 0)
              /\ DiskSize(disk') + freed = DiskSize(disk)
<1>1. disk \in DiskType /\ disk' \in DiskType
  <2>1. [Next]_vars
    BY DEF Next, Extractor
  <2> QED
    BY <2>1, TypeInvStep DEF TypeInv, StoresOK
<1>2. PICK w, E : w = ext.w /\ E = EvictedRows(disk, w, dneed)
  OBVIOUS
<1>3. w \in Archive /\ E \in SUBSET Item /\ \A i \in E : Exists(disk, w, i)
  BY <1>2 DEF TypeInv, ExtState, EvictedRows, CompletedRows, DiskCached
<1>4. PICK freed, T : freed = SizeOfRows(disk, w, E) /\ T = {<<w, i>> : i \in E}
  OBVIOUS
<1>5. freed \in Nat /\ freed = Total(T, Sizes(disk))
  BY <1>1, <1>3, <1>4, RowsSizeIs
<1>6. disk' = [disk EXCEPT ![w] = [i \in Item |-> IF i \in E THEN Absent ELSE disk[w][i]]]
  BY <1>2 DEF EvictRows
<1>7. /\ T \in SUBSET Keys
      /\ \A x \in T : Sizes(disk')[x] = 0
      /\ \A x \in Keys \ T : Sizes(disk')[x] = Sizes(disk)[x]
  <2>1. T \in SUBSET Keys
    BY <1>3, <1>4 DEF Keys
  <2>2. ASSUME NEW i \in E PROVE Sizes(disk')[<<w, i>>] = 0
    <3>1. disk'[w][i] = Absent
      BY <1>1, <1>3, <1>6 DEF DiskType
    <3>2. Sizes(disk')[<<w, i>>] = RowSize(disk'[w][i])
      BY <1>1, <1>3, SizesType
    <3> QED
      BY <3>1, <3>2 DEF RowSize
  <2>3. ASSUME NEW b \in Archive, NEW k \in Item, <<b, k>> \notin T
        PROVE  Sizes(disk')[<<b, k>>] = Sizes(disk)[<<b, k>>]
    <3>1. ~(b = w /\ k \in E)
      BY <1>4, <2>3
    <3>2. disk'[b][k] = disk[b][k]
      BY <1>1, <1>3, <1>6, <3>1 DEF DiskType
    <3> QED
      BY <1>1, <3>2, SizesType
  <2> QED
    BY <1>4, <2>1, <2>2, <2>3 DEF Keys
<1>8. IsFiniteSet(Keys) /\ IsFiniteSet(T) /\ IsFiniteSet(Keys \ T)
  BY <1>7, KeysFinite, FS_Subset
<1>9. \A x \in Keys : Sizes(disk)[x] \in Nat /\ Sizes(disk')[x] \in Nat
  BY <1>1, SizesType
<1>10. PICK x, y, z :
           /\ x = Total(Keys, Sizes(disk)) /\ y = Total(Keys, Sizes(disk'))
           /\ z = Total(Keys \ T, Sizes(disk))
  OBVIOUS
<1>11. x = freed + z
  BY <1>5, <1>7, <1>8, <1>9, <1>10, TotalSplit
<1>12. y = 0 + z
  <2>1. y = Total(T, Sizes(disk')) + Total(Keys \ T, Sizes(disk'))
    BY <1>7, <1>8, <1>9, <1>10, TotalSplit
  <2>2. Total(T, Sizes(disk')) = 0
    BY <1>7, <1>8, TotalZero
  <2>3. Total(Keys \ T, Sizes(disk')) = z
    BY <1>7, <1>8, <1>9, <1>10, TotalEqual
  <2> QED
    BY <2>1, <2>2, <2>3
<1>13. z \in Nat
  <2>1. \A k \in Keys \ T : Sizes(disk)[k] \in Nat
    BY <1>9
  <2> QED
    BY <1>8, <1>10, <2>1, TotalIs
<1>14. DiskSize(disk) = x /\ DiskSize(disk') = y
  BY <1>1, <1>10, DiskSizeIs
<1>15. dneed' = IF freed < dneed THEN dneed - freed ELSE 0
  BY <1>2, <1>4 DEF EvictRows
<1> QED
  BY <1>5, <1>11, <1>12, <1>13, <1>14, <1>15

\* What is about to be written has a size.
LEMMA CostType ==
    ASSUME TypeInv, ext.pc \in SpillPC
    PROVE  Cost \in Nat
<1>1. ext.v \in Archive /\ ext.j \in Item
  BY DEF TypeInv, ExtOK, ExtState
<1>2. mem[ext.v][ext.j] \in MemEntry \cup {Absent}
  BY <1>1 DEF TypeInv, StoresOK, MemType
<1> QED
  BY <1>2, LenType DEF Cost

\* A write adds at most that to the archive written to, and nothing to the others.
LEMMA StoreSize ==
    ASSUME IsFiniteSet(Archive), TypeInv, StorePiece \/ StoreSpilled
    PROVE  /\ DiskSize(disk') <= DiskSize(disk) + Cost
           /\ \A w \in Archive \ {ext.v}, i \in Item : disk'[w][i] = disk[w][i]
<1>1. disk \in DiskType /\ disk' \in DiskType
  <2>1. [Next]_vars
    BY DEF Next, Extractor
  <2> QED
    BY <2>1, TypeInvStep DEF TypeInv, StoresOK
<1>2. ext.tid \in Tid /\ ext.v \in Archive /\ ext.j \in Item
  BY DEF TypeInv, ExtOK, ExtState, StorePiece, StoreSpilled, WorkPC, ExtPC, LockedPC, SpillPC
<1>3. PICK r, t, c : r = disk[ext.v][ext.j] /\ t = disk'[ext.v][ext.j] /\ c = Cost
  OBVIOUS
<1>4. r \in Row \cup {Absent} /\ t \in Row \cup {Absent}
  BY <1>1, <1>2, <1>3 DEF DiskType
<1>5. /\ c \in Nat /\ RowSize(t) <= RowSize(r) + c
      /\ \A b \in Archive, k \in Item : b # ext.v \/ k # ext.j => disk'[b][k] = disk[b][k]
  <2>1. ASSUME NEW data \in Content, NEW u, u = StoredRow(r, ext.tid, data)
        PROVE  u \in Row /\ RowSize(u) <= RowSize(r) + Len(data) /\ Len(data) \in Nat
    <3>1. u \in Row /\ Len(data) \in Nat
      BY <1>2, <1>4, <2>1, StoredRowFacts DEF Content
    <3>2. /\ RowSize(u) = u.size /\ RowSize(r) \in Nat /\ RowSize(u) \in Nat
          /\ r = Absent => RowSize(r) = 0
          /\ r # Absent => RowSize(r) = r.size
      BY <1>4, <3>1, SizeType, AbsentAssumption DEF RowSize
    <3>3. CASE r = Absent
      <4>1. u = [completed |-> ext.tid, size |-> Len(data), data |-> data]
        BY <2>1, <3>3 DEF StoredRow
      <4>2. u.size = Len(data)
        BY <4>1
      <4> QED
        BY <3>1, <3>2, <3>3, <4>2
    <3>4. CASE r # Absent /\ r.completed = ext.tid
      BY <1>2, <1>4, <2>1, <3>1, <3>2, <3>4, StoredRowFacts
    <3>5. CASE r # Absent /\ r.completed # ext.tid
      BY <1>2, <1>4, <2>1, <3>1, <3>2, <3>5, StoredRowFacts
    <3> QED
      BY <3>1, <3>3, <3>4, <3>5
  <2>2. CASE StorePiece
    <3>1. PICK data : data = << ext.c >>
      OBVIOUS
    <3>2. data \in Content /\ Len(data) = 1
      BY <3>1 DEF TypeInv, ExtState, Content
    <3>3. ext.v = ext.a /\ ext.j = ext.i /\ c = 1
      BY <1>3, <2>2 DEF StorePiece, TypeInv, ExtOK, SpillPC, Cost
    <3>4. /\ t = StoredRow(r, ext.tid, data)
          /\ \A b \in Archive, k \in Item : b # ext.v \/ k # ext.j => disk'[b][k] = disk[b][k]
      BY <1>2, <1>3, <2>2, <3>1, <3>3, StorePieceEffect
    <3> QED
      BY <2>1, <3>2, <3>3, <3>4
  <2>3. CASE StoreSpilled
    <3>1. PICK e, u : e = mem[ext.v][ext.j] /\ u = StoredRow(r, ext.tid, e.buf)
      OBVIOUS
    <3>2. /\ e \in MemEntry /\ t = SpilledRow(e, r, ext.tid)
          /\ \A b \in Archive, k \in Item : b # ext.v \/ k # ext.j => disk'[b][k] = disk[b][k]
      BY <1>2, <1>3, <2>3, <3>1, SpillEffect
    <3>3. e.buf \in Content /\ c = Len(e.buf)
      BY <1>3, <2>3, <3>1, <3>2, AbsentAssumption DEF MemEntry, Cost, EntryLen, StoreSpilled
    <3>4. u \in Row /\ RowSize(u) <= RowSize(r) + c /\ c \in Nat
      BY <2>1, <3>1, <3>3
    <3>5. RowSize(t) = RowSize(u)
      <4>1. t = IF e.cached THEN MarkedRow(u) ELSE u
        BY <3>1, <3>2 DEF SpilledRow
      <4>2. MarkedRow(u) # Absent /\ MarkedRow(u).size = u.size /\ u # Absent
        BY <3>4, MarkedRowFacts, AbsentAssumption DEF MarkedRow
      <4> QED
        BY <4>1, <4>2 DEF RowSize
    <3> QED
      BY <3>2, <3>4, <3>5
  <2> QED
    BY <2>2, <2>3
<1>6. DiskSize(disk') + RowSize(r) = DiskSize(disk) + RowSize(t)
  BY <1>1, <1>2, <1>3, <1>5, DiskSizeAt
<1>7. RowSize(r) \in Nat /\ RowSize(t) \in Nat /\ DiskSize(disk) \in Nat /\ DiskSize(disk') \in Nat
  BY <1>1, <1>4, SizeType, DiskSizeIs
<1>8. DiskSize(disk') <= DiskSize(disk) + c
  BY <1>5, <1>6, <1>7
<1> QED
  BY <1>3, <1>5, <1>8

\* An eviction that ends has made room, or left nothing to evict.
LEMMA EvictionEnds ==
    ASSUME IsFiniteSet(Archive), TypeInv, Amounts, EvictEnd
    PROVE  dneed = 0 \/ NothingToEvict(disk, ext.v)
<1>1. disk \in DiskType
  BY DEF TypeInv, StoresOK
<1>2. CASE dneed = 0
  BY <1>2
<1>3. CASE DiskSize(disk) = 0
  <2>1. ASSUME NEW w \in Archive, NEW i \in CompletedRows(disk, w)
        PROVE  disk[w][i].size = 0
    <3>1. i \in Item /\ disk[w][i] \in Row /\ disk[w][i] # Absent
      BY <1>1, AbsentAssumption DEF CompletedRows, DiskCached, Exists, DiskType
    <3>2. <<w, i>> \in Keys /\ Sizes(disk)[<<w, i>>] = disk[w][i].size
      BY <1>1, <3>1, SizesType DEF Keys, RowSize
    <3>3. PICK x, y : x = Sizes(disk)[<<w, i>>] /\ y = Total(Keys \ {<<w, i>>}, Sizes(disk))
      OBVIOUS
    <3>4. \A k \in Keys : Sizes(disk)[k] \in Nat
      BY <1>1, SizesType
    <3>5. x \in Nat /\ y \in Nat
      <4>1. IsFiniteSet(Keys \ {<<w, i>>})
        BY KeysFinite, FS_Subset
      <4> QED
        BY <3>2, <3>3, <3>4, <4>1, TotalIs
    <3>6. 0 = x + y
      BY <1>1, <1>3, <3>2, <3>3, <3>4, KeysFinite, DiskSizeIs, TotalWithout
    <3> QED
      BY <3>2, <3>3, <3>5, <3>6
  <2> QED
    BY <2>1 DEF NothingToEvict
<1>4. CASE Evictable(disk, rows, ext.v) = {}
  <2>1. ASSUME NEW w \in Archive \ {ext.v} PROVE CompletedRows(disk, w) = {}
    <3>1. CASE w \in rows
      BY <1>4, <3>1 DEF Evictable
    <3>2. CASE w \notin rows
      BY <3>2 DEF TypeInv, StoresOK, Present, CompletedRows, DiskCached, Exists
    <3> QED
      BY <3>1, <3>2
  <2> QED
    BY <2>1 DEF NothingToEvict
<1> QED
  BY <1>2, <1>3, <1>4 DEF EvictEnd

\* The bound of the disk cache is kept by every step.
LEMMA DiskBoundStep ==
    ASSUME IsFiniteSet(Archive), TypeInv, Amounts, DiskBound, [Next]_vars
    PROVE  DiskBound'
<1>1. SUFFICES ASSUME MaxDisk >= 0, ext'.pc \in SpillPC PROVE DiskBound'
  BY DEF DiskBound, SpillPC
<1>2. PICK s, t, l, n, m, c, k :
          /\ s = DiskSize(disk) /\ t = DiskSize(disk') /\ l = InBytes(MaxDisk)
          /\ n = dneed /\ m = dneed' /\ c = Cost /\ k = Cost'
  OBVIOUS
<1>3. disk \in DiskType /\ disk' \in DiskType /\ ext \in ExtState /\ ext' \in ExtState
        /\ TypeInv'
  BY TypeInvStep DEF TypeInv, StoresOK
<1>4. /\ s \in Nat /\ t \in Nat /\ l \in Nat /\ n \in Nat /\ m \in Nat
      /\ ext.pc \in SpillPC => c \in Nat
  BY <1>2, <1>3, DiskSizeIs, AmountsStep, LimitType, LimitAssumption, CostType DEF Amounts
<1>5. ext.pc \in {"evict", "deleteRows"} => s + c <= l + n
  BY <1>1, <1>2 DEF DiskBound
<1>6. ext.pc = "store" => s + c <= l \/ NothingToEvict(disk, ext.v)
  BY <1>1, <1>2 DEF DiskBound
<1>7. SUFFICES /\ ext'.pc \in {"evict", "deleteRows"} => t + k <= l + m
               /\ ext'.pc = "store" => t + k <= l \/ NothingToEvict(disk', ext'.v)
  BY <1>2 DEF DiskBound
<1>8. CASE UNCHANGED <<ext, need, dneed>> /\ ~StoreSpilled
  <2>1. ext' = ext /\ m = n /\ mem' = mem /\ disk' = disk
    BY <1>1, <1>2, <1>8, LockedKeeps
  <2>2. t = s /\ k = c /\ ext'.v = ext.v
    BY <1>2, <2>1 DEF Cost
  <2> QED
    BY <1>5, <1>6, <2>1, <2>2
<1>9. CASE PlainMove
  BY <1>1, <1>9 DEF PlainMove, PlainPC, LockedPC, SpillPC
<1>10. CASE AppendMem \/ Measure \/ CallReduce \/ (\E v \in Archive : ReduceVictim(v))
  <2>1. CASE AppendMem
    BY <1>1, <1>3, <2>1 DEF AppendMem, ExtState, SpillPC
  <2>2. CASE Measure
    BY <1>1, <1>3, <2>2 DEF Measure, NextPiece, ExtState, SpillPC
  <2>3. CASE CallReduce
    BY <1>1, <1>3, <2>3 DEF CallReduce, ExtState, SpillPC
  <2>4. CASE \E v \in Archive : ReduceVictim(v)
    BY <1>1, <1>3, <2>4 DEF ReduceVictim, ExtState, SpillPC
  <2> QED
    BY <1>10, <2>1, <2>2, <2>3, <2>4
<1>11. CASE ReduceEnd \/ StorePiece \/ StoreSpilled
  BY <1>1, <1>3, <1>11 DEF ReduceEnd, StorePiece, StoreSpilled, NextPiece, ExtState, SpillPC
<1>12. CASE SpillFirst
  <2>1. need > 0 /\ Present(mem, ext.v) # {}
    <3>1. ~(need > 0 /\ Present(mem, ext.v) # {}) => ext'.pc = "reduce"
      BY <1>3, <1>12 DEF SpillFirst, ExtState
    <3> QED
      BY <1>1, <3>1 DEF SpillPC
  <2>2. PICK j : j = FirstIndex(mem, ext.v)
    OBVIOUS
  <2>3. ext.v \in Archive /\ j \in Item /\ mem[ext.v][j] \in MemEntry
    BY <1>3, <2>1, <2>2, FirstIndexType DEF Exists, TypeInv, StoresOK, MemType, ExtState
  <2>4. ~ext.direct
    BY <1>12 DEF SpillFirst, TypeInv, ExtOK, WorkPC, ExtPC, SpillPC, LockedPC
  <2>5. /\ ext'.pc = "evict" /\ ext'.v = ext.v /\ ext'.j = j /\ ~ext'.direct
        /\ UNCHANGED <<mem, disk>>
        /\ m = DiskReduction(disk, Len(mem[ext.v][j].buf))
    BY <1>2, <1>3, <1>12, <2>1, <2>2, <2>3, <2>4 DEF SpillFirst, ExtState
  <2>6. k = Len(mem[ext.v][j].buf) /\ k \in Nat
    <3>1. k = EntryLen(mem[ext.v][j])
      BY <1>2, <2>5 DEF Cost
    <3> QED
      BY <2>3, <3>1, LenType, AbsentAssumption
  <2>7. t + k <= l + m
    BY <1>1, <1>2, <1>3, <2>5, <2>6, DiskReductionFits
  <2> QED
    BY <2>5, <2>7
<1>13. CASE AppendDisk
  <2>1. ext'.pc = "evict" /\ ext'.direct /\ UNCHANGED <<mem, disk>> /\ m = DiskReduction(disk, 1)
    BY <1>2, <1>3, <1>13 DEF AppendDisk, ExtState
  <2>2. k = 1
    BY <1>2, <2>1 DEF Cost
  <2>3. t + k <= l + m
    BY <1>1, <1>2, <1>3, <2>1, <2>2, DiskReductionFits
  <2> QED
    BY <2>1, <2>3
<1>14. CASE \E w \in Archive : EvictFiles(w)
  <2> PICK w \in Archive : EvictFiles(w)
    BY <1>14
  <2>1. /\ ext.pc = "evict" /\ ext'.pc = "deleteRows" /\ m = n /\ mem' = mem
        /\ ext'.v = ext.v /\ ext'.j = ext.j /\ ext'.direct = ext.direct
    BY <1>2, <1>3 DEF EvictFiles, ExtState, amounts
  <2>2. t = s /\ k = c
    BY <1>2, <2>1, EvictFilesSize DEF Cost
  <2> QED
    BY <1>5, <2>1, <2>2
<1>15. CASE EvictRows
  <2>1. /\ ext.pc = "deleteRows" /\ ext'.pc = "evict" /\ mem' = mem
        /\ ext'.v = ext.v /\ ext'.j = ext.j /\ ext'.direct = ext.direct
    BY <1>3, <1>15 DEF EvictRows, ExtState
  <2>2. k = c /\ c \in Nat
    BY <1>2, <1>4, <2>1 DEF Cost, SpillPC
  <2>3. PICK freed \in Nat : m = (IF freed < n THEN n - freed ELSE 0) /\ t + freed = s
    BY <1>2, <1>15, EvictRowsSize
  <2> QED
    BY <1>4, <1>5, <2>1, <2>2, <2>3
<1>16. CASE EvictEnd
  <2>1. /\ ext.pc = "evict" /\ ext'.pc = "store" /\ UNCHANGED <<mem, disk>>
        /\ ext'.v = ext.v /\ ext'.j = ext.j /\ ext'.direct = ext.direct
    BY <1>3, <1>16 DEF EvictEnd, ExtState, stores
  <2>2. k = c /\ t = s /\ c \in Nat
    BY <1>2, <1>4, <2>1 DEF Cost, SpillPC
  <2>3. n = 0 \/ NothingToEvict(disk, ext.v)
    BY <1>2, <1>16, EvictionEnds
  <2>4. NothingToEvict(disk, ext.v) => NothingToEvict(disk', ext'.v)
    BY <2>1
  <2> QED
    BY <1>4, <1>5, <2>1, <2>2, <2>3, <2>4
<1>17. CASE Crash
  BY <1>1, <1>17 DEF Crash, Idle, SpillPC
<1> QED
  BY Moves, <1>8, <1>9, <1>10, <1>11, <1>12, <1>13, <1>14, <1>15, <1>16, <1>17

----------------------------------------------------------------------------
(* The theorems                                                            *)

LimitInv == TypeInv /\ Amounts /\ MemBound /\ DiskBound

\* The empty stores have size 0.
LEMMA NothingAtFirst ==
    ASSUME IsFiniteSet(Archive), Init
    PROVE  LimitInv /\ NeedOK
<1>1. TypeInv
  BY TypeInvInit
<1>2. ext.pc = "idle" /\ need = 0 /\ dneed = 0 /\ table = {}
  BY DEF Init, Idle
<1>3. MemSize(mem) = 0
  BY <1>1, <1>2, EmptyTable
<1>4. ~Reducing(ext) /\ ext.pc \notin SpillPC /\ ext.pc \notin {"measure", "lookup", "appendMem"}
  BY <1>2 DEF Reducing, SpillPC
<1>5. MemBound
  BY <1>2, <1>3, <1>4, LimitType, LimitAssumption DEF MemBound, MemBoundAt
<1> QED
  BY <1>1, <1>2, <1>4, <1>5 DEF LimitInv, Amounts, NeedOK, DiskBound, SpillPC

\* The bounds are an invariant, whatever else happens to the cache.
THEOREM LimitInvariant ==
    ASSUME IsFiniteSet(Archive)
    PROVE  Spec => []LimitInv
<1>1. Init => LimitInv
  BY NothingAtFirst
<1>2. LimitInv /\ [Next]_vars => LimitInv'
  BY TypeInvStep, AmountsStep, MemBoundStep, DiskBoundStep DEF LimitInv
<1> QED
  BY <1>1, <1>2, PTL DEF Spec

\* The memory cache stays within its limit but for the piece just appended, and
\* is empty if the limit is not positive.
THEOREM MemoryIsBounded ==
    ASSUME IsFiniteSet(Archive)
    PROVE  Spec => []MemoryBounded
<1>1. LimitInv => MemoryBounded
  <2> SUFFICES ASSUME LimitInv PROVE MemoryBounded
    OBVIOUS
  <2>1. PICK s, l : s = MemSize(mem) /\ l = InBytes(MaxMemory)
    OBVIOUS
  <2>2. s \in Nat /\ l \in Nat /\ MaxMemory \in Int
    BY <2>1, MemSizeIs, LimitType, LimitAssumption DEF LimitInv, TypeInv, StoresOK
  <2>3. /\ MaxMemory <= 0 => s = 0
        /\ ~(MaxMemory <= 0) => s <= l + 1
        /\ ~(MaxMemory <= 0) /\ ~(s <= l) => ext.pc = "measure" \/ Reducing(ext)
    BY <2>1, <2>2 DEF LimitInv, MemBound, MemBoundAt
  <2>4. Reducing(ext) => ext.pc \in {"measure", "callReduce"} \cup LockedPC
    BY DEF Reducing, SpillPC, LockedPC
  <2> QED
    BY <2>1, <2>2, <2>3, <2>4 DEF MemoryBounded
<1> QED
  BY <1>1, LimitInvariant, PTL

\* A write to the disk cache leaves it within its limit, or with nothing to
\* evict but the archive written to.
THEOREM DiskIsBounded ==
    ASSUME IsFiniteSet(Archive)
    PROVE  Spec => DiskLimitHonoured
<1>1. LimitInv /\ [Next]_vars =>
        [ext.pc = "store" /\ MaxDisk >= 0 =>
          \/ DiskSize(disk') <= InBytes(MaxDisk)
          \/ \A w \in Archive \ {ext.v} : \A i \in CompletedRows(disk', w) :
                 disk'[w][i].size = 0]_vars
  <2> SUFFICES ASSUME LimitInv, [Next]_vars, ext.pc = "store", MaxDisk >= 0
               PROVE  DiskSize(disk') <= InBytes(MaxDisk) \/ NothingToEvict(disk', ext.v)
    BY DEF NothingToEvict
  <2>1. PICK s, t, l, c : /\ s = DiskSize(disk) /\ t = DiskSize(disk') /\ c = Cost
                          /\ l = InBytes(MaxDisk)
    OBVIOUS
  <2>2. s \in Nat /\ t \in Nat /\ c \in Nat /\ l \in Nat
    BY <2>1, TypeInvStep, DiskSizeIs, CostType, LimitType, LimitAssumption
       DEF LimitInv, TypeInv, StoresOK, SpillPC
  <2>3. s + c <= l \/ NothingToEvict(disk, ext.v)
    BY <2>1 DEF LimitInv, DiskBound
  <2>4. CASE StorePiece \/ StoreSpilled
    <3>1. t <= s + c
      BY <2>1, <2>4, StoreSize DEF LimitInv
    <3>2. NothingToEvict(disk, ext.v) => NothingToEvict(disk', ext.v)
      <4>1. \A w \in Archive \ {ext.v}, i \in Item : disk'[w][i] = disk[w][i]
        BY <2>4, StoreSize DEF LimitInv
      <4> QED
        BY <4>1 DEF NothingToEvict, CompletedRows, DiskCached, Exists
    <3> QED
      BY <2>1, <2>2, <2>3, <3>1, <3>2
  <2>5. CASE ~(StorePiece \/ StoreSpilled)
    <3>1. disk' = disk
      <4>1. ~ClearMem /\ ~ClearDisk /\ ~(\E r \in Caller : ReadMem(r))
        BY DEF ClearMem, ClearDisk, ReadMem, Locked, LockedPC
      <4>2. ~PurgeUnmarkedMem /\ ~PurgeUnmarkedDisk /\ ~AppendMem /\ ~MarkMem /\ ~MarkDisk
              /\ ~EvictRows /\ ~(\E w \in Archive : EvictFiles(w))
        BY DEF PurgeUnmarkedMem, PurgeUnmarkedDisk, AppendMem, MarkMem, MarkDisk, EvictRows,
               EvictFiles
      <4>3. CASE Crash
        BY <4>3 DEF Crash
      <4> QED
        BY <2>5, <4>1, <4>2, <4>3, StoreSteps
    <3>2. t = s /\ (NothingToEvict(disk, ext.v) => NothingToEvict(disk', ext.v))
      BY <2>1, <3>1
    <3> QED
      BY <2>1, <2>2, <2>3, <3>2
  <2> QED
    BY <2>4, <2>5
<1> QED
  BY <1>1, LimitInvariant, PTL DEF Spec, DiskLimitHonoured

\* The purge loops end: they count down without wrapping, and the one of memory
\* finds something to take away as long as it has to, unless the cache is
\* cleared while it is about to start.
THEOREM PurgeHasVictim ==
    ASSUME IsFiniteSet(Archive), "clear" \notin Faults
    PROVE  Spec => []PurgeFindsVictim
<1>1. Init => LimitInv /\ NeedOK
  BY NothingAtFirst
<1>2. LimitInv /\ NeedOK /\ [Next]_vars => NeedOK'
  BY NeedStep DEF LimitInv
<1>3. LimitInv /\ NeedOK => PurgeFindsVictim
  <2> SUFFICES ASSUME LimitInv, NeedOK, ext.pc = "reduce", need > 0, table = {} PROVE FALSE
    BY DEF LimitInv, Amounts, PurgeFindsVictim
  <2>1. need <= MemSize(mem)
    BY DEF NeedOK, Reducing
  <2>2. MemSize(mem) = 0
    BY EmptyTable DEF LimitInv
  <2> QED
    BY <2>1, <2>2 DEF LimitInv, Amounts
<1> QED
  BY <1>1, <1>2, <1>3, LimitInvariant, PTL DEF Spec
=============================================================================
