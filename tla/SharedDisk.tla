------------------------------ MODULE SharedDisk ------------------------------
(***************************************************************************)
(* The disk cache seen by several processes.  Every program that loads the *)
(* plug-in opens the same database and writes the same .tmp files in the   *)
(* cache folder.  The lock of SolidCache is private to a process; between  *)
(* processes there is only the named mutex an extractor thread holds while *)
(* it runs.  Readers, the clean-up at the start of a process and the Clear *)
(* button do not take it.                                                  *)
(*                                                                         *)
(* The memory cache is off (MaxMemory <= 0), so that every piece goes to   *)
(* the disk.  A step of the extractor is one statement that writes a table *)
(* (with the queries right before it), one batch of file operations or one *)
(* operation of the mutex: the points between which another process can    *)
(* act, or this one can die ("TODO: transaction").                         *)
(* Statements of two processes that collide (SQLITE_BUSY, which the code   *)
(* ignores), changed archive files and moving the folder are left out.     *)
(***************************************************************************)
EXTENDS Integers, Sequences, FiniteSets, FiniteSetsExt, Functions

CONSTANTS
    Process, Archive,
    Viewer,                \* the processes whose host reads items
    Pieces,                \* Pieces[a][i]: pieces item i of archive a is written in
    MaxDisk, PurgeDisk,    \* the limits, in pieces; MaxDisk >= 0
    Free, Abandoned,       \* the named mutex without an owner
    Done,                  \* completed = 0
    MaxJobs,               \* bound on the extractions
    MaxEvents              \* bound on the starts and the uses of Clear

ASSUME SharedDiskAssumption ==
    /\ MaxDisk \in Nat /\ PurgeDisk \in Nat
    /\ Pieces \in [Archive -> Seq(Nat \ {0})]
    /\ Done \notin Process /\ {Free, Abandoned} \cap Process = {}

VARIABLES
    mutex,      \* "cx.myhome.yak.ax_7z_s.extractor"
    archives,   \* table archive: idx -> archive
    sequence,   \* the next AUTOINCREMENT value of idx
    entries,    \* table entry: rowid -> [aidx, item, completed]
    files,      \* the .tmp files: rowid -> the pieces written to it
    up,         \* the processes that have the plug-in loaded
    ext,        \* the extractor thread of each process
    reader,     \* the thread in GetFileEx of each process
    hit,        \* history: archives something outside the mutex damaged
    left        \* what the bounds leave: events, jobs

vars == <<mutex, archives, sequence, entries, files, up, ext, reader, hit, left>>
tables == <<archives, sequence, entries, files>>

Item(a) == DOMAIN Pieces[a]
Key == UNION {{a} \X Item(a) : a \in Archive}
Full(k) == [n \in 1..Pieces[k[1]][k[2]] |-> <<k, n>>]

Idle == [pc |-> "idle"]
\* Inside one call of the disk cache, holding the lock of the process: an
\* extractor (exclusively) and a reader (shared).
Locked(p) ==
    ext[p].pc \in {"purge rows", "purge archive", "look up", "room", "evict rows",
                   "evict archive", "look up again", "add or append", "update size",
                   "write file"}
Reading(p) == reader[p].pc = "map"
CanLock(p) == ~Locked(p) /\ ~Reading(p)

----------------------------------------------------------------------------
(* Queries. *)

\* GetArchiveIdx_: 0 when there is no row.
ArchiveIdx(a) ==
    IF a \in Range(archives)
    THEN CHOOSE x \in DOMAIN archives : archives[x] = a
    ELSE 0

Rows(x) == {r \in DOMAIN entries : entries[r].aidx = x}
BadCompleted(x) == Rows(x)
Completed(x) == {r \in Rows(x) : entries[r].completed = Done}
\* SELECT ... FROM entry WHERE aidx = ? AND idx = ?: at most one row, by the
\* primary key.
Found(x, i) == {r \in Rows(x) : entries[r].item = i}
\* Finished entries of an item, which IsCached_ looks for if the archive has
\* a row.
Finished(k) ==
    {r \in Found(ArchiveIdx(k[1]), k[2]) \cap Completed(ArchiveIdx(k[1])) :
        k[1] \in Range(archives)}
IsCached(k) == Finished(k) # {}

SizeOf(S) == MapThenSumSet(LAMBDA r : entries[r].size, S)
GetSize == SizeOf(DOMAIN entries)

\* What a new piece makes the disk cache give up, when it will hold that much.
Reduction(size) == IF size < MaxDisk THEN 0 ELSE Max({PurgeDisk, size - MaxDisk})

\* SQLite gives a new row the largest rowid in use plus one.
NewRow == IF DOMAIN entries = {} THEN 1 ELSE Max(DOMAIN entries) + 1

Without(f, S) == Restrict(f, DOMAIN f \ S)
With(f, x, v) == [y \in DOMAIN f \cup {x} |-> IF y = x THEN v ELSE f[y]]

\* DELETE FROM archive WHERE idx NOT IN (SELECT aidx FROM entry) AND idx = x
Referenced == {entries[r].aidx : r \in DOMAIN entries}
PurgeUnreferencedWithAIdx(x) == Without(archives, {x} \ Referenced)

Goto(p, pc) == ext' = [ext EXCEPT ![p].pc = pc]
Spend(what) == left[what] > 0 /\ left' = [left EXCEPT ![what] = @ - 1]

Init ==
    /\ mutex = Free
    /\ archives = << >> /\ sequence = 1 /\ entries = << >> /\ files = << >>
    /\ up = {}
    /\ ext = [p \in Process |-> Idle]
    /\ reader = [p \in Process |-> Idle]
    /\ hit = {}
    /\ left = [events |-> MaxEvents, jobs |-> MaxJobs]

----------------------------------------------------------------------------
(* The extractor thread: Extractor::operator() and, inside Extract(), the  *)
(* pieces of all items in order.                                           *)

\* GetFileExImp_Caching, with no extraction running in this process.
Request(p, a) ==
    /\ p \in up /\ ext[p] = Idle
    /\ Spend("jobs")
    /\ ext' = [ext EXCEPT ![p] =
                [pc |-> "wait", a |-> a, aidx |-> 0, from |-> 0, victims |-> {},
                 need |-> 0, i |-> 1, piece |-> 1, extracted |-> FALSE]]
    /\ UNCHANGED <<mutex, tables, up, reader, hit>>

\* WaitForSingleObject: an abandoned mutex is acquired like a free one.
BadAcquire(p) ==
    /\ ext[p].pc = "wait" /\ mutex = Free
    /\ mutex' = p
    /\ Goto(p, "purge files")
    /\ UNCHANGED <<tables, up, reader, hit, left>>
Acquire(p) ==
    /\ ext[p].pc = "wait" /\ mutex \in {Free, Abandoned}
    /\ mutex' = p
    /\ Goto(p, "purge files")
    /\ UNCHANGED <<tables, up, reader, hit, left>>

\* PurgeUnmarked_, called before Extract() and after it: first the files.
PurgeFiles(p) ==
    /\ ext[p].pc = "purge files" /\ CanLock(p)
    /\ LET x == ArchiveIdx(ext[p].a) IN
        /\ files' = Without(files, Rows(x) \ Completed(x))
        /\ ext' = [ext EXCEPT ![p].pc = "purge rows", ![p].aidx = x]
    /\ UNCHANGED <<mutex, archives, sequence, entries, up, reader, hit, left>>

\* ... then the rows, ...
BadPurgeRows(p) ==
    /\ ext[p].pc = "purge rows"
    /\ Goto(p, "purge archive")
    /\ UNCHANGED <<mutex, tables, up, reader, hit, left>>
PurgeRows(p) ==
    /\ ext[p].pc = "purge rows"
    /\ LET x == ext[p].aidx IN entries' = Without(entries, Rows(x) \ Completed(x))
    /\ Goto(p, "purge archive")
    /\ UNCHANGED <<mutex, archives, sequence, files, up, reader, hit, left>>

\* ... and the row of the archive, if nothing is left of it.
PurgeArchive(p) ==
    /\ ext[p].pc = "purge archive"
    /\ archives' = PurgeUnreferencedWithAIdx(ext[p].aidx)
    /\ Goto(p, IF ext[p].extracted THEN "release" ELSE "append")
    /\ UNCHANGED <<mutex, sequence, entries, files, up, reader, hit, left>>

\* if(!ExistsArchive_(archive)) AddArchive_(archive)
AddUnlessThere(a) ==
    IF a \in Range(archives)
    THEN UNCHANGED <<archives, sequence>>
    ELSE archives' = With(archives, sequence, a) /\ sequence' = sequence + 1

\* The piece at hand, and the state after it.
Current(p) == <<ext[p].a, ext[p].i>>
Written(p) ==
    IF ext[p].piece < Pieces[ext[p].a][ext[p].i]
    THEN ext' = [ext EXCEPT ![p].pc = "append", ![p].piece = @ + 1]
    ELSE Goto(p, "mark")

\* Write() appends only what is not cached.
SkipPiece(p) ==
    /\ ext[p].pc = "append" /\ ext[p].i \in Item(ext[p].a) /\ IsCached(Current(p))
    /\ Written(p)
    /\ UNCHANGED <<mutex, tables, up, reader, hit, left>>

\* Append_: the archive gets a row, if it has none, ...
BadAppend_(p) ==
    /\ ext[p].pc = "append" /\ ext[p].i \in Item(ext[p].a) /\ CanLock(p)
    /\ ~IsCached(Current(p))
    /\ archives' = With(archives, sequence, ext[p].a)
    /\ sequence' = sequence + 1
    /\ Goto(p, "look up")
    /\ UNCHANGED <<mutex, entries, files, up, reader, hit, left>>
Append_(p) ==
    /\ ext[p].pc = "append" /\ ext[p].i \in Item(ext[p].a) /\ CanLock(p)
    /\ ~IsCached(Current(p))
    /\ AddUnlessThere(ext[p].a)
    /\ Goto(p, "look up")
    /\ UNCHANGED <<mutex, entries, files, up, reader, hit, left>>

\* ... which a start can take away before its number is read, and the
\* extractor learns how much must go.
LookUp(p) ==
    /\ ext[p].pc = "look up"
    /\ ext' = [ext EXCEPT ![p].pc = "room", ![p].aidx = ArchiveIdx(ext[p].a),
                          ![p].need = Reduction(GetSize + 1)]
    /\ UNCHANGED <<mutex, tables, up, reader, hit, left>>

\* ReduceSize_ picks an archive other than the one being written (any may be
\* the least recently used), ReduceSizeWithAIdx_ deletes files in the order
\* of the items until enough is gone ...
Evictable(p) == {x \in DOMAIN archives \ {ext[p].aidx} : Completed(x) # {}}
EvictedRows(x, size) ==
    {r \in Completed(x) :
        SizeOf({s \in Completed(x) : entries[s].item < entries[r].item}) < size}
EvictFiles(p) ==
    /\ ext[p].pc = "room" /\ ext[p].need > 0
    /\ \E x \in Evictable(p) :
        LET victims == EvictedRows(x, ext[p].need) IN
        /\ files' = Without(files, victims)
        /\ ext' = [ext EXCEPT ![p].pc = "evict rows", ![p].victims = victims]
        \* History: what these readers have found is going away.
        /\ reader' = [q \in Process |->
                        IF reader[q] # Idle /\ reader[q].seen \in victims
                        THEN [reader[q] EXCEPT !.gone = TRUE]
                        ELSE reader[q]]
    /\ UNCHANGED <<mutex, archives, sequence, entries, up, hit, left>>

\* ... then the rows, and learns how much is still to go, ...
Remaining(need, victims) == Max({0, need - SizeOf(victims)})
EvictRows(p) ==
    /\ ext[p].pc = "evict rows"
    /\ LET victims == ext[p].victims
           x == entries[CHOOSE r \in victims : TRUE].aidx
       IN
        /\ entries' = Without(entries, victims)
        /\ ext' = [ext EXCEPT ![p].pc = "evict archive", ![p].victims = {}, ![p].from = x,
                              ![p].need = Remaining(@, victims)]
    /\ UNCHANGED <<mutex, archives, sequence, files, up, reader, hit, left>>

\* ... and the row of that archive, if nothing is left of it.
EvictArchive(p) ==
    /\ ext[p].pc = "evict archive"
    /\ archives' = PurgeUnreferencedWithAIdx(ext[p].from)
    /\ ext' = [ext EXCEPT ![p].pc = "room", ![p].from = 0]
    /\ UNCHANGED <<mutex, sequence, entries, files, up, reader, hit, left>>

\* The second test of Append_, after ReduceSize_ ("Should not reach").  The
\* number of a new row is read after it: 0 if a start has taken the row away.
EnsureAgain(p) ==
    /\ ext[p].pc = "room" /\ (ext[p].need = 0 \/ Evictable(p) = {})
    /\ AddUnlessThere(ext[p].a)
    /\ Goto(p, IF ext[p].a \in Range(archives) THEN "add or append" ELSE "look up again")
    /\ UNCHANGED <<mutex, entries, files, up, reader, hit, left>>
LookUpAgain(p) ==
    /\ ext[p].pc = "look up again"
    /\ ext' = [ext EXCEPT ![p].pc = "add or append", ![p].aidx = ArchiveIdx(ext[p].a)]
    /\ UNCHANGED <<mutex, tables, up, reader, hit, left>>

\* AppendEntry_: only to a row this thread is filling; the file, ...
AppendEntry(p) ==
    /\ ext[p].pc = "add or append"
    /\ \E r \in Found(ext[p].aidx, ext[p].i) :
        IF entries[r].completed = p
        THEN /\ files' = With(files, r,
                              (IF r \in DOMAIN files THEN files[r] ELSE << >>)
                                \o <<<<Current(p), ext[p].piece>>>>)
             /\ Goto(p, "update size")
        ELSE Written(p) /\ UNCHANGED files
    /\ UNCHANGED <<mutex, archives, sequence, entries, up, reader, hit, left>>
\* ... then the row.
UpdateSize(p) ==
    /\ ext[p].pc = "update size"
    /\ \E r \in Found(ext[p].aidx, ext[p].i) :
        entries' = [entries EXCEPT ![r].size = @ + 1]
    /\ Written(p)
    /\ UNCHANGED <<mutex, archives, sequence, files, up, reader, hit, left>>

\* AddEntry_: the row, then a new file named after its rowid.
AddEntry(p) ==
    /\ ext[p].pc = "add or append"
    /\ Found(ext[p].aidx, ext[p].i) = {}
    /\ entries' = With(entries, NewRow,
                       [aidx |-> ext[p].aidx, item |-> ext[p].i,
                        completed |-> p, size |-> 1])
    /\ Goto(p, "write file")
    /\ UNCHANGED <<mutex, archives, sequence, files, up, reader, hit, left>>
WriteFile(p) ==
    /\ ext[p].pc = "write file"
    /\ \E r \in Found(ext[p].aidx, ext[p].i) :
        files' = With(files, r, <<<<Current(p), ext[p].piece>>>>)
    /\ Written(p)
    /\ UNCHANGED <<mutex, archives, sequence, entries, up, reader, hit, left>>

\* SetOperationResult at the end of an item.  When it is good, Cached finds
\* the entry, if the archive has a row, and marks it; ...
NextItem(p) == ext' = [ext EXCEPT ![p].pc = "append", ![p].piece = 1, ![p].i = @ + 1]
Mark(p) ==
    /\ ext[p].pc = "mark" /\ CanLock(p)
    /\ LET a == ext[p].a
           found == {r \in Found(ArchiveIdx(a), ext[p].i) : a \in Range(archives)}
       IN entries' = [r \in DOMAIN entries |->
                        IF r \in found THEN [entries[r] EXCEPT !.completed = Done]
                        ELSE entries[r]]
    /\ NextItem(p)
    /\ UNCHANGED <<mutex, archives, sequence, files, up, reader, hit, left>>

\* ... when it is an error, whatever has been written of the item, the entry
\* stays unfinished, and the decoder goes on with the next item.
FailItem(p) ==
    /\ ext[p].pc \in {"append", "mark"} /\ ext[p].i \in Item(ext[p].a)
    /\ NextItem(p)
    /\ UNCHANGED <<mutex, tables, up, reader, hit, left>>

\* Extract() returns: all is written, or the decoder stops before a piece.
ExtractReturns(p) ==
    /\ ext[p].pc = "append"
    /\ ext' = [ext EXCEPT ![p].pc = "purge files", ![p].extracted = TRUE]
    /\ UNCHANGED <<mutex, tables, up, reader, hit, left>>

\* Extractor::Cleanup
Release(p) ==
    /\ ext[p].pc = "release"
    /\ mutex' = Free
    /\ ext' = [ext EXCEPT ![p] = Idle]
    /\ UNCHANGED <<tables, up, reader, hit, left>>

Extractor(p) ==
    \/ Acquire(p) \/ PurgeFiles(p) \/ PurgeRows(p) \/ PurgeArchive(p)
    \/ SkipPiece(p) \/ Append_(p) \/ LookUp(p)
    \/ EvictFiles(p) \/ EvictRows(p) \/ EvictArchive(p)
    \/ EnsureAgain(p) \/ LookUpAgain(p)
    \/ AppendEntry(p) \/ UpdateSize(p) \/ AddEntry(p) \/ WriteFile(p)
    \/ Mark(p) \/ FailItem(p) \/ ExtractReturns(p) \/ Release(p)

----------------------------------------------------------------------------
(* A thread of the host that finds its item cached and reads it.           *)

\* Rows of which an eviction has already deleted the files.
Leaving == UNION {ext[q].victims : q \in {q \in Process : ext[q] # Idle}}

Check(p, k) ==
    /\ p \in Viewer \cap up /\ reader[p] = Idle /\ ~Locked(p)
    /\ \E r \in Finished(k) :
        reader' = [reader EXCEPT
                    ![p] = [pc |-> "select", key |-> k, seen |-> r, gone |-> r \in Leaving,
                            row |-> 0, size |-> 0, got |-> << >>]]
    /\ UNCHANGED <<mutex, tables, up, ext, hit, left>>

\* GetContent_, OutputContent_: the row, if it is still there, ...
Select(p) ==
    /\ reader[p].pc = "select" /\ ~Locked(p)
    /\ LET found == Found(ArchiveIdx(reader[p].key[1]), reader[p].key[2]) IN
        reader' = [reader EXCEPT
                    ![p].pc = "map",
                    ![p].row = IF found = {} THEN 0 ELSE CHOOSE r \in found : TRUE,
                    ![p].size = IF found = {} THEN 0
                                ELSE entries[CHOOSE r \in found : TRUE].size]
    /\ UNCHANGED <<mutex, tables, up, ext, hit, left>>

\* ... and then the file of that name, whoever has written it.  A file that
\* is missing or too short is a fault of the host.
Map(p) ==
    /\ reader[p].pc = "map"
    /\ LET r == reader[p].row
           n == reader[p].size
           there == r \in DOMAIN files /\ Len(files[r]) >= n
       IN IF n = 0 \/ there
          THEN /\ reader' = [reader EXCEPT
                                ![p].pc = "served",
                                ![p].got = IF n = 0 THEN << >> ELSE SubSeq(files[r], 1, n)]
          ELSE reader' = [reader EXCEPT ![p].pc = "served"]
    /\ UNCHANGED <<mutex, tables, up, ext, hit, left>>

Served(p) ==
    /\ reader[p].pc = "served"
    /\ reader' = [reader EXCEPT ![p] = Idle]
    /\ UNCHANGED <<mutex, tables, up, ext, hit, left>>

Reader(p) == (\E k \in Key : Check(p, k)) \/ Select(p) \/ Map(p) \/ Served(p)

----------------------------------------------------------------------------
(* What happens outside the mutex. *)

\* SetCacheFolder of a new process: CheckDB_ ends with PurgeUnreferenced_.
\* It takes the row of an archive whose first entry is about to be written:
\* a writer past the second test of Append_ does not add it again, and files
\* the piece under a number that is gone, or under 0.
Start(p) ==
    /\ p \notin up /\ Spend("events")
    /\ up' = up \cup {p}
    /\ LET dropped == DOMAIN archives \ Referenced IN
        /\ archives' = Without(archives, dropped)
        /\ hit' = hit \cup {ext[q].a : q \in {q \in Process :
                        /\ ext[q].pc \in {"look up again", "add or append"}
                        /\ ArchiveIdx(ext[q].a) \in dropped}}
    /\ UNCHANGED <<mutex, sequence, entries, files, ext, reader>>

\* The host ends or dies; its threads stop where they are.  Rows whose files
\* are gone stay if it was evicting them.
Crash(p) ==
    /\ p \in up
    /\ up' = up \ {p}
    /\ mutex' = IF mutex = p THEN Abandoned ELSE mutex
    /\ hit' = IF ext[p].pc = "evict rows"
              THEN hit \cup {archives[entries[r].aidx] : r \in ext[p].victims}
              ELSE hit
    /\ ext' = [ext EXCEPT ![p] = Idle]
    /\ reader' = [reader EXCEPT ![p] = Idle]
    /\ UNCHANGED <<tables, left>>

\* The Clear button.  The database cannot be deleted while another process
\* has it open, but its files can.
Clear(p) ==
    /\ p \in up /\ CanLock(p) /\ Spend("events")
    /\ files' = << >>
    /\ IF up = {p}
       THEN /\ archives' = << >> /\ sequence' = 1 /\ entries' = << >>
            /\ hit' = IF mutex = p THEN {ext[p].a} ELSE {}
            /\ reader' = [reader EXCEPT ![p] =
                            IF @ = Idle THEN @ ELSE [@ EXCEPT !.gone = TRUE]]
       ELSE /\ hit' = hit \cup {archives[x] : x \in Referenced \cap DOMAIN archives}
            /\ UNCHANGED <<archives, sequence, entries, reader>>
    /\ UNCHANGED <<mutex, up, ext>>

Next ==
    \E p \in Process :
        \/ Extractor(p)
        \/ Reader(p)
        \/ Start(p)
        \/ Crash(p)
        \/ Clear(p)
        \/ \E a \in Archive : Request(p, a)

Spec == Init /\ [][Next]_vars

\* A thread of a running host goes on, and gets a mutex that is there for it
\* again and again.
Fairness ==
    /\ \A p \in Process : SF_vars(Extractor(p))
    /\ \A p \in Viewer : WF_vars(Reader(p))
FairSpec == Spec /\ Fairness

----------------------------------------------------------------------------
(* Properties. *)

ThreadState ==
    [pc : {"wait", "purge files", "purge rows", "purge archive", "append", "look up",
           "room", "evict rows", "evict archive", "look up again", "add or append",
           "update size", "write file", "mark", "release"},
     a : Archive, aidx : Nat, from : Nat, victims : SUBSET (DOMAIN entries), need : Nat,
     i : Nat \ {0}, piece : Nat \ {0}, extracted : BOOLEAN]

\* Type correctness, with the keys of the two tables: an archive has one row,
\* an item of it one entry, and only the owner of the mutex is at work.
TypeOK ==
    /\ mutex \in Process \cup {Free, Abandoned}
    /\ up \subseteq Process /\ hit \subseteq Archive
    /\ DOMAIN archives \subseteq 1..(sequence - 1) /\ IsInjective(archives)
    /\ \A r \in DOMAIN entries :
        /\ entries[r] \in [aidx : 0..(sequence - 1), item : Nat \ {0},
                           completed : Process \cup {Done}, size : Nat \ {0}]
        /\ Found(entries[r].aidx, entries[r].item) = {r}
    /\ \A p \in Process :
        /\ ext[p] = Idle \/ ext[p] \in ThreadState
        /\ ext[p].pc \notin {"idle", "wait"} => mutex = p
        /\ reader[p] # Idle => p \in up

\* Whatever processes start, die or clear the cache: an entry that will be
\* served has all pieces of its item in order (but those going away in the
\* eviction of this moment), unless one of three accidents outside the mutex
\* has hit its archive (hit): a start that takes the row of an archive from
\* under the writer, a death between the two halves of an eviction, and
\* Clear.
ServedWhole ==
    \A x \in DOMAIN archives : archives[x] \notin hit =>
        \A r \in Completed(x) \ Leaving :
            /\ r \in DOMAIN files
            /\ files[r] = Full(<<archives[x], entries[r].item>>)
            /\ entries[r].size = Len(files[r])

\* A reader that found its item cached gets that item, although it looks up
\* the row and opens the file in two steps and rowids are used again, unless
\* the item was evicted in between.
ReaderGetsItsItem ==
    \A p \in Process :
        (/\ reader[p].pc = "served"
         /\ ~reader[p].gone
         /\ reader[p].key[1] \notin hit) => reader[p].got = Full(reader[p].key)

\* An extractor that waits for its turn gets it and ends, although the owner
\* of the mutex may die at any step.
EveryExtractorEnds ==
    \A p \in Process : []<>(ext[p].pc = "idle")
=============================================================================
