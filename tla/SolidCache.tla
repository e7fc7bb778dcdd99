----------------------------- MODULE SolidCache -----------------------------
(***************************************************************************)
(* The solid-archive cache of one process: the extractor thread that fills *)
(* it (Extractor, CExtractCallbackImp, CMemOutStream), the two stores it   *)
(* fills (SolidCacheMemory, SolidCacheDisk) and the callers of GetFile     *)
(* that read them (GetFileExImp_Cached, GetFileExImp_Caching).             *)
(*                                                                         *)
(* One action is one section under SolidCache::m_sm, or one access made    *)
(* without it.  A long section of the extractor (Append_, ReduceSize_) is  *)
(* several actions during which "Locked" keeps everyone else out.          *)
(***************************************************************************)
EXTENDS CacheData

CONSTANTS
    Caller,       \* threads of the host program that call GetFile
    Faults        \* {"clear", "crash"}: what else may happen

ASSUME ArchiveAssumption == Archive # {}

VARIABLES
    mem,      \* SolidCacheMemory::m_mTable, the entries
    table,    \* its keys
    access,   \* the keys of SolidCacheMemory::m_mAccess
    disk,     \* the table "entry" and the .tmp files
    rows,     \* the archives that have a row in the table "archive"
    thread,   \* the extractor thread of each archive
    ext,      \* the extractor that holds the named mutex, if any
    need,     \* what memory still has to lose, in SolidCacheMemory::ReduceSize_
    dneed,    \* what the disk still has to lose, in SolidCacheDisk::ReduceSize_
    call,     \* the GetFile call of each caller
    clearing  \* the dialog is between the two halves of Clear

stores == <<mem, table, access, disk, rows>>
amounts == <<need, dneed>>
vars == <<mem, table, access, disk, rows, thread, ext, need, dneed, call, clearing>>

AnArchive == CHOOSE a \in Archive : TRUE

\* a, i, c: archive, item and next piece being extracted; last: this is the
\* purge at the end.  While something is written to disk, v, j: the entry,
\* direct: it comes from the decoder and not from memory, w: the archive
\* that is evicted from to make room.
Idle == [pc |-> "idle", a |-> AnArchive, i |-> 0, c |-> 0, tid |-> 0,
         last |-> FALSE, v |-> AnArchive, j |-> 0, direct |-> FALSE,
         w |-> AnArchive]

LockedPC == {"reduce", "spill", "evict", "deleteRows", "store"}
ExtPC == {"idle", "purgeUnmarked", "purgeUnreferenced", "purgeDisk",
          "stream", "write", "lookup", "appendMem", "measure", "callReduce",
          "appendDisk", "result", "markMem", "markDisk", "notify", "cleanup"}
         \cup LockedPC

\* A caller that is doing nothing.
NoCall == [pc |-> "idle", at |-> "first", a |-> AnArchive, i |-> 0,
           got |-> << >>, signaled |-> FALSE, waited |-> FALSE, res |-> "none"]

Garbage == << 0 >>   \* what is read through a dangling reference

\* The extractor holds m_sm exclusively.
Locked == ext.pc \in LockedPC

Init ==
    /\ mem = NoMem /\ table = {} /\ access = {}
    /\ disk = NoDisk /\ rows = {}
    /\ thread = [a \in Archive |-> "none"]
    /\ ext = Idle /\ need = 0 /\ dneed = 0
    /\ call = [r \in Caller |-> NoCall]
    /\ clearing = FALSE

----------------------------------------------------------------------------
(* The extractor thread: Extractor::operator()                             *)

\* WaitForSingleObject on the named mutex; GetNumberOfItems succeeds.
ExtStart(a) ==
    /\ ext.pc = "idle" /\ thread[a] = "ready"
    /\ thread' = [thread EXCEPT ![a] = "running"]
    /\ \E t \in Tid :
          ext' = [Idle EXCEPT !.pc = "purgeUnmarked", !.a = a, !.tid = t,
                              !.v = a, !.w = a]
    /\ UNCHANGED <<stores, call, amounts, clearing>>

\* GetNumberOfItems fails: the thread returns at once.
ExtNoItems(a) ==
    /\ ext.pc = "idle" /\ thread[a] = "ready"
    /\ thread' = [thread EXCEPT ![a] = "running"]
    /\ ext' = [Idle EXCEPT !.pc = "cleanup", !.a = a]
    /\ UNCHANGED <<stores, call, amounts, clearing>>

\* SolidCache::PurgeUnmarked, three sections.
PurgeUnmarkedMem ==
    /\ ext.pc = "purgeUnmarked"
    /\ table' = table \cup {ext.a}
    /\ access' = access \cup {ext.a}
    /\ mem' = MemPurged(mem, ext.a)
    /\ ext' = [ext EXCEPT !.pc = "purgeUnreferenced"]
    /\ UNCHANGED <<disk, rows, thread, call, amounts, clearing>>

PurgeUnreferencedMem ==
    /\ ext.pc = "purgeUnreferenced"
    /\ table' = {a \in table : Present(mem, a) # {}}
    /\ ext' = [ext EXCEPT !.pc = "purgeDisk"]
    /\ UNCHANGED <<mem, access, disk, rows, thread, call, amounts, clearing>>

PurgeUnmarkedDisk ==
    /\ ext.pc = "purgeDisk"
    /\ disk' = DiskPurged(disk, ext.a)
    /\ rows' = PurgeUnreferencedWithAIdx(disk', rows, ext.a)
    /\ ext' = IF ext.last
              THEN [ext EXCEPT !.pc = "cleanup"]
              ELSE [ext EXCEPT !.pc = "stream", !.i = 1]
    /\ UNCHANGED <<mem, table, access, thread, call, amounts, clearing>>

\* GetStream for the next item.
GetStream ==
    /\ ext.pc = "stream" /\ ext.i \in Item
    /\ ext' = [ext EXCEPT !.pc = "write", !.c = 1]
    /\ UNCHANGED <<stores, thread, call, amounts, clearing>>

\* Extract() returns: all items done, E_ABORT after a cancel in the progress
\* dialog, or an error of the decoder.
ExtractReturns ==
    /\ ext.pc = "stream"
    /\ ext' = [ext EXCEPT !.pc = "purgeUnmarked", !.last = TRUE, !.i = 0, !.c = 0]
    /\ UNCHANGED <<stores, thread, call, amounts, clearing>>

\* SetOperationResult with an error: the item stays unmarked.
ItemError ==
    /\ ext.pc = "write"
    /\ ext' = [ext EXCEPT !.pc = "stream", !.i = @ + 1, !.c = 0]
    /\ UNCHANGED <<stores, thread, call, amounts, clearing>>

\* CMemOutStream::Write, up to the choice of the store in SolidCache::Append.
Write ==
    /\ ext.pc = "write" /\ ext.c <= Pieces[ext.a][ext.i]
    /\ ext' =
         IF Cached(mem, disk, ext.a, ext.i) THEN [ext EXCEPT !.c = @ + 1]
         ELSE IF GoesToDisk(disk, ext.a, ext.i)
         THEN [ext EXCEPT !.pc = "appendDisk"]
         ELSE [ext EXCEPT !.pc = "lookup"]
    /\ UNCHANGED <<stores, thread, call, amounts, clearing>>

BadItemOK ==
    /\ ext.pc = "write" /\ ext.c >= Pieces[ext.a][ext.i]
    /\ ext' = [ext EXCEPT !.pc = "result"]
    /\ UNCHANGED <<stores, thread, call, amounts, clearing>>
ItemOK ==
    /\ ext.pc = "write" /\ ext.c > Pieces[ext.a][ext.i]
    /\ ext' = [ext EXCEPT !.pc = "result"]
    /\ UNCHANGED <<stores, thread, call, amounts, clearing>>

\* The next piece; forget everything about the purge that may have happened.
NextPiece ==
    ext' = [ext EXCEPT !.pc = "write", !.c = @ + 1, !.v = ext.a, !.j = 0,
                       !.direct = FALSE, !.w = ext.a]

\* m_scm.GetFileCache(sArchive), without the lock ...
AppendLookup ==
    /\ ext.pc = "lookup"
    /\ table' = table \cup {ext.a}
    /\ access' = access \cup {ext.a}
    /\ ext' = [ext EXCEPT !.pc = "appendMem"]
    /\ UNCHANGED <<mem, disk, rows, thread, call, amounts, clearing>>

\* ... and Append_ through the reference it returned.  If the node is gone
\* the piece goes to freed memory.
AppendMem ==
    /\ ext.pc = "appendMem"
    /\ LET e == IF Exists(mem, ext.a, ext.i) THEN mem[ext.a][ext.i] ELSE NewEntry
       IN  mem' = IF ext.a \in table
                  THEN [mem EXCEPT ![ext.a][ext.i] =
                          [e EXCEPT !.buf = Append(@, ext.c)]]
                  ELSE mem
    /\ ext' = [ext EXCEPT !.pc = "measure"]
    /\ UNCHANGED <<table, access, disk, rows, thread, call, amounts, clearing>>

\* GetSize() > GetMaxMemoryInBytes(), and the argument of ReduceSize.
Measure ==
    /\ ext.pc = "measure"
    /\ IF OverLimit(mem)
       THEN /\ ext' = [ext EXCEPT !.pc = "callReduce"]
            /\ need' = MemReduction(mem)
       ELSE NextPiece /\ UNCHANGED need
    /\ UNCHANGED <<stores, thread, dneed, call, clearing>>

----------------------------------------------------------------------------
(* SolidCacheMemory::ReduceSize_, one section under the exclusive lock.    *)

CallReduce ==
    /\ ext.pc = "callReduce"
    /\ ext' = [ext EXCEPT !.pc = "reduce"]
    /\ UNCHANGED <<stores, thread, call, amounts, clearing>>

ReduceVictim(v) ==
    /\ ext.pc = "reduce" /\ need > 0 /\ table # {}
    /\ v \in LRUArchives(access, ext.a)
    /\ IF Present(mem, v) # {}
       THEN /\ ext' = [ext EXCEPT !.pc = "spill", !.v = v]
            /\ UNCHANGED <<table, access>>
       ELSE /\ table' = table \ {v}
            /\ access' = access \ {v}
            /\ UNCHANGED ext
    /\ UNCHANGED <<mem, disk, rows, thread, call, amounts, clearing>>

\* The loop body does nothing when the table is empty.
ReduceSpin ==
    /\ ext.pc = "reduce" /\ need > 0 /\ table = {}
    /\ UNCHANGED vars

ReduceEnd ==
    /\ ext.pc = "reduce" /\ need = 0
    /\ NextPiece
    /\ UNCHANGED <<stores, thread, call, amounts, clearing>>

\* SolidFileCacheMemory::ReduceSize_: the loop, and the beginning of the
\* SolidCacheDisk::Append_ its callback calls.
SpillFirst ==
    /\ ext.pc = "spill"
    /\ IF need > 0 /\ Present(mem, ext.v) # {}
       THEN LET j == FirstIndex(mem, ext.v) IN
            /\ rows' = rows \cup {ext.v}
            /\ ext' = [ext EXCEPT !.pc = "evict", !.j = j]
            /\ dneed' = DiskReduction(disk, Len(mem[ext.v][j].buf))
       ELSE /\ ext' = [ext EXCEPT !.pc = "reduce", !.v = ext.a, !.j = 0]
            /\ UNCHANGED <<rows, dneed>>
    /\ UNCHANGED <<mem, table, access, disk, thread, need, call, clearing>>

----------------------------------------------------------------------------
(* SolidCacheDisk::Append_, called by SolidCache::Append or by a spill.    *)

AppendDisk ==
    /\ ext.pc = "appendDisk"
    /\ rows' = rows \cup {ext.a}
    /\ ext' = [ext EXCEPT !.pc = "evict", !.j = ext.i, !.direct = TRUE]
    /\ dneed' = DiskReduction(disk, 1)
    /\ UNCHANGED <<mem, table, access, disk, thread, need, call, clearing>>

\* SolidCacheDisk::ReduceSize_ picks an archive; ReduceSizeWithAIdx_ deletes
\* the files ...
EvictFiles(w) ==
    /\ ext.pc = "evict" /\ dneed > 0 /\ DiskSize(disk) # 0
    /\ w \in Evictable(disk, rows, ext.v)
    /\ disk' = [disk EXCEPT ![w] =
                  [i \in Item |-> IF i \in EvictedRows(disk, w, dneed)
                                  THEN [disk[w][i] EXCEPT !.data = << >>]
                                  ELSE disk[w][i]]]
    /\ ext' = [ext EXCEPT !.pc = "deleteRows", !.w = w]
    /\ UNCHANGED <<mem, table, access, rows, thread, call, amounts, clearing>>

\* ... and then the rows.
EvictRows ==
    /\ ext.pc = "deleteRows"
    /\ LET E == EvictedRows(disk, ext.w, dneed)
           freed == SizeOfRows(disk, ext.w, E)
       IN  /\ disk' = [disk EXCEPT ![ext.w] =
                         [i \in Item |-> IF i \in E THEN Absent ELSE disk[ext.w][i]]]
           /\ rows' = PurgeUnreferencedWithAIdx(disk', rows, ext.w)
           /\ dneed' = IF freed < dneed THEN dneed - freed ELSE 0
    /\ ext' = [ext EXCEPT !.pc = "evict", !.w = ext.a]
    /\ UNCHANGED <<mem, table, access, thread, need, call, clearing>>

EvictEnd ==
    /\ ext.pc = "evict"
    /\ \/ dneed = 0
       \/ DiskSize(disk) = 0
       \/ Evictable(disk, rows, ext.v) = {}
    /\ ext' = [ext EXCEPT !.pc = "store"]
    /\ dneed' = 0
    /\ UNCHANGED <<stores, thread, need, call, clearing>>

\* A piece written straight to disk.
StorePiece ==
    /\ ext.pc = "store" /\ ext.direct
    /\ disk' = Stored(disk, ext.a, ext.i, ext.tid, << ext.c >>)
    /\ rows' = rows \cup {ext.a}
    /\ NextPiece
    /\ UNCHANGED <<mem, table, access, thread, call, amounts, clearing>>

\* ReduceSizeCallback: the entry is stored, marked if it was marked in
\* memory, and erased there.
StoreSpilled ==
    /\ ext.pc = "store" /\ ~ext.direct
    /\ LET e == mem[ext.v][ext.j]
           d == Stored(disk, ext.v, ext.j, ext.tid, e.buf)
       IN  /\ disk' = IF e.cached THEN Marked(d, ext.v, ext.j) ELSE d
           /\ need' = IF need < Len(e.buf) THEN 0 ELSE need - Len(e.buf)
    /\ ext' = [ext EXCEPT !.pc = "spill", !.j = 0]
    /\ mem' = [mem EXCEPT ![ext.v][ext.j] = Absent]
    /\ rows' = rows \cup {ext.v}
    /\ UNCHANGED <<table, access, thread, dneed, call, clearing>>

----------------------------------------------------------------------------
(* SetOperationResult(kOK): SolidCache::Cached                             *)

Result ==
    /\ ext.pc = "result"
    /\ ext' = [ext EXCEPT !.pc =
                 IF Exists(mem, ext.a, ext.i) THEN "markMem"
                 ELSE IF Exists(disk, ext.a, ext.i) THEN "markDisk"
                 ELSE "notify"]
    /\ UNCHANGED <<stores, thread, call, amounts, clearing>>

MarkMem ==
    /\ ext.pc = "markMem"
    /\ table' = table \cup {ext.a}
    /\ access' = access \cup {ext.a}
    /\ LET e == IF Exists(mem, ext.a, ext.i) THEN mem[ext.a][ext.i] ELSE NewEntry
       IN  mem' = [mem EXCEPT ![ext.a][ext.i] = [e EXCEPT !.cached = TRUE]]
    /\ ext' = [ext EXCEPT !.pc = "notify"]
    /\ UNCHANGED <<disk, rows, thread, call, amounts, clearing>>

MarkDisk ==
    /\ ext.pc = "markDisk"
    /\ disk' = Marked(disk, ext.a, ext.i)
    /\ ext' = [ext EXCEPT !.pc = "notify"]
    /\ UNCHANGED <<mem, table, access, rows, thread, call, amounts, clearing>>

\* Wake the callers of archive a that wait for an item of S.
Signal(a, S) ==
    call' = [r \in Caller |->
               IF call[r].pc = "wait" /\ call[r].a = a /\ call[r].i \in S
               THEN [call[r] EXCEPT !.signaled = TRUE] ELSE call[r]]

\* NotifyCondVar for the item.
Notify ==
    /\ ext.pc = "notify"
    /\ Signal(ext.a, {ext.i})
    /\ ext' = [ext EXCEPT !.pc = "stream", !.i = @ + 1, !.c = 0]
    /\ UNCHANGED <<stores, thread, amounts, clearing>>

\* Extractor::Cleanup: wake everyone who waits for the archive and release
\* the named mutex; the thread itself ends a little later.
Cleanup ==
    /\ ext.pc = "cleanup"
    /\ Signal(ext.a, Item)
    /\ thread' = [thread EXCEPT ![ext.a] = "exiting"]
    /\ ext' = Idle
    /\ UNCHANGED <<stores, amounts, clearing>>

\* The thread has ended and Queue::CleanupAll has joined it.
ThreadExit(a) ==
    /\ thread[a] = "exiting"
    /\ thread' = [thread EXCEPT ![a] = "none"]
    /\ UNCHANGED <<stores, ext, call, amounts, clearing>>

Extractor ==
    \/ \E a \in Archive : ExtStart(a) \/ ExtNoItems(a)
    \/ PurgeUnmarkedMem \/ PurgeUnreferencedMem \/ PurgeUnmarkedDisk
    \/ GetStream \/ ExtractReturns \/ ItemError \/ Write \/ ItemOK
    \/ AppendLookup \/ AppendMem \/ Measure
    \/ CallReduce \/ (\E v \in Archive : ReduceVictim(v)) \/ ReduceSpin \/ ReduceEnd
    \/ SpillFirst \/ StoreSpilled
    \/ AppendDisk \/ (\E w \in Archive : EvictFiles(w)) \/ EvictRows \/ EvictEnd
    \/ StorePiece
    \/ Result \/ MarkMem \/ MarkDisk \/ Notify \/ Cleanup
    \/ \E a \in Archive : ThreadExit(a)

----------------------------------------------------------------------------
(* A caller: GetFileEx for a solid archive.  "at" says which IsCached it   *)
(* is in: the "first" one (GetFileEx), the one "again" after Extract, the  *)
(* "content" one inside GetContent, or the "last" one before returning.    *)

Set(r, c) == call' = [call EXCEPT ![r] = c]
Return(r, res) == Set(r, [call[r] EXCEPT !.pc = "done", !.res = res])

\* GetContent is over, with what was read of it.
ContentRead(r, got) ==
    LET c == [call[r] EXCEPT !.got = got] IN
    IF c.waited
    THEN Set(r, [c EXCEPT !.pc = "peekMem", !.at = "last"])
    ELSE Set(r, [c EXCEPT !.pc = "done", !.res = "ok"])

Request(r, a, i) ==
    /\ call[r].pc = "idle"
    /\ Set(r, [NoCall EXCEPT !.pc = "peekMem", !.a = a, !.i = i])
    /\ UNCHANGED <<stores, thread, ext, amounts, clearing>>

\* What a positive answer of IsCached leads to.
Hit(r, store) ==
    CASE call[r].at = "content" -> Set(r, [call[r] EXCEPT !.pc = store])
      [] call[r].at = "last"    -> Return(r, "ok")
      [] OTHER -> Set(r, [call[r] EXCEPT !.pc = "peekMem", !.at = "content"])

\* And a negative one; in GetContent that is the branch "Not reached".
Miss(r) ==
    CASE call[r].at = "content" -> ContentRead(r, << >>)
      [] call[r].at = "last"    -> Return(r, "error")
      [] call[r].at = "again"   -> Set(r, [call[r] EXCEPT !.pc = "peekMem", !.at = "last"])
      [] OTHER -> Set(r, [call[r] EXCEPT !.pc = "extract"])

PeekMem(r) ==
    /\ call[r].pc = "peekMem" /\ ~Locked
    /\ IF MemCached(mem, call[r].a, call[r].i)
       THEN Hit(r, "getFileCache")
       ELSE Set(r, [call[r] EXCEPT !.pc = "peekDisk"])
    /\ UNCHANGED <<stores, thread, ext, amounts, clearing>>

PeekDisk(r) ==
    /\ call[r].pc = "peekDisk" /\ ~Locked
    /\ IF DiskCached(disk, call[r].a, call[r].i) THEN Hit(r, "readDisk") ELSE Miss(r)
    /\ UNCHANGED <<stores, thread, ext, amounts, clearing>>

\* m_scm.GetFileCache() const, without the lock: throws if the key is gone.
GetFileCache(r) ==
    /\ call[r].pc = "getFileCache"
    /\ IF call[r].a \in table \cap access
       THEN Set(r, [call[r] EXCEPT !.pc = "readMem"])
       ELSE Return(r, "exception")
    /\ UNCHANGED <<stores, thread, ext, amounts, clearing>>

\* SolidFileCacheMemory::GetContent_ under a shared lock.  m_cache[index]
\* inserts an empty entry when the item has left in the meantime.
ReadMem(r) ==
    LET a == call[r].a  i == call[r].i IN
    /\ call[r].pc = "readMem" /\ ~Locked
    /\ IF a \notin table
       THEN ContentRead(r, Garbage) /\ UNCHANGED mem
       ELSE IF Exists(mem, a, i)
       THEN ContentRead(r, mem[a][i].buf) /\ UNCHANGED mem
       ELSE /\ ContentRead(r, << >>)
            /\ mem' = [mem EXCEPT ![a][i] = NewEntry]
    /\ UNCHANGED <<table, access, disk, rows, thread, ext, amounts, clearing>>

\* SolidCacheDisk::GetContent_ under a shared lock.  No row: nothing is
\* copied.  A row without its file: the copy from a null view faults.
ReadDisk(r) ==
    LET a == call[r].a  i == call[r].i IN
    /\ call[r].pc = "readDisk" /\ ~Locked
    /\ IF ~Exists(disk, a, i) THEN ContentRead(r, << >>)
       ELSE IF disk[a][i].size > 0 /\ disk[a][i].data = << >>
       THEN Return(r, "exception")
       ELSE ContentRead(r, disk[a][i].data)
    /\ UNCHANGED <<stores, thread, ext, amounts, clearing>>

\* SolidFileCache::Extract up to its wait.
Extract(r) ==
    LET a == call[r].a  i == call[r].i IN
    /\ call[r].pc = "extract" /\ ~Locked
    /\ IF Cached(mem, disk, a, i)
       THEN /\ Set(r, [call[r] EXCEPT !.pc = "peekMem", !.at = "again", !.waited = TRUE])
            /\ UNCHANGED thread
       ELSE /\ Set(r, [call[r] EXCEPT !.pc = "wait", !.waited = TRUE])
            /\ thread' = [thread EXCEPT ![a] = IF @ = "none" THEN "ready" ELSE @]
    /\ UNCHANGED <<stores, ext, amounts, clearing>>

\* The wait ends: signaled, or cached, or nobody is extracting any more.
BadTimeout(r) ==
    /\ call[r].pc = "wait" /\ ~Locked
    /\ Set(r, [call[r] EXCEPT !.pc = "peekMem", !.at = "again", !.signaled = FALSE])
    /\ UNCHANGED <<stores, thread, ext, amounts, clearing>>
BadWaitEnds(r) ==
    /\ call[r].pc = "wait" /\ ~Locked
    /\ call[r].signaled \/ Cached(mem, disk, call[r].a, call[r].i)
    /\ Set(r, [call[r] EXCEPT !.pc = "peekMem", !.at = "again", !.signaled = FALSE])
    /\ UNCHANGED <<stores, thread, ext, amounts, clearing>>
WaitEnds(r) ==
    LET a == call[r].a  i == call[r].i IN
    /\ call[r].pc = "wait" /\ ~Locked
    /\ \/ call[r].signaled
       \/ Cached(mem, disk, a, i)
       \/ thread[a] = "none"
    /\ Set(r, [call[r] EXCEPT !.pc = "peekMem", !.at = "again", !.signaled = FALSE])
    /\ UNCHANGED <<stores, thread, ext, amounts, clearing>>

\* GetFile has returned to the host.
Returned(r) ==
    /\ call[r].pc = "done"
    /\ Set(r, NoCall)
    /\ UNCHANGED <<stores, thread, ext, amounts, clearing>>

CallerStep(r) ==
    \/ PeekMem(r) \/ PeekDisk(r) \/ GetFileCache(r) \/ ReadMem(r) \/ ReadDisk(r)
    \/ Extract(r) \/ WaitEnds(r) \/ Returned(r)

----------------------------------------------------------------------------
(* The "Cache clear..." button: SolidCache::Clear, two sections.           *)

ClearMem ==
    /\ "clear" \in Faults /\ ~clearing /\ ~Locked
    /\ mem' = NoMem /\ table' = {} /\ access' = {}
    /\ clearing' = TRUE
    /\ UNCHANGED <<disk, rows, thread, ext, call, amounts>>

ClearDisk ==
    /\ clearing /\ ~Locked
    /\ disk' = NoDisk /\ rows' = {}
    /\ clearing' = FALSE
    /\ UNCHANGED <<mem, table, access, thread, ext, call, amounts>>

\* The host process is killed and started again: memory and threads are
\* gone, the database and the files are as they were; SetCacheFolder ->
\* CheckDB_ drops the archives without entries.
Crash ==
    /\ "crash" \in Faults
    /\ mem' = NoMem /\ table' = {} /\ access' = {}
    /\ rows' = {a \in rows : Present(disk, a) # {}}
    /\ thread' = [a \in Archive |-> "none"]
    /\ ext' = Idle /\ need' = 0 /\ dneed' = 0
    /\ call' = [r \in Caller |-> NoCall]
    /\ clearing' = FALSE
    /\ UNCHANGED disk

Next ==
    \/ Extractor
    \/ \E r \in Caller : CallerStep(r)
    \/ \E r \in Caller, a \in Archive, i \in Item : Request(r, a, i)
    \/ ClearMem \/ ClearDisk \/ Crash

Spec == Init /\ [][Next]_vars

\* Threads run: the extractor goes on, an ended thread is joined, a caller
\* goes on.  Nothing obliges the host to call or the user to clear.
Fairness ==
    /\ WF_vars(Extractor)
    /\ \A a \in Archive : WF_vars(ThreadExit(a))
    /\ \A r \in Caller : WF_vars(CallerStep(r))
    /\ WF_vars(ClearDisk)

FairSpec == Spec /\ Fairness
=============================================================================
