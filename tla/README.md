# A verification project for ax7z_s.spi

ax7z_s.spi is a Susie plug-in: a Windows DLL through which an image viewer lists
and extracts archives with the help of 7z.dll.  An item of a *solid* archive can
only be reached by decoding everything before it, so the plug-in extracts the whole
archive once, in a background thread, into a cache in memory and on disk, and
answers the viewer's `GetFile` calls from the cache as the items appear.  That
cache, its threads and its failures are what this project is about.  The paths
below abbreviate `src/7z/7zip/Bundles/ax7z/` to `ax7z/`.

## Inventory

| Part | Code | State it keeps | Operations | Talks to | Hard part | Correct when |
|---|---|---|---|---|---|---|
| Solid cache facade | `ax7z/SolidCache.h:583-755`, `SolidCache.cpp:7-32` | the two stores, the lock `m_sm`, the queue | Append, Cached, IsCached, GetContent, OutputContent, PurgeUnmarked, Clear | both stores, the queue | each call is several lock sections | a successful read delivers the item; no piece is lost or doubled |
| Memory cache | `SolidCache.h:222-489`, `SolidCache.cpp:34-117` | `m_mTable`, `m_mAccess` | Append, Cached, Peek, GetContent, ReduceSize, PurgeUnmarked, PurgeUnreferenced, Clear | disk cache (spilling by callback) | unlocked look-ups, insertion by reading, unsigned sizes | stays within its limit, every purge ends |
| Disk cache | `SolidCache.h:60-220`, `SolidCacheDisk.cpp` | tables `archive` and `entry`, one `.tmp` file per entry | the same, and SetCacheFolder | SQLite, files | file and row are not updated together; crashes | rows and files agree; limit honoured; unfinished entries go away |
| Queue and waiting | `SolidCache.h:493-581`, `718-746` | threads by archive, condition variables by archive and item | GetCondVar, IsQueued, Invoke, ExistsCondVar, NotifyCondVar, Cleanup, Extract | extractor, callers | called by the extractor without the lock | every call returns, no stale condition variable |
| Extractor and GetFile | `bridge.cpp:508-825` | the named mutex, DLL references | Extractor, GetFileExImp_Cached / Caching / Normal | all of the above, 7z.dll | thread end against new request | every extraction ends, the DLL stays loaded |
| Extraction callbacks | `ExtractCallback.cpp` | current item, error count | Write, GetStream, SetOperationResult | cache, password manager | abort, failing items | what is unfinished is not marked |
| Password manager | `PasswordManager.cpp`, `OpenCallback.cpp`, loops at `bridge.cpp:41-78`, `606-612` | password, six flags | GetPassword, IsRetry, IsValid, Notify..., Reset | callbacks, dialog | one object for all threads, retry loops | retries end when the user skips |
| Information cache | `src/infcache.cpp`, `entryFuncs.cpp:552-647` | a ring of 16 lists | Add, Dupli, Clear | entry points | list used after it was given away | returns what was last added |
| Configuration | `entryFuncs.cpp:369-416`, `1029-1066` | ini values, globals | load, migrate, apply | all caches | half-migrated ini, DLL_THREAD_ATTACH | values applied as saved |
| Extraction to a folder | `SolidArchiveExtractCallback.cpp`, `bridge.cpp:923-991` | - | ExtractSolidArchive | 7z.dll, host callback | abort | - |
| Listing, entry points, version dialog, SQLite wrapper | rest of `entryFuncs.cpp`, `bridge.cpp`, `version.hpp`, `sqlite3/sqlite3helper.h` | - | marshalling | - | - | - |
| 7-Zip, SQLite | `src/7z`, `src/sqlite3` | third party | | | | |

How they interact.  `GetFileEx` looks an item up in the cache.  On a miss it calls
`SolidFileCache::Extract`, which starts an `Extractor` thread for the archive unless
there is one, and waits.  The extractors of a process (of all processes of the
machine, in fact) take turns by a named mutex.  7z.dll calls `Write` for every
decoded piece and `SetOperationResult` at the end of every item; these append to the
cache, mark the item and wake its waiters.  An append that makes memory too large
spills entries to disk, an append to disk that makes the disk cache too large evicts
finished entries of other archives.  Everything except the named mutex is shared
memory under one readers-writer lock, `SolidCache::m_sm`; but many operations use it
for several short sections, some for none.  The hazards that follow are listed, at
their lines, in PROJECT.json.

## Modules

| Module | Models |
|---|---|
| `CacheData` | entries, rows, sizes and limits, and the pure functions on them: what a purge removes, what a spill stores, what an eviction chooses |
| `SolidCache` | both stores, the extractor, the `GetFile` callers, the Clear button and a crash of the host |
| `SolidCacheProps` | what the cache promises, and how its state maps to `CacheContract` |
| `CacheContract` | abstract: `GetFile` as one look at a growing set of items; `SolidCache` implements it where memory has room for everything and one file is read at a time |
| `ExtractQueue` | the queue, the waiting loop, the lock, thread ends and DLL references, with their properties |
| `SerialExtraction` | abstract: jobs that run one at a time and requests answered for a reason; `ExtractQueue` implements it |
| `SharedDisk` | the disk cache statement by statement, as several processes use it on one folder |
| `InfoCache` | the ring of file lists |
| `RecentLists` | abstract: the last lists, oldest first; `InfoCache` implements it |
| `PasswordManager` | the flags of the password manager and what its methods and dialog do to them |
| `GetFile` | composes the last two: `GetArchiveInfo`, `GetFileInfo` and `GetFile` of archives that are not solid, on several threads |
| `Settings` | the two places of the ini file, loading at every thread start, migration, the dialogs, saving |
| `MCSolidCache`, `MCExtractQueue`, `MCSharedDisk`, `MCGetFile`, `MCSettings` | instances for TLC |
| `SolidCacheProofs` | theorems about `SolidCache`: types, what each action does to one entry and one row, the limits |
| `SolidCacheContentProofs` | theorems about `SolidCache`: what the stores hold of an item |
| `SumProofs` | lemmas on sums over finite sets, for `SolidCacheProofs` and `SharedDiskProofs` |
| `ExtractQueueProofs`, `SharedDiskProofs`, `InfoCacheProofs`, `GetFileProofs`, `SettingsProofs` | theorems about the module each is named after; `GetFileProofs` uses those about the ring |

An operator `BadX` just before an operator `X` is a wrong version of the code that `X`
models (a dropped guard, a missing reset, an off-by-one); `BadTimeout` is a second one of `WaitEnds`.  No specification uses it;
put in the place of `X` it makes one of the properties fail, which shows that the
property depends on that code.  The pairs are listed under "mutants".

### SolidCache

*State.*  `mem` is `m_mTable` flattened to archive x item, `table` its keys, `access`
the keys of `m_mAccess`; `disk` is the table `entry` joined with the files, `rows` the
table `archive`.  `ext` is the extractor that owns the named mutex: its place in the
code, archive, item, piece and, inside a purge, the entry on its way to disk.
`thread` says which archives have an extractor thread, `call` where each caller is.
An archive is a key (path, time, size), so a changed file is another archive.  The
content of an item is the sequence of the numbers of its pieces; one piece is the unit
of all sizes.

*Actions.*  One action is one section under `m_sm` or one access made without it.
The long exclusive section of a purge of memory, which nests the disk's append and
eviction, is cut into several actions so that a crash can fall between them, with
`Locked` keeping everybody else out.  `GetFile` is `PeekMem`, `PeekDisk` (the two halves
of IsCached), `GetFileCache` (the unlocked look-up), `ReadMem`, `ReadDisk`, `Extract`
and `WaitEnds`; the field `at` says which of the four IsCached calls of the path is
being made.  `ReadMem` includes the insertion of an empty entry by `m_cache[index]`.
`Wide` stands for 2^64: limits are taken modulo it and the difference of line
`SolidCache.cpp:29` wraps, as unsigned arithmetic does.

*Where actions are coarser than the code, and why nothing is lost.*

- `Write`, `Measure` and `Result` read the stores in two or three short sections.
  Between them only Clear and the insertion of an empty entry can change the stores
  (every other change is the extractor's own), and every mixed reading equals the one
  made with that change before or after the whole action.
- `PurgeUnmarkedMem` and `MarkMem` join the unlocked `GetFileCache` with the section that
  uses it; only a Clear exactly in between is lost.  For `Append`, where it matters
  most, the two are separate (`AppendLookup`, `AppendMem`).
- `PurgeUnmarkedDisk`, `Stored` and `Marked` change files and rows together.  A crash in
  between leaves rows of unfinished entries only, which nothing reads and the purge
  at the beginning of the next extraction removes.  Eviction, which deletes files of
  *finished* entries first, is cut in two (`EvictFiles`, `EvictRows`).
- Access times have a resolution of one second in memory and are always 0 on disk, so
  the least recently used archive is any archive but the excluded one.
- The wake-up of waiters is one flag, `signaled`; its protocol is `ExtractQueue`'s matter.
  A `wait_for` that returns without a notification is not among the reasons for which a
  wait ends here (`WaitEnds`).  With it a single caller can leave before its item is
  marked and then meet the trace of `success_without_content`, so `DeliveredComplete` and
  `ImplementsCacheContract` are statements about waits that end for a reason.

### ExtractQueue

`Extract` runs under the lock, but the extractor calls `ExistsCondVar`, `NotifyCondVar`
and `Cleanup` without it, so here the lock is explicit and the extractor's steps fall
between any two of the caller's.  `cvs` is the key set of `Queue::cvs`; `shares` says
whether the condition variable a caller holds is the registered one (after an erase it
is its own copy, which nobody will notify).  Every queue operation begins with
`CleanupAll`, which joins ended threads, wakes and forgets: `ThreadsLeft`, `CondVarsLeft`
and `Woken` are part of each of those actions.  `inner` is for the message pump of the waiting
loop: a handler may call GetFile again, and the outer call cannot go on before the inner one
has returned.  What the cache holds is reduced to the
set of marked items, any of which an append may evict.  `refs` counts the references
`IncrementDLLRefCount` takes and `FreeLibraryAndExitThread` gives back.

`SerialExtraction` is what remains of it for a caller.  `JobOf` maps a thread to a job (a thread
that has done `Queue::Cleanup` is over, although it still owns the mutex and a reference),
`RequestOf` a call to a request: *asked* until it has found or created the job, *joined*
while it waits, *told* when it leaves.  A request may be told only if its item is there or
its job is over; so the run `queue` shows that a time-out, a condition variable erased by
somebody else's clean-up or an eviction never makes a call leave before that, and that two
jobs never run at once.

One thing does.  `wait_for` may return although nobody has notified, and line 733 takes
every return that is not a time-out for a notification: the loop ends, and unless its item is
marked just then `GetFile` reports `SPI_FILE_READ_ERROR` (`bridge.cpp:748-756`) while the
extraction goes on.
`SpuriousWakeup` is that step, allowed where the constant `Spurious` is TRUE, as it is in the
run.  `early` remembers it, and such a request is given up *early* instead of told; the
refinement says that this is the only way to leave without a reason, and the other properties
hold in spite of it.

### SharedDisk

The lock of `SolidCache` belongs to a process; the database and the files belong to
everybody who has loaded the plug-in.  The memory cache is off, and processes start, die and press
Clear between any two steps.  A step of an extractor is one statement that writes a table, one batch
of file operations or one operation of the named mutex.  What is joined: a write with the queries
right before it (the test of `ExistsArchive_` with the insertion, `EnsureAgain`; but the look-up
of the number *after* an insertion is a step of its own, `LookUp` and `LookUpAgain`), queries that
follow one another (`LookUp`), the deletion of several files in one loop, the append to a file with the
test before it, and the database and the files in `Clear`; `Start` is the one statement of
`PurgeUnreferenced_`.  `archives` and `entries` are the
tables with their keys (`sequence` is the AUTOINCREMENT counter of the first; the second has
rowids, which SQLite uses again), `files` the .tmp files by rowid.  `ext` and `reader` are the extractor
thread and one reading thread of each process; `Locked`, `Reading` and `CanLock` are the
process's own lock.  An item may fail before any piece or after the last (`FailItem`):
it stays unfinished, the next one is extracted, and its row and file wait for the purge.

Three accidents outside the mutex are recorded in `hit`, by archive:
a start whose `PurgeUnreferenced_` takes the row of an archive between the second test of `Append_` and
the writing of its first entry; a death between the two halves of an eviction; Clear.  The
properties hold for every archive that has had none of them, and the run shows that
there is no fourth.  After the first the writer goes on with a number that has no row, or with 0 if it
had still to look it up (`SolidCacheDisk.cpp:247`); so `aidx` is any number given out so far,
or 0, and what `TypeOK` says of the keys holds for those, too.

### GetFile, InfoCache, PasswordManager

Each operation of `InfoCache` is one critical section, hence one action.  `heap` is the set of lists
allocated and not freed, so that a list freed twice, leaked or used after it is freed can
be seen.  `PasswordManager` has no lock and one object for the process, so each of its
methods is a step of the calling thread; `GetPassword` is two, before and after its modal
dialog.  `GetFile` is the sequence of these along `GetArchiveInfoCache`, `MyOpenArchive` and
`GetFileExImp_Normal`.  What 7z.dll does is external: `OpenArchive` or `Extract` may fail at reading
(`Unreliable`), asks for a password of an encrypted archive (`Encrypted`, `HiddenNames`), and decodes
the item if the password is right and the data are sound (`Decodes`).  The user types any
password or skips.  `declined`, `readFailed`, `stale`, `age` and `skippedArc` are history.  Two threads overlap
only on archives without a password (`Together`): with two at once the flags of one decide about
the other, and the model would only show that the class is not made for it (see
Findings).

### Settings

`SetIniFileName` and `LoadFromIni` run at process attach and at every thread attach, under the
loader lock, in the steps between which a dialog of another thread can act.  `file` holds
both ini files, each a value for every key; the key `shared` is apart because it is
written last and decides the place.  One call that changes a file is one step: `SaveToIni` reads the
name of the file once and writes key after key (`WriteKey`), `DeleteFile`, `CopyFile` and the
making of the folder are steps of their own, and each of these three may fail.  A write fails only
where the place cannot be written.  What is joined: loading reads a whole file in one step, the two
writes of `topmost` are one, and `CopyFile` copies all or nothing; removing a key makes a missing file
just as writing one does.  A missing key is its default for every reader; the user extensions are
key 1, and an empty list of them is removed rather than written, so the next start finds the default
list (`Kept`).  `MainKeys` are what the main dialog takes over, the rest is the solid dialog's, and
`ResetKeys` what `SetParamDefault` resets, from the Default button as well as before a file is loaded.

History: `chosen` and `before` are what the user last asked for and what the files said at that
moment; `excused` why the files need not say it: the process died in an OK (`crash`), the place could not
be written (`unwritable`), the old personal file could not be deleted (`undeleted`), the solid
dialog found nothing to save while the globals were not those of the file (`unsaved`,
`entryFuncs.cpp:949`), the file just saved is the one that is deleted (`mismatch`), and the first
personal file was begun (`home`).  The first four excuse `ChoiceSurvives`; `CrashKeepsSettings` takes
defaults in the last two cases only, and with `home` only while the shared file still has everything.
`answered` is set when the question has been carried out: the file is copied to AppData, or the user
wants it where it is; a failed copy clears it.  `Init` has every combination of files an older
version or another user can have left.

## Runs

| Run | Instance | What it shows |
|---|---|---|
| `cache_both` | 2 archives x 3 items (one of two pieces, one empty), memory 2, disk 2, a memory purge that empties everything, 1 caller, crash anywhere | types and key relations, no torn entries, purges find a victim, items in one place, disk limit, spills lose nothing |
| `cache_live` | 2 x 2 items, the same limits, fairness | every call and every extraction ends, no orphans are left |
| `cache_memory` | 2 x 3 items, memory just large enough for everything, unlimited disk, 1 caller, crash anywhere | successful reads are complete, marked means complete; refinement of `CacheContract` |
| `cache_clear` | 2 x 2 items, memory 1, disk 2, Clear anywhere | memory bound; it is exceeded by at most the piece just written, and only until the purge |
| `queue` | 2 archives of 1 item, 2 callers, at most 3 calls, also from a message pump | no lost wake-up, no stale condition variable, DLL kept, every call and thread ends; refinement of `SerialExtraction` |
| `shared_disk` | 2 processes, an archive of two items (of two pieces and one) and one of a single item, disk 3, at most 2 extractions, 3 starts and Clears together; any item may fail; one process reads | entries served whole, readers get their item, extractors get their turn |
| `get_file` | 2 threads, 4 archives, 2 passwords, 2 slots, at most 3 calls | lists accounted for, refinement of `RecentLists`, answers justified, no needless question, every call ends |
| `settings` | 4 keys (user extensions, one extension, a limit of the cache, topmost), 2 values, every initial pair of files | choices and crashes keep the settings key by key, no question twice |
| `success_without_content`, `current_evicted`, `open_hang`, `ok_reverted` | see Findings | violations |

*Bounds.*  Two archives are what a spill or an eviction needs: the one being extracted
and another victim.  Three items give one that is finished, one in progress and one to
come; an item of two pieces can be spilled in the middle.  The limits are so small that
nearly every append purges.  All counters are bounded by the instance itself except the
calls of `ExtractQueue`, bounded by `MaxCalls`; three calls let one be repeated while
another waits.  `shared_disk` needs three events outside the mutex: two starts and
a process that dies and comes back, or a Clear; two extractions for one that continues what another
has left, or evicts it; and two items for one that fails before another is written.  One viewer is
enough because readers do not disturb each other.  Two slots make the ring of `get_file` wrap
around with three lists; three calls are one that leaves flags behind, one that overlaps
and one that suffers.  In `queue` wake-ups without a notification are not bounded.  `Settings` has no
bound: two values tell a default from a choice, and the keys are one of each kind the code
treats differently.  `ExtractQueue` stops when its calls are used up or the host has unloaded
the plug-in, so its run does not check deadlock, and `get_file` and `shared_disk`, whose bounds are used
up in the end, do not either; the other runs all do.  A larger instance was checked once and passes: `cache_both` with two thread ids (5.9
million states), for safety only.

*Fairness.*  `SolidCache`: the extractor, the end of its thread, each caller and the second
half of Clear go on when they can; nothing obliges the host to call or the user to
clear.  Weak fairness is enough with one caller because a caller waits only while it
has nothing to do.  Liveness with two callers is not claimed at this level: nothing in
the code orders the extractors that wait for the mutex, and the archive of one caller
may be extracted again and again before the other's.  `ExtractQueue`: the lock is
contended, so callers and extractor need strong fairness; the waiters release the
lock for up to 500 ms in each round and hold it for microseconds, so whoever wants it
gets it.  `SharedDisk`: strong fairness of an extractor stands for a mutex that, when it
is free again and again, is given to a thread that waits for it, and a reader that has begun ends;
processes need not start or survive.  `EveryExtractorEnds` says that each process is again and again
without an extractor; one that dies is.  `GetFile`: threads run, a dialog is answered, and a user who is asked again and
again presses Skip Archive in the end.

*Memory only, or memory and disk.*  `DeliveredComplete` and `MarkedComplete` are checked
and proved where memory has room for everything.  With spilling `MarkedComplete` is not true: a reader that
finds its item gone from memory inserts an empty entry (`SolidCache.h:285`), a later
extraction of the item marks that entry (`SolidCache::Cached` prefers memory), and the
item is then served empty.  It takes three items and a purge of at least three pieces
to see it.  `NeverTorn`, which admits an empty marked entry but nothing else, is what
remains true, and is proved.

## Findings

- `success_without_content`: with two callers `GetFile` returns SPI_ALL_RIGHT and an
  untouched buffer, because it asks IsCached once to copy (`bridge.cpp:735`) and again
  to decide what to return (`bridge.cpp:748`).  The item is marked between the two
  by the extraction another caller has queued again.
- `current_evicted`: `ax7z_s.txt:117-118` promises that the archive being extracted keeps
  its disk cache.  What is protected is the archive being *written*, and in a spill
  that is another one.
- `open_hang`: listing an archive with encrypted names leaves "the password was used" set, and
  nothing clears it before the archive is opened again.  If its file cannot be read then,
  `MyOpenArchive` (`bridge.cpp:62-75`) takes that for a wrong password and retries for ever,
  without a dialog.  `EveryCallEnds` holds in `get_file`, where no archive is both.
- `ok_reverted`: a thread that starts while OK is being handled (`entryFuncs.cpp:452`) sets the
  name of the ini file and the flag back to what the files say, and the settings are
  saved in the old place.  In the shortest trace TLC finds the Default button comes first, so that
  nothing is moved (see below).

Observations without a run of their own.

- Clear during an extraction (`entryFuncs.cpp:974`) can tear an item: the pieces before it are gone, the
  pieces after it make an entry that is marked complete.  It can also hang the
  extractor: between the measurement of memory and `ReduceSize` it leaves an amount to
  free in an empty table, and `SolidCache.cpp:101` spins with the exclusive lock.
- The branch of `GetContent` that asserts "Not reached" (`SolidCache.h:642`) is reached when the disk
  cache evicts the item between two checks.
- `ax7z_s.txt:115` says a limit of -1 means no limit, which is what the disk cache does, while a
  memory limit of 0 or less turns the memory cache off (`SolidCache.cpp:21`).
- The entry of a phantom insertion may be spilled when its item is already on disk, against
  `assert(!pscd->Exists_...)` of `SolidCacheDisk.cpp:548`.
- `Append_` says "Should not reach" (`SolidCacheDisk.cpp:248`) of a branch that a second process reaches by
  starting at that moment; the accident it guards against can also happen just after it.  Line 247
  then finds no row, and the piece is filed under the number 0, which no query for the archive finds.
- An item that fails (`ExtractCallback.cpp:158`) keeps its unfinished row and file until the purge at
  the end of the extraction, and they count as used all that time, but an eviction cannot take them.
- `MyOpenArchive` asks `IsRetry` twice (`bridge.cpp:70`, `75`).  With two threads on encrypted archives the answer
  can change in between; it then returns true without a handler.
- The result of `Extract` is not looked at (`bridge.cpp:608`): an error that is not the result of an
  item is reported as success with an unfilled buffer.
- The Default button in a shared configuration clears `g_fSharedConf` but not the name of the
  ini file; OK then saves and deletes the same file (`entryFuncs.cpp:1055-1057`) before it saves again.
- After the Default button the solid dialog shows what is in force; OK then finds no change and saves
  nothing (`entryFuncs.cpp:949`), and Cancel of the main dialog leaves the defaults in force until the
  next thread starts and the old values return.
- A move to AppData that is interrupted leaves a personal file with some of the keys.  It wins at the
  next start (`entryFuncs.cpp:373`) and the rest are defaults, although the shared file has them all.
- An empty list of user extensions is removed from the file (`entryFuncs.cpp:119`) and comes back as
  the default list.
- When the copy of an old shared file fails (`entryFuncs.cpp:403`) nothing is written down, so the
  question returns whenever a thread starts.
- On a fresh installation OK of the dialog for solid archives does not save: the folder in AppData is
  made by the main dialog only.  And when the plug-in's folder is read-only, the question of
  migration answered with No comes back at every attach.

## Proofs

All theorems hold for every value of the constants that satisfies the named assumptions of
the models: any number of archives and items, any pieces, limits (negative ones too), callers,
threads, processes, passwords, keys and values of the settings, and any of the bounds on calls and
starts that keep TLC's state space finite.

- `TypeCorrect` (`SolidCacheProofs`): `Spec => []TypeOK`, all faults included.  Its inductive
  invariant `TypeInv` adds what the extractor's
  registers mean at each place (`ExtOK`: the entry on its way to disk exists, a current item
  is an item) and that a call under way is about an item (`CallOK`); without the first
  a spill has no type.
- `MemoryIsBounded`, `DiskIsBounded` (`SolidCacheProofs`): `Spec => []MemoryBounded` and
  `Spec => DiskLimitHonoured`, crashes and clears included; `PurgeHasVictim`: `Spec =>
  []PurgeFindsVictim` when "clear" is not among the faults.  All three for a finite set of archives.
- `ContentNeverTorn`, `ContentInOnePlace` (`SolidCacheContentProofs`): `Spec => []NeverTorn` and
  `Spec => []ItemInOnePlace` when "clear" is not among the faults.
- `SpilledIsKept` (same module): `Spec => SpillKeepsContent` under the same hypothesis;
  `NothingIsOrphaned`: `Spec => []NoOrphans` when "crash" is not among the faults.
- `MarkedIsComplete` (same module): `Spec => []MarkedComplete` when all pieces of all items fit into
  memory (`EverythingFits`) and "clear" is not among the faults; `SuccessDelivers`: `Spec =>
  []DeliveredComplete` when besides there is but one caller (`Sole`).
- `ImplementsContract` (same module): `Spec => ImplementsCacheContract` under the hypotheses of
  `SuccessDelivers`, the refinement.
- `TypeCorrect`, `NoLostWakeupHolds`, `NoStaleCondVarHolds`, `ThreadsKeepLibraryHolds`
  (`ExtractQueueProofs`): every invariant that the `queue` run checks, for any finite sets of
  archives and callers and any number of items and calls.
- `Implements` (`ExtractQueueProofs`): `Spec => ImplementsSerialExtraction`, the refinement.  With
  `Spurious` FALSE it says that no call leaves without a reason, with `Spurious` TRUE that a
  return of `wait_for` without a notification is the only way to.
- `TypeCorrect`, `ServesWhole`, `ReaderIsRight` (`SharedDiskProofs`): every invariant that the
  `shared_disk` run checks, for any processes, deaths at any step, starts and clears.
- `Implements`, `SearchIsRight` (`InfoCacheProofs`): the ring of file lists by itself implements
  `RecentLists`, and the search that stops at an empty slot is right.
- `TypeCorrect`, `NothingLeaks`, `FreedWhenOld`, `SearchIsRight`, `CacheImplements`
  (`GetFileProofs`): the lists and the refinement as several threads use the ring, without a
  hypothesis; `CallsAnswerRight`, `RightPasswordIsKept` when `OneAsksAtATime`.
- `TypeCorrect`, `ChoiceIsKept`, `CrashLosesNothing`, `QuestionAskedOnce` (`SettingsProofs`): every
  invariant that the `settings` run checks, for any number of keys, all but the first when no thread
  starts while an OK is being handled (`~Reload`).

The argument for the contents is by entry: e is what memory holds of an item, r its row.
`ContentInv` adds four things to `TypeInv`.  `AllSound`: whatever is marked is whole or
empty, in both stores, and stays so if the entry is spilled onto the row (`Sound`).
`FutureOK`: after the purge that begins an extraction the items still to come are
`Untouched`, nothing unfinished of them holds bytes; this is what a crash or an aborted
extraction would otherwise break.  `WorkOK`: the first pieces of the current item are in
memory and only there, or on disk and only there (`Holds`), at every place of the
extractor's program, the sections of a spill and an eviction included.  And no Clear is
half done.  `NeverTorn` alone is not inductive: it says nothing of unmarked entries, so
marking one could tear it, and it does not know that the rows of this thread come from
this extraction, so an append might continue a row left by a crash.
The lemmas on what each action does to one entry and one row (`SpillEffect`, `EvictEffect`, ...)
are in `SolidCacheProofs`, as the limits need them too; `SolidCacheContentProofs` has a lemma
for each part of the invariant.  Clear is
excluded for a reason: it can empty the stores between two pieces of an item, whose
second half is then stored and marked alone, so `NeverTorn` is false with it.
`SpilledIsKept` needs one thing more, `OneCopy`: a marked entry in memory that has content
has no row on disk; otherwise `StoreSpilled` would leave an unfinished or foreign row as it is
and drop the entry.  `NothingIsOrphaned` has an invariant of its own, `TidyInv`: of an archive
`AtRest` (not being extracted, before its first purge or after its last) neither store has bytes
of an unfinished item, so a spill or an eviction for another archive cannot bring any about.  It
does without `ContentInv`, hence with Clear; a crash is excluded because the rows it leaves
behind are exactly such bytes, and stay until the archive is extracted again.

*Where memory has room for everything.*  `WholeInv` adds to `ContentInv` that the disk is empty and
the extractor stays away from it, that no entry is longer than its item, and that what is marked is
whole.  The parts need one another: entries that are not too long sum up to no more than memory
holds (`NeverOver`, on the sums below), so no purge is called and nothing goes to disk; the item at
hand is then in memory, whole when it is marked.  Crashes do not disturb this, since nothing
survives them.  `DeliverInv` adds what a call knows of its item at each place (`KnowsAt`), in terms
of two facts: the item is marked, or it is `Past`, which is to say that the thread will not come to
it any more.  A call sleeps until one of them is true.  If it is past without being marked it
stays so, because only the extraction which that call itself may ask for could mark it: so both
times `GetFileExImp_Caching` asks `IsCached`, the answer is the same.  With a second caller that is
not so, which is the finding `success_without_content`; hence the hypothesis `Sole`.
`ImplementsContract` rests on the same invariant.  It maps the marked items to those that are kept,
the items that are not `Past` to those that are coming, and a call to its request, answered when it
is `done`.  `MarkMem` then is `Arrive`, an `Extract` that starts a thread is `Begin`, the lookup or
the copy that ends a call is `Answer`, every other step of the extractor is `Pass` (`ExtractorMaps`),
and all else stutters.  It says more than `SuccessDelivers`: a call that fails is right in that, too,
even if its extraction is long over when it finds out, and `GetFileCache` never throws.
`EverythingFits` excludes spills and evictions: with them `MarkedComplete` is false ("Memory only,
or memory and disk").

*Limits.*  `MemSize` and `DiskSize` are sums over the entries and rows there are, so the set that
is summed over changes with every step.  The proofs use sums over all pairs of an archive and an
item, where an absent entry weighs nothing (`MemSizeIs`, `DiskSizeIs`): a step then changes one
weight (`MemSizeAt`, `DiskSizeAt`) or lowers some (`MemSizeLess`).  `MemBound` says by the
extractor's place how much memory may hold: its limit; one piece more once `AppendMem` has run;
and, while a purge runs, the limit and what the purge still has to take away.  `DiskBound` is the
same for the disk: while room is made for a write, the rows and the write together are at most the
limit and the amount `dneed` that is left, and after that they are within the limit or nothing is
left to evict.  Two facts carry the argument: the amount a purge begins with is enough although it
is computed in unsigned arithmetic (`MemReductionFits`), and deleting rows takes away exactly what
the eviction counts (`EvictRowsSize`).  `NeedOK`, that the amount is still there to be taken, is
what makes the loop of `SolidCache.cpp:101` end.  Clear breaks it, as "Findings" says, and is
therefore excluded from `PurgeHasVictim`; it does not break the bounds.  `LimitAssumption` asks for
`Wide > 1`, 2^64 bytes being more than one piece.

Looking for the proof corrected `DiskLimitHonoured`.  It used to promise that no finished entry of
another archive is left when the limit cannot be met; but a finished entry of size 0 can be, since
`ReduceSize_` stops when the sizes add up to nothing (`SolidCacheDisk.cpp:373`).  TLC finds that in
`CacheClear.cfg` with `MaxDisk` 1.  What holds is that nothing is left whose
eviction would make room.

The queue's invariant `Inv` adds to its four properties what each place in the program means.
`LockOK`: a caller is in the locked part of `Extract` exactly when it holds `m_sm`.  `ExtOK`:
only the owner of the named mutex has a running thread, and an extractor that is about to
notify has marked its item.  `CallOK`: a caller in `wait` has seen, under the lock, that its
item is not cached, and a caller that shares a condition variable has it registered.
`NoLostWakeup` is not inductive without the last two: the interesting step is `Mark` while a
caller is between its test and its sleep, and it is the lock that excludes it.  The queue
operations of the extractor do not take the lock, so they are proved once for all callers, at
any place, in `ToldByExtractor`; what those of a caller do to the others is `CleanedUpOthers`.
The reference count (`RefsInv`) is an argument about cardinalities: every step except `Call`,
`Invoke` and `ExitThread` adds neither a live thread nor a caller that may start one
(`Settles`), `Call` brings a reference, `Invoke` hands it to the thread and `ExitThread` gives
it back.  For the refinement every action's lemma also shows what each thread, the cache and
each caller may do in the step (`SerialStep`, in the variables of `ExtractQueue`), and
`JobMaps`, `ItemsMap` and `RequestMaps` translate that to `SerialExtraction`.  No theorem has a
hypothesis on `Spurious`.

*Shared disk cache.*  `ServedWhole` speaks of finished entries only.  Its inductive invariant
`DiskInv` has the tables with their keys, the mutex with the thread that owns it, and for each
extractor (`Work`) and each reader (`Reads`) what it may rely on.  `RowKnown`: while the extractor
works, its archive has the row it remembers, unless a start of another process or Clear took it
(then the archive is `hit`, and the number it has may be 0).  `Clean`: the unfinished entries of the
archive are those of the item at hand and of items before it that have failed, and this process has
added them.  `Filled`: row and file of the item at hand hold exactly the pieces written
so far, the half-written state between the two statements of an append included.  `HasEntry`: after
the first piece there is such an entry, which is why `mark` finishes something whole.  `Evicting`:
what is being evicted is finished and of another archive, so an eviction never takes the row from
under `Filled`.  A reader's `Kept` is that the row it has seen is still a finished row of its key,
although rowids are used again: the greatest rowid never goes down while the row is there.  The
steps that die or start are the same for all statements of the extractor, and a lemma per action
shows which part of the invariant it disturbs.  The sizes an append compares are sums over a set.

*Sums.*  `MapThenSumSet` picks one element after another, and that the function it is defined by
exists is itself a fact about every finite set (`SumsExist`).  Induction is out of the prover's
reach with a predicate as parameter; `SetInduction` has in its place the *set* of the subsets for
which the fact is true, and is proved from the least number of elements of a subset outside it.
On it rest that sums of naturals are naturals (`SumsAreNat`), that any element may be taken out
first (`TotalWithout`) and that a sum changes by as much as one weight does (`TotalStep`).

*Ring of file lists.*  `CacheInv` says that the slots in use are all, or those before `nowno`
(`Ring`), and that no two slots have the same list (`Owned`).  The refinement maps the ring to the
sequence of its lists, oldest first; the step `Add` is an argument about `%`, split into the ring
that still has room and the full one, where the oldest list is dropped.

*GetFile.*  `ListInv` is `CacheInv` with who holds what: each list is in a slot or with the one
call that made it (`Lists`), and a list that a call is reading is as many slots behind the newest
as lists were added since (`Reading`).  The flags of the password manager are a single set for all
calls, so their invariant says whose doing they are: `FlagsOf` (a password is used, or Skip
pressed, by a call on the archive the manager is set to) and `KeptOf` (a right password that was
not typed for another archive is used).  `CallInv` says for each place of a call why the flags
bring it there.  It holds only if encrypted archives are worked on by one thread at a time
(`OneAsksAtATime`): the manager has no lock.  The hypothesis is needed, and is why `Together` has
no encrypted archive in `GetFile.cfg`: with one in it TLC finds both properties violated, whichever
it is.  Looking for the invariant corrected `RightPasswordKept`: an archive with encrypted names
whose file cannot be read for a moment asks again for a password that is right, since
`MyOpenArchive` takes every failure for a wrong one; such archives are now among the `Doubtful`.

*Settings.*  `IInv` adds to the properties how far the writes have come and what they leave.  `Writing`:
the keys before the one at hand are in the file `SaveToIni` has named, all of them when it comes to the
flag.  `Usable`: the place in `g_sIniFileName` is, between two OKs, what the next start would choose,
but for a file that could not be deleted and a folder that could not be made; `Attaching` says so
for the thread that starts, with the flag, and that what is about to be deleted has been copied.
`Moving`, `Finishing` and `FirstFile` say what the steps of an OK may rely on: the old file stays until
the new one is complete, so `WriteKeyFinds` and the deletion have, for each key, either the old value or
the new.  `ChoiceInHand` and `ChoiceOnDisk` are the user's choice during and after an OK, and
`AnswerKept` that an answer which was carried out has decided the place.  `SavingAlone` is what
`~Reload` gives and `ok_reverted` refutes without it.

Model-checked only: liveness (fairness and ENABLED are out of the prover's reach): `EveryCallReturns`, `EveryExtractionEnds`, `EveryThreadEnds`, `EveryCallEnds` and
`EveryExtractorEnds`.  Every other property of the passing runs is proved; where a theorem has a
hypothesis, the run has it too.

## Not modelled

- Undefined behaviour proper: concurrent insertion into a `std::map` under a shared lock,
  writing through a reference to an erased node.  The models take the lost write as the
  outcome of the second and single map operations as steps.
- Collisions of SQL statements of two processes.  The wrapper sets no busy timeout and takes
  SQLITE_BUSY for an empty result (`sqlite3helper.h:105-109`), so a statement is lost without
  a trace; with that, hardly anything is true of two processes that write.  What
  `journal_mode = OFF` does to a database in a crash is SQLite's.
- A change of the cache folder or of the limits during an extraction (`SetCacheFolder` moves the
  files under a shared lock), archive files that change (`CheckDB_`), the upgrade of the
  database from version 1, the memory cache together with several processes.
- The extractor's own use of the
  password manager (`bridge.cpp:687`, `700`), which falls under "two threads at once" of `GetFile`.
- `GetFileWEx` for solid archives, which uses the cache under an empty name, and `InfoCacheW`, the
  same code with wide characters.
- The parts the inventory marks as marshalling (listing, version dialog, extraction to a folder).
- 7-Zip and SQLite: about 131,000 of the repository's 137,000 lines are vendored third-party code;
  ax7z's own code is about 5,100 lines, of which the map names
  some 1,840.  The rest of it is dialogs, conversion of properties and COM boilerplate.

## Plan

1. A weaker `CacheContract` for several callers and for a cache that evicts: which answers are then
   still ruled out.
2. A change of the cache folder during an extraction, and changed archive files, in `SharedDisk`.

The order of work so far was `CacheData`, `SolidCache` with `cache_both`, the faults, liveness,
`ExtractQueue`, the type proof and the content proof; then `GetFile` and its parts, `Settings`, the
abstract specifications with their refinements, and `SharedDisk`.
