-------------------------- MODULE SharedDiskProofs --------------------------
(***************************************************************************)
(* Proofs about SharedDisk, for any processes, archives, limits and number *)
(* of starts, jobs and clears: the keys of the tables, what an entry that  *)
(* is served holds, and what a reader gets.                                *)
(***************************************************************************)
EXTENDS SharedDisk, SumProofs, SequenceTheorems

\* The sizes of entries add up to a natural number.
LEMMA SizeIsNat ==
    ASSUME NEW S, IsFiniteSet(S), \A r \in S : entries[r].size \in Nat
    PROVE  SizeOf(S) \in Nat /\ (S = {} => SizeOf(S) = 0)
<1> DEFINE w == [r \in S |-> entries[r].size]
           B(F) == [s \in SUBSET S |->
                        IF s = {} THEN 0
                        ELSE entries[CHOOSE x \in s : TRUE].size
                                + F[s \ {CHOOSE x \in s : TRUE}]]
           G == CHOOSE F : F = B(F)
<1>1. SizeOf(S) = G[S]
  BY DEF SizeOf, MapThenSumSet, MapThenFoldSet
<1>2. ASSUME NEW F PROVE Sums(F, S, w) <=> F = B(F)
  <2>1. \A s \in SUBSET S : s # {} => w[Picked(s)] = entries[CHOOSE x \in s : TRUE].size
    BY DEF Picked
  <2>2. B(F) = [s \in SUBSET S |->
                    IF s = {} THEN 0 ELSE w[Picked(s)] + F[s \ {Picked(s)}]]
    BY <2>1 DEF Picked
  <2> QED  BY <2>2 DEF Sums
<1>3. w \in [S -> Nat] /\ w \in [S -> Int]
  OBVIOUS
<1> HIDE DEF w
<1>4. PICK F : Sums(F, S, w)
  BY <1>3, SumsExist
<1> HIDE DEF B
<1>5. Sums(G, S, w)
  BY <1>2, <1>4
<1> HIDE DEF G
<1> QED  BY <1>1, <1>3, <1>5, SumsAreNat

----------------------------------------------------------------------------
(* The inductive invariant                                                 *)

LegalRow ==
    [aidx : Nat, item : Nat \ {0}, completed : Process \cup {Done}, size : Nat \ {0}]
ExtractorState ==
    [pc : {"wait", "purge files", "purge rows", "purge archive", "append", "look up",
           "room", "evict rows", "evict archive", "look up again", "add or append",
           "update size", "write file", "mark", "release"},
     a : Archive, aidx : Nat, from : Nat, victims : SUBSET Nat, need : Nat,
     i : Nat \ {0}, piece : Nat \ {0}, extracted : BOOLEAN]
ReaderState ==
    [pc : {"select", "map", "served"}, key : Key, seen : Nat, gone : BOOLEAN,
     row : Nat, size : Nat, got : Seq(Key \X Nat)]

\* The tables, with their keys.
ArchiveTable ==
    /\ sequence \in Nat \ {0}
    /\ archives \in [DOMAIN archives -> Archive]
    /\ DOMAIN archives \subseteq 1..(sequence - 1)
    /\ \A x, y \in DOMAIN archives : archives[x] = archives[y] => x = y
EntryTable ==
    /\ entries \in [DOMAIN entries -> LegalRow]
    /\ \E n \in Nat : DOMAIN entries \subseteq 1..n
    /\ \A r \in DOMAIN entries : entries[r].aidx \in 0..(sequence - 1)
    /\ \A r, s \in DOMAIN entries :
          entries[r].aidx = entries[s].aidx /\ entries[r].item = entries[s].item => r = s
Files == files \in [DOMAIN files -> Seq(Key \X Nat)]
Tables == ArchiveTable /\ EntryTable /\ Files

\* The threads belong to processes that are up, and the mutex to the extractor
\* that works.
Threads ==
    /\ mutex \in Process \cup {Free, Abandoned}
    /\ up \subseteq Process /\ hit \subseteq Archive
    /\ ext \in [Process -> ExtractorState \cup {Idle}]
    /\ reader \in [Process -> ReaderState \cup {Idle}]
    /\ \A p \in Process : /\ ext[p] # Idle => p \in up
                          /\ reader[p] # Idle => p \in up
                          /\ ext[p].pc \notin {"idle", "wait"} <=> mutex = p

\* An entry of an archive that has a row, finished and not going away: it will
\* be served.
OfArchive(r, a) == entries[r].aidx \in DOMAIN archives /\ archives[entries[r].aidx] = a
Standing(r) ==
    /\ entries[r].completed = Done /\ entries[r].aidx \in DOMAIN archives
    /\ r \notin Leaving
Whole(r) ==
    /\ r \in DOMAIN files
    /\ files[r] = Full(<<archives[entries[r].aidx], entries[r].item>>)
    /\ entries[r].size = Len(files[r])
WholeRows ==
    \A r \in DOMAIN entries :
        Standing(r) /\ archives[entries[r].aidx] \notin hit => Whole(r)

\* What an extractor evicts are finished entries of another archive.
Evicting(p) ==
    /\ ext[p].pc \notin {"idle", "evict rows"} => ext[p].victims = {}
    /\ ext[p].pc = "evict rows"
       => /\ ext[p].victims # {} /\ ext[p].victims \subseteq DOMAIN entries
          /\ \E x \in DOMAIN archives \ {ext[p].aidx} :
                \A r \in ext[p].victims :
                    entries[r].aidx = x /\ entries[r].completed = Done

\* aidx is the row of the archive, when that has one, after it has been looked
\* up: while the files and rows are purged and while a piece is written.
Purging == {"purge rows", "purge archive"}
Storing == {"add or append", "update size", "write file"}
Looked == {"room", "evict rows", "evict archive"} \cup Storing
RowKnown(p) ==
    /\ ext[p].pc \in Purging \cup Looked
       => \A x \in DOMAIN archives : archives[x] = ext[p].a <=> x = ext[p].aidx
    /\ ext[p].pc \in Looked => ext[p].aidx \in 0..(sequence - 1)
    /\ ext[p].pc = "look up again" /\ ext[p].a \notin hit => ext[p].a \in Range(archives)
    /\ ext[p].pc \in Storing /\ ext[p].a \notin hit => ext[p].aidx \in DOMAIN archives

\* Where in the archive the decoder is.
At(p) == ext[p].pc \in {"append", "look up", "look up again", "mark"} \cup Looked
Position(p) ==
    /\ ext[p].pc \in {"wait", "purge files"} \cup Purging /\ ~ext[p].extracted
       => ext[p].i = 1 /\ ext[p].piece = 1
    /\ At(p) /\ ext[p].pc # "append" => ext[p].i \in Item(ext[p].a)
    /\ At(p) /\ ext[p].i \in Item(ext[p].a) => ext[p].piece <= Pieces[ext[p].a][ext[p].i]
    /\ At(p) /\ ext[p].i \notin Item(ext[p].a) => ext[p].piece = 1
    /\ ext[p].pc = "mark" => ext[p].piece = Pieces[ext[p].a][ext[p].i]

\* The unfinished entries of the archive are those of the item at hand and of
\* items before it that have failed, and the extractor has added them.
Mine(p, r) == OfArchive(r, ext[p].a) /\ entries[r].completed # Done
Clean(p) ==
    /\ ext[p].pc = "purge archive" => \A r \in DOMAIN entries : ~Mine(p, r)
    /\ At(p) => \A r \in DOMAIN entries :
                    Mine(p, r) => entries[r].item <= ext[p].i /\ entries[r].completed = p
    /\ ext[p].pc \in {"update size", "write file"}
       => \A r \in Found(ext[p].aidx, ext[p].i) : entries[r].completed = p

\* The row and the file of the item at hand have the pieces written so far ...
HasPieces(p, r, size, n) ==
    /\ entries[r].size = size
    /\ r \in DOMAIN files /\ files[r] = [k \in 1..n |-> <<Current(p), k>>]
Filled(p) ==
    At(p) /\ ext[p].a \notin hit => \A r \in DOMAIN entries :
        Mine(p, r) /\ entries[r].item = ext[p].i =>
        /\ ext[p].pc = "write file" => entries[r].size = 1 /\ ext[p].piece = 1
        /\ ext[p].pc = "mark" => HasPieces(p, r, ext[p].piece, ext[p].piece)
        /\ ext[p].pc = "update size" => HasPieces(p, r, ext[p].piece - 1, ext[p].piece)
        /\ ext[p].pc \notin {"write file", "mark", "update size"}
           => HasPieces(p, r, ext[p].piece - 1, ext[p].piece - 1)
\* ... and after the first piece it has an entry, from the moment it is added.
HasEntry(p) ==
    /\ At(p) /\ ext[p].a \notin hit /\ (ext[p].piece > 1 \/ ext[p].pc = "mark")
       => \E r \in DOMAIN entries : OfArchive(r, ext[p].a) /\ entries[r].item = ext[p].i
    /\ ext[p].pc \in {"update size", "write file"} => Found(ext[p].aidx, ext[p].i) # {}

Work(p) ==
    Evicting(p) /\ RowKnown(p) /\ Position(p) /\ Clean(p) /\ Filled(p) /\ HasEntry(p)

\* What a reader has found is still there, unless it is gone.
Kept(k, r) ==
    r \in DOMAIN entries /\ Standing(r) /\ OfArchive(r, k[1]) /\ entries[r].item = k[2]
Reads(p) ==
    reader[p] # Idle /\ ~reader[p].gone /\ reader[p].key[1] \notin hit
    => /\ reader[p].pc \in {"select", "map"} => Kept(reader[p].key, reader[p].seen)
       /\ reader[p].pc = "map" => /\ reader[p].row = reader[p].seen
                                  /\ reader[p].size = entries[reader[p].seen].size
       /\ reader[p].pc = "served" => reader[p].got = Full(reader[p].key)

DiskInv == Tables /\ Threads /\ WholeRows /\ \A p \in Process : Work(p) /\ Reads(p)

USE DEF Purging, Storing, Looked

----------------------------------------------------------------------------
(* What the invariant says of a thread, a key and a row                    *)

\* Idle threads and others.
LEMMA ThreadKinds ==
    ASSUME Threads, NEW p \in Process
    PROVE  /\ ext[p] = Idle <=> ext[p].pc = "idle"
           /\ ext[p].pc # "idle" => ext[p] \in ExtractorState
           /\ reader[p] = Idle <=> reader[p].pc = "idle"
           /\ reader[p].pc # "idle" => reader[p] \in ReaderState
<1>1. Idle.pc = "idle"
  BY DEF Idle
<1>2. ext[p] \in ExtractorState => ext[p].pc # "idle"
  BY DEF ExtractorState
<1>3. reader[p] \in ReaderState => reader[p].pc # "idle"
  BY DEF ReaderState
<1>4. ext[p] \in ExtractorState \cup {Idle} /\ reader[p] \in ReaderState \cup {Idle}
  BY DEF Threads
<1> QED  BY <1>1, <1>2, <1>3, <1>4

\* Only what the owner of the mutex evicts is going away.
OwnerEvicts ==
    Threads /\ (\A q \in Process : Evicting(q))
    => \A p \in Process : mutex = p => Leaving = ext[p].victims
\* For the victims of the others are none.
LEMMA LeavingIs == OwnerEvicts
<1> SUFFICES ASSUME Threads, \A q \in Process : Evicting(q), NEW p \in Process, mutex = p
             PROVE  Leaving = ext[p].victims
  BY DEF OwnerEvicts
<1>1. ext[p] # Idle
  BY ThreadKinds DEF Threads
<1>2. \A q \in Process : q # p /\ ext[q] # Idle => ext[q].victims = {}
  BY ThreadKinds DEF Threads, Evicting
<1> QED  BY <1>1, <1>2 DEF Leaving

\* When an extractor waits for its turn, or ends, it does not evict.
LEMMA NoVictims ==
    ASSUME DiskInv, NEW p \in Process, ext[p].pc \notin {"idle", "evict rows"}
    PROVE  ext[p].victims = {}
BY DEF DiskInv, Work, Evicting

\* GetArchiveIdx_ finds the row of an archive.
LEMMA ArchiveIdxIs ==
    ASSUME ArchiveTable, NEW a
    PROVE  /\ \A x \in DOMAIN archives : archives[x] = a <=> x = ArchiveIdx(a)
           /\ a \in Range(archives) => ArchiveIdx(a) \in DOMAIN archives
           /\ a \notin Range(archives) => ArchiveIdx(a) = 0
           /\ 0 \notin DOMAIN archives
           /\ ArchiveIdx(a) \in Nat /\ ArchiveIdx(a) < sequence
<1>1. 0 \notin DOMAIN archives /\ \A x \in DOMAIN archives : x \in Nat /\ x < sequence
  BY DEF ArchiveTable
<1>2. CASE a \in Range(archives)
  <2>1. PICK x \in DOMAIN archives : archives[x] = a
    BY <1>2 DEF Range
  <2>2. ArchiveIdx(a) \in DOMAIN archives /\ archives[ArchiveIdx(a)] = a
    BY <1>2, <2>1 DEF ArchiveIdx
  <2> QED  BY <1>1, <1>2, <2>2 DEF ArchiveTable
<1>3. CASE a \notin Range(archives)
  <2>1. ArchiveIdx(a) = 0 /\ \A x \in DOMAIN archives : archives[x] # a
    BY <1>3 DEF ArchiveIdx, Range
  <2> QED  BY <1>1, <1>3, <2>1 DEF ArchiveTable
<1> QED  BY <1>2, <1>3

\* The entries of an archive and of an item.
LEMMA RowsAre ==
    ASSUME Tables, NEW x, NEW i
    PROVE  /\ Rows(x) \subseteq DOMAIN entries
           /\ \A r \in DOMAIN entries :
                /\ r \in Rows(x) <=> entries[r].aidx = x
                /\ r \in Completed(x) <=> entries[r].aidx = x /\ entries[r].completed = Done
                /\ r \in Found(x, i) <=> entries[r].aidx = x /\ entries[r].item = i
                /\ entries[r] \in LegalRow /\ entries[r].aidx \in 0..(sequence - 1)
           /\ Found(x, i) \subseteq DOMAIN entries /\ Completed(x) \subseteq DOMAIN entries
           /\ \A r, s \in Found(x, i) : r = s
BY DEF Tables, EntryTable, Rows, Completed, Found

\* The rowids are finitely many, a new one is none of them, and sizes add up.
LEMMA Rowids ==
    ASSUME Tables
    PROVE  /\ NewRow \in Nat \ {0} /\ NewRow \notin DOMAIN entries
           /\ \A r \in DOMAIN entries : r \in Nat /\ r < NewRow
           /\ \A S \in SUBSET DOMAIN entries :
                IsFiniteSet(S) /\ SizeOf(S) \in Nat /\ (S = {} => SizeOf(S) = 0)
<1>1. PICK n \in Nat : DOMAIN entries \subseteq 1..n
  BY DEF Tables, EntryTable
<1>2. ASSUME NEW S \in SUBSET DOMAIN entries
      PROVE  IsFiniteSet(S) /\ SizeOf(S) \in Nat /\ (S = {} => SizeOf(S) = 0)
  <2>1. IsFiniteSet(1..n)
    BY FS_Interval
  <2>2. IsFiniteSet(S)
    BY <1>1, <2>1, FS_Subset
  <2>3. \A r \in S : entries[r].size \in Nat
    BY DEF Tables, EntryTable, LegalRow
  <2> QED  BY <2>2, <2>3, SizeIsNat
<1>3. CASE DOMAIN entries = {}
  BY <1>2, <1>3 DEF NewRow
<1>4. CASE DOMAIN entries # {}
  <2> DEFINE Above == {n - r : r \in DOMAIN entries}
  <2>1. Above \in SUBSET Nat /\ Above # {}
    BY <1>1, <1>4
  <2> HIDE DEF Above
  <2>2. PICK m \in Above : \A k \in Above : m <= k
    BY <2>1, Least
  <2>3. PICK r \in DOMAIN entries : m = n - r
    BY <2>2 DEF Above
  <2>4. ASSUME NEW s \in DOMAIN entries PROVE s <= r
    <3>1. n - r <= n - s
      BY <2>2, <2>3 DEF Above
    <3>2. r \in Nat /\ s \in Nat
      BY <1>1
    <3> QED  BY <3>1, <3>2
  <2>5. \E y \in DOMAIN entries : \A s \in DOMAIN entries : y >= s
    <3>1. r \in Nat /\ \A s \in DOMAIN entries : s \in Nat
      BY <1>1
    <3> QED  BY <2>4, <3>1
  <2>6. /\ Max(DOMAIN entries) \in DOMAIN entries
        /\ \A s \in DOMAIN entries : Max(DOMAIN entries) >= s
    BY <2>5 DEF Max
  <2>7. Max(DOMAIN entries) \in Nat /\ \A s \in DOMAIN entries : s \in Nat
    BY <1>1, <2>6
  <2>8. NewRow = Max(DOMAIN entries) + 1
    BY <1>4 DEF NewRow
  <2> QED  BY <1>2, <2>6, <2>7, <2>8
<1> QED  BY <1>3, <1>4

\* The greater one of two integers.
LEMMA MaxOfTwo ==
    ASSUME NEW m \in Int, NEW n \in Int
    PROVE  Max({m, n}) \in {m, n} /\ Max({m, n}) >= m /\ Max({m, n}) >= n
<1>1. \E x \in {m, n} : \A y \in {m, n} : x >= y
  BY m >= n \/ n >= m
<1> QED  BY <1>1 DEF Max

\* What has to be given up is a natural number.
LEMMA ReductionIs == ASSUME NEW size \in Nat PROVE Reduction(size) \in Nat
<1>1. PurgeDisk \in Nat /\ MaxDisk \in Nat
  BY SharedDiskAssumption
<1>2. PurgeDisk \in Int /\ size - MaxDisk \in Int
  BY <1>1
<1>3. /\ Max({PurgeDisk, size - MaxDisk}) \in {PurgeDisk, size - MaxDisk}
      /\ Max({PurgeDisk, size - MaxDisk}) >= PurgeDisk
  BY <1>2, MaxOfTwo, Zenon
<1>4. PICK m : m = Max({PurgeDisk, size - MaxDisk})
  OBVIOUS
<1>5. m \in Nat
  <2>1. m \in {PurgeDisk, size - MaxDisk} /\ m >= PurgeDisk
    BY <1>3, <1>4, Zenon
  <2> QED  BY <1>1, <1>2, <2>1
<1>6. Reduction(size) = IF size < MaxDisk THEN 0 ELSE m
  BY <1>4, Zenon DEF Reduction
<1> QED  BY <1>5, <1>6

\* An item has at least one piece.
LEMMA PiecesAre ==
    \A a \in Archive : \A i \in Item(a) :
        Pieces[a][i] \in Nat /\ Pieces[a][i] >= 1 /\ i \in Nat \ {0}
<1> SUFFICES ASSUME NEW a \in Archive, NEW i \in Item(a)
             PROVE  Pieces[a][i] \in Nat \ {0} /\ i \in Nat \ {0}
  OBVIOUS
<1>1. PICK s : s = Pieces[a]
  OBVIOUS
<1>2. s \in Seq(Nat \ {0}) /\ i \in DOMAIN s
  BY <1>1, SharedDiskAssumption DEF Item
<1>3. s[i] \in Nat \ {0} /\ i \in Nat \ {0}
  BY <1>2
<1> QED  BY <1>1, <1>3

\* Finished entries that are not going away are whole.
LEMMA AreWhole ==
    ASSUME DiskInv, NEW p \in Process, mutex = p, NEW r \in DOMAIN entries,
           entries[r].completed = Done, entries[r].aidx \in DOMAIN archives,
           r \notin ext[p].victims, archives[entries[r].aidx] \notin hit
    PROVE  Whole(r)
<1>1. Leaving = ext[p].victims
  BY LeavingIs DEF OwnerEvicts, DiskInv, Work
<1> QED  BY <1>1 DEF DiskInv, WholeRows, Standing

----------------------------------------------------------------------------
(* A step of the extractor that holds the mutex                            *)

\* The entries that are served stay as they are, ...
Stays(p, c) ==
    \A r \in DOMAIN entries :
        /\ entries[r].completed = Done /\ entries[r].aidx \in DOMAIN archives
        /\ r \notin ext[p].victims
        => /\ r \in DOMAIN entries' /\ entries'[r] = entries[r] /\ r \notin c.victims
           /\ entries[r].aidx \in DOMAIN archives'
           /\ archives'[entries[r].aidx] = archives[entries[r].aidx]
\* ... and those that will be served are whole.
AllWhole(c) ==
    \A r \in DOMAIN entries' :
        /\ entries'[r].completed = Done /\ entries'[r].aidx \in DOMAIN archives'
        /\ r \notin c.victims /\ archives'[entries'[r].aidx] \notin hit
        => Whole(r)'

\* So a reader keeps what it has found.
LEMMA ReadsStay ==
    ASSUME DiskInv, NEW p \in Process, mutex = p, NEW c, Stays(p, c), Leaving' = c.victims,
           UNCHANGED <<reader, hit>>, NEW q \in Process
    PROVE  Reads(q)'
<1>1. Leaving = ext[p].victims
  BY LeavingIs DEF OwnerEvicts, DiskInv, Work
<1>2. ASSUME NEW k, NEW r, Kept(k, r)
      PROVE  Kept(k, r)' /\ entries'[r] = entries[r]
  BY <1>1, <1>2 DEF Kept, Standing, OfArchive, Stays
<1>3. Reads(q) /\ reader'[q] = reader[q] /\ hit' = hit
  BY DEF DiskInv
<1>4. CASE reader[q] # Idle /\ ~reader[q].gone /\ reader[q].key[1] \notin hit
  <2>3. PICK k, r : k = reader[q].key /\ r = reader[q].seen
    OBVIOUS
  <2>1. CASE reader[q].pc \in {"select", "map"}
    <3>1. Kept(k, r)
      BY <1>3, <1>4, <2>1, <2>3 DEF Reads
    <3>2. Kept(k, r)' /\ entries'[r] = entries[r]
      BY <1>2, <3>1
    <3> QED  BY <1>3, <1>4, <2>1, <2>3, <3>2 DEF Reads
  <2>2. CASE reader[q].pc \notin {"select", "map"}
    BY <1>3, <1>4, <2>2 DEF Reads
  <2> QED  BY <2>1, <2>2
<1>5. CASE ~(reader[q] # Idle /\ ~reader[q].gone /\ reader[q].key[1] \notin hit)
  BY <1>3, <1>5 DEF Reads
<1> QED  BY <1>4, <1>5

\* What is left to show of a step of the extractor.
LEMMA OwnerStep ==
    ASSUME DiskInv, NEW p \in Process, mutex = p, NEW c \in ExtractorState, c.pc # "wait",
           ext' = [ext EXCEPT ![p] = c], UNCHANGED <<mutex, up, hit>>,
           Tables', Work(p)', AllWhole(c), 
           \/ reader' = reader /\ Stays(p, c)
           \/ /\ reader' \in [Process -> ReaderState \cup {Idle}]
              /\ \A q \in Process : reader'[q] # Idle => reader[q] # Idle
              /\ Leaving' = c.victims => \A q \in Process : Reads(q)'
    PROVE  DiskInv'
<1>1. ext'[p] = c /\ c.pc # "idle" /\ c # Idle /\ \A q \in Process : q # p => ext'[q] = ext[q]
  <2>1. c.pc # "idle" /\ Idle.pc = "idle"
    BY DEF ExtractorState, Idle
  <2>2. ext'[p] = c /\ \A q \in Process : q # p => ext'[q] = ext[q]
    BY DEF DiskInv, Threads
  <2> QED  BY <2>1, <2>2
<1>2. ext[p].pc \notin {"idle", "wait"} /\ ext[p] # Idle /\ p \in up
  BY ThreadKinds DEF DiskInv, Threads
<1>3. Threads'
  <2>1. ext' \in [Process -> ExtractorState \cup {Idle}]
    BY DEF DiskInv, Threads
  <2>2. reader' \in [Process -> ReaderState \cup {Idle}]
    BY DEF DiskInv, Threads
  <2>3. ASSUME NEW q \in Process
        PROVE  /\ ext'[q] # Idle => q \in up' /\ (reader'[q] # Idle => q \in up')
               /\ ext'[q].pc \notin {"idle", "wait"} <=> mutex' = q
    BY <1>1, <1>2 DEF DiskInv, Threads
  <2>4. ASSUME NEW q \in Process PROVE reader'[q] # Idle => q \in up'
    BY DEF DiskInv, Threads
  <2> QED  BY <2>1, <2>2, <2>3, <2>4 DEF DiskInv, Threads
<1>4. ASSUME NEW q \in Process PROVE Work(q)'
  <2>1. CASE q = p
    BY <2>1
  <2>2. CASE q # p
    <3>1. ext'[q] = ext[q] /\ ext[q].pc \in {"idle", "wait"} /\ Evicting(q) /\ Position(q)
      BY <1>1, <2>2 DEF DiskInv, Threads, Work
    <3> QED  BY <3>1 DEF Work, Evicting, RowKnown, Position, At, Clean, Filled, HasEntry
  <2> QED  BY <2>1, <2>2
<1>5. Leaving' = c.victims
  <2>1. Threads' /\ (\A q \in Process : Evicting(q))' /\ mutex' = p
    BY <1>3, <1>4 DEF Work
  <2>2. OwnerEvicts'
    BY LeavingIs, PTL
  <2>3. Leaving' = ext'[p].victims
    BY <2>1, <2>2 DEF OwnerEvicts
  <2> QED  BY <1>1, <2>3
<1>6. WholeRows'
  BY <1>5 DEF AllWhole, WholeRows, Standing
<1>7. ASSUME NEW q \in Process PROVE Reads(q)'
  <2>1. CASE reader' = reader /\ Stays(p, c)
    BY <1>5, <2>1, ReadsStay
  <2>2. CASE ~(reader' = reader /\ Stays(p, c))
    BY <1>5, <2>2
  <2> QED  BY <2>1, <2>2
<1> QED  BY <1>3, <1>4, <1>6, <1>7 DEF DiskInv

\* While room is made for a piece, the item and its row stay as they are.
LEMMA SameItem ==
    ASSUME NEW p \in Process, NEW c, ext'[p] = c, Work(p), hit' = hit,
           c.a = ext[p].a, c.i = ext[p].i, c.piece = ext[p].piece,
           ext[p].i \in Item(ext[p].a),
           ext[p].pc \in {"append", "look up", "room", "evict rows", "evict archive",
                          "look up again"},
           c.pc \in {"look up", "room", "evict rows", "evict archive", "look up again",
                     "add or append"},
           \A r \in DOMAIN entries' : Mine(p, r)' =>
                /\ r \in DOMAIN entries /\ Mine(p, r) /\ entries'[r] = entries[r]
                /\ r \in DOMAIN files => r \in DOMAIN files' /\ files'[r] = files[r],
           \A r \in DOMAIN entries : OfArchive(r, ext[p].a) =>
                r \in DOMAIN entries' /\ entries'[r] = entries[r] /\ OfArchive(r, ext[p].a)'
    PROVE  Position(p)' /\ Clean(p)' /\ Filled(p)' /\ HasEntry(p)'
<1>1. At(p) /\ ext[p].pc \notin {"write file", "mark", "update size"}
  BY DEF At
<1>7. At(p)' /\ ext'[p].pc \notin {"append", "write file", "mark", "update size", "wait",
                                   "purge files", "purge rows", "purge archive"}
  BY DEF At
<1>2. ext'[p].a = ext[p].a /\ ext'[p].i = ext[p].i /\ ext'[p].piece = ext[p].piece
  OBVIOUS
<1>3. Position(p)'
  BY <1>1, <1>2, <1>7 DEF Position, Work
<1>4. Clean(p)'
  BY <1>1, <1>2, <1>7 DEF Clean, Work
<1>5. Filled(p)'
  <2> SUFFICES ASSUME ext[p].a \notin hit, NEW r \in DOMAIN entries', Mine(p, r)',
                      entries'[r].item = ext[p].i
               PROVE  HasPieces(p, r, ext[p].piece - 1, ext[p].piece - 1)'
    BY <1>2, <1>7 DEF Filled
  <2>1. HasPieces(p, r, ext[p].piece - 1, ext[p].piece - 1)
    BY <1>1 DEF Work, Filled
  <2> QED  BY <1>2, <2>1 DEF HasPieces, Current
<1>6. HasEntry(p)'
  <2> SUFFICES ASSUME ext[p].a \notin hit, ext[p].piece > 1
               PROVE  \E r \in DOMAIN entries' :
                        OfArchive(r, ext[p].a)' /\ entries'[r].item = ext[p].i
    BY <1>2, <1>7 DEF HasEntry
  <2>1. PICK r \in DOMAIN entries : OfArchive(r, ext[p].a) /\ entries[r].item = ext[p].i
    BY <1>1 DEF Work, HasEntry
  <2> QED  BY <2>1
<1> QED  BY <1>3, <1>4, <1>5, <1>6

\* A piece after those that are there.
LEMMA Snoc ==
    ASSUME NEW k, NEW n \in Nat, n >= 1
    PROVE  [j \in 1..(n - 1) |-> <<k, j>>] \o <<<<k, n>>>> = [j \in 1..n |-> <<k, j>>]
<1> DEFINE s == [j \in 1..(n - 1) |-> <<k, j>>]
           t == [j \in 1..n |-> <<k, j>>]
<1>1. s \in Seq({k} \X Nat) /\ Len(s) = n - 1
  OBVIOUS
<1>2. DOMAIN (s \o <<<<k, n>>>>) = 1..n
  BY <1>1
<1>3. \A j \in 1..n : (s \o <<<<k, n>>>>)[j] = t[j]
  BY <1>1
<1>4. PICK u : u = s \o <<<<k, n>>>>
  OBVIOUS
<1>5. u \in Seq({k} \X Nat) /\ Len(u) = n
  BY <1>1, <1>4
<1>6. u \in [1..n -> {k} \X Nat] /\ t \in [1..n -> {k} \X Nat]
  BY <1>5
<1>7. \A j \in 1..n : u[j] = t[j]
  BY <1>3, <1>4
<1>8. u = t
  BY <1>6, <1>7
<1> QED  BY <1>4, <1>8

\* After a piece the decoder goes on with the next one, or the item is marked.
LEMMA NextPiece ==
    ASSUME NEW p \in Process, NEW c, ext'[p] = c, ext[p] \in ExtractorState, Work(p), At(p),
           hit' = hit, c.a = ext[p].a, c.i = ext[p].i, ext[p].i \in Item(ext[p].a),
           c.pc = (IF ext[p].piece < Pieces[ext[p].a][ext[p].i] THEN "append" ELSE "mark"),
           c.piece = (IF ext[p].piece < Pieces[ext[p].a][ext[p].i]
                      THEN ext[p].piece + 1 ELSE ext[p].piece),
           \A r \in DOMAIN entries' : Mine(p, r)' =>
                entries'[r].item <= ext[p].i /\ entries'[r].completed = p,
           ext[p].a \notin hit => \A r \in DOMAIN entries' :
              Mine(p, r)' /\ entries'[r].item = ext[p].i =>
                /\ entries'[r].size = ext[p].piece /\ r \in DOMAIN files'
                /\ files'[r] = [j \in 1..ext[p].piece |-> <<Current(p), j>>],
           ext[p].a \notin hit => \E r \in DOMAIN entries' :
                OfArchive(r, ext[p].a)' /\ entries'[r].item = ext[p].i
    PROVE  Position(p)' /\ Clean(p)' /\ Filled(p)' /\ HasEntry(p)'
<1>1. ext'[p].a = ext[p].a /\ ext'[p].i = ext[p].i /\ At(p)'
  BY DEF At
<1>2. ext[p].piece \in Nat /\ Pieces[ext[p].a][ext[p].i] \in Nat
      /\ ext[p].piece <= Pieces[ext[p].a][ext[p].i]
  BY PiecesAre DEF ExtractorState, Work, Position
<1>3. Clean(p)'
  BY <1>1 DEF Clean
<1>4. HasEntry(p)'
  BY <1>1 DEF HasEntry
<1>5. CASE ext[p].piece < Pieces[ext[p].a][ext[p].i]
  <2>1. /\ ext'[p].pc = "append" /\ ext'[p].piece = ext[p].piece + 1
        /\ ext'[p].piece <= Pieces[ext[p].a][ext[p].i] /\ ext'[p].piece - 1 = ext[p].piece
    BY <1>2, <1>5
  <2>2. Position(p)'
    BY <1>1, <2>1 DEF Position
  <2>3. Filled(p)'
    BY <1>1, <2>1 DEF Filled, HasPieces, Current
  <2> QED  BY <1>3, <1>4, <2>2, <2>3
<1>6. CASE ~(ext[p].piece < Pieces[ext[p].a][ext[p].i])
  <2>1. /\ ext'[p].pc = "mark" /\ ext'[p].piece = ext[p].piece
        /\ ext'[p].piece = Pieces[ext[p].a][ext[p].i]
        /\ ext'[p].piece <= Pieces[ext[p].a][ext[p].i]
    BY <1>2, <1>6
  <2>2. Position(p)'
    BY <1>1, <2>1 DEF Position
  <2>3. Filled(p)'
    BY <1>1, <2>1 DEF Filled, HasPieces, Current
  <2> QED  BY <1>3, <1>4, <2>2, <2>3
<1> QED  BY <1>5, <1>6

\* The rows of archives that an entry refers to are never dropped.
RowsStay ==
    /\ entries' = entries /\ sequence' = sequence
    /\ DOMAIN archives' \subseteq DOMAIN archives
    /\ \A x \in DOMAIN archives' : archives'[x] = archives[x]
    /\ \A r \in DOMAIN entries :
          entries[r].aidx \in DOMAIN archives => entries[r].aidx \in DOMAIN archives'

\* DELETE FROM archive drops no other row, and the tables stay legal.
LEMMA Purged ==
    ASSUME Tables, NEW x, archives' = PurgeUnreferencedWithAIdx(x),
           UNCHANGED <<sequence, entries, files>>
    PROVE  Tables' /\ RowsStay
<1>1. archives' = Without(archives, {x} \ Referenced)
  BY DEF PurgeUnreferencedWithAIdx
<1>2. archives' \in [DOMAIN archives' -> Archive]
  BY <1>1 DEF Tables, ArchiveTable, Without, Restrict
<1>3. RowsStay
  BY <1>1 DEF RowsStay, Without, Restrict, Referenced
<1> QED  BY <1>2, <1>3 DEF RowsStay, Tables, ArchiveTable, EntryTable, Files

\* An archive gets a row if it has none; no entry refers to a new row.
LEMMA Added ==
    ASSUME Tables, NEW a \in Archive, AddUnlessThere(a), UNCHANGED <<entries, files>>
    PROVE  /\ Tables' /\ sequence \in Nat /\ sequence' \in Nat /\ sequence' >= sequence
           /\ a \in Range(archives')
           /\ a \in Range(archives) => archives' = archives
           /\ \A x \in DOMAIN archives : x \in DOMAIN archives' /\ archives'[x] = archives[x]
           /\ \A r \in DOMAIN entries :
                 entries[r].aidx \in DOMAIN archives' <=> entries[r].aidx \in DOMAIN archives
<1>1. sequence \in Nat \ {0} /\ DOMAIN archives \subseteq 1..(sequence - 1)
  BY DEF Tables, ArchiveTable
<1>2. CASE a \in Range(archives)
  <2>1. archives' = archives /\ sequence' = sequence
    BY <1>2 DEF AddUnlessThere
  <2>2. Tables'
    BY <2>1 DEF Tables, ArchiveTable, EntryTable, Files
  <2> QED  BY <1>1, <1>2, <2>1, <2>2
<1>3. CASE a \notin Range(archives)
  <2>1. archives' = With(archives, sequence, a) /\ sequence' = sequence + 1
    BY <1>3 DEF AddUnlessThere
  <2>2. sequence \notin DOMAIN archives
    BY <1>1
  <2>3. /\ DOMAIN archives' = DOMAIN archives \cup {sequence} /\ archives'[sequence] = a
        /\ \A x \in DOMAIN archives : archives'[x] = archives[x]
        /\ archives' \in [DOMAIN archives' -> Archive]
    BY <2>1, <2>2 DEF With, Tables, ArchiveTable
  <2>4. \A x \in DOMAIN archives : archives[x] # a
    BY <1>3 DEF Range
  <2>5. sequence' \in Nat \ {0} /\ sequence' >= sequence /\ sequence' - 1 = sequence
    BY <1>1, <2>1
  <2>6. ArchiveTable'
    <3>1. DOMAIN archives' \subseteq 1..(sequence' - 1)
      BY <1>1, <2>3, <2>5
    <3>2. \A x, y \in DOMAIN archives' : archives'[x] = archives'[y] => x = y
      BY <2>3, <2>4 DEF Tables, ArchiveTable
    <3> QED  BY <2>3, <2>5, <3>1, <3>2 DEF ArchiveTable
  <2>7. EntryTable'
    <3>1. \A r \in DOMAIN entries : entries[r].aidx \in 0..(sequence' - 1)
      BY <1>1, <2>5 DEF Tables, EntryTable
    <3> QED  BY <3>1 DEF Tables, EntryTable
  <2>8. \A r \in DOMAIN entries : entries[r].aidx # sequence
    <3>1. \A r \in DOMAIN entries : entries[r].aidx \in 0..(sequence - 1)
      BY DEF Tables, EntryTable
    <3> QED  BY <1>1, <3>1
  <2>9. a \in Range(archives')
    BY <2>3 DEF Range
  <2>10. Files'
    BY DEF Tables, Files
  <2>11. Tables'
    BY <2>6, <2>7, <2>10 DEF Tables
  <2> QED  BY <1>1, <1>3, <2>3, <2>5, <2>8, <2>9, <2>11
<1> QED  BY <1>2, <1>3

----------------------------------------------------------------------------
(* The steps of the extractor that holds the mutex                         *)

\* PurgeUnmarked_ deletes files of unfinished entries only.
LEMMA PurgeFilesKeeps ==
    ASSUME DiskInv, NEW p \in Process, PurgeFiles(p)
    PROVE  DiskInv'
<1>1. /\ ext[p].pc = "purge files" /\ mutex = p /\ ext[p] \in ExtractorState
      /\ Tables /\ Work(p) /\ ext[p].victims = {}
  BY ThreadKinds DEF PurgeFiles, DiskInv, Threads, Work, Evicting
<1>9. PICK x : x = ArchiveIdx(ext[p].a)
  OBVIOUS
<1>10. x \in Nat /\ \A y \in DOMAIN archives : archives[y] = ext[p].a <=> y = x
  BY <1>1, <1>9, ArchiveIdxIs DEF Tables
<1>2. PICK c : c = [ext[p] EXCEPT !.pc = "purge rows", !.aidx = x]
  OBVIOUS
<1>3. /\ c \in ExtractorState /\ c.pc = "purge rows" /\ c.a = ext[p].a /\ c.aidx = x
      /\ c.victims = ext[p].victims /\ c.need = ext[p].need /\ c.i = ext[p].i
      /\ c.piece = ext[p].piece /\ c.extracted = ext[p].extracted
  BY <1>1, <1>2, <1>10 DEF ExtractorState
<1>4. /\ ext' = [ext EXCEPT ![p] = c] /\ ext'[p] = c
      /\ UNCHANGED <<mutex, up, hit, archives, sequence, entries, reader>>
  BY <1>2, <1>9 DEF PurgeFiles, Goto, Written, tables, DiskInv, Threads
<1>11. files' = Without(files, Rows(x) \ Completed(x))
  BY <1>9 DEF PurgeFiles
<1>12. /\ DOMAIN files' = DOMAIN files \ (Rows(x) \ Completed(x))
       /\ \A r \in DOMAIN files' : files'[r] = files[r]
  BY <1>11 DEF Without, Restrict
<1>5. Tables'
  <2>1. ArchiveTable' /\ EntryTable'
    BY <1>1, <1>4 DEF Tables, ArchiveTable, EntryTable
  <2>2. Files'
    BY <1>1, <1>11 DEF Tables, Files, Without, Restrict
  <2> QED  BY <2>1, <2>2 DEF Tables
<1>6. Work(p)'
  <2>1. Evicting(p)'
    BY <1>1, <1>3, <1>4 DEF Evicting
  <2>2. RowKnown(p)'
    BY <1>3, <1>4, <1>10 DEF RowKnown
  <2>3. Position(p)'
    BY <1>1, <1>3, <1>4 DEF Position, Work, At
  <2>4. Clean(p)'
    BY <1>3, <1>4 DEF Clean, At
  <2>5. Filled(p)'
    BY <1>3, <1>4 DEF Filled, At
  <2>6. HasEntry(p)'
    BY <1>3, <1>4 DEF HasEntry, At
  <2> QED  BY <2>1, <2>2, <2>3, <2>4, <2>5, <2>6 DEF Work
<1>7. AllWhole(c)
  <2> SUFFICES ASSUME NEW r \in DOMAIN entries, entries[r].completed = Done,
                      entries[r].aidx \in DOMAIN archives,
                      archives[entries[r].aidx] \notin hit
               PROVE  Whole(r)'
    BY <1>4 DEF AllWhole
  <2>1. Whole(r)
    BY <1>1, AreWhole
  <2>2. r \notin Rows(x) \ Completed(x)
    BY <1>1, RowsAre
  <2> QED  BY <1>4, <1>12, <2>1, <2>2 DEF Whole, Full
<1>8. reader' = reader /\ Stays(p, c)
  BY <1>1, <1>3, <1>4 DEF Stays
<1> QED  BY <1>1, <1>3, <1>4, <1>5, <1>6, <1>7, <1>8, OwnerStep

\* The unfinished entries of the archive are deleted.
LEMMA PurgeRowsKeeps ==
    ASSUME DiskInv, NEW p \in Process, PurgeRows(p)
    PROVE  DiskInv'
<1>1. /\ ext[p].pc = "purge rows" /\ mutex = p /\ ext[p] \in ExtractorState
      /\ Tables /\ Work(p) /\ ext[p].victims = {}
  BY ThreadKinds DEF PurgeRows, DiskInv, Threads, Work, Evicting
<1>2. PICK c : c = [ext[p] EXCEPT !.pc = "purge archive"]
  OBVIOUS
<1>3. /\ c \in ExtractorState /\ c.pc = "purge archive" /\ c.a = ext[p].a
      /\ c.aidx = ext[p].aidx /\ c.victims = ext[p].victims /\ c.need = ext[p].need
      /\ c.i = ext[p].i /\ c.piece = ext[p].piece /\ c.extracted = ext[p].extracted
  BY <1>1, <1>2 DEF ExtractorState
<1>4. /\ ext' = [ext EXCEPT ![p] = c] /\ ext'[p] = c
      /\ UNCHANGED <<mutex, up, hit, archives, sequence, files, reader>>
  BY <1>2 DEF PurgeRows, Goto, DiskInv, Threads
<1>9. PICK x : x = ext[p].aidx
  OBVIOUS
<1>10. entries' = Without(entries, Rows(x) \ Completed(x))
  BY <1>9 DEF PurgeRows
<1>11. /\ \A r \in DOMAIN entries' :
             /\ r \in DOMAIN entries /\ entries'[r] = entries[r]
             /\ entries[r].aidx = x => entries[r].completed = Done
       /\ \A r \in DOMAIN entries : entries[r].completed = Done => r \in DOMAIN entries'
  <2>1. /\ DOMAIN entries' = DOMAIN entries \ (Rows(x) \ Completed(x))
        /\ \A r \in DOMAIN entries' : entries'[r] = entries[r]
    BY <1>10 DEF Without, Restrict
  <2> QED  BY <1>1, <2>1, RowsAre
<1>5. Tables'
  <2>2. EntryTable'
    <3>1. entries' \in [DOMAIN entries' -> LegalRow]
      BY <1>1, <1>10 DEF Tables, EntryTable, Without, Restrict
    <3>2. DOMAIN entries' \subseteq DOMAIN entries
      BY <1>11
    <3> QED  BY <1>1, <1>4, <1>11, <3>1, <3>2 DEF Tables, EntryTable
  <2> QED  BY <1>1, <1>4, <2>2 DEF Tables, ArchiveTable, Files
<1>6. Work(p)'
  <2>1. Evicting(p)'
    BY <1>1, <1>3, <1>4 DEF Evicting
  <2>2. RowKnown(p)'
    BY <1>1, <1>3, <1>4 DEF RowKnown, Work
  <2>3. Position(p)'
    BY <1>1, <1>3, <1>4 DEF Position, At, Work
  <2>4. Clean(p)'
    <3>1. \A y \in DOMAIN archives : archives[y] = ext[p].a => y = x
      BY <1>1, <1>9 DEF Work, RowKnown
    <3>2. ASSUME NEW r \in DOMAIN entries' PROVE ~Mine(p, r)'
      BY <1>3, <1>4, <1>11, <3>1 DEF Mine, OfArchive
    <3> QED  BY <1>3, <1>4, <3>2 DEF Clean, At
  <2>5. Filled(p)'
    BY <1>3, <1>4 DEF Filled, At
  <2>6. HasEntry(p)'
    BY <1>3, <1>4 DEF HasEntry, At
  <2> QED  BY <2>1, <2>2, <2>3, <2>4, <2>5, <2>6 DEF Work
<1>7. AllWhole(c)
  <2> SUFFICES ASSUME NEW r \in DOMAIN entries', entries'[r].completed = Done,
                      entries'[r].aidx \in DOMAIN archives,
                      archives[entries'[r].aidx] \notin hit
               PROVE  Whole(r)'
    BY <1>4 DEF AllWhole
  <2>1. r \in DOMAIN entries /\ entries'[r] = entries[r]
    BY <1>11
  <2>2. Whole(r)
    BY <1>1, <2>1, AreWhole
  <2> QED  BY <1>4, <2>1, <2>2 DEF Whole, Full
<1>8. reader' = reader /\ Stays(p, c)
  BY <1>1, <1>3, <1>4, <1>11 DEF Stays
<1> QED  BY <1>1, <1>3, <1>4, <1>5, <1>6, <1>7, <1>8, OwnerStep

\* The row of the archive goes, if no entry is left of it.
LEMMA PurgeArchiveKeeps ==
    ASSUME DiskInv, NEW p \in Process, PurgeArchive(p)
    PROVE  DiskInv'
<1>1. /\ ext[p].pc = "purge archive" /\ mutex = p /\ ext[p] \in ExtractorState
      /\ Tables /\ Work(p) /\ ext[p].victims = {}
  BY ThreadKinds DEF PurgeArchive, DiskInv, Threads, Work, Evicting
<1>2. PICK c : c = [ext[p] EXCEPT !.pc = IF ext[p].extracted THEN "release" ELSE "append"]
  OBVIOUS
<1>3. /\ c \in ExtractorState
      /\ c.pc = (IF ext[p].extracted THEN "release" ELSE "append") /\ c.a = ext[p].a
      /\ c.aidx = ext[p].aidx /\ c.victims = ext[p].victims /\ c.need = ext[p].need
      /\ c.i = ext[p].i /\ c.piece = ext[p].piece /\ c.extracted = ext[p].extracted
  BY <1>1, <1>2 DEF ExtractorState
<1>4. /\ ext' = [ext EXCEPT ![p] = c] /\ ext'[p] = c
      /\ UNCHANGED <<mutex, up, hit, sequence, entries, files, reader>>
  BY <1>2 DEF PurgeArchive, Goto, DiskInv, Threads
<1>5. Tables'
  BY <1>1, <1>4, Purged DEF PurgeArchive
<1>13. RowsStay
  BY <1>1, <1>4, Purged DEF PurgeArchive
<1>10. \A r \in DOMAIN entries : ~Mine(p, r)'
  BY <1>1, <1>3, <1>4, <1>13 DEF RowsStay, Work, Clean, Mine, OfArchive
<1>6. Work(p)'
  <2>1. Evicting(p)'
    BY <1>1, <1>3, <1>4 DEF Evicting
  <2>2. RowKnown(p)'
    BY <1>3, <1>4 DEF RowKnown
  <2>3. Position(p)'
    <3>1. c.pc = "append" => c.i = 1 /\ c.piece = 1
      BY <1>1, <1>3 DEF Work, Position
    <3>2. 1 \in Item(c.a) => 1 <= Pieces[c.a][1]
      BY <1>3, PiecesAre DEF ExtractorState
    <3> QED  BY <1>3, <1>4, <3>1, <3>2 DEF Position, At
  <2>4. Clean(p)'
    BY <1>3, <1>4, <1>10 DEF Clean, At
  <2>5. Filled(p)'
    BY <1>3, <1>4, <1>10 DEF Filled, At
  <2>6. HasEntry(p)'
    <3>1. c.pc = "append" => c.piece = 1
      BY <1>1, <1>3 DEF Work, Position
    <3>2. c.pc \in {"append", "release"}
      BY <1>3
    <3>3. CASE c.pc = "append"
      <4>1. ~(ext'[p].piece > 1)
        BY <1>4, <3>1, <3>3
      <4>2. ext'[p].pc = "append"
        BY <1>4, <3>3
      <4> QED  BY <4>1, <4>2 DEF HasEntry
    <3>4. CASE c.pc = "release"
      BY <1>4, <3>4 DEF HasEntry, At
    <3> QED  BY <3>2, <3>3, <3>4
  <2> QED  BY <2>1, <2>2, <2>3, <2>4, <2>5, <2>6 DEF Work
<1>7. AllWhole(c)
  <2> SUFFICES ASSUME NEW r \in DOMAIN entries, entries[r].completed = Done,
                      entries[r].aidx \in DOMAIN archives',
                      archives'[entries[r].aidx] \notin hit
               PROVE  Whole(r)'
    BY <1>4 DEF AllWhole
  <2>1. /\ entries[r].aidx \in DOMAIN archives
        /\ archives'[entries[r].aidx] = archives[entries[r].aidx]
    BY <1>13 DEF RowsStay
  <2>2. Whole(r)
    BY <1>1, <2>1, AreWhole
  <2> QED  BY <1>4, <2>1, <2>2 DEF Whole, Full
<1>8. reader' = reader /\ Stays(p, c)
  BY <1>1, <1>3, <1>4, <1>13 DEF Stays, RowsStay
<1> QED  BY <1>1, <1>3, <1>4, <1>5, <1>6, <1>7, <1>8, OwnerStep

\* The thread after a piece.
AfterPiece(p, c) ==
    /\ c.pc = (IF ext[p].piece < Pieces[ext[p].a][ext[p].i] THEN "append" ELSE "mark")
    /\ c.a = ext[p].a /\ c.aidx = ext[p].aidx /\ c.victims = ext[p].victims
    /\ c.i = ext[p].i
    /\ c.piece = (IF ext[p].piece < Pieces[ext[p].a][ext[p].i]
                  THEN ext[p].piece + 1 ELSE ext[p].piece)
\* Written leaves it there.
LEMMA WrittenIs ==
    ASSUME Threads, NEW p \in Process, ext[p] \in ExtractorState, Written(p)
    PROVE  \E c \in ExtractorState :
                ext' = [ext EXCEPT ![p] = c] /\ ext'[p] = c /\ AfterPiece(p, c)
<1>1. PICK c : c = IF ext[p].piece < Pieces[ext[p].a][ext[p].i]
               THEN [ext[p] EXCEPT !.pc = "append", !.piece = ext[p].piece + 1]
               ELSE [ext[p] EXCEPT !.pc = "mark"]
  OBVIOUS
<1>2. ext' = [ext EXCEPT ![p] = c] /\ ext'[p] = c
  BY <1>1 DEF Written, Goto, Threads
<1>3. ext[p].piece + 1 \in Nat \ {0}
  <2>1. ext[p].piece \in Nat
    BY DEF ExtractorState
  <2> QED  BY <2>1
<1>4. c \in ExtractorState /\ AfterPiece(p, c)
  <2>1. CASE ext[p].piece < Pieces[ext[p].a][ext[p].i]
    BY <1>1, <1>3, <2>1 DEF ExtractorState, AfterPiece
  <2>2. CASE ~(ext[p].piece < Pieces[ext[p].a][ext[p].i])
    BY <1>1, <2>2 DEF ExtractorState, AfterPiece
  <2> QED  BY <2>1, <2>2
<1> QED  BY <1>2, <1>4

\* An item of an archive has one row.
LEMMA TheRow ==
    ASSUME Tables, NEW x, NEW i, NEW r0 \in Found(x, i)
    PROVE  /\ r0 \in DOMAIN entries /\ entries[r0] \in LegalRow
           /\ entries[r0].aidx = x /\ entries[r0].item = i
           /\ \A r \in DOMAIN entries : entries[r].aidx = x /\ entries[r].item = i => r = r0
           /\ \A r \in Found(x, i) : r = r0
BY DEF Tables, EntryTable, Found, Rows

\* The piece at hand, in a file.
LEMMA PieceIs ==
    ASSUME NEW p \in Process, ext[p] \in ExtractorState, ext[p].i \in Item(ext[p].a)
    PROVE  <<Current(p), ext[p].piece>> \in Key \X Nat
<1>1. ext[p].a \in Archive /\ ext[p].piece \in Nat
  BY DEF ExtractorState
<1>2. PICK a, i : a = ext[p].a /\ i = ext[p].i
  OBVIOUS
<1>3. <<a, i>> \in Key
  BY <1>1, <1>2 DEF Key
<1> QED  BY <1>1, <1>2, <1>3 DEF Current

\* A piece of a cached item is dropped.
LEMMA SkipPieceKeeps ==
    ASSUME DiskInv, NEW p \in Process, SkipPiece(p)
    PROVE  DiskInv'
<1>1. /\ ext[p].pc = "append" /\ mutex = p /\ ext[p] \in ExtractorState
      /\ Tables /\ Work(p) /\ ext[p].victims = {}
  BY ThreadKinds DEF SkipPiece, DiskInv, Threads, Work, Evicting
<1>2. PICK c \in ExtractorState :
         ext' = [ext EXCEPT ![p] = c] /\ ext'[p] = c /\ AfterPiece(p, c)
  BY <1>1, WrittenIs DEF DiskInv, SkipPiece
<1>3. /\ c \in ExtractorState
      /\ c.pc = (IF ext[p].piece < Pieces[ext[p].a][ext[p].i] THEN "append" ELSE "mark")
      /\ c.a = ext[p].a /\ c.aidx = ext[p].aidx /\ c.victims = ext[p].victims
      /\ c.i = ext[p].i
      /\ c.piece = (IF ext[p].piece < Pieces[ext[p].a][ext[p].i]
                    THEN ext[p].piece + 1 ELSE ext[p].piece)
      /\ c.pc # "wait"
  BY <1>2 DEF AfterPiece
<1>4. /\ ext' = [ext EXCEPT ![p] = c] /\ ext'[p] = c
      /\ UNCHANGED <<mutex, up, hit, archives, sequence, entries, files, reader>>
  BY <1>2 DEF SkipPiece, tables
<1>9. PICK r0 \in DOMAIN entries :
         /\ OfArchive(r0, ext[p].a)
         /\ entries[r0].item = ext[p].i /\ entries[r0].completed = Done
  <2>1. PICK x, a, i : a = ext[p].a /\ i = ext[p].i /\ x = ArchiveIdx(a)
    OBVIOUS
  <2>2. PICK r0 : r0 \in Found(x, i) \cap Completed(x) /\ a \in Range(archives)
    BY <2>1 DEF SkipPiece, IsCached, Finished, Current
  <2>3. r0 \in DOMAIN entries /\ entries[r0].aidx = x /\ entries[r0].item = i
        /\ entries[r0].completed = Done
    BY <1>1, <2>2, RowsAre
  <2>4. x \in DOMAIN archives /\ archives[x] = a
    BY <1>1, <2>1, <2>2, ArchiveIdxIs DEF Tables
  <2> QED  BY <2>1, <2>3, <2>4 DEF OfArchive
<1>10. \A r \in DOMAIN entries : Mine(p, r) => entries[r].item # ext[p].i
  BY <1>1, <1>9 DEF Mine, OfArchive, Tables, ArchiveTable, EntryTable
<1>14. \A r \in DOMAIN entries : /\ OfArchive(r, ext[p].a)' <=> OfArchive(r, ext[p].a)
                                 /\ Mine(p, r)' <=> Mine(p, r)
  BY <1>3, <1>4 DEF OfArchive, Mine
<1>15. Position(p)' /\ Clean(p)' /\ Filled(p)' /\ HasEntry(p)'
  <2>1. At(p) /\ ext[p].i \in Item(ext[p].a)
    BY <1>1 DEF SkipPiece, At
  <2>2. \A r \in DOMAIN entries' : Mine(p, r)' =>
          entries'[r].item <= ext[p].i /\ entries'[r].completed = p
    BY <1>1, <1>4, <1>14, <2>1 DEF Work, Clean
  <2>3. \A r \in DOMAIN entries' : Mine(p, r)' => entries'[r].item # ext[p].i
    BY <1>4, <1>10, <1>14
  <2>4. \E r \in DOMAIN entries' : OfArchive(r, ext[p].a)' /\ entries'[r].item = ext[p].i
    BY <1>4, <1>9, <1>14
  <2> QED  BY <1>1, <1>3, <1>4, <2>1, <2>2, <2>3, <2>4, NextPiece
<1>5. Tables'
  BY <1>1, <1>4 DEF Tables, ArchiveTable, EntryTable, Files
<1>6. Work(p)'
  <2>1. Evicting(p)'
    BY <1>1, <1>3, <1>4 DEF Evicting
  <2>2. RowKnown(p)'
    BY <1>1, <1>3, <1>4 DEF RowKnown, Work
  <2>3. Position(p)'
    BY <1>15
  <2>4. Clean(p)'
    BY <1>15
  <2>5. Filled(p)'
    BY <1>15
  <2>6. HasEntry(p)'
    BY <1>15
  <2> QED  BY <2>1, <2>2, <2>3, <2>4, <2>5, <2>6 DEF Work
<1>7. AllWhole(c)
  <2> SUFFICES ASSUME NEW r \in DOMAIN entries, entries[r].completed = Done,
                      entries[r].aidx \in DOMAIN archives,
                      archives[entries[r].aidx] \notin hit
               PROVE  Whole(r)'
    BY <1>4 DEF AllWhole
  <2>1. Whole(r)
    BY <1>1, AreWhole
  <2> QED  BY <1>4, <2>1 DEF Whole, Full
<1>8. reader' = reader /\ Stays(p, c)
  BY <1>1, <1>3, <1>4 DEF Stays
<1> QED  BY <1>1, <1>3, <1>4, <1>5, <1>6, <1>7, <1>8, OwnerStep

\* The decoder stops before a piece, or at the end.
LEMMA ExtractReturnsKeeps ==
    ASSUME DiskInv, NEW p \in Process, ExtractReturns(p)
    PROVE  DiskInv'
<1>1. /\ ext[p].pc = "append" /\ mutex = p /\ ext[p] \in ExtractorState
      /\ Tables /\ Work(p) /\ ext[p].victims = {}
  BY ThreadKinds DEF ExtractReturns, DiskInv, Threads, Work, Evicting
<1>2. PICK c : c = [ext[p] EXCEPT !.pc = "purge files", !.extracted = TRUE]
  OBVIOUS
<1>3. /\ c \in ExtractorState /\ c.pc = "purge files" /\ c.a = ext[p].a
      /\ c.aidx = ext[p].aidx /\ c.victims = ext[p].victims /\ c.need = ext[p].need
      /\ c.i = ext[p].i /\ c.piece = ext[p].piece /\ c.extracted = TRUE
  BY <1>1, <1>2 DEF ExtractorState
<1>4. /\ ext' = [ext EXCEPT ![p] = c] /\ ext'[p] = c
      /\ UNCHANGED <<mutex, up, hit, archives, sequence, entries, files, reader>>
  BY <1>2 DEF ExtractReturns, Goto, Written, tables, DiskInv, Threads
<1>5. Tables'
  BY <1>1, <1>4 DEF Tables, ArchiveTable, EntryTable, Files
<1>6. Work(p)'
  <2>1. Evicting(p)'
    BY <1>1, <1>3, <1>4 DEF Evicting
  <2>2. RowKnown(p)'
    BY <1>1, <1>3, <1>4 DEF RowKnown, Work
  <2>3. Position(p)'
    BY <1>3, <1>4 DEF Position, At
  <2>4. Clean(p)'
    BY <1>3, <1>4 DEF Clean, At
  <2>5. Filled(p)'
    BY <1>3, <1>4 DEF Filled, At
  <2>6. HasEntry(p)'
    BY <1>3, <1>4 DEF HasEntry, At
  <2> QED  BY <2>1, <2>2, <2>3, <2>4, <2>5, <2>6 DEF Work
<1>7. AllWhole(c)
  <2> SUFFICES ASSUME NEW r \in DOMAIN entries, entries[r].completed = Done,
                      entries[r].aidx \in DOMAIN archives,
                      archives[entries[r].aidx] \notin hit
               PROVE  Whole(r)'
    BY <1>4 DEF AllWhole
  <2>1. Whole(r)
    BY <1>1, AreWhole
  <2> QED  BY <1>4, <2>1 DEF Whole, Full
<1>8. reader' = reader /\ Stays(p, c)
  BY <1>1, <1>3, <1>4 DEF Stays
<1> QED  BY <1>1, <1>3, <1>4, <1>5, <1>6, <1>7, <1>8, OwnerStep

\* The archive gets a row, if it has none.
LEMMA Append_Keeps ==
    ASSUME DiskInv, NEW p \in Process, Append_(p)
    PROVE  DiskInv'
<1>1. /\ ext[p].pc = "append" /\ mutex = p /\ ext[p] \in ExtractorState
      /\ Tables /\ Work(p) /\ ext[p].victims = {}
  BY ThreadKinds DEF Append_, DiskInv, Threads, Work, Evicting
<1>2. PICK c : c = [ext[p] EXCEPT !.pc = "look up"]
  OBVIOUS
<1>3. /\ c \in ExtractorState /\ c.pc = "look up" /\ c.a = ext[p].a
      /\ c.aidx = ext[p].aidx /\ c.victims = ext[p].victims /\ c.need = ext[p].need
      /\ c.i = ext[p].i /\ c.piece = ext[p].piece /\ c.extracted = ext[p].extracted
  BY <1>1, <1>2 DEF ExtractorState
<1>4. /\ ext' = [ext EXCEPT ![p] = c] /\ ext'[p] = c
      /\ UNCHANGED <<mutex, up, hit, entries, files, reader>>
  BY <1>2 DEF Append_, Goto, DiskInv, Threads
<1>9. PICK a \in Archive : a = ext[p].a /\ AddUnlessThere(a)
  BY <1>1 DEF Append_, ExtractorState
<1>5. Tables'
  BY <1>1, <1>4, <1>9, Added
<1>13. /\ \A y \in DOMAIN archives : y \in DOMAIN archives' /\ archives'[y] = archives[y]
       /\ \A r \in DOMAIN entries :
             /\ entries[r].aidx \in DOMAIN archives' <=> entries[r].aidx \in DOMAIN archives
             /\ entries[r].aidx \in DOMAIN archives'
                => archives'[entries[r].aidx] = archives[entries[r].aidx]
  BY <1>1, <1>4, <1>9, Added
<1>14. \A r \in DOMAIN entries : OfArchive(r, ext[p].a)' <=> OfArchive(r, ext[p].a)
  BY <1>3, <1>4, <1>13 DEF OfArchive
<1>15. \A r \in DOMAIN entries : Mine(p, r)' <=> Mine(p, r)
  BY <1>4, <1>14 DEF Mine
<1>16. Position(p)' /\ Clean(p)' /\ Filled(p)' /\ HasEntry(p)'
  <2>1. ext[p].i \in Item(ext[p].a)
    BY DEF Append_
  <2> QED  BY <1>1, <1>3, <1>4, <1>14, <1>15, <2>1, SameItem
<1>6. Work(p)'
  <2>1. Evicting(p)'
    BY <1>1, <1>3, <1>4 DEF Evicting
  <2>2. RowKnown(p)'
    BY <1>3, <1>4 DEF RowKnown
  <2>3. Position(p)'
    BY <1>16
  <2>4. Clean(p)'
    BY <1>16
  <2>5. Filled(p)'
    BY <1>16
  <2>6. HasEntry(p)'
    BY <1>16
  <2> QED  BY <2>1, <2>2, <2>3, <2>4, <2>5, <2>6 DEF Work
<1>7. AllWhole(c)
  <2> SUFFICES ASSUME NEW r \in DOMAIN entries, entries[r].completed = Done,
                      entries[r].aidx \in DOMAIN archives',
                      archives'[entries[r].aidx] \notin hit
               PROVE  Whole(r)'
    BY <1>4 DEF AllWhole
  <2>1. /\ entries[r].aidx \in DOMAIN archives
        /\ archives'[entries[r].aidx] = archives[entries[r].aidx]
    BY <1>13
  <2>2. Whole(r)
    BY <1>1, <2>1, AreWhole
  <2> QED  BY <1>4, <2>1, <2>2 DEF Whole, Full
<1>8. reader' = reader /\ Stays(p, c)
  BY <1>1, <1>3, <1>4, <1>13 DEF Stays
<1> QED  BY <1>1, <1>3, <1>4, <1>5, <1>6, <1>7, <1>8, OwnerStep

\* Its number is looked up, and what has to go is known.
LEMMA LookUpKeeps ==
    ASSUME DiskInv, NEW p \in Process, LookUp(p)
    PROVE  DiskInv'
<1>1. /\ ext[p].pc = "look up" /\ mutex = p /\ ext[p] \in ExtractorState
      /\ Tables /\ Work(p) /\ ext[p].victims = {}
  BY ThreadKinds DEF LookUp, DiskInv, Threads, Work, Evicting
<1>9. PICK x, n : x = ArchiveIdx(ext[p].a) /\ n = Reduction(GetSize + 1)
  OBVIOUS
<1>10. n \in Nat
  <2>1. GetSize + 1 \in Nat
    <3>1. GetSize \in Nat
      BY <1>1, Rowids DEF GetSize
    <3> QED  BY <3>1
  <2> QED  BY <1>9, <2>1, ReductionIs
<1>11. /\ x \in Nat /\ x \in 0..(sequence - 1)
       /\ \A y \in DOMAIN archives : archives[y] = ext[p].a <=> y = x
  <2>1. /\ x \in Nat /\ x < sequence
        /\ \A y \in DOMAIN archives : archives[y] = ext[p].a <=> y = x
    BY <1>1, <1>9, ArchiveIdxIs DEF Tables
  <2>2. sequence \in Nat
    BY <1>1 DEF Tables, ArchiveTable
  <2> QED  BY <2>1, <2>2
<1>2. PICK c : c = [ext[p] EXCEPT !.pc = "room", !.aidx = x, !.need = n]
  OBVIOUS
<1>3. /\ c \in ExtractorState /\ c.pc = "room" /\ c.a = ext[p].a /\ c.aidx = x
      /\ c.victims = ext[p].victims /\ c.need = n /\ c.i = ext[p].i
      /\ c.piece = ext[p].piece /\ c.extracted = ext[p].extracted
  BY <1>1, <1>2, <1>10, <1>11 DEF ExtractorState
<1>4. /\ ext' = [ext EXCEPT ![p] = c] /\ ext'[p] = c
      /\ UNCHANGED <<mutex, up, hit, archives, sequence, entries, files, reader>>
  <2>1. ext' = [ext EXCEPT ![p].pc = "room", ![p].aidx = x, ![p].need = n]
    BY <1>9 DEF LookUp
  <2> QED  BY <1>2, <2>1 DEF LookUp, tables, DiskInv, Threads
<1>16. Position(p)' /\ Clean(p)' /\ Filled(p)' /\ HasEntry(p)'
  <2>1. ext[p].i \in Item(ext[p].a)
    BY <1>1 DEF Work, Position, At
  <2>2. \A r \in DOMAIN entries : /\ OfArchive(r, ext[p].a)' <=> OfArchive(r, ext[p].a)
                                  /\ Mine(p, r)' <=> Mine(p, r)
    BY <1>3, <1>4 DEF OfArchive, Mine
  <2> QED  BY <1>1, <1>3, <1>4, <2>1, <2>2, SameItem
<1>5. Tables'
  BY <1>1, <1>4 DEF Tables, ArchiveTable, EntryTable, Files
<1>6. Work(p)'
  <2>1. Evicting(p)'
    BY <1>1, <1>3, <1>4 DEF Evicting
  <2>2. RowKnown(p)'
    BY <1>3, <1>4, <1>11 DEF RowKnown
  <2>3. Position(p)'
    BY <1>16
  <2>4. Clean(p)'
    BY <1>16
  <2>5. Filled(p)'
    BY <1>16
  <2>6. HasEntry(p)'
    BY <1>16
  <2> QED  BY <2>1, <2>2, <2>3, <2>4, <2>5, <2>6 DEF Work
<1>7. AllWhole(c)
  <2> SUFFICES ASSUME NEW r \in DOMAIN entries, entries[r].completed = Done,
                      entries[r].aidx \in DOMAIN archives,
                      archives[entries[r].aidx] \notin hit
               PROVE  Whole(r)'
    BY <1>4 DEF AllWhole
  <2>1. Whole(r)
    BY <1>1, AreWhole
  <2> QED  BY <1>4, <2>1 DEF Whole, Full
<1>8. reader' = reader /\ Stays(p, c)
  BY <1>1, <1>3, <1>4 DEF Stays
<1> QED  BY <1>1, <1>3, <1>4, <1>5, <1>6, <1>7, <1>8, OwnerStep

\* Files of finished entries of another archive go, and their readers know.
LEMMA EvictFilesKeeps ==
    ASSUME DiskInv, NEW p \in Process, EvictFiles(p)
    PROVE  DiskInv'
<1>1. /\ ext[p].pc = "room" /\ mutex = p /\ ext[p] \in ExtractorState
      /\ Tables /\ Work(p) /\ ext[p].victims = {}
  BY ThreadKinds DEF EvictFiles, DiskInv, Threads, Work, Evicting
<1>14. PICK x \in Evictable(p) :
        /\ files' = Without(files, EvictedRows(x, ext[p].need))
        /\ ext' = [ext EXCEPT ![p].pc = "evict rows",
                              ![p].victims = EvictedRows(x, ext[p].need)]
        /\ reader' = [q \in Process |->
                        IF reader[q] # Idle /\ reader[q].seen \in EvictedRows(x, ext[p].need)
                        THEN [reader[q] EXCEPT !.gone = TRUE] ELSE reader[q]]
  BY DEF EvictFiles
<1>9. PICK V : V = EvictedRows(x, ext[p].need)
  OBVIOUS
<1>11. /\ files' = Without(files, V)
       /\ ext' = [ext EXCEPT ![p].pc = "evict rows", ![p].victims = V]
       /\ reader' = [q \in Process |-> IF reader[q] # Idle /\ reader[q].seen \in V
                                      THEN [reader[q] EXCEPT !.gone = TRUE] ELSE reader[q]]
  BY <1>9, <1>14
<1>10. /\ x \in DOMAIN archives \ {ext[p].aidx}
       /\ V \subseteq DOMAIN entries /\ V # {}
       /\ \A r \in V : r \in Nat /\ entries[r].aidx = x /\ entries[r].completed = Done
  <2>1. x \in DOMAIN archives \ {ext[p].aidx} /\ Completed(x) # {}
    BY DEF Evictable
  <2>2. V \subseteq Completed(x)
    BY <1>9 DEF EvictedRows
  <2> DEFINE Items == {entries[s].item : s \in Completed(x)}
  <2>3. Items \in SUBSET Nat /\ Items # {}
    BY <1>1, <2>1, RowsAre DEF LegalRow
  <2>4. PICK r \in Completed(x) : \A s \in Completed(x) : entries[r].item <= entries[s].item
    <3> HIDE DEF Items
    <3>1. PICK m \in Items : \A k \in Items : m <= k
      BY <2>3, Least
    <3> QED  BY <3>1 DEF Items
  <2>5. {s \in Completed(x) : entries[s].item < entries[r].item} = {}
    <3>1. \A s \in Completed(x) : entries[s].item \in Nat
      BY <2>3
    <3> QED  BY <2>4, <3>1
  <2>6. SizeOf({s \in Completed(x) : entries[s].item < entries[r].item}) = 0
    <3>1. SizeOf({}) = 0
      BY <1>1, Rowids
    <3> QED  BY <2>5, <3>1, Zenon
  <2>7. r \in V
    <3>1. 0 < ext[p].need
      BY <1>1 DEF EvictFiles, ExtractorState
    <3> QED  BY <1>9, <2>6, <3>1 DEF EvictedRows
  <2>8. /\ Completed(x) \subseteq DOMAIN entries
        /\ \A s \in Completed(x) : entries[s].aidx = x /\ entries[s].completed = Done
    BY <1>1, RowsAre
  <2>9. \A s \in DOMAIN entries : s \in Nat
    BY <1>1, Rowids
  <2> QED  BY <2>1, <2>2, <2>7, <2>8, <2>9
<1>2. PICK c : c = [ext[p] EXCEPT !.pc = "evict rows", !.victims = V]
  OBVIOUS
<1>3. /\ c \in ExtractorState /\ c.pc = "evict rows" /\ c.a = ext[p].a
      /\ c.aidx = ext[p].aidx /\ c.victims = V /\ c.need = ext[p].need
      /\ c.i = ext[p].i /\ c.piece = ext[p].piece /\ c.extracted = ext[p].extracted
  BY <1>1, <1>2, <1>10 DEF ExtractorState
<1>4. /\ ext' = [ext EXCEPT ![p] = c] /\ ext'[p] = c
      /\ UNCHANGED <<mutex, up, hit, archives, sequence, entries>>
  BY <1>2, <1>11 DEF EvictFiles, Goto, Written, tables, DiskInv, Threads
<1>12. DOMAIN files' = DOMAIN files \ V /\ \A r \in DOMAIN files' : files'[r] = files[r]
  BY <1>11 DEF Without, Restrict
<1>13. Position(p)' /\ Clean(p)' /\ Filled(p)' /\ HasEntry(p)'
  <2>1. \A r \in DOMAIN entries : OfArchive(r, ext[p].a)' <=> OfArchive(r, ext[p].a)
    BY <1>3, <1>4 DEF OfArchive
  <2>2. \A r \in DOMAIN entries : Mine(p, r)' => Mine(p, r) /\ r \notin V
    BY <1>4, <1>10, <2>1 DEF Mine
  <2>3. ext[p].i \in Item(ext[p].a)
    BY <1>1 DEF Work, Position, At
  <2> QED  BY <1>1, <1>3, <1>4, <1>12, <2>1, <2>2, <2>3, SameItem
<1>5. Tables'
  <2>1. Files'
    BY <1>1, <1>11 DEF Tables, Files, Without, Restrict
  <2> QED  BY <1>1, <1>4, <2>1 DEF Tables, ArchiveTable, EntryTable
<1>6. Work(p)'
  <2>1. Evicting(p)'
    <3>1. ext'[p].pc = "evict rows" /\ ext'[p].victims = V /\ ext'[p].aidx = ext[p].aidx
      BY <1>3, <1>4
    <3>2. x \in DOMAIN archives' \ {ext'[p].aidx}
      BY <1>4, <1>10, <3>1
    <3> QED  BY <1>4, <1>10, <3>1, <3>2 DEF Evicting
  <2>2. RowKnown(p)'
    BY <1>1, <1>3, <1>4 DEF RowKnown, Work
  <2>3. Position(p)'
    BY <1>13
  <2>4. Clean(p)'
    BY <1>13
  <2>5. Filled(p)'
    BY <1>13
  <2>6. HasEntry(p)'
    BY <1>13
  <2> QED  BY <2>1, <2>2, <2>3, <2>4, <2>5, <2>6 DEF Work
<1>7. AllWhole(c)
  <2> SUFFICES ASSUME NEW r \in DOMAIN entries, entries[r].completed = Done,
                      entries[r].aidx \in DOMAIN archives, r \notin V,
                      archives[entries[r].aidx] \notin hit
               PROVE  Whole(r)'
    BY <1>3, <1>4 DEF AllWhole
  <2>1. Whole(r)
    BY <1>1, AreWhole
  <2> QED  BY <1>4, <1>12, <2>1 DEF Whole, Full
<1>8. /\ reader' \in [Process -> ReaderState \cup {Idle}]
      /\ \A q \in Process : reader'[q] # Idle => reader[q] # Idle
      /\ Leaving' = c.victims => \A q \in Process : Reads(q)'
  <2>1. ASSUME NEW q \in Process
        PROVE  IF reader[q] # Idle /\ reader[q].seen \in V
               THEN reader[q] # Idle /\ reader'[q] = [reader[q] EXCEPT !.gone = TRUE]
               ELSE reader'[q] = reader[q]
    BY <1>11
  <2>2. ASSUME NEW q \in Process
        PROVE  /\ reader'[q] \in ReaderState \cup {Idle}
               /\ reader'[q] # Idle => reader[q] # Idle
               /\ reader'[q] = reader[q] \/ reader'[q].gone
               /\ reader[q] # Idle /\ reader[q].seen \in V => reader'[q].gone
    <3>1. reader[q] # Idle => reader[q] \in ReaderState
      BY ThreadKinds DEF DiskInv
    <3> QED  BY <2>1, <3>1 DEF ReaderState, DiskInv, Threads
  <2>3. reader' \in [Process -> ReaderState \cup {Idle}]
    BY <1>11, <2>2
  <2>4. ASSUME Leaving' = V, NEW q \in Process PROVE Reads(q)'
    <3>1. CASE reader'[q].gone
      BY <3>1 DEF Reads
    <3>2. CASE ~reader'[q].gone
      <4>1. reader'[q] = reader[q] /\ (reader[q] # Idle => reader[q].seen \notin V)
        BY <2>2, <3>2
      <4>2. ASSUME NEW k, NEW r, Kept(k, r), r \notin V PROVE Kept(k, r)'
        BY <1>4, <2>4, <4>2 DEF Kept, Standing, OfArchive
      <4>3. Reads(q)
        BY DEF DiskInv
      <4>4. PICK k, r : k = reader[q].key /\ r = reader[q].seen
        OBVIOUS
      <4> QED  BY <1>4, <4>1, <4>2, <4>3, <4>4 DEF Reads
    <3> QED  BY <3>1, <3>2
  <2> QED  BY <1>3, <2>2, <2>3, <2>4
<1> QED  BY <1>1, <1>3, <1>4, <1>5, <1>6, <1>7, <1>8, OwnerStep

\* Their entries go.
LEMMA EvictRowsKeeps ==
    ASSUME DiskInv, NEW p \in Process, EvictRows(p)
    PROVE  DiskInv'
<1>1. /\ ext[p].pc = "evict rows" /\ mutex = p /\ ext[p] \in ExtractorState
      /\ Tables /\ Work(p)
  BY ThreadKinds DEF EvictRows, DiskInv, Threads, Work, Evicting
<1>9. PICK n : n = Remaining(ext[p].need, ext[p].victims)
  OBVIOUS
<1>10. PICK x \in DOMAIN archives \ {ext[p].aidx} :
         /\ \A r \in ext[p].victims : entries[r].aidx = x /\ entries[r].completed = Done
         /\ ext[p].victims # {} /\ ext[p].victims \subseteq DOMAIN entries
  BY <1>1 DEF Work, Evicting
<1>17. x \in Nat /\ x = entries[CHOOSE r \in ext[p].victims : TRUE].aidx
  <2>1. x \in Nat
    <3>1. DOMAIN archives \subseteq 1..(sequence - 1)
      BY <1>1 DEF Tables, ArchiveTable
    <3> QED  BY <3>1
  <2> QED  BY <1>10, <2>1
<1>11. n \in Nat
  <2>1. PICK m : m = ext[p].need - SizeOf(ext[p].victims)
    OBVIOUS
  <2>2. m \in Int /\ 0 \in Int
    <3>1. ext[p].need \in Nat
      BY <1>1 DEF ExtractorState
    <3>2. SizeOf(ext[p].victims) \in Nat
      BY <1>1, <1>10, Rowids
    <3> QED  BY <2>1, <3>1, <3>2
  <2>3. Max({0, m}) \in {0, m} /\ Max({0, m}) >= 0
    BY <2>2, MaxOfTwo, Zenon
  <2>4. n = Max({0, m})
    BY <1>9, <2>1, Zenon DEF Remaining
  <2> QED  BY <2>2, <2>3, <2>4
<1>2. PICK c : c = [ext[p] EXCEPT !.pc = "evict archive", !.victims = {}, !.from = x, !.need = n]
  OBVIOUS
<1>3. /\ c \in ExtractorState /\ c.pc = "evict archive" /\ c.a = ext[p].a
      /\ c.aidx = ext[p].aidx /\ c.victims = {} /\ c.need = n /\ c.i = ext[p].i
      /\ c.piece = ext[p].piece /\ c.extracted = ext[p].extracted
  BY <1>1, <1>2, <1>11, <1>17 DEF ExtractorState
<1>4. /\ ext' = [ext EXCEPT ![p] = c] /\ ext'[p] = c
      /\ UNCHANGED <<mutex, up, hit, archives, sequence, files, reader>>
  <2>1. ext' = [ext EXCEPT ![p].pc = "evict archive", ![p].victims = {}, ![p].from = x,
                          ![p].need = n]
    BY <1>9, <1>17 DEF EvictRows
  <2> QED  BY <1>2, <2>1 DEF EvictRows, DiskInv, Threads
<1>13. /\ DOMAIN entries' = DOMAIN entries \ ext[p].victims
       /\ \A r \in DOMAIN entries' : entries'[r] = entries[r]
  BY DEF EvictRows, Without, Restrict
<1>15. archives[x] # ext[p].a
  BY <1>1, <1>10 DEF Work, RowKnown
<1>16. Position(p)' /\ Clean(p)' /\ Filled(p)' /\ HasEntry(p)'
  <2>1. \A r \in DOMAIN entries' : OfArchive(r, ext[p].a)' => OfArchive(r, ext[p].a)
    BY <1>3, <1>4, <1>13 DEF OfArchive
  <2>2. \A r \in DOMAIN entries' : Mine(p, r)' => Mine(p, r)
    BY <1>4, <1>13, <2>1 DEF Mine
  <2>3. ASSUME NEW r \in DOMAIN entries, OfArchive(r, ext[p].a)
        PROVE  r \in DOMAIN entries' /\ entries'[r] = entries[r] /\ OfArchive(r, ext[p].a)'
    <3>1. r \notin ext[p].victims
      BY <1>10, <1>15, <2>3 DEF OfArchive
    <3>2. r \in DOMAIN entries' /\ entries'[r] = entries[r]
      BY <1>13, <3>1
    <3> QED  BY <1>3, <1>4, <2>3, <3>2 DEF OfArchive
  <2>4. ext[p].i \in Item(ext[p].a)
    BY <1>1 DEF Work, Position, At
  <2> QED  BY <1>1, <1>3, <1>4, <1>13, <2>2, <2>3, <2>4, SameItem
<1>5. Tables'
  <2>2. EntryTable'
    <3>1. entries' \in [DOMAIN entries' -> LegalRow]
      BY <1>1 DEF EvictRows, Tables, EntryTable, Without, Restrict
    <3>2. DOMAIN entries' \subseteq DOMAIN entries
      BY <1>13
    <3> QED  BY <1>1, <1>4, <1>13, <3>1, <3>2 DEF Tables, EntryTable
  <2> QED  BY <1>1, <1>4, <2>2 DEF Tables, ArchiveTable, Files
<1>6. Work(p)'
  <2>1. Evicting(p)'
    BY <1>1, <1>3, <1>4 DEF Evicting
  <2>2. RowKnown(p)'
    BY <1>1, <1>3, <1>4 DEF RowKnown, Work
  <2>3. Position(p)'
    BY <1>16
  <2>4. Clean(p)'
    BY <1>16
  <2>5. Filled(p)'
    BY <1>16
  <2>6. HasEntry(p)'
    BY <1>16
  <2> QED  BY <2>1, <2>2, <2>3, <2>4, <2>5, <2>6 DEF Work
<1>7. AllWhole(c)
  <2> SUFFICES ASSUME NEW r \in DOMAIN entries', entries'[r].completed = Done,
                      entries'[r].aidx \in DOMAIN archives,
                      archives[entries'[r].aidx] \notin hit
               PROVE  Whole(r)'
    BY <1>4 DEF AllWhole
  <2>1. r \in DOMAIN entries /\ entries'[r] = entries[r] /\ r \notin ext[p].victims
    BY <1>13
  <2>2. Whole(r)
    BY <1>1, <2>1, AreWhole
  <2> QED  BY <1>4, <2>1, <2>2 DEF Whole, Full
<1>8. reader' = reader /\ Stays(p, c)
  BY <1>1, <1>3, <1>4, <1>13 DEF Stays
<1> QED  BY <1>1, <1>3, <1>4, <1>5, <1>6, <1>7, <1>8, OwnerStep

\* The row of their archive goes, if no entry is left of it.
LEMMA EvictArchiveKeeps ==
    ASSUME DiskInv, NEW p \in Process, EvictArchive(p)
    PROVE  DiskInv'
<1>1. /\ ext[p].pc = "evict archive" /\ mutex = p /\ ext[p] \in ExtractorState
      /\ Tables /\ Work(p) /\ ext[p].victims = {}
  BY ThreadKinds DEF EvictArchive, DiskInv, Threads, Work, Evicting
<1>2. PICK c : c = [ext[p] EXCEPT !.pc = "room", !.from = 0]
  OBVIOUS
<1>3. /\ c \in ExtractorState /\ c.pc = "room" /\ c.a = ext[p].a
      /\ c.aidx = ext[p].aidx /\ c.victims = ext[p].victims /\ c.need = ext[p].need
      /\ c.i = ext[p].i /\ c.piece = ext[p].piece /\ c.extracted = ext[p].extracted
  BY <1>1, <1>2 DEF ExtractorState
<1>4. /\ ext' = [ext EXCEPT ![p] = c] /\ ext'[p] = c
      /\ UNCHANGED <<mutex, up, hit, sequence, entries, files, reader>>
  BY <1>2 DEF EvictArchive, DiskInv, Threads
<1>5. Tables'
  BY <1>1, <1>4, Purged DEF EvictArchive
<1>13. RowsStay
  BY <1>1, <1>4, Purged DEF EvictArchive
<1>16. Position(p)' /\ Clean(p)' /\ Filled(p)' /\ HasEntry(p)'
  <2>1. \A r \in DOMAIN entries : OfArchive(r, ext[p].a)' <=> OfArchive(r, ext[p].a)
    BY <1>3, <1>4, <1>13 DEF RowsStay, OfArchive
  <2>2. \A r \in DOMAIN entries : Mine(p, r)' <=> Mine(p, r)
    BY <1>4, <2>1 DEF Mine
  <2>3. ext[p].i \in Item(ext[p].a)
    BY <1>1 DEF Work, Position, At
  <2> QED  BY <1>1, <1>3, <1>4, <2>1, <2>2, <2>3, SameItem
<1>6. Work(p)'
  <2>1. Evicting(p)'
    BY <1>1, <1>3, <1>4 DEF Evicting
  <2>2. RowKnown(p)'
    <3>1. ext'[p].pc = "room" /\ ext'[p].a = ext[p].a /\ ext'[p].aidx = ext[p].aidx
      BY <1>3, <1>4
    <3>2. \A y \in DOMAIN archives' : archives'[y] = ext[p].a <=> y = ext[p].aidx
      BY <1>1, <1>13 DEF RowsStay, RowKnown, Work
    <3>3. ext[p].aidx \in 0..(sequence' - 1)
      BY <1>1, <1>4 DEF RowKnown, Work
    <3> QED  BY <3>1, <3>2, <3>3 DEF RowKnown
  <2>3. Position(p)'
    BY <1>16
  <2>4. Clean(p)'
    BY <1>16
  <2>5. Filled(p)'
    BY <1>16
  <2>6. HasEntry(p)'
    BY <1>16
  <2> QED  BY <2>1, <2>2, <2>3, <2>4, <2>5, <2>6 DEF Work
<1>7. AllWhole(c)
  <2> SUFFICES ASSUME NEW r \in DOMAIN entries, entries[r].completed = Done,
                      entries[r].aidx \in DOMAIN archives',
                      archives'[entries[r].aidx] \notin hit
               PROVE  Whole(r)'
    BY <1>4 DEF AllWhole
  <2>1. /\ entries[r].aidx \in DOMAIN archives
        /\ archives'[entries[r].aidx] = archives[entries[r].aidx]
    BY <1>13 DEF RowsStay
  <2>2. Whole(r)
    BY <1>1, <2>1, AreWhole
  <2> QED  BY <1>4, <2>1, <2>2 DEF Whole, Full
<1>8. reader' = reader /\ Stays(p, c)
  BY <1>1, <1>3, <1>4, <1>13 DEF Stays, RowsStay
<1> QED  BY <1>1, <1>3, <1>4, <1>5, <1>6, <1>7, <1>8, OwnerStep

\* The archive has its row, or gets another one.
LEMMA EnsureAgainKeeps ==
    ASSUME DiskInv, NEW p \in Process, EnsureAgain(p)
    PROVE  DiskInv'
<1>1. /\ ext[p].pc = "room" /\ mutex = p /\ ext[p] \in ExtractorState
      /\ Tables /\ Work(p) /\ ext[p].victims = {}
  BY ThreadKinds DEF EnsureAgain, DiskInv, Threads, Work, Evicting
<1>2. PICK c : c = [ext[p] EXCEPT !.pc = IF ext[p].a \in Range(archives) THEN "add or append"
                                         ELSE "look up again"]
  OBVIOUS
<1>3. /\ c \in ExtractorState
      /\ c.pc = (IF ext[p].a \in Range(archives) THEN "add or append" ELSE "look up again")
      /\ c.a = ext[p].a /\ c.aidx = ext[p].aidx /\ c.victims = ext[p].victims
      /\ c.need = ext[p].need /\ c.i = ext[p].i /\ c.piece = ext[p].piece
      /\ c.extracted = ext[p].extracted
  BY <1>1, <1>2 DEF ExtractorState
<1>4. /\ ext' = [ext EXCEPT ![p] = c] /\ ext'[p] = c
      /\ UNCHANGED <<mutex, up, hit, entries, files, reader>>
  BY <1>2 DEF EnsureAgain, Goto, DiskInv, Threads
<1>9. PICK a \in Archive : a = ext[p].a /\ AddUnlessThere(a)
  BY <1>1 DEF EnsureAgain, ExtractorState
<1>5. Tables'
  BY <1>1, <1>4, <1>9, Added
<1>13. /\ \A y \in DOMAIN archives : y \in DOMAIN archives' /\ archives'[y] = archives[y]
       /\ \A r \in DOMAIN entries :
             /\ entries[r].aidx \in DOMAIN archives' <=> entries[r].aidx \in DOMAIN archives
             /\ entries[r].aidx \in DOMAIN archives'
                => archives'[entries[r].aidx] = archives[entries[r].aidx]
  BY <1>1, <1>4, <1>9, Added
<1>14. \A r \in DOMAIN entries : OfArchive(r, ext[p].a)' <=> OfArchive(r, ext[p].a)
  BY <1>3, <1>4, <1>13 DEF OfArchive
<1>15. \A r \in DOMAIN entries : Mine(p, r)' <=> Mine(p, r)
  BY <1>4, <1>14 DEF Mine
<1>16. Position(p)' /\ Clean(p)' /\ Filled(p)' /\ HasEntry(p)'
  <2>1. ext[p].i \in Item(ext[p].a)
    BY <1>1 DEF Work, Position, At
  <2> QED  BY <1>1, <1>3, <1>4, <1>14, <1>15, <2>1, SameItem
<1>6. Work(p)'
  <2>1. Evicting(p)'
    BY <1>1, <1>3, <1>4 DEF Evicting
  <2>2. RowKnown(p)'
    <3>1. CASE ext[p].a \in Range(archives)
      <4>1. archives' = archives /\ sequence' = sequence /\ c.pc = "add or append"
        BY <1>3, <1>9, <3>1 DEF AddUnlessThere
      <4>2. PICK x \in DOMAIN archives : archives[x] = ext[p].a
        BY <3>1 DEF Range
      <4>3. ext[p].aidx \in DOMAIN archives
        BY <1>1, <4>2 DEF Work, RowKnown
      <4> QED  BY <1>1, <1>3, <1>4, <4>1, <4>3 DEF RowKnown, Work
    <3>2. CASE ext[p].a \notin Range(archives)
      <4>1. c.pc = "look up again"
        BY <1>3, <3>2
      <4>2. ext[p].a \in Range(archives')
        BY <1>1, <1>4, <1>9, Added
      <4> QED  BY <1>3, <1>4, <4>1, <4>2 DEF RowKnown
    <3> QED  BY <3>1, <3>2
  <2>3. Position(p)'
    BY <1>16
  <2>4. Clean(p)'
    BY <1>16
  <2>5. Filled(p)'
    BY <1>16
  <2>6. HasEntry(p)'
    BY <1>16
  <2> QED  BY <2>1, <2>2, <2>3, <2>4, <2>5, <2>6 DEF Work
<1>7. AllWhole(c)
  <2> SUFFICES ASSUME NEW r \in DOMAIN entries, entries[r].completed = Done,
                      entries[r].aidx \in DOMAIN archives',
                      archives'[entries[r].aidx] \notin hit
               PROVE  Whole(r)'
    BY <1>4 DEF AllWhole
  <2>1. /\ entries[r].aidx \in DOMAIN archives
        /\ archives'[entries[r].aidx] = archives[entries[r].aidx]
    BY <1>13
  <2>2. Whole(r)
    BY <1>1, <2>1, AreWhole
  <2> QED  BY <1>4, <2>1, <2>2 DEF Whole, Full
<1>8. reader' = reader /\ Stays(p, c)
  BY <1>1, <1>3, <1>4, <1>13 DEF Stays
<1> QED  BY <1>1, <1>3, <1>4, <1>5, <1>6, <1>7, <1>8, OwnerStep

\* The number of the new row is looked up; no row of the archive means 0.
LEMMA LookUpAgainKeeps ==
    ASSUME DiskInv, NEW p \in Process, LookUpAgain(p)
    PROVE  DiskInv'
<1>1. /\ ext[p].pc = "look up again" /\ mutex = p /\ ext[p] \in ExtractorState
      /\ Tables /\ Work(p) /\ ext[p].victims = {}
  BY ThreadKinds DEF LookUpAgain, DiskInv, Threads, Work, Evicting
<1>9. PICK x : x = ArchiveIdx(ext[p].a)
  OBVIOUS
<1>11. /\ x \in Nat /\ x \in 0..(sequence - 1)
       /\ \A y \in DOMAIN archives : archives[y] = ext[p].a <=> y = x
       /\ ext[p].a \notin hit => x \in DOMAIN archives
  <2>1. /\ x \in Nat /\ x < sequence
        /\ \A y \in DOMAIN archives : archives[y] = ext[p].a <=> y = x
        /\ ext[p].a \in Range(archives) => x \in DOMAIN archives
    BY <1>1, <1>9, ArchiveIdxIs DEF Tables
  <2>2. sequence \in Nat
    BY <1>1 DEF Tables, ArchiveTable
  <2>3. ext[p].a \notin hit => ext[p].a \in Range(archives)
    BY <1>1 DEF Work, RowKnown
  <2> QED  BY <2>1, <2>2, <2>3
<1>2. PICK c : c = [ext[p] EXCEPT !.pc = "add or append", !.aidx = x]
  OBVIOUS
<1>3. /\ c \in ExtractorState /\ c.pc = "add or append" /\ c.a = ext[p].a /\ c.aidx = x
      /\ c.victims = ext[p].victims /\ c.need = ext[p].need /\ c.i = ext[p].i
      /\ c.piece = ext[p].piece /\ c.extracted = ext[p].extracted
  BY <1>1, <1>2, <1>11 DEF ExtractorState
<1>4. /\ ext' = [ext EXCEPT ![p] = c] /\ ext'[p] = c
      /\ UNCHANGED <<mutex, up, hit, archives, sequence, entries, files, reader>>
  <2>1. ext' = [ext EXCEPT ![p].pc = "add or append", ![p].aidx = x]
    BY <1>9 DEF LookUpAgain
  <2> QED  BY <1>2, <2>1 DEF LookUpAgain, tables, DiskInv, Threads
<1>16. Position(p)' /\ Clean(p)' /\ Filled(p)' /\ HasEntry(p)'
  <2>1. ext[p].i \in Item(ext[p].a)
    BY <1>1 DEF Work, Position, At
  <2>2. \A r \in DOMAIN entries : /\ OfArchive(r, ext[p].a)' <=> OfArchive(r, ext[p].a)
                                  /\ Mine(p, r)' <=> Mine(p, r)
    BY <1>3, <1>4 DEF OfArchive, Mine
  <2> QED  BY <1>1, <1>3, <1>4, <2>1, <2>2, SameItem
<1>5. Tables'
  BY <1>1, <1>4 DEF Tables, ArchiveTable, EntryTable, Files
<1>6. Work(p)'
  <2>1. Evicting(p)'
    BY <1>1, <1>3, <1>4 DEF Evicting
  <2>2. RowKnown(p)'
    <3>1. ext'[p].pc = "add or append" /\ ext'[p].a = ext[p].a /\ ext'[p].aidx = x
      BY <1>3, <1>4
    <3>2. \A y \in DOMAIN archives' : archives'[y] = ext[p].a <=> y = x
      BY <1>4, <1>11
    <3>3. x \in 0..(sequence' - 1) /\ (ext[p].a \notin hit' => x \in DOMAIN archives')
      BY <1>4, <1>11
    <3> QED  BY <3>1, <3>2, <3>3 DEF RowKnown
  <2>3. Position(p)'
    BY <1>16
  <2>4. Clean(p)'
    BY <1>16
  <2>5. Filled(p)'
    BY <1>16
  <2>6. HasEntry(p)'
    BY <1>16
  <2> QED  BY <2>1, <2>2, <2>3, <2>4, <2>5, <2>6 DEF Work
<1>7. AllWhole(c)
  <2> SUFFICES ASSUME NEW r \in DOMAIN entries, entries[r].completed = Done,
                      entries[r].aidx \in DOMAIN archives,
                      archives[entries[r].aidx] \notin hit
               PROVE  Whole(r)'
    BY <1>4 DEF AllWhole
  <2>1. Whole(r)
    BY <1>1, AreWhole
  <2> QED  BY <1>4, <2>1 DEF Whole, Full
<1>8. reader' = reader /\ Stays(p, c)
  BY <1>1, <1>3, <1>4 DEF Stays
<1> QED  BY <1>1, <1>3, <1>4, <1>5, <1>6, <1>7, <1>8, OwnerStep

\* A further piece goes to the file of the entry this extractor is filling.
LEMMA AppendFileKeeps ==
    ASSUME DiskInv, NEW p \in Process, AppendEntry(p),
           NEW r0 \in Found(ext[p].aidx, ext[p].i), entries[r0].completed = p
    PROVE  DiskInv'
<1>1. /\ ext[p].pc = "add or append" /\ mutex = p /\ ext[p] \in ExtractorState
      /\ Tables /\ Work(p) /\ ext[p].victims = {}
  BY ThreadKinds DEF AppendEntry, DiskInv, Threads, Work, Evicting
<1>10. /\ r0 \in DOMAIN entries /\ entries[r0].aidx = ext[p].aidx
       /\ entries[r0].item = ext[p].i
       /\ \A r \in DOMAIN entries :
             entries[r].aidx = ext[p].aidx /\ entries[r].item = ext[p].i => r = r0
       /\ \A r \in Found(ext[p].aidx, ext[p].i) : r = r0
  <2>1. PICK x, i : x = ext[p].aidx /\ i = ext[p].i
    OBVIOUS
  <2>2. r0 \in Found(x, i) /\ Tables
    BY <1>1, <2>1
  <2>3. /\ r0 \in DOMAIN entries /\ entries[r0] \in LegalRow
        /\ entries[r0].aidx = x /\ entries[r0].item = i
        /\ \A r \in DOMAIN entries : entries[r].aidx = x /\ entries[r].item = i => r = r0
        /\ \A r \in Found(x, i) : r = r0
    BY <2>2, TheRow
  <2> QED  BY <2>1, <2>3
<1>9. PICK s :
        /\ s = (IF r0 \in DOMAIN files THEN files[r0] ELSE << >>)
                \o <<<<Current(p), ext[p].piece>>>>
        /\ files' = With(files, r0, s)
  BY <1>10 DEF AppendEntry
<1>16. ext[p].i \in Item(ext[p].a) /\ At(p) /\ p # Done
  BY <1>1, SharedDiskAssumption DEF Work, Position, At
<1>11. s \in Seq(Key \X Nat)
  <2>1. PICK e : e = <<Current(p), ext[p].piece>>
    OBVIOUS
  <2>2. e \in Key \X Nat
    BY <1>1, <1>16, <2>1, PieceIs
  <2>3. PICK t : t = IF r0 \in DOMAIN files THEN files[r0] ELSE << >>
    OBVIOUS
  <2>4. t \in Seq(Key \X Nat)
    <3>1. r0 \in DOMAIN files => files[r0] \in Seq(Key \X Nat)
      BY <1>1 DEF Tables, Files
    <3>2. << >> \in Seq(Key \X Nat)
      OBVIOUS
    <3> QED  BY <2>3, <3>1, <3>2
  <2>5. s = t \o <<e>>
    BY <1>9, <2>1, <2>3
  <2> QED  BY <2>2, <2>4, <2>5
<1>2. PICK c : c = [ext[p] EXCEPT !.pc = "update size"]
  OBVIOUS
<1>3. /\ c \in ExtractorState /\ c.pc = "update size" /\ c.a = ext[p].a
      /\ c.aidx = ext[p].aidx /\ c.victims = ext[p].victims /\ c.i = ext[p].i
      /\ c.piece = ext[p].piece /\ c.extracted = ext[p].extracted
  BY <1>1, <1>2 DEF ExtractorState
<1>4. /\ ext' = [ext EXCEPT ![p] = c] /\ ext'[p] = c
      /\ UNCHANGED <<mutex, up, hit, archives, sequence, entries, reader>>
  BY <1>2, <1>10 DEF AppendEntry, Goto, DiskInv, Threads
<1>12. /\ r0 \in DOMAIN files' /\ files'[r0] = s
       /\ \A r \in DOMAIN entries : r # r0 =>
             (r \in DOMAIN files => r \in DOMAIN files' /\ files'[r] = files[r])
  BY <1>9 DEF With
<1>13. \A r \in DOMAIN entries : /\ OfArchive(r, ext[p].a)' <=> OfArchive(r, ext[p].a)
                                 /\ Mine(p, r)' <=> Mine(p, r)
  BY <1>3, <1>4 DEF OfArchive, Mine
<1>14. ASSUME ext[p].a \notin hit, NEW r \in DOMAIN entries, Mine(p, r),
              entries[r].item = ext[p].i
       PROVE  /\ r = r0 /\ entries[r0].size = ext[p].piece - 1
              /\ s = [j \in 1..ext[p].piece |-> <<Current(p), j>>]
  <2>1. r = r0
    BY <1>1, <1>10, <1>14 DEF Work, RowKnown, OfArchive, Mine
  <2>2. HasPieces(p, r0, ext[p].piece - 1, ext[p].piece - 1)
    BY <1>1, <1>14, <1>16, <2>1 DEF Work, Filled
  <2>3. ext[p].piece \in Nat /\ ext[p].piece >= 1
    <3>1. ext[p].piece \in Nat \ {0}
      BY <1>1 DEF ExtractorState
    <3> QED  BY <3>1
  <2>4. s = [j \in 1..(ext[p].piece - 1) |-> <<Current(p), j>>]
            \o <<<<Current(p), ext[p].piece>>>>
    BY <1>9, <2>2 DEF HasPieces
  <2>5. s = [j \in 1..ext[p].piece |-> <<Current(p), j>>]
    BY <2>3, <2>4, Snoc
  <2>6. entries[r0].size = ext[p].piece - 1
    BY <2>2 DEF HasPieces
  <2> QED  BY <2>1, <2>5, <2>6
<1>5. Tables'
  <2>1. Files'
    BY <1>1, <1>9, <1>11 DEF Tables, Files, With
  <2> QED  BY <1>1, <1>4, <2>1 DEF Tables, ArchiveTable, EntryTable
<1>6. Work(p)'
  <2>1. Evicting(p)'
    BY <1>1, <1>3, <1>4 DEF Evicting
  <2>2. RowKnown(p)'
    <3>1. ext'[p].pc = "update size" /\ ext'[p].a = ext[p].a /\ ext'[p].aidx = ext[p].aidx
      BY <1>3, <1>4
    <3>2. /\ \A y \in DOMAIN archives' : archives'[y] = ext[p].a <=> y = ext[p].aidx
          /\ ext[p].aidx \in 0..(sequence' - 1)
          /\ ext[p].a \notin hit' => ext[p].aidx \in DOMAIN archives'
      BY <1>1, <1>4 DEF RowKnown, Work
    <3> QED  BY <3>1, <3>2 DEF RowKnown
  <2>3. Position(p)'
    BY <1>1, <1>3, <1>4 DEF Position, Work, At
  <2>4. Clean(p)'
    <3>2. \A r \in DOMAIN entries' :
            Mine(p, r)' => entries'[r].item <= ext[p].i /\ entries'[r].completed = p
      BY <1>1, <1>4, <1>13, <1>16 DEF Work, Clean
    <3>3. /\ ext'[p].pc = "update size" /\ ext'[p].i = ext[p].i
          /\ ext'[p].aidx = ext[p].aidx
      BY <1>3, <1>4
    <3>4. \A r \in Found(ext[p].aidx, ext[p].i)' : entries'[r].completed = p
      BY <1>4, <1>10, <3>3 DEF Found, Rows
    <3> QED  BY <3>2, <3>3, <3>4 DEF Clean
  <2>5. Filled(p)'
    <3> SUFFICES ASSUME ext[p].a \notin hit, NEW r \in DOMAIN entries', Mine(p, r)',
                        entries'[r].item = ext[p].i
                 PROVE  HasPieces(p, r, ext[p].piece - 1, ext[p].piece)'
      <4>1. /\ ext'[p].pc = "update size" /\ ext'[p].a = ext[p].a /\ ext'[p].i = ext[p].i
            /\ ext'[p].piece = ext[p].piece /\ hit' = hit
        BY <1>3, <1>4
      <4> QED  BY <4>1 DEF Filled, HasPieces
    <3>1. r \in DOMAIN entries /\ Mine(p, r) /\ entries[r].item = ext[p].i
      BY <1>4, <1>13
    <3>2. /\ r = r0 /\ entries[r0].size = ext[p].piece - 1
          /\ s = [j \in 1..ext[p].piece |-> <<Current(p), j>>]
      BY <1>14, <3>1
    <3>3. Current(p)' = Current(p) /\ ext'[p].piece = ext[p].piece
      BY <1>3, <1>4 DEF Current
    <3> QED  BY <1>4, <1>12, <3>2, <3>3 DEF HasPieces
  <2>6. HasEntry(p)'
    <3>1. /\ ext'[p].pc = "update size" /\ ext'[p].a = ext[p].a /\ ext'[p].i = ext[p].i
          /\ ext'[p].aidx = ext[p].aidx /\ hit' = hit
      BY <1>3, <1>4
    <3>2. Found(ext[p].aidx, ext[p].i)' # {}
      BY <1>4, <1>10, <3>1 DEF Found, Rows
    <3>3. ext[p].a \notin hit => OfArchive(r0, ext[p].a)
      BY <1>1, <1>10 DEF Work, RowKnown, OfArchive
    <3>4. ext[p].a \notin hit =>
            \E r \in DOMAIN entries' : OfArchive(r, ext[p].a)' /\ entries'[r].item = ext[p].i
      BY <1>4, <1>10, <1>13, <3>3
    <3> QED  BY <3>1, <3>2, <3>4 DEF HasEntry
  <2> QED  BY <2>1, <2>2, <2>3, <2>4, <2>5, <2>6 DEF Work
<1>7. AllWhole(c)
  <2> SUFFICES ASSUME NEW r \in DOMAIN entries, entries[r].completed = Done,
                      entries[r].aidx \in DOMAIN archives,
                      archives[entries[r].aidx] \notin hit
               PROVE  Whole(r)'
    BY <1>4 DEF AllWhole
  <2>1. Whole(r)
    BY <1>1, AreWhole
  <2>2. r # r0
    BY <1>16
  <2> QED  BY <1>4, <1>12, <2>1, <2>2 DEF Whole, Full
<1>8. reader' = reader /\ Stays(p, c)
  BY <1>1, <1>3, <1>4 DEF Stays
<1> QED  BY <1>1, <1>3, <1>4, <1>5, <1>6, <1>7, <1>8, OwnerStep

\* A piece for an entry of another owner, or a finished one, is dropped; it is
\* not an entry of the archive, unless that is hit.
LEMMA DropPieceKeeps ==
    ASSUME DiskInv, NEW p \in Process, AppendEntry(p),
           NEW r0 \in Found(ext[p].aidx, ext[p].i), entries[r0].completed # p
    PROVE  DiskInv'
<1>1. /\ ext[p].pc = "add or append" /\ mutex = p /\ ext[p] \in ExtractorState
      /\ Tables /\ Work(p) /\ ext[p].victims = {}
  BY ThreadKinds DEF AppendEntry, DiskInv, Threads, Work, Evicting
<1>10. /\ r0 \in DOMAIN entries /\ entries[r0].aidx = ext[p].aidx
       /\ entries[r0].item = ext[p].i
       /\ \A r \in DOMAIN entries :
             entries[r].aidx = ext[p].aidx /\ entries[r].item = ext[p].i => r = r0
       /\ \A r \in Found(ext[p].aidx, ext[p].i) : r = r0
  <2>1. PICK x, i : x = ext[p].aidx /\ i = ext[p].i
    OBVIOUS
  <2>2. r0 \in Found(x, i) /\ Tables
    BY <1>1, <2>1
  <2>3. /\ r0 \in DOMAIN entries /\ entries[r0] \in LegalRow
        /\ entries[r0].aidx = x /\ entries[r0].item = i
        /\ \A r \in DOMAIN entries : entries[r].aidx = x /\ entries[r].item = i => r = r0
        /\ \A r \in Found(x, i) : r = r0
    BY <2>2, TheRow
  <2> QED  BY <2>1, <2>3
<1>9. Written(p) /\ files' = files
  BY <1>10 DEF AppendEntry
<1>2. PICK c \in ExtractorState :
         ext' = [ext EXCEPT ![p] = c] /\ ext'[p] = c /\ AfterPiece(p, c)
  BY <1>1, <1>9, WrittenIs DEF DiskInv
<1>3. /\ c \in ExtractorState
      /\ c.pc = (IF ext[p].piece < Pieces[ext[p].a][ext[p].i] THEN "append" ELSE "mark")
      /\ c.a = ext[p].a /\ c.aidx = ext[p].aidx /\ c.victims = ext[p].victims
      /\ c.i = ext[p].i
      /\ c.piece = (IF ext[p].piece < Pieces[ext[p].a][ext[p].i]
                    THEN ext[p].piece + 1 ELSE ext[p].piece)
      /\ c.pc # "wait"
  BY <1>2 DEF AfterPiece
<1>4. /\ ext' = [ext EXCEPT ![p] = c] /\ ext'[p] = c
      /\ UNCHANGED <<mutex, up, hit, archives, sequence, entries, files, reader>>
  BY <1>2, <1>9 DEF AppendEntry
<1>14. \A r \in DOMAIN entries : /\ OfArchive(r, ext[p].a)' <=> OfArchive(r, ext[p].a)
                                 /\ Mine(p, r)' <=> Mine(p, r)
  BY <1>3, <1>4 DEF OfArchive, Mine
<1>15. Position(p)' /\ Clean(p)' /\ Filled(p)' /\ HasEntry(p)'
  <2>1. At(p) /\ ext[p].i \in Item(ext[p].a)
    BY <1>1 DEF Work, Position, At
  <2>5. \A r \in DOMAIN entries :
          Mine(p, r) => entries[r].item <= ext[p].i /\ entries[r].completed = p
    BY <1>1, <2>1 DEF Work, Clean
  <2>2. \A r \in DOMAIN entries' : Mine(p, r)' =>
          entries'[r].item <= ext[p].i /\ entries'[r].completed = p
    BY <1>4, <1>14, <2>5
  <2>3. \A r \in DOMAIN entries' : Mine(p, r)' => entries'[r].item # ext[p].i
    <3>1. ASSUME NEW r \in DOMAIN entries, Mine(p, r), entries[r].item = ext[p].i PROVE FALSE
      <4>1. entries[r].aidx = ext[p].aidx
        BY <1>1, <3>1 DEF Work, RowKnown, Mine, OfArchive
      <4> QED  BY <1>10, <2>5, <3>1, <4>1
    <3> QED  BY <1>4, <1>14, <3>1
  <2>4. ext[p].a \notin hit =>
          \E r \in DOMAIN entries' : OfArchive(r, ext[p].a)' /\ entries'[r].item = ext[p].i
    <3>1. ext[p].a \notin hit => OfArchive(r0, ext[p].a)
      BY <1>1, <1>10 DEF Work, RowKnown, OfArchive
    <3> QED  BY <1>4, <1>10, <1>14, <3>1
  <2> QED  BY <1>1, <1>3, <1>4, <2>1, <2>2, <2>3, <2>4, NextPiece
<1>5. Tables'
  BY <1>1, <1>4 DEF Tables, ArchiveTable, EntryTable, Files
<1>6. Work(p)'
  <2>1. Evicting(p)'
    BY <1>1, <1>3, <1>4 DEF Evicting
  <2>2. RowKnown(p)'
    BY <1>1, <1>3, <1>4 DEF RowKnown, Work
  <2>3. Position(p)'
    BY <1>15
  <2>4. Clean(p)'
    BY <1>15
  <2>5. Filled(p)'
    BY <1>15
  <2>6. HasEntry(p)'
    BY <1>15
  <2> QED  BY <2>1, <2>2, <2>3, <2>4, <2>5, <2>6 DEF Work
<1>7. AllWhole(c)
  <2> SUFFICES ASSUME NEW r \in DOMAIN entries, entries[r].completed = Done,
                      entries[r].aidx \in DOMAIN archives,
                      archives[entries[r].aidx] \notin hit
               PROVE  Whole(r)'
    BY <1>4 DEF AllWhole
  <2>1. Whole(r)
    BY <1>1, AreWhole
  <2> QED  BY <1>4, <2>1 DEF Whole, Full
<1>8. reader' = reader /\ Stays(p, c)
  BY <1>1, <1>3, <1>4 DEF Stays
<1> QED  BY <1>1, <1>3, <1>4, <1>5, <1>6, <1>7, <1>8, OwnerStep

\* So it is with every piece for which there is an entry.
LEMMA AppendEntryKeeps ==
    ASSUME DiskInv, NEW p \in Process, AppendEntry(p)
    PROVE  DiskInv'
<1>1. PICK r0 \in Found(ext[p].aidx, ext[p].i) : TRUE
  BY DEF AppendEntry
<1>2. CASE entries[r0].completed = p
  BY <1>2, AppendFileKeeps
<1>3. CASE entries[r0].completed # p
  BY <1>3, DropPieceKeeps
<1> QED  BY <1>2, <1>3

\* The row of the entry learns of the piece.
LEMMA UpdateSizeKeeps ==
    ASSUME DiskInv, NEW p \in Process, UpdateSize(p)
    PROVE  DiskInv'
<1>1. /\ ext[p].pc = "update size" /\ mutex = p /\ ext[p] \in ExtractorState
      /\ Tables /\ Work(p) /\ ext[p].victims = {}
  BY ThreadKinds DEF UpdateSize, DiskInv, Threads, Work, Evicting
<1>16. PICK r0 \in Found(ext[p].aidx, ext[p].i) :
          entries' = [entries EXCEPT ![r0].size = @ + 1]
  BY DEF UpdateSize
<1>10. /\ r0 \in DOMAIN entries /\ entries[r0] \in LegalRow
       /\ entries[r0].aidx = ext[p].aidx /\ entries[r0].item = ext[p].i
       /\ \A r \in DOMAIN entries :
             entries[r].aidx = ext[p].aidx /\ entries[r].item = ext[p].i => r = r0
  <2>1. PICK x, i : x = ext[p].aidx /\ i = ext[p].i
    OBVIOUS
  <2>2. r0 \in Found(x, i) /\ Tables
    BY <1>1, <2>1
  <2>3. /\ r0 \in DOMAIN entries /\ entries[r0] \in LegalRow
        /\ entries[r0].aidx = x /\ entries[r0].item = i
        /\ \A r \in DOMAIN entries : entries[r].aidx = x /\ entries[r].item = i => r = r0
        /\ \A r \in Found(x, i) : r = r0
    BY <2>2, TheRow
  <2> QED  BY <2>1, <2>3
<1>11. ext[p].i \in Item(ext[p].a) /\ At(p) /\ p # Done /\ entries[r0].completed = p
  <2>1. ext[p].i \in Item(ext[p].a) /\ At(p) /\ p # Done
    BY <1>1, SharedDiskAssumption DEF Work, Position, At
  <2>2. entries[r0].completed = p
    BY <1>1 DEF Work, Clean
  <2> QED  BY <2>1, <2>2
<1>2. PICK c \in ExtractorState :
         ext' = [ext EXCEPT ![p] = c] /\ ext'[p] = c /\ AfterPiece(p, c)
  BY <1>1, WrittenIs DEF DiskInv, UpdateSize
<1>3. /\ c \in ExtractorState
      /\ c.pc = (IF ext[p].piece < Pieces[ext[p].a][ext[p].i] THEN "append" ELSE "mark")
      /\ c.a = ext[p].a /\ c.aidx = ext[p].aidx /\ c.victims = ext[p].victims
      /\ c.i = ext[p].i
      /\ c.piece = (IF ext[p].piece < Pieces[ext[p].a][ext[p].i]
                    THEN ext[p].piece + 1 ELSE ext[p].piece)
      /\ c.pc # "wait"
  BY <1>2 DEF AfterPiece
<1>4. /\ ext' = [ext EXCEPT ![p] = c] /\ ext'[p] = c
      /\ UNCHANGED <<mutex, up, hit, archives, sequence, files, reader>>
  BY <1>2 DEF UpdateSize
<1>12. /\ DOMAIN entries' = DOMAIN entries
       /\ \A r \in DOMAIN entries : /\ entries'[r].aidx = entries[r].aidx
                                    /\ entries'[r].item = entries[r].item
                                    /\ entries'[r].completed = entries[r].completed
                                    /\ r # r0 => entries'[r] = entries[r]
       /\ entries'[r0].size = entries[r0].size + 1
       /\ entries' \in [DOMAIN entries' -> LegalRow]
  <2>1. PICK n : n = entries[r0].size + 1
    OBVIOUS
  <2>2. n \in Nat \ {0}
    <3>1. entries[r0].size \in Nat
      BY <1>10 DEF LegalRow
    <3> QED  BY <2>1, <3>1
  <2>3. PICK e : e = [entries[r0] EXCEPT !.size = n]
    OBVIOUS
  <2>4. /\ e \in LegalRow /\ e.aidx = entries[r0].aidx /\ e.item = entries[r0].item
        /\ e.completed = entries[r0].completed /\ e.size = n
    BY <1>10, <2>2, <2>3 DEF LegalRow
  <2>5. entries' = [entries EXCEPT ![r0] = e]
    BY <1>10, <1>16, <2>1, <2>3
  <2> QED  BY <1>1, <1>10, <2>1, <2>4, <2>5 DEF Tables, EntryTable
<1>13. \A r \in DOMAIN entries : /\ OfArchive(r, ext[p].a)' <=> OfArchive(r, ext[p].a)
                                 /\ Mine(p, r)' <=> Mine(p, r)
  BY <1>3, <1>4, <1>12 DEF OfArchive, Mine
<1>14. ASSUME ext[p].a \notin hit, NEW r \in DOMAIN entries, Mine(p, r),
              entries[r].item = ext[p].i
       PROVE  /\ entries'[r].size = ext[p].piece /\ r \in DOMAIN files
              /\ files[r] = [j \in 1..ext[p].piece |-> <<Current(p), j>>]
  <2>1. r = r0
    BY <1>1, <1>10, <1>14 DEF Work, RowKnown, OfArchive, Mine
  <2>2. HasPieces(p, r0, ext[p].piece - 1, ext[p].piece)
    BY <1>1, <1>11, <1>14, <2>1 DEF Work, Filled
  <2>3. ext[p].piece \in Nat
    BY <1>1 DEF ExtractorState
  <2>4. entries'[r0].size = ext[p].piece
    BY <1>12, <2>2, <2>3 DEF HasPieces
  <2> QED  BY <2>1, <2>2, <2>4 DEF HasPieces
<1>15. Position(p)' /\ Clean(p)' /\ Filled(p)' /\ HasEntry(p)'
  <2>5. \A r \in DOMAIN entries :
          Mine(p, r) => entries[r].item <= ext[p].i /\ entries[r].completed = p
    BY <1>1, <1>11 DEF Work, Clean
  <2>2. \A r \in DOMAIN entries' : Mine(p, r)' =>
          entries'[r].item <= ext[p].i /\ entries'[r].completed = p
    BY <1>12, <1>13, <2>5
  <2>3. ext[p].a \notin hit => \A r \in DOMAIN entries' :
          Mine(p, r)' /\ entries'[r].item = ext[p].i =>
          /\ entries'[r].size = ext[p].piece /\ r \in DOMAIN files'
          /\ files'[r] = [j \in 1..ext[p].piece |-> <<Current(p), j>>]
    BY <1>4, <1>12, <1>13, <1>14
  <2>4. ext[p].a \notin hit =>
          \E r \in DOMAIN entries' : OfArchive(r, ext[p].a)' /\ entries'[r].item = ext[p].i
    <3>1. ext[p].a \notin hit => OfArchive(r0, ext[p].a)
      BY <1>1, <1>10 DEF Work, RowKnown, OfArchive
    <3> QED  BY <1>10, <1>12, <1>13, <3>1
  <2> QED  BY <1>1, <1>3, <1>4, <1>11, <2>2, <2>3, <2>4, NextPiece
<1>5. Tables'
  <2>1. EntryTable'
    BY <1>1, <1>4, <1>12 DEF Tables, EntryTable
  <2> QED  BY <1>1, <1>4, <2>1 DEF Tables, ArchiveTable, Files
<1>6. Work(p)'
  <2>1. Evicting(p)'
    BY <1>1, <1>3, <1>4 DEF Evicting
  <2>2. RowKnown(p)'
    BY <1>1, <1>3, <1>4 DEF RowKnown, Work
  <2>3. Position(p)'
    BY <1>15
  <2>4. Clean(p)'
    BY <1>15
  <2>5. Filled(p)'
    BY <1>15
  <2>6. HasEntry(p)'
    BY <1>15
  <2> QED  BY <2>1, <2>2, <2>3, <2>4, <2>5, <2>6 DEF Work
<1>7. AllWhole(c)
  <2> SUFFICES ASSUME NEW r \in DOMAIN entries, entries'[r].completed = Done,
                      entries[r].aidx \in DOMAIN archives,
                      archives[entries[r].aidx] \notin hit
               PROVE  Whole(r)'
    BY <1>4, <1>12 DEF AllWhole
  <2>1. r # r0 /\ entries'[r] = entries[r]
    BY <1>11, <1>12
  <2>2. Whole(r)
    BY <1>1, <2>1, AreWhole
  <2> QED  BY <1>4, <2>1, <2>2 DEF Whole, Full
<1>8. reader' = reader /\ Stays(p, c)
  BY <1>1, <1>3, <1>4, <1>11, <1>12 DEF Stays
<1> QED  BY <1>1, <1>3, <1>4, <1>5, <1>6, <1>7, <1>8, OwnerStep

\* The first piece of an item that has no entry adds one; its rowid is new.
LEMMA AddEntryKeeps ==
    ASSUME DiskInv, NEW p \in Process, AddEntry(p)
    PROVE  DiskInv'
<1>1. /\ ext[p].pc = "add or append" /\ mutex = p /\ ext[p] \in ExtractorState
      /\ Tables /\ Work(p) /\ ext[p].victims = {}
  BY ThreadKinds DEF AddEntry, DiskInv, Threads, Work, Evicting
<1>9. PICK n, e : n = NewRow /\ e = [aidx |-> ext[p].aidx, item |-> ext[p].i,
                                   completed |-> p, size |-> 1]
  OBVIOUS
<1>10. /\ n \in Nat \ {0} /\ n \notin DOMAIN entries
       /\ \A r \in DOMAIN entries : r \in Nat \ {0} /\ r < n
  <2>1. \A r \in DOMAIN entries : r # 0
    <3>1. PICK k \in Nat : DOMAIN entries \subseteq 1..k
      BY <1>1 DEF Tables, EntryTable
    <3> QED  BY <3>1
  <2> QED  BY <1>1, <1>9, <2>1, Rowids
<1>11. /\ e \in LegalRow /\ e.aidx = ext[p].aidx /\ e.item = ext[p].i
       /\ e.completed = p /\ e.size = 1 /\ e.aidx \in 0..(sequence - 1)
       /\ p # Done
  <2>1. ext[p].aidx \in 0..(sequence - 1)
    BY <1>1 DEF Work, RowKnown
  <2>2. ext[p].aidx \in Nat /\ ext[p].i \in Nat \ {0}
    BY <1>1 DEF ExtractorState
  <2> QED  BY <1>9, <2>1, <2>2, SharedDiskAssumption DEF LegalRow
<1>12. \A r \in DOMAIN entries : ~(entries[r].aidx = ext[p].aidx /\ entries[r].item = ext[p].i)
  BY DEF AddEntry, Found, Rows
<1>2. PICK c : c = [ext[p] EXCEPT !.pc = "write file"]
  OBVIOUS
<1>3. /\ c \in ExtractorState /\ c.pc = "write file" /\ c.a = ext[p].a
      /\ c.aidx = ext[p].aidx /\ c.victims = ext[p].victims /\ c.need = ext[p].need
      /\ c.i = ext[p].i /\ c.piece = ext[p].piece /\ c.extracted = ext[p].extracted
  BY <1>1, <1>2 DEF ExtractorState
<1>4. /\ ext' = [ext EXCEPT ![p] = c] /\ ext'[p] = c
      /\ UNCHANGED <<mutex, up, hit, archives, sequence, files, reader>>
  BY <1>2 DEF AddEntry, Goto, Written, tables, DiskInv, Threads
<1>13. /\ DOMAIN entries' = DOMAIN entries \cup {n} /\ entries'[n] = e
       /\ \A r \in DOMAIN entries : entries'[r] = entries[r]
  <2>1. entries' = With(entries, n, e)
    BY <1>9 DEF AddEntry
  <2> QED  BY <1>10, <2>1 DEF With
<1>14. \A r \in DOMAIN entries : OfArchive(r, ext[p].a)' <=> OfArchive(r, ext[p].a)
  BY <1>3, <1>4, <1>13 DEF OfArchive
<1>15. \A r \in DOMAIN entries : Mine(p, r)' <=> Mine(p, r)
  BY <1>4, <1>13, <1>14 DEF Mine
<1>16. ext[p].a \notin hit => ext[p].piece = 1
  <2> SUFFICES ASSUME ext[p].a \notin hit, ext[p].piece # 1 PROVE FALSE
    OBVIOUS
  <2>1. ext[p].piece \in Nat \ {0}
    BY <1>1 DEF ExtractorState
  <2>2. ext[p].piece > 1
    BY <2>1
  <2>3. PICK r \in DOMAIN entries : OfArchive(r, ext[p].a) /\ entries[r].item = ext[p].i
    BY <1>1, <2>2 DEF Work, HasEntry, At
  <2> QED  BY <1>1, <1>12, <2>3 DEF Work, RowKnown, OfArchive
<1>17. \A r \in DOMAIN entries : Mine(p, r) => entries[r].item # ext[p].i
  BY <1>1, <1>12 DEF Work, RowKnown, Mine, OfArchive
<1>5. Tables'
  <2>1. EntryTable'
    <3>1. entries' \in [DOMAIN entries' -> LegalRow]
      <4>1. entries' = With(entries, n, e)
        BY <1>9 DEF AddEntry
      <4> QED  BY <1>1, <1>11, <4>1 DEF Tables, EntryTable, With
    <3>2. DOMAIN entries' \subseteq 1..n /\ n \in Nat
      BY <1>10, <1>13
    <3>3. \A r \in DOMAIN entries' : entries'[r].aidx \in 0..(sequence - 1)
      BY <1>1, <1>11, <1>13 DEF Tables, EntryTable
    <3>4. \A r, s \in DOMAIN entries' :
            entries'[r].aidx = entries'[s].aidx /\ entries'[r].item = entries'[s].item => r = s
      <4> SUFFICES ASSUME NEW r \in DOMAIN entries', NEW s \in DOMAIN entries',
                          entries'[r].aidx = entries'[s].aidx, entries'[r].item = entries'[s].item
                   PROVE  r = s
        OBVIOUS
      <4>1. CASE r = n \/ s = n
        BY <1>11, <1>12, <1>13, <4>1
      <4>2. CASE r # n /\ s # n
        <5>1. r \in DOMAIN entries /\ s \in DOMAIN entries
          BY <1>13, <4>2
        <5>2. entries[r].aidx = entries[s].aidx /\ entries[r].item = entries[s].item
          BY <1>13, <5>1
        <5> QED  BY <1>1, <5>1, <5>2 DEF Tables, EntryTable
      <4> QED  BY <4>1, <4>2
    <3> QED  BY <1>4, <3>1, <3>2, <3>3, <3>4 DEF EntryTable
  <2> QED  BY <1>1, <1>4, <2>1 DEF Tables, ArchiveTable, Files
<1>6. Work(p)'
  <2>1. Evicting(p)'
    BY <1>1, <1>3, <1>4 DEF Evicting
  <2>2. RowKnown(p)'
    <3>1. /\ ext'[p].pc = "write file" /\ ext'[p].a = ext[p].a /\ hit' = hit
          /\ ext'[p].aidx = ext[p].aidx /\ archives' = archives /\ sequence' = sequence
      BY <1>3, <1>4
    <3> QED  BY <1>1, <3>1 DEF RowKnown, Work
  <2>3. Position(p)'
    BY <1>1, <1>3, <1>4 DEF Position, Work, At
  <2>4. Clean(p)'
    <3>5. ext[p].i <= ext[p].i
      <4>1. ext[p].i \in Nat
        BY <1>1 DEF ExtractorState
      <4> QED  BY <4>1
    <3> SUFFICES ASSUME NEW r \in DOMAIN entries'
                 PROVE  /\ Mine(p, r)' => /\ entries'[r].item <= ext'[p].i
                                          /\ entries'[r].completed = p
                        /\ r \in Found(ext[p].aidx, ext[p].i)' => entries'[r].completed = p
      BY <1>3, <1>4 DEF Clean, Found, Rows
    <3>1. CASE r = n
      BY <1>3, <1>4, <1>11, <1>13, <3>1, <3>5
    <3>2. CASE r # n
      <4>1. r \in DOMAIN entries /\ entries'[r] = entries[r] /\ (Mine(p, r)' <=> Mine(p, r))
        BY <1>13, <1>15, <3>2
      <4>2. Mine(p, r) => entries[r].item <= ext[p].i /\ entries[r].completed = p
        BY <1>1, <4>1 DEF Work, Clean, At
      <4> QED  BY <1>3, <1>4, <1>12, <4>1, <4>2 DEF Found, Rows
    <3> QED  BY <3>1, <3>2
  <2>5. Filled(p)'
    <3> SUFFICES ASSUME ext[p].a \notin hit, NEW r \in DOMAIN entries', Mine(p, r)',
                        entries'[r].item = ext[p].i
                 PROVE  entries'[r].size = 1 /\ ext'[p].piece = 1
      <4>1. /\ ext'[p].pc = "write file" /\ ext'[p].a = ext[p].a /\ hit' = hit
            /\ ext'[p].i = ext[p].i
        BY <1>3, <1>4
      <4> QED  BY <4>1 DEF Filled
    <3>1. r = n
      BY <1>13, <1>15, <1>17
    <3> QED  BY <1>3, <1>4, <1>11, <1>13, <1>16, <3>1
  <2>6. HasEntry(p)'
    <3>1. ext'[p].a \notin hit' => ~(ext'[p].piece > 1) /\ ext'[p].pc # "mark"
      <4>1. /\ ext'[p].pc = "write file" /\ ext'[p].a = ext[p].a /\ hit' = hit
            /\ ext'[p].piece = ext[p].piece
        BY <1>3, <1>4
      <4>2. ext'[p].pc # "mark"
        BY <4>1
      <4>3. ext'[p].a \notin hit' => ext'[p].piece = 1
        BY <1>16, <4>1
      <4> QED  BY <4>2, <4>3
    <3>2. n \in DOMAIN entries' /\ entries'[n].aidx = ext'[p].aidx /\ entries'[n].item = ext'[p].i
      BY <1>3, <1>4, <1>11, <1>13
    <3>3. Found(ext[p].aidx, ext[p].i)' # {}
      BY <3>2 DEF Found, Rows
    <3> QED  BY <3>1, <3>3 DEF HasEntry
  <2> QED  BY <2>1, <2>2, <2>3, <2>4, <2>5, <2>6 DEF Work
<1>7. AllWhole(c)
  <2> SUFFICES ASSUME NEW r \in DOMAIN entries', entries'[r].completed = Done,
                      entries'[r].aidx \in DOMAIN archives,
                      archives[entries'[r].aidx] \notin hit
               PROVE  Whole(r)'
    BY <1>4 DEF AllWhole
  <2>1. r \in DOMAIN entries /\ entries'[r] = entries[r]
    BY <1>11, <1>13
  <2>2. Whole(r)
    BY <1>1, <2>1, AreWhole
  <2> QED  BY <1>4, <2>1, <2>2 DEF Whole, Full
<1>8. reader' = reader /\ Stays(p, c)
  BY <1>1, <1>3, <1>4, <1>13 DEF Stays
<1> QED  BY <1>1, <1>3, <1>4, <1>5, <1>6, <1>7, <1>8, OwnerStep

\* The file of the new entry holds the piece, whatever was in it.
LEMMA WriteFileKeeps ==
    ASSUME DiskInv, NEW p \in Process, WriteFile(p)
    PROVE  DiskInv'
<1>1. /\ ext[p].pc = "write file" /\ mutex = p /\ ext[p] \in ExtractorState
      /\ Tables /\ Work(p) /\ ext[p].victims = {}
  BY ThreadKinds DEF WriteFile, DiskInv, Threads, Work, Evicting
<1>16. PICK r0 \in Found(ext[p].aidx, ext[p].i) :
          files' = With(files, r0, <<<<Current(p), ext[p].piece>>>>)
  BY DEF WriteFile
<1>9. PICK s :
         s = <<<<Current(p), ext[p].piece>>>> /\ files' = With(files, r0, s)
  BY <1>16
<1>10. /\ r0 \in DOMAIN entries /\ entries[r0].completed = p
       /\ entries[r0].aidx = ext[p].aidx /\ entries[r0].item = ext[p].i
       /\ \A r \in DOMAIN entries :
             entries[r].aidx = ext[p].aidx /\ entries[r].item = ext[p].i => r = r0
  <2>1. /\ r0 \in DOMAIN entries
        /\ entries[r0].aidx = ext[p].aidx /\ entries[r0].item = ext[p].i
    BY DEF Found, Rows
  <2>2. entries[r0].completed = p
    BY <1>1 DEF Work, Clean
  <2>3. \A r \in DOMAIN entries :
          entries[r].aidx = ext[p].aidx /\ entries[r].item = ext[p].i => r = r0
    BY <1>1, <2>1 DEF Tables, EntryTable
  <2> QED  BY <2>1, <2>2, <2>3
<1>11. s \in Seq(Key \X Nat) /\ ext[p].i \in Item(ext[p].a) /\ At(p) /\ p # Done
  <2>1. ext[p].i \in Item(ext[p].a) /\ At(p)
    BY <1>1 DEF Work, Position, At
  <2>2. PICK e : e = <<Current(p), ext[p].piece>>
    OBVIOUS
  <2>3. e \in Key \X Nat
    BY <1>1, <2>1, <2>2, PieceIs
  <2>4. s = <<e>>
    BY <1>9, <2>2
  <2> QED  BY <2>1, <2>3, <2>4, SharedDiskAssumption
<1>2. PICK c \in ExtractorState :
         ext' = [ext EXCEPT ![p] = c] /\ ext'[p] = c /\ AfterPiece(p, c)
  BY <1>1, WrittenIs DEF DiskInv, WriteFile
<1>3. /\ c \in ExtractorState
      /\ c.pc = (IF ext[p].piece < Pieces[ext[p].a][ext[p].i] THEN "append" ELSE "mark")
      /\ c.a = ext[p].a /\ c.aidx = ext[p].aidx /\ c.victims = ext[p].victims
      /\ c.i = ext[p].i
      /\ c.piece = (IF ext[p].piece < Pieces[ext[p].a][ext[p].i]
                    THEN ext[p].piece + 1 ELSE ext[p].piece)
      /\ c.pc # "wait"
  BY <1>2 DEF AfterPiece
<1>4. /\ ext' = [ext EXCEPT ![p] = c] /\ ext'[p] = c
      /\ UNCHANGED <<mutex, up, hit, archives, sequence, entries, reader>>
  BY <1>2 DEF WriteFile
<1>12. /\ r0 \in DOMAIN files' /\ files'[r0] = s
       /\ \A r \in DOMAIN entries : r # r0 =>
             (r \in DOMAIN files => r \in DOMAIN files' /\ files'[r] = files[r])
  BY <1>9 DEF With
<1>13. ASSUME NEW r \in DOMAIN entries, Mine(p, r)'
       PROVE  /\ Mine(p, r) /\ entries[r].item <= ext[p].i /\ entries[r].completed = p
              /\ entries[r].item = ext[p].i => r = r0
  <2>1. Mine(p, r)
    BY <1>3, <1>4, <1>13 DEF Mine, OfArchive
  <2>2. entries[r].item <= ext[p].i /\ entries[r].completed = p
    BY <1>1, <1>11, <2>1 DEF Work, Clean
  <2>3. entries[r].aidx = ext[p].aidx
    BY <1>1, <2>1 DEF Work, RowKnown, Mine, OfArchive
  <2> QED  BY <1>10, <2>1, <2>2, <2>3
<1>14. ASSUME ext[p].a \notin hit, Mine(p, r0)
       PROVE  entries[r0].size = ext[p].piece /\ s = [j \in 1..ext[p].piece |-> <<Current(p), j>>]
  <2>1. entries[r0].size = 1 /\ ext[p].piece = 1
    BY <1>1, <1>10, <1>11, <1>14 DEF Work, Filled
  <2>2. PICK k : k = Current(p)
    OBVIOUS
  <2>3. <<<<k, 1>>>> = [j \in 1..1 |-> <<k, j>>]
    OBVIOUS
  <2> QED  BY <1>9, <2>1, <2>2, <2>3
<1>15. Position(p)' /\ Clean(p)' /\ Filled(p)' /\ HasEntry(p)'
  <2>2. \A r \in DOMAIN entries' : Mine(p, r)' =>
          entries'[r].item <= ext[p].i /\ entries'[r].completed = p
    BY <1>4, <1>13
  <2>3. ext[p].a \notin hit => \A r \in DOMAIN entries' :
          Mine(p, r)' /\ entries'[r].item = ext[p].i =>
          /\ entries'[r].size = ext[p].piece /\ r \in DOMAIN files'
          /\ files'[r] = [j \in 1..ext[p].piece |-> <<Current(p), j>>]
    BY <1>4, <1>12, <1>13, <1>14
  <2>4. ext[p].a \notin hit => \E r \in DOMAIN entries' :
          OfArchive(r, ext[p].a)' /\ entries'[r].item = ext[p].i
    <3> SUFFICES ASSUME ext[p].a \notin hit
                 PROVE  OfArchive(r0, ext[p].a)' /\ entries'[r0].item = ext[p].i
      <4>1. r0 \in DOMAIN entries'
        BY <1>4, <1>10
      <4> QED  BY <4>1, Zenon
    <3>1. OfArchive(r0, ext[p].a)
      BY <1>1, <1>10 DEF Work, RowKnown, OfArchive
    <3> QED  BY <1>3, <1>4, <1>10, <3>1 DEF OfArchive
  <2> QED  BY <1>1, <1>3, <1>4, <1>11, <2>2, <2>3, <2>4, NextPiece
<1>5. Tables'
  <2>1. Files'
    BY <1>1, <1>9, <1>11 DEF Tables, Files, With
  <2> QED  BY <1>1, <1>4, <2>1 DEF Tables, ArchiveTable, EntryTable
<1>6. Work(p)'
  <2>1. Evicting(p)'
    BY <1>1, <1>3, <1>4 DEF Evicting
  <2>2. RowKnown(p)'
    BY <1>1, <1>3, <1>4 DEF RowKnown, Work
  <2>3. Position(p)'
    BY <1>15
  <2>4. Clean(p)'
    BY <1>15
  <2>5. Filled(p)'
    BY <1>15
  <2>6. HasEntry(p)'
    BY <1>15
  <2> QED  BY <2>1, <2>2, <2>3, <2>4, <2>5, <2>6 DEF Work
<1>7. AllWhole(c)
  <2> SUFFICES ASSUME NEW r \in DOMAIN entries, entries[r].completed = Done,
                      entries[r].aidx \in DOMAIN archives,
                      archives[entries[r].aidx] \notin hit
               PROVE  Whole(r)'
    BY <1>4 DEF AllWhole
  <2>1. Whole(r) /\ r # r0
    BY <1>1, <1>10, <1>11, AreWhole
  <2> QED  BY <1>4, <1>12, <2>1 DEF Whole, Full
<1>8. reader' = reader /\ Stays(p, c)
  BY <1>1, <1>3, <1>4 DEF Stays
<1> QED  BY <1>1, <1>3, <1>4, <1>5, <1>6, <1>7, <1>8, OwnerStep

\* The thread after an item.
AfterItem(p, c) ==
    /\ c.pc = "append" /\ c.a = ext[p].a /\ c.aidx = ext[p].aidx
    /\ c.victims = ext[p].victims /\ c.i = ext[p].i + 1 /\ c.piece = 1
\* NextItem leaves it there, ...
LEMMA NextItemIs ==
    ASSUME Threads, NEW p \in Process, ext[p] \in ExtractorState,
           ext[p].i + 1 \in Nat \ {0}, NextItem(p)
    PROVE  \E c \in ExtractorState :
                ext' = [ext EXCEPT ![p] = c] /\ ext'[p] = c /\ AfterItem(p, c)
<1>1. PICK c : c = [ext[p] EXCEPT !.pc = "append", !.piece = 1, !.i = ext[p].i + 1]
  OBVIOUS
<1>2. ext' = [ext EXCEPT ![p] = c] /\ ext'[p] = c
  BY <1>1 DEF NextItem, Threads
<1>3. PICK i : i = ext[p].i + 1
  OBVIOUS
<1>4. c = [ext[p] EXCEPT !.pc = "append", !.piece = 1, !.i = i] /\ i \in Nat \ {0}
  BY <1>1, <1>3
<1>5. 1 \in Nat \ {0}
  OBVIOUS
<1>6. c \in ExtractorState /\ AfterItem(p, c)
  BY <1>3, <1>4, <1>5 DEF ExtractorState, AfterItem
<1> QED  BY <1>2, <1>6
\* ... and of the item it goes on with there is no unfinished entry.
LEMMA NewItem ==
    ASSUME NEW p \in Process, NEW c, ext'[p] = c, ext[p] \in ExtractorState,
           c.pc = "append", c.a = ext[p].a, c.i = ext[p].i + 1, c.piece = 1,
           \A r \in DOMAIN entries' :
             Mine(p, r)' => /\ entries'[r].item <= ext[p].i + 1
                            /\ entries'[r].item # ext[p].i + 1
                            /\ entries'[r].completed = p
    PROVE  Position(p)' /\ Clean(p)' /\ Filled(p)' /\ HasEntry(p)'
<1>1. /\ ext'[p].pc = "append" /\ ext'[p].a = ext[p].a /\ ext'[p].i = ext[p].i + 1
      /\ ext'[p].piece = 1
  OBVIOUS
<1>2. Position(p)'
  <2>1. ext'[p].i \in Item(ext'[p].a) => ext'[p].piece <= Pieces[ext'[p].a][ext'[p].i]
    BY <1>1, PiecesAre DEF ExtractorState
  <2> QED  BY <1>1, <2>1 DEF Position, At
<1>3. Clean(p)'
  BY <1>1 DEF Clean
<1>4. Filled(p)'
  BY <1>1 DEF Filled
<1>5. HasEntry(p)'
  <2>1. ~(ext'[p].piece > 1)
    BY <1>1
  <2> QED  BY <1>1, <2>1 DEF HasEntry
<1> QED  BY <1>2, <1>3, <1>4, <1>5

\* At the end of an item its entry is finished, and whole.
LEMMA MarkKeeps ==
    ASSUME DiskInv, NEW p \in Process, Mark(p)
    PROVE  DiskInv'
<1>1. /\ ext[p].pc = "mark" /\ mutex = p /\ ext[p] \in ExtractorState
      /\ Tables /\ Work(p) /\ ext[p].victims = {}
  BY ThreadKinds DEF Mark, DiskInv, Threads, Work, Evicting
<1>9. PICK x : x = IF ext[p].a \in Range(archives) THEN ArchiveIdx(ext[p].a) ELSE -1
  OBVIOUS
<1>10. \A y \in DOMAIN archives : archives[y] = ext[p].a <=> y = x
  <2>1. CASE ext[p].a \in Range(archives)
    BY <1>1, <1>9, <2>1, ArchiveIdxIs DEF Tables
  <2>2. CASE ext[p].a \notin Range(archives)
    <3>1. \A y \in DOMAIN archives : archives[y] # ext[p].a /\ y # -1
      BY <1>1, <2>2 DEF Range, Tables, ArchiveTable
    <3> QED  BY <1>9, <2>2, <3>1
  <2> QED  BY <2>1, <2>2
<1>11. /\ ext[p].i \in Item(ext[p].a) /\ ext[p].a \in Archive /\ At(p)
       /\ ext[p].i \in Nat /\ ext[p].i + 1 \in Nat \ {0}
  <2>1. ext[p].i \in Item(ext[p].a) /\ At(p)
    BY <1>1 DEF Work, Position, At
  <2>2. ext[p].a \in Archive /\ ext[p].i \in Nat
    BY <1>1 DEF ExtractorState
  <2> QED  BY <2>1, <2>2
<1>2. PICK c \in ExtractorState :
         ext' = [ext EXCEPT ![p] = c] /\ ext'[p] = c /\ AfterItem(p, c)
  BY <1>1, <1>11, NextItemIs DEF DiskInv, Mark
<1>3. /\ c \in ExtractorState /\ c.pc = "append" /\ c.a = ext[p].a
      /\ c.aidx = ext[p].aidx /\ c.victims = ext[p].victims
      /\ c.i = ext[p].i + 1 /\ c.piece = 1
  BY <1>2 DEF AfterItem
<1>4. /\ ext' = [ext EXCEPT ![p] = c] /\ ext'[p] = c
      /\ UNCHANGED <<mutex, up, hit, archives, sequence, files, reader>>
  BY <1>2 DEF Mark
<1>12. /\ DOMAIN entries' = DOMAIN entries
       /\ \A r \in DOMAIN entries :
             /\ entries'[r] \in LegalRow
             /\ entries'[r].aidx = entries[r].aidx /\ entries'[r].item = entries[r].item
             /\ entries'[r].size = entries[r].size
             /\ entries[r].completed = Done => entries'[r] = entries[r]
             /\ entries[r].aidx = x /\ entries[r].item = ext[p].i => entries'[r].completed = Done
             /\ ~(entries[r].aidx = x /\ entries[r].item = ext[p].i) => entries'[r] = entries[r]
  <2>1. entries' = [r \in DOMAIN entries |->
                      IF entries[r].aidx = x /\ entries[r].item = ext[p].i
                      THEN [entries[r] EXCEPT !.completed = Done] ELSE entries[r]]
    <3>1. PICK found : /\ found = {r \in Found(ArchiveIdx(ext[p].a), ext[p].i) :
                                    ext[p].a \in Range(archives)}
                       /\ entries' = [r \in DOMAIN entries |->
                            IF r \in found THEN [entries[r] EXCEPT !.completed = Done]
                            ELSE entries[r]]
      BY DEF Mark
    <3>2. \A r \in DOMAIN entries : entries[r].aidx # -1
      BY <1>1 DEF Tables, EntryTable, LegalRow
    <3>3. \A r \in DOMAIN entries :
            r \in found <=> entries[r].aidx = x /\ entries[r].item = ext[p].i
      BY <1>9, <3>1, <3>2 DEF Found, Rows
    <3> QED  BY <3>1, <3>3
  <2>2. DOMAIN entries' = DOMAIN entries
    BY <2>1
  <2> SUFFICES ASSUME NEW r \in DOMAIN entries
               PROVE
             /\ entries'[r] \in LegalRow
             /\ entries'[r].aidx = entries[r].aidx /\ entries'[r].item = entries[r].item
             /\ entries'[r].size = entries[r].size
             /\ entries[r].completed = Done => entries'[r] = entries[r]
             /\ entries[r].aidx = x /\ entries[r].item = ext[p].i => entries'[r].completed = Done
             /\ ~(entries[r].aidx = x /\ entries[r].item = ext[p].i) => entries'[r] = entries[r]
    BY <2>2
  <2>3. entries[r] \in LegalRow
    BY <1>1 DEF Tables, EntryTable
  <2>4. CASE entries[r].aidx = x /\ entries[r].item = ext[p].i
    <3>1. PICK e : e = [entries[r] EXCEPT !.completed = Done]
      OBVIOUS
    <3>2. /\ e \in LegalRow /\ e.aidx = entries[r].aidx /\ e.item = entries[r].item
          /\ e.size = entries[r].size /\ e.completed = Done
          /\ entries[r].completed = Done => e = entries[r]
      BY <2>3, <3>1 DEF LegalRow
    <3>3. entries'[r] = e
      BY <2>1, <2>4, <3>1
    <3> QED  BY <2>4, <3>2, <3>3
  <2>5. CASE ~(entries[r].aidx = x /\ entries[r].item = ext[p].i)
    <3>1. entries'[r] = entries[r]
      BY <2>1, <2>5
    <3> QED  BY <2>3, <2>5, <3>1
  <2> QED  BY <2>4, <2>5
<1>14. \A r \in DOMAIN entries' :
         Mine(p, r)' => /\ entries'[r].item <= ext[p].i + 1 /\ entries'[r].item # ext[p].i + 1
                        /\ entries'[r].completed = p
  <2> SUFFICES ASSUME NEW r \in DOMAIN entries', Mine(p, r)'
               PROVE  /\ entries'[r].item <= ext[p].i + 1 /\ entries'[r].item # ext[p].i + 1
                      /\ entries'[r].completed = p
    OBVIOUS
  <2>1. r \in DOMAIN entries /\ Mine(p, r) /\ entries'[r] = entries[r]
    BY <1>3, <1>4, <1>12 DEF Mine, OfArchive
  <2>2. entries[r].item <= ext[p].i /\ entries[r].completed = p
    BY <1>1, <1>11, <2>1 DEF Work, Clean
  <2>3. entries[r].item \in Nat
    BY <1>1, <2>1 DEF Tables, EntryTable, LegalRow
  <2>4. entries[r].item <= ext[p].i + 1 /\ entries[r].item # ext[p].i + 1
    BY <1>11, <2>2, <2>3
  <2> QED  BY <2>1, <2>2, <2>4
<1>15. Position(p)' /\ Clean(p)' /\ Filled(p)' /\ HasEntry(p)'
  BY <1>1, <1>3, <1>4, <1>11, <1>14, NewItem
<1>5. Tables'
  <2>1. entries' \in [DOMAIN entries' -> LegalRow]
    <3>1. entries' = [r \in DOMAIN entries' |-> entries'[r]]
      BY DEF Mark
    <3> QED  BY <1>12, <3>1
  <2>2. EntryTable'
    BY <1>1, <1>4, <1>12, <2>1 DEF Tables, EntryTable
  <2> QED  BY <1>1, <1>4, <2>2 DEF Tables, ArchiveTable, Files
<1>6. Work(p)'
  <2>1. Evicting(p)'
    BY <1>1, <1>3, <1>4 DEF Evicting
  <2>2. RowKnown(p)'
    BY <1>1, <1>3, <1>4 DEF RowKnown, Work
  <2>3. Position(p)'
    BY <1>15
  <2>4. Clean(p)'
    BY <1>15
  <2>5. Filled(p)'
    BY <1>15
  <2>6. HasEntry(p)'
    BY <1>15
  <2> QED  BY <2>1, <2>2, <2>3, <2>4, <2>5, <2>6 DEF Work
<1>7. AllWhole(c)
  <2> SUFFICES ASSUME NEW r \in DOMAIN entries, entries'[r].completed = Done,
                      entries[r].aidx \in DOMAIN archives,
                      archives[entries[r].aidx] \notin hit
               PROVE  Whole(r)'
    BY <1>4, <1>12 DEF AllWhole
  <2>1. Whole(r)
    <3>1. CASE entries[r].completed = Done
      BY <1>1, <3>1, AreWhole
    <3>2. CASE entries[r].completed # Done
      <4>1. /\ entries[r].aidx = x /\ entries[r].item = ext[p].i
            /\ archives[entries[r].aidx] = ext[p].a
        BY <1>10, <1>12, <3>2
      <4>2. Mine(p, r)
        BY <3>2, <4>1 DEF Mine, OfArchive
      <4>3. HasPieces(p, r, ext[p].piece, ext[p].piece) /\ ext[p].piece = Pieces[ext[p].a][ext[p].i]
        BY <1>1, <1>11, <4>1, <4>2 DEF Work, Filled, Position
      <4>4. PICK n, k : n = ext[p].piece /\ k = <<ext[p].a, ext[p].i>>
        OBVIOUS
      <4>5. k[1] = ext[p].a /\ k[2] = ext[p].i /\ n \in Nat /\ Pieces[k[1]][k[2]] = n
        BY <1>11, <4>3, <4>4, PiecesAre
      <4>6. files[r] = [j \in 1..n |-> <<k, j>>] /\ entries[r].size = n /\ r \in DOMAIN files
        BY <4>3, <4>4 DEF HasPieces, Current
      <4>7. files[r] = Full(k) /\ Len(files[r]) = n
        BY <4>5, <4>6 DEF Full
      <4> QED  BY <4>1, <4>4, <4>6, <4>7 DEF Whole
    <3> QED  BY <3>1, <3>2
  <2> QED  BY <1>4, <1>12, <2>1 DEF Whole, Full
<1>8. reader' = reader /\ Stays(p, c)
  BY <1>1, <1>3, <1>4, <1>12 DEF Stays
<1> QED  BY <1>1, <1>3, <1>4, <1>5, <1>6, <1>7, <1>8, OwnerStep

\* An item with an error leaves its entry unfinished.
LEMMA FailItemKeeps ==
    ASSUME DiskInv, NEW p \in Process, FailItem(p)
    PROVE  DiskInv'
<1>1. /\ ext[p].pc \in {"append", "mark"} /\ mutex = p /\ ext[p] \in ExtractorState
      /\ Tables /\ Work(p) /\ ext[p].victims = {}
  BY ThreadKinds DEF FailItem, DiskInv, Threads, Work, Evicting
<1>11. /\ ext[p].i \in Item(ext[p].a) /\ At(p)
       /\ ext[p].i \in Nat /\ ext[p].i + 1 \in Nat \ {0}
  <2>1. ext[p].i \in Item(ext[p].a) /\ At(p)
    BY <1>1 DEF FailItem, At
  <2>2. ext[p].i \in Nat
    BY <1>1 DEF ExtractorState
  <2> QED  BY <2>1, <2>2
<1>2. PICK c \in ExtractorState :
         ext' = [ext EXCEPT ![p] = c] /\ ext'[p] = c /\ AfterItem(p, c)
  BY <1>1, <1>11, NextItemIs DEF DiskInv, FailItem
<1>3. /\ c \in ExtractorState /\ c.pc = "append" /\ c.a = ext[p].a
      /\ c.aidx = ext[p].aidx /\ c.victims = ext[p].victims
      /\ c.i = ext[p].i + 1 /\ c.piece = 1
  BY <1>2 DEF AfterItem
<1>4. /\ ext' = [ext EXCEPT ![p] = c] /\ ext'[p] = c
      /\ UNCHANGED <<mutex, up, hit, archives, sequence, entries, files, reader>>
  BY <1>2 DEF FailItem, tables
<1>14. \A r \in DOMAIN entries' :
         Mine(p, r)' => /\ entries'[r].item <= ext[p].i + 1 /\ entries'[r].item # ext[p].i + 1
                        /\ entries'[r].completed = p
  <2> SUFFICES ASSUME NEW r \in DOMAIN entries', Mine(p, r)'
               PROVE  /\ entries'[r].item <= ext[p].i + 1 /\ entries'[r].item # ext[p].i + 1
                      /\ entries'[r].completed = p
    OBVIOUS
  <2>1. r \in DOMAIN entries /\ Mine(p, r) /\ entries'[r] = entries[r]
    BY <1>3, <1>4 DEF Mine, OfArchive
  <2>2. entries[r].item <= ext[p].i /\ entries[r].completed = p
    BY <1>1, <1>11, <2>1 DEF Work, Clean
  <2>3. entries[r].item \in Nat
    BY <1>1, <2>1 DEF Tables, EntryTable, LegalRow
  <2>4. entries[r].item <= ext[p].i + 1 /\ entries[r].item # ext[p].i + 1
    BY <1>11, <2>2, <2>3
  <2> QED  BY <2>1, <2>2, <2>4
<1>15. Position(p)' /\ Clean(p)' /\ Filled(p)' /\ HasEntry(p)'
  BY <1>1, <1>3, <1>4, <1>11, <1>14, NewItem
<1>5. Tables'
  BY <1>1, <1>4 DEF Tables, ArchiveTable, EntryTable, Files
<1>6. Work(p)'
  <2>1. Evicting(p)'
    BY <1>1, <1>3, <1>4 DEF Evicting
  <2>2. RowKnown(p)'
    BY <1>1, <1>3, <1>4 DEF RowKnown, Work
  <2>3. Position(p)'
    BY <1>15
  <2>4. Clean(p)'
    BY <1>15
  <2>5. Filled(p)'
    BY <1>15
  <2>6. HasEntry(p)'
    BY <1>15
  <2> QED  BY <2>1, <2>2, <2>3, <2>4, <2>5, <2>6 DEF Work
<1>7. AllWhole(c)
  <2> SUFFICES ASSUME NEW r \in DOMAIN entries, entries[r].completed = Done,
                      entries[r].aidx \in DOMAIN archives,
                      archives[entries[r].aidx] \notin hit
               PROVE  Whole(r)'
    BY <1>4 DEF AllWhole
  <2>1. Whole(r)
    BY <1>1, AreWhole
  <2> QED  BY <1>4, <2>1 DEF Whole, Full
<1>8. reader' = reader /\ Stays(p, c)
  BY <1>1, <1>3, <1>4 DEF Stays
<1> QED  BY <1>1, <1>3, <1>4, <1>5, <1>6, <1>7, <1>8, OwnerStep

----------------------------------------------------------------------------
(* The steps of those who do not work for the owner of the mutex           *)

\* Then what is known of an extractor stays true if its files stay, or its
\* archive is hit.
LEMMA WorkStays ==
    ASSUME RowsStay, NEW q \in Process, Work(q), ext'[q] = ext[q],
           ext[q].a \notin hit' => ext[q].a \notin hit,
           ext[q].pc \in {"look up again", "add or append"} /\ ext[q].a \notin hit'
              => \A x \in DOMAIN archives : archives[x] = ext[q].a => x \in DOMAIN archives',
           ext[q].a \notin hit' => \A r \in DOMAIN entries : Mine(q, r) =>
              (r \in DOMAIN files => r \in DOMAIN files' /\ files'[r] = files[r])
    PROVE  Work(q)'
<1>1. \A r \in DOMAIN entries : OfArchive(r, ext[q].a)' <=> OfArchive(r, ext[q].a)
  BY DEF RowsStay, OfArchive
<1>2. \A r \in DOMAIN entries : Mine(q, r)' => Mine(q, r)
  BY DEF RowsStay, OfArchive, Mine
<1>3. Evicting(q)'
  <2>1. CASE ext[q].pc = "evict rows"
    <3>1. PICK x \in DOMAIN archives \ {ext[q].aidx} :
            \A r \in ext[q].victims : entries[r].aidx = x /\ entries[r].completed = Done
      BY <2>1 DEF Work, Evicting
    <3>2. PICK r \in ext[q].victims : r \in DOMAIN entries
      BY <2>1 DEF Work, Evicting
    <3>3. x \in DOMAIN archives' \ {ext[q].aidx}
      BY <3>1, <3>2 DEF RowsStay
    <3>4. ext[q].victims # {} /\ ext[q].victims \subseteq DOMAIN entries
      BY <2>1 DEF Work, Evicting
    <3> QED  BY <2>1, <3>1, <3>3, <3>4 DEF RowsStay, Evicting
  <2>2. CASE ext[q].pc # "evict rows"
    BY <2>2 DEF Work, Evicting
  <2> QED  BY <2>1, <2>2
<1>4. RowKnown(q)'
  <2>1. RowKnown(q)
    BY DEF Work
  <2>2. ext[q].pc \in Storing /\ ext[q].a \notin hit' => ext[q].aidx \in DOMAIN archives'
    <3>1. ext[q].pc \in Storing /\ ext[q].a \notin hit' =>
            ext[q].aidx \in DOMAIN archives /\ archives[ext[q].aidx] = ext[q].a
      BY <2>1 DEF RowKnown
    <3>2. CASE ext[q].pc = "add or append"
      BY <3>1, <3>2
    <3>3. CASE ext[q].pc \in {"update size", "write file"}
      <4>1. \E r \in DOMAIN entries : entries[r].aidx = ext[q].aidx
        BY <3>3 DEF Work, HasEntry, Found, Rows
      <4> QED  BY <3>1, <3>3, <4>1 DEF RowsStay
    <3> QED  BY <3>2, <3>3
  <2>3. ext[q].pc = "look up again" /\ ext[q].a \notin hit' => ext[q].a \in Range(archives')
    <3> SUFFICES ASSUME ext[q].pc = "look up again", ext[q].a \notin hit'
                 PROVE  ext[q].a \in Range(archives')
      OBVIOUS
    <3>1. PICK x \in DOMAIN archives : archives[x] = ext[q].a
      BY <2>1 DEF RowKnown, Range
    <3>2. x \in DOMAIN archives' /\ archives'[x] = ext[q].a
      BY <3>1 DEF RowsStay
    <3> QED  BY <3>2 DEF Range
  <2>4. ext[q].pc \in Purging \cup Looked
        => \A x \in DOMAIN archives' : archives'[x] = ext[q].a <=> x = ext[q].aidx
    BY <2>1 DEF RowsStay, RowKnown
  <2>5. ext[q].pc \in Looked => ext[q].aidx \in 0..(sequence' - 1)
    BY <2>1 DEF RowsStay, RowKnown
  <2> QED  BY <2>2, <2>3, <2>4, <2>5 DEF RowKnown
<1>5. Position(q)'
  BY DEF Work, Position, At
<1>6. Clean(q)'
  BY <1>2 DEF RowsStay, Work, Clean, At, Found, Rows, Mine, OfArchive
<1>7. Filled(q)'
  <2> SUFFICES ASSUME At(q)', ext'[q].a \notin hit', NEW r \in DOMAIN entries, Mine(q, r)',
                      entries[r].item = ext[q].i
               PROVE  /\ ext[q].pc = "write file" => entries[r].size = 1 /\ ext[q].piece = 1
                      /\ ext[q].pc = "mark" => HasPieces(q, r, ext[q].piece, ext[q].piece)'
                      /\ ext[q].pc = "update size"
                         => HasPieces(q, r, ext[q].piece - 1, ext[q].piece)'
                      /\ ext[q].pc \notin {"write file", "mark", "update size"}
                         => HasPieces(q, r, ext[q].piece - 1, ext[q].piece - 1)'
    BY DEF RowsStay, Filled, HasPieces
  <2>1. Mine(q, r) /\ At(q) /\ ext[q].a \notin hit
    BY <1>2 DEF At
  <2>2. r \in DOMAIN files => r \in DOMAIN files' /\ files'[r] = files[r]
    BY <2>1
  <2>3. ASSUME NEW n, NEW m, HasPieces(q, r, n, m) PROVE HasPieces(q, r, n, m)'
    BY <2>2, <2>3 DEF RowsStay, HasPieces, Current
  <2>4. /\ ext[q].pc = "write file" => entries[r].size = 1 /\ ext[q].piece = 1
        /\ ext[q].pc = "mark" => HasPieces(q, r, ext[q].piece, ext[q].piece)
        /\ ext[q].pc = "update size" => HasPieces(q, r, ext[q].piece - 1, ext[q].piece)
        /\ ext[q].pc \notin {"write file", "mark", "update size"}
           => HasPieces(q, r, ext[q].piece - 1, ext[q].piece - 1)
    BY <2>1 DEF Work, Filled
  <2> QED  BY <2>2, <2>4 DEF RowsStay, HasPieces, Current
<1>8. HasEntry(q)'
  <2>1. At(q)' /\ ext'[q].a \notin hit' /\ (ext'[q].piece > 1 \/ ext'[q].pc = "mark")
        => \E r \in DOMAIN entries : OfArchive(r, ext[q].a) /\ entries[r].item = ext[q].i
    BY DEF Work, HasEntry, At
  <2>2. ext'[q].pc \in {"update size", "write file"} => Found(ext[q].aidx, ext[q].i)' # {}
    BY DEF RowsStay, Work, HasEntry, Found, Rows
  <2> QED  BY <1>1, <2>1, <2>2 DEF RowsStay, HasEntry, OfArchive
<1> QED  BY <1>3, <1>4, <1>5, <1>6, <1>7, <1>8 DEF Work

\* What is known of a reader stays true.
LEMMA ReadStays ==
    ASSUME RowsStay, NEW q \in Process, Reads(q), reader'[q] = reader[q],
           Leaving' \subseteq Leaving,
           reader[q] # Idle /\ reader[q].key[1] \notin hit' => reader[q].key[1] \notin hit
    PROVE  Reads(q)'
<1>1. ASSUME NEW k, NEW r, Kept(k, r) PROVE Kept(k, r)'
  BY <1>1 DEF RowsStay, Kept, Standing, OfArchive
<1>2. PICK k, r : k = reader[q].key /\ r = reader[q].seen
  OBVIOUS
<1>3. CASE reader[q] # Idle /\ ~reader[q].gone /\ k[1] \notin hit'
  <2>1. /\ reader[q].pc \in {"select", "map"} => Kept(k, r)
        /\ reader[q].pc = "map" => reader[q].row = r /\ reader[q].size = entries[r].size
        /\ reader[q].pc = "served" => reader[q].got = Full(k)
    BY <1>2, <1>3 DEF Reads
  <2>2. reader[q].pc \in {"select", "map"} => Kept(k, r)'
    BY <1>1, <2>1
  <2> QED  BY <1>2, <2>1, <2>2 DEF RowsStay, Reads
<1>4. CASE ~(reader[q] # Idle /\ ~reader[q].gone /\ k[1] \notin hit')
  BY <1>2, <1>4 DEF Reads
<1> QED  BY <1>3, <1>4

\* And so do the tables and what is served, if the files stay.
LEMMA TablesStay ==
    ASSUME RowsStay, Tables, WholeRows, files' = files,
           archives' \in [DOMAIN archives' -> Archive], Leaving' \subseteq Leaving,
           \A r \in DOMAIN entries : Standing(r)' /\ archives[entries[r].aidx] \notin hit'
              => Standing(r) /\ archives[entries[r].aidx] \notin hit
    PROVE  Tables' /\ WholeRows'
<1>1. Tables'
  BY DEF RowsStay, Tables, ArchiveTable, EntryTable, Files
<1>2. WholeRows'
  <2> SUFFICES ASSUME NEW r \in DOMAIN entries, Standing(r)',
                      archives'[entries[r].aidx] \notin hit'
               PROVE  Whole(r)'
    BY DEF RowsStay, WholeRows
  <2>1. archives'[entries[r].aidx] = archives[entries[r].aidx]
    BY DEF RowsStay, Standing
  <2>2. Whole(r)
    BY <2>1 DEF WholeRows
  <2> QED  BY <2>1, <2>2 DEF RowsStay, Whole, Full
<1> QED  BY <1>1, <1>2

\* Extractors that begin, wait or end evict nothing.
LEMMA LeavingStays ==
    ASSUME Threads, NEW p \in Process, NEW c, ext' = [ext EXCEPT ![p] = c],
           ext[p] = Idle \/ ext[p].victims = {}, c = Idle \/ c.victims = {}
    PROVE  Leaving' = Leaving
<1>1. ext'[p] = c /\ \A q \in Process : q # p => ext'[q] = ext[q]
  BY DEF Threads
<1> QED  BY <1>1 DEF Leaving

\* What is left to show of a step of an extractor that does not touch the
\* tables.
LEMMA QuietStep ==
    ASSUME DiskInv, NEW p \in Process, NEW c \in ExtractorState \cup {Idle},
           ext' = [ext EXCEPT ![p] = c], UNCHANGED <<tables, up, reader, hit>>,
           ext[p] = Idle \/ ext[p].victims = {}, c = Idle \/ c.victims = {},
           mutex' \in Process \cup {Free, Abandoned}, p \in up,
           c.pc \in {"idle", "wait", "purge files"},
           c.pc = "purge files" <=> mutex' = p,
           \A q \in Process : q # p => (mutex' = q <=> mutex = q),
           c # Idle /\ ~c.extracted => c.i = 1 /\ c.piece = 1
    PROVE  DiskInv'
<1>1. ext'[p] = c /\ \A q \in Process : q # p => ext'[q] = ext[q]
  BY DEF DiskInv, Threads
<1>2. Leaving' = Leaving
  BY LeavingStays DEF DiskInv
<1>3. RowsStay
  BY DEF RowsStay, tables
<1>4. Tables' /\ WholeRows'
  <2>1. \A r \in DOMAIN entries : Standing(r)' => Standing(r)
    BY <1>2 DEF Standing, tables
  <2>2. archives' \in [DOMAIN archives' -> Archive]
    BY DEF tables, DiskInv, Tables, ArchiveTable
  <2> QED  BY <1>2, <1>3, <2>1, <2>2, TablesStay DEF DiskInv, tables
<1>5. Threads'
  <2>1. ext' \in [Process -> ExtractorState \cup {Idle}]
    BY DEF DiskInv, Threads
  <2>2. c.pc \notin {"idle", "wait"} <=> c.pc = "purge files"
    OBVIOUS
  <2>3. ASSUME NEW q \in Process
        PROVE  /\ ext'[q] # Idle => q \in up'
               /\ reader'[q] # Idle => q \in up'
               /\ ext'[q].pc \notin {"idle", "wait"} <=> mutex' = q
    <3>1. CASE q = p
      BY <1>1, <2>2, <3>1 DEF DiskInv, Threads
    <3>2. CASE q # p
      BY <1>1, <3>2 DEF DiskInv, Threads
    <3> QED  BY <3>1, <3>2
  <2> QED  BY <2>1, <2>3 DEF DiskInv, Threads
<1>6. ASSUME NEW q \in Process PROVE Work(q)'
  <2>1. CASE q = p
    <3>1. Idle.pc = "idle"
      BY DEF Idle
    <3>2. c.pc # "idle" => c # Idle /\ c.victims = {}
      BY <3>1
    <3> QED  BY <1>1, <2>1, <3>2
             DEF Work, Evicting, RowKnown, Position, At, Clean, Filled, HasEntry
  <2>2. CASE q # p
    BY <1>1, <1>3, <2>2, WorkStays DEF DiskInv, tables
  <2> QED  BY <2>1, <2>2
<1>7. ASSUME NEW q \in Process PROVE Reads(q)'
  BY <1>2, <1>3, ReadStays DEF DiskInv
<1> QED  BY <1>4, <1>5, <1>6, <1>7 DEF DiskInv

\* A new extraction waits for its turn.
LEMMA RequestKeeps ==
    ASSUME DiskInv, NEW p \in Process, NEW a \in Archive, Request(p, a)
    PROVE  DiskInv'
<1>1. ext[p] = Idle /\ mutex # p
  <2>1. ext[p] = Idle
    BY DEF Request
  <2> QED  BY <2>1, ThreadKinds DEF DiskInv, Threads
<1>2. PICK c : c = [pc |-> "wait", a |-> a, aidx |-> 0, from |-> 0, victims |-> {},
                    need |-> 0, i |-> 1, piece |-> 1, extracted |-> FALSE]
  OBVIOUS
<1>3. c \in ExtractorState /\ c.pc = "wait" /\ c.victims = {} /\ c.i = 1 /\ c.piece = 1
  <2>1. 1 \in Nat \ {0} /\ 0 \in Nat
    OBVIOUS
  <2> QED  BY <1>2, <2>1 DEF ExtractorState
<1>4. /\ ext' = [ext EXCEPT ![p] = c] /\ p \in up
      /\ UNCHANGED <<mutex, tables, up, reader, hit>>
  BY <1>2 DEF Request
<1>5. mutex' \in Process \cup {Free, Abandoned}
  BY <1>4 DEF DiskInv, Threads
<1> QED  BY <1>1, <1>3, <1>4, <1>5, QuietStep

\* The mutex goes to one extractor.
LEMMA AcquireKeeps == ASSUME DiskInv, NEW p \in Process, Acquire(p) PROVE DiskInv'
<1>1. /\ ext[p].pc = "wait" /\ ext[p] \in ExtractorState /\ ext[p] # Idle
      /\ ext[p].victims = {} /\ p \in up
      /\ ~ext[p].extracted => ext[p].i = 1 /\ ext[p].piece = 1
  <2>1. ext[p].pc = "wait"
    BY DEF Acquire
  <2> QED  BY <2>1, ThreadKinds DEF DiskInv, Threads, Work, Evicting, Position
<1>2. PICK c : c = [ext[p] EXCEPT !.pc = "purge files"]
  OBVIOUS
<1>3. /\ c \in ExtractorState /\ c.pc = "purge files" /\ c.victims = {}
      /\ c.i = ext[p].i /\ c.piece = ext[p].piece /\ c.extracted = ext[p].extracted
  BY <1>1, <1>2 DEF ExtractorState
<1>4. /\ ext' = [ext EXCEPT ![p] = c] /\ mutex' = p /\ mutex \in {Free, Abandoned}
      /\ UNCHANGED <<tables, up, reader, hit>>
  BY <1>2 DEF Acquire, Goto, DiskInv, Threads
<1>5. \A q \in Process : q # p => (mutex' = q <=> mutex = q)
  BY <1>4, SharedDiskAssumption
<1> QED  BY <1>1, <1>3, <1>4, <1>5, QuietStep

\* It is free again when the extractor ends.
LEMMA ReleaseKeeps == ASSUME DiskInv, NEW p \in Process, Release(p) PROVE DiskInv'
<1>1. /\ ext[p].victims = {} /\ p \in up /\ mutex = p
  <2>1. ext[p].pc = "release"
    BY DEF Release
  <2> QED  BY <2>1, ThreadKinds DEF DiskInv, Threads, Work, Evicting
<1>2. PICK c : c = Idle
  OBVIOUS
<1>3. c \in ExtractorState \cup {Idle} /\ c.pc = "idle"
  BY <1>2 DEF Idle
<1>4. /\ ext' = [ext EXCEPT ![p] = c] /\ mutex' = Free
      /\ UNCHANGED <<tables, up, reader, hit>>
  BY <1>2 DEF Release
<1>5. mutex' # p /\ \A q \in Process : q # p => (mutex' = q <=> mutex = q)
  BY <1>1, <1>4, SharedDiskAssumption
<1> QED  BY <1>1, <1>2, <1>3, <1>4, <1>5, QuietStep

\* What is left to show of a step of a reader.
LEMMA ReaderStep ==
    ASSUME DiskInv, NEW p \in Process, p \in up, NEW d \in ReaderState \cup {Idle},
           reader' = [reader EXCEPT ![p] = d], UNCHANGED <<mutex, tables, up, ext, hit>>,
           Reads(p)'
    PROVE  DiskInv'
<1>1. reader'[p] = d /\ \A q \in Process : q # p => reader'[q] = reader[q]
  BY DEF DiskInv, Threads
<1>2. Leaving' = Leaving
  BY DEF Leaving
<1>3. RowsStay
  BY DEF RowsStay, tables
<1>4. Tables' /\ WholeRows'
  <2>1. \A r \in DOMAIN entries : Standing(r)' => Standing(r)
    BY <1>2 DEF Standing, tables
  <2>2. archives' \in [DOMAIN archives' -> Archive]
    BY DEF tables, DiskInv, Tables, ArchiveTable
  <2> QED  BY <1>2, <1>3, <2>1, <2>2, TablesStay DEF DiskInv, tables
<1>5. Threads'
  <2>1. reader' \in [Process -> ReaderState \cup {Idle}]
    BY DEF DiskInv, Threads
  <2> QED  BY <1>1, <2>1 DEF DiskInv, Threads
<1>6. ASSUME NEW q \in Process PROVE Work(q)'
  BY <1>3, WorkStays DEF DiskInv, tables
<1>7. ASSUME NEW q \in Process PROVE Reads(q)'
  <2>1. CASE q = p
    BY <2>1
  <2>2. CASE q # p
    BY <1>1, <1>2, <1>3, <2>2, ReadStays DEF DiskInv
  <2> QED  BY <2>1, <2>2
<1> QED  BY <1>4, <1>5, <1>6, <1>7 DEF DiskInv

\* The entry a query finds is that of the key, if the archive has a row.
LEMMA FoundIs ==
    ASSUME Tables, NEW k, k[1] \in Range(archives), NEW r
    PROVE  r \in Found(ArchiveIdx(k[1]), k[2]) <=>
              r \in DOMAIN entries /\ OfArchive(r, k[1]) /\ entries[r].item = k[2]
<1>1. PICK x : x = ArchiveIdx(k[1])
  OBVIOUS
<1>2. \A y \in DOMAIN archives : archives[y] = k[1] <=> y = x
  BY <1>1, ArchiveIdxIs DEF Tables
<1>3. x \in DOMAIN archives
  BY <1>1, ArchiveIdxIs DEF Tables
<1>5. r \in Found(x, k[2]) <=>
         r \in DOMAIN entries /\ entries[r].aidx = x /\ entries[r].item = k[2]
  BY DEF Found, Rows
<1> QED  BY <1>1, <1>2, <1>3, <1>5 DEF OfArchive

\* A reader finds a finished entry of its item.
LEMMA CheckKeeps ==
    ASSUME DiskInv, NEW p \in Process, NEW k \in Key, Check(p, k)
    PROVE  DiskInv'
<1>9. PICK r \in Finished(k) :
        reader' = [reader EXCEPT
                    ![p] = [pc |-> "select", key |-> k, seen |-> r, gone |-> r \in Leaving,
                            row |-> 0, size |-> 0, got |-> << >>]]
  BY DEF Check
<1>1. PICK d :
        /\ d = [pc |-> "select", key |-> k, seen |-> r, gone |-> r \in Leaving,
                row |-> 0, size |-> 0, got |-> << >>]
        /\ reader' = [reader EXCEPT ![p] = d]
  BY <1>9
<1>2. /\ r \in DOMAIN entries /\ OfArchive(r, k[1]) /\ entries[r].item = k[2]
      /\ entries[r].completed = Done /\ r \in Nat
  <2>3. /\ k[1] \in Range(archives) /\ r \in Found(ArchiveIdx(k[1]), k[2])
        /\ r \in Completed(ArchiveIdx(k[1]))
    BY DEF Finished
  <2>1. r \in DOMAIN entries /\ OfArchive(r, k[1]) /\ entries[r].item = k[2]
    BY <2>3, FoundIs DEF DiskInv
  <2>2. entries[r].completed = Done
    BY <2>3 DEF Completed
  <2> QED  BY <2>1, <2>2, Rowids DEF DiskInv
<1>3. d.pc = "select" /\ d.key = k /\ d.seen = r /\ (d.gone <=> r \in Leaving)
  BY <1>1
<1>4. d \in ReaderState
  <2>1. << >> \in Seq(Key \X Nat)
    OBVIOUS
  <2>2. (r \in Leaving) \in BOOLEAN
    OBVIOUS
  <2> QED  BY <1>1, <1>2, <2>1, <2>2 DEF ReaderState
<1>5. p \in up /\ UNCHANGED <<mutex, tables, up, ext, hit>>
  BY DEF Check
<1>6. reader'[p] = d
  BY <1>1 DEF DiskInv, Threads
<1>7. ~d.gone => Kept(k, r)'
  BY <1>2, <1>3, <1>5 DEF Kept, Standing, OfArchive, Leaving, tables
<1>8. Reads(p)'
  BY <1>3, <1>6, <1>7 DEF Reads
<1> QED  BY <1>1, <1>4, <1>5, <1>8, ReaderStep

\* Then it looks up the row, which is still the one it has found.
LEMMA SelectKeeps == ASSUME DiskInv, NEW p \in Process, Select(p) PROVE DiskInv'
<1>1. /\ reader[p].pc = "select" /\ reader[p] \in ReaderState /\ reader[p] # Idle /\ p \in up
      /\ UNCHANGED <<mutex, tables, up, ext, hit>>
  BY ThreadKinds DEF Select, DiskInv, Threads
<1>2. PICK found, k, s : /\ k = reader[p].key /\ s = reader[p].seen
                         /\ found = Found(ArchiveIdx(k[1]), k[2])
  OBVIOUS
<1>3. PICK row, size, d :
        /\ row = (IF found = {} THEN 0 ELSE CHOOSE r \in found : TRUE)
        /\ size = (IF found = {} THEN 0 ELSE entries[CHOOSE r \in found : TRUE].size)
        /\ d = [reader[p] EXCEPT !.pc = "map", !.row = row, !.size = size]
  OBVIOUS
<1>4. reader' = [reader EXCEPT ![p] = d] /\ reader'[p] = d
  <2>1. found = Found(ArchiveIdx(reader[p].key[1]), reader[p].key[2])
    BY <1>2
  <2>2. reader' = [reader EXCEPT ![p].pc = "map",
                                ![p].row = IF found = {} THEN 0 ELSE CHOOSE r \in found : TRUE,
                                ![p].size = IF found = {} THEN 0
                                            ELSE entries[CHOOSE r \in found : TRUE].size]
    BY <2>1, Zenon DEF Select
  <2>3. reader' = [reader EXCEPT ![p].pc = "map", ![p].row = row, ![p].size = size]
    BY <1>3, <2>2, Zenon
  <2> QED  BY <1>3, <2>3 DEF DiskInv, Threads
<1>5. found # {} => row \in found /\ size = entries[row].size
  BY <1>3
<1>6. \A r \in found : r \in DOMAIN entries
  BY <1>2 DEF Found, Rows
<1>7. row \in Nat /\ size \in Nat
  <2>1. CASE found = {}
    BY <1>3, <2>1
  <2>2. CASE found # {}
    <3>1. row \in DOMAIN entries
      BY <1>5, <1>6, <2>2
    <3>2. entries[row] \in LegalRow
      BY <3>1 DEF DiskInv, Tables, EntryTable
    <3> QED  BY <1>5, <2>2, <3>1, <3>2, Rowids DEF DiskInv, LegalRow
  <2> QED  BY <2>1, <2>2
<1>8. /\ d \in ReaderState /\ d.pc = "map" /\ d.row = row /\ d.size = size
      /\ d.key = k /\ d.seen = s /\ d.gone = reader[p].gone
  BY <1>1, <1>2, <1>3, <1>7 DEF ReaderState
<1>9. ASSUME Kept(k, s) PROVE row = s /\ size = entries[s].size /\ Kept(k, s)'
  <2>5. k[1] \in Range(archives)
    BY <1>9 DEF Kept, OfArchive, Range
  <2>1. s \in found
    BY <1>2, <1>9, <2>5, FoundIs DEF DiskInv, Kept
  <2>2. row \in found
    BY <1>5, <2>1
  <2>3. entries[s].item = entries[row].item /\ entries[s].aidx = entries[row].aidx
    BY <1>2, <2>1, <2>2 DEF Found, Rows
  <2>4. row = s
    BY <1>6, <2>1, <2>2, <2>3 DEF DiskInv, Tables, EntryTable
  <2> QED  BY <1>1, <1>5, <1>9, <2>1, <2>4 DEF Kept, Standing, OfArchive, Leaving, tables
<1>10. Reads(p)'
  <2> SUFFICES ASSUME ~d.gone, k[1] \notin hit
               PROVE  row = s /\ size = entries'[s].size /\ Kept(k, s)'
    BY <1>1, <1>4, <1>8 DEF Reads
  <2>1. Kept(k, s)
    BY <1>1, <1>2, <1>8 DEF DiskInv, Reads
  <2> QED  BY <1>1, <1>9, <2>1 DEF tables
<1> QED  BY <1>1, <1>4, <1>8, <1>10, ReaderStep

\* And then it reads the file of that row, which holds the item.
LEMMA MapKeeps == ASSUME DiskInv, NEW p \in Process, Map(p) PROVE DiskInv'
<1>1. /\ reader[p].pc = "map" /\ reader[p] \in ReaderState /\ reader[p] # Idle /\ p \in up
      /\ UNCHANGED <<mutex, tables, up, ext, hit>>
  BY ThreadKinds DEF Map, DiskInv, Threads
<1>2. PICK k, r, n : k = reader[p].key /\ r = reader[p].row /\ n = reader[p].size
  OBVIOUS
<1>3. n \in Nat /\ r \in Nat
  BY <1>1, <1>2 DEF ReaderState
<1>4. PICK got, d :
        /\ got = (IF n = 0 THEN << >>
                  ELSE IF r \in DOMAIN files /\ Len(files[r]) >= n THEN SubSeq(files[r], 1, n)
                  ELSE reader[p].got)
        /\ d = [reader[p] EXCEPT !.pc = "served", !.got = got]
  OBVIOUS
<1>5. reader' = [reader EXCEPT ![p] = d] /\ reader'[p] = d
  <2>1. reader' = [reader EXCEPT ![p] = d]
    <3>1. CASE n = 0 \/ (r \in DOMAIN files /\ Len(files[r]) >= n)
      <4>1. got = IF n = 0 THEN << >> ELSE SubSeq(files[r], 1, n)
        BY <1>4, <3>1
      <4> QED  BY <1>2, <1>4, <3>1, <4>1 DEF Map, DiskInv, Threads
    <3>2. CASE ~(n = 0 \/ (r \in DOMAIN files /\ Len(files[r]) >= n))
      <4>1. got = reader[p].got
        BY <1>4, <3>2
      <4>2. d = [reader[p] EXCEPT !.pc = "served"]
        BY <1>1, <1>4, <4>1 DEF ReaderState
      <4> QED  BY <1>2, <3>2, <4>2 DEF Map, DiskInv, Threads
    <3> QED  BY <3>1, <3>2
  <2> QED  BY <2>1 DEF DiskInv, Threads
<1>6. got \in Seq(Key \X Nat)
  <2>1. CASE n = 0
    BY <1>4, <2>1
  <2>2. CASE n # 0 /\ r \in DOMAIN files /\ Len(files[r]) >= n
    <3>1. files[r] \in Seq(Key \X Nat)
      BY <2>2 DEF DiskInv, Tables, Files
    <3>2. SubSeq(files[r], 1, n) \in Seq(Key \X Nat)
      BY <1>3, <2>2, <3>1
    <3> QED  BY <1>4, <2>2, <3>2
  <2>3. CASE n # 0 /\ ~(r \in DOMAIN files /\ Len(files[r]) >= n)
    BY <1>1, <1>4, <2>3 DEF ReaderState
  <2> QED  BY <2>1, <2>2, <2>3
<1>7. d \in ReaderState /\ d.pc = "served" /\ d.key = k /\ d.got = got /\ d.gone = reader[p].gone
  BY <1>1, <1>2, <1>4, <1>6 DEF ReaderState
<1>8. Reads(p)'
  <2> SUFFICES ASSUME ~reader[p].gone, k[1] \notin hit PROVE got = Full(k)
    BY <1>1, <1>5, <1>7 DEF Reads
  <2>1. Kept(k, r) /\ n = entries[r].size
    BY <1>1, <1>2 DEF DiskInv, Reads
  <2>2. /\ r \in DOMAIN files /\ n = Len(files[r]) /\ n # 0
        /\ files[r] = Full(<<archives[entries[r].aidx], entries[r].item>>)
    BY <2>1 DEF Kept, OfArchive, DiskInv, WholeRows, Whole, Tables, EntryTable, LegalRow
  <2>3. archives[entries[r].aidx] = k[1] /\ entries[r].item = k[2]
    BY <2>1 DEF Kept, OfArchive
  <2>4. k = <<k[1], k[2]>>
    BY <1>1, <1>2 DEF ReaderState, Key
  <2>5. files[r] = Full(k)
    BY <2>2, <2>3, <2>4
  <2>6. PICK f : f = files[r]
    OBVIOUS
  <2>7. f \in Seq(Key \X Nat) /\ n = Len(f)
    BY <2>2, <2>6 DEF DiskInv, Tables, Files
  <2>8. SubSeq(f, 1, n) = f
    BY <2>7, SubSeqFull
  <2>9. n # 0 /\ r \in DOMAIN files /\ Len(f) >= n
    BY <1>3, <2>2, <2>7
  <2>10. got = SubSeq(f, 1, n)
    BY <1>4, <2>6, <2>9
  <2> QED  BY <2>5, <2>6, <2>8, <2>10
<1> QED  BY <1>1, <1>5, <1>7, <1>8, ReaderStep

\* The host has its item.
LEMMA ServedKeeps == ASSUME DiskInv, NEW p \in Process, Served(p) PROVE DiskInv'
<1>1. p \in up /\ reader[p] # Idle
  BY ThreadKinds DEF Served, DiskInv, Threads
<1>2. PICK d : d = Idle
  OBVIOUS
<1>3. reader' = [reader EXCEPT ![p] = d] /\ reader'[p] = Idle
  BY <1>2 DEF Served, DiskInv, Threads
<1>4. Reads(p)'
  BY <1>3 DEF Reads
<1>5. UNCHANGED <<mutex, tables, up, ext, hit>>
  BY DEF Served
<1> QED  BY <1>1, <1>2, <1>3, <1>4, <1>5, ReaderStep

----------------------------------------------------------------------------
(* What happens outside the mutex                                          *)

\* A start drops rows without an entry, and hits the archives whose first entry
\* is about to be added.
LEMMA StartKeeps == ASSUME DiskInv, NEW p \in Process, Start(p) PROVE DiskInv'
<1>1. /\ UNCHANGED <<mutex, sequence, entries, files, ext, reader>>
      /\ p \notin up /\ up' = up \cup {p}
  BY DEF Start
<1>2. PICK dropped : dropped = DOMAIN archives \ Referenced
  OBVIOUS
<1>3. /\ archives' = Without(archives, dropped)
      /\ hit' = hit \cup {ext[q].a : q \in {q \in Process :
                            /\ ext[q].pc \in {"look up again", "add or append"}
                            /\ ArchiveIdx(ext[q].a) \in dropped}}
  BY <1>2 DEF Start
<1>4. /\ DOMAIN archives' = DOMAIN archives \ dropped
      /\ \A x \in DOMAIN archives' : archives'[x] = archives[x]
  BY <1>3 DEF Without, Restrict
<1>5. RowsStay
  BY <1>1, <1>2, <1>4 DEF RowsStay, Referenced
<1>6. Leaving' = Leaving /\ hit \subseteq hit'
  BY <1>1, <1>3 DEF Leaving
<1>7. Tables' /\ WholeRows'
  <2>1. archives' \in [DOMAIN archives' -> Archive]
    BY <1>3 DEF DiskInv, Tables, ArchiveTable, Without, Restrict
  <2>2. \A r \in DOMAIN entries : Standing(r)' /\ archives[entries[r].aidx] \notin hit'
          => Standing(r) /\ archives[entries[r].aidx] \notin hit
    BY <1>1, <1>4, <1>6 DEF Standing
  <2> QED  BY <1>1, <1>5, <1>6, <2>1, <2>2, TablesStay DEF DiskInv
<1>8. Threads'
  <2>1. \A q \in Process : ext[q].pc \in {"look up again", "add or append"}
                             => ext[q].a \in Archive
    BY ThreadKinds DEF DiskInv, ExtractorState
  <2>2. hit' \subseteq Archive
    BY <1>3, <2>1 DEF DiskInv, Threads
  <2> QED  BY <1>1, <2>2 DEF DiskInv, Threads
<1>9. ASSUME NEW q \in Process PROVE Work(q)'
  <2>1. ASSUME ext[q].pc \in {"look up again", "add or append"}, ext[q].a \notin hit',
               NEW x \in DOMAIN archives, archives[x] = ext[q].a
        PROVE  x \in DOMAIN archives'
    <3>1. PICK a : a = ext[q].a
      OBVIOUS
    <3>2. x = ArchiveIdx(a)
      BY <2>1, <3>1, ArchiveIdxIs DEF DiskInv, Tables
    <3>3. ArchiveIdx(ext[q].a) \notin dropped
      BY <1>3, <2>1
    <3> QED  BY <1>4, <3>1, <3>2, <3>3
  <2> QED  BY <1>1, <1>5, <1>6, <2>1, WorkStays DEF DiskInv
<1>10. ASSUME NEW q \in Process PROVE Reads(q)'
  BY <1>1, <1>5, <1>6, ReadStays DEF DiskInv
<1> QED  BY <1>7, <1>8, <1>9, <1>10 DEF DiskInv

\* A death in an eviction leaves finished entries without files, and hits their
\* archive.
LEMMA CrashKeeps == ASSUME DiskInv, NEW p \in Process, Crash(p) PROVE DiskInv'
<1>1. /\ p \in up /\ up' = up \ {p} /\ UNCHANGED tables
      /\ mutex' = IF mutex = p THEN Abandoned ELSE mutex
      /\ hit' = IF ext[p].pc = "evict rows"
                THEN hit \cup {archives[entries[r].aidx] : r \in ext[p].victims} ELSE hit
      /\ ext' = [ext EXCEPT ![p] = Idle] /\ reader' = [reader EXCEPT ![p] = Idle]
  BY DEF Crash
<1>2. /\ ext'[p] = Idle /\ reader'[p] = Idle
      /\ \A q \in Process : q # p => ext'[q] = ext[q] /\ reader'[q] = reader[q]
  BY <1>1 DEF DiskInv, Threads
<1>3. RowsStay /\ hit \subseteq hit'
  BY <1>1 DEF RowsStay, tables
<1>4. Leaving' \subseteq Leaving
  BY <1>2 DEF Leaving
<1>5. ASSUME NEW r \in Leaving, r \notin Leaving'
      PROVE  ext[p].pc = "evict rows" /\ r \in ext[p].victims
  <2>1. PICK q \in Process : ext[q] # Idle /\ r \in ext[q].victims
    BY DEF Leaving
  <2>2. q = p
    BY <1>2, <1>5, <2>1 DEF Leaving
  <2>3. ext[p].pc # "idle"
    BY <2>1, <2>2, ThreadKinds DEF DiskInv
  <2> QED  BY <2>1, <2>2, <2>3 DEF DiskInv, Work, Evicting
<1>6. Tables' /\ WholeRows'
  <2>1. archives' \in [DOMAIN archives' -> Archive]
    BY <1>1 DEF tables, DiskInv, Tables, ArchiveTable
  <2>2. ASSUME NEW r \in DOMAIN entries, Standing(r)', archives[entries[r].aidx] \notin hit'
        PROVE  Standing(r) /\ archives[entries[r].aidx] \notin hit
    <3>1. r \notin Leaving
      BY <1>1, <1>5, <2>2 DEF Standing
    <3> QED  BY <1>1, <1>3, <2>2, <3>1 DEF Standing, tables
  <2> QED  BY <1>1, <1>3, <1>4, <2>1, <2>2, TablesStay DEF DiskInv, tables
<1>7. Threads'
  <2>1. mutex' \in Process \cup {Free, Abandoned} /\ mutex' # p
        /\ \A q \in Process : q # p => (mutex' = q <=> mutex = q)
    BY <1>1, SharedDiskAssumption DEF DiskInv, Threads
  <2>2. /\ ext' \in [Process -> ExtractorState \cup {Idle}]
        /\ reader' \in [Process -> ReaderState \cup {Idle}]
        /\ up' \subseteq Process
    BY <1>1 DEF DiskInv, Threads
  <2>3. hit' \subseteq Archive
    <3>1. CASE ext[p].pc = "evict rows"
      <4>1. PICK x \in DOMAIN archives : \A r \in ext[p].victims : entries[r].aidx = x
        BY <3>1 DEF DiskInv, Work, Evicting
      <4>2. archives[x] \in Archive
        BY DEF DiskInv, Tables, ArchiveTable
      <4> QED  BY <1>1, <3>1, <4>1, <4>2 DEF DiskInv, Threads
    <3>2. CASE ext[p].pc # "evict rows"
      BY <1>1, <3>2 DEF DiskInv, Threads
    <3> QED  BY <3>1, <3>2
  <2>4. ASSUME NEW q \in Process
        PROVE  /\ ext'[q] # Idle => q \in up'
               /\ reader'[q] # Idle => q \in up'
               /\ ext'[q].pc \notin {"idle", "wait"} <=> mutex' = q
    <3>1. CASE q = p
      BY <1>2, <2>1, <3>1 DEF Idle
    <3>2. CASE q # p
      BY <1>1, <1>2, <2>1, <3>2 DEF DiskInv, Threads
    <3> QED  BY <3>1, <3>2
  <2> QED  BY <2>1, <2>2, <2>3, <2>4 DEF Threads
<1>8. ASSUME NEW q \in Process PROVE Work(q)'
  <2>1. CASE q = p
    <3>1. ext'[q].pc = "idle"
      BY <1>2, <2>1 DEF Idle
    <3> QED  BY <3>1 DEF Work, Evicting, RowKnown, Position, At, Clean, Filled, HasEntry
  <2>2. CASE q # p
    BY <1>1, <1>2, <1>3, <2>2, WorkStays DEF DiskInv, tables
  <2> QED  BY <2>1, <2>2
<1>9. ASSUME NEW q \in Process PROVE Reads(q)'
  <2>1. CASE q = p
    BY <1>2, <2>1 DEF Reads
  <2>2. CASE q # p
    BY <1>2, <1>3, <1>4, <2>2, ReadStays DEF DiskInv
  <2> QED  BY <2>1, <2>2
<1> QED  BY <1>6, <1>7, <1>8, <1>9 DEF DiskInv

\* Clear takes the whole database when nobody else has it open, ...
LEMMA ClearAloneKeeps == ASSUME DiskInv, NEW p \in Process, Clear(p), up = {p} PROVE DiskInv'
<1>1. /\ p \in up /\ CanLock(p) /\ files' = << >>
      /\ archives' = << >> /\ sequence' = 1 /\ entries' = << >>
      /\ hit' = IF mutex = p THEN {ext[p].a} ELSE {}
      /\ reader' = [reader EXCEPT ![p] = IF @ = Idle THEN @ ELSE [@ EXCEPT !.gone = TRUE]]
      /\ UNCHANGED <<mutex, up, ext>>
  BY DEF Clear
<1>2. \A q \in Process : q # p => ext[q] = Idle /\ reader[q] = Idle
  BY DEF DiskInv, Threads
<1>3. PICK d : d = [reader[p] EXCEPT !.gone = TRUE]
  OBVIOUS
<1>4. /\ reader[p] # Idle => d \in ReaderState /\ d.gone /\ reader'[p] = d
      /\ reader[p] = Idle => reader'[p] = Idle
      /\ \A q \in Process : q # p => reader'[q] = Idle
      /\ reader' \in [Process -> ReaderState \cup {Idle}]
  <2>1. reader[p] # Idle => d \in ReaderState /\ d.gone
    BY <1>3, ThreadKinds DEF DiskInv, Threads, ReaderState
  <2>2. reader' = [reader EXCEPT ![p] = IF reader[p] = Idle THEN reader[p] ELSE d]
    BY <1>1, <1>3
  <2> QED  BY <1>2, <2>1, <2>2 DEF DiskInv, Threads
<1>5. Tables'
  <2>1. ArchiveTable' /\ EntryTable'
    BY <1>1 DEF ArchiveTable, EntryTable
  <2>2. Files'
    BY <1>1 DEF Files
  <2> QED  BY <2>1, <2>2 DEF Tables
<1>6. Threads'
  <2>1. mutex = p => ext[p].a \in Archive
    BY ThreadKinds DEF DiskInv, Threads, ExtractorState
  <2>2. hit' \subseteq Archive
    BY <1>1, <2>1
  <2>3. ASSUME NEW q \in Process PROVE reader'[q] # Idle => q \in up'
    BY <1>1, <1>4
  <2> QED  BY <1>1, <1>4, <2>2, <2>3 DEF DiskInv, Threads
<1>7. WholeRows'
  BY <1>1 DEF WholeRows
<1>8. ASSUME NEW q \in Process PROVE Work(q)'
  <2>1. CASE q = p
    <3>1. ext[p].pc \notin Purging \cup Looked \cup {"look up again"}
      BY <1>1 DEF CanLock, Locked
    <3>2. At(p) => ext[p].a \in hit'
      BY <1>1 DEF At, DiskInv, Threads
    <3>3. Evicting(p)' /\ RowKnown(p)'
      BY <1>1, <3>1 DEF DiskInv, Work, Evicting, RowKnown
    <3>4. Position(p)'
      BY <1>1 DEF DiskInv, Work, Position, At
    <3>5. Clean(p)' /\ Filled(p)'
      <4>0. \A r : r \notin DOMAIN entries'
        BY <1>1
      <4>4. ext'[p].pc \notin {"update size", "write file"}
        BY <1>1, <3>1
      <4>1. (\A r : r \notin DOMAIN entries') /\ ext'[p].pc \notin {"update size", "write file"}
        BY <4>0, <4>4
      <4>2. Clean(p)'
        BY <4>1 DEF Clean
      <4>3. Filled(p)'
        BY <4>1 DEF Filled
      <4> QED  BY <4>2, <4>3
    <3>6. HasEntry(p)'
      BY <1>1, <3>1, <3>2 DEF HasEntry, At
    <3> QED  BY <2>1, <3>3, <3>4, <3>5, <3>6 DEF Work
  <2>2. CASE q # p
    <3>1. ext'[q].pc = "idle"
      BY <1>1, <1>2, <2>2 DEF Idle
    <3> QED  BY <3>1 DEF Work, Evicting, RowKnown, Position, At, Clean, Filled, HasEntry
  <2> QED  BY <2>1, <2>2
<1>9. ASSUME NEW q \in Process PROVE Reads(q)'
  BY <1>4 DEF Reads
<1> QED  BY <1>5, <1>6, <1>7, <1>8, <1>9 DEF DiskInv

\* ... and otherwise the files of all archives.
LEMMA ClearFilesKeeps == ASSUME DiskInv, NEW p \in Process, Clear(p), up # {p} PROVE DiskInv'
<1>1. /\ files' = << >>
      /\ hit' = hit \cup {archives[x] : x \in Referenced \cap DOMAIN archives}
      /\ UNCHANGED <<mutex, up, ext, archives, sequence, entries, reader>>
  BY DEF Clear
<1>2. RowsStay /\ hit \subseteq hit' /\ Leaving' = Leaving
  BY <1>1 DEF RowsStay, Leaving
<1>3. \A r \in DOMAIN entries : entries[r].aidx \in DOMAIN archives
                                => archives[entries[r].aidx] \in hit'
  BY <1>1 DEF Referenced
<1>4. Tables'
  <2>1. Files'
    BY <1>1 DEF Files
  <2> QED  BY <1>1, <2>1 DEF DiskInv, Tables, ArchiveTable, EntryTable
<1>5. WholeRows'
  BY <1>1, <1>3 DEF WholeRows, Standing
<1>6. Threads'
  <2>1. hit' \subseteq Archive
    BY <1>1 DEF DiskInv, Threads, Tables, ArchiveTable
  <2> QED  BY <1>1, <2>1 DEF DiskInv, Threads
<1>7. ASSUME NEW q \in Process PROVE Work(q)'
  <2>1. ext[q].a \notin hit' => \A r \in DOMAIN entries : ~Mine(q, r)
    BY <1>3 DEF Mine, OfArchive
  <2> QED  BY <1>1, <1>2, <2>1, WorkStays DEF DiskInv
<1>8. ASSUME NEW q \in Process PROVE Reads(q)'
  BY <1>1, <1>2, ReadStays DEF DiskInv
<1> QED  BY <1>4, <1>5, <1>6, <1>7, <1>8 DEF DiskInv

----------------------------------------------------------------------------
(* The theorems                                                            *)

\* Nothing is stored and nobody works at first.
LEMMA InitHolds == Init => DiskInv
<1> SUFFICES ASSUME Init PROVE DiskInv
  OBVIOUS
<1>1. /\ mutex = Free /\ archives = << >> /\ sequence = 1 /\ entries = << >>
      /\ files = << >> /\ up = {} /\ hit = {}
      /\ ext = [p \in Process |-> Idle] /\ reader = [p \in Process |-> Idle]
  BY DEF Init
<1>2. Tables
  <2>1. ArchiveTable /\ EntryTable
    BY <1>1 DEF ArchiveTable, EntryTable
  <2>2. Files
    BY <1>1 DEF Files
  <2> QED  BY <2>1, <2>2 DEF Tables
<1>3. Threads
  BY <1>1, SharedDiskAssumption DEF Threads, Idle
<1>4. WholeRows
  BY <1>1 DEF WholeRows
<1>5. ASSUME NEW p \in Process PROVE Work(p) /\ Reads(p)
  <2>1. ext[p].pc = "idle" /\ reader[p] = Idle
    BY <1>1 DEF Idle
  <2> QED  BY <2>1
           DEF Work, Evicting, RowKnown, Position, At, Clean, Filled, HasEntry, Reads
<1> QED  BY <1>2, <1>3, <1>4, <1>5 DEF DiskInv

\* No step and no stutter breaks the invariant.
LEMMA NextKeeps == DiskInv /\ [Next]_vars => DiskInv'
<1> SUFFICES ASSUME DiskInv, [Next]_vars PROVE DiskInv'
  OBVIOUS
<1>1. CASE UNCHANGED vars
  <2>1. UNCHANGED <<mutex, archives, sequence, entries, files, up, ext, reader, hit>>
    BY <1>1 DEF vars
  <2>2. RowsStay /\ Leaving' = Leaving /\ archives' \in [DOMAIN archives' -> Archive]
    BY <2>1 DEF RowsStay, Leaving, DiskInv, Tables, ArchiveTable
  <2>3. Tables' /\ WholeRows'
    <3>1. \A r \in DOMAIN entries : Standing(r)' => Standing(r)
      BY <2>1, <2>2 DEF Standing
    <3> QED  BY <2>1, <2>2, <3>1, TablesStay DEF DiskInv
  <2>4. Threads'
    BY <2>1 DEF DiskInv, Threads
  <2>5. ASSUME NEW q \in Process PROVE Work(q)' /\ Reads(q)'
    BY <2>1, <2>2, WorkStays, ReadStays DEF DiskInv
  <2> QED  BY <2>3, <2>4, <2>5 DEF DiskInv
<1>2. CASE Next
  <2>1. PICK p \in Process : \/ Extractor(p) \/ Reader(p)
                             \/ Start(p) \/ Crash(p) \/ Clear(p)
                             \/ \E a \in Archive : Request(p, a)
    BY <1>2 DEF Next
  <2>2. CASE Extractor(p)
    BY <2>2, AcquireKeeps, PurgeFilesKeeps, PurgeRowsKeeps, PurgeArchiveKeeps, SkipPieceKeeps,
       Append_Keeps, LookUpKeeps, EvictFilesKeeps, EvictRowsKeeps, EvictArchiveKeeps,
       EnsureAgainKeeps, LookUpAgainKeeps, AppendEntryKeeps, UpdateSizeKeeps, AddEntryKeeps,
       WriteFileKeeps, MarkKeeps, FailItemKeeps, ExtractReturnsKeeps, ReleaseKeeps
       DEF Extractor
  <2>3. CASE Reader(p)
    BY <2>3, CheckKeeps, SelectKeeps, MapKeeps, ServedKeeps DEF Reader
  <2>4. CASE Start(p) \/ Crash(p) \/ Clear(p)
    BY <2>4, StartKeeps, CrashKeeps, ClearAloneKeeps, ClearFilesKeeps
  <2>5. CASE \E a \in Archive : Request(p, a)
    BY <2>5, RequestKeeps
  <2> QED  BY <2>1, <2>2, <2>3, <2>4, <2>5
<1> QED  BY <1>1, <1>2

\* The inductive invariant holds of SharedDisk: the tables have their keys,
\* only the owner of the mutex works, and what is served is whole.
THEOREM Invariant == Spec => []DiskInv
<1>1. Init => DiskInv
  BY InitHolds
<1>2. DiskInv /\ [Next]_vars => DiskInv'
  BY NextKeeps
<1> QED  BY <1>1, <1>2, PTL DEF Spec

\* Type correctness with the keys of the tables: an archive has one row, an item
\* of it one entry, and only the owner of the mutex works.
THEOREM TypeCorrect == Spec => []TypeOK
<1>1. DiskInv => TypeOK
  <2> SUFFICES ASSUME DiskInv PROVE TypeOK
    OBVIOUS
  <2>1. DOMAIN archives \subseteq 1..(sequence - 1) /\ IsInjective(archives)
    BY DEF DiskInv, Tables, ArchiveTable, IsInjective
  <2>2. ASSUME NEW r \in DOMAIN entries
        PROVE  /\ entries[r] \in [aidx : 0..(sequence - 1), item : Nat \ {0},
                                  completed : Process \cup {Done}, size : Nat \ {0}]
               /\ Found(entries[r].aidx, entries[r].item) = {r}
    <3>1. entries[r] \in LegalRow /\ entries[r].aidx \in 0..(sequence - 1)
      BY DEF DiskInv, Tables, EntryTable
    <3>2. Found(entries[r].aidx, entries[r].item) = {r}
      BY DEF DiskInv, Tables, EntryTable, Found, Rows
    <3> QED  BY <3>1, <3>2 DEF LegalRow
  <2>3. ASSUME NEW p \in Process
        PROVE  /\ ext[p] = Idle \/ ext[p] \in ThreadState
               /\ ext[p].pc \notin {"idle", "wait"} => mutex = p
               /\ reader[p] # Idle => p \in up
    <3>1. CASE ext[p] # Idle
      <4>1. ext[p] \in ExtractorState /\ ext[p].pc # "idle"
        BY <3>1, ThreadKinds DEF DiskInv, Threads
      <4>2. ext[p].victims \subseteq DOMAIN entries
        BY <4>1 DEF DiskInv, Work, Evicting
      <4> QED  BY <4>1, <4>2 DEF DiskInv, Threads, ExtractorState, ThreadState
    <3>2. CASE ext[p] = Idle
      BY <3>2 DEF DiskInv, Threads
    <3> QED  BY <3>1, <3>2
  <2> QED  BY <2>1, <2>2, <2>3 DEF DiskInv, Threads, TypeOK
<1> QED  BY <1>1, Invariant, PTL

\* Whatever processes start, die or clear the cache, an entry that will be
\* served has all pieces of its item in order, unless one of the three
\* accidents outside the mutex has hit its archive.
THEOREM ServesWhole == Spec => []ServedWhole
<1>1. DiskInv => ServedWhole
  <2> SUFFICES ASSUME DiskInv, NEW x \in DOMAIN archives, archives[x] \notin hit,
                      NEW r \in Completed(x) \ Leaving
               PROVE  /\ r \in DOMAIN files
                      /\ files[r] = Full(<<archives[x], entries[r].item>>)
                      /\ entries[r].size = Len(files[r])
    BY DEF ServedWhole
  <2>1. r \in DOMAIN entries /\ entries[r].aidx = x /\ entries[r].completed = Done
    BY DEF Completed, Rows
  <2>2. Whole(r)
    BY <2>1 DEF DiskInv, WholeRows, Standing
  <2> QED  BY <2>1, <2>2 DEF Whole
<1> QED  BY <1>1, Invariant, PTL

\* A reader that found its item cached gets that item, although it looks up the
\* row and opens the file in two steps and rowids are used again, unless the
\* item was evicted in between.
THEOREM ReaderIsRight == Spec => []ReaderGetsItsItem
<1>1. DiskInv => ReaderGetsItsItem
  <2> SUFFICES ASSUME DiskInv, NEW p \in Process, reader[p].pc = "served", ~reader[p].gone,
                      reader[p].key[1] \notin hit
               PROVE  reader[p].got = Full(reader[p].key)
    BY DEF ReaderGetsItsItem
  <2>1. reader[p] # Idle
    BY DEF Idle
  <2> QED  BY <2>1 DEF DiskInv, Reads
<1> QED  BY <1>1, Invariant, PTL
=============================================================================
