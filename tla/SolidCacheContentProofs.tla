---------------------- MODULE SolidCacheContentProofs ----------------------
(***************************************************************************)
(* As long as nobody clears the cache, no interleaving of an extraction,   *)
(* its purges, its readers and crashes leaves an entry that is marked      *)
(* complete with a part of its item, and the pieces of the item being      *)
(* extracted are in one store.  What memory holds complete stays complete  *)
(* when it is spilled, and an extraction leaves nothing unfinished behind. *)
(* Where memory has room for everything, what is marked is complete, and a *)
(* single caller gets what it asks for.                                    *)
(***************************************************************************)
EXTENDS SolidCacheProofs, SequenceTheorems

\* What the two stores hold of an item whose whole content is "full" is nothing
\* a reader could take for a part of it, now or after the entry is spilled.
Sound(e, r, full) ==
    /\ IsMarked(e) => e.buf \in {full, << >>}
    /\ IsFinished(r) => r.data \in {full, << >>}
    /\ IsMarked(e) /\ Processing(r) =>
          r.data = << >> \/ (r.data = full /\ e.buf = << >>)
    /\ IsFinished(r) /\ e # Absent /\ ~e.cached => e.buf = << >>

\* This extraction has not come to the item yet: nothing unfinished holds bytes.
Untouched(e, r, tid) ==
    /\ e # Absent /\ ~e.cached => e.buf = << >>
    /\ Processing(r) => r.completed = tid /\ r.size = 0 /\ r.data = << >>

\* The first n pieces of an item are in memory, and only there; or on disk, and
\* only there.
InMemory(e, r, n) ==
    /\ r = Absent
    /\ IF e = Absent THEN n = 0 ELSE e.buf = Prefix(n)
    /\ n > 0 => MaxMemory > 0
OnDisk(e, r, n, tid) ==
    /\ r # Absent /\ r.completed = tid /\ r.size = n /\ r.data = Prefix(n)
    /\ e # Absent => e.buf = << >>
Holds(e, r, n, tid) == InMemory(e, r, n) \/ OnDisk(e, r, n, tid)

AllSound == \A a \in Archive, i \in Item : Sound(mem[a][i], disk[a][i], Full(a, i))

\* After the first purge the leftovers of earlier extractions are gone from
\* memory, and the items after the current one are untouched.
FutureOK ==
    /\ ext.pc \in {"purgeUnreferenced", "purgeDisk"} /\ ~ext.last =>
          \A k \in Item : LET e == mem[ext.a][k] IN
              e # Absent /\ ~e.cached => e.buf = << >>
    /\ ext.pc \in ItemPC \cup {"stream"} =>
          \A k \in Item : k > ext.i \/ (k = ext.i /\ ext.pc = "stream") =>
              Untouched(mem[ext.a][k], disk[ext.a][k], ext.tid)

\* Places where the current item may have been cached before, where it has not
\* and a piece of it is about to be written, and where the piece is written or
\* being moved.
SkipPC == {"write", "result", "markMem", "markDisk"}
BeforePC == {"lookup", "appendMem", "appendDisk"}
AfterPC == {"measure", "callReduce"} \cup LockedPC
\* How many pieces of the current item the stores hold.
Count == IF ext.pc \in AfterPC /\ ~ext.direct THEN ext.c ELSE ext.c - 1

\* The item being extracted: where its pieces are.
WorkOK ==
    LET e == mem[ext.a][ext.i]  r == disk[ext.a][ext.i]  p == Pieces[ext.a][ext.i] IN
    /\ ext.pc \in SkipPC =>
          /\ IsMarked(e) \/ IsFinished(r) \/ Holds(e, r, Count, ext.tid)
          /\ ext.c \in 1..p + 1
          /\ ext.pc # "write" => ext.c = p + 1
    /\ ext.pc \in BeforePC \cup AfterPC =>
          /\ ~IsMarked(e) /\ ~IsFinished(r)
          /\ Holds(e, r, Count, ext.tid)
          /\ ext.c \in 1..p
    /\ ext.pc \in {"lookup", "appendMem"} => r = Absent /\ MaxMemory > 0
    /\ ext.pc = "appendMem" => ext.a \in table
    /\ ext.pc = "appendDisk" \/ (ext.pc \in SpillPC /\ ext.direct) =>
          r # Absent \/ MaxMemory <= 0
    /\ ext.pc = "markMem" => e # Absent
    /\ ext.pc = "markDisk" => r # Absent /\ (e # Absent => ~e.cached /\ e.buf = << >>)

\* The inductive invariant.  It needs ~clearing: Clear between two sections of
\* Append takes away the node the extractor is about to write to.
ContentInv == TypeInv /\ ~clearing /\ AllSound /\ FutureOK /\ WorkOK

\* The content of an item grows piece by piece: appending piece n + 1 to the
\* first n gives the first n + 1.
LEMMA PrefixFacts ==
    /\ Prefix(0) = << >>
    /\ \A n \in Nat : /\ Prefix(n) \in Content
                      /\ Len(Prefix(n)) = n
                      /\ Append(Prefix(n), n + 1) = Prefix(n + 1)
                      /\ Prefix(n) \o << n + 1 >> = Prefix(n + 1)
<1>1. Prefix(0) = << >>
  BY DEF Prefix
<1>2. ASSUME NEW n \in Nat
      PROVE  /\ Prefix(n) \in Content /\ Len(Prefix(n)) = n
             /\ Append(Prefix(n), n + 1) = Prefix(n + 1)
             /\ Prefix(n) \o << n + 1 >> = Prefix(n + 1)
  <2>1. Prefix(n) \in Seq(Nat) /\ Len(Prefix(n)) = n
    BY DEF Prefix
  <2>2. Prefix(n + 1) \in Seq(Nat) /\ Len(Prefix(n + 1)) = n + 1
    BY DEF Prefix
  <2>3. Append(Prefix(n), n + 1) = Prefix(n + 1)
    <3>1. /\ Append(Prefix(n), n + 1) \in Seq(Nat)
          /\ Len(Append(Prefix(n), n + 1)) = n + 1
          /\ \A k \in 1..n + 1 : Append(Prefix(n), n + 1)[k] = Prefix(n + 1)[k]
      BY <2>1, AppendProperties DEF Prefix
    <3> QED
      BY <2>2, <3>1, SeqEqual
  <2>4. Prefix(n) \o << n + 1 >> = Append(Prefix(n), n + 1)
    BY <2>1, AppendIsConcat
  <2> QED
    BY <2>1, <2>3, <2>4 DEF Content
<1> QED
  BY <1>1, <1>2

\* Appending nothing changes nothing.
LEMMA EmptyConcat ==
    ASSUME NEW s \in Content
    PROVE  s \o << >> = s /\ << >> \o s = s /\ Len(<< >>) = 0 /\ << >> \in Content
  BY ConcatEmptySeq DEF Content

\* A purge that moves an entry from memory to disk leaves the item sound,
\* leaves an untouched item untouched, and keeps the pieces of an item that is
\* being extracted.
LEMMA Spill ==
    ASSUME NEW e \in MemEntry, NEW r \in Row \cup {Absent}, NEW tid \in Tid,
           NEW s, s = SpilledRow(e, r, tid)
    PROVE  /\ s \in Row
           /\ \A full : Sound(e, r, full) => Sound(Absent, s, full)
           /\ Untouched(e, r, tid) => Untouched(Absent, s, tid)
           /\ \A n \in Nat :
                 Holds(e, r, n, tid) /\ ~IsMarked(e) =>
                     Holds(Absent, s, n, tid) /\ ~IsFinished(s)
<1> DEFINE t == StoredRow(r, tid, e.buf)
<1>1. e.buf \in Content /\ e.cached \in BOOLEAN /\ e # Absent
  BY AbsentAssumption DEF MemEntry
<1>2. /\ t \in Row
      /\ r = Absent => t.completed = tid /\ t.size = Len(e.buf) /\ t.data = e.buf
      /\ r # Absent => t.completed = r.completed
      /\ r # Absent /\ r.completed = tid =>
            t.size = r.size + Len(e.buf) /\ t.data = r.data \o e.buf
      /\ r # Absent /\ r.completed # tid => t = r
  BY <1>1, StoredRowFacts
<1> HIDE DEF t
<1>3. /\ s \in Row /\ s.size = t.size /\ s.data = t.data
      /\ e.cached => s.completed = Done
      /\ ~e.cached => s = t
  <2>1. s = IF e.cached THEN MarkedRow(t) ELSE t
    BY DEF SpilledRow, t
  <2> QED
    BY <1>1, <1>2, <2>1, MarkedRowFacts
<1>4. tid # Done /\ tid # 0 /\ t # Absent /\ s # Absent
  BY <1>2, <1>3, TidAssumption, AbsentAssumption DEF Done
<1>5. /\ r # Absent => r.data \in Content /\ r.size \in Nat /\ r \in Row
      /\ \A x \in Content : x \o << >> = x /\ << >> \o x = x
      /\ << >> \in Content /\ Len(<< >>) = 0
  BY EmptyConcat DEF Row, Content
<1>6. ASSUME NEW full, Sound(e, r, full)
      PROVE  Sound(Absent, s, full)
  <2>1. CASE ~e.cached
    <3>1. IsFinished(s) => r # Absent /\ r.completed = Done /\ s = r
      BY <2>1, <1>2, <1>3, <1>4 DEF IsFinished
    <3> QED
      BY <3>1, <1>6 DEF Sound, IsMarked, IsFinished, Processing
  <2>2. CASE e.cached
    <3>1. CASE r = Absent
      BY <2>2, <3>1, <1>1, <1>2, <1>3, <1>6 DEF Sound, IsMarked, IsFinished, Processing
    <3>2. CASE IsFinished(r)
      BY <2>2, <3>2, <1>1, <1>2, <1>3, <1>4, <1>6 DEF Sound, IsMarked, IsFinished, Processing
    <3>3. CASE Processing(r)
      <4>1. s.data \in {r.data, r.data \o e.buf}
        BY <3>3, <1>2, <1>3 DEF Processing
      <4>2. e.buf \in {full, << >>} /\ (r.data = << >> \/ (r.data = full /\ e.buf = << >>))
        BY <2>2, <3>3, <1>1, <1>6 DEF Sound, IsMarked
      <4>3. s.data \in {full, << >>}
        BY <4>1, <4>2, <1>1, <1>5, <3>3 DEF Processing
      <4> QED
        BY <4>3 DEF Sound, IsMarked, IsFinished, Processing
    <3> QED
      BY <3>1, <3>2, <3>3 DEF IsFinished, Processing
  <2> QED
    BY <1>1, <2>1, <2>2
<1>7. ASSUME Untouched(e, r, tid)
      PROVE  Untouched(Absent, s, tid)
  <2>1. CASE e.cached
    BY <2>1, <1>3 DEF Untouched, Processing
  <2>2. CASE ~e.cached
    <3>1. e.buf = << >> /\ s = t
      BY <2>2, <1>1, <1>3, <1>7 DEF Untouched
    <3>2. CASE r = Absent
      <4>1. s.completed = tid /\ s.size = 0 /\ s.data = << >>
        BY <3>1, <3>2, <1>2, <1>5
      <4> QED
        BY <4>1 DEF Untouched
    <3>3. CASE Processing(r)
      <4>1. r # Absent /\ r.completed = tid /\ r.size = 0 /\ r.data = << >>
        BY <3>3, <1>7 DEF Untouched, Processing
      <4>2. s.completed = tid /\ s.size = 0 /\ s.data = << >>
        BY <3>1, <4>1, <1>2, <1>5
      <4> QED
        BY <4>2 DEF Untouched
    <3>4. CASE IsFinished(r)
      BY <3>1, <3>4, <1>2, <1>4 DEF Untouched, Processing, IsFinished
    <3> QED
      BY <3>2, <3>3, <3>4 DEF IsFinished, Processing
  <2> QED
    BY <1>1, <2>1, <2>2
<1>8. ASSUME NEW n \in Nat, Holds(e, r, n, tid), ~IsMarked(e)
      PROVE  Holds(Absent, s, n, tid) /\ ~IsFinished(s)
  <2>1. s = t
    BY <1>1, <1>3, <1>8 DEF IsMarked
  <2>2. CASE InMemory(e, r, n)
    <3>1. s.completed = tid /\ s.size = n /\ s.data = Prefix(n)
      BY <2>1, <2>2, <1>1, <1>2, PrefixFacts DEF InMemory
    <3> QED
      BY <3>1, <1>4 DEF Holds, OnDisk, IsFinished
  <2>3. CASE OnDisk(e, r, n, tid)
    <3>1. r # Absent /\ r.completed = tid /\ r.size = n /\ r.data = Prefix(n) /\ e.buf = << >>
      BY <2>3, <1>1 DEF OnDisk
    <3>2. s.completed = tid /\ s.size = n /\ s.data = Prefix(n)
      BY <2>1, <3>1, <1>2, <1>5
    <3> QED
      BY <3>2, <1>4 DEF Holds, OnDisk, IsFinished
  <2> QED
    BY <1>8, <2>2, <2>3 DEF Holds
<1> QED
  BY <1>3, <1>6, <1>7, <1>8

\* The next piece of an item goes behind the pieces that are already on disk.
LEMMA StorePieceEntry ==
    ASSUME NEW e \in MemEntry \cup {Absent}, NEW r \in Row \cup {Absent},
           NEW tid \in Tid, NEW n \in Nat,
           Holds(e, r, n, tid), r # Absent \/ MaxMemory <= 0
    PROVE  LET s == StoredRow(r, tid, << n + 1 >>) IN
           s \in Row /\ s.completed = tid /\ Holds(e, s, n + 1, tid)
<1> DEFINE x == << n + 1 >>
           s == StoredRow(r, tid, x)
<1> SUFFICES s \in Row /\ s.completed = tid /\ Holds(e, s, n + 1, tid)
  OBVIOUS
<1>1. x \in Content /\ Len(x) = 1
  BY DEF Content
<1>2. /\ s \in Row /\ s # Absent
      /\ r = Absent => s.completed = tid /\ s.size = 1 /\ s.data = x
      /\ r # Absent => s.completed = r.completed
      /\ r # Absent /\ r.completed = tid =>
            s.size = r.size + 1 /\ s.data = r.data \o x
  <2> HIDE DEF x
  <2>1. /\ s \in Row
        /\ r = Absent => s.completed = tid /\ s.size = Len(x) /\ s.data = x
        /\ r # Absent => s.completed = r.completed
        /\ r # Absent /\ r.completed = tid =>
              s.size = r.size + Len(x) /\ s.data = r.data \o x
    BY <1>1, StoredRowFacts
  <2> HIDE DEF s
  <2> QED
    BY <1>1, <2>1, AbsentAssumption
<1> HIDE DEF s
<1>3. CASE InMemory(e, r, n)
  <2>1. n = 0
    BY <1>3, LimitAssumption DEF InMemory
  <2>2. x = Prefix(1)
    BY <2>1 DEF Prefix
  <2>3. r = Absent /\ (e # Absent => e.buf = << >>)
    BY <1>3, <2>1, PrefixFacts DEF InMemory
  <2> HIDE DEF x
  <2>4. s.completed = tid /\ s.size = 1 /\ s.data = Prefix(1)
    BY <1>2, <2>2, <2>3
  <2>5. OnDisk(e, s, n + 1, tid)
    BY <1>2, <2>1, <2>3, <2>4 DEF OnDisk
  <2> QED
    BY <1>2, <2>4, <2>5 DEF Holds
<1>4. CASE OnDisk(e, r, n, tid)
  <2>1. Prefix(n) \o x = Prefix(n + 1)
    BY PrefixFacts
  <2> HIDE DEF x
  <2>2. s.size = n + 1 /\ s.data = Prefix(n + 1) /\ s.completed = tid
    BY <1>2, <1>4, <2>1 DEF OnDisk
  <2>3. OnDisk(e, s, n + 1, tid)
    BY <1>2, <1>4, <2>2 DEF OnDisk
  <2> QED
    BY <1>2, <2>2, <2>3 DEF Holds
<1> QED
  BY <1>2, <1>3, <1>4 DEF Holds, s

\* Where nobody clears they are all.
LEMMA OtherSteps ==
    ASSUME TypeInv, [Next]_vars, ~clearing, "clear" \notin Faults,
           ~PurgeUnmarkedMem, ~PurgeUnmarkedDisk, ~AppendMem, ~StorePiece,
           ~((\E w \in Archive : EvictFiles(w)) \/ EvictRows),
           ~StoreSpilled, ~MarkMem, ~MarkDisk,
           ~(\E r \in Caller : ReadMem(r)), ~Crash
    PROVE  UNCHANGED <<mem, disk>>
<1>1. ~ClearMem /\ ~ClearDisk
  BY DEF ClearMem, ClearDisk
<1> QED
  BY <1>1, StoreSteps

\* The entry and the row of an item are what their types say.
LEMMA EntryTypes ==
    ASSUME TypeInv, NEW a \in Archive, NEW i \in Item
    PROVE  /\ mem[a][i] \in MemEntry \cup {Absent}
           /\ disk[a][i] \in Row \cup {Absent}
           /\ Full(a, i) = Prefix(Pieces[a][i]) /\ Pieces[a][i] \in Nat
           /\ mem[a][i] # Absent => mem[a][i].cached \in BOOLEAN
  BY PiecesAssumption DEF TypeInv, StoresOK, MemType, DiskType, MemEntry, Full

\* No step makes an item unsound: marking needs all pieces in one store.
LEMMA SoundStep ==
    ASSUME ContentInv, [Next]_vars, "clear" \notin Faults
    PROVE  AllSound'
<1> SUFFICES ASSUME NEW a \in Archive, NEW i \in Item
             PROVE  Sound(mem'[a][i], disk'[a][i], Full(a, i))
  BY DEF AllSound
<1>1. TypeInv /\ ~clearing /\ WorkOK /\ Sound(mem[a][i], disk[a][i], Full(a, i))
  BY DEF ContentInv, AllSound
<1> DEFINE here == a = ext.a /\ i = ext.i
<1>2. CASE UNCHANGED <<mem, disk>>
  BY <1>1, <1>2
<1>3. CASE PurgeUnmarkedMem
  BY <1>1, <1>3, PurgeMemEffect DEF Sound, IsMarked, IsFinished, Processing
<1>4. CASE PurgeUnmarkedDisk
  BY <1>1, <1>4, PurgeDiskEffect DEF Sound, IsMarked, IsFinished, Processing
<1>5. CASE AppendMem
  <2>1. /\ ext.a \in table /\ ~IsMarked(mem[ext.a][ext.i])
        /\ disk[ext.a][ext.i] = Absent
    BY <1>1, <1>5 DEF AppendMem, WorkOK, BeforePC
  <2>2. CASE here
    <3>1. disk'[a][i] = Absent /\ ~IsMarked(mem'[a][i])
      BY <1>1, <1>5, <2>1, <2>2, AppendMemEffect DEF IsMarked
    <3> QED
      BY <3>1 DEF Sound, IsFinished, Processing
  <2>3. CASE ~here
    BY <1>1, <1>5, <2>1, <2>3, AppendMemEffect
  <2> QED
    BY <2>2, <2>3
<1>6. CASE (\E w \in Archive : EvictFiles(w)) \/ EvictRows
  <2>1. /\ mem'[a][i] = mem[a][i]
        /\ \/ disk'[a][i] = disk[a][i]
           \/ /\ IsFinished(disk[a][i])
              /\ \/ disk'[a][i] = Absent
                 \/ IsFinished(disk'[a][i]) /\ disk'[a][i].data = << >>
    BY <1>1, <1>6, EvictEffect
  <2> QED
    BY <1>1, <2>1 DEF Sound, IsMarked, IsFinished, Processing
<1>7. CASE StorePiece
  <2>1. CASE here
    <3>1. /\ ~IsMarked(mem[a][i])
          /\ Holds(mem[a][i], disk[a][i], ext.c - 1, ext.tid)
          /\ disk[a][i] # Absent \/ MaxMemory <= 0
          /\ ext.c \in 1..Pieces[a][i]
      BY <1>1, <1>7, <2>1 DEF StorePiece, WorkOK, AfterPC, LockedPC, SpillPC, Count
    <3>2. /\ mem'[a][i] = mem[a][i]
          /\ disk'[a][i] = StoredRow(disk[a][i], ext.tid, << ext.c >>)
          /\ ext.tid \in Tid
      BY <1>1, <1>7, <2>1, StorePieceEffect
    <3>3. PICK n \in Nat : n = ext.c - 1 /\ ext.c = n + 1
      BY <3>1, <1>1, EntryTypes
    <3>4. disk'[a][i].completed = ext.tid
      <4>1. /\ Holds(mem[a][i], disk[a][i], n, ext.tid)
            /\ disk'[a][i] = StoredRow(disk[a][i], ext.tid, << n + 1 >>)
        BY <3>1, <3>2, <3>3
      <4> QED
        BY <1>1, <3>1, <3>2, <4>1, EntryTypes, StorePieceEntry
    <3>5. ~IsFinished(disk'[a][i])
      BY <3>2, <3>4, TidAssumption DEF IsFinished, Done
    <3> QED
      BY <3>1, <3>2, <3>5 DEF Sound
  <2>2. CASE ~here
    BY <1>1, <1>7, <2>2, StorePieceEffect
  <2> QED
    BY <2>1, <2>2
<1>8. CASE StoreSpilled
  <2>1. CASE a = ext.v /\ i = ext.j
    <3> DEFINE s == SpilledRow(mem[a][i], disk[a][i], ext.tid)
    <3>1. mem'[a][i] = Absent /\ disk'[a][i] = s /\ ext.tid \in Tid
          /\ mem[a][i] \in MemEntry
      BY <1>1, <1>8, <2>1, SpillEffect
    <3>2. Sound(Absent, s, Full(a, i))
      BY <1>1, <3>1, EntryTypes, Spill
    <3> QED
      BY <3>1, <3>2
  <2>2. CASE ~(a = ext.v /\ i = ext.j)
    BY <1>1, <1>8, <2>2, SpillEffect
  <2> QED
    BY <2>1, <2>2
<1>9. CASE MarkMem
  <2>1. /\ mem[ext.a][ext.i] # Absent
        /\ \/ IsMarked(mem[ext.a][ext.i]) \/ IsFinished(disk[ext.a][ext.i])
           \/ Holds(mem[ext.a][ext.i], disk[ext.a][ext.i], Pieces[ext.a][ext.i], ext.tid)
    <3>1. ext.pc = "markMem" /\ ext.c \in Nat
      BY <1>1, <1>9 DEF MarkMem, TypeInv, ExtState
    <3>2. /\ mem[ext.a][ext.i] # Absent
          /\ \/ IsMarked(mem[ext.a][ext.i]) \/ IsFinished(disk[ext.a][ext.i])
             \/ Holds(mem[ext.a][ext.i], disk[ext.a][ext.i], Count, ext.tid)
          /\ ext.c = Pieces[ext.a][ext.i] + 1
      BY <1>1, <3>1 DEF WorkOK, SkipPC
    <3>3. Count = ext.c - 1
      BY <3>1 DEF Count, AfterPC, LockedPC
    <3>4. Count = Pieces[ext.a][ext.i]
      BY <3>2, <3>3, <1>1, <1>9, MarkMemEffect, EntryTypes
    <3> QED
      BY <3>2, <3>4
  <2>2. CASE here
    <3>1. /\ disk'[a][i] = disk[a][i] /\ mem'[a][i] # Absent /\ mem'[a][i].cached
          /\ mem'[a][i].buf = mem[a][i].buf
      BY <1>1, <1>9, <2>1, <2>2, MarkMemEffect
    <3>2. mem[a][i] # Absent /\ mem[a][i].cached \in BOOLEAN
      BY <1>1, <2>1, <2>2, EntryTypes
    <3>3. CASE IsMarked(mem[a][i])
      BY <1>1, <3>1, <3>3 DEF Sound, IsMarked
    <3>4. CASE ~IsMarked(mem[a][i]) /\ IsFinished(disk[a][i])
      BY <1>1, <3>1, <3>2, <3>4 DEF Sound, IsMarked, IsFinished, Processing
    <3>5. CASE ~IsMarked(mem[a][i]) /\ InMemory(mem[a][i], disk[a][i], Pieces[a][i])
      BY <1>1, <3>1, <3>2, <3>5, EntryTypes DEF Sound, InMemory, IsFinished, Processing
    <3>6. CASE ~IsMarked(mem[a][i]) /\ OnDisk(mem[a][i], disk[a][i], Pieces[a][i], ext.tid)
      BY <1>1, <3>1, <3>2, <3>6, EntryTypes DEF Sound, OnDisk, IsFinished, Processing
    <3> QED
      BY <2>1, <2>2, <3>3, <3>4, <3>5, <3>6 DEF Holds
  <2>3. CASE ~here
    BY <1>1, <1>9, <2>1, <2>3, MarkMemEffect
  <2> QED
    BY <2>2, <2>3
<1>10. CASE MarkDisk
  <2>1. CASE here
    <3>1. ext.pc = "markDisk" /\ ext.c \in Nat
      BY <1>1, <1>10 DEF MarkDisk, TypeInv, ExtState
    <3>2. /\ disk[a][i] # Absent
          /\ mem[a][i] # Absent => ~mem[a][i].cached /\ mem[a][i].buf = << >>
          /\ \/ IsMarked(mem[a][i]) \/ IsFinished(disk[a][i])
             \/ Holds(mem[a][i], disk[a][i], Count, ext.tid)
          /\ ext.c = Pieces[a][i] + 1
      BY <1>1, <3>1, <2>1 DEF WorkOK, SkipPC
    <3>3. Count = ext.c - 1
      BY <3>1 DEF Count, AfterPC, LockedPC
    <3>4. Count = Pieces[a][i]
      BY <3>2, <3>3, <1>1, EntryTypes
    <3>5. disk[a][i].data \in {Full(a, i), << >>}
      BY <1>1, <3>2, <3>4, EntryTypes
         DEF Sound, IsMarked, IsFinished, Holds, InMemory, OnDisk
    <3>6. mem'[a][i] = mem[a][i] /\ disk'[a][i] = MarkedRow(disk[a][i])
      BY <1>1, <1>10, <2>1, MarkDiskEffect
    <3>7. disk'[a][i].completed = Done /\ disk'[a][i].data = disk[a][i].data
      BY <1>1, <3>2, <3>6, EntryTypes, MarkedRowFacts
    <3> QED
      BY <3>2, <3>5, <3>6, <3>7 DEF Sound, IsMarked, IsFinished, Processing
  <2>2. CASE ~here
    BY <1>1, <1>10, <2>2, MarkDiskEffect
  <2> QED
    BY <2>1, <2>2
<1>11. CASE \E r \in Caller : ReadMem(r)
  <2>1. /\ disk'[a][i] = disk[a][i]
        /\ mem'[a][i] = mem[a][i] \/ (mem[a][i] = Absent /\ mem'[a][i] = NewEntry)
    BY <1>1, <1>11, ReadMemEffect
  <2> QED
    BY <1>1, <2>1 DEF Sound, IsMarked, NewEntry
<1>12. CASE Crash
  BY <1>1, <1>12, CrashEffect DEF Sound, IsMarked
<1> QED
  BY <1>1, <1>2, <1>3, <1>4, <1>5, <1>6, <1>7, <1>8, <1>9, <1>10, <1>11, <1>12, OtherSteps

\* An item the extraction has not come to stays untouched.
LEMMA UntouchedStep ==
    ASSUME TypeInv, ~clearing, [Next]_vars, "clear" \notin Faults,
           NEW k \in Item, k # ext.i, ext.tid \in Tid,
           Untouched(mem[ext.a][k], disk[ext.a][k], ext.tid)
    PROVE  Untouched(mem'[ext.a][k], disk'[ext.a][k], ext.tid)
<1> DEFINE a == ext.a
<1>1. a \in Archive
  BY DEF TypeInv, ExtState
<1>2. CASE UNCHANGED <<mem, disk>>
  BY <1>2
<1>3. CASE PurgeUnmarkedMem
  BY <1>1, <1>3, PurgeMemEffect DEF Untouched
<1>4. CASE PurgeUnmarkedDisk
  BY <1>1, <1>4, PurgeDiskEffect DEF Untouched, Processing
<1>5. CASE AppendMem
  <2>1. mem'[a][k] = mem[a][k] /\ disk' = disk
    BY <1>1, <1>5 DEF AppendMem, TypeInv, StoresOK, MemType
  <2> QED
    BY <2>1
<1>6. CASE (\E w \in Archive : EvictFiles(w)) \/ EvictRows
  BY <1>1, <1>6, EvictEffect DEF Untouched, Processing, IsFinished
<1>7. CASE StorePiece
  BY <1>1, <1>7, StorePieceEffect
<1>8. CASE StoreSpilled
  <2>1. CASE a = ext.v /\ k = ext.j
    <3> DEFINE s == SpilledRow(mem[a][k], disk[a][k], ext.tid)
    <3>1. mem'[a][k] = Absent /\ disk'[a][k] = s /\ mem[a][k] \in MemEntry
      BY <1>1, <1>8, <2>1, SpillEffect
    <3>2. Untouched(Absent, s, ext.tid)
      BY <1>1, <3>1, EntryTypes, Spill
    <3> QED
      BY <3>1, <3>2
  <2>2. CASE ~(a = ext.v /\ k = ext.j)
    BY <1>1, <1>8, <2>2, SpillEffect
  <2> QED
    BY <2>1, <2>2
<1>9. CASE MarkMem
  <2>1. mem'[a][k] = mem[a][k] /\ disk' = disk
    BY <1>1, <1>9 DEF MarkMem, TypeInv, StoresOK, MemType
  <2> QED
    BY <2>1
<1>10. CASE MarkDisk
  BY <1>1, <1>10, MarkDiskEffect
<1>11. CASE \E r \in Caller : ReadMem(r)
  <2>1. /\ disk'[a][k] = disk[a][k]
        /\ mem'[a][k] = mem[a][k] \/ (mem[a][k] = Absent /\ mem'[a][k] = NewEntry)
    BY <1>1, <1>11, ReadMemEffect
  <2> QED
    BY <2>1 DEF Untouched, NewEntry
<1>12. CASE Crash
  BY <1>1, <1>12, CrashEffect DEF Untouched
<1> QED
  BY <1>2, <1>3, <1>4, <1>5, <1>6, <1>7, <1>8, <1>9, <1>10, <1>11, <1>12, OtherSteps

\* Where the extraction is in the list of items: it stays inside an item,
\* passes from one to the next, or begins with the first.
LEMMA Progress ==
    ASSUME TypeInv, [Next]_vars, ext'.pc \in ItemPC \cup {"stream"}
    PROVE  \/ /\ ext.pc \in ItemPC \cup {"stream"}
              /\ ext'.a = ext.a /\ ext'.tid = ext.tid
              /\ \/ ext'.i = ext.i /\ (ext'.pc = "stream" => ext.pc = "stream")
                 \/ ext'.i = ext.i + 1 /\ ext'.pc = "stream" /\ ext.pc \in ItemPC
           \/ /\ PurgeUnmarkedDisk /\ ~ext.last
              /\ ext' = [ext EXCEPT !.pc = "stream", !.i = 1]
<1> USE DEF ItemPC, LockedPC
<1>1. ext \in ExtState
  BY DEF TypeInv
<1>2. NextPiece => ext'.pc = "write" /\ ext'.a = ext.a /\ ext'.tid = ext.tid /\ ext'.i = ext.i
  BY <1>1 DEF NextPiece, ExtState
<1>3. CASE UNCHANGED ext
  BY <1>3
<1>4. CASE GetStream \/ Write \/ ItemOK \/ AppendLookup \/ AppendMem \/ CallReduce
           \/ Result \/ MarkMem \/ MarkDisk
  <2>1. /\ ext'.a = ext.a /\ ext'.tid = ext.tid /\ ext'.i = ext.i /\ ext'.pc # "stream"
        /\ ext.pc \in {"stream", "write", "lookup", "appendMem", "callReduce", "result",
                       "markMem", "markDisk"}
    BY <1>1, <1>4 DEF GetStream, Write, ItemOK, AppendLookup, AppendMem, CallReduce,
                      Result, MarkMem, MarkDisk, ExtState
  <2> QED
    BY <2>1
<1>5. CASE Measure \/ ReduceEnd \/ StorePiece
  <2>1. CASE NextPiece
    BY <1>2, <1>5, <2>1 DEF Measure, ReduceEnd, StorePiece
  <2>2. CASE ~NextPiece
    <3>1. /\ ext'.a = ext.a /\ ext'.tid = ext.tid /\ ext'.i = ext.i
          /\ ext'.pc = "callReduce" /\ ext.pc = "measure"
      BY <1>1, <1>5, <2>2 DEF Measure, ReduceEnd, StorePiece, ExtState
    <3> QED
      BY <3>1
  <2> QED
    BY <2>1, <2>2
<1>6. CASE (\E v \in Archive : ReduceVictim(v)) \/ SpillFirst \/ StoreSpilled
  <2>1. /\ ext'.a = ext.a /\ ext'.tid = ext.tid /\ ext'.i = ext.i
        /\ ext'.pc # "stream" /\ ext.pc \in {"reduce", "spill", "store"}
    BY <1>1, <1>6 DEF ReduceVictim, SpillFirst, StoreSpilled, ExtState
  <2> QED
    BY <2>1
<1>7. CASE AppendDisk \/ (\E w \in Archive : EvictFiles(w)) \/ EvictRows \/ EvictEnd
  <2>1. /\ ext'.a = ext.a /\ ext'.tid = ext.tid /\ ext'.i = ext.i
        /\ ext'.pc # "stream" /\ ext.pc \in {"appendDisk", "evict", "deleteRows"}
    BY <1>1, <1>7 DEF AppendDisk, EvictFiles, EvictRows, EvictEnd, ExtState
  <2> QED
    BY <2>1
<1>8. CASE ItemError \/ Notify
  <2>1. /\ ext'.a = ext.a /\ ext'.tid = ext.tid /\ ext'.i = ext.i + 1
        /\ ext'.pc = "stream" /\ ext.pc \in {"write", "notify"}
    BY <1>1, <1>8 DEF ItemError, Notify, ExtState
  <2> QED
    BY <2>1
<1>9. CASE PurgeUnmarkedDisk
  <2>1. CASE ext.last
    <3>1. ext'.pc = "cleanup"
      BY <1>1, <1>9, <2>1 DEF PurgeUnmarkedDisk, ExtState
    <3> QED
      BY <3>1
  <2>2. CASE ~ext.last
    BY <1>9, <2>2 DEF PurgeUnmarkedDisk
  <2> QED
    BY <2>1, <2>2
<1>10. CASE (\E b \in Archive : ExtStart(b) \/ ExtNoItems(b)) \/ PurgeUnmarkedMem
            \/ PurgeUnreferencedMem \/ ExtractReturns \/ Cleanup \/ Crash
  <2>1. ext'.pc \in {"idle", "purgeUnmarked", "purgeUnreferenced", "purgeDisk", "cleanup"}
    <3>1. CASE \E b \in Archive : ExtStart(b) \/ ExtNoItems(b)
      BY <3>1 DEF ExtStart, ExtNoItems, Idle
    <3>2. CASE PurgeUnmarkedMem \/ PurgeUnreferencedMem \/ ExtractReturns
      BY <1>1, <3>2 DEF PurgeUnmarkedMem, PurgeUnreferencedMem, ExtractReturns, ExtState
    <3>3. CASE Cleanup \/ Crash
      BY <3>3 DEF Cleanup, Crash, Idle
    <3> QED
      BY <1>10, <3>1, <3>2, <3>3
  <2> QED
    BY <2>1
<1> QED
  BY <1>3, <1>4, <1>5, <1>6, <1>7, <1>8, <1>9, <1>10
     DEF Next, vars, stores, Extractor, CallerStep, ReduceSpin, ThreadExit, PeekMem,
         PeekDisk, GetFileCache, ReadMem, ReadDisk, Extract, WaitEnds, Returned,
         Request, ClearMem, ClearDisk

\* The first purge removes what earlier extractions left unfinished, and
\* nothing unfinished appears in the items still to come.
LEMMA FutureStep ==
    ASSUME ContentInv, [Next]_vars, "clear" \notin Faults
    PROVE  FutureOK'
<1>1. TypeInv /\ ~clearing /\ FutureOK /\ ext \in ExtState /\ ext.a \in Archive
  BY DEF ContentInv, TypeInv, ExtState
<1> DEFINE emptied(e) == e # Absent /\ ~e.cached => e.buf = << >>
<1>2. ASSUME ext'.pc \in {"purgeUnreferenced", "purgeDisk"}, ~ext'.last, NEW k \in Item
      PROVE  emptied(mem'[ext'.a][k])
  <2>1. CASE PurgeUnmarkedMem
    <3>1. ext'.a = ext.a
      BY <1>1, <2>1 DEF PurgeUnmarkedMem, ExtState
    <3> QED
      BY <1>1, <2>1, <3>1, PurgeMemEffect
  <2>2. CASE PurgeUnreferencedMem
    <3>1. /\ ext'.a = ext.a /\ ext'.last = ext.last /\ mem' = mem
          /\ ext.pc = "purgeUnreferenced"
      BY <1>1, <2>2 DEF PurgeUnreferencedMem, ExtState
    <3> QED
      BY <1>1, <1>2, <3>1 DEF FutureOK
  <2>3. CASE UNCHANGED ext
    <3>1. \/ mem'[ext.a][k] = mem[ext.a][k] \/ mem'[ext.a][k] = NewEntry
          \/ mem'[ext.a][k] = Absent
      <4>1. CASE UNCHANGED mem
        BY <4>1
      <4>2. CASE \E r \in Caller : ReadMem(r)
        BY <1>1, <4>2, ReadMemEffect
      <4>3. CASE Crash
        BY <1>1, <4>3, CrashEffect
      <4>4. ext.pc \notin {"purgeUnmarked", "appendMem", "markMem", "store"}
        BY <1>2, <2>3
      <4> QED
        BY <1>1, <4>1, <4>2, <4>3, <4>4, OtherSteps
           DEF PurgeUnmarkedMem, PurgeUnmarkedDisk, AppendMem, StorePiece, EvictFiles,
               EvictRows, StoreSpilled, MarkMem, MarkDisk
    <3> QED
      BY <1>1, <1>2, <2>3, <3>1 DEF FutureOK, NewEntry
  <2>4. ~Crash /\ ~Cleanup
    BY <1>2 DEF Crash, Cleanup, Idle
  <2>5. PurgeUnmarkedMem \/ PurgeUnreferencedMem \/ UNCHANGED ext
    <3>1. ~(\E b \in Archive : ExtStart(b) \/ ExtNoItems(b))
      BY <1>2 DEF ExtStart, ExtNoItems, Idle
    <3>2. NextPiece => ext'.pc = "write"
      BY <1>1 DEF NextPiece, ExtState
    <3>3. /\ ~PurgeUnmarkedDisk /\ ~GetStream /\ ~ExtractReturns /\ ~ItemError /\ ~Write
          /\ ~ItemOK /\ ~AppendLookup /\ ~AppendMem /\ ~Measure /\ ~CallReduce /\ ~ReduceEnd
      BY <1>1, <1>2, <3>2 DEF PurgeUnmarkedDisk, GetStream, ExtractReturns, ItemError,
           Write, ItemOK, AppendLookup, AppendMem, Measure, CallReduce, ReduceEnd, ExtState
    <3>4. /\ ~SpillFirst /\ ~StoreSpilled /\ ~AppendDisk /\ ~EvictRows /\ ~EvictEnd
          /\ ~StorePiece /\ ~Result /\ ~MarkMem /\ ~MarkDisk /\ ~Notify
          /\ ~\E w \in Archive : EvictFiles(w)
      BY <1>1, <1>2, <3>2 DEF SpillFirst, StoreSpilled, AppendDisk, EvictRows, EvictEnd,
           StorePiece, Result, MarkMem, MarkDisk, Notify, EvictFiles, ExtState
    <3>5. \A v \in Archive : ReduceVictim(v) => UNCHANGED ext
      BY <1>1, <1>2 DEF ReduceVictim, ExtState
    <3> QED
      BY <2>4, <3>1, <3>3, <3>4, <3>5
         DEF Next, vars, Extractor, CallerStep, ReduceSpin, ThreadExit, PeekMem,
             PeekDisk, GetFileCache, ReadMem, ReadDisk, Extract, WaitEnds, Returned,
             Request, ClearMem, ClearDisk
  <2> QED
    BY <2>1, <2>2, <2>3, <2>5
<1>3. ASSUME ext'.pc \in ItemPC \cup {"stream"}, NEW k \in Item,
             k > ext'.i \/ (k = ext'.i /\ ext'.pc = "stream")
      PROVE  Untouched(mem'[ext'.a][k], disk'[ext'.a][k], ext'.tid)
  <2>1. ext.i \in Int /\ k \in Int
    BY <1>1, NumItemsAssumption DEF ExtState, Position, Item
  <2>2. CASE /\ ext.pc \in ItemPC \cup {"stream"}
             /\ ext'.a = ext.a /\ ext'.tid = ext.tid
             /\ \/ ext'.i = ext.i /\ (ext'.pc = "stream" => ext.pc = "stream")
                \/ ext'.i = ext.i + 1 /\ ext'.pc = "stream" /\ ext.pc \in ItemPC
    <3>1. k > ext.i \/ (k = ext.i /\ ext.pc = "stream" /\ ext'.pc \in ItemPC \cup {"stream"})
      BY <1>3, <2>1, <2>2
    <3>2. Untouched(mem[ext.a][k], disk[ext.a][k], ext.tid)
      BY <1>1, <2>2, <3>1 DEF FutureOK
    <3>3. ext.tid \in Tid
      BY <1>1, <2>2 DEF TypeInv, ExtOK, WorkPC, ItemPC, ExtPC, LockedPC
    <3>4. CASE k # ext.i
      BY <1>1, <2>2, <3>2, <3>3, <3>4, UntouchedStep
    <3>5. CASE k = ext.i
      <4>1. ext.pc = "stream" /\ ext'.i = ext.i
        BY <1>3, <2>1, <2>2, <3>1, <3>5
      <4>2. \/ UNCHANGED <<mem, disk>> \/ \E r \in Caller : ReadMem(r)
            \/ Crash
        BY <1>1, <4>1, OtherSteps
           DEF PurgeUnmarkedMem, PurgeUnmarkedDisk, AppendMem, StorePiece, EvictFiles,
               EvictRows, StoreSpilled, MarkMem, MarkDisk
      <4>3. /\ disk'[ext.a][k] = disk[ext.a][k]
            /\ mem'[ext.a][k] \in {mem[ext.a][k], NewEntry, Absent}
        BY <1>1, <4>2, ReadMemEffect, CrashEffect
      <4> QED
        BY <2>2, <3>2, <4>3 DEF Untouched, NewEntry
    <3> QED
      BY <3>4, <3>5
  <2>3. CASE /\ PurgeUnmarkedDisk /\ ~ext.last
             /\ ext' = [ext EXCEPT !.pc = "stream", !.i = 1]
    <3>1. ext'.a = ext.a /\ ext.pc = "purgeDisk"
      BY <1>1, <2>3 DEF PurgeUnmarkedDisk, ExtState
    <3>2. mem' = mem /\ ~Processing(disk'[ext.a][k])
      BY <1>1, <2>3, PurgeDiskEffect
    <3> QED
      BY <1>1, <2>3, <3>1, <3>2 DEF FutureOK, Untouched
  <2> QED
    BY <1>1, <1>3, <2>2, <2>3, Progress
<1> QED
  BY <1>2, <1>3 DEF FutureOK

\* One more piece in memory.
LEMMA AppendedEntry ==
    ASSUME NEW e \in MemEntry \cup {Absent}, NEW f \in MemEntry, NEW c \in Nat \ {0},
           InMemory(e, Absent, c - 1), MaxMemory > 0,
           e = Absent => f.buf = Append(<< >>, c),
           e # Absent => f.buf = Append(e.buf, c)
    PROVE  InMemory(f, Absent, c)
<1>1. f.buf = Append(Prefix(c - 1), c)
  BY PrefixFacts DEF InMemory
<1>2. PICK n \in Nat : n = c - 1 /\ c = n + 1
  OBVIOUS
<1>3. Append(Prefix(n), n + 1) = Prefix(n + 1)
  BY PrefixFacts
<1> QED
  BY <1>1, <1>2, <1>3, AbsentAssumption DEF InMemory

\* The item a step begins with or goes on with: WorkOK of the new state.
LEMMA WorkStep ==
    ASSUME ContentInv, [Next]_vars, "clear" \notin Faults
    PROVE  WorkOK'
<1> DEFINE a == ext.a
           i == ext.i
           e == mem[a][i]
           r == disk[a][i]
           p == Pieces[a][i]
<1>1. /\ TypeInv /\ ~clearing /\ WorkOK /\ FutureOK
      /\ ext \in ExtState /\ ext.a \in Archive /\ ext.c \in Nat
      /\ ext.pc \in ItemPC => ext.i \in Item /\ ext.tid \in Tid
      /\ ext.pc \in ItemPC \ SpillPC => ~ext.direct
  <2>1. ItemPC \subseteq WorkPC
    BY DEF ItemPC, WorkPC, ExtPC, LockedPC
  <2> QED
    BY <2>1 DEF ContentInv, TypeInv, ExtState, ExtOK
<1>2. NextPiece => /\ ext'.pc = "write" /\ ext'.a = a /\ ext'.i = i /\ ext'.tid = ext.tid
                   /\ ext'.c = ext.c + 1
  BY <1>1 DEF NextPiece, ExtState
\* The current entry and row are unchanged, and so is the place.
<1>3. ASSUME UNCHANGED ext, ext.pc = "appendMem" => a \in table',
             r = disk'[a][i], mem'[a][i] = e \/ (e = Absent /\ mem'[a][i] = NewEntry)
      PROVE  WorkOK'
  <2>1. CASE mem'[a][i] = e
    BY <1>1, <1>3, <2>1 DEF WorkOK, Count
  <2>2. CASE e = Absent /\ mem'[a][i] = NewEntry
    <3>1. NewEntry # Absent /\ NewEntry.buf = << >> /\ ~NewEntry.cached
      BY AbsentAssumption, EntryUpdate DEF NewEntry
    <3>2. \A n : Holds(e, r, n, ext.tid) => Holds(NewEntry, r, n, ext.tid)
      BY <2>2, <3>1, PrefixFacts DEF Holds, InMemory, OnDisk
    <3>3. ~IsMarked(e) /\ ~IsMarked(NewEntry)
      BY <2>2, <3>1 DEF IsMarked
    <3> QED
      BY <1>1, <1>3, <2>2, <3>1, <3>2, <3>3 DEF WorkOK, Count
  <2> QED
    BY <1>3, <2>1, <2>2
\* The places where nothing is said.
<1>4. ASSUME ext'.pc \notin SkipPC \cup BeforePC \cup AfterPC
      PROVE  WorkOK'
  BY <1>4 DEF WorkOK, SkipPC, BeforePC, AfterPC, LockedPC, SpillPC
<1>5. CASE GetStream
  <2>1. /\ ext.pc = "stream" /\ i \in Item /\ mem' = mem /\ disk' = disk
        /\ ext'.pc = "write" /\ ext'.a = a /\ ext'.i = i /\ ext'.c = 1 /\ ext'.tid = ext.tid
    BY <1>1, <1>5 DEF GetStream, stores, ExtState
  <2>2. Untouched(e, r, ext.tid)
    BY <1>1, <2>1 DEF FutureOK
  <2>3. e = Absent \/ e.cached \/ e.buf = << >>
    BY <2>2 DEF Untouched
  <2>4. IsMarked(e) \/ IsFinished(r) \/ Holds(e, r, 0, ext.tid)
    BY <2>2, <2>3, PrefixFacts
       DEF Untouched, IsMarked, IsFinished, Processing, Holds, InMemory, OnDisk
  <2>5. Count' = 0 /\ 1 \in 1..p + 1
    BY <1>1, <2>1, EntryTypes DEF Count, AfterPC, LockedPC
  <2> QED
    BY <2>1, <2>4, <2>5 DEF WorkOK, SkipPC, BeforePC, AfterPC, LockedPC, SpillPC
<1>6. CASE Write
  <2>1. /\ ext.pc = "write" /\ ext.c <= p /\ mem' = mem /\ disk' = disk
        /\ ext'.a = a /\ ext'.i = i /\ ext'.tid = ext.tid /\ ext'.direct = ext.direct
    BY <1>1, <1>6 DEF Write, stores, ExtState
  <2>2. i \in Item /\ ~ext.direct
    BY <1>1, <2>1 DEF ItemPC, SpillPC
  <2>3. /\ IsMarked(e) \/ IsFinished(r) \/ Holds(e, r, ext.c - 1, ext.tid)
        /\ ext.c \in 1..p
    BY <1>1, <2>1, <2>2, EntryTypes DEF WorkOK, SkipPC, Count, AfterPC, LockedPC
  <2>4. Cached(mem, disk, a, i) <=> IsMarked(e) \/ IsFinished(r)
    BY DEF Cached, MemCached, DiskCached, Exists, IsMarked, IsFinished
  <2>5. CASE IsMarked(e) \/ IsFinished(r)
    <3>1. ext'.pc = "write" /\ ext'.c = ext.c + 1
      BY <1>1, <1>6, <2>1, <2>4, <2>5 DEF Write, ExtState
    <3>2. ext.c + 1 \in 1..p + 1
      BY <1>1, <2>2, <2>3, EntryTypes
    <3> QED
      BY <2>1, <2>5, <3>1, <3>2 DEF WorkOK, SkipPC, BeforePC, AfterPC, LockedPC, SpillPC
  <2>6. CASE ~(IsMarked(e) \/ IsFinished(r))
    <3>1. /\ ext'.pc = IF GoesToDisk(disk, a, i) THEN "appendDisk" ELSE "lookup"
          /\ ext'.c = ext.c
      BY <1>1, <1>6, <2>1, <2>4, <2>6 DEF Write, ExtState
    <3>2. GoesToDisk(disk, a, i) <=> r # Absent \/ MaxMemory <= 0
      BY DEF GoesToDisk, Exists
    <3>3. Count' = ext.c - 1
      BY <3>1 DEF Count, AfterPC, LockedPC
    <3>4. MaxMemory <= 0 \/ MaxMemory > 0
      BY LimitAssumption
    <3> QED
      BY <2>1, <2>2, <2>3, <2>6, <3>1, <3>2, <3>3, <3>4
         DEF WorkOK, SkipPC, BeforePC, AfterPC, LockedPC, SpillPC
  <2> QED
    BY <2>5, <2>6
<1>7. CASE ItemOK
  <2>1. /\ ext.pc = "write" /\ ext.c > p /\ mem' = mem /\ disk' = disk /\ ext'.pc = "result"
        /\ ext'.a = a /\ ext'.i = i /\ ext'.tid = ext.tid /\ ext'.c = ext.c
    BY <1>1, <1>7 DEF ItemOK, stores, ExtState
  <2>2. i \in Item
    BY <1>1, <2>1 DEF ItemPC
  <2>3. /\ IsMarked(e) \/ IsFinished(r) \/ Holds(e, r, ext.c - 1, ext.tid)
        /\ ext.c = p + 1 /\ ext.c \in 1..p + 1
    BY <1>1, <2>1, <2>2, EntryTypes DEF WorkOK, SkipPC, Count, AfterPC, LockedPC
  <2>4. Count' = ext.c - 1
    BY <2>1 DEF Count, AfterPC, LockedPC
  <2> QED
    BY <2>1, <2>3, <2>4 DEF WorkOK, SkipPC, BeforePC, AfterPC, LockedPC, SpillPC
<1>8. CASE AppendLookup
  <2>1. /\ ext.pc = "lookup" /\ mem' = mem /\ disk' = disk /\ ext'.pc = "appendMem"
        /\ ext'.a = a /\ ext'.i = i /\ ext'.tid = ext.tid /\ ext'.c = ext.c
        /\ ext'.direct = ext.direct /\ a \in table'
    BY <1>1, <1>8 DEF AppendLookup, ExtState
  <2> QED
    BY <1>1, <2>1 DEF WorkOK, Count, SkipPC, BeforePC, AfterPC, LockedPC, SpillPC
<1>9. CASE AppendMem
  <2>1. /\ ext.pc = "appendMem" /\ ext'.pc = "measure" /\ disk' = disk
        /\ ext'.a = a /\ ext'.i = i /\ ext'.tid = ext.tid /\ ext'.c = ext.c
        /\ ext'.direct = ext.direct
    BY <1>1, <1>9 DEF AppendMem, ExtState
  <2>2. i \in Item /\ ~ext.direct
    BY <1>1, <2>1 DEF ItemPC, SpillPC
  <2>3. /\ ~IsMarked(e) /\ r = Absent /\ MaxMemory > 0 /\ a \in table
        /\ ext.c \in 1..p /\ InMemory(e, r, ext.c - 1)
    BY <1>1, <2>1 DEF WorkOK, BeforePC, Count, AfterPC, LockedPC, Holds, OnDisk
  <2> DEFINE f == mem'[a][i]
  <2>4. /\ f \in MemEntry
        /\ e = Absent => ~f.cached /\ f.buf = Append(<< >>, ext.c)
        /\ e # Absent => f.cached = e.cached /\ f.buf = Append(e.buf, ext.c)
    BY <1>1, <1>9, <2>3, AppendMemEffect
  <2>5. ext.c \in Nat \ {0} /\ e \in MemEntry \cup {Absent}
    BY <1>1, <2>2, <2>3, EntryTypes
  <2>6. InMemory(f, r, ext.c) /\ ~IsMarked(f)
    <3> HIDE DEF f, e
    <3>1. InMemory(f, Absent, ext.c)
      BY <2>3, <2>4, <2>5, AppendedEntry
    <3> QED
      BY <2>3, <2>4, <3>1 DEF IsMarked
  <2>7. Count' = ext.c
    BY <2>1, <2>2 DEF Count, AfterPC, LockedPC
  <2> QED
    BY <2>1, <2>2, <2>3, <2>6, <2>7
       DEF WorkOK, Holds, IsFinished, SkipPC, BeforePC, AfterPC, LockedPC, SpillPC
\* Steps from one place after the write to another that leave the item alone.
<1>10. ASSUME ext.pc \in AfterPC, ext'.pc \in AfterPC, Count' = Count,
              mem'[a][i] = e, disk'[a][i] = r,
              ext'.a = a, ext'.i = i, ext'.tid = ext.tid, ext'.c = ext.c,
              ext'.pc \in SpillPC /\ ext'.direct => r # Absent \/ MaxMemory <= 0
       PROVE  WorkOK'
  BY <1>1, <1>10 DEF WorkOK, SkipPC, BeforePC, AfterPC, LockedPC, SpillPC
\* And those that go on to the next piece.
<1>11. ASSUME ext.pc \in AfterPC, ~ext.direct, mem'[a][i] = e, disk'[a][i] = r, NextPiece
       PROVE  WorkOK'
  <2>1. i \in Item /\ Count = ext.c /\ Count' = ext.c
    BY <1>1, <1>2, <1>11 DEF Count, AfterPC, ItemPC, LockedPC
  <2>2. Holds(e, r, ext.c, ext.tid) /\ ext.c \in 1..p
    BY <1>1, <1>11, <2>1 DEF WorkOK
  <2>3. ext.c + 1 \in 1..p + 1
    BY <1>1, <2>1, <2>2, EntryTypes
  <2> QED
    BY <1>2, <1>11, <2>1, <2>2, <2>3
       DEF WorkOK, SkipPC, BeforePC, AfterPC, LockedPC, SpillPC
<1>12. CASE Measure \/ ReduceEnd
  <2>1. ext.pc \in {"measure", "reduce"} /\ ~ext.direct /\ mem' = mem /\ disk' = disk
    BY <1>1, <1>12 DEF Measure, ReduceEnd, stores, ItemPC, SpillPC, LockedPC
  <2>2. CASE NextPiece
    BY <1>11, <2>1, <2>2 DEF AfterPC, LockedPC
  <2>3. CASE ~NextPiece
    <3>1. /\ ext'.pc = "callReduce" /\ ext'.a = a /\ ext'.i = i /\ ext'.tid = ext.tid
          /\ ext'.c = ext.c /\ ext'.direct = ext.direct
      BY <1>1, <1>12, <2>3 DEF Measure, ReduceEnd, ExtState
    <3> QED
      BY <1>10, <2>1, <3>1 DEF Count, AfterPC, LockedPC, SpillPC
  <2> QED
    BY <2>2, <2>3
<1>13. CASE CallReduce \/ (\E v \in Archive : ReduceVictim(v)) \/ SpillFirst
  <2>1. /\ ext.pc \in {"callReduce", "reduce", "spill"} /\ mem' = mem /\ disk' = disk
        /\ ext'.pc \in {"reduce", "spill", "evict"}
        /\ ext'.a = a /\ ext'.i = i /\ ext'.tid = ext.tid
        /\ ext'.c = ext.c /\ ext'.direct = ext.direct
    <3>1. CASE CallReduce
      BY <1>1, <3>1 DEF CallReduce, stores, ExtState
    <3>2. CASE \E v \in Archive : ReduceVictim(v)
      BY <1>1, <3>2 DEF ReduceVictim, ExtState
    <3>3. CASE SpillFirst
      BY <1>1, <3>3 DEF SpillFirst, ExtState
    <3> QED
      BY <1>13, <3>1, <3>2, <3>3
  <2>2. ~ext.direct
    BY <1>1, <2>1 DEF ItemPC, SpillPC, LockedPC
  <2> QED
    BY <1>10, <2>1, <2>2 DEF Count, AfterPC, LockedPC, SpillPC
<1>14. CASE AppendDisk
  <2>1. /\ ext.pc = "appendDisk" /\ mem' = mem /\ disk' = disk
        /\ ext'.pc = "evict" /\ ext'.a = a /\ ext'.i = i /\ ext'.tid = ext.tid
        /\ ext'.c = ext.c /\ ext'.direct
    BY <1>1, <1>14 DEF AppendDisk, ExtState
  <2>2. /\ ~IsMarked(e) /\ ~IsFinished(r) /\ Holds(e, r, ext.c - 1, ext.tid)
        /\ ext.c \in 1..p /\ (r # Absent \/ MaxMemory <= 0)
    BY <1>1, <2>1 DEF WorkOK, BeforePC, Count, AfterPC, LockedPC
  <2>3. Count' = ext.c - 1
    BY <2>1 DEF Count
  <2> QED
    BY <2>1, <2>2, <2>3 DEF WorkOK, SkipPC, BeforePC, AfterPC, LockedPC, SpillPC
<1>15. CASE (\E w \in Archive : EvictFiles(w)) \/ EvictRows \/ EvictEnd
  <2>1. /\ ext.pc \in SpillPC /\ ext'.pc \in SpillPC /\ ext'.a = a /\ ext'.i = i
        /\ ext'.tid = ext.tid /\ ext'.c = ext.c /\ ext'.direct = ext.direct
    <3>1. CASE \E w \in Archive : EvictFiles(w)
      BY <1>1, <3>1 DEF EvictFiles, ExtState, SpillPC
    <3>2. CASE EvictRows
      BY <1>1, <3>2 DEF EvictRows, ExtState, SpillPC
    <3>3. CASE EvictEnd
      BY <1>1, <3>3 DEF EvictEnd, ExtState, SpillPC
    <3> QED
      BY <1>15, <3>1, <3>2, <3>3
  <2>2. ext.pc \in AfterPC /\ ext'.pc \in AfterPC /\ i \in Item
    BY <1>1, <2>1 DEF SpillPC, AfterPC, LockedPC, ItemPC
  <2>3. ~IsFinished(r) /\ (ext.direct => r # Absent \/ MaxMemory <= 0)
    BY <1>1, <2>1, <2>2 DEF WorkOK
  <2>4. mem'[a][i] = e /\ disk'[a][i] = r
    BY <1>1, <1>15, <2>2, <2>3, EvictEffect DEF EvictEnd, stores
  <2> QED
    BY <1>10, <2>1, <2>2, <2>3, <2>4 DEF Count
<1>16. CASE StorePiece
  <2>1. ext.pc = "store" /\ ext.direct /\ NextPiece
    BY <1>16 DEF StorePiece
  <2>2. /\ i \in Item /\ ext.tid \in Tid /\ mem'[a][i] = e
        /\ disk'[a][i] = StoredRow(r, ext.tid, << ext.c >>)
    BY <1>1, <1>16, StorePieceEffect
  <2>3. /\ Holds(e, r, ext.c - 1, ext.tid) /\ ext.c \in 1..p
        /\ r # Absent \/ MaxMemory <= 0
    BY <1>1, <2>1 DEF WorkOK, AfterPC, SpillPC, LockedPC, Count
  <2>4. PICK n \in Nat : n = ext.c - 1 /\ ext.c = n + 1
    BY <1>1, <2>2, <2>3, EntryTypes
  <2>5. Holds(e, disk'[a][i], ext.c, ext.tid)
    <3>1. Holds(e, r, n, ext.tid) /\ disk'[a][i] = StoredRow(r, ext.tid, << n + 1 >>)
      BY <2>2, <2>3, <2>4
    <3>2. Holds(e, disk'[a][i], n + 1, ext.tid)
      BY <1>1, <2>2, <2>3, <3>1, EntryTypes, StorePieceEntry
    <3> QED
      BY <2>4, <3>2
  <2>6. ext.c + 1 \in 1..p + 1 /\ Count' = ext.c
    BY <1>1, <1>2, <2>1, <2>2, <2>3, EntryTypes DEF Count, AfterPC, LockedPC
  <2> QED
    BY <1>2, <2>1, <2>2, <2>5, <2>6 DEF WorkOK, SkipPC, BeforePC, AfterPC, LockedPC, SpillPC
<1>17. CASE StoreSpilled
  <2>1. /\ ext.pc = "store" /\ ~ext.direct /\ ext'.pc = "spill" /\ ext'.a = a /\ ext'.i = i
        /\ ext'.tid = ext.tid /\ ext'.c = ext.c /\ ext'.direct = ext.direct
    BY <1>1, <1>17 DEF StoreSpilled, ExtState
  <2>2. /\ i \in Item /\ ext.tid \in Tid /\ Count = ext.c /\ Count' = ext.c
        /\ ext.pc \in AfterPC /\ ext'.pc \in AfterPC
    BY <1>1, <2>1 DEF Count, AfterPC, ItemPC, LockedPC
  <2>3. CASE a = ext.v /\ i = ext.j
    <3> DEFINE s == SpilledRow(e, r, ext.tid)
    <3>1. mem'[a][i] = Absent /\ disk'[a][i] = s /\ e \in MemEntry
      BY <1>1, <1>17, <2>3, SpillEffect
    <3>2. ~IsMarked(e) /\ Holds(e, r, ext.c, ext.tid) /\ ext.c \in 1..p
      BY <1>1, <2>2 DEF WorkOK
    <3>3. Holds(Absent, s, ext.c, ext.tid) /\ ~IsFinished(s)
      BY <1>1, <2>2, <3>1, <3>2, EntryTypes, Spill
    <3>4. ~IsMarked(Absent)
      BY DEF IsMarked
    <3> HIDE DEF s
    <3> QED
      BY <2>1, <2>2, <3>1, <3>2, <3>3, <3>4
         DEF WorkOK, SkipPC, BeforePC, AfterPC, LockedPC, SpillPC
  <2>4. CASE ~(a = ext.v /\ i = ext.j)
    <3>1. mem'[a][i] = e /\ disk'[a][i] = r
      BY <1>1, <1>17, <2>2, <2>4, SpillEffect
    <3> QED
      BY <1>10, <2>1, <2>2, <3>1 DEF SpillPC
  <2> QED
    BY <2>3, <2>4
<1>18. CASE Result
  <2>1. /\ ext.pc = "result" /\ mem' = mem /\ disk' = disk
        /\ ext'.a = a /\ ext'.i = i /\ ext'.tid = ext.tid /\ ext'.c = ext.c
        /\ ext'.direct = ext.direct
        /\ ext'.pc \in {"markMem", "markDisk", "notify"}
        /\ ext'.pc = "markMem" => e # Absent
        /\ ext'.pc = "markDisk" => e = Absent /\ r # Absent
    BY <1>1, <1>18 DEF Result, stores, Exists, ExtState
  <2>2. Count = ext.c - 1 /\ Count' = ext.c - 1
    BY <2>1 DEF Count, AfterPC, LockedPC
  <2> QED
    BY <1>1, <2>1, <2>2 DEF WorkOK, SkipPC, BeforePC, AfterPC, LockedPC, SpillPC
<1>19. ASSUME NEW r1 \in Caller, ReadMem(r1)
       PROVE  WorkOK'
  <2>1. ext' = ext /\ table' = table /\ disk' = disk
    BY <1>1, <1>19, ReadMemEffect
  <2>2. CASE i \in Item
    BY <1>1, <1>3, <1>19, <2>1, <2>2, ReadMemEffect DEF WorkOK, BeforePC
  <2>3. CASE i \notin Item
    BY <1>1, <1>4, <2>1, <2>3 DEF SkipPC, BeforePC, AfterPC, ItemPC
  <2> QED
    BY <2>2, <2>3
<1>20. CASE ext' = Idle
  BY <1>4, <1>20 DEF Idle, SkipPC, BeforePC, AfterPC, LockedPC
<1>21. CASE (\E b \in Archive : ExtStart(b) \/ ExtNoItems(b))
  BY <1>4, <1>21 DEF ExtStart, ExtNoItems, Idle, SkipPC, BeforePC, AfterPC, LockedPC
<1>22. CASE \/ PurgeUnmarkedMem \/ PurgeUnreferencedMem \/ PurgeUnmarkedDisk \/ ExtractReturns
           \/ ItemError \/ MarkMem \/ MarkDisk \/ Notify
  <2>1. ext'.pc \in {"purgeUnmarked", "purgeUnreferenced", "purgeDisk", "stream", "cleanup",
                     "notify"}
    BY <1>1, <1>22 DEF PurgeUnmarkedMem, PurgeUnreferencedMem, PurgeUnmarkedDisk,
         ExtractReturns, ItemError, MarkMem, MarkDisk, Notify, ExtState
  <2> QED
    BY <1>4, <2>1 DEF SkipPC, BeforePC, AfterPC, LockedPC
<1>23. CASE UNCHANGED <<mem, disk, table, ext>>
  BY <1>1, <1>3, <1>23 DEF WorkOK, BeforePC
<1> QED
  BY <1>1, <1>5, <1>6, <1>7, <1>8, <1>9, <1>12, <1>13, <1>14, <1>15, <1>16, <1>17, <1>18,
     <1>19, <1>20, <1>21, <1>22, <1>23
     DEF Next, vars, stores, Extractor, CallerStep, ReduceSpin, ThreadExit, PeekMem,
         PeekDisk, GetFileCache, ReadDisk, Extract, WaitEnds, Returned, Request,
         ClearMem, ClearDisk, Crash, Cleanup

\* Nobody starts to clear.
LEMMA NotClearing ==
    ASSUME ~clearing, [Next]_vars, "clear" \notin Faults
    PROVE  ~clearing'
  BY DEF Next, vars, stores, Extractor, CallerStep, ExtStart, ExtNoItems,
       PurgeUnmarkedMem, PurgeUnreferencedMem, PurgeUnmarkedDisk, GetStream,
       ExtractReturns, ItemError, Write, ItemOK, AppendLookup, AppendMem, Measure,
       CallReduce, ReduceVictim, ReduceSpin, ReduceEnd, SpillFirst, StoreSpilled,
       AppendDisk, EvictFiles, EvictRows, EvictEnd, StorePiece, Result, MarkMem,
       MarkDisk, Notify, Cleanup, ThreadExit, PeekMem, PeekDisk, GetFileCache, ReadMem,
       ReadDisk, Extract, WaitEnds, Returned, Request, ClearMem, ClearDisk, Crash

\* The empty cache satisfies the invariant.
THEOREM ContentInvInit == Init => ContentInv
<1> SUFFICES ASSUME Init PROVE ContentInv
  OBVIOUS
<1>1. TypeInv /\ ~clearing
  BY TypeInvInit DEF Init
<1>2. AllSound
  BY DEF Init, AllSound, NoMem, NoDisk, Sound, IsMarked, IsFinished
<1>3. ext.pc = "idle"
  BY DEF Init, Idle
<1>4. FutureOK
  BY <1>3 DEF FutureOK, ItemPC, LockedPC
<1>5. WorkOK
  BY <1>3 DEF WorkOK, SkipPC, BeforePC, AfterPC, LockedPC, SpillPC
<1> QED
  BY <1>1, <1>2, <1>4, <1>5 DEF ContentInv

\* Every step of the extractor, of a caller and of a crash keeps it.
THEOREM ContentInvStep ==
    ASSUME "clear" \notin Faults
    PROVE  ContentInv /\ [Next]_vars => ContentInv'
<1> SUFFICES ASSUME ContentInv, [Next]_vars PROVE ContentInv'
  OBVIOUS
<1>1. TypeInv' /\ ~clearing'
  BY TypeInvStep, NotClearing DEF ContentInv
<1> QED
  BY <1>1, SoundStep, FutureStep, WorkStep DEF ContentInv

\* The extractor's own bookkeeping is right for every archive, every limit and
\* every interleaving: where the pieces are is where ContentInv says.
THEOREM ContentInvariant ==
    ASSUME "clear" \notin Faults
    PROVE  Spec => []ContentInv
<1>1. ContentInv /\ [Next]_vars => ContentInv'
  BY ContentInvStep
<1> QED
  BY <1>1, ContentInvInit, PTL DEF Spec

\* An entry marked complete is whole or empty, in every reachable state of
\* a cache nobody clears: no interleaving of extraction, spilling, eviction,
\* cancellation, readers and crashes leaves a part of an item marked.
THEOREM ContentNeverTorn ==
    ASSUME "clear" \notin Faults
    PROVE  Spec => []NeverTorn
<1>1. ContentInv => NeverTorn
  BY DEF ContentInv, AllSound, Sound, IsMarked, IsFinished, NeverTorn, MarkedContent,
         MemCached, DiskCached, Exists
<1> QED
  BY <1>1, ContentInvariant, PTL

\* Between two Write() calls the pieces of the item being extracted are in one
\* store, in order and complete, wherever purges have moved them.
THEOREM ContentInOnePlace ==
    ASSUME "clear" \notin Faults
    PROVE  Spec => []ItemInOnePlace
<1>1. ContentInv => ItemInOnePlace
  <2> SUFFICES ASSUME ContentInv, ext.pc = "write", ext.c > 1,
                      ~Cached(mem, disk, ext.a, ext.i)
               PROVE  LET e == mem[ext.a][ext.i]  r == disk[ext.a][ext.i]
                          n == ext.c - 1
                      IN  \/ e # Absent /\ e.buf = Prefix(n) /\ r = Absent
                          \/ /\ r # Absent /\ r.data = Prefix(n) /\ r.size = n
                             /\ r.completed = ext.tid
                             /\ e # Absent => e.buf = << >>
    BY DEF ItemInOnePlace, Exists
  <2>1. Count = ext.c - 1 /\ ext.c \in Nat
    BY DEF Count, AfterPC, LockedPC, ContentInv, TypeInv, ExtState
  <2>2. Holds(mem[ext.a][ext.i], disk[ext.a][ext.i], ext.c - 1, ext.tid)
    BY <2>1 DEF ContentInv, WorkOK, SkipPC, Cached, MemCached, DiskCached, Exists,
                IsMarked, IsFinished
  <2> QED
    BY <2>1, <2>2 DEF Holds, InMemory, OnDisk
<1> QED
  BY <1>1, ContentInvariant, PTL

----------------------------------------------------------------------------
(* What a purge of memory writes out                                       *)

\* A marked entry with content has no row: what is in memory is not on disk.
OneCopy ==
    \A a \in Archive, i \in Item :
        IsMarked(mem[a][i]) /\ mem[a][i].buf # << >> => disk[a][i] = Absent

\* It stays so: only unmarked items are written to disk, and an item is marked
\* in the store that has its pieces.
LEMMA OneCopyStep ==
    ASSUME ContentInv, OneCopy, [Next]_vars, "clear" \notin Faults
    PROVE  OneCopy'
<1> SUFFICES ASSUME NEW a \in Archive, NEW i \in Item,
                    IsMarked(mem'[a][i]), mem'[a][i].buf # << >>
             PROVE  disk'[a][i] = Absent
  BY DEF OneCopy
<1>1. /\ TypeInv /\ ~clearing /\ WorkOK /\ Sound(mem[a][i], disk[a][i], Full(a, i))
      /\ IsMarked(mem[a][i]) /\ mem[a][i].buf # << >> => disk[a][i] = Absent
  BY DEF ContentInv, AllSound, OneCopy
<1> DEFINE here == a = ext.a /\ i = ext.i
<1>2. CASE UNCHANGED <<mem, disk>>
  BY <1>1, <1>2
<1>3. CASE PurgeUnmarkedMem
  BY <1>1, <1>3, PurgeMemEffect DEF IsMarked
<1>4. CASE PurgeUnmarkedDisk
  BY <1>1, <1>4, PurgeDiskEffect
<1>5. CASE AppendMem
  <2>1. ext.a \in table /\ ~IsMarked(mem[ext.a][ext.i])
    BY <1>1, <1>5 DEF AppendMem, WorkOK, BeforePC
  <2> QED
    BY <1>1, <1>5, <2>1, AppendMemEffect DEF IsMarked
<1>6. CASE (\E w \in Archive : EvictFiles(w)) \/ EvictRows
  BY <1>1, <1>6, EvictEffect DEF IsFinished
<1>7. CASE StorePiece
  <2>1. ~IsMarked(mem[ext.a][ext.i])
    BY <1>1, <1>7 DEF StorePiece, WorkOK, AfterPC, LockedPC
  <2> QED
    BY <1>1, <1>7, <2>1, StorePieceEffect
<1>8. CASE StoreSpilled
  BY <1>1, <1>8, SpillEffect DEF IsMarked
<1>9. CASE MarkMem
  <2>1. /\ mem[ext.a][ext.i] # Absent
        /\ \/ IsMarked(mem[ext.a][ext.i]) \/ IsFinished(disk[ext.a][ext.i])
           \/ Holds(mem[ext.a][ext.i], disk[ext.a][ext.i], Count, ext.tid)
    BY <1>1, <1>9 DEF MarkMem, WorkOK, SkipPC
  <2>2. CASE here
    <3>1. disk'[a][i] = disk[a][i] /\ mem'[a][i].buf = mem[a][i].buf
      BY <1>1, <1>9, <2>1, <2>2, MarkMemEffect
    <3>2. mem[a][i].cached \in BOOLEAN
      BY <1>1, <2>1, <2>2, EntryTypes
    <3> QED
      BY <1>1, <2>1, <2>2, <3>1, <3>2 DEF Sound, IsMarked, Holds, InMemory, OnDisk
  <2>3. CASE ~here
    BY <1>1, <1>9, <2>1, <2>3, MarkMemEffect
  <2> QED
    BY <2>2, <2>3
<1>10. CASE MarkDisk
  <2>1. mem[ext.a][ext.i] # Absent => ~mem[ext.a][ext.i].cached
    BY <1>1, <1>10 DEF MarkDisk, WorkOK, SkipPC
  <2> QED
    BY <1>1, <1>10, <2>1, MarkDiskEffect DEF IsMarked
<1>11. CASE \E r \in Caller : ReadMem(r)
  BY <1>1, <1>11, ReadMemEffect DEF IsMarked, NewEntry
<1>12. CASE Crash
  BY <1>1, <1>12, CrashEffect DEF IsMarked
<1> QED
  BY <1>1, <1>2, <1>3, <1>4, <1>5, <1>6, <1>7, <1>8, <1>9, <1>10, <1>11, <1>12, OtherSteps

\* What a spill makes of a marked entry without a row, or of one that is empty
\* because its item is.
LEMMA SpillOfMarked ==
    ASSUME NEW e \in MemEntry, NEW r \in Row \cup {Absent}, NEW tid \in Tid,
           NEW s, s = SpilledRow(e, r, tid), e.cached, Sound(e, r, e.buf),
           e.buf # << >> => r = Absent
    PROVE  s # Absent /\ s.completed = Done /\ s.data = e.buf
<1> DEFINE t == StoredRow(r, tid, e.buf)
<1>1. e.buf \in Content
  BY DEF MemEntry
<1>2. t \in Row /\ (r = Absent => t.data = e.buf)
  BY <1>1, StoredRowFacts
<1>3. s = MarkedRow(t)
  BY DEF SpilledRow
<1> HIDE DEF t
<1>4. s \in Row /\ s.completed = Done /\ s.data = t.data
  BY <1>2, <1>3, MarkedRowFacts
<1>5. s # Absent
  BY <1>4, AbsentAssumption
<1>6. CASE r = Absent
  BY <1>2, <1>4, <1>5, <1>6
<1>7. CASE r # Absent
  <2>1. Sound(Absent, s, e.buf)
    BY Spill
  <2> QED
    BY <1>4, <1>5, <1>7, <2>1 DEF Sound, IsFinished
<1> QED
  BY <1>6, <1>7

\* A complete item that a purge takes out of memory is complete on disk
\* afterwards, unless the process dies or the user clears the cache.
THEOREM SpilledIsKept ==
    ASSUME "clear" \notin Faults
    PROVE  Spec => SpillKeepsContent
<1>1. Init => OneCopy
  BY DEF Init, NoMem, OneCopy, IsMarked
<1>2. ContentInv /\ OneCopy /\ [Next]_vars => OneCopy'
  BY OneCopyStep
<1> DEFINE Kept(a, i) ==
        /\ MemCached(mem, a, i) /\ mem[a][i].buf = Full(a, i)
        /\ ext.pc = "store" /\ ext'.pc # "idle" /\ ~Exists(mem', a, i)
        => DiskCached(disk', a, i) /\ disk'[a][i].data = Full(a, i)
<1>3. ASSUME ContentInv, OneCopy, [Next]_vars, NEW a \in Archive, NEW i \in Item
      PROVE  Kept(a, i)
  <2> SUFFICES ASSUME IsMarked(mem[a][i]), mem[a][i].buf = Full(a, i),
                      ext.pc = "store", ext'.pc # "idle", mem'[a][i] = Absent
               PROVE  /\ disk'[a][i] # Absent /\ disk'[a][i].completed = Done
                      /\ disk'[a][i].data = Full(a, i)
    BY DEF MemCached, DiskCached, Exists, IsMarked
  <2>1. /\ TypeInv /\ ~clearing /\ Sound(mem[a][i], disk[a][i], Full(a, i))
        /\ mem[a][i].buf # << >> => disk[a][i] = Absent
        /\ mem[a][i] # Absent /\ mem[a][i].cached
    BY <1>3 DEF ContentInv, AllSound, OneCopy, IsMarked
  <2>2. CASE UNCHANGED <<mem, disk>>
    BY <2>1, <2>2
  <2>3. CASE StorePiece
    BY <2>1, <2>3, StorePieceEffect
  <2>4. CASE StoreSpilled
    <3>1. a = ext.v /\ i = ext.j
      BY <2>1, <2>4, SpillEffect
    <3>2. /\ mem[a][i] \in MemEntry /\ disk[a][i] \in Row \cup {Absent} /\ ext.tid \in Tid
          /\ disk'[a][i] = SpilledRow(mem[a][i], disk[a][i], ext.tid)
      BY <2>1, <2>4, <3>1, SpillEffect
    <3>3. PICK e, r, s : e = mem[a][i] /\ r = disk[a][i] /\ s = disk'[a][i]
      OBVIOUS
    <3>4. /\ e \in MemEntry /\ r \in Row \cup {Absent} /\ s = SpilledRow(e, r, ext.tid)
          /\ e.cached /\ Sound(e, r, e.buf) /\ (e.buf # << >> => r = Absent)
      BY <2>1, <3>2, <3>3
    <3>5. s # Absent /\ s.completed = Done /\ s.data = e.buf
      BY <3>2, <3>4, SpillOfMarked
    <3> QED
      BY <3>3, <3>5
  <2>5. CASE \E r \in Caller : ReadMem(r)
    BY <2>1, <2>5, ReadMemEffect
  <2>6. ~Crash
    BY DEF Crash, Idle
  <2>7. /\ ~PurgeUnmarkedMem /\ ~PurgeUnmarkedDisk /\ ~AppendMem /\ ~MarkMem /\ ~MarkDisk
        /\ ~((\E w \in Archive : EvictFiles(w)) \/ EvictRows)
    BY DEF PurgeUnmarkedMem, PurgeUnmarkedDisk, AppendMem, MarkMem, MarkDisk, EvictFiles,
           EvictRows
  <2> QED
    BY <1>3, <2>1, <2>2, <2>3, <2>4, <2>5, <2>6, <2>7, OtherSteps
<1>4. ContentInv /\ OneCopy /\ [Next]_vars => [\A a \in Archive, i \in Item : Kept(a, i)]_vars
  BY <1>3
<1> HIDE DEF Kept
<1>5. Spec => [][\A a \in Archive, i \in Item : Kept(a, i)]_vars
  BY <1>1, <1>2, <1>4, ContentInvariant, PTL DEF Spec
<1> QED
  BY <1>5 DEF Kept, SpillKeepsContent

----------------------------------------------------------------------------
(* What an extraction leaves behind                                        *)

\* Nothing unfinished holds bytes.
TidyEntry(e) == e # Absent /\ ~e.cached => e.buf = << >>
Tidy(e, r) == TidyEntry(e) /\ (Processing(r) => r.size = 0)

\* An archive that is not being extracted: the extraction is of another one, has
\* not passed its first purge, or has passed its last.
AtRest(b) ==
    \/ b # ext.a \/ ext.pc \in {"idle", "cleanup"}
    \/ ext.pc \in PurgePC /\ ~ext.last

\* The memory of an archive is tidy after the first part of its last purge.
TidyInv ==
    /\ \A b \in Archive, k \in Item : AtRest(b) => Tidy(mem[b][k], disk[b][k])
    /\ ext.pc \in PurgePC \ {"purgeUnmarked"} /\ ext.last
          => \A k \in Item : TidyEntry(mem[ext.a][k])

\* A spill of what is tidy is tidy.
LEMMA SpillIsTidy ==
    ASSUME NEW e \in MemEntry, NEW r \in Row \cup {Absent}, NEW tid \in Tid,
           NEW s, s = SpilledRow(e, r, tid), Tidy(e, r)
    PROVE  Tidy(Absent, s)
<1> DEFINE t == StoredRow(r, tid, e.buf)
<1>1. e.buf \in Content /\ e.cached \in BOOLEAN /\ e # Absent
  BY AbsentAssumption DEF MemEntry
<1>2. /\ t \in Row
      /\ r = Absent => t.size = Len(e.buf)
      /\ r # Absent => t.completed = r.completed
      /\ r # Absent /\ r.completed = tid => t.size = r.size + Len(e.buf)
      /\ r # Absent /\ r.completed # tid => t = r
  BY <1>1, StoredRowFacts
<1>3. s = IF e.cached THEN MarkedRow(t) ELSE t
  BY DEF SpilledRow
<1> HIDE DEF t
<1>4. CASE e.cached
  BY <1>2, <1>3, <1>4, MarkedRowFacts DEF Tidy, TidyEntry, Processing
<1>5. CASE ~e.cached
  <2>1. e.buf = << >> /\ Len(e.buf) = 0
    BY <1>1, <1>5 DEF Tidy, TidyEntry
  <2>2. CASE r = Absent
    BY <1>2, <1>3, <1>5, <2>1, <2>2 DEF Tidy, TidyEntry
  <2>3. CASE r # Absent /\ r.completed = tid
    <3>1. Processing(r)
      BY <2>3, TidAssumption DEF Processing, Done
    <3>2. r.size = 0 /\ t.size = 0
      BY <1>2, <2>1, <2>3, <3>1 DEF Tidy
    <3> QED
      BY <1>3, <1>5, <3>2 DEF Tidy, TidyEntry
  <2>4. CASE r # Absent /\ r.completed # tid
    BY <1>2, <1>3, <1>5, <2>4 DEF Tidy, TidyEntry
  <2> QED
    BY <2>2, <2>3, <2>4
<1> QED
  BY <1>1, <1>4, <1>5

\* What is at rest stays tidy: a purge may spill it, a reader insert an entry
\* without content, and the user clear it.
LEMMA TidyStep ==
    ASSUME TypeInv, [Next]_vars, ~Crash, NEW b \in Archive, NEW k \in Item,
           AtRest(b), Tidy(mem[b][k], disk[b][k])
    PROVE  Tidy(mem'[b][k], disk'[b][k])
<1>1. CASE UNCHANGED <<mem, disk>>
  BY <1>1
<1>2. CASE PurgeUnmarkedMem
  BY <1>2, PurgeMemEffect DEF Tidy, TidyEntry
<1>3. CASE PurgeUnmarkedDisk
  BY <1>3, PurgeDiskEffect DEF Tidy, Processing
<1>4. CASE AppendMem
  <2>1. b # ext.a
    BY <1>4 DEF AppendMem, AtRest, PurgePC
  <2> QED
    BY <1>4, <2>1 DEF AppendMem, TypeInv, StoresOK, MemType
<1>5. CASE StorePiece
  <2>1. b # ext.a
    BY <1>5 DEF StorePiece, AtRest, PurgePC
  <2> QED
    BY <1>5, <2>1, StorePieceEffect
<1>6. CASE (\E w \in Archive : EvictFiles(w)) \/ EvictRows
  BY <1>6, EvictEffect DEF Tidy, IsFinished, Processing
<1>7. CASE StoreSpilled
  <2>1. CASE b = ext.v /\ k = ext.j
    <3>1. /\ mem'[b][k] = Absent /\ mem[b][k] \in MemEntry /\ ext.tid \in Tid
          /\ disk[b][k] \in Row \cup {Absent}
          /\ disk'[b][k] = SpilledRow(mem[b][k], disk[b][k], ext.tid)
      BY <1>7, <2>1, SpillEffect
    <3>2. PICK e, r, s : e = mem[b][k] /\ r = disk[b][k] /\ s = disk'[b][k]
      OBVIOUS
    <3>3. /\ e \in MemEntry /\ r \in Row \cup {Absent}
          /\ s = SpilledRow(e, r, ext.tid) /\ Tidy(e, r)
      BY <3>1, <3>2
    <3>4. Tidy(Absent, s)
      BY <3>1, <3>3, SpillIsTidy
    <3> QED
      BY <3>1, <3>2, <3>4
  <2>2. CASE ~(b = ext.v /\ k = ext.j)
    BY <1>7, <2>2, SpillEffect
  <2> QED
    BY <2>1, <2>2
<1>8. CASE MarkMem
  <2>1. b # ext.a
    BY <1>8 DEF MarkMem, AtRest, PurgePC
  <2> QED
    BY <1>8, <2>1 DEF MarkMem, TypeInv, StoresOK, MemType
<1>9. CASE MarkDisk
  <2>1. b # ext.a
    BY <1>9 DEF MarkDisk, AtRest, PurgePC
  <2> QED
    BY <1>9, <2>1, MarkDiskEffect
<1>10. CASE \E r \in Caller : ReadMem(r)
  BY <1>10, ReadMemEffect DEF Tidy, TidyEntry, NewEntry
<1>11. CASE ClearMem
  <2>1. mem'[b][k] = Absent /\ disk' = disk
    BY <1>11 DEF ClearMem, NoMem
  <2> QED
    BY <2>1 DEF Tidy, TidyEntry
<1>12. CASE ClearDisk
  <2>1. disk'[b][k] = Absent /\ mem' = mem
    BY <1>12 DEF ClearDisk, NoDisk
  <2> QED
    BY <2>1 DEF Tidy, Processing
<1> QED
  BY <1>1, <1>2, <1>3, <1>4, <1>5, <1>6, <1>7, <1>8, <1>9, <1>10, <1>11, <1>12, StoreSteps

\* An archive comes to rest by the last purge only.
LEMMA ComesToRest ==
    ASSUME TypeInv, [Next]_vars, ~Crash, NEW b \in Archive, AtRest(b)', ~AtRest(b)
    PROVE  PurgeUnmarkedDisk /\ ext.last /\ b = ext.a
<1>1. ext \in ExtState /\ b = ext.a /\ ext.pc \notin {"idle", "cleanup"}
  BY DEF TypeInv, AtRest
<1>2. ext.pc \in PurgePC => ext.last
  BY DEF AtRest
<1>3. NextPiece => ext'.pc = "write" /\ ext'.a = ext.a
  BY <1>1 DEF NextPiece, ExtState
<1>4. CASE UNCHANGED ext
  BY <1>4 DEF AtRest
<1>5. CASE GetStream \/ Write \/ ItemOK \/ AppendLookup \/ AppendMem \/ CallReduce
           \/ Result \/ MarkMem \/ MarkDisk \/ ItemError \/ Notify
           \/ SpillFirst \/ StoreSpilled \/ AppendDisk \/ EvictEnd
           \/ EvictRows \/ (\E w \in Archive : EvictFiles(w))
           \/ (\E v \in Archive : ReduceVictim(v))
  <2>1. ext'.a = ext.a /\ ext'.pc \notin PurgePC \cup {"idle", "cleanup"}
    BY <1>1, <1>5 DEF GetStream, Write, ItemOK, AppendLookup, AppendMem, CallReduce,
         Result, MarkMem, MarkDisk, ItemError, Notify, SpillFirst, StoreSpilled, AppendDisk,
         EvictEnd, EvictRows, EvictFiles, ReduceVictim, ExtState, PurgePC
  <2> QED
    BY <1>1, <2>1 DEF AtRest
<1>6. CASE Measure
  <2>1. ext'.a = ext.a /\ ext'.pc \in {"write", "callReduce"}
    BY <1>1, <1>3, <1>6 DEF Measure, ExtState
  <2> QED
    BY <1>1, <2>1 DEF AtRest, PurgePC
<1>7. CASE ReduceEnd \/ StorePiece
  BY <1>1, <1>3, <1>7 DEF ReduceEnd, StorePiece, AtRest, PurgePC
<1>8. CASE ExtractReturns \/ PurgeUnmarkedMem \/ PurgeUnreferencedMem
  <2>1. ext'.a = ext.a /\ ext'.pc \in PurgePC /\ ext'.last
    BY <1>1, <1>2, <1>8 DEF ExtractReturns, PurgeUnmarkedMem, PurgeUnreferencedMem,
         ExtState, PurgePC
  <2> QED
    BY <1>1, <2>1 DEF AtRest, PurgePC
<1>9. CASE PurgeUnmarkedDisk
  BY <1>1, <1>2, <1>9 DEF PurgeUnmarkedDisk, PurgePC
<1>10. CASE Cleanup \/ \E a \in Archive : ExtStart(a) \/ ExtNoItems(a)
  BY <1>1, <1>10 DEF Cleanup, ExtStart, ExtNoItems
<1> QED
  BY <1>4, <1>5, <1>6, <1>7, <1>8, <1>9, <1>10
     DEF Next, vars, stores, Extractor, CallerStep, ReduceSpin, ThreadExit, PeekMem,
         PeekDisk, GetFileCache, ReadMem, ReadDisk, Extract, WaitEnds, Returned, Request,
         ClearMem, ClearDisk

\* Between extractions no store holds bytes of an unfinished item, whatever was
\* evicted, cancelled, read or cleared, as long as the process does not die.
THEOREM NothingIsOrphaned ==
    ASSUME "crash" \notin Faults
    PROVE  Spec => []NoOrphans
<1>1. Init => TidyInv
  BY DEF Init, NoMem, NoDisk, Idle, TidyInv, Tidy, TidyEntry, Processing, PurgePC
<1>2. ASSUME TypeInv, TidyInv, [Next]_vars PROVE TidyInv'
  <2>1. ~Crash
    BY DEF Crash
  <2>2. ASSUME NEW b \in Archive, NEW k \in Item, AtRest(b)'
        PROVE  Tidy(mem'[b][k], disk'[b][k])
    <3>1. CASE AtRest(b)
      BY <1>2, <2>1, <3>1, TidyStep DEF TidyInv
    <3>2. CASE ~AtRest(b)
      <4>1. PurgeUnmarkedDisk /\ ext.last /\ b = ext.a
        BY <1>2, <2>1, <2>2, <3>2, ComesToRest
      <4>2. TidyEntry(mem[b][k])
        BY <1>2, <4>1 DEF TidyInv, PurgeUnmarkedDisk, PurgePC
      <4> QED
        BY <1>2, <4>1, <4>2, PurgeDiskEffect DEF Tidy
    <3> QED
      BY <3>1, <3>2
  <2>3. ASSUME ext'.pc \in PurgePC \ {"purgeUnmarked"}, ext'.last, NEW k \in Item
        PROVE  TidyEntry(mem'[ext'.a][k])
    <3>1. ext \in ExtState
      BY <1>2 DEF TypeInv
    <3>2. \/ PurgeUnmarkedMem /\ ext'.a = ext.a
          \/ PurgeUnreferencedMem /\ ext'.a = ext.a /\ ext.last
          \/ ext' = ext /\ ~PurgeUnmarkedMem
      <4>1. NextPiece => ext'.pc = "write"
        BY <3>1 DEF NextPiece, ExtState
      <4>2. CASE GetStream \/ Write \/ ItemOK \/ AppendLookup \/ AppendMem \/ CallReduce
                 \/ Result \/ MarkMem \/ MarkDisk \/ ItemError \/ Notify
                 \/ SpillFirst \/ StoreSpilled \/ AppendDisk \/ EvictEnd
                 \/ EvictRows \/ (\E w \in Archive : EvictFiles(w))
                 \/ ExtractReturns
        <5>1. ext'.pc \notin PurgePC \ {"purgeUnmarked"}
          BY <3>1, <4>2
             DEF GetStream, Write, ItemOK, AppendLookup, AppendMem, CallReduce, Result,
               MarkMem, MarkDisk, ItemError, Notify, SpillFirst, StoreSpilled, AppendDisk,
               EvictEnd, EvictRows, EvictFiles, ExtractReturns, ExtState, PurgePC
        <5> QED
          BY <2>3, <5>1
      <4>3. CASE Measure \/ ReduceEnd \/ StorePiece \/ (\E v \in Archive : ReduceVictim(v))
        <5>1. ext'.pc \in {"write", "callReduce", "spill", "reduce"}
          BY <3>1, <4>1, <4>3 DEF Measure, ReduceEnd, StorePiece, ReduceVictim, ExtState
        <5> QED
          BY <2>3, <5>1 DEF PurgePC
      <4>4. CASE Cleanup \/ \E a \in Archive : ExtStart(a) \/ ExtNoItems(a)
        <5>1. Cleanup => ext'.pc = "idle"
          BY DEF Cleanup, Idle
        <5>2. ASSUME NEW a \in Archive PROVE ExtNoItems(a) => ext'.pc = "cleanup"
          BY DEF ExtNoItems, Idle
        <5>3. ASSUME NEW a \in Archive, ExtStart(a) PROVE ext'.pc = "purgeUnmarked"
          BY <5>3 DEF ExtStart, Idle
        <5> QED
          BY <2>3, <4>4, <5>1, <5>2, <5>3 DEF PurgePC
      <4>5. CASE PurgeUnmarkedMem \/ PurgeUnreferencedMem \/ PurgeUnmarkedDisk
        BY <2>3, <3>1, <4>5
           DEF PurgeUnmarkedMem, PurgeUnreferencedMem, PurgeUnmarkedDisk, ExtState, PurgePC
      <4>6. CASE UNCHANGED ext
        BY <3>1, <4>6 DEF PurgeUnmarkedMem, ExtState
      <4> QED
        BY <1>2, <2>1, <4>2, <4>3, <4>4, <4>5, <4>6
           DEF Next, vars, stores, Extractor, CallerStep, ReduceSpin, ThreadExit, PeekMem,
             PeekDisk, GetFileCache, ReadMem, ReadDisk, Extract, WaitEnds, Returned, Request,
             ClearMem, ClearDisk
    <3>3. ext.a \in Archive
      BY <3>1 DEF ExtState
    <3>4. CASE PurgeUnmarkedMem /\ ext'.a = ext.a
      BY <1>2, <3>4, PurgeMemEffect DEF TidyEntry
    <3>5. CASE PurgeUnreferencedMem /\ ext'.a = ext.a /\ ext.last
      BY <1>2, <3>5 DEF PurgeUnreferencedMem, TidyInv, PurgePC
    <3>6. CASE ext' = ext /\ ~PurgeUnmarkedMem
      <4>1. TidyEntry(mem[ext.a][k])
        BY <1>2, <2>3, <3>6 DEF TidyInv
      <4>2. CASE \E r \in Caller : ReadMem(r)
        BY <1>2, <3>3, <3>6, <4>1, <4>2, ReadMemEffect DEF TidyEntry, NewEntry
      <4>3. CASE ClearMem
        BY <3>3, <3>6, <4>3 DEF ClearMem, NoMem, TidyEntry
      <4>4. CASE UNCHANGED mem
        BY <3>6, <4>1, <4>4
      <4> QED
        BY <1>2, <2>1, <2>3, <3>6, <4>2, <4>3, <4>4, StoreSteps
           DEF ClearDisk, PurgeUnmarkedDisk, AppendMem, StorePiece, EvictFiles, EvictRows,
             StoreSpilled, MarkMem, MarkDisk, PurgePC
    <3> QED
      BY <3>2, <3>4, <3>5, <3>6
  <2> QED
    BY <2>2, <2>3 DEF TidyInv
<1>3. TidyInv => NoOrphans
  BY DEF TidyInv, AtRest, Tidy, TidyEntry, Processing, NoOrphans, Exists, IsProcessing
<1>4. TypeInv /\ [Next]_vars => TypeInv'
  BY TypeInvStep
<1> QED
  BY <1>1, <1>2, <1>3, <1>4, TypeInvInit, PTL DEF Spec

----------------------------------------------------------------------------
(* Where memory has room for everything                                    *)

\* All pieces of all items fit into memory.
Weights == [k \in Keys |-> Pieces[k[1]][k[2]]]
EverythingFits ==
    IsFiniteSet(Archive) /\ MaxMemory > 0 /\ Total(Keys, Weights) <= InBytes(MaxMemory)

\* Nothing goes to disk, no entry is longer than its item, and what is marked is
\* whole.
DiskEmpty == \A a \in Archive, i \in Item : disk[a][i] = Absent
NotSpilled ==
    DiskEmpty /\ ext.pc \notin {"callReduce", "appendDisk", "markDisk"} \cup LockedPC
ShortEntries ==
    \A a \in Archive, i \in Item :
        mem[a][i] # Absent => Len(mem[a][i].buf) <= Pieces[a][i]
MarkedFull ==
    \A a \in Archive, i \in Item : IsMarked(mem[a][i]) => mem[a][i].buf = Full(a, i)
WholeInv == ContentInv /\ NotSpilled /\ ShortEntries /\ MarkedFull

\* Then memory is never over its limit.
LEMMA NeverOver ==
    ASSUME EverythingFits, TypeInv, ShortEntries
    PROVE  ~OverLimit(mem)
<1>1. IsFiniteSet(Keys) /\ MemSize(mem) = Total(Keys, Lens(mem)) /\ MemSize(mem) \in Nat
  BY KeysFinite, MemSizeIs DEF EverythingFits, TypeInv, StoresOK
<1>2. \A k \in Keys : Lens(mem)[k] \in Nat /\ Weights[k] \in Nat
  BY LensType, PiecesAssumption DEF TypeInv, StoresOK, Keys, Weights
<1>3. \A k \in Keys : Lens(mem)[k] <= Weights[k]
  <2> SUFFICES ASSUME NEW a \in Archive, NEW i \in Item
               PROVE  Lens(mem)[<<a, i>>] <= Weights[<<a, i>>]
    BY DEF Keys
  <2>1. Lens(mem)[<<a, i>>] = EntryLen(mem[a][i]) /\ Weights[<<a, i>>] = Pieces[a][i]
    BY DEF Lens, Weights, Keys
  <2>2. Pieces[a][i] \in Nat
    BY PiecesAssumption
  <2> QED
    BY <2>1, <2>2 DEF ShortEntries, EntryLen
<1>4. Total(Keys, Lens(mem)) <= Total(Keys, Weights) /\ Total(Keys, Weights) \in Nat
  BY <1>1, <1>2, <1>3, TotalMonotone, TotalIs
<1> QED
  BY <1>1, <1>4, LimitType, LimitAssumption DEF EverythingFits, OverLimit

\* What a step of an extraction without evictions does to one entry.
LEMMA WholeStep ==
    ASSUME WholeInv, [Next]_vars, EverythingFits, "clear" \notin Faults,
           NEW a \in Archive, NEW i \in Item
    PROVE  /\ disk'[a][i] = Absent
           /\ \/ mem'[a][i] = mem[a][i]
              \/ mem'[a][i] = Absent /\ (Crash \/ ~IsMarked(mem[a][i]))
              \/ mem[a][i] = Absent /\ mem'[a][i] = NewEntry
              \/ /\ ~IsMarked(mem[a][i]) /\ mem'[a][i] # Absent
                 /\ ~mem'[a][i].cached /\ Len(mem'[a][i].buf) <= Pieces[a][i]
              \/ /\ MarkMem /\ a = ext.a /\ i = ext.i
                 /\ mem[a][i] # Absent
                 /\ mem'[a][i] # Absent /\ mem'[a][i].buf = Full(a, i)
<1>1. /\ TypeInv /\ ~clearing /\ WorkOK
      /\ ext.pc \notin {"callReduce", "appendDisk", "markDisk"} \cup LockedPC
      /\ \A b \in Archive, k \in Item : disk[b][k] = Absent
      /\ MarkedFull
  BY DEF WholeInv, ContentInv, NotSpilled, DiskEmpty
<1>2. CASE UNCHANGED <<mem, disk>>
  BY <1>1, <1>2
<1>3. CASE PurgeUnmarkedMem
  <2>1. disk' = disk /\ mem'[a][i] \in {mem[a][i], Absent}
    BY <1>1, <1>3, PurgeMemEffect
  <2>2. ext.a \in Archive
    BY <1>1 DEF TypeInv, ExtState
  <2>3. IsMarked(mem[a][i]) => mem'[a][i] = mem[a][i]
    BY <1>1, <1>3, <2>2 DEF PurgeUnmarkedMem, MemPurged, MemCached, Exists, IsMarked,
       TypeInv, StoresOK, MemType
  <2> QED
    BY <1>1, <2>1, <2>3
<1>4. CASE PurgeUnmarkedDisk
  BY <1>1, <1>4, PurgeDiskEffect
<1>5. CASE AppendMem
  <2>1. /\ ext.a \in table /\ ~IsMarked(mem[ext.a][ext.i])
        /\ Holds(mem[ext.a][ext.i], disk[ext.a][ext.i], ext.c - 1, ext.tid)
        /\ ext.c \in 1..Pieces[ext.a][ext.i]
    BY <1>1, <1>5 DEF AppendMem, WorkOK, BeforePC, AfterPC, Count, LockedPC
  <2>2. CASE a = ext.a /\ i = ext.i
    <3>1. Pieces[a][i] \in Nat /\ ext.c \in Nat /\ ext.c - 1 \in Nat /\ ext.c - 1 + 1 = ext.c
      BY <2>1, <2>2, PiecesAssumption
    <3>2. InMemory(mem[a][i], disk[a][i], ext.c - 1)
      BY <1>1, <2>1, <2>2 DEF Holds, OnDisk
    <3>3. mem'[a][i] # Absent /\ ~mem'[a][i].cached /\ mem'[a][i].buf = Prefix(ext.c)
      <4>1. CASE mem[a][i] = Absent
        <5>1. ext.c - 1 = 0
          BY <3>2, <4>1 DEF InMemory
        <5>2. Append(<< >>, ext.c) = Prefix(ext.c)
          BY <3>1, <5>1, PrefixFacts
        <5> QED
          BY <1>1, <1>5, <2>1, <2>2, <4>1, <5>2, AppendMemEffect, AbsentAssumption
      <4>2. CASE mem[a][i] # Absent
        <5>1. mem[a][i].buf = Prefix(ext.c - 1)
          BY <3>2, <4>2 DEF InMemory
        <5>2. Append(Prefix(ext.c - 1), ext.c) = Prefix(ext.c)
          BY <3>1, PrefixFacts
        <5>3. mem'[a][i].cached = mem[a][i].cached
          BY <1>1, <1>5, <2>1, <2>2, <4>2, AppendMemEffect
        <5> QED
          BY <1>1, <1>5, <2>1, <2>2, <4>2, <5>1, <5>2, <5>3, AppendMemEffect,
             AbsentAssumption DEF IsMarked
      <4> QED
        BY <4>1, <4>2
    <3>4. Len(Prefix(ext.c)) = ext.c
      BY <3>1, PrefixFacts
    <3>5. disk'[a][i] = Absent
      BY <1>1, <1>5, <2>1, AppendMemEffect
    <3>6. ~IsMarked(mem[a][i]) /\ Len(mem'[a][i].buf) <= Pieces[a][i]
      BY <2>1, <2>2, <3>1, <3>3, <3>4
    <3> QED
      BY <3>3, <3>5, <3>6
  <2>3. CASE a # ext.a \/ i # ext.i
    BY <1>1, <1>5, <2>1, <2>3, AppendMemEffect
  <2> QED
    BY <2>2, <2>3
<1>6. CASE (\E w \in Archive : EvictFiles(w)) \/ EvictRows \/ StorePiece \/ StoreSpilled
           \/ MarkDisk
  BY <1>1, <1>6 DEF EvictFiles, EvictRows, StorePiece, StoreSpilled, MarkDisk, LockedPC
<1>7. CASE MarkMem
  <2>1. /\ mem[ext.a][ext.i] # Absent
        /\ \/ IsMarked(mem[ext.a][ext.i]) \/ IsFinished(disk[ext.a][ext.i])
           \/ Holds(mem[ext.a][ext.i], disk[ext.a][ext.i], Count, ext.tid)
        /\ Count = ext.c - 1 /\ ext.c = Pieces[ext.a][ext.i] + 1
    BY <1>1, <1>7 DEF MarkMem, WorkOK, SkipPC, AfterPC, Count, LockedPC
  <2>2. CASE a = ext.a /\ i = ext.i
    <3>1. Pieces[a][i] \in Nat
      BY PiecesAssumption
    <3>2. Count = Pieces[a][i]
      BY <2>1, <2>2, <3>1
    <3>3. mem[a][i].buf = Full(a, i)
      BY <1>1, <2>1, <2>2, <3>2 DEF MarkedFull, IsFinished, Holds, InMemory, OnDisk, Full
    <3> QED
      BY <1>1, <1>7, <2>1, <2>2, <3>3, MarkMemEffect
  <2>3. CASE a # ext.a \/ i # ext.i
    BY <1>1, <1>7, <2>1, <2>3, MarkMemEffect
  <2> QED
    BY <2>2, <2>3
<1>8. CASE \E r \in Caller : ReadMem(r)
  BY <1>1, <1>8, ReadMemEffect
<1>9. CASE Crash
  BY <1>1, <1>9, CrashEffect
<1> QED
  BY <1>1, <1>2, <1>3, <1>4, <1>5, <1>6, <1>7, <1>8, <1>9, OtherSteps

\* The extractor stays away from the disk.
LEMMA StaysInMemory ==
    ASSUME WholeInv, [Next]_vars, EverythingFits, "clear" \notin Faults
    PROVE  ext'.pc \notin {"callReduce", "appendDisk", "markDisk"} \cup LockedPC
<1>1. /\ TypeInv /\ ShortEntries /\ ext \in ExtState
      /\ ext.pc \notin {"callReduce", "appendDisk", "markDisk"} \cup LockedPC
      /\ \A b \in Archive, k \in Item : disk[b][k] = Absent
      /\ ext.a \in Archive
      /\ ext.pc \in ItemPC => ext.i \in Item
  BY DEF WholeInv, ContentInv, NotSpilled, DiskEmpty, TypeInv, ExtState, ExtOK
<1> USE DEF LockedPC
<1>2. CASE Measure
  BY <1>1, <1>2, NeverOver DEF Measure, NextPiece, ExtState
<1>3. CASE Write
  <2>1. ext.i \in Item
    BY <1>1, <1>3 DEF Write, ItemPC
  <2>2. ~GoesToDisk(disk, ext.a, ext.i)
    BY <1>1, <2>1, LimitAssumption DEF GoesToDisk, Exists, EverythingFits
  <2> QED
    BY <1>1, <1>3, <2>2 DEF Write, ExtState
<1>4. CASE Result
  <2>1. ext.i \in Item
    BY <1>1, <1>4 DEF Result, ItemPC
  <2>2. ~Exists(disk, ext.a, ext.i)
    BY <1>1, <2>1 DEF Exists
  <2> QED
    BY <1>1, <1>4, <2>2 DEF Result, ExtState
<1>5. CASE ext' = ext
  BY <1>1, <1>5
<1>6. CASE \E a \in Archive : ExtStart(a) \/ ExtNoItems(a)
  BY <1>6 DEF ExtStart, ExtNoItems, Idle
<1>7. CASE PurgeUnmarkedMem \/ PurgeUnreferencedMem \/ PurgeUnmarkedDisk \/ GetStream
           \/ ExtractReturns \/ ItemError \/ ItemOK \/ AppendLookup \/ AppendMem
           \/ MarkMem \/ Notify
  <2>1. CASE PurgeUnmarkedMem \/ PurgeUnreferencedMem
    BY <1>1, <2>1 DEF PurgeUnmarkedMem, PurgeUnreferencedMem, ExtState
  <2>2. CASE PurgeUnmarkedDisk
    <3>1. ext'.pc \in {"cleanup", "stream"}
      BY <1>1, <2>2 DEF PurgeUnmarkedDisk, ExtState
    <3> QED
      BY <3>1
  <2>3. CASE GetStream \/ ExtractReturns \/ ItemError
    BY <1>1, <2>3 DEF GetStream, ExtractReturns, ItemError, ExtState
  <2>4. CASE ItemOK \/ AppendLookup
    BY <1>1, <2>4 DEF ItemOK, AppendLookup, ExtState
  <2>5. CASE AppendMem
    BY <1>1, <2>5 DEF AppendMem, ExtState
  <2>6. CASE MarkMem
    BY <1>1, <2>6 DEF MarkMem, ExtState
  <2>7. CASE Notify
    BY <1>1, <2>7 DEF Notify, ExtState
  <2> QED
    BY <1>7, <2>1, <2>2, <2>3, <2>4, <2>5, <2>6, <2>7
<1>8. CASE Cleanup \/ Crash
  BY <1>8 DEF Cleanup, Crash, Idle
<1>9. CASE CallReduce \/ (\E v \in Archive : ReduceVictim(v)) \/ ReduceSpin \/ ReduceEnd
           \/ SpillFirst \/ StoreSpilled \/ AppendDisk \/ (\E w \in Archive : EvictFiles(w))
           \/ EvictRows \/ EvictEnd \/ StorePiece \/ MarkDisk
  BY <1>1, <1>9 DEF CallReduce, ReduceVictim, ReduceSpin, ReduceEnd, SpillFirst, StoreSpilled,
     AppendDisk, EvictFiles, EvictRows, EvictEnd, StorePiece, MarkDisk
<1>10. CASE (\E a \in Archive : ThreadExit(a)) \/ (\E r \in Caller : CallerStep(r))
            \/ (\E r \in Caller, a \in Archive, i \in Item : Request(r, a, i))
            \/ ClearMem \/ ClearDisk \/ UNCHANGED vars
  <2>1. ext' = ext
    BY <1>10 DEF ThreadExit, CallerStep, Request, ClearMem, ClearDisk, vars, PeekMem, PeekDisk,
       GetFileCache, ReadMem, ReadDisk, Extract, WaitEnds, Returned
  <2> QED
    BY <1>5, <2>1
<1> QED
  BY <1>2, <1>3, <1>4, <1>6, <1>7, <1>8, <1>9, <1>10 DEF Next, Extractor

\* The invariant is kept, by any number of callers and by crashes.
LEMMA WholeInvStep ==
    ASSUME WholeInv, [Next]_vars, EverythingFits, "clear" \notin Faults
    PROVE  WholeInv'
<1>1. ContentInv'
  BY ContentInvStep DEF WholeInv
<1>2. NotSpilled'
  BY WholeStep, StaysInMemory DEF NotSpilled, DiskEmpty
<1>3. ShortEntries'
  <2> SUFFICES ASSUME NEW a \in Archive, NEW i \in Item, mem'[a][i] # Absent
               PROVE  Len(mem'[a][i].buf) <= Pieces[a][i]
    BY DEF ShortEntries
  <2>1. mem[a][i] # Absent => Len(mem[a][i].buf) <= Pieces[a][i]
    BY DEF WholeInv, ShortEntries
  <2>2. /\ Pieces[a][i] \in Nat
        /\ Len(Full(a, i)) = Pieces[a][i]
        /\ Len(NewEntry.buf) = 0
    BY PiecesAssumption, PrefixFacts DEF Full, NewEntry
  <2>3. Len(Full(a, i)) <= Pieces[a][i] /\ Len(NewEntry.buf) <= Pieces[a][i]
    BY <2>2
  <2> QED
    BY <2>1, <2>3, WholeStep
<1>4. MarkedFull'
  <2> SUFFICES ASSUME NEW a \in Archive, NEW i \in Item, IsMarked(mem'[a][i])
               PROVE  mem'[a][i].buf = Full(a, i)
    BY DEF MarkedFull
  <2>1. IsMarked(mem[a][i]) => mem[a][i].buf = Full(a, i)
    BY DEF WholeInv, MarkedFull
  <2> QED
    BY <2>1, WholeStep DEF IsMarked, NewEntry
<1> QED
  BY <1>1, <1>2, <1>3, <1>4 DEF WholeInv

\* The empty cache satisfies it.
LEMMA WholeInvInit ==
    ASSUME Init
    PROVE  WholeInv
  BY ContentInvInit DEF WholeInv, NotSpilled, DiskEmpty, ShortEntries, MarkedFull, IsMarked,
     Init, NoMem, NoDisk, Idle, LockedPC

\* Where memory has room for everything, what is marked complete is complete,
\* whatever extractions are cancelled or fail, readers do and crashes cut short.
THEOREM MarkedIsComplete ==
    ASSUME EverythingFits, "clear" \notin Faults
    PROVE  Spec => []MarkedComplete
<1>1. Init => WholeInv
  BY WholeInvInit
<1>2. WholeInv /\ [Next]_vars => WholeInv'
  BY WholeInvStep
<1>3. WholeInv => MarkedComplete
  BY DEF WholeInv, NotSpilled, DiskEmpty, MarkedFull, MarkedComplete, MarkedContent, MemCached,
     DiskCached, Exists, IsMarked
<1> QED
  BY <1>1, <1>2, <1>3, PTL DEF Spec

\* The thread of the archive being extracted, and no other, is running.
ThreadRuns ==
    \A a \in Archive : thread[a] = "running" <=> ext.pc # "idle" /\ ext.a = a

\* What a call c knows of its item at each place, m being whether the item is
\* marked, p whether it is past.
KnowsAt(c, m, p) ==
    /\ c.pc \in {"getFileCache", "readMem"} => m
    /\ c.pc = "peekMem" /\ c.at = "content" => m
    /\ c.pc = "peekDisk" => c.at # "content"
    /\ c.pc = "wait" /\ c.signaled => m \/ p
    /\ c.pc = "peekMem" /\ c.at = "again" => m \/ p
    /\ c.pc = "peekDisk" /\ c.at \in {"again", "last"} => ~m /\ p
    /\ c.pc = "peekMem" /\ c.at = "last" =>
          (m /\ c.got = Full(c.a, c.i)) \/ (~m /\ p)
    /\ c.pc = "done" =>
          \/ c.res = "ok" /\ m /\ c.got = Full(c.a, c.i)
          \/ c.res = "error" /\ ~m /\ p
    /\ c.pc # "readDisk" /\ (c.signaled => c.pc = "wait")
Knows(r) ==
    LET c == call[r] IN
    c.pc # "idle" => KnowsAt(c, IsMarked(mem[c.a][c.i]), Past(c.a, c.i))

DeliverInv == WholeInv /\ ThreadRuns /\ \A r \in Caller : Knows(r)

\* A step of the extractor that begins and ends inside its program.
Inside ==
    /\ UNCHANGED thread
    /\ ext'.a = ext.a /\ ext.pc # "idle" /\ ext'.pc # "idle"
    /\ \A i \in Item : Beyond(ext, i) => Beyond(ext', i)

\* Inside it nothing that is past comes up again.
LEMMA StaysInside ==
    ASSUME TypeInv, [Next]_vars,
           \/ PurgeUnmarkedMem \/ PurgeUnreferencedMem \/ PurgeUnmarkedDisk
           \/ GetStream \/ ExtractReturns \/ ItemError \/ Write \/ ItemOK
           \/ AppendLookup \/ AppendMem \/ Measure
           \/ CallReduce \/ (\E v \in Archive : ReduceVictim(v)) \/ ReduceSpin \/ ReduceEnd
           \/ SpillFirst \/ StoreSpilled
           \/ AppendDisk \/ (\E w \in Archive : EvictFiles(w)) \/ EvictRows \/ EvictEnd
           \/ StorePiece
           \/ Result \/ MarkMem \/ MarkDisk \/ Notify
    PROVE  Inside
<1>1. ext \in ExtState /\ ext.i \in Nat
  BY DEF TypeInv, ExtState, Position
<1>2. CASE PurgeUnmarkedMem \/ PurgeUnreferencedMem \/ PurgeUnmarkedDisk \/ ExtractReturns
  <2>1. /\ thread' = thread /\ ext'.a = ext.a
        /\ ext.pc \in PurgePC \cup {"stream"}
        /\ \/ ext'.pc \in PurgePC \cup {"cleanup"} /\ (ext.pc = "stream" => ext'.last)
              /\ (ext.last => ext'.last)
           \/ ext.pc = "purgeDisk" /\ ~ext.last /\ ext'.pc = "stream"
    BY <1>1, <1>2 DEF PurgeUnmarkedMem, PurgeUnreferencedMem, PurgeUnmarkedDisk,
       ExtractReturns, ExtState, PurgePC
  <2> QED
    BY <2>1 DEF Inside, Beyond, PurgePC, ItemPC, LockedPC
<1>3. CASE ~(PurgeUnmarkedMem \/ PurgeUnreferencedMem \/ PurgeUnmarkedDisk \/ ExtractReturns)
  <2>1. thread' = thread /\ ext'.pc \in ItemPC \cup {"stream"}
    <3>1. CASE GetStream \/ ItemError \/ Write \/ ItemOK \/ AppendLookup \/ AppendMem \/ Measure
               \/ CallReduce \/ (\E v \in Archive : ReduceVictim(v)) \/ ReduceSpin
      BY <1>1, <3>1 DEF GetStream, ItemError, Write, ItemOK, AppendLookup, AppendMem, Measure,
         CallReduce, ReduceVictim, ReduceSpin, NextPiece, ExtState, vars, ItemPC, LockedPC
    <3>2. CASE ReduceEnd \/ SpillFirst \/ StoreSpilled \/ AppendDisk
               \/ (\E w \in Archive : EvictFiles(w)) \/ EvictRows \/ EvictEnd \/ StorePiece
               \/ Result \/ MarkMem \/ MarkDisk \/ Notify
      BY <1>1, <3>2 DEF ReduceEnd, SpillFirst, StoreSpilled, AppendDisk, EvictFiles, EvictRows,
         EvictEnd, StorePiece, Result, MarkMem, MarkDisk, Notify, NextPiece, ExtState, ItemPC,
         LockedPC
    <3> QED
      BY <1>3, <3>1, <3>2
  <2>2. /\ ext.pc \in ItemPC \cup {"stream"} /\ ext'.a = ext.a
        /\ ext'.i = ext.i \/ ext'.i = ext.i + 1
    BY <1>3, <2>1, Progress
  <2>3. \A i \in Item : ext.i > i => ext'.i > i
    BY <1>1, <2>2 DEF Item
  <2> QED
    BY <2>1, <2>2, <2>3 DEF Inside, Beyond, PurgePC, ItemPC, LockedPC
<1> QED
  BY <1>2, <1>3

\* What the steps do to the threads and to the place of the extractor.
LEMMA ThreadMoves ==
    ASSUME TypeInv, [Next]_vars
    PROVE  \/ UNCHANGED <<thread, ext>>
           \/ Inside
           \/ \E a \in Archive : ExtStart(a) \/ ExtNoItems(a) \/ ThreadExit(a)
           \/ \E r \in Caller : Extract(r)
           \/ Cleanup \/ Crash
<1>1. CASE Extractor
  BY <1>1, StaysInside DEF Extractor
<1>2. CASE ~Extractor
  BY <1>2 DEF Next, CallerStep, Request, ClearMem, ClearDisk, vars, PeekMem,
     PeekDisk, GetFileCache, ReadMem, ReadDisk, WaitEnds, Returned
<1> QED
  BY <1>1, <1>2

\* Each of those that change a thread changes one.
LEMMA ThreadSteps ==
    ASSUME TypeInv
    PROVE  /\ ext.a \in Archive /\ ThreadOK /\ CallOK
           /\ \A a \in Archive : ExtStart(a) \/ ExtNoItems(a) =>
                 /\ ext.pc = "idle" /\ thread[a] = "ready"
                 /\ thread' = [thread EXCEPT ![a] = "running"]
                 /\ ext'.pc # "idle" /\ ext'.a = a
           /\ \A a \in Archive : ThreadExit(a) =>
                 /\ thread[a] = "exiting" /\ ext' = ext
                 /\ thread' = [thread EXCEPT ![a] = "none"]
           /\ \A r \in Caller : Extract(r) =>
                 /\ ext' = ext
                 /\ \/ thread' = thread
                    \/ /\ call[r].a \in Archive
                       /\ thread' = [thread EXCEPT ![call[r].a] =
                                        IF @ = "none" THEN "ready" ELSE @]
           /\ Cleanup => /\ ext.pc = "cleanup" /\ ext'.pc = "idle"
                         /\ thread' = [thread EXCEPT ![ext.a] = "exiting"]
<1>1. ext.a \in Archive /\ ThreadOK /\ CallOK
  BY DEF TypeInv, ExtState
<1>2. ASSUME NEW a \in Archive, ExtStart(a) \/ ExtNoItems(a)
      PROVE  /\ ext.pc = "idle" /\ thread[a] = "ready"
             /\ thread' = [thread EXCEPT ![a] = "running"]
             /\ ext'.pc # "idle" /\ ext'.a = a
  BY <1>2 DEF ExtStart, ExtNoItems, Idle
<1>3. ASSUME NEW a \in Archive, ThreadExit(a)
      PROVE  /\ thread[a] = "exiting" /\ ext' = ext
             /\ thread' = [thread EXCEPT ![a] = "none"]
  BY <1>3 DEF ThreadExit
<1>4. ASSUME NEW r \in Caller, Extract(r)
      PROVE  /\ ext' = ext
             /\ \/ thread' = thread
                \/ /\ call[r].a \in Archive
                   /\ thread' = [thread EXCEPT ![call[r].a] =
                                    IF @ = "none" THEN "ready" ELSE @]
  BY <1>1, <1>4 DEF Extract, CallOK, CallState
<1>5. ASSUME Cleanup
      PROVE  /\ ext.pc = "cleanup" /\ ext'.pc = "idle"
             /\ thread' = [thread EXCEPT ![ext.a] = "exiting"]
  BY <1>5 DEF Cleanup, Idle
<1> QED
  BY <1>1, <1>2, <1>3, <1>4, <1>5

\* Threads begin and end with the extractor's program.
LEMMA ThreadRunsStep ==
    ASSUME TypeInv, ThreadRuns, [Next]_vars
    PROVE  ThreadRuns'
<1> USE ThreadSteps DEF ThreadRuns, ThreadOK
<1>1. CASE UNCHANGED <<thread, ext>> \/ Inside
  BY <1>1 DEF Inside
<1>2. CASE \E a \in Archive : ExtStart(a) \/ ExtNoItems(a)
  BY <1>2
<1>3. CASE \E a \in Archive : ThreadExit(a)
  BY <1>3
<1>4. CASE \E r \in Caller : Extract(r)
  BY <1>4
<1>5. CASE Cleanup
  BY <1>5
<1>6. CASE Crash
  BY <1>6 DEF Crash, Idle
<1> QED
  BY <1>1, <1>2, <1>3, <1>4, <1>5, <1>6, ThreadMoves

\* A marked item stays marked.
LEMMA MarkStays ==
    ASSUME WholeInv, [Next]_vars, EverythingFits, "clear" \notin Faults, ~Crash,
           NEW a \in Archive, NEW i \in Item, IsMarked(mem[a][i])
    PROVE  IsMarked(mem'[a][i])
<1>1. CASE MarkMem /\ a = ext.a /\ i = ext.i
  <2>1. TypeInv /\ mem[ext.a][ext.i] # Absent
    BY <1>1 DEF IsMarked, WholeInv, ContentInv
  <2> QED
    BY <1>1, <2>1, MarkMemEffect DEF IsMarked
<1>2. CASE ~(MarkMem /\ a = ext.a /\ i = ext.i)
  <2>1. mem[a][i] # Absent
    BY DEF IsMarked
  <2> QED
    BY <1>2, <2>1, WholeStep
<1> QED
  BY <1>1, <1>2

\* Only the extraction of the item marks it.
LEMMA OnlyItsExtraction ==
    ASSUME WholeInv, ThreadRuns, [Next]_vars, EverythingFits, "clear" \notin Faults,
           NEW a \in Archive, NEW i \in Item, Past(a, i), ~IsMarked(mem[a][i])
    PROVE  ~IsMarked(mem'[a][i])
<1>1. ~(MarkMem /\ a = ext.a /\ i = ext.i)
  BY DEF MarkMem, ThreadRuns, Past, Beyond, PurgePC, Item
<1> QED
  BY <1>1, WholeStep DEF IsMarked, NewEntry

\* What is past stays past, unless somebody asks for the archive again.
LEMMA PastStays ==
    ASSUME TypeInv, ThreadRuns, [Next]_vars, ~Crash, ~(\E r \in Caller : Extract(r)),
           NEW a \in Archive, NEW i \in Item, Past(a, i)
    PROVE  Past(a, i)'
<1> USE ThreadSteps DEF ThreadRuns, ThreadOK, Past
<1>1. CASE UNCHANGED <<thread, ext>> \/ Inside
  BY <1>1 DEF Inside, Beyond
<1>2. CASE \E b \in Archive : ExtStart(b) \/ ExtNoItems(b)
  BY <1>2
<1>3. CASE \E b \in Archive : ThreadExit(b)
  BY <1>3
<1>4. CASE Cleanup
  BY <1>4
<1> QED
  BY <1>1, <1>2, <1>3, <1>4, ThreadMoves

\* What a call knows does not change as long as the call does not go on.
LEMMA KnowsStays ==
    ASSUME DeliverInv, [Next]_vars, EverythingFits, "clear" \notin Faults, ~Crash,
           NEW r \in Caller, call[r].pc # "idle", ~(\E s \in Caller : Extract(s)),
           call'[r] = call[r]
    PROVE  Knows(r)'
<1>0. PICK c, a, i : c = call[r] /\ a = c.a /\ i = c.i
  OBVIOUS
<1> DEFINE d == call'[r]
           m == IsMarked(mem[a][i])
           p == Past(a, i)
<1>1. /\ c = call[r] /\ a = c.a /\ i = c.i
      /\ WholeInv /\ ThreadRuns /\ TypeInv /\ a \in Archive /\ i \in Item
      /\ KnowsAt(c, m, p)
  BY <1>0 DEF DeliverInv, Knows, WholeInv, ContentInv, TypeInv, CallOK, CallState
<1>2. /\ IsMarked(mem[a][i]) => IsMarked(mem'[a][i])
      /\ Past(a, i) /\ ~IsMarked(mem[a][i]) => ~IsMarked(mem'[a][i])
      /\ Past(a, i) => Past(a, i)'
  BY <1>1, MarkStays, OnlyItsExtraction, PastStays
<1>3. d = c /\ d.a = a /\ d.i = i
  BY <1>1
<1>4. KnowsAt(d, m', p')
  BY <1>1, <1>2, <1>3 DEF KnowsAt
<1> QED
  BY <1>1, <1>3, <1>4 DEF Knows

\* A signal comes when the extraction has marked the item, or passed it.
LEMMA KnowsSignal ==
    ASSUME DeliverInv, [Next]_vars, EverythingFits, "clear" \notin Faults,
           Notify \/ Cleanup, NEW r \in Caller, call[r].pc # "idle"
    PROVE  Knows(r)'
<1>0. PICK c, a, i : c = call[r] /\ a = c.a /\ i = c.i
  OBVIOUS
<1> DEFINE d == call'[r]
           m == IsMarked(mem[a][i])
           p == Past(a, i)
<1>1. /\ c = call[r] /\ a = c.a /\ i = c.i
      /\ WholeInv /\ ThreadRuns /\ TypeInv /\ a \in Archive /\ i \in Item /\ c \in CallState
      /\ KnowsAt(c, m, p)
      /\ ext \in ExtState /\ ext.a \in Archive /\ ThreadOK
      /\ ext.pc = "notify" => ext.i \in Item
  BY <1>0 DEF DeliverInv, Knows, WholeInv, ContentInv, TypeInv, CallOK, CallState,
     ExtState, ExtOK, ItemPC
<1>2. /\ ~Crash /\ ~(\E s \in Caller : Extract(s)) /\ mem' = mem
  <2>1. ext.pc \in {"notify", "cleanup"} /\ ext'.pc \in {"stream", "idle"} /\ mem' = mem
    <3>1. CASE Notify
      BY <1>1, <3>1 DEF Notify, stores, ExtState
    <3>2. CASE Cleanup
      BY <3>2 DEF Cleanup, stores, Idle
    <3> QED
      BY <3>1, <3>2
  <2>2. ASSUME Crash PROVE FALSE
    <3>1. d = NoCall /\ d.pc = "idle"
      BY <2>2 DEF Crash, NoCall
    <3>2. d.pc = c.pc
      BY <1>1 DEF Notify, Cleanup, Signal, CallState
    <3> QED
      BY <1>1, <3>1, <3>2
  <2> QED
    BY <2>1, <2>2 DEF Extract
<1>3. CASE d = c
  BY <1>1, <1>2, <1>3, KnowsStays
<1>4. CASE d # c
  <2>1. /\ c.pc = "wait" /\ d = [c EXCEPT !.signaled = TRUE]
        /\ a = ext.a /\ (Notify => i = ext.i)
    BY <1>1, <1>4 DEF Notify, Cleanup, Signal
  <2>2. d.pc = "wait" /\ d.a = a /\ d.i = i
    BY <1>1, <2>1 DEF CallState
  <2>3. Past(a, i)'
    <3>1. CASE Notify
      <4>1. ext.pc = "notify" /\ thread[a] = "running" /\ thread' = thread
        BY <1>1, <2>1, <3>1 DEF Notify, ThreadRuns
      <4>2. ext'.pc = "stream" /\ ext'.i = ext.i + 1
        BY <1>1, <3>1 DEF Notify, ExtState
      <4>3. ext'.i > i
        BY <1>1, <2>1, <3>1, <4>1, <4>2 DEF Item
      <4> QED
        BY <4>1, <4>2, <4>3 DEF Past, Beyond
    <3>2. CASE Cleanup
      BY <1>1, <2>1, <3>2 DEF Cleanup, Past, ThreadOK
    <3> QED
      BY <3>1, <3>2
  <2>4. KnowsAt(d, m', p')
    BY <2>2, <2>3 DEF KnowsAt
  <2> QED
    BY <1>2, <2>2, <2>4 DEF Knows
<1> QED
  BY <1>3, <1>4

\* Looking the item up, in memory and on disk.
LEMMA KnowsPeek ==
    ASSUME DeliverInv, [Next]_vars, EverythingFits, "clear" \notin Faults, NEW r \in Caller,
           PeekMem(r) \/ PeekDisk(r)
    PROVE  Knows(r)'
<1>0. PICK c, a, i : c = call[r] /\ a = c.a /\ i = c.i
  OBVIOUS
<1> DEFINE d == call'[r]
           m == IsMarked(mem[a][i])
           p == Past(a, i)
<1>1. /\ c = call[r] /\ a = c.a /\ i = c.i
      /\ WholeInv /\ a \in Archive /\ i \in Item /\ c \in CallState
      /\ call \in [Caller -> CallState]
      /\ KnowsAt(c, m, p) /\ c.pc # "idle"
      /\ disk[a][i] = Absent
  BY <1>0 DEF DeliverInv, Knows, WholeInv, ContentInv, TypeInv, CallOK, CallState, PeekMem, PeekDisk,
     NotSpilled, DiskEmpty
<1>2. mem' = mem /\ thread' = thread /\ ext' = ext /\ Past(a, i)' = Past(a, i)
  BY DEF PeekMem, PeekDisk, stores, Past
<1>3. CASE PeekMem(r) /\ m
  <2>1. CASE c.at = "content"
    <3>1. d = [c EXCEPT !.pc = "getFileCache"]
      BY <1>1, <1>3, <2>1 DEF PeekMem, MemCached, Exists, IsMarked, Hit, Set
    <3>2. d.pc = "getFileCache" /\ d.a = a /\ d.i = i /\ d.signaled = c.signaled
          /\ c.pc = "peekMem"
      BY <1>1, <1>3, <3>1 DEF CallState, PeekMem
    <3>3. KnowsAt(d, m', p')
      BY <1>1, <1>2, <1>3, <3>2 DEF KnowsAt
    <3> QED
      BY <1>2, <3>2, <3>3 DEF Knows
  <2>2. CASE c.at = "last"
    <3>1. d = [c EXCEPT !.pc = "done", !.res = "ok"]
      BY <1>1, <1>3, <2>2 DEF PeekMem, MemCached, Exists, IsMarked, Hit, Set, Return
    <3>2. d.pc = "done" /\ d.res = "ok" /\ d.a = a /\ d.i = i /\ d.signaled = c.signaled
          /\ d.got = c.got /\ c.pc = "peekMem"
      BY <1>1, <1>3, <3>1 DEF CallState, PeekMem
    <3>3. c.got = Full(a, i)
      BY <1>1, <1>3, <2>2, <3>2 DEF KnowsAt
    <3>4. KnowsAt(d, m', p')
      BY <1>1, <1>2, <1>3, <3>2, <3>3 DEF KnowsAt
    <3> QED
      BY <1>2, <3>2, <3>4 DEF Knows
  <2>3. CASE c.at \notin {"content", "last"}
    <3>1. d = [c EXCEPT !.pc = "peekMem", !.at = "content"]
      BY <1>1, <1>3, <2>3 DEF PeekMem, MemCached, Exists, IsMarked, Hit, Set
    <3>2. d.pc = "peekMem" /\ d.a = a /\ d.i = i /\ d.at = "content"
          /\ d.signaled = c.signaled /\ c.pc = "peekMem"
      BY <1>1, <1>3, <3>1 DEF CallState, PeekMem
    <3>3. KnowsAt(d, m', p')
      BY <1>1, <1>2, <1>3, <3>2 DEF KnowsAt
    <3> QED
      BY <1>2, <3>2, <3>3 DEF Knows
  <2> QED
    BY <2>1, <2>2, <2>3
<1>4. CASE PeekMem(r) /\ ~m
  <2>1. d = [c EXCEPT !.pc = "peekDisk"]
    BY <1>1, <1>4 DEF PeekMem, MemCached, Exists, IsMarked, Set
  <2>2. d.pc = "peekDisk" /\ d.a = a /\ d.i = i /\ d.at = c.at
        /\ d.signaled = c.signaled /\ c.pc = "peekMem"
    BY <1>1, <1>4, <2>1 DEF CallState, PeekMem
  <2>3. KnowsAt(d, m', p')
    BY <1>1, <1>2, <1>4, <2>2 DEF KnowsAt
  <2> QED
    BY <1>2, <2>2, <2>3 DEF Knows
<1>5. CASE PeekDisk(r)
  <2>1. /\ ~DiskCached(disk, a, i) /\ c.pc = "peekDisk" /\ c.at # "content" /\ ~c.signaled
        /\ c.at = "last" => ~m /\ p
    BY <1>1, <1>5 DEF DiskCached, Exists, PeekDisk, KnowsAt, CallState
  <2>2. CASE c.at = "last"
    <3>1. d = [c EXCEPT !.pc = "done", !.res = "error"]
      BY <1>1, <1>5, <2>1, <2>2 DEF PeekDisk, Miss, Set, Return
    <3>2. d.pc = "done" /\ d.a = a /\ d.i = i /\ d.res = "error" /\ ~d.signaled
      BY <1>1, <2>1, <3>1 DEF CallState
    <3>3. KnowsAt(d, m', p')
      BY <1>1, <1>2, <2>1, <2>2, <3>2 DEF KnowsAt
    <3> QED
      BY <1>2, <3>2, <3>3 DEF Knows
  <2>3. CASE c.at = "again"
    <3>1. d = [c EXCEPT !.pc = "peekMem", !.at = "last"]
      BY <1>1, <1>5, <2>1, <2>3 DEF PeekDisk, Miss, Set
    <3>2. d.pc = "peekMem" /\ d.a = a /\ d.i = i /\ d.at = "last" /\ ~d.signaled
      BY <1>1, <2>1, <3>1 DEF CallState
    <3>3. KnowsAt(d, m', p')
      BY <1>1, <1>2, <2>1, <2>3, <3>2 DEF KnowsAt
    <3> QED
      BY <1>2, <3>2, <3>3 DEF Knows
  <2>4. CASE c.at \notin {"last", "again"}
    <3>1. d = [c EXCEPT !.pc = "extract"]
      BY <1>1, <1>5, <2>1, <2>4 DEF PeekDisk, Miss, Set
    <3>2. d.pc = "extract" /\ d.a = a /\ d.i = i /\ ~d.signaled
      BY <1>1, <2>1, <3>1 DEF CallState
    <3>3. KnowsAt(d, m', p')
      BY <3>2 DEF KnowsAt
    <3> QED
      BY <1>2, <3>2, <3>3 DEF Knows
  <2> QED
    BY <2>2, <2>3, <2>4
<1> QED
  BY <1>3, <1>4, <1>5

\* Copying the item.
LEMMA KnowsRead ==
    ASSUME DeliverInv, [Next]_vars, EverythingFits, "clear" \notin Faults, NEW r \in Caller,
           GetFileCache(r) \/ ReadMem(r) \/ ReadDisk(r)
    PROVE  Knows(r)'
<1>0. PICK c, a, i : c = call[r] /\ a = c.a /\ i = c.i
  OBVIOUS
<1> DEFINE d == call'[r]
           m == IsMarked(mem[a][i])
           p == Past(a, i)
<1>1. /\ c = call[r] /\ a = c.a /\ i = c.i
      /\ WholeInv /\ a \in Archive /\ i \in Item /\ c \in CallState
      /\ call \in [Caller -> CallState]
      /\ KnowsAt(c, m, p) /\ c.pc # "idle"
  BY <1>0 DEF DeliverInv, Knows, WholeInv, ContentInv, TypeInv, CallOK, CallState, GetFileCache,
     ReadMem, ReadDisk
<1>2. /\ c.pc \in {"getFileCache", "readMem"} /\ ~c.signaled /\ m
      /\ a \in table \cap access /\ mem[a][i].buf = Full(a, i)
  <2>1. c.pc \in {"getFileCache", "readMem"} /\ m /\ ~c.signaled
    BY <1>1 DEF GetFileCache, ReadMem, ReadDisk, KnowsAt, CallState
  <2>2. mem[a][i].buf = Full(a, i)
    BY <1>1, <2>1 DEF WholeInv, MarkedFull
  <2>3. a \in table /\ table \subseteq access
    BY <1>1, <2>1 DEF WholeInv, ContentInv, TypeInv, StoresOK, Present, IsMarked
  <2> QED
    BY <2>1, <2>2, <2>3
<1>3. CASE GetFileCache(r)
  <2>1. mem' = mem /\ d = [c EXCEPT !.pc = "readMem"]
    BY <1>1, <1>2, <1>3 DEF GetFileCache, stores, Set
  <2>2. d.a = a /\ d.i = i /\ ~d.signaled /\ d.pc = "readMem"
    BY <1>1, <1>2, <2>1 DEF CallState
  <2>3. KnowsAt(d, m', p')
    BY <1>2, <2>1, <2>2 DEF KnowsAt
  <2> QED
    BY <2>2, <2>3 DEF Knows
<1>4. CASE ReadMem(r)
  <2>1. mem' = mem /\ ContentRead(r, Full(a, i))
    BY <1>1, <1>2, <1>4 DEF ReadMem, Exists, IsMarked
  <2>2. PICK g : g = Full(a, i)
    OBVIOUS
  <2>3. \/ d = [[c EXCEPT !.got = g] EXCEPT !.pc = "peekMem", !.at = "last"]
        \/ d = [[c EXCEPT !.got = g] EXCEPT !.pc = "done", !.res = "ok"]
    BY <1>1, <2>1, <2>2 DEF ContentRead, Set
  <2>4. /\ d.a = a /\ d.i = i /\ ~d.signaled /\ d.got = Full(a, i)
        /\ (d.pc = "peekMem" /\ d.at = "last") \/ (d.pc = "done" /\ d.res = "ok")
    BY <1>1, <1>2, <2>2, <2>3 DEF CallState
  <2>5. KnowsAt(d, m', p')
    BY <1>2, <2>1, <2>4 DEF KnowsAt
  <2> QED
    BY <2>4, <2>5 DEF Knows
<1>5. CASE ReadDisk(r)
  BY <1>1, <1>2, <1>5 DEF ReadDisk
<1> QED
  BY <1>3, <1>4, <1>5

\* Asking for an extraction and waiting for it.
LEMMA KnowsWait ==
    ASSUME DeliverInv, [Next]_vars, EverythingFits, "clear" \notin Faults, NEW r \in Caller,
           Extract(r) \/ WaitEnds(r)
    PROVE  Knows(r)'
<1>0. PICK c, a, i : c = call[r] /\ a = c.a /\ i = c.i
  OBVIOUS
<1> DEFINE d == call'[r]
           m == IsMarked(mem[a][i])
           p == Past(a, i)
<1>1. /\ c = call[r] /\ a = c.a /\ i = c.i
      /\ a \in Archive /\ i \in Item /\ c \in CallState
      /\ call \in [Caller -> CallState]
      /\ KnowsAt(c, m, p) /\ c.pc # "idle"
      /\ disk[a][i] = Absent
      /\ mem' = mem /\ ext' = ext
  BY <1>0 DEF DeliverInv, Knows, WholeInv, ContentInv, TypeInv, CallOK, CallState, Extract, WaitEnds,
     NotSpilled, DiskEmpty, stores
<1>2. Cached(mem, disk, a, i) <=> m
  BY <1>1 DEF Cached, MemCached, DiskCached, Exists, IsMarked
<1>3. CASE Extract(r)
  <2>1. c.pc = "extract" /\ ~c.signaled
    BY <1>1, <1>3 DEF Extract, KnowsAt, CallState
  <2>2. \/ m /\ d = [c EXCEPT !.pc = "peekMem", !.at = "again", !.waited = TRUE]
        \/ d = [c EXCEPT !.pc = "wait", !.waited = TRUE]
    BY <1>1, <1>2, <1>3 DEF Extract, Set
  <2>3. /\ d.a = a /\ d.i = i /\ ~d.signaled
        /\ (m /\ d.pc = "peekMem" /\ d.at = "again") \/ d.pc = "wait"
    BY <1>1, <2>1, <2>2 DEF CallState
  <2>4. KnowsAt(d, m', p')
    BY <1>1, <2>3 DEF KnowsAt
  <2> QED
    BY <1>1, <2>3, <2>4 DEF Knows
<1>4. CASE WaitEnds(r)
  <2>1. thread' = thread /\ d = [c EXCEPT !.pc = "peekMem", !.at = "again", !.signaled = FALSE]
    BY <1>1, <1>4 DEF WaitEnds, Set
  <2>2. d.a = a /\ d.i = i /\ ~d.signaled /\ d.pc = "peekMem" /\ d.at = "again"
    BY <1>1, <2>1 DEF CallState
  <2>3. m \/ Past(a, i)
    BY <1>1, <1>2, <1>4 DEF WaitEnds, KnowsAt, Past
  <2>4. Past(a, i)' = Past(a, i)
    BY <1>1, <2>1 DEF Past
  <2>5. KnowsAt(d, m', p')
    BY <1>1, <2>2, <2>3, <2>4 DEF KnowsAt
  <2> QED
    BY <1>1, <2>2, <2>5 DEF Knows
<1> QED
  BY <1>3, <1>4

\* A call begins.
LEMMA KnowsRequest ==
    ASSUME TypeInv, NEW r \in Caller, NEW a \in Archive, NEW i \in Item, Request(r, a, i)
    PROVE  Knows(r)'
<1>1. call \in [Caller -> CallState]
  BY DEF TypeInv, CallOK
<1>2. call'[r] = [NoCall EXCEPT !.pc = "peekMem", !.a = a, !.i = i]
  BY <1>1 DEF Request, Set
<1>3. call'[r].pc = "peekMem" /\ call'[r].at = "first" /\ call'[r].signaled = FALSE
  BY <1>2 DEF NoCall
<1> QED
  BY <1>3 DEF Knows, KnowsAt

\* One caller after another.
Sole == \A r, s \in Caller : r = s

\* Every step keeps what the caller knows.
LEMMA DeliverInvStep ==
    ASSUME DeliverInv, [Next]_vars, EverythingFits, "clear" \notin Faults, Sole
    PROVE  DeliverInv'
<1>1. WholeInv' /\ ThreadRuns' /\ TypeInv
  BY WholeInvStep, ThreadRunsStep DEF DeliverInv, WholeInv, ContentInv
<1>2. SUFFICES ASSUME NEW r \in Caller PROVE Knows(r)'
  BY <1>1 DEF DeliverInv
<1>3. \A s \in Caller : s = r
  BY DEF Sole
<1>4. call \in [Caller -> CallState]
  BY <1>1 DEF TypeInv, CallOK
<1>5. CASE Crash
  BY <1>5 DEF Crash, NoCall, Knows
<1>6. CASE Notify \/ Cleanup
  <2>1. CASE call[r].pc = "idle"
    <3>1. call'[r].pc = "idle"
      BY <1>6, <2>1 DEF Notify, Cleanup, Signal
    <3> QED
      BY <3>1 DEF Knows
  <2>2. CASE call[r].pc # "idle"
    BY <1>6, <2>2, KnowsSignal
  <2> QED
    BY <2>1, <2>2
<1>7. CASE CallerStep(r)
  <2>1. CASE Returned(r)
    BY <1>4, <2>1 DEF Returned, Set, NoCall, Knows
  <2> QED
    BY <1>7, <2>1, KnowsPeek, KnowsRead, KnowsWait DEF CallerStep
<1>8. CASE \E a \in Archive, i \in Item : Request(r, a, i)
  BY <1>1, <1>8, KnowsRequest
<1>9. CASE /\ ~Crash /\ ~Notify /\ ~Cleanup /\ ~CallerStep(r)
           /\ ~(\E a \in Archive, i \in Item : Request(r, a, i))
  <2>1. call' = call
    <3>1. CASE Extractor
      BY <1>9, <3>1 DEF Extractor, ExtStart, ExtNoItems, PurgeUnmarkedMem,
         PurgeUnreferencedMem, PurgeUnmarkedDisk, GetStream, ExtractReturns, ItemError, Write,
         ItemOK, AppendLookup, AppendMem, Measure, CallReduce, ReduceVictim, ReduceSpin,
         ReduceEnd, SpillFirst, StoreSpilled, AppendDisk, EvictFiles, EvictRows, EvictEnd,
         StorePiece, Result, MarkMem, MarkDisk, ThreadExit, vars
    <3>2. CASE ClearMem \/ ClearDisk \/ UNCHANGED vars
      BY <3>2 DEF ClearMem, ClearDisk, vars
    <3>3. ~(\E s \in Caller : CallerStep(s))
          /\ ~(\E s \in Caller, a \in Archive, i \in Item : Request(s, a, i))
      BY <1>3, <1>9
    <3> QED
      BY <1>9, <3>1, <3>2, <3>3 DEF Next
  <2>2. ~(\E s \in Caller : Extract(s))
    BY <1>3, <1>9 DEF CallerStep
  <2>3. CASE call[r].pc = "idle"
    BY <2>1, <2>3 DEF Knows
  <2>4. CASE call[r].pc # "idle"
    BY <1>9, <2>1, <2>2, <2>4, KnowsStays
  <2> QED
    BY <2>3, <2>4
<1> QED
  BY <1>5, <1>6, <1>7, <1>8, <1>9

\* Before the first call there is nothing to know.
LEMMA DeliverInvInit ==
    ASSUME Init
    PROVE  DeliverInv
<1>1. ThreadRuns
  BY DEF Init, Idle, ThreadRuns
<1>2. ASSUME NEW r \in Caller PROVE Knows(r)
  BY DEF Init, NoCall, Knows
<1> QED
  BY <1>1, <1>2, WholeInvInit DEF DeliverInv

\* Where memory has room for everything and the host reads one file at a time, a
\* GetFile call that reports success has delivered the whole item, whatever
\* extractions it meets on its way.
THEOREM SuccessDelivers ==
    ASSUME EverythingFits, "clear" \notin Faults, Sole
    PROVE  Spec => []DeliveredComplete
<1>1. Init => DeliverInv
  BY DeliverInvInit
<1>2. DeliverInv /\ [Next]_vars => DeliverInv'
  BY DeliverInvStep
<1>3. DeliverInv => DeliveredComplete
  BY DEF DeliverInv, Knows, KnowsAt, DeliveredComplete
<1> QED
  BY <1>1, <1>2, <1>3, PTL DEF Spec

\* With one caller after another, GetFile as the host sees it: CacheContract.
\* What is kept, and what may still come, before and after a step.
LEMMA KeptIs ==
    ASSUME WholeInv, WholeInv', NEW a \in Archive, NEW i \in Item
    PROVE  /\ <<a, i>> \in KeptItems <=> IsMarked(mem[a][i])
           /\ (<<a, i>> \in KeptItems)' <=> IsMarked(mem'[a][i])
           /\ <<a, i>> \in ComingItems <=> ~Past(a, i)
           /\ (<<a, i>> \in ComingItems)' <=> ~Past(a, i)'
<1>1. disk[a][i] = Absent /\ disk'[a][i] = Absent
  BY DEF WholeInv, NotSpilled, DiskEmpty
<1>2. /\ Cached(mem, disk, a, i) <=> IsMarked(mem[a][i])
      /\ Cached(mem', disk', a, i) <=> IsMarked(mem'[a][i])
  BY <1>1 DEF Cached, MemCached, DiskCached, Exists, IsMarked
<1> QED
  BY <1>2 DEF KeptItems, ComingItems

\* Only marking adds to what is kept, and only a crash takes away from it.
LEMMA KeptStays ==
    ASSUME WholeInv, WholeInv', [Next]_vars, EverythingFits, "clear" \notin Faults,
           ~MarkMem, ~Crash
    PROVE  KeptItems' = KeptItems
<1>1. SUFFICES ASSUME NEW a \in Archive, NEW i \in Item
               PROVE  IsMarked(mem'[a][i]) <=> IsMarked(mem[a][i])
  <2>1. \A a \in Archive, i \in Item : (<<a, i>> \in KeptItems)' <=> <<a, i>> \in KeptItems
    BY <1>1, KeptIs
  <2> QED
    BY <2>1 DEF KeptItems
<1> QED
  BY WholeStep DEF IsMarked, NewEntry

\* Only asking for an archive makes its items come.
LEMMA ComingShrinks ==
    ASSUME TypeInv, ThreadRuns, [Next]_vars, ~Crash, ~(\E r \in Caller : Extract(r))
    PROVE  ComingItems' \subseteq ComingItems
<1>1. \A a \in Archive, i \in Item : Past(a, i) => Past(a, i)'
  BY PastStays
<1> QED
  BY <1>1 DEF ComingItems

\* A step of a call that neither begins nor ends in the hands of the host.
CallStep(r) ==
    \/ PeekMem(r) \/ PeekDisk(r) \/ GetFileCache(r) \/ ReadMem(r) \/ ReadDisk(r)
    \/ Extract(r) \/ WaitEnds(r)

\* It is about the same item before and after, and no other call moves.
LEMMA CallMoves ==
    ASSUME TypeInv, NEW r \in Caller, CallStep(r)
    PROVE  /\ call[r].pc \notin {"idle", "done"} /\ call'[r].pc # "idle"
           /\ call'[r].a = call[r].a /\ call'[r].i = call[r].i
           /\ call' = [call EXCEPT ![r] = call'[r]]
           /\ Extract(r) => call'[r].pc # "done"
<1>0. PICK c, d : c = call[r] /\ d = call'[r]
  OBVIOUS
<1>1. /\ c = call[r] /\ d = call'[r]
      /\ c \in CallState /\ call \in [Caller -> CallState]
  BY <1>0 DEF TypeInv, CallOK
<1> DEFINE Goes ==
      /\ c.pc \notin {"idle", "done"} /\ d.pc # "idle" /\ d.a = c.a /\ d.i = c.i
      /\ call' = [call EXCEPT ![r] = d]
      /\ Extract(r) => d.pc # "done"
<1>2. CASE PeekMem(r)
  <2>1. /\ c.pc = "peekMem" /\ call' = [call EXCEPT ![r] = d]
        /\ \/ d = [c EXCEPT !.pc = "getFileCache"]
           \/ d = [c EXCEPT !.pc = "done", !.res = "ok"]
           \/ d = [c EXCEPT !.pc = "peekMem", !.at = "content"]
           \/ d = [c EXCEPT !.pc = "peekDisk"]
    BY <1>1, <1>2 DEF PeekMem, Hit, Set, Return
  <2>2. Goes
    BY <1>1, <2>1 DEF CallState, Extract
  <2> QED
    BY <1>1, <2>2
<1>3. CASE PeekDisk(r)
  <2>1. PICK g : g = << >>
    OBVIOUS
  <2>2. /\ c.pc = "peekDisk" /\ call' = [call EXCEPT ![r] = d]
        /\ \/ d = [c EXCEPT !.pc = "readDisk"]
           \/ d = [c EXCEPT !.pc = "extract"]
           \/ \E x \in {"ok", "error"} : d = [c EXCEPT !.pc = "done", !.res = x]
           \/ \E x \in {"content", "last"} : d = [c EXCEPT !.pc = "peekMem", !.at = x]
           \/ d = [[c EXCEPT !.got = g] EXCEPT !.pc = "peekMem", !.at = "last"]
           \/ d = [[c EXCEPT !.got = g] EXCEPT !.pc = "done", !.res = "ok"]
    BY <1>1, <1>3, <2>1 DEF PeekDisk, Hit, Miss, ContentRead, Set, Return
  <2>3. Goes
    BY <1>1, <2>2 DEF CallState, Extract
  <2> QED
    BY <1>1, <2>3
<1>4. CASE ReadMem(r) \/ ReadDisk(r)
  <2>1. PICK g : ContentRead(r, g) \/ Return(r, "exception")
    BY <1>4 DEF ReadMem, ReadDisk
  <2>2. /\ c.pc \in {"readMem", "readDisk"} /\ call' = [call EXCEPT ![r] = d]
        /\ \/ d = [[c EXCEPT !.got = g] EXCEPT !.pc = "peekMem", !.at = "last"]
           \/ d = [[c EXCEPT !.got = g] EXCEPT !.pc = "done", !.res = "ok"]
           \/ d = [c EXCEPT !.pc = "done", !.res = "exception"]
    BY <1>1, <1>4, <2>1 DEF ReadMem, ReadDisk, ContentRead, Set, Return
  <2>3. Goes
    BY <1>1, <2>2 DEF CallState, Extract
  <2> QED
    BY <1>1, <2>3
<1>5. CASE GetFileCache(r)
  <2>1. /\ c.pc = "getFileCache" /\ call' = [call EXCEPT ![r] = d]
        /\ \/ d = [c EXCEPT !.pc = "readMem"]
           \/ d = [c EXCEPT !.pc = "done", !.res = "exception"]
    BY <1>1, <1>5 DEF GetFileCache, Set, Return
  <2>2. Goes
    BY <1>1, <2>1 DEF CallState, Extract
  <2> QED
    BY <1>1, <2>2
<1>6. CASE Extract(r) \/ WaitEnds(r)
  <2>1. /\ c.pc \in {"extract", "wait"} /\ call' = [call EXCEPT ![r] = d]
        /\ \/ d = [c EXCEPT !.pc = "peekMem", !.at = "again", !.waited = TRUE]
           \/ d = [c EXCEPT !.pc = "wait", !.waited = TRUE]
           \/ d = [c EXCEPT !.pc = "peekMem", !.at = "again", !.signaled = FALSE]
    BY <1>1, <1>6 DEF Extract, WaitEnds, Set
  <2>2. Goes
    BY <1>1, <2>1 DEF CallState
  <2> QED
    BY <1>1, <2>2
<1> QED
  BY <1>2, <1>3, <1>4, <1>5, <1>6 DEF CallStep

\* What the host sees of it does not change until the call ends, and then it is
\* one look at what is kept.
LEMMA CallMaps ==
    ASSUME DeliverInv, DeliverInv', NEW r \in Caller, CallStep(r), ~Extract(r)
    PROVE  Contract!Answer(r) \/ UNCHANGED Contract!vars
<1>0. PICK c, d, a, i : c = call[r] /\ d = call'[r] /\ a = c.a /\ i = c.i
  OBVIOUS
<1>1. /\ c = call[r] /\ d = call'[r] /\ a = c.a /\ i = c.i
      /\ a \in Archive /\ i \in Item /\ d.a = a /\ d.i = i
      /\ c.pc \notin {"idle", "done"} /\ d.pc # "idle"
      /\ call \in [Caller -> CallState] /\ call' = [call EXCEPT ![r] = d]
      /\ WholeInv /\ WholeInv' /\ KnowsAt(c, IsMarked(mem[a][i]), Past(a, i))
  BY <1>0, CallMoves DEF DeliverInv, WholeInv, ContentInv, TypeInv, CallOK, CallState, Knows
<1>2. KnowsAt(d, IsMarked(mem'[a][i]), Past(a, i)')
  BY <1>1 DEF DeliverInv, Knows
<1>3. thread' = thread /\ ext' = ext /\ mem' = mem
  <2>1. CASE ~ReadMem(r)
    BY <2>1 DEF CallStep, PeekMem, PeekDisk, GetFileCache, ReadDisk, WaitEnds, stores
  <2>2. CASE ReadMem(r)
    <3>1. IsMarked(mem[a][i])
      BY <1>1, <2>2 DEF ReadMem, KnowsAt
    <3> QED
      BY <1>1, <2>2, <3>1 DEF ReadMem, Exists, IsMarked
  <2> QED
    BY <2>1, <2>2
<1>4. KeptItems' = KeptItems /\ ComingItems' = ComingItems
  <2>1. disk' = disk
    BY DEF CallStep, PeekMem, PeekDisk, GetFileCache, ReadMem, ReadDisk, WaitEnds, stores
  <2> QED
    BY <1>3, <2>1 DEF KeptItems, ComingItems, Past
<1>5. Requests[r] = [state |-> "asked", key |-> <<a, i>>]
  BY <1>1 DEF Requests, RequestOf, Outcome
<1>6. /\ Requests' = [Requests EXCEPT ![r] = RequestOf(d)]
      /\ RequestOf(d) = [state |-> Outcome(d), key |-> <<a, i>>]
  BY <1>1 DEF Requests, RequestOf
<1>7. CASE d.pc # "done"
  <2>1. RequestOf(d) = Requests[r]
    BY <1>5, <1>6, <1>7 DEF Outcome
  <2>2. Requests' = Requests
    BY <1>6, <2>1 DEF Requests
  <2> QED
    BY <1>4, <2>2 DEF Contract!vars
<1>8. CASE d.pc = "done"
  <2>1. /\ <<a, i>> \in KeptItems <=> IsMarked(mem[a][i])
        /\ <<a, i>> \in ComingItems <=> ~Past(a, i)
        /\ Past(a, i)' = Past(a, i)
    BY <1>1, <1>3, KeptIs DEF Past
  <2>2. \/ Outcome(d) = "ok" /\ <<a, i>> \in KeptItems
        \/ Outcome(d) = "error" /\ <<a, i>> \notin KeptItems \cup ComingItems
    BY <1>1, <1>2, <1>3, <1>8, <2>1 DEF KnowsAt, Outcome
  <2>3. PICK k, q : k = <<a, i>> /\ q = RequestOf(d)
    OBVIOUS
  <2>4. /\ Requests[r].state = "asked" /\ Requests[r].key = k
        /\ Requests' = [Requests EXCEPT ![r] = q]
        /\ q = [state |-> Outcome(d), key |-> k]
    BY <1>5, <1>6, <2>3
  <2>5. \/ q = [state |-> "ok", key |-> k] /\ k \in KeptItems
        \/ q = [state |-> "error", key |-> k] /\ k \notin KeptItems \cup ComingItems
    BY <2>2, <2>3, <2>4
  <2> QED
    BY <1>4, <2>4, <2>5 DEF Contract!Answer, Contract!Request
<1> QED
  BY <1>7, <1>8

\* Asking for an extraction begins one, or joins one that is under way or ending.
LEMMA ExtractMaps ==
    ASSUME DeliverInv, DeliverInv', NEW r \in Caller, Extract(r)
    PROVE  Contract!Begin(r) \/ UNCHANGED Contract!vars
<1>0. PICK c, d, a, i : c = call[r] /\ d = call'[r] /\ a = c.a /\ i = c.i
  OBVIOUS
<1>1. /\ c = call[r] /\ d = call'[r] /\ a = c.a /\ i = c.i
      /\ a \in Archive /\ i \in Item /\ d.a = a /\ d.i = i
      /\ c.pc \notin {"idle", "done"} /\ d.pc \notin {"idle", "done"}
      /\ call \in [Caller -> CallState] /\ call' = [call EXCEPT ![r] = d]
      /\ WholeInv /\ ThreadOK
  BY <1>0, CallMoves DEF CallStep, DeliverInv, WholeInv, ContentInv, TypeInv, CallOK, CallState
<1>2. mem' = mem /\ disk' = disk /\ ext' = ext
  BY DEF Extract, stores
<1>3. KeptItems' = KeptItems
  BY <1>2 DEF KeptItems
<1>4. Requests[r] = [state |-> "asked", key |-> <<a, i>>] /\ Requests' = Requests
  BY <1>1 DEF Requests, RequestOf, Outcome
<1>5. CASE thread' = thread
  BY <1>2, <1>3, <1>4, <1>5 DEF Contract!vars, ComingItems, Past
<1>6. CASE thread' # thread
  <2>1. /\ ~Cached(mem, disk, a, i) /\ thread[a] = "none"
        /\ thread' = [thread EXCEPT ![a] = "ready"]
    BY <1>1, <1>6 DEF Extract, ThreadOK
  <2>2. <<a, i>> \notin KeptItems
    BY <2>1 DEF KeptItems
  <2>3. \A b \in Archive, j \in Item : Past(b, j)' <=> b # a /\ Past(b, j)
    BY <1>1, <1>2, <2>1 DEF Past, ThreadOK
  <2>4. ComingItems' = ComingItems \cup ({a} \X Item)
    BY <1>1, <2>3 DEF ComingItems
  <2> QED
    BY <1>3, <1>4, <2>2, <2>4 DEF Contract!Begin
<1> QED
  BY <1>5, <1>6

\* Marking an item makes it available; it was one that might still come.
LEMMA MarkMaps ==
    ASSUME DeliverInv, DeliverInv', [Next]_vars, EverythingFits, "clear" \notin Faults, MarkMem
    PROVE  Contract!Arrive(<<ext.a, ext.i>>)
<1>0. PICK a, i : a = ext.a /\ i = ext.i
  OBVIOUS
<1>1. /\ a = ext.a /\ i = ext.i /\ a \in Archive /\ i \in Item
      /\ WholeInv /\ WholeInv' /\ TypeInv /\ ext \in ExtState
      /\ ext.pc = "markMem" /\ thread[a] = "running"
  BY <1>0 DEF DeliverInv, WholeInv, ContentInv, TypeInv, ExtState, ExtOK, ItemPC, ThreadRuns,
     MarkMem
<1>2. /\ thread' = thread /\ call' = call
      /\ ext'.pc = "notify" /\ ext'.a = a /\ ext'.i = i
  BY <1>1 DEF MarkMem, ExtState
<1>3. Requests' = Requests
  BY <1>2 DEF Requests
<1>4. ComingItems' = ComingItems /\ <<a, i>> \in ComingItems
  <2>1. \A j \in Item : Beyond(ext, j) <=> i > j
    BY <1>1 DEF Beyond, ItemPC, PurgePC, LockedPC
  <2>2. \A j \in Item : Beyond(ext', j) <=> i > j
    BY <1>2 DEF Beyond, ItemPC, PurgePC, LockedPC
  <2>3. \A b \in Archive, j \in Item : Past(b, j)' <=> Past(b, j)
    BY <1>2, <2>1, <2>2 DEF Past
  <2>4. ~Past(a, i)
    BY <1>1, <2>1 DEF Past, Item
  <2> QED
    BY <1>1, <2>3, <2>4 DEF ComingItems
<1>5. KeptItems' = KeptItems \cup {<<a, i>>}
  <2>1. ASSUME NEW b \in Archive, NEW j \in Item
        PROVE  IsMarked(mem'[b][j]) <=> IsMarked(mem[b][j]) \/ (b = a /\ j = i)
    <3>1. mem[ext.a][ext.i] # Absent
      BY <1>1 DEF WholeInv, ContentInv, WorkOK
    <3>2. CASE b = a /\ j = i
      BY <1>1, <3>1, <3>2, MarkMemEffect DEF IsMarked
    <3>3. CASE ~(b = a /\ j = i)
      <4>1. mem'[b][j] = mem[b][j]
        BY <1>1, <3>1, <3>3, MarkMemEffect
      <4> QED
        BY <3>3, <4>1
    <3> QED
      BY <3>2, <3>3
  <2>2. \A b \in Archive, j \in Item :
           (<<b, j>> \in KeptItems)' <=> <<b, j>> \in KeptItems \/ (b = a /\ j = i)
    BY <1>1, <2>1, KeptIs
  <2> QED
    BY <1>1, <2>2 DEF KeptItems
<1>6. Contract!Arrive(<<a, i>>)
  BY <1>3, <1>4, <1>5 DEF Contract!Arrive
<1> QED
  BY <1>1, <1>6

\* The other steps of the extractor, whatever they move, at most pass items by.
LEMMA ExtractorMaps ==
    ASSUME DeliverInv, DeliverInv', [Next]_vars, EverythingFits, "clear" \notin Faults,
           Extractor, ~MarkMem, ~Crash, ~(\E r \in Caller : Extract(r))
    PROVE  Contract!Pass
<1>1. /\ WholeInv /\ WholeInv' /\ TypeInv /\ ThreadRuns
      /\ call \in [Caller -> CallState]
  BY DEF DeliverInv, WholeInv, ContentInv, TypeInv, CallOK
<1>2. KeptItems' = KeptItems /\ ComingItems' \subseteq ComingItems
  BY <1>1, KeptStays, ComingShrinks
<1>3. call' \in [Caller -> CallState]
  BY DEF DeliverInv, WholeInv, ContentInv, TypeInv, CallOK
<1>4. ASSUME NEW r \in Caller
      PROVE  RequestOf(call'[r]) = RequestOf(call[r])
  <2>1. CASE call' = call
    BY <2>1
  <2>2. CASE Notify \/ Cleanup
    <3>1. \/ call'[r] = call[r]
          \/ call[r].pc = "wait" /\ call'[r] = [call[r] EXCEPT !.signaled = TRUE]
      BY <2>2 DEF Notify, Cleanup, Signal
    <3>2. PICK c, d : c = call[r] /\ d = call'[r]
      OBVIOUS
    <3>3. /\ c \in CallState
          /\ d = c \/ (c.pc = "wait" /\ d = [c EXCEPT !.signaled = TRUE])
      BY <1>1, <3>1, <3>2
    <3>4. d = c \/ (c.pc = "wait" /\ d.pc = "wait" /\ d.a = c.a /\ d.i = c.i)
      BY <3>3 DEF CallState
    <3> QED
      BY <3>2, <3>4 DEF RequestOf, Outcome
  <2>3. CASE ~Notify /\ ~Cleanup
    <3>1. call' = call
      BY <2>3 DEF Extractor, ExtStart, ExtNoItems, PurgeUnmarkedMem,
         PurgeUnreferencedMem, PurgeUnmarkedDisk, GetStream, ExtractReturns, ItemError, Write,
         ItemOK, AppendLookup, AppendMem, Measure, CallReduce, ReduceVictim, ReduceSpin,
         ReduceEnd, SpillFirst, StoreSpilled, AppendDisk, EvictFiles, EvictRows, EvictEnd,
         StorePiece, Result, MarkMem, MarkDisk, ThreadExit, vars
    <3> QED
      BY <2>1, <3>1
  <2> QED
    BY <2>2, <2>3
<1>5. Requests' = Requests
  BY <1>4 DEF Requests
<1> QED
  BY <1>2, <1>5 DEF Contract!Pass

\* A call begins, and its answer is taken.
LEMMA HostMaps ==
    ASSUME DeliverInv, NEW r \in Caller
    PROVE  /\ Returned(r) => Contract!Take(r)
           /\ \A a \in Archive, i \in Item : Request(r, a, i) => Contract!Ask(r, <<a, i>>)
<1>1. call \in [Caller -> CallState] /\ Knows(r)
  BY DEF DeliverInv, WholeInv, ContentInv, TypeInv, CallOK
<1>2. ASSUME mem' = mem, disk' = disk, thread' = thread, ext' = ext
      PROVE  KeptItems' = KeptItems /\ ComingItems' = ComingItems
  BY <1>2 DEF KeptItems, ComingItems, Past
<1>3. ASSUME NEW d, call' = [call EXCEPT ![r] = d]
      PROVE  Requests' = [Requests EXCEPT ![r] = RequestOf(d)]
  BY <1>1, <1>3 DEF Requests
<1>4. ASSUME Returned(r)
      PROVE  Contract!Take(r)
  <2>1. /\ call[r].pc = "done" /\ call' = [call EXCEPT ![r] = NoCall]
        /\ mem' = mem /\ disk' = disk /\ thread' = thread /\ ext' = ext
    BY <1>4 DEF Returned, Set, stores
  <2>2. Requests[r].state \in {"ok", "error"}
    <3>1. PICK c : c = call[r]
      OBVIOUS
    <3>2. c.pc = "done" /\ KnowsAt(c, IsMarked(mem[c.a][c.i]), Past(c.a, c.i))
      BY <1>1, <2>1, <3>1 DEF Knows
    <3>3. Outcome(c) \in {"ok", "error"}
      BY <3>2 DEF KnowsAt, Outcome
    <3>4. Requests[r] = [state |-> Outcome(c), key |-> <<c.a, c.i>>]
      BY <3>1, <3>2 DEF Requests, RequestOf
    <3> QED
      BY <3>3, <3>4
  <2>3. RequestOf(NoCall) = Contract!None
    BY DEF RequestOf, NoCall, Contract!None
  <2> QED
    BY <1>2, <1>3, <2>1, <2>2, <2>3 DEF Contract!Take
<1>5. ASSUME NEW a \in Archive, NEW i \in Item, Request(r, a, i)
      PROVE  Contract!Ask(r, <<a, i>>)
  <2>1. PICK d : d = [NoCall EXCEPT !.pc = "peekMem", !.a = a, !.i = i]
    OBVIOUS
  <2>2. /\ call[r].pc = "idle" /\ call' = [call EXCEPT ![r] = d]
        /\ mem' = mem /\ disk' = disk /\ thread' = thread /\ ext' = ext
    BY <1>5, <2>1 DEF Request, Set, stores
  <2>3. d.pc = "peekMem" /\ d.a = a /\ d.i = i
    BY <2>1 DEF NoCall
  <2>4. RequestOf(d) = Contract!Request("asked", <<a, i>>)
    BY <2>3 DEF RequestOf, Outcome, Contract!Request
  <2>5. Requests[r] = Contract!None
    BY <2>2 DEF Requests, RequestOf, Contract!None
  <2> QED
    BY <1>2, <1>3, <2>2, <2>4, <2>5 DEF Contract!Ask
<1> QED
  BY <1>4, <1>5

\* When the process dies nothing is left.
LEMMA CrashMaps ==
    ASSUME WholeInv, Crash
    PROVE  Contract!Die
<1>1. /\ \A a \in Archive, i \in Item : disk'[a][i] = Absent /\ mem'[a][i] = Absent
      /\ \A a \in Archive : thread'[a] = "none"
      /\ call' = [r \in Caller |-> NoCall]
  BY DEF Crash, NoMem, WholeInv, NotSpilled, DiskEmpty
<1>2. KeptItems' = {} /\ ComingItems' = {}
  BY <1>1 DEF KeptItems, ComingItems, Past, Cached, MemCached, DiskCached, Exists
<1>3. RequestOf(NoCall) = Contract!None
  BY DEF RequestOf, NoCall, Contract!None
<1>4. Requests' = [r \in Caller |-> Contract!None]
  BY <1>1, <1>3 DEF Requests
<1> QED
  BY <1>2, <1>4 DEF Contract!Die

\* Where memory has room for everything and the host reads one file at a time,
\* GetFile is one look at what has been extracted: it returns the whole item if
\* that is there when it returns, and fails only if it is neither there nor yet
\* to come.
THEOREM ImplementsContract ==
    ASSUME EverythingFits, "clear" \notin Faults, Sole
    PROVE  Spec => ImplementsCacheContract
<1>1. Init => DeliverInv
  BY DeliverInvInit
<1>2. DeliverInv /\ [Next]_vars => DeliverInv'
  BY DeliverInvStep
<1>3. Init => Contract!Init
  <2> SUFFICES ASSUME Init PROVE Contract!Init
    OBVIOUS
  <2>1. KeptItems = {}
    BY DEF Init, NoMem, NoDisk, KeptItems, Cached, MemCached, DiskCached, Exists
  <2>2. ComingItems = {}
    BY DEF Init, ComingItems, Past
  <2>3. RequestOf(NoCall) = Contract!None
    BY DEF RequestOf, NoCall, Contract!None
  <2>4. Requests = [r \in Caller |-> Contract!None]
    BY <2>3 DEF Init, Requests
  <2> QED
    BY <2>1, <2>2, <2>4 DEF Contract!Init
<1>4. DeliverInv /\ DeliverInv' /\ [Next]_vars => [Contract!Next]_(Contract!vars)
  <2> SUFFICES ASSUME DeliverInv, DeliverInv', [Next]_vars
               PROVE  Contract!Next \/ UNCHANGED Contract!vars
    OBVIOUS
  <2>1. CASE Crash
    BY <2>1, CrashMaps DEF DeliverInv, Contract!Next
  <2>2. CASE MarkMem
    <3>1. <<ext.a, ext.i>> \in Archive \X Item
      BY <2>2 DEF DeliverInv, WholeInv, ContentInv, TypeInv, ExtState, ExtOK, ItemPC, MarkMem
    <3> QED
      BY <2>2, <3>1, MarkMaps DEF Contract!Next
  <2>3. CASE \E r \in Caller : Extract(r)
    BY <2>3, ExtractMaps DEF Contract!Next
  <2>4. CASE (\E r \in Caller : CallStep(r)) /\ ~(\E r \in Caller : Extract(r))
    BY <2>4, CallMaps DEF Contract!Next
  <2>5. CASE \E r \in Caller : Returned(r)
    BY <2>5, HostMaps DEF Contract!Next
  <2>6. CASE \E r \in Caller, a \in Archive, i \in Item : Request(r, a, i)
    <3>1. PICK r \in Caller, a \in Archive, i \in Item : Request(r, a, i)
      BY <2>6
    <3>2. Contract!Ask(r, <<a, i>>) /\ <<a, i>> \in Archive \X Item
      BY <3>1, HostMaps
    <3> QED
      BY <3>2 DEF Contract!Next
  <2>7. CASE /\ Extractor
             /\ ~MarkMem /\ ~Crash /\ ~(\E r \in Caller : Extract(r))
    BY <2>7, ExtractorMaps DEF Contract!Next
  <2>8. CASE UNCHANGED vars
    BY <2>8 DEF vars, stores, Contract!vars, KeptItems, ComingItems, Requests, Past
  <2>9. ~ClearMem /\ ~ClearDisk
    BY DEF ClearMem, ClearDisk, DeliverInv, WholeInv, ContentInv
  <2> QED
    BY <2>1, <2>2, <2>3, <2>4, <2>5, <2>6, <2>7, <2>8, <2>9 DEF Next, CallerStep, CallStep
<1> QED
  BY <1>1, <1>2, <1>3, <1>4, PTL DEF Spec, ImplementsCacheContract, Contract!Spec
============================================================================
