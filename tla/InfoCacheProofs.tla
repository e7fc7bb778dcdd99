--------------------------- MODULE InfoCacheProofs ---------------------------
(***************************************************************************)
(* Proofs about InfoCache: the ring of slots remembers the lists made      *)
(* last, and the search that stops at an empty slot finds the newest one.  *)
(***************************************************************************)
EXTENDS InfoCache, FiniteSetTheorems, SequenceTheorems, WellFoundedInduction, TLAPS

SlotState == [hinfo : Handle \cup {NULL}, path : Path \cup {NULL}]

Types == arcinfo \in [Slot -> SlotState] /\ nowno \in Slot /\ heap \subseteq Handle

\* The slots in use are all, or those before the next one.
Ring == Filled = Slot \/ Filled = 0..nowno - 1

\* The cache owns the list of every slot, and no list twice.
Owned ==
    /\ \A n \in Filled : arcinfo[n].hinfo \in heap /\ arcinfo[n].path \in Path
    /\ \A m, n \in Filled : arcinfo[m].hinfo = arcinfo[n].hinfo => m = n

CacheInv == Types /\ Ring /\ Owned

----------------------------------------------------------------------------
(* Arithmetic of the ring *)

\* A set of naturals has a least element.
LEMMA Least ==
    ASSUME NEW S \in SUBSET Nat, S # {}
    PROVE  \E m \in S : \A k \in S : m <= k
<1> DEFINE R == OpToRel(<, Nat)
<1>1. \A k, m \in S : <<k, m>> \in R <=> k < m
  BY DEF OpToRel
<1>2. IsWellFoundedOn(R, Nat)
  BY NatLessThanWellFounded
<1> HIDE DEF R
<1>3. PICK m \in S : \A k \in S : ~(<<k, m>> \in R)
  BY <1>2, WFMin
<1>4. \A k \in S : ~(k < m)
  BY <1>1, <1>3
<1>5. \A k \in S : k \in Int /\ m \in Int
  OBVIOUS
<1> QED  BY <1>3, <1>4, <1>5

\* The slot behind another one.
LEMMA Forward ==
    ASSUME InfoCacheAssumption, NEW x \in Slot
    PROVE  (x + 1) % Size = IF x = Size - 1 THEN 0 ELSE x + 1
<1>1. CASE x = Size - 1
  BY <1>1, SMT DEF InfoCacheAssumption, Slot
<1>2. CASE x # Size - 1
  BY <1>2, SMT DEF InfoCacheAssumption, Slot
<1> QED  BY <1>1, <1>2

\* The slot j steps before another one.
LEMMA Backward ==
    ASSUME InfoCacheAssumption, NEW x \in Slot, NEW j \in 1..Size
    PROVE  (x - j) % Size = IF j <= x THEN x - j ELSE x - j + Size
<1>1. CASE j <= x
  BY <1>1, SMT DEF InfoCacheAssumption, Slot
<1>2. CASE j > x
  BY <1>2, SMT DEF InfoCacheAssumption, Slot
<1> QED  BY <1>1, <1>2 DEF InfoCacheAssumption, Slot

\* How many slots are in use.
LEMMA CountIs ==
    ASSUME InfoCacheAssumption, Types, Ring
    PROVE  /\ Count = IF Filled = Slot THEN Size ELSE nowno
           /\ Count \in 0..Size
<1>1. CASE Filled = Slot
  <2>1. Cardinality(0..Size - 1) = Size
    BY FS_Interval DEF InfoCacheAssumption
  <2> QED  BY <1>1, <2>1 DEF Count, Slot, InfoCacheAssumption
<1>2. CASE Filled # Slot
  <2>1. nowno \in Nat /\ nowno < Size /\ Filled = 0..nowno - 1
    BY <1>2 DEF Types, Ring, Slot, InfoCacheAssumption
  <2>2. Cardinality(0..nowno - 1) = nowno
    BY <2>1, FS_Interval
  <2> QED  BY <1>2, <2>1, <2>2 DEF Count, InfoCacheAssumption
<1> QED  BY <1>1, <1>2

\* The search looks at exactly the slots in use.
LEMMA SearchedIs ==
    ASSUME InfoCacheAssumption, Types, Ring
    PROVE  /\ Searched = 1..Count
           /\ \A j \in 1..Count : Back(j) \in Filled
<1>1. \A j \in 1..Size : Back(j) = IF j <= nowno THEN nowno - j ELSE nowno - j + Size
  BY Backward DEF Types, Back
<1>2. \A j \in 1..Size : Back(j) \in Filled <=> j <= Count
  <2>1. CASE Filled = Slot
    BY <2>1, <1>1, CountIs DEF Types, Slot, InfoCacheAssumption
  <2>2. CASE Filled # Slot
    BY <2>2, <1>1, CountIs DEF Types, Ring, Slot, InfoCacheAssumption
  <2> QED  BY <2>1, <2>2
<1>3. Size \in Nat /\ Count \in Nat /\ Count <= Size
  BY CountIs DEF InfoCacheAssumption
<1>4. Searched = {j \in 1..Size : j <= Count}
  BY <1>2, <1>3 DEF Searched
<1> QED  BY <1>2, <1>3, <1>4

----------------------------------------------------------------------------
(* The invariant *)

\* What Add does to the slots: the next one is filled and no other changes.
LEMMA AddFills ==
    ASSUME InfoCacheAssumption, CacheInv, NEW p \in Path, NEW h \in heap, Add(p, h)
    PROVE  /\ Types'
           /\ arcinfo'[nowno].hinfo = h /\ arcinfo'[nowno].path = p
           /\ \A n \in Slot : n # nowno => arcinfo'[n] = arcinfo[n]
           /\ Filled' = Filled \cup {nowno}
           /\ nowno' = IF nowno = Size - 1 THEN 0 ELSE nowno + 1
           /\ Ring'
<1> DEFINE e == [hinfo |-> h, path |-> p]
<1>1. h \in Handle /\ h # NULL /\ e \in SlotState /\ e.hinfo = h /\ e.path = p
  BY DEF CacheInv, Types, InfoCacheAssumption, SlotState
<1>2. arcinfo' = [arcinfo EXCEPT ![nowno] = e]
  BY DEF Add
<1> HIDE DEF e
<1>3. /\ arcinfo' \in [Slot -> SlotState] /\ arcinfo'[nowno] = e
      /\ \A n \in Slot : n # nowno => arcinfo'[n] = arcinfo[n]
  BY <1>1, <1>2 DEF CacheInv, Types
<1>4. nowno' = IF nowno = Size - 1 THEN 0 ELSE nowno + 1
  BY Forward DEF Add, NextSlot, CacheInv, Types
<1>5. Types'
  BY <1>3, <1>4 DEF CacheInv, Types, Add, Slot, InfoCacheAssumption
<1>6. Filled' = Filled \cup {nowno}
  BY <1>1, <1>3 DEF Filled, CacheInv, Types
<1>7. Ring'
  BY <1>4, <1>6 DEF CacheInv, Types, Ring, Slot, InfoCacheAssumption
<1> QED  BY <1>1, <1>3, <1>4, <1>5, <1>6, <1>7

\* A step keeps CacheInv.
LEMMA CacheInvStep ==
    ASSUME InfoCacheAssumption, CacheInv, [Next]_vars
    PROVE  CacheInv'
<1>1. CASE UNCHANGED vars
  BY <1>1 DEF vars, CacheInv, Types, Ring, Owned, Filled
<1>2. ASSUME NEW h \in Handle, NewList(h) PROVE CacheInv'
  BY <1>2 DEF NewList, CacheInv, Types, Ring, Owned, Filled
<1>3. ASSUME NEW p \in Path, NEW h \in heap \ {arcinfo[n].hinfo : n \in Filled}, Add(p, h)
      PROVE  CacheInv'
  <2>1. /\ Types' /\ Ring' /\ Filled' = Filled \cup {nowno} /\ h \in Handle
        /\ arcinfo'[nowno].hinfo = h /\ arcinfo'[nowno].path = p
        /\ \A n \in Slot : n # nowno => arcinfo'[n] = arcinfo[n]
    BY <1>3, AddFills DEF CacheInv, Types
  <2>2. heap' = heap \ {arcinfo[nowno].hinfo} /\ Filled \subseteq Slot /\ nowno \in Slot
    BY <1>3 DEF Add, Replaced, Filled, CacheInv, Types
  <2>3. h # arcinfo[nowno].hinfo
    <3>1. CASE nowno \in Filled
      BY <1>3, <3>1
    <3>2. CASE nowno \notin Filled
      BY <2>1, <2>2, <3>2 DEF Filled, InfoCacheAssumption
    <3> QED  BY <3>1, <3>2
  <2>4. ASSUME NEW n \in Filled'
        PROVE  arcinfo'[n].hinfo \in heap' /\ arcinfo'[n].path \in Path
    <3>1. CASE n = nowno
      BY <1>3, <2>1, <2>2, <2>3, <3>1
    <3>2. CASE n # nowno
      <4>1. n \in Filled /\ n \in Slot /\ arcinfo'[n] = arcinfo[n]
        BY <2>1, <2>2, <2>4, <3>2
      <4>2. arcinfo[n].hinfo # arcinfo[nowno].hinfo
        BY <2>2, <3>2, <4>1 DEF CacheInv, Owned, Filled
      <4> QED  BY <2>2, <4>1, <4>2 DEF CacheInv, Owned
    <3> QED  BY <3>1, <3>2
  <2>5. ASSUME NEW m \in Filled', NEW n \in Filled', arcinfo'[m].hinfo = arcinfo'[n].hinfo
        PROVE  m = n
    <3>1. \A k \in Filled' : k # nowno => k \in Filled /\ arcinfo'[k] = arcinfo[k]
      BY <2>1, <2>2
    <3>2. \A k \in Filled' : k # nowno => arcinfo'[k].hinfo # h
      BY <1>3, <3>1
    <3> QED  BY <2>1, <2>5, <3>1, <3>2 DEF CacheInv, Owned
  <2> QED  BY <2>1, <2>4, <2>5 DEF CacheInv, Owned
<1>4. CASE Clear
  <2>1. Types'
    BY <1>4 DEF Clear, CacheInv, Types, Slot, SlotState, InfoCacheAssumption
  <2>2. Filled' = {} /\ nowno' = 0
    BY <1>4 DEF Clear, CacheInv, Types, Filled
  <2> QED  BY <2>1, <2>2 DEF CacheInv, Ring, Owned
<1> QED  BY <1>1, <1>2, <1>3, <1>4 DEF Next

\* The cache starts empty.
LEMMA CacheInvInit ==
    ASSUME InfoCacheAssumption, Init
    PROVE  CacheInv /\ Filled = {}
<1>1. Types
  BY DEF Init, EmptySlot, Types, Slot, SlotState, InfoCacheAssumption
<1>2. Filled = {}
  BY DEF Init, EmptySlot, Filled
<1> QED  BY <1>1, <1>2 DEF Init, CacheInv, Ring, Owned

----------------------------------------------------------------------------
(* What the ring promises *)

\* The lists remembered, oldest first.
R == [i \in 1..Count |-> arcinfo[(nowno - (Count + 1 - i)) % Size]]

\* Looking back from the newest list is reading R from its end.
LEMMA RecentIs ==
    ASSUME InfoCacheAssumption, CacheInv
    PROVE  /\ Count \in Nat /\ R \in Seq(SlotState) /\ Len(R) = Count
           /\ \A i \in 1..Count : R[i] = arcinfo[Back(Count + 1 - i)]
           /\ \A i \in 1..Count : Back(Count + 1 - i) \in Filled
<1>1. Count \in Nat
  BY CountIs DEF CacheInv, InfoCacheAssumption
<1>2. \A i \in 1..Count : Count + 1 - i \in 1..Count
  BY <1>1
<1>3. \A i \in 1..Count : Back(Count + 1 - i) \in Filled
  BY <1>2, SearchedIs DEF CacheInv
<1>4. \A i \in 1..Count : R[i] = arcinfo[Back(Count + 1 - i)]
  BY DEF R, Back
<1>5. \A i \in 1..Count : R[i] \in SlotState
  BY <1>3, <1>4 DEF CacheInv, Types, Filled
<1>6. R \in [1..Count -> SlotState]
  BY <1>5 DEF R
<1> QED  BY <1>1, <1>3, <1>4, <1>6

\* The search for a path finds the newest list of it, which has not been freed.
LEMMA FindsNewest ==
    ASSUME InfoCacheAssumption, CacheInv
    PROVE  SearchFindsNewest
<1> SUFFICES ASSUME NEW p \in Path
             PROVE  GetCache(p) = Recent!Newest(p) /\ GetCache(p) \in heap \cup {NULL}
  BY DEF SearchFindsNewest
<1> DEFINE hits == {j \in 1..Count : arcinfo[Back(j)].path = p}
           at == {i \in 1..Count : R[i].path = p}
<1>1. GetCache(p) = IF hits = {} THEN NULL
                    ELSE arcinfo[Back(CHOOSE j \in hits : \A k \in hits : j <= k)].hinfo
  BY SearchedIs DEF CacheInv, GetCache
<1>2. DOMAIN R = 1..Count
  BY DEF R
<1>3. Recent!Newest(p) = IF at = {} THEN NULL
                         ELSE R[CHOOSE i \in at : \A j \in at : j <= i].hinfo
  <2>1. Recent!Newest(p) =
          IF {i \in DOMAIN R : R[i].path = p} = {} THEN NULL
          ELSE R[CHOOSE i \in {k \in DOMAIN R : R[k].path = p} :
                    \A j \in {k \in DOMAIN R : R[k].path = p} : j <= i].hinfo
    BY DEF Recent!Newest, R
  <2> QED  BY <1>2, <2>1
<1>4. Count \in Nat
  BY RecentIs
<1>5. \A i \in 1..Count : i \in at <=> Count + 1 - i \in hits
  BY <1>4, RecentIs
<1>6. \A j \in 1..Count : j \in hits <=> Count + 1 - j \in at
  <2> TAKE j \in 1..Count
  <2>1. Count + 1 - j \in 1..Count /\ Count + 1 - (Count + 1 - j) = j
    BY <1>4
  <2> QED  BY <1>5, <2>1
<1>7. hits \subseteq 1..Count /\ at \subseteq 1..Count
  OBVIOUS
<1>8. \A j \in hits : arcinfo[Back(j)].hinfo \in heap
  BY SearchedIs DEF CacheInv, Owned
<1>9. \A i \in 1..Count : R[i] = arcinfo[Back(Count + 1 - i)]
  BY RecentIs
<1> HIDE DEF hits, at
<1>10. CASE hits = {}
  <2>1. at = {}
    BY <1>5, <1>7, <1>10
  <2> QED  BY <1>1, <1>3, <1>10, <2>1
<1>11. CASE hits # {}
  <2>1. \E j \in hits : \A k \in hits : j <= k
    BY <1>4, <1>7, <1>11, Least
  <2> DEFINE j0 == CHOOSE j \in hits : \A k \in hits : j <= k
             i0 == CHOOSE i \in at : \A k \in at : k <= i
  <2>2. j0 \in hits /\ \A k \in hits : j0 <= k
    BY <2>1
  <2> HIDE DEF j0
  <2>3. j0 \in 1..Count /\ Count + 1 - j0 \in at
    BY <1>6, <1>7, <2>2
  <2>4. \A k \in at : k <= Count + 1 - j0
    <3> TAKE k \in at
    <3>1. k \in 1..Count /\ Count + 1 - k \in hits
      BY <1>5, <1>7
    <3> QED  BY <1>4, <2>2, <2>3, <3>1
  <2>5. i0 \in at /\ \A k \in at : k <= i0
    BY <2>3, <2>4
  <2> HIDE DEF i0
  <2>6. i0 = Count + 1 - j0 /\ i0 \in 1..Count
    BY <1>4, <1>7, <2>3, <2>4, <2>5
  <2>7. Count + 1 - i0 = j0
    BY <1>4, <2>3, <2>6
  <2>8. at # {}
    BY <2>3
  <2>9. GetCache(p) = arcinfo[Back(j0)].hinfo /\ Recent!Newest(p) = R[i0].hinfo
    BY <1>1, <1>3, <1>11, <2>8 DEF j0, i0
  <2> QED  BY <1>8, <1>9, <2>2, <2>6, <2>7, <2>9
<1> QED  BY <1>10, <1>11

\* What a state of the cache says of the lists remembered.
RingFacts ==
    /\ Count = IF Filled = Slot THEN Size ELSE nowno
    /\ Count \in 0..Size
    /\ R \in Seq(SlotState) /\ Len(R) = Count
    /\ \A i \in 1..Count : \A n \in Slot :
          n \in {nowno - (Count + 1 - i), nowno - (Count + 1 - i) + Size} => R[i] = arcinfo[n]

\* The invariant of the ring says so of every call.
LEMMA RingFactsHold == InfoCacheAssumption /\ CacheInv => RingFacts
<1> SUFFICES ASSUME InfoCacheAssumption, CacheInv PROVE RingFacts
  OBVIOUS
<1>1. /\ Count = IF Filled = Slot THEN Size ELSE nowno
      /\ Count \in 0..Size
  BY CountIs DEF CacheInv
<1>2. \A i \in 1..Count : R[i] = arcinfo[(nowno - (Count + 1 - i)) % Size]
  BY DEF R
<1>3. ASSUME NEW i \in 1..Count, NEW n \in Slot,
             n \in {nowno - (Count + 1 - i), nowno - (Count + 1 - i) + Size}
      PROVE  R[i] = arcinfo[n]
  <2>1. Count \in Nat /\ Count <= Size /\ Size \in Nat \ {0} /\ nowno \in 0..Size - 1
    BY <1>1 DEF InfoCacheAssumption, CacheInv, Types, Slot
  <2>2. Count + 1 - i \in 1..Size
    BY <2>1
  <2>3. (nowno - (Count + 1 - i)) % Size = n
    BY <1>3, <2>1, <2>2, Backward DEF Slot
  <2> QED  BY <1>2, <2>3
<1> QED  BY <1>1, <1>3, RecentIs DEF RingFacts

\* The lists remembered before and after an Add.
LEMMA AddAppends ==
    ASSUME InfoCacheAssumption, CacheInv, NEW p \in Path, NEW h \in heap, Add(p, h), CacheInv'
    PROVE  /\ R \in Seq(SlotState) /\ R' \in Seq(SlotState)
           /\ Len(R) < Size => /\ Len(R') = Len(R) + 1
                               /\ \A i \in 1..Len(R) : R'[i] = R[i]
           /\ Len(R) = Size => /\ Len(R') = Size
                               /\ \A i \in 1..Size - 1 : R'[i] = R[i + 1]
           /\ R'[Len(R')] = [hinfo |-> h, path |-> p]
           /\ Len(R) \in 0..Size
<1>1. RingFacts /\ RingFacts'
  <2>1. (InfoCacheAssumption /\ CacheInv => RingFacts)'
    BY RingFactsHold, PTL
  <2> QED  BY <2>1, RingFactsHold
<1>2. /\ \A n \in Slot : n # nowno => arcinfo'[n] = arcinfo[n]
      /\ arcinfo'[nowno] = [hinfo |-> h, path |-> p]
      /\ nowno' = IF nowno = Size - 1 THEN 0 ELSE nowno + 1
      /\ Filled' = Filled \cup {nowno} /\ nowno \in Slot
  BY AddFills DEF Add, CacheInv, Types
<1>3. Size \in Nat \ {0} /\ nowno \in 0..Size - 1
  BY <1>2 DEF InfoCacheAssumption, Slot
<1>4. CASE Filled = Slot
  <2>1. Count = Size /\ Count' = Size
    BY <1>1, <1>2, <1>4 DEF RingFacts
  <2>2. ASSUME NEW i \in 1..Size - 1 PROVE R'[i] = R[i + 1]
    <3> DEFINE n == IF nowno + i < Size THEN nowno + i ELSE nowno + i - Size
    <3>1. n \in Slot /\ n # nowno
      BY <1>3 DEF Slot
    <3>2. n \in {nowno - (Count + 1 - (i + 1)), nowno - (Count + 1 - (i + 1)) + Size}
      BY <1>3, <2>1
    <3>3. n \in {nowno' - (Count' + 1 - i), nowno' - (Count' + 1 - i) + Size}
      BY <1>2, <1>3, <2>1
    <3>4. i \in 1..Count' /\ i + 1 \in 1..Count
      BY <1>3, <2>1
    <3> HIDE DEF n
    <3>5. R[i + 1] = arcinfo[n]
      BY <1>1, <3>1, <3>2, <3>4 DEF RingFacts
    <3>6. R'[i] = arcinfo'[n]
      BY <1>1, <3>1, <3>3, <3>4 DEF RingFacts
    <3> QED  BY <1>2, <3>1, <3>5, <3>6
  <2>3. R'[Size] = arcinfo'[nowno]
    <3>1. Size \in 1..Count'
      BY <1>3, <2>1
    <3>2. nowno \in {nowno' - (Count' + 1 - Size), nowno' - (Count' + 1 - Size) + Size}
      BY <1>2, <1>3, <2>1
    <3> QED  BY <1>1, <1>2, <3>1, <3>2 DEF RingFacts
  <2> QED  BY <1>1, <1>2, <1>3, <2>1, <2>2, <2>3 DEF RingFacts
<1>5. CASE Filled # Slot
  <2>1. Filled = 0..nowno - 1 /\ Count = nowno
    BY <1>1, <1>5 DEF RingFacts, CacheInv, Ring
  <2>2. Filled' = 0..nowno
    BY <1>2, <1>3, <2>1
  <2>3. Count' = nowno + 1
    <3>1. CASE nowno = Size - 1
      BY <1>1, <1>3, <2>2, <3>1 DEF RingFacts, Slot
    <3>2. CASE nowno # Size - 1
      <4>1. nowno + 1 \in Slot /\ nowno + 1 \notin Filled'
        BY <1>3, <2>2, <3>2 DEF Slot
      <4> QED  BY <1>1, <1>2, <3>2, <4>1 DEF RingFacts
    <3> QED  BY <3>1, <3>2
  <2>4. ASSUME NEW i \in 1..nowno PROVE R'[i] = R[i]
    <3> DEFINE n == i - 1
    <3>1. n \in Slot /\ n # nowno /\ i \in 1..Count /\ i \in 1..Count'
      BY <1>3, <2>1, <2>3 DEF Slot
    <3>2. n = nowno - (Count + 1 - i)
      BY <1>3, <2>1
    <3>3. n \in {nowno' - (Count' + 1 - i), nowno' - (Count' + 1 - i) + Size}
      BY <1>2, <1>3, <2>3
    <3> HIDE DEF n
    <3>4. R[i] = arcinfo[n]
      BY <1>1, <3>1, <3>2 DEF RingFacts
    <3>5. R'[i] = arcinfo'[n]
      BY <1>1, <3>1, <3>3 DEF RingFacts
    <3> QED  BY <1>2, <3>1, <3>4, <3>5
  <2>5. R'[nowno + 1] = arcinfo'[nowno]
    <3>1. nowno + 1 \in 1..Count'
      BY <1>3, <2>3
    <3>2. nowno \in {nowno' - (Count' + 1 - (nowno + 1)),
                     nowno' - (Count' + 1 - (nowno + 1)) + Size}
      BY <1>2, <1>3, <2>3
    <3> QED  BY <1>1, <1>2, <3>1, <3>2 DEF RingFacts
  <2> QED  BY <1>1, <1>2, <1>3, <2>1, <2>3, <2>4, <2>5 DEF RingFacts
<1> QED  BY <1>4, <1>5

\* A new list is appended, and the oldest one dropped when there is no room.
LEMMA AddImplements ==
    ASSUME InfoCacheAssumption, CacheInv, NEW p \in Path, NEW h \in heap, Add(p, h), CacheInv'
    PROVE  \E e \in Recent!Entry : Recent!Add(e)
<1> DEFINE e == [hinfo |-> h, path |-> p]
           s == Append(R, e)
           w == IF Len(s) > Size THEN Tail(s) ELSE s
<1>1. e \in SlotState /\ e \in Recent!Entry
  BY DEF CacheInv, Types, SlotState, Recent!Entry
<1>2. /\ R \in Seq(SlotState) /\ R' \in Seq(SlotState) /\ Size \in Nat \ {0}
      /\ Len(R) < Size => /\ Len(R') = Len(R) + 1
                          /\ \A i \in 1..Len(R) : R'[i] = R[i]
      /\ Len(R) = Size => /\ Len(R') = Size
                          /\ \A i \in 1..Size - 1 : R'[i] = R[i + 1]
      /\ R'[Len(R')] = e
      /\ Len(R) \in 0..Size
  BY AddAppends DEF InfoCacheAssumption
<1> HIDE DEF e, R
<1>3. /\ s \in Seq(SlotState) /\ Len(s) = Len(R) + 1
      /\ \A i \in 1..Len(R) : s[i] = R[i]
      /\ s[Len(R) + 1] = e
  BY <1>1, <1>2
<1> HIDE DEF s
<1>4. R' = w
  <2>1. CASE Len(R) < Size
    <3>1. w = s /\ Len(R') = Len(s) /\ \A i \in 1..Len(s) : R'[i] = s[i]
      BY <1>2, <1>3, <2>1
    <3> QED  BY <1>2, <1>3, <3>1, SeqEqual
  <2>2. CASE Len(R) = Size
    <3>1. w = Tail(s) /\ s # << >>
      BY <1>2, <1>3, <2>2
    <3>2. /\ Tail(s) \in Seq(SlotState) /\ Len(Tail(s)) = Size
          /\ \A i \in 1..Size : Tail(s)[i] = s[i + 1]
      BY <1>2, <1>3, <2>2, <3>1
    <3>3. \A i \in 1..Size : R'[i] = Tail(s)[i]
      <4> TAKE i \in 1..Size
      <4>1. CASE i = Size
        BY <1>2, <1>3, <2>2, <3>2, <4>1
      <4>2. CASE i # Size
        <5>1. i \in 1..Size - 1 /\ i + 1 \in 1..Len(R)
          BY <1>2, <2>2, <4>2
        <5> QED  BY <1>2, <1>3, <2>2, <3>2, <5>1
      <4> QED  BY <4>1, <4>2
    <3> QED  BY <1>2, <2>2, <3>1, <3>2, <3>3, SeqEqual
  <2> QED  BY <1>2, <2>1, <2>2
<1>5. Recent!Add(e)
  BY <1>4 DEF Recent!Add, R, s
<1> QED  BY <1>1, <1>5

\* The slots implement the list of the lists made last.
THEOREM Implements == InfoCacheAssumption /\ Spec => ImplementsRecentLists
<1> SUFFICES ASSUME InfoCacheAssumption PROVE Spec => ImplementsRecentLists
  OBVIOUS
<1>1. Init => CacheInv
  BY CacheInvInit
<1>2. CacheInv /\ [Next]_vars => CacheInv'
  BY CacheInvStep
<1>3. Init => Recent!Init
  <2> SUFFICES ASSUME Init PROVE R = << >>
    BY DEF Recent!Init, R
  <2>1. Count = 0
    BY CacheInvInit, FS_EmptySet DEF Count
  <2> QED  BY <2>1 DEF R
<1>4. CacheInv /\ CacheInv' /\ [Next]_vars => [Recent!Next]_R
  <2> SUFFICES ASSUME CacheInv, CacheInv', [Next]_vars PROVE [Recent!Next]_R
    OBVIOUS
  <2>1. CASE UNCHANGED vars
    BY <2>1 DEF vars, R, Count, Filled
  <2>2. ASSUME NEW h \in Handle, NewList(h) PROVE UNCHANGED R
    BY <2>2 DEF NewList, R, Count, Filled
  <2>3. ASSUME NEW p \in Path, NEW h \in heap \ {arcinfo[n].hinfo : n \in Filled}, Add(p, h)
        PROVE  Recent!Next
    BY <2>3, AddImplements DEF Recent!Next
  <2>4. CASE Clear
    <3>1. Filled' = {}
      BY <2>4 DEF Clear, CacheInv, Types, Filled
    <3>2. Count' = 0
      BY <3>1, FS_EmptySet DEF Count
    <3>3. R' = << >>
      BY <3>2 DEF R
    <3> QED  BY <3>3 DEF Recent!Next, Recent!Clear, R
  <2> QED  BY <2>1, <2>2, <2>3, <2>4 DEF Next
<1> QED  BY <1>1, <1>2, <1>3, <1>4, PTL DEF Spec, ImplementsRecentLists, Recent!Spec, R

\* GetCache, which stops at an empty slot, finds the newest list of the path.
THEOREM SearchIsRight == InfoCacheAssumption /\ Spec => []SearchFindsNewest
<1> SUFFICES ASSUME InfoCacheAssumption PROVE Spec => []SearchFindsNewest
  OBVIOUS
<1>1. Init => CacheInv
  BY CacheInvInit
<1>2. CacheInv /\ [Next]_vars => CacheInv'
  BY CacheInvStep
<1>3. CacheInv => SearchFindsNewest
  BY FindsNewest
<1> QED  BY <1>1, <1>2, <1>3, PTL DEF Spec

\* The invariant of the ring.
THEOREM RingHolds == InfoCacheAssumption /\ Spec => []CacheInv
<1> SUFFICES ASSUME InfoCacheAssumption PROVE Spec => []CacheInv
  OBVIOUS
<1>1. Init => CacheInv
  BY CacheInvInit
<1>2. CacheInv /\ [Next]_vars => CacheInv'
  BY CacheInvStep
<1> QED  BY <1>1, <1>2, PTL DEF Spec
=============================================================================
