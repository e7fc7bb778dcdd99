----------------------------- MODULE InfoCache -----------------------------
(***************************************************************************)
(* class InfoCache: the file lists of the archives listed last, in a ring  *)
(* of INFOCACHE_MAX slots searched by path.  The cache takes over the      *)
(* memory of a list that is added and frees it when its slot is used       *)
(* again.  Every operation runs in one critical section.                   *)
(***************************************************************************)
EXTENDS Integers, FiniteSets

CONSTANTS
    Path,      \* paths of archives
    Handle,    \* addresses LocalAlloc may return
    Size,      \* INFOCACHE_MAX
    NULL

InfoCacheAssumption == Size \in Nat \ {0} /\ NULL \notin Handle \cup Path

VARIABLES
    arcinfo,   \* the slots
    nowno,     \* the slot the next list goes to
    heap       \* the lists that have not been freed

vars == <<arcinfo, nowno, heap>>

Slot == 0..Size - 1
EmptySlot == [hinfo |-> NULL, path |-> NULL]

Init ==
    /\ arcinfo = [n \in Slot |-> EmptySlot]
    /\ nowno = 0
    /\ heap = {}

\* LocalAlloc; an address is used again once it has been freed.
NewList(h) ==
    /\ h \in Handle \ heap
    /\ heap' = heap \cup {h}
    /\ UNCHANGED <<arcinfo, nowno>>

Filled == {n \in Slot : arcinfo[n].hinfo # NULL}

Clear ==
    /\ heap' = heap \ {arcinfo[n].hinfo : n \in Filled}
    /\ arcinfo' = [n \in Slot |-> [arcinfo[n] EXCEPT !.hinfo = NULL]]
    /\ nowno' = 0

\* The list Add frees.
BadReplaced == arcinfo[(nowno + Size - 1) % Size].hinfo
Replaced == arcinfo[nowno].hinfo

BadNextSlot == nowno + 1
NextSlot == (nowno + 1) % Size

BadAdd(p, h) ==
    /\ heap' = heap \ {Replaced}
    /\ arcinfo' = [arcinfo EXCEPT ![nowno] = [hinfo |-> h, path |-> p]]
    /\ nowno' = IF Replaced = NULL THEN NextSlot ELSE nowno
Add(p, h) ==
    /\ heap' = heap \ {Replaced}
    /\ arcinfo' = [arcinfo EXCEPT ![nowno] = [hinfo |-> h, path |-> p]]
    /\ nowno' = NextSlot

\* The slots in the order GetCache looks at them, starting behind nowno; the
\* search ends at the first empty one.
BadBack(j) == (nowno + j - 1) % Size
Back(j) == (nowno - j) % Size
Searched == {j \in 1..Size : \A k \in 1..j : Back(k) \in Filled}
GetCache(p) ==
    LET hits == {j \in Searched : arcinfo[Back(j)].path = p} IN
    IF hits = {} THEN NULL
    ELSE arcinfo[Back(CHOOSE j \in hits : \A k \in hits : j <= k)].hinfo

Next ==
    \/ \E h \in Handle : NewList(h)
    \/ \E p \in Path, h \in heap \ {arcinfo[n].hinfo : n \in Filled} : Add(p, h)
    \/ Clear

Spec == Init /\ [][Next]_vars

----------------------------------------------------------------------------
\* The slots from the oldest to the newest.
Count == Cardinality(Filled)
Recent == INSTANCE RecentLists WITH
    recent <- [i \in 1..Count |-> arcinfo[(nowno - (Count + 1 - i)) % Size]]

\* The ring remembers the last Size lists, as RecentLists says, through wrap
\* around, replacement and Clear.
ImplementsRecentLists == Recent!Spec

\* The search of GetCache, which stops at an empty slot, finds the newest list
\* of the path, and nothing that has been freed.
SearchFindsNewest ==
    \A p \in Path : /\ GetCache(p) = Recent!Newest(p)
                    /\ GetCache(p) \in heap \cup {NULL}
=============================================================================
