---------------------------- MODULE RecentLists ----------------------------
(***************************************************************************)
(* What the information cache promises: it remembers the lists of the Size *)
(* archives listed last, oldest first, and owns their memory.              *)
(***************************************************************************)
EXTENDS Sequences, Naturals

CONSTANTS Path, Handle, Size, NULL

VARIABLE recent

Entry == [hinfo : Handle, path : Path]

Init == recent = <<>>

\* A new list is remembered; when there is no room the oldest is forgotten.
Add(e) ==
    LET s == Append(recent, e) IN
    recent' = IF Len(s) > Size THEN Tail(s) ELSE s

Clear == recent' = <<>>

Next == Clear \/ \E e \in Entry : Add(e)

Spec == Init /\ [][Next]_recent

\* The list remembered last for a path.
Newest(p) ==
    LET at == {i \in DOMAIN recent : recent[i].path = p} IN
    IF at = {} THEN NULL
    ELSE recent[CHOOSE i \in at : \A j \in at : j <= i].hinfo

\* The lists it owns.
Owned == {recent[i].hinfo : i \in DOMAIN recent}
=============================================================================
