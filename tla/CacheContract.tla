--------------------------- MODULE CacheContract ---------------------------
(***************************************************************************)
(* What the solid-archive cache promises to a host that reads one file at  *)
(* a time and whose files fit into memory.  GetFile looks an item up       *)
(* several times while the extractor works; the promise is that this       *)
(* cannot be told from a single look, made when GetFile returns: the whole *)
(* item if it is kept, a failure if it is neither kept nor on its way.     *)
(* What has been extracted is kept as long as the process lives.           *)
(***************************************************************************)
CONSTANTS Archive, Item, Caller

VARIABLES
    kept,     \* the items that have been extracted
    coming,   \* the items that an extraction asked for may still bring
    request   \* the GetFile call of each caller

vars == <<kept, coming, request>>

None == [state |-> "none"]
Request(s, k) == [state |-> s, key |-> k]

Init ==
    /\ kept = {} /\ coming = {}
    /\ request = [r \in Caller |-> None]

\* GetFile is called.
Ask(r, k) ==
    /\ request[r] = None
    /\ request' = [request EXCEPT ![r] = Request("asked", k)]
    /\ UNCHANGED <<kept, coming>>

\* For an item that is not kept its whole archive is extracted.
Begin(r) ==
    /\ request[r].state = "asked" /\ request[r].key \notin kept
    /\ coming' = coming \cup ({request[r].key[1]} \X Item)
    /\ UNCHANGED <<kept, request>>

\* An item comes and is kept.
Arrive(k) ==
    /\ k \in coming
    /\ kept' = kept \cup {k}
    /\ UNCHANGED <<coming, request>>

\* The extraction has passed some items, or is over.
Pass ==
    /\ coming' \subseteq coming
    /\ UNCHANGED <<kept, request>>

\* GetFile returns: with the whole item, or without.
Answer(r) ==
    LET k == request[r].key IN
    /\ request[r].state = "asked"
    /\ \/ /\ k \in kept
          /\ request' = [request EXCEPT ![r] = Request("ok", k)]
       \/ /\ k \notin kept \cup coming
          /\ request' = [request EXCEPT ![r] = Request("error", k)]
    /\ UNCHANGED <<kept, coming>>

Take(r) ==
    /\ request[r].state \in {"ok", "error"}
    /\ request' = [request EXCEPT ![r] = None]
    /\ UNCHANGED <<kept, coming>>

\* The process dies.
Die ==
    /\ kept' = {} /\ coming' = {}
    /\ request' = [r \in Caller |-> None]

Next ==
    \/ \E r \in Caller : Begin(r) \/ Answer(r) \/ Take(r)
    \/ \E r \in Caller, k \in Archive \X Item : Ask(r, k)
    \/ \E k \in Archive \X Item : Arrive(k)
    \/ Pass \/ Die

Spec == Init /\ [][Next]_vars
=============================================================================
