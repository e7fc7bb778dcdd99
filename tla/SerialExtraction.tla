-------------------------- MODULE SerialExtraction --------------------------
(***************************************************************************)
(* What SolidFileCache::Extract and class Queue promise to those who call  *)
(* them: jobs that extract whole archives, one at a time, and requests for *)
(* single items that are answered when the item is available or when the   *)
(* job the request has joined is over.  Who waits by a means that may      *)
(* return for no reason may leave early.  The specification says what each *)
(* job, each request and the set of items may do in one step; a step may   *)
(* do several of these at once, as every operation of the queue also       *)
(* collects the threads that have ended.                                   *)
(***************************************************************************)
CONSTANTS
    Archive, Item, Caller,
    MayLeaveEarly     \* a request that has joined a job may be given up

VARIABLES
    job,        \* the state of each archive's job
    available,  \* the items that can be had
    request     \* the request of each caller

vars == <<job, available, request>>

None == [state |-> "none"]
Request(s, k) == [state |-> s, key |-> k]

Init ==
    /\ job = [a \in Archive |-> "none"]
    /\ available = {}
    /\ request = [r \in Caller |-> None]

Running == {a \in Archive : job[a] = "running"}

\* A job is created for a request, runs alone, ends, and is forgotten.
JobStep(a) ==
    \/ job'[a] = job[a]
    \/ /\ job[a] = "none" /\ job'[a] = "queued"
       /\ \E r \in Caller : request[r].state = "asked" /\ request[r].key[1] = a
    \/ job[a] = "queued" /\ job'[a] = "running" /\ Running = {}
    \/ job[a] = "running" /\ job'[a] = "over"
    \/ job[a] = "over" /\ job'[a] = "none"

\* Items come from the job that runs, and go only to make room for others.
ItemStep ==
    \/ available' = available
    \/ \E a \in Running, i \in Item : available' = available \cup {<<a, i>>}
    \/ Running # {} /\ \E k \in available : available' = available \ {k}

\* Whether the request of r may be answered.
MayTell(r) ==
    \/ request[r].key \in available
    \/ request[r].state = "joined" /\ job'[request[r].key[1]] \in {"over", "none"}

RequestStep(r) ==
    \/ request'[r] = request[r]
    \/ /\ request[r].state = "none"
       /\ \E k \in Archive \X Item : request'[r] = Request("asked", k)
    \/ /\ request[r].state = "asked" /\ job'[request[r].key[1]] # "none"
       /\ request'[r] = Request("joined", request[r].key)
    \/ /\ request[r].state \in {"asked", "joined"} /\ MayTell(r)
       /\ request'[r] = Request("told", request[r].key)
    \/ /\ MayLeaveEarly /\ request[r].state = "joined"
       /\ request'[r] = Request("early", request[r].key)
    \/ request[r].state \in {"told", "early"} /\ request'[r] = None

Next ==
    /\ job' \in [Archive -> {"none", "queued", "running", "over"}]
    /\ \A a \in Archive : JobStep(a)
    /\ ItemStep
    /\ DOMAIN request' = Caller
    /\ \A r \in Caller : RequestStep(r)

Spec == Init /\ [][Next]_vars
=============================================================================
