---------------------------- MODULE ExtractQueue ----------------------------
(***************************************************************************)
(* How a GetFile call waits for the background extraction: class Queue     *)
(* (threads and condition variables), SolidFileCache::Extract, the         *)
(* notifications of SolidCache::Cached and of Extractor::Cleanup, and the  *)
(* reference count that keeps the DLL loaded while threads run.            *)
(*                                                                         *)
(* Extract works under SolidCache::m_sm ("lock"), but the extractor thread *)
(* calls the queue without it, so its steps interleave with the steps of a *)
(* caller that holds the lock.  What the cache contains is reduced to the  *)
(* set of items marked complete; an append may evict any of them.          *)
(***************************************************************************)
EXTENDS Integers, FiniteSets

CONSTANTS
    Archive, Caller,
    NumItems,     \* items of an archive, extracted in order
    NoOne,        \* nobody holds the lock
    Spurious,     \* wait_for may return without a notification or a time-out
    MaxCalls      \* bound on the GetFile calls the host makes

Item == 1..NumItems

ASSUME QueueAssumption ==
    /\ Archive # {} /\ NumItems \in Nat /\ MaxCalls \in Nat
    /\ NoOne \notin Caller /\ Spurious \in BOOLEAN
    /\ IsFiniteSet(Archive) /\ IsFiniteSet(Caller)

VARIABLES
    lock,      \* the caller that holds m_sm, or NoOne
    thread,    \* Queue::threads and the state of each thread
    cvs,       \* the keys of Queue::cvs
    ext,       \* the extractor that owns the named mutex
    cached,    \* the items IsCached_ is true for
    call,      \* each caller's GetFileExImp_Caching; "shares": its condition
               \* variable is the one Queue::cvs has for its key; "early":
               \* history, what it took for a notification was none
    inner,     \* the call made from the message pump of each caller, or NoOne
    refs,      \* references to the DLL beyond the host's own
    host,      \* the host still has the DLL loaded
    calls      \* calls made so far

vars == <<lock, thread, cvs, ext, cached, call, inner, refs, host, calls>>

AnArchive == CHOOSE a \in Archive : TRUE
Idle == [pc |-> "idle", a |-> AnArchive, i |-> 0]
NoCall == [pc |-> "idle", a |-> AnArchive, i |-> 0, shares |-> FALSE,
           signaled |-> FALSE, early |-> FALSE]
Asked(a, i) == [pc |-> "enter", a |-> a, i |-> i, shares |-> FALSE,
                signaled |-> FALSE, early |-> FALSE]

Init ==
    /\ lock = NoOne
    /\ thread = [a \in Archive |-> "none"]
    /\ cvs = {}
    /\ ext = Idle
    /\ cached = {}
    /\ call = [r \in Caller |-> NoCall]
    /\ inner = [r \in Caller |-> NoOne]
    /\ refs = 0 /\ host = TRUE /\ calls = 0

\* Threads that run code of the DLL.
Live == {a \in Archive : thread[a] \in {"created", "running", "cleaned"}}

----------------------------------------------------------------------------
(* Queue *)

\* notify_all on the condition variables of the keys K, which wakes those who
\* share them and sleep, and erase(): the others are left with one that
\* nobody will ever notify.
Key(r) == <<call[r].a, call[r].i>>
Notified(K) ==
    [r \in Caller |->
        IF call[r].shares /\ Key(r) \in K
        THEN IF call[r].pc = "sleep"
             THEN [call[r] EXCEPT !.pc = "woken", !.signaled = TRUE, !.shares = FALSE]
             ELSE [call[r] EXCEPT !.shares = FALSE]
        ELSE call[r]]

\* CleanupAll: join the threads that have ended, wake those who wait for
\* their archives and forget both.  It is the first thing every operation of
\* the queue does.
Ended == {a \in Archive : thread[a] = "exited"}
EndedKeys == Ended \X Item
ThreadsLeft == [a \in Archive |-> IF a \in Ended THEN "none" ELSE thread[a]]
BadCondVarsLeft == cvs
CondVarsLeft == cvs \ EndedKeys
Woken == Notified(EndedKeys)

----------------------------------------------------------------------------
(* A caller: GetFileExImp_Caching and SolidFileCache::Extract              *)

\* A call is made by a thread of the host that has none under way, or by the
\* handler of a message that the pump of another call dispatches: then the
\* other cannot go on before this one has returned.
CalledFrom(r) ==
    \/ UNCHANGED inner
    \/ \E q \in Caller : /\ call[q].pc = "woken" /\ inner[q] = NoOne
                         /\ inner' = [inner EXCEPT ![q] = r]

\* IncrementDLLRefCount, then Extract.
BadCall(r, a, i) ==
    /\ call[r].pc = "idle" /\ host /\ calls < MaxCalls
    /\ call' = [call EXCEPT ![r] = Asked(a, i)]
    /\ refs' = IF thread[a] = "none" THEN refs + 1 ELSE refs
    /\ calls' = calls + 1
    /\ CalledFrom(r)
    /\ UNCHANGED <<lock, thread, cvs, ext, cached, host>>
Call(r, a, i) ==
    /\ call[r].pc = "idle" /\ host /\ calls < MaxCalls
    /\ call' = [call EXCEPT ![r] = Asked(a, i)]
    /\ refs' = refs + 1
    /\ calls' = calls + 1
    /\ CalledFrom(r)
    /\ UNCHANGED <<lock, thread, cvs, ext, cached, host>>

\* Take the lock; nothing to do if the item is cached by now.
Enter(r) ==
    /\ call[r].pc = "enter" /\ lock = NoOne
    /\ IF <<call[r].a, call[r].i>> \in cached
       THEN /\ call' = [call EXCEPT ![r].pc = "done"]
            /\ UNCHANGED lock
       ELSE /\ call' = [call EXCEPT ![r].pc = "getCondVar"]
            /\ lock' = r
    /\ UNCHANGED <<thread, cvs, ext, cached, inner, refs, host, calls>>

GetCondVar(r) ==
    /\ call[r].pc = "getCondVar"
    /\ thread' = ThreadsLeft
    /\ cvs' = CondVarsLeft \cup {Key(r)}
    /\ call' = [Woken EXCEPT ![r].pc = "isQueued", ![r].shares = TRUE]
    /\ UNCHANGED <<lock, ext, cached, inner, refs, host, calls>>

IsQueued(r) ==
    /\ call[r].pc = "isQueued"
    /\ thread' = ThreadsLeft /\ cvs' = CondVarsLeft
    /\ call' = [Woken EXCEPT ![r].pc =
                  IF ThreadsLeft[call[r].a] = "none" THEN "invoke" ELSE "test"]
    /\ UNCHANGED <<lock, ext, cached, inner, refs, host, calls>>

Invoke(r) ==
    /\ call[r].pc = "invoke"
    /\ thread' = [ThreadsLeft EXCEPT ![call[r].a] =
                    IF @ = "none" THEN "created" ELSE @]
    /\ cvs' = CondVarsLeft
    /\ call' = [Woken EXCEPT ![r].pc = "test"]
    /\ UNCHANGED <<lock, ext, cached, inner, refs, host, calls>>

\* The condition of the waiting loop; its last part calls the queue.
BadTest(r) ==
    /\ call[r].pc = "test"
    /\ IF call[r].signaled \/ <<call[r].a, call[r].i>> \in cached
       THEN /\ call' = [call EXCEPT ![r].pc = "done"]
            /\ lock' = NoOne
       ELSE /\ call' = [call EXCEPT ![r].pc = "wait"]
            /\ UNCHANGED lock
    /\ UNCHANGED <<thread, cvs, ext, cached, inner, refs, host, calls>>
Test(r) ==
    /\ call[r].pc = "test"
    /\ IF call[r].signaled \/ <<call[r].a, call[r].i>> \in cached
       THEN /\ call' = [call EXCEPT ![r].pc = "done"]
            /\ lock' = NoOne
            /\ UNCHANGED <<thread, cvs>>
       ELSE /\ thread' = ThreadsLeft /\ cvs' = CondVarsLeft
            /\ IF ThreadsLeft[call[r].a] = "none"
               THEN /\ call' = [Woken EXCEPT ![r].pc = "done"]
                    /\ lock' = NoOne
               ELSE /\ call' = [Woken EXCEPT ![r].pc = "wait"]
                    /\ UNCHANGED lock
    /\ UNCHANGED <<ext, cached, inner, refs, host, calls>>

\* cv->wait_for releases the lock and sleeps ...
Sleep(r) ==
    /\ call[r].pc = "wait"
    /\ call' = [call EXCEPT ![r].pc = "sleep"]
    /\ lock' = NoOne
    /\ UNCHANGED <<thread, cvs, ext, cached, inner, refs, host, calls>>

\* ... for 500 ms at most.
Timeout(r) ==
    /\ call[r].pc = "sleep"
    /\ call' = [call EXCEPT ![r].pc = "woken"]
    /\ UNCHANGED <<lock, thread, cvs, ext, cached, inner, refs, host, calls>>

\* It may also return although nobody has notified it.  Extract takes every
\* return that is not a time-out for a notification.
SpuriousWakeup(r) ==
    /\ Spurious /\ call[r].pc = "sleep"
    /\ call' = [call EXCEPT ![r].pc = "woken", ![r].signaled = TRUE, ![r].early = TRUE]
    /\ UNCHANGED <<lock, thread, cvs, ext, cached, inner, refs, host, calls>>

\* The message pump is over and the lock is taken again.
Relock(r) ==
    /\ call[r].pc = "woken" /\ inner[r] = NoOne /\ lock = NoOne
    /\ call' = [call EXCEPT ![r].pc = "test"]
    /\ lock' = r
    /\ UNCHANGED <<thread, cvs, ext, cached, inner, refs, host, calls>>

Return(r) ==
    /\ call[r].pc = "done"
    /\ call' = [call EXCEPT ![r] = NoCall]
    /\ inner' = [q \in Caller |-> IF inner[q] = r THEN NoOne ELSE inner[q]]
    /\ UNCHANGED <<lock, thread, cvs, ext, cached, refs, host, calls>>

CallerStep(r) ==
    \/ Enter(r) \/ GetCondVar(r) \/ IsQueued(r) \/ Invoke(r) \/ Test(r)
    \/ Sleep(r) \/ Timeout(r) \/ SpuriousWakeup(r) \/ Relock(r) \/ Return(r)

----------------------------------------------------------------------------
(* The extractor threads *)

NextItem == [pc |-> "item", a |-> ext.a, i |-> ext.i + 1]

\* WaitForSingleObject on the named mutex returns.
BadStart(a) ==
    /\ thread[a] = "created"
    /\ thread' = [thread EXCEPT ![a] = "running"]
    /\ ext' = [pc |-> "item", a |-> a, i |-> 1]
    /\ UNCHANGED <<lock, cvs, cached, call, inner, refs, host, calls>>
Start(a) ==
    /\ thread[a] = "created" /\ ext.pc = "idle"
    /\ thread' = [thread EXCEPT ![a] = "running"]
    /\ ext' = [pc |-> "item", a |-> a, i |-> 1]
    /\ UNCHANGED <<lock, cvs, cached, call, inner, refs, host, calls>>

\* An append makes room for itself.
Evict(k) ==
    /\ ext.pc = "item" /\ lock = NoOne /\ k \in cached
    /\ cached' = cached \ {k}
    /\ UNCHANGED <<lock, thread, cvs, ext, call, inner, refs, host, calls>>

\* SolidCache::Cached marks the item, under the lock.
Mark ==
    /\ ext.pc = "item" /\ ext.i \in Item /\ lock = NoOne
    /\ cached' = cached \cup {<<ext.a, ext.i>>}
    /\ ext' = [ext EXCEPT !.pc = "existsCondVar"]
    /\ UNCHANGED <<lock, thread, cvs, call, inner, refs, host, calls>>

\* The item fails.
Skip ==
    /\ ext.pc = "item" /\ ext.i \in Item
    /\ ext' = NextItem
    /\ UNCHANGED <<lock, thread, cvs, cached, call, inner, refs, host, calls>>

\* m_queue.ExistsCondVar(sArchive, index), without the lock.
BadExistsCondVar ==
    /\ ext.pc = "existsCondVar"
    /\ thread' = ThreadsLeft /\ cvs' = CondVarsLeft /\ call' = Woken
    /\ ext' = [ext EXCEPT !.pc = IF <<ext.a, ext.i>> \in CondVarsLeft
                                 THEN "notifyCondVar" ELSE "item"]
    /\ UNCHANGED <<lock, cached, inner, refs, host, calls>>
ExistsCondVar ==
    /\ ext.pc = "existsCondVar"
    /\ thread' = ThreadsLeft /\ cvs' = CondVarsLeft /\ call' = Woken
    /\ ext' = IF <<ext.a, ext.i>> \in CondVarsLeft
              THEN [ext EXCEPT !.pc = "notifyCondVar"]
              ELSE NextItem
    /\ UNCHANGED <<lock, cached, inner, refs, host, calls>>

\* m_queue.NotifyCondVar(sArchive, index), without the lock.
BadNotifyCondVar ==
    /\ ext.pc = "notifyCondVar"
    /\ thread' = ThreadsLeft
    /\ cvs' = CondVarsLeft
    /\ call' = Woken
    /\ ext' = NextItem
    /\ UNCHANGED <<lock, cached, inner, refs, host, calls>>
NotifyCondVar ==
    LET K == EndedKeys \cup {<<ext.a, ext.i>>} IN
    /\ ext.pc = "notifyCondVar"
    /\ thread' = ThreadsLeft
    /\ cvs' = cvs \ K
    /\ call' = Notified(K)
    /\ ext' = NextItem
    /\ UNCHANGED <<lock, cached, inner, refs, host, calls>>

\* Extract() has returned, after the last item or before: at_thread_exit
\* runs Extractor::Cleanup, whose first step is Queue::Cleanup(sArchive), ...
QueueCleanup ==
    LET K == {ext.a} \X Item IN
    /\ ext.pc = "item"
    /\ cvs' = cvs \ K
    /\ call' = Notified(K)
    /\ thread' = [thread EXCEPT ![ext.a] = "cleaned"]
    /\ ext' = [ext EXCEPT !.pc = "release"]
    /\ UNCHANGED <<lock, cached, inner, refs, host, calls>>

\* ... the second is ReleaseMutex, ...
ReleaseMutex ==
    /\ ext.pc = "release"
    /\ ext' = Idle
    /\ UNCHANGED <<lock, thread, cvs, cached, call, inner, refs, host, calls>>

\* ... and the last FreeLibraryAndExitThread.
ExitThread(a) ==
    /\ thread[a] = "cleaned" /\ ~(ext.pc = "release" /\ ext.a = a)
    /\ thread' = [thread EXCEPT ![a] = "exited"]
    /\ refs' = refs - 1
    /\ UNCHANGED <<lock, cvs, ext, cached, call, inner, host, calls>>

Extractor ==
    \/ \E a \in Archive : Start(a)
    \/ Mark \/ Skip \/ ExistsCondVar \/ NotifyCondVar \/ QueueCleanup \/ ReleaseMutex

\* The host has no call under way and unloads the plug-in.
FreeLibrary ==
    /\ host /\ \A r \in Caller : call[r].pc = "idle"
    /\ host' = FALSE
    /\ UNCHANGED <<lock, thread, cvs, ext, cached, call, inner, refs, calls>>

Next ==
    \/ \E r \in Caller, a \in Archive, i \in Item : Call(r, a, i)
    \/ \E r \in Caller : CallerStep(r)
    \/ Extractor
    \/ \E a \in Archive : ExitThread(a)
    \/ \E k \in cached : Evict(k)
    \/ FreeLibrary

Spec == Init /\ [][Next]_vars

\* Threads are scheduled, and whoever asks for m_sm again and again gets it:
\* waiters hold it only between two sleeps.
Fairness ==
    /\ SF_vars(Extractor)
    /\ \A a \in Archive : WF_vars(ExitThread(a))
    /\ \A r \in Caller : SF_vars(CallerStep(r))

FairSpec == Spec /\ Fairness

----------------------------------------------------------------------------
(* Properties *)

\* The types of the variables.
TypeOK ==
    /\ lock \in Caller \cup {NoOne}
    /\ thread \in [Archive -> {"none", "created", "running", "cleaned", "exited"}]
    /\ cvs \subseteq Archive \X Item
    /\ ext \in [pc : {"idle", "item", "existsCondVar", "notifyCondVar", "release"},
                a : Archive, i : 0..NumItems + 1]
    /\ cached \subseteq Archive \X Item
    /\ call \in [Caller ->
          [pc : {"idle", "enter", "getCondVar", "isQueued", "invoke", "test",
                 "wait", "sleep", "woken", "done"},
           a : Archive, i : 0..NumItems, shares : BOOLEAN, signaled : BOOLEAN,
           early : BOOLEAN]]
    /\ \A r \in Caller : call[r].shares => Key(r) \in cvs
    /\ inner \in [Caller -> Caller \cup {NoOne}]
    /\ refs \in Nat /\ host \in BOOLEAN /\ calls \in 0..MaxCalls

\* A caller that sleeps on the registered condition variable of an item that
\* is cached is about to be woken: the extractor has marked the item and not
\* yet notified.  So a wake-up is never lost between the caller's test of
\* IsCached_ and its sleep, although the extractor notifies without the lock.
NoLostWakeup ==
    \A r \in Caller :
        call[r].pc = "sleep" /\ call[r].shares /\ Key(r) \in cached
        => ext.pc \in {"existsCondVar", "notifyCondVar"} /\ <<ext.a, ext.i>> = Key(r)

\* A condition variable is registered only while somebody will remove it: the
\* archive has a thread, or the caller that holds the lock is about to start
\* one.
NoStaleCondVar ==
    \A k \in cvs :
        \/ thread[k[1]] # "none"
        \/ \E r \in Caller : /\ lock = r /\ call[r].a = k[1]
                             /\ call[r].pc \in {"isQueued", "invoke"}

\* The DLL stays loaded while one of its threads runs, whenever the host
\* unloads it: there is a reference for every live thread and for every call
\* that may still start one.
ThreadsKeepLibrary ==
    refs >= Cardinality(Live)
            + Cardinality({r \in Caller : call[r].pc \in
                             {"enter", "getCondVar", "isQueued", "invoke"}})

\* Extract and the queue implement jobs that run one at a time and requests
\* that are answered for a reason, whatever the notifications, time-outs and
\* threads behind them: a call leaves Extract only with its item complete, or
\* after the extraction it waited for has ended, or - early - because wait_for
\* returned without a notification, and this only if it may.  The signalled
\* flag of Extract and its last return are the answer; a thread that has done
\* Queue::Cleanup is over.
JobOf(t) ==
    CASE t = "created" -> "queued"
      [] t \in {"cleaned", "exited"} -> "over"
      [] OTHER -> t
RequestOf(c) ==
    IF c.pc = "idle" THEN [state |-> "none"]
    ELSE [state |-> IF c.early THEN "early"
                    ELSE IF c.signaled \/ c.pc = "done" THEN "told"
                    ELSE IF c.pc \in {"test", "wait", "sleep", "woken"} THEN "joined"
                    ELSE "asked",
          key |-> <<c.a, c.i>>]
Serial == INSTANCE SerialExtraction WITH
    job <- [a \in Archive |-> JobOf(thread[a])],
    available <- cached,
    request <- [r \in Caller |-> RequestOf(call[r])],
    MayLeaveEarly <- Spurious
ImplementsSerialExtraction == Serial!Spec

\* Every GetFile call returns, whatever happens to its condition variable: no
\* caller stays in a call for ever.
EveryCallReturns ==
    \A r \in Caller : []<>(call[r].pc = "idle")

\* Every extraction that was queued runs to its end and gives its thread's
\* reference back: no archive has a live thread for ever.
EveryThreadEnds ==
    \A a \in Archive : []<>(a \notin Live)
=============================================================================
