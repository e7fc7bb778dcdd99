------------------------- MODULE ExtractQueueProofs -------------------------
(***************************************************************************)
(* The safety properties of ExtractQueue, and that it implements           *)
(* SerialExtraction, for any archives, items, callers and number of calls. *)
(***************************************************************************)
EXTENDS ExtractQueue, FiniteSetTheorems, TLAPS

CallPC == {"idle", "enter", "getCondVar", "isQueued", "invoke", "test",
           "wait", "sleep", "woken", "done"}
CallState == [pc : CallPC, a : Archive, i : 0..NumItems, shares : BOOLEAN,
              signaled : BOOLEAN, early : BOOLEAN]
ExtState == [pc : {"idle", "item", "existsCondVar", "notifyCondVar", "release"},
             a : Archive, i : 0..NumItems + 1]
ThreadState == {"none", "created", "running", "cleaned", "exited"}

\* The types of everything but the counters.
TypesOK ==
    /\ lock \in Caller \cup {NoOne}
    /\ thread \in [Archive -> ThreadState]
    /\ cvs \subseteq Archive \X Item
    /\ ext \in ExtState
    /\ cached \subseteq Archive \X Item
    /\ call \in [Caller -> CallState]

\* A caller is in the locked part of Extract exactly when it holds the lock.
Holding == {"getCondVar", "isQueued", "invoke", "test", "wait"}
LockOK == \A r \in Caller : call[r].pc \in Holding <=> lock = r

\* The extractor that owns the named mutex has a thread that runs, and no other
\* thread does.
AtWork == {"item", "existsCondVar", "notifyCondVar"}
ExtOK ==
    /\ ext.pc \in AtWork => thread[ext.a] = "running"
    /\ ext.pc = "release" => thread[ext.a] = "cleaned"
    /\ \A a \in Archive : thread[a] = "running" => ext.pc \in AtWork /\ ext.a = a
    /\ ext.pc = "item" => ext.i >= 1
    /\ ext.pc \in {"existsCondVar", "notifyCondVar"} =>
          ext.i \in Item /\ <<ext.a, ext.i>> \in cached

\* What the place of a caller means.
CallOK(r) ==
    /\ call[r].pc # "idle" => call[r].i \in Item
    /\ call[r].signaled => call[r].pc \in {"woken", "test", "done"}
    /\ call[r].early => call[r].signaled
    /\ call[r].shares => Key(r) \in cvs
    /\ call[r].pc = "invoke" => thread[call[r].a] = "none"
    /\ call[r].pc = "wait" => Key(r) \notin cached

\* The inductive invariant but for the counters.
QueueInv ==
    /\ TypesOK /\ LockOK /\ ExtOK /\ \A r \in Caller : CallOK(r)
    /\ NoLostWakeup /\ NoStaleCondVar

\* The callers that may still start a thread, and the steps that add neither
\* such a caller nor a thread: all but Call and Invoke.
Starting == {r \in Caller : call[r].pc \in {"enter", "getCondVar", "isQueued", "invoke"}}
Settles == Live' \subseteq Live /\ Starting' \subseteq Starting

\* What SerialExtraction lets one thread, the cache and one caller do, in terms
\* of the variables of ExtractQueue.
ThreadStep(a) ==
    \/ thread'[a] = thread[a]
    \/ /\ thread[a] = "none" /\ thread'[a] = "created"
       /\ \E r \in Caller : call[r].a = a /\ call[r].pc = "invoke" /\ ~call[r].signaled /\ ~call[r].early
    \/ thread[a] = "created" /\ thread'[a] = "running" /\ ext.pc = "idle"
    \/ thread[a] = "running" /\ thread'[a] = "cleaned"
    \/ thread[a] = "cleaned" /\ thread'[a] = "exited"
    \/ thread[a] = "exited" /\ thread'[a] = "none"
CachedStep ==
    \/ cached' = cached
    \/ /\ ext.pc = "item"
       /\ \/ \E i \in Item : cached' = cached \cup {<<ext.a, i>>}
          \/ \E k \in cached : cached' = cached \ {k}
StateOf(c) ==
    IF c.early THEN "early"
    ELSE IF c.signaled \/ c.pc = "done" THEN "told"
    ELSE IF c.pc \in {"test", "wait", "sleep", "woken"} THEN "joined" ELSE "asked"
CallStep(r) ==
    LET c == call[r]
        d == call'[r]
    IN  \/ c.pc = "idle" /\ d.pc = "idle"
        \/ c.pc = "idle" /\ d.pc # "idle" /\ StateOf(d) = "asked" /\ d.i \in Item
        \/ c.pc # "idle" /\ StateOf(c) \in {"told", "early"} /\ d.pc = "idle"
        \/ /\ c.pc # "idle" /\ d.pc # "idle" /\ d.a = c.a /\ d.i = c.i
           /\ \/ StateOf(d) = StateOf(c)
              \/ StateOf(c) = "asked" /\ StateOf(d) = "joined" /\ thread'[c.a] # "none"
              \/ Spurious /\ StateOf(c) = "joined" /\ StateOf(d) = "early"
              \/ /\ StateOf(c) \notin {"told", "early"} /\ StateOf(d) = "told"
                 /\ \/ Key(r) \in cached
                    \/ /\ StateOf(c) = "joined"
                       /\ thread'[c.a] \in {"cleaned", "exited", "none"}
SerialStep == (\A a \in Archive : ThreadStep(a)) /\ CachedStep /\ \A r \in Caller : CallStep(r)

----------------------------------------------------------------------------
(* The operators of the queue *)

\* What notify_all and erase() on a set of keys do to one caller.
Told(K, g, r) ==
    /\ g[r].a = call[r].a /\ g[r].i = call[r].i /\ g[r].early = call[r].early
    /\ g[r].shares <=> call[r].shares /\ Key(r) \notin K
    /\ IF call[r].pc = "sleep" /\ call[r].shares /\ Key(r) \in K
       THEN g[r].pc = "woken" /\ g[r].signaled
       ELSE g[r].pc = call[r].pc /\ g[r].signaled = call[r].signaled

LEMMA NotifiedCall ==
    ASSUME call \in [Caller -> CallState], NEW K
    PROVE  /\ Notified(K) \in [Caller -> CallState]
           /\ \A r \in Caller : Told(K, Notified(K), r)
<1> DEFINE Woke(s) == [call[s] EXCEPT !.pc = "woken", !.signaled = TRUE, !.shares = FALSE]
           Left(s) == [call[s] EXCEPT !.shares = FALSE]
           New(s) == IF call[s].shares /\ Key(s) \in K
                     THEN IF call[s].pc = "sleep" THEN Woke(s) ELSE Left(s)
                     ELSE call[s]
<1>1. ASSUME NEW s \in Caller
      PROVE  /\ call[s] \in CallState /\ Woke(s) \in CallState /\ Left(s) \in CallState
             /\ Woke(s).a = call[s].a /\ Woke(s).i = call[s].i /\ Woke(s).pc = "woken"
             /\ Woke(s).signaled /\ ~Woke(s).shares /\ Woke(s).early = call[s].early
             /\ Left(s).a = call[s].a /\ Left(s).i = call[s].i /\ Left(s).pc = call[s].pc
             /\ Left(s).signaled = call[s].signaled /\ ~Left(s).shares
             /\ Left(s).early = call[s].early
  BY DEF CallState, CallPC
<1>2. Notified(K) = [s \in Caller |-> New(s)]
  BY DEF Notified
<1> HIDE DEF Woke, Left
<1>3. Notified(K) \in [Caller -> CallState]
  BY <1>1, <1>2
<1>4. \A r \in Caller : Notified(K)[r] = New(r)
  BY <1>2
<1> QED
  BY <1>1, <1>3, <1>4 DEF Told

\* CleanupAll forgets the ended threads and nothing else.
LEMMA ThreadsLeftType ==
    ASSUME thread \in [Archive -> ThreadState]
    PROVE  /\ ThreadsLeft \in [Archive -> ThreadState]
           /\ \A a \in Archive : /\ thread[a] = "exited" => ThreadsLeft[a] = "none"
                                 /\ thread[a] # "exited" => ThreadsLeft[a] = thread[a]
  BY DEF ThreadsLeft, Ended, ThreadState

\* A caller goes on to another place and keeps the rest.
Goes(f, g, r, v) ==
    /\ g \in [Caller -> CallState]
    /\ g[r].pc = v /\ g[r].a = f[r].a /\ g[r].i = f[r].i
    /\ g[r].shares = f[r].shares /\ g[r].signaled = f[r].signaled /\ g[r].early = f[r].early
    /\ \A s \in Caller \ {r} : g[s] = f[s]

----------------------------------------------------------------------------
(* The steps of a caller *)

LEMMA EnterInv ==
    ASSUME QueueInv, NEW r \in Caller, Enter(r), NoOne \notin Caller
    PROVE  QueueInv' /\ Settles /\ SerialStep
<1> USE DEF QueueInv
<1>1. /\ TypesOK /\ UNCHANGED <<thread, cvs, ext, cached>>
      /\ call[r].pc = "enter" /\ lock = NoOne
  BY DEF Enter
<1>2. CASE Key(r) \in cached
  <2>1. call' = [call EXCEPT ![r].pc = "done"] /\ lock' = lock
    BY <1>2 DEF Enter, Key
  <2>2. Goes(call, call', r, "done")
    BY <2>1, <1>1 DEF TypesOK, Goes, CallState, CallPC
  <2>3. QueueInv'
    BY <2>1, <2>2, <1>1 DEF Goes, TypesOK, LockOK, Holding, ExtOK, CallOK, Key,
         NoLostWakeup, NoStaleCondVar
  <2>4. Settles
    BY <1>1, <2>2 DEF Settles, Live, Starting, Goes
  <2>5. SerialStep
    BY <1>2, <1>1, <2>2 DEF SerialStep, ThreadStep, CachedStep, CallStep, StateOf, Goes, CallOK
  <2> QED
    BY <2>3, <2>4, <2>5
<1>3. CASE Key(r) \notin cached
  <2>1. call' = [call EXCEPT ![r].pc = "getCondVar"] /\ lock' = r
    BY <1>3 DEF Enter, Key
  <2>2. Goes(call, call', r, "getCondVar")
    BY <2>1, <1>1 DEF TypesOK, Goes, CallState, CallPC
  <2>3. QueueInv'
    BY <2>1, <2>2, <1>1 DEF Goes, TypesOK, LockOK, Holding, ExtOK, CallOK, Key,
         NoLostWakeup, NoStaleCondVar
  <2>4. Settles
    BY <1>1, <2>2 DEF Settles, Live, Starting, Goes
  <2>5. SerialStep
    BY <1>3, <1>1, <2>2 DEF SerialStep, ThreadStep, CachedStep, CallStep, StateOf, Goes, CallOK
  <2> QED
    BY <2>3, <2>4, <2>5
<1> QED
  BY <1>2, <1>3

LEMMA CallInv ==
    ASSUME QueueInv, NEW r \in Caller, NEW a \in Archive, NEW i \in Item, Call(r, a, i),
           QueueAssumption
    PROVE  /\ QueueInv' /\ SerialStep
           /\ Live' = Live /\ Starting' \subseteq Starting \cup {r}
<1> USE DEF QueueInv
<1>1. /\ TypesOK /\ UNCHANGED <<lock, thread, cvs, ext, cached>>
      /\ call[r].pc = "idle"
      /\ call' = [call EXCEPT ![r] = Asked(a, i)]
  BY DEF Call
<1>2. i \in Item /\ i \in 0..NumItems
  BY DEF Item, QueueAssumption
<1>3. /\ Asked(a, i) \in CallState /\ Asked(a, i).pc = "enter"
      /\ Asked(a, i).a = a /\ Asked(a, i).i = i
      /\ ~Asked(a, i).shares /\ ~Asked(a, i).signaled /\ ~Asked(a, i).early
  BY <1>2 DEF Asked, CallState, CallPC
<1>4. /\ call' \in [Caller -> CallState]
      /\ call'[r] = Asked(a, i)
      /\ \A s \in Caller \ {r} : call'[s] = call[s]
  BY <1>1, <1>3 DEF TypesOK
<1>5. QueueInv'
  BY <1>1, <1>2, <1>3, <1>4 DEF TypesOK, LockOK, Holding, ExtOK, CallOK, Key,
       NoLostWakeup, NoStaleCondVar
<1>6. SerialStep
  BY <1>1, <1>2, <1>3, <1>4 DEF SerialStep, ThreadStep, CachedStep, CallStep,
       StateOf
<1>7. Live' = Live /\ Starting' \subseteq Starting \cup {r}
  BY <1>1, <1>4 DEF Live, Starting
<1> QED
  BY <1>5, <1>6, <1>7

LEMMA SleepInv ==
    ASSUME QueueInv, NEW r \in Caller, Sleep(r), NoOne \notin Caller
    PROVE  QueueInv' /\ Settles /\ SerialStep
<1> USE DEF QueueInv
<1>1. /\ TypesOK /\ UNCHANGED <<thread, cvs, ext, cached>>
      /\ call[r].pc = "wait"
      /\ call' = [call EXCEPT ![r].pc = "sleep"] /\ lock' = NoOne
  BY DEF Sleep
<1>2. Goes(call, call', r, "sleep")
  BY <1>1 DEF TypesOK, Goes, CallState, CallPC
<1>3. QueueInv'
  BY <1>1, <1>2 DEF Goes, TypesOK, LockOK, Holding, ExtOK, CallOK, Key, NoLostWakeup,
       NoStaleCondVar
<1>4. Settles
  BY <1>1, <1>2 DEF Settles, Live, Starting, Goes
<1>5. SerialStep
  BY <1>1, <1>2 DEF SerialStep, ThreadStep, CachedStep, CallStep,
       StateOf, Goes
<1> QED
  BY <1>3, <1>4, <1>5

LEMMA TimeoutInv ==
    ASSUME QueueInv, NEW r \in Caller, Timeout(r), NoOne \notin Caller
    PROVE  QueueInv' /\ Settles /\ SerialStep
<1> USE DEF QueueInv
<1>1. /\ TypesOK /\ UNCHANGED <<thread, cvs, ext, cached>>
      /\ call[r].pc = "sleep"
      /\ call' = [call EXCEPT ![r].pc = "woken"] /\ lock' = lock
  BY DEF Timeout
<1>2. Goes(call, call', r, "woken")
  BY <1>1 DEF TypesOK, Goes, CallState, CallPC
<1>3. QueueInv'
  BY <1>1, <1>2 DEF Goes, TypesOK, LockOK, Holding, ExtOK, CallOK, Key, NoLostWakeup,
       NoStaleCondVar
<1>4. Settles
  BY <1>1, <1>2 DEF Settles, Live, Starting, Goes
<1>5. SerialStep
  BY <1>1, <1>2 DEF SerialStep, ThreadStep, CachedStep, CallStep,
       StateOf, Goes
<1> QED
  BY <1>3, <1>4, <1>5

LEMMA SpuriousWakeupInv ==
    ASSUME QueueInv, NEW r \in Caller, SpuriousWakeup(r), NoOne \notin Caller
    PROVE  QueueInv' /\ Settles /\ SerialStep
<1> USE DEF QueueInv
<1>1. /\ TypesOK /\ UNCHANGED <<lock, thread, cvs, ext, cached>>
      /\ Spurious /\ call[r].pc = "sleep" /\ ~call[r].signaled /\ ~call[r].early
      /\ call' = [call EXCEPT ![r].pc = "woken", ![r].signaled = TRUE, ![r].early = TRUE]
  BY DEF SpuriousWakeup, CallOK
<1>2. /\ call' \in [Caller -> CallState]
      /\ call'[r].pc = "woken" /\ call'[r].signaled /\ call'[r].early
      /\ call'[r].a = call[r].a /\ call'[r].i = call[r].i /\ call'[r].shares = call[r].shares
      /\ \A s \in Caller \ {r} : call'[s] = call[s]
  BY <1>1 DEF TypesOK, CallState, CallPC
<1>3. QueueInv'
  BY <1>1, <1>2 DEF TypesOK, LockOK, Holding, ExtOK, CallOK, Key, NoLostWakeup,
       NoStaleCondVar
<1>4. Settles
  BY <1>1, <1>2 DEF Settles, Live, Starting
<1>5. SerialStep
  BY <1>1, <1>2 DEF SerialStep, ThreadStep, CachedStep, CallStep,
       StateOf
<1> QED
  BY <1>3, <1>4, <1>5

LEMMA RelockInv ==
    ASSUME QueueInv, NEW r \in Caller, Relock(r), NoOne \notin Caller
    PROVE  QueueInv' /\ Settles /\ SerialStep
<1> USE DEF QueueInv
<1>1. /\ TypesOK /\ UNCHANGED <<thread, cvs, ext, cached>>
      /\ call[r].pc = "woken" /\ lock = NoOne
      /\ call' = [call EXCEPT ![r].pc = "test"] /\ lock' = r
  BY DEF Relock
<1>2. Goes(call, call', r, "test")
  BY <1>1 DEF TypesOK, Goes, CallState, CallPC
<1>3. QueueInv'
  BY <1>1, <1>2 DEF Goes, TypesOK, LockOK, Holding, ExtOK, CallOK, Key, NoLostWakeup,
       NoStaleCondVar
<1>4. Settles
  BY <1>1, <1>2 DEF Settles, Live, Starting, Goes
<1>5. SerialStep
  BY <1>1, <1>2 DEF SerialStep, ThreadStep, CachedStep, CallStep,
       StateOf, Goes
<1> QED
  BY <1>3, <1>4, <1>5

LEMMA ReturnInv ==
    ASSUME QueueInv, NEW r \in Caller, Return(r), QueueAssumption
    PROVE  QueueInv' /\ Settles /\ SerialStep
<1> USE DEF QueueInv
<1>1. /\ TypesOK /\ UNCHANGED <<lock, thread, cvs, ext, cached>>
      /\ call[r].pc = "done" /\ call' = [call EXCEPT ![r] = NoCall]
  BY DEF Return
<1>2. /\ call' \in [Caller -> CallState] /\ call'[r] = NoCall
      /\ NoCall.pc = "idle" /\ ~NoCall.shares /\ ~NoCall.signaled /\ ~NoCall.early
      /\ \A s \in Caller \ {r} : call'[s] = call[s]
  BY <1>1 DEF TypesOK, CallState, CallPC, NoCall, AnArchive, QueueAssumption
<1>3. QueueInv'
  BY <1>1, <1>2 DEF TypesOK, LockOK, Holding, ExtOK, CallOK, Key, NoLostWakeup,
       NoStaleCondVar
<1>4. Settles
  BY <1>1, <1>2 DEF Settles, Live, Starting
<1>5. SerialStep
  BY <1>1, <1>2 DEF SerialStep, ThreadStep, CachedStep, CallStep,
       StateOf
<1> QED
  BY <1>3, <1>4, <1>5

----------------------------------------------------------------------------
(* The steps of an extractor that do not call the queue *)

LEMMA StartInv ==
    ASSUME QueueInv, NEW a \in Archive, Start(a), QueueAssumption
    PROVE  QueueInv' /\ Settles /\ SerialStep
<1> USE DEF QueueInv
<1>1. /\ TypesOK /\ UNCHANGED <<lock, cvs, cached, call>>
      /\ thread[a] = "created" /\ ext.pc = "idle"
      /\ thread' = [thread EXCEPT ![a] = "running"]
      /\ ext' = [pc |-> "item", a |-> a, i |-> 1]
  BY DEF Start
<1>2. ext' \in ExtState /\ ext'.pc = "item" /\ ext'.a = a /\ ext'.i = 1
  BY <1>1 DEF ExtState, QueueAssumption
<1>3. /\ thread' \in [Archive -> ThreadState] /\ thread'[a] = "running"
      /\ \A b \in Archive \ {a} : thread'[b] = thread[b]
  BY <1>1 DEF TypesOK, ThreadState
<1>4. QueueInv'
  BY <1>1, <1>2, <1>3 DEF AtWork, TypesOK, LockOK, Holding, ExtOK, CallOK, Key, NoLostWakeup,
       NoStaleCondVar
<1>5. Settles
  BY <1>1, <1>2, <1>3 DEF Settles, Live, Starting
<1>6. SerialStep
  BY <1>1, <1>2, <1>3 DEF SerialStep, ThreadStep, CachedStep, CallStep,
       StateOf
<1> QED
  BY <1>4, <1>5, <1>6

LEMMA EvictInv ==
    ASSUME QueueInv, NEW k \in cached, Evict(k)
    PROVE  QueueInv' /\ Settles /\ SerialStep
<1> USE DEF QueueInv
<1>1. /\ TypesOK /\ UNCHANGED <<lock, thread, cvs, ext, call>>
      /\ ext.pc = "item" /\ cached' = cached \ {k}
  BY DEF Evict
<1>2. QueueInv'
  BY <1>1 DEF AtWork, TypesOK, LockOK, Holding, ExtOK, CallOK, Key, NoLostWakeup,
       NoStaleCondVar
<1>3. Settles
  BY <1>1 DEF Settles, Live, Starting
<1>4. SerialStep
  BY <1>1 DEF SerialStep, ThreadStep, CachedStep, CallStep,
       StateOf
<1> QED
  BY <1>2, <1>3, <1>4

LEMMA MarkInv ==
    ASSUME QueueInv, Mark, QueueAssumption
    PROVE  QueueInv' /\ Settles /\ SerialStep
<1> USE DEF QueueInv
<1>1. /\ TypesOK /\ UNCHANGED <<lock, thread, cvs, call>>
      /\ ext.pc = "item" /\ ext.i \in Item /\ lock = NoOne
      /\ cached' = cached \cup {<<ext.a, ext.i>>}
      /\ ext' = [ext EXCEPT !.pc = "existsCondVar"]
  BY DEF Mark
<1>2. /\ ext' \in ExtState /\ ext'.pc = "existsCondVar" /\ ext'.a = ext.a /\ ext'.i = ext.i
      /\ ext.a \in Archive
  BY <1>1 DEF TypesOK, ExtState
<1>3. \A r \in Caller : call[r].pc # "wait"
  BY <1>1 DEF LockOK, Holding, QueueAssumption
<1>4. QueueInv'
  BY <1>1, <1>2, <1>3 DEF AtWork, TypesOK, LockOK, Holding, ExtOK, CallOK, Key, NoLostWakeup,
       NoStaleCondVar
<1>5. Settles
  BY <1>1, <1>2, <1>3 DEF Settles, Live, Starting
<1>6. SerialStep
  BY <1>1, <1>2, <1>3 DEF SerialStep, ThreadStep, CachedStep, CallStep,
       StateOf
<1> QED
  BY <1>4, <1>5, <1>6

LEMMA SkipInv ==
    ASSUME QueueInv, Skip, QueueAssumption
    PROVE  QueueInv' /\ Settles /\ SerialStep
<1> USE DEF QueueInv
<1>1. /\ TypesOK /\ UNCHANGED <<lock, thread, cvs, cached, call>>
      /\ ext.pc = "item" /\ ext.i \in Item
      /\ ext' = NextItem
  BY DEF Skip
<1>2. /\ ext' \in ExtState /\ ext'.pc = "item" /\ ext'.a = ext.a /\ ext'.i >= 1
  BY <1>1 DEF TypesOK, ExtState, Item, QueueAssumption, NextItem
<1>3. QueueInv'
  BY <1>1, <1>2 DEF AtWork, TypesOK, LockOK, Holding, ExtOK, CallOK, Key, NoLostWakeup,
       NoStaleCondVar
<1>4. Settles
  BY <1>1, <1>2 DEF Settles, Live, Starting
<1>5. SerialStep
  BY <1>1, <1>2 DEF SerialStep, ThreadStep, CachedStep, CallStep,
       StateOf
<1> QED
  BY <1>3, <1>4, <1>5

LEMMA ReleaseMutexInv ==
    ASSUME QueueInv, ReleaseMutex, QueueAssumption
    PROVE  QueueInv' /\ Settles /\ SerialStep
<1> USE DEF QueueInv
<1>1. /\ TypesOK /\ UNCHANGED <<lock, thread, cvs, cached, call>>
      /\ ext.pc = "release" /\ ext' = Idle
  BY DEF ReleaseMutex
<1>2. Idle \in ExtState /\ Idle.pc = "idle"
  BY DEF Idle, ExtState, AnArchive, QueueAssumption
<1>3. QueueInv'
  BY <1>1, <1>2 DEF AtWork, TypesOK, LockOK, Holding, ExtOK, CallOK, Key, NoLostWakeup,
       NoStaleCondVar
<1>4. Settles
  BY <1>1, <1>2 DEF Settles, Live, Starting
<1>5. SerialStep
  BY <1>1, <1>2 DEF SerialStep, ThreadStep, CachedStep, CallStep,
       StateOf
<1> QED
  BY <1>3, <1>4, <1>5

LEMMA ExitThreadInv ==
    ASSUME QueueInv, NEW a \in Archive, ExitThread(a)
    PROVE  QueueInv' /\ Settles /\ SerialStep
<1> USE DEF QueueInv
<1>1. /\ TypesOK /\ UNCHANGED <<lock, cvs, ext, cached, call>>
      /\ thread[a] = "cleaned" /\ ~(ext.pc = "release" /\ ext.a = a)
      /\ thread' = [thread EXCEPT ![a] = "exited"]
  BY DEF ExitThread
<1>2. /\ thread' \in [Archive -> ThreadState] /\ thread'[a] = "exited"
      /\ \A b \in Archive \ {a} : thread'[b] = thread[b]
  BY <1>1 DEF TypesOK, ThreadState
<1>3. QueueInv'
  BY <1>1, <1>2 DEF AtWork, TypesOK, LockOK, Holding, ExtOK, CallOK, Key, NoLostWakeup,
       NoStaleCondVar
<1>4. Settles
  BY <1>1, <1>2 DEF Settles, Live, Starting
<1>5. SerialStep
  BY <1>1, <1>2 DEF SerialStep, ThreadStep, CachedStep, CallStep,
       StateOf
<1> QED
  BY <1>3, <1>4, <1>5

----------------------------------------------------------------------------
(* The operations of the queue *)

\* A caller that was told keeps what its place means, ...
LEMMA ToldCall ==
    ASSUME QueueInv, NEW K, NEW s \in Caller, Told(K, call', s),
           cvs \ K \subseteq cvs', cached' = cached,
           call[s].pc = "invoke" => thread'[call[s].a] = "none"
    PROVE  CallOK(s)'
<1>1. CallOK(s) /\ Key(s)' = Key(s)
  BY DEF Told, Key, QueueInv
<1>2. call'[s].pc # "idle" => call'[s].i \in Item
  BY <1>1 DEF Told, CallOK
<1>3. /\ call'[s].signaled => call'[s].pc \in {"woken", "test", "done"}
      /\ call'[s].early => call'[s].signaled
  BY <1>1 DEF Told, CallOK
<1>4. call'[s].shares => Key(s) \in cvs'
  BY <1>1 DEF Told, CallOK
<1>5. /\ call'[s].pc = "invoke" => thread'[call'[s].a] = "none"
      /\ call'[s].pc = "wait" => Key(s) \notin cached
  BY <1>1 DEF Told, CallOK
<1> QED
  BY <1>1, <1>2, <1>3, <1>4, <1>5 DEF CallOK

\* ... and if it still sleeps on its condition variable it was not notified.
LEMMA ToldSleeps ==
    ASSUME NEW K, NEW s \in Caller, Told(K, call', s),
           call'[s].pc = "sleep", call'[s].shares
    PROVE  call[s].pc = "sleep" /\ call[s].shares /\ Key(s) \notin K /\ Key(s)' = Key(s)
<1>1. Key(s)' = Key(s)
  BY DEF Told, Key
<1> QED
  BY <1>1 DEF Told

\* A caller that was told is answered for a reason.
LEMMA ToldSerial ==
    ASSUME QueueInv, NEW K, NEW s \in Caller, Told(K, call', s),
           Key(s) \in K => \/ Key(s) \in cached
                          \/ thread'[call[s].a] \in {"cleaned", "exited", "none"}
    PROVE  CallStep(s) /\ (s \in Starting' => s \in Starting)
<1>1. CallOK(s)
  BY DEF QueueInv
<1>2. CASE call[s].pc = "sleep" /\ call[s].shares /\ Key(s) \in K
  <2>1. /\ call'[s].pc = "woken" /\ call'[s].signaled /\ ~call[s].signaled
        /\ ~call[s].early /\ ~call'[s].early
        /\ call'[s].a = call[s].a /\ call'[s].i = call[s].i
    BY <1>1, <1>2 DEF Told, CallOK
  <2>2. StateOf(call[s]) = "joined" /\ StateOf(call'[s]) = "told"
    BY <1>2, <2>1 DEF StateOf
  <2> QED
    BY <1>2, <2>1, <2>2 DEF CallStep, Starting
<1>3. CASE ~(call[s].pc = "sleep" /\ call[s].shares /\ Key(s) \in K)
  <2>1. /\ call'[s].pc = call[s].pc /\ call'[s].signaled = call[s].signaled
        /\ call'[s].early = call[s].early
        /\ call'[s].a = call[s].a /\ call'[s].i = call[s].i
    BY <1>3 DEF Told
  <2>2. StateOf(call'[s]) = StateOf(call[s])
    BY <2>1 DEF StateOf
  <2> QED
    BY <2>1, <2>2 DEF CallStep, Starting
<1> QED
  BY <1>2, <1>3

\* The keys that CleanupAll forgets.
LEMMA EndedKeysOf ==
    ASSUME TypesOK
    PROVE  \A a \in Archive, i \in Item : <<a, i>> \in EndedKeys <=> thread[a] = "exited"
  BY DEF EndedKeys, Ended

\* What CleanupAll, called by the caller r, leaves of the others' part of the
\* invariant.
CleanedUp(r) ==
    /\ UNCHANGED <<ext, cached>>
    /\ \A s \in Caller \ {r} : Told(EndedKeys, call', s)
    /\ cvs \ EndedKeys \subseteq cvs'
    /\ \A a \in Archive : thread[a] = "exited" => thread'[a] = "none"

LEMMA CleanedUpOthers ==
    ASSUME QueueInv, NEW r \in Caller, lock = r, CleanedUp(r),
           call'[r].pc # "sleep", CallOK(r)'
    PROVE  /\ \A s \in Caller : CallOK(s)'
           /\ NoLostWakeup'
           /\ \A s \in Caller \ {r} : CallStep(s) /\ (s \in Starting' => s \in Starting)
<1>1. ASSUME NEW s \in Caller, s # r PROVE CallOK(s)'
  <2>1. call[s].pc # "invoke"
    BY <1>1 DEF QueueInv, LockOK, Holding
  <2> QED
    BY <1>1, <2>1, ToldCall DEF CleanedUp
<1>2. NoLostWakeup'
  <2> SUFFICES ASSUME NEW s \in Caller, call'[s].pc = "sleep", call'[s].shares,
                      Key(s)' \in cached
               PROVE  ext.pc \in {"existsCondVar", "notifyCondVar"}
                      /\ <<ext.a, ext.i>> = Key(s)'
    BY DEF NoLostWakeup, CleanedUp
  <2>1. s # r
    OBVIOUS
  <2>2. call[s].pc = "sleep" /\ call[s].shares /\ Key(s)' = Key(s)
    BY <2>1, ToldSleeps DEF CleanedUp
  <2> QED
    BY <2>2 DEF QueueInv, NoLostWakeup
<1>3. ASSUME NEW s \in Caller \ {r} PROVE CallStep(s) /\ (s \in Starting' => s \in Starting)
  <2>1. call[s].a \in Archive /\ (call[s].pc # "idle" => call[s].i \in Item)
    BY DEF QueueInv, TypesOK, CallState, CallOK
  <2>2. Key(s) \in EndedKeys => thread'[call[s].a] = "none"
    BY <2>1, EndedKeysOf DEF QueueInv, CleanedUp, Key, EndedKeys
  <2> QED
    BY <2>2, ToldSerial DEF CleanedUp
<1> QED
  BY <1>1, <1>2, <1>3

LEMMA GetCondVarInv ==
    ASSUME QueueInv, NEW r \in Caller, GetCondVar(r), QueueAssumption
    PROVE  QueueInv' /\ Settles /\ SerialStep
<1> USE DEF QueueInv
<1>1. /\ TypesOK /\ UNCHANGED <<lock, ext, cached>>
      /\ call[r].pc = "getCondVar"
      /\ thread' = ThreadsLeft
      /\ cvs' = (cvs \ EndedKeys) \cup {Key(r)}
      /\ call' = [Notified(EndedKeys) EXCEPT ![r].pc = "isQueued", ![r].shares = TRUE]
  BY DEF GetCondVar, CondVarsLeft, Woken
<1>2. lock = r /\ call[r].a \in Archive /\ call[r].i \in Item /\ ~call[r].signaled /\ ~call[r].early
  BY <1>1 DEF TypesOK, LockOK, Holding, CallOK, CallState
<1>3. /\ Notified(EndedKeys) \in [Caller -> CallState]
      /\ \A s \in Caller : Told(EndedKeys, Notified(EndedKeys), s)
  BY <1>1, NotifiedCall DEF TypesOK
<1>4. /\ call' \in [Caller -> CallState]
      /\ call'[r].pc = "isQueued" /\ call'[r].a = call[r].a /\ call'[r].i = call[r].i
      /\ call'[r].shares /\ ~call'[r].signaled /\ ~call'[r].early
      /\ \A s \in Caller \ {r} : Told(EndedKeys, call', s)
  BY <1>1, <1>2, <1>3 DEF Told, CallState, CallPC
<1>5. /\ thread' \in [Archive -> ThreadState]
      /\ \A a \in Archive : /\ thread[a] = "exited" => thread'[a] = "none"
                            /\ thread[a] # "exited" => thread'[a] = thread[a]
  BY <1>1, ThreadsLeftType DEF TypesOK
<1>6. TypesOK'
  BY <1>1, <1>2, <1>4, <1>5 DEF TypesOK, Key
<1>7. LockOK'
  BY <1>1, <1>2, <1>4 DEF LockOK, Holding, Told
<1>8. ExtOK'
  BY <1>1, <1>5 DEF ExtOK, AtWork, TypesOK, ExtState
<1>9. CallOK(r)'
  BY <1>1, <1>2, <1>4 DEF CallOK, Key
<1>10. /\ \A s \in Caller : CallOK(s)'
      /\ NoLostWakeup'
      /\ \A s \in Caller \ {r} : CallStep(s) /\ (s \in Starting' => s \in Starting)
  BY <1>1, <1>2, <1>4, <1>9, <1>5, CleanedUpOthers DEF CleanedUp
<1>11. NoStaleCondVar'
  BY <1>1, <1>2, <1>4, <1>5, EndedKeysOf DEF NoStaleCondVar, Key, TypesOK, LockOK, Holding
<1>12. QueueInv'
  BY <1>6, <1>8, <1>10, <1>11, <1>7
<1>13. Settles
  BY <1>1, <1>2, <1>4, <1>5, <1>10 DEF Settles, Live, Starting
<1>14. CallStep(r)
  BY <1>1, <1>2, <1>4, <1>5 DEF CallStep, StateOf, Key
<1>15. SerialStep
  BY <1>1, <1>2, <1>4, <1>5, <1>10, <1>14 DEF SerialStep, ThreadStep, CachedStep
<1> QED
  BY <1>12, <1>13, <1>15

LEMMA IsQueuedInv ==
    ASSUME QueueInv, NEW r \in Caller, IsQueued(r), QueueAssumption
    PROVE  QueueInv' /\ Settles /\ SerialStep
<1> USE DEF QueueInv
<1> DEFINE v == IF ThreadsLeft[call[r].a] = "none" THEN "invoke" ELSE "test"
<1>1. /\ TypesOK /\ UNCHANGED <<lock, ext, cached>>
      /\ call[r].pc = "isQueued"
      /\ thread' = ThreadsLeft /\ cvs' = cvs \ EndedKeys
      /\ call' = [Notified(EndedKeys) EXCEPT ![r].pc = v]
  BY DEF IsQueued, CondVarsLeft, Woken
<1>2. lock = r /\ call[r].a \in Archive /\ call[r].i \in Item /\ ~call[r].signaled /\ ~call[r].early
  BY <1>1 DEF TypesOK, LockOK, Holding, CallOK, CallState
<1>3. /\ Notified(EndedKeys) \in [Caller -> CallState]
      /\ \A s \in Caller : Told(EndedKeys, Notified(EndedKeys), s)
  BY <1>1, NotifiedCall DEF TypesOK
<1>4. v \in CallPC /\ v \in {"invoke", "test"} /\ (v = "invoke" <=> thread'[call[r].a] = "none")
  BY <1>1 DEF CallPC
<1> HIDE DEF v
<1>5. /\ call' \in [Caller -> CallState]
      /\ call'[r].pc = v /\ call'[r].a = call[r].a /\ call'[r].i = call[r].i
      /\ call'[r].shares = Notified(EndedKeys)[r].shares
      /\ call'[r].signaled = Notified(EndedKeys)[r].signaled
      /\ call'[r].early = Notified(EndedKeys)[r].early
      /\ \A s \in Caller \ {r} : Told(EndedKeys, call', s)
  BY <1>1, <1>3, <1>4 DEF Told, CallState, CallPC
<1>6. /\ ~call'[r].signaled /\ ~call'[r].early
      /\ call'[r].shares => Key(r) \in cvs'
      /\ Key(r)' = Key(r)
  BY <1>1, <1>2, <1>3, <1>5 DEF Told, Key, CallOK
<1>7. /\ thread' \in [Archive -> ThreadState]
      /\ \A a \in Archive : /\ thread[a] = "exited" => thread'[a] = "none"
                            /\ thread[a] # "exited" => thread'[a] = thread[a]
  BY <1>1, ThreadsLeftType DEF TypesOK
<1>8. TypesOK' /\ LockOK'
  BY <1>1, <1>2, <1>4, <1>5, <1>7 DEF TypesOK, LockOK, Holding, Told
<1>9. ExtOK'
  BY <1>1, <1>7 DEF ExtOK, AtWork, TypesOK, ExtState
<1>10. CallOK(r)'
  BY <1>1, <1>2, <1>4, <1>5, <1>6 DEF CallOK
<1>11. /\ \A s \in Caller : CallOK(s)'
       /\ NoLostWakeup'
       /\ \A s \in Caller \ {r} : CallStep(s) /\ (s \in Starting' => s \in Starting)
  BY <1>1, <1>2, <1>4, <1>5, <1>10, <1>7, CleanedUpOthers DEF CleanedUp
<1>12. NoStaleCondVar'
  BY <1>1, <1>2, <1>4, <1>5, <1>7, EndedKeysOf DEF NoStaleCondVar, TypesOK
<1>13. QueueInv'
  BY <1>8, <1>9, <1>11, <1>12
<1>14. Settles
  BY <1>1, <1>2, <1>4, <1>5, <1>6, <1>7, <1>11 DEF Settles, Live, Starting
<1>15. CallStep(r)
  BY <1>1, <1>2, <1>4, <1>5, <1>6, <1>7 DEF CallStep, StateOf, Key
<1>16. SerialStep
  BY <1>1, <1>2, <1>4, <1>5, <1>6, <1>7, <1>11, <1>15 DEF SerialStep, ThreadStep, CachedStep
<1> QED
  BY <1>13, <1>14, <1>16

LEMMA InvokeInv ==
    ASSUME QueueInv, NEW r \in Caller, Invoke(r), QueueAssumption
    PROVE  /\ QueueInv' /\ SerialStep
           /\ call[r].a \in Archive /\ Live' \subseteq Live \cup {call[r].a}
           /\ r \in Starting /\ Starting' \subseteq Starting \ {r}
<1> USE DEF QueueInv
<1> DEFINE a == call[r].a
<1>1. /\ TypesOK /\ UNCHANGED <<lock, ext, cached>>
      /\ call[r].pc = "invoke"
      /\ thread' = [ThreadsLeft EXCEPT ![a] = IF @ = "none" THEN "created" ELSE @]
      /\ cvs' = cvs \ EndedKeys
      /\ call' = [Notified(EndedKeys) EXCEPT ![r].pc = "test"]
  BY DEF Invoke, CondVarsLeft, Woken
<1>2. /\ lock = r /\ a \in Archive /\ call[r].i \in Item /\ ~call[r].signaled /\ ~call[r].early
      /\ thread[a] = "none"
  BY <1>1 DEF TypesOK, LockOK, Holding, CallOK, CallState
<1>3. /\ Notified(EndedKeys) \in [Caller -> CallState]
      /\ \A s \in Caller : Told(EndedKeys, Notified(EndedKeys), s)
  BY <1>1, NotifiedCall DEF TypesOK
<1>4. /\ call' \in [Caller -> CallState]
      /\ call'[r].pc = "test" /\ call'[r].a = a /\ call'[r].i = call[r].i
      /\ call'[r].shares = Notified(EndedKeys)[r].shares
      /\ call'[r].signaled = Notified(EndedKeys)[r].signaled
      /\ call'[r].early = Notified(EndedKeys)[r].early
      /\ \A s \in Caller \ {r} : Told(EndedKeys, call', s)
  BY <1>1, <1>3 DEF Told, CallState, CallPC
<1>5. /\ ~call'[r].signaled /\ ~call'[r].early
      /\ call'[r].shares => Key(r) \in cvs'
      /\ Key(r)' = Key(r)
  BY <1>1, <1>2, <1>3, <1>4 DEF Told, Key, CallOK
<1>6. /\ ThreadsLeft \in [Archive -> ThreadState]
      /\ \A b \in Archive : /\ thread[b] = "exited" => ThreadsLeft[b] = "none"
                            /\ thread[b] # "exited" => ThreadsLeft[b] = thread[b]
  BY <1>1, ThreadsLeftType DEF TypesOK
<1>7. /\ thread' \in [Archive -> ThreadState] /\ thread'[a] = "created"
      /\ \A b \in Archive \ {a} : thread'[b] = ThreadsLeft[b]
  BY <1>1, <1>2, <1>6 DEF ThreadState
<1> HIDE DEF a
<1>8. TypesOK'
  BY <1>1, <1>2, <1>4, <1>7 DEF TypesOK
<1>9. LockOK'
  BY <1>1, <1>2, <1>4 DEF LockOK, Holding, Told
<1>10. ExtOK'
  BY <1>1, <1>2, <1>6, <1>7 DEF ExtOK, AtWork, TypesOK, ExtState
<1>11. CallOK(r)'
  BY <1>1, <1>2, <1>4, <1>5 DEF CallOK, a
<1>12. /\ \A s \in Caller : CallOK(s)'
       /\ NoLostWakeup'
       /\ \A s \in Caller \ {r} : CallStep(s) /\ (s \in Starting' => s \in Starting)
  BY <1>1, <1>2, <1>4, <1>11, <1>6, <1>7, CleanedUpOthers DEF CleanedUp
<1>13. NoStaleCondVar'
  BY <1>1, <1>2, <1>4, <1>6, <1>7, EndedKeysOf DEF NoStaleCondVar, TypesOK, a
<1>14. QueueInv'
  BY <1>8, <1>9, <1>10, <1>12, <1>13
<1>15. CallStep(r)
  BY <1>1, <1>2, <1>4, <1>5, <1>7 DEF CallStep, StateOf, a, ThreadState
<1>16. SerialStep
  BY <1>1, <1>2, <1>6, <1>7, <1>12, <1>15 DEF SerialStep, ThreadStep, CachedStep, a
<1>17. Live' \subseteq Live \cup {a}
  BY <1>6, <1>7 DEF Live
<1>18. r \in Starting /\ Starting' \subseteq Starting \ {r}
  BY <1>1, <1>4, <1>12 DEF Starting
<1> QED
  BY <1>2, <1>14, <1>16, <1>17, <1>18 DEF a

LEMMA TestInv ==
    ASSUME QueueInv, NEW r \in Caller, Test(r), QueueAssumption
    PROVE  QueueInv' /\ Settles /\ SerialStep
<1> USE DEF QueueInv
<1>1. /\ TypesOK /\ UNCHANGED <<ext, cached>>
      /\ call[r].pc = "test"
  BY DEF Test
<1>2. lock = r /\ call[r].a \in Archive /\ call[r].i \in Item
  BY <1>1 DEF TypesOK, LockOK, Holding, CallOK, CallState
<1>3. CASE call[r].signaled \/ Key(r) \in cached
  <2>1. /\ call' = [call EXCEPT ![r].pc = "done"] /\ lock' = NoOne
        /\ UNCHANGED <<thread, cvs>>
    BY <1>3 DEF Test, Key
  <2>2. Goes(call, call', r, "done")
    BY <2>1, <1>1 DEF TypesOK, Goes, CallState, CallPC
  <2>3. QueueInv'
    BY <1>1, <1>2, <2>1, <2>2, QueueAssumption DEF QueueAssumption, Goes, TypesOK, LockOK,
       Holding, ExtOK, CallOK, Key, NoLostWakeup, NoStaleCondVar
  <2>4. Settles
    BY <1>1, <2>1, <2>2 DEF Settles, Live, Starting, Goes
  <2>5. SerialStep
    BY <1>1, <1>3, <2>1, <2>2 DEF SerialStep, ThreadStep, CachedStep, CallStep, StateOf, Goes
  <2> QED
    BY <2>3, <2>4, <2>5
<1>4. CASE ~(call[r].signaled \/ Key(r) \in cached)
  <2> DEFINE over == ThreadsLeft[call[r].a] = "none"
             v == IF over THEN "done" ELSE "wait"
  <2>1. /\ thread' = ThreadsLeft /\ cvs' = cvs \ EndedKeys
        /\ call' = [Notified(EndedKeys) EXCEPT ![r].pc = v]
        /\ lock' = IF over THEN NoOne ELSE lock
    BY <1>4 DEF Test, Key, CondVarsLeft, Woken
  <2>2. /\ Notified(EndedKeys) \in [Caller -> CallState]
        /\ \A s \in Caller : Told(EndedKeys, Notified(EndedKeys), s)
    BY <1>1, NotifiedCall DEF TypesOK
  <2>3. v \in CallPC /\ (v = "wait" <=> ~over) /\ (v = "done" <=> over)
    BY DEF CallPC
  <2> HIDE DEF v, over
  <2>4. /\ call' \in [Caller -> CallState]
        /\ call'[r].pc = v /\ call'[r].a = call[r].a /\ call'[r].i = call[r].i
        /\ call'[r].shares = Notified(EndedKeys)[r].shares
        /\ call'[r].signaled = Notified(EndedKeys)[r].signaled
        /\ call'[r].early = Notified(EndedKeys)[r].early
        /\ \A s \in Caller \ {r} : Told(EndedKeys, call', s)
    BY <2>1, <2>2, <2>3 DEF Told, CallState, CallPC
  <2>5. /\ ~call'[r].signaled /\ ~call'[r].early
        /\ call'[r].shares => Key(r) \in cvs'
        /\ Key(r)' = Key(r)
    BY <1>1, <1>4, <2>1, <2>2, <2>4 DEF Told, Key, CallOK
  <2>6. /\ thread' \in [Archive -> ThreadState]
        /\ \A b \in Archive : /\ thread[b] = "exited" => thread'[b] = "none"
                              /\ thread[b] # "exited" => thread'[b] = thread[b]
    BY <1>1, <2>1, ThreadsLeftType DEF TypesOK
  <2>7. TypesOK'
    BY <1>1, <2>1, <2>4, <2>6 DEF TypesOK
  <2>8. LockOK'
    BY <1>1, <1>2, <2>1, <2>3, <2>4, QueueAssumption DEF QueueAssumption, LockOK, Holding, Told
  <2>9. ExtOK'
    BY <1>1, <2>6 DEF ExtOK, AtWork, TypesOK, ExtState
  <2>10. CallOK(r)'
    BY <1>1, <1>2, <1>4, <2>3, <2>4, <2>5 DEF CallOK
  <2>11. /\ \A s \in Caller : CallOK(s)'
         /\ NoLostWakeup'
         /\ \A s \in Caller \ {r} : CallStep(s) /\ (s \in Starting' => s \in Starting)
    BY <1>1, <1>2, <2>1, <2>3, <2>4, <2>6, <2>10, CleanedUpOthers DEF CleanedUp
  <2>12. NoStaleCondVar'
    BY <1>1, <1>2, <2>1, <2>6, EndedKeysOf DEF NoStaleCondVar, TypesOK
  <2>13. QueueInv'
    BY <2>7, <2>8, <2>9, <2>11, <2>12
  <2>14. Settles
    BY <2>3, <2>4, <2>6, <2>11 DEF Settles, Live, Starting
  <2>15. CallStep(r)
    <3>1. ~call[r].early /\ StateOf(call[r]) = "joined"
      BY <1>1, <1>4 DEF StateOf, CallOK
    <3>2. StateOf(call'[r]) = IF over THEN "told" ELSE "joined"
      BY <2>3, <2>4, <2>5 DEF StateOf
    <3>3. over => thread'[call[r].a] = "none"
      BY <2>1 DEF over
    <3>4. call'[r].pc # "idle" /\ call'[r].a = call[r].a /\ call'[r].i = call[r].i
      BY <2>3, <2>4
    <3> QED
      BY <1>1, <3>1, <3>2, <3>3, <3>4 DEF CallStep
  <2>16. SerialStep
    BY <1>1, <2>6, <2>11, <2>15 DEF SerialStep, ThreadStep, CachedStep
  <2> QED
    BY <2>13, <2>14, <2>16
<1> QED
  BY <1>3, <1>4

\* What an operation of the queue that the extractor calls, without the lock,
\* leaves of the callers' part of the invariant.
LEMMA ToldByExtractor ==
    ASSUME QueueInv, NEW K, UNCHANGED <<lock, cached>>,
           call' \in [Caller -> CallState], \A s \in Caller : Told(K, call', s),
           cvs' = cvs \ K,
           \A a \in Archive : thread[a] = "none" => thread'[a] = "none",
           \A s \in Caller : Key(s) \in K =>
              Key(s) \in cached \/ thread'[call[s].a] \in {"cleaned", "exited", "none"}
    PROVE  /\ LockOK'
           /\ \A s \in Caller : CallOK(s)'
           /\ \A s \in Caller :
                 call'[s].pc = "sleep" /\ call'[s].shares /\ Key(s)' \in cached
                 => /\ ext.pc \in {"existsCondVar", "notifyCondVar"}
                    /\ <<ext.a, ext.i>> = Key(s)' /\ Key(s)' \notin K
           /\ \A s \in Caller : CallStep(s) /\ (s \in Starting' => s \in Starting)
<1>1. LockOK'
  BY DEF QueueInv, LockOK, Holding, Told
<1>2. ASSUME NEW s \in Caller PROVE CallOK(s)'
  <2>1. call[s].pc = "invoke" => thread'[call[s].a] = "none"
    BY DEF QueueInv, CallOK, TypesOK, CallState
  <2> QED
    BY <2>1, ToldCall
<1>3. ASSUME NEW s \in Caller, call'[s].pc = "sleep", call'[s].shares, Key(s)' \in cached
      PROVE  /\ ext.pc \in {"existsCondVar", "notifyCondVar"}
             /\ <<ext.a, ext.i>> = Key(s)' /\ Key(s)' \notin K
  <2>1. call[s].pc = "sleep" /\ call[s].shares /\ Key(s) \notin K /\ Key(s)' = Key(s)
    BY <1>3, ToldSleeps
  <2> QED
    BY <1>3, <2>1 DEF QueueInv, NoLostWakeup
<1>4. \A s \in Caller : CallStep(s) /\ (s \in Starting' => s \in Starting)
  BY ToldSerial
<1> QED
  BY <1>1, <1>2, <1>3, <1>4

LEMMA ExistsCondVarInv ==
    ASSUME QueueInv, ExistsCondVar, QueueAssumption
    PROVE  QueueInv' /\ Settles /\ SerialStep
<1> USE DEF QueueInv
<1>1. /\ TypesOK /\ UNCHANGED <<lock, cached>>
      /\ ext.pc = "existsCondVar"
      /\ thread' = ThreadsLeft /\ cvs' = cvs \ EndedKeys
      /\ call' = Notified(EndedKeys)
      /\ ext' = IF <<ext.a, ext.i>> \in cvs \ EndedKeys
                THEN [ext EXCEPT !.pc = "notifyCondVar"]
                ELSE NextItem
  BY DEF ExistsCondVar, CondVarsLeft, Woken
<1>2. ext.a \in Archive /\ ext.i \in Item /\ <<ext.a, ext.i>> \in cached
  BY <1>1 DEF TypesOK, ExtState, ExtOK
<1>3. /\ call' \in [Caller -> CallState]
      /\ \A s \in Caller : Told(EndedKeys, call', s)
  BY <1>1, NotifiedCall DEF TypesOK
<1>4. /\ thread' \in [Archive -> ThreadState]
      /\ \A b \in Archive : /\ thread[b] = "exited" => thread'[b] = "none"
                            /\ thread[b] # "exited" => thread'[b] = thread[b]
  BY <1>1, ThreadsLeftType DEF TypesOK
<1>5. \A s \in Caller : Key(s) \in EndedKeys =>
          Key(s) \in cached \/ thread'[call[s].a] \in {"cleaned", "exited", "none"}
  BY <1>1, <1>4 DEF TypesOK, CallState, Key, EndedKeys, Ended
<1>6. /\ LockOK'
      /\ \A s \in Caller : CallOK(s)'
      /\ \A s \in Caller :
            call'[s].pc = "sleep" /\ call'[s].shares /\ Key(s)' \in cached
            => /\ ext.pc \in {"existsCondVar", "notifyCondVar"}
               /\ <<ext.a, ext.i>> = Key(s)' /\ Key(s)' \notin EndedKeys
      /\ \A s \in Caller : CallStep(s) /\ (s \in Starting' => s \in Starting)
  BY <1>1, <1>3, <1>4, <1>5, ToldByExtractor DEF TypesOK
<1>7. /\ ext' \in ExtState /\ ext'.a = ext.a
      /\ IF <<ext.a, ext.i>> \in cvs'
         THEN ext'.pc = "notifyCondVar" /\ ext'.i = ext.i
         ELSE ext'.pc = "item" /\ ext'.i >= 1
  BY <1>1, <1>2, QueueAssumption DEF TypesOK, ExtState, Item, QueueAssumption, NextItem
<1>8. TypesOK'
  BY <1>1, <1>3, <1>4, <1>7 DEF TypesOK
<1>9. ExtOK'
  BY <1>1, <1>2, <1>4, <1>7 DEF ExtOK, AtWork, TypesOK
<1>10. NoLostWakeup'
  BY <1>1, <1>6, <1>7 DEF NoLostWakeup, CallOK
<1>11. NoStaleCondVar'
  BY <1>1, <1>3, <1>4, EndedKeysOf DEF NoStaleCondVar, TypesOK, Told
<1>12. QueueInv'
  BY <1>6, <1>8, <1>9, <1>10, <1>11
<1>13. Settles
  BY <1>1, <1>4, <1>6 DEF Settles, Live, Starting
<1>14. SerialStep
  BY <1>1, <1>2, <1>4, <1>6 DEF SerialStep, ThreadStep, CachedStep
<1> QED
  BY <1>12, <1>13, <1>14

LEMMA NotifyCondVarInv ==
    ASSUME QueueInv, NotifyCondVar, QueueAssumption
    PROVE  QueueInv' /\ Settles /\ SerialStep
<1> USE DEF QueueInv
<1> DEFINE K == EndedKeys \cup {<<ext.a, ext.i>>}
<1>1. /\ TypesOK /\ UNCHANGED <<lock, cached>>
      /\ ext.pc = "notifyCondVar"
      /\ thread' = ThreadsLeft /\ cvs' = cvs \ K
      /\ call' = Notified(K)
      /\ ext' = NextItem
  BY DEF NotifyCondVar
<1>2. ext.a \in Archive /\ ext.i \in Item /\ <<ext.a, ext.i>> \in cached
  BY <1>1 DEF TypesOK, ExtState, ExtOK
<1>3. /\ call' \in [Caller -> CallState]
      /\ \A s \in Caller : Told(K, call', s)
  BY <1>1, NotifiedCall DEF TypesOK
<1>4. /\ thread' \in [Archive -> ThreadState]
      /\ \A b \in Archive : /\ thread[b] = "exited" => thread'[b] = "none"
                            /\ thread[b] # "exited" => thread'[b] = thread[b]
  BY <1>1, ThreadsLeftType DEF TypesOK
<1> HIDE DEF K
<1>5. \A s \in Caller : Key(s) \in K =>
          Key(s) \in cached \/ thread'[call[s].a] \in {"cleaned", "exited", "none"}
  BY <1>1, <1>2, <1>4 DEF TypesOK, CallState, Key, EndedKeys, Ended, K
<1>6. /\ LockOK'
      /\ \A s \in Caller : CallOK(s)'
      /\ \A s \in Caller :
            call'[s].pc = "sleep" /\ call'[s].shares /\ Key(s)' \in cached
            => /\ ext.pc \in {"existsCondVar", "notifyCondVar"}
               /\ <<ext.a, ext.i>> = Key(s)' /\ Key(s)' \notin K
      /\ \A s \in Caller : CallStep(s) /\ (s \in Starting' => s \in Starting)
  BY <1>1, <1>3, <1>4, <1>5, ToldByExtractor DEF TypesOK
<1>7. /\ ext' \in ExtState /\ ext'.a = ext.a /\ ext'.pc = "item" /\ ext'.i >= 1
  BY <1>1, <1>2, QueueAssumption DEF TypesOK, ExtState, Item, QueueAssumption, NextItem
<1>8. TypesOK'
  BY <1>1, <1>3, <1>4, <1>7 DEF TypesOK
<1>9. ExtOK'
  BY <1>1, <1>2, <1>4, <1>7 DEF ExtOK, AtWork, TypesOK
<1>10. NoLostWakeup'
  BY <1>1, <1>6 DEF NoLostWakeup, K
<1>11. NoStaleCondVar'
  <2> SUFFICES ASSUME NEW k \in cvs'
               PROVE  \/ thread'[k[1]] # "none"
                      \/ \E r \in Caller : /\ lock' = r /\ call'[r].a = k[1]
                                           /\ call'[r].pc \in {"isQueued", "invoke"}
    BY DEF NoStaleCondVar
  <2>1. k \in cvs /\ k \notin EndedKeys /\ k \in Archive \X Item
    BY <1>1 DEF K, TypesOK
  <2>2. k[1] \in Archive /\ thread[k[1]] # "exited"
    BY <1>1, <2>1, EndedKeysOf
  <2>3. CASE thread[k[1]] # "none"
    BY <1>4, <2>2, <2>3
  <2>4. CASE \E r \in Caller : /\ lock = r /\ call[r].a = k[1]
                               /\ call[r].pc \in {"isQueued", "invoke"}
    BY <1>1, <1>3, <2>4 DEF Told
  <2> QED
    BY <2>1, <2>3, <2>4 DEF NoStaleCondVar
<1>12. QueueInv'
  BY <1>6, <1>8, <1>9, <1>10, <1>11
<1>13. Settles
  BY <1>1, <1>4, <1>6 DEF Settles, Live, Starting
<1>14. SerialStep
  BY <1>1, <1>2, <1>4, <1>6 DEF SerialStep, ThreadStep, CachedStep
<1> QED
  BY <1>12, <1>13, <1>14

LEMMA QueueCleanupInv ==
    ASSUME QueueInv, QueueCleanup, QueueAssumption
    PROVE  QueueInv' /\ Settles /\ SerialStep
<1> USE DEF QueueInv
<1> DEFINE K == {ext.a} \X Item
<1>1. /\ TypesOK /\ UNCHANGED <<lock, cached>>
      /\ ext.pc = "item"
      /\ thread' = [thread EXCEPT ![ext.a] = "cleaned"] /\ cvs' = cvs \ K
      /\ call' = Notified(K)
      /\ ext' = [ext EXCEPT !.pc = "release"]
  BY DEF QueueCleanup
<1>2. ext.a \in Archive /\ thread[ext.a] = "running"
  BY <1>1 DEF TypesOK, ExtState, ExtOK, AtWork
<1>3. /\ call' \in [Caller -> CallState]
      /\ \A s \in Caller : Told(K, call', s)
  BY <1>1, NotifiedCall DEF TypesOK
<1>4. /\ thread' \in [Archive -> ThreadState] /\ thread'[ext.a] = "cleaned"
      /\ \A b \in Archive \ {ext.a} : thread'[b] = thread[b]
  BY <1>1, <1>2 DEF TypesOK, ThreadState
<1>5. \A k \in Archive \X Item : k[1] = ext.a => k \in K
  OBVIOUS
<1> HIDE DEF K
<1>6. \A s \in Caller : Key(s) \in K =>
          Key(s) \in cached \/ thread'[call[s].a] \in {"cleaned", "exited", "none"}
  BY <1>4 DEF Key, K
<1>7. /\ LockOK'
      /\ \A s \in Caller : CallOK(s)'
      /\ \A s \in Caller :
            call'[s].pc = "sleep" /\ call'[s].shares /\ Key(s)' \in cached
            => /\ ext.pc \in {"existsCondVar", "notifyCondVar"}
               /\ <<ext.a, ext.i>> = Key(s)' /\ Key(s)' \notin K
      /\ \A s \in Caller : CallStep(s) /\ (s \in Starting' => s \in Starting)
  BY <1>1, <1>2, <1>3, <1>4, <1>6, ToldByExtractor DEF TypesOK
<1>8. /\ ext' \in ExtState /\ ext'.a = ext.a /\ ext'.pc = "release"
  BY <1>1 DEF TypesOK, ExtState
<1>9. TypesOK'
  BY <1>1, <1>3, <1>4, <1>8 DEF TypesOK
<1>10. ExtOK'
  BY <1>1, <1>2, <1>4, <1>8 DEF ExtOK, AtWork, TypesOK
<1>11. NoLostWakeup'
  BY <1>1, <1>7 DEF NoLostWakeup
<1>12. NoStaleCondVar'
  BY <1>1, <1>3, <1>4, <1>5 DEF NoStaleCondVar, TypesOK, Told
<1>13. QueueInv'
  BY <1>7, <1>9, <1>10, <1>11, <1>12
<1>14. Settles
  BY <1>1, <1>2, <1>4, <1>7 DEF Settles, Live, Starting
<1>15. SerialStep
  BY <1>1, <1>2, <1>4, <1>7 DEF SerialStep, ThreadStep, CachedStep
<1> QED
  BY <1>13, <1>14, <1>15

----------------------------------------------------------------------------
(* The references to the library *)

\* The other conjuncts of TypeOK, and ThreadsKeepLibrary.
RefsInv ==
    /\ refs \in Nat /\ host \in BOOLEAN /\ calls \in 0..MaxCalls
    /\ refs >= Cardinality(Live) + Cardinality(Starting)

\* The counted sets are finite.
LEMMA LiveAndStartingFinite ==
    ASSUME QueueAssumption
    PROVE  /\ IsFiniteSet(Live) /\ IsFiniteSet(Starting)
           /\ IsFiniteSet(Live') /\ IsFiniteSet(Starting')
           /\ Cardinality(Live) \in Nat /\ Cardinality(Starting) \in Nat
           /\ Cardinality(Live') \in Nat /\ Cardinality(Starting') \in Nat
<1>1. /\ Live \subseteq Archive /\ Live' \subseteq Archive
      /\ Starting \subseteq Caller /\ Starting' \subseteq Caller
  BY DEF Live, Starting
<1>2. /\ IsFiniteSet(Live) /\ IsFiniteSet(Starting)
      /\ IsFiniteSet(Live') /\ IsFiniteSet(Starting')
  BY <1>1, FS_Subset DEF QueueAssumption
<1> QED
  BY <1>2, FS_CardinalityType

\* A step that settles needs no further reference.
LEMMA SettlesRefs ==
    ASSUME QueueAssumption, RefsInv, Settles, refs' = refs,
           host' \in BOOLEAN, calls' = calls
    PROVE  RefsInv'
<1>1. Cardinality(Live') <= Cardinality(Live) /\ Cardinality(Starting') <= Cardinality(Starting)
  BY LiveAndStartingFinite, FS_Subset DEF Settles
<1> QED
  BY <1>1, LiveAndStartingFinite DEF RefsInv

\* A call brings the reference for the thread it may start, ...
LEMMA CallRefs ==
    ASSUME QueueAssumption, QueueInv, RefsInv,
           NEW r \in Caller, NEW a \in Archive, NEW i \in Item, Call(r, a, i)
    PROVE  RefsInv'
<1>1. Live' = Live /\ Starting' \subseteq Starting \cup {r}
  BY CallInv
<1>2. Cardinality(Starting') <= Cardinality(Starting) + 1
  <2>1. /\ IsFiniteSet(Starting \cup {r})
        /\ Cardinality(Starting \cup {r}) <= Cardinality(Starting) + 1
    <3>1. IsFiniteSet(Starting) /\ Cardinality(Starting) \in Nat
      BY LiveAndStartingFinite
    <3>2. /\ IsFiniteSet(Starting \cup {r})
          /\ Cardinality(Starting \cup {r}) =
                IF r \in Starting THEN Cardinality(Starting) ELSE Cardinality(Starting) + 1
      BY <3>1, FS_AddElement
    <3> QED
      BY <3>1, <3>2
  <2>2. Cardinality(Starting') <= Cardinality(Starting \cup {r})
    BY <1>1, <2>1, FS_Subset
  <2> QED
    BY <2>1, <2>2, LiveAndStartingFinite, FS_CardinalityType
<1>3. refs' = refs + 1 /\ calls' = calls + 1 /\ calls < MaxCalls /\ host' = host
  BY DEF Call
<1> QED
  BY <1>1, <1>2, <1>3, LiveAndStartingFinite DEF RefsInv, QueueAssumption

\* ... the thread takes it over, ...
LEMMA InvokeRefs ==
    ASSUME QueueAssumption, QueueInv, RefsInv, NEW r \in Caller, Invoke(r)
    PROVE  RefsInv'
<1> DEFINE a == call[r].a
<1>1. /\ Live' \subseteq Live \cup {a}
      /\ r \in Starting /\ Starting' \subseteq Starting \ {r}
  BY InvokeInv
<1> HIDE DEF a
<1>2. Cardinality(Live') <= Cardinality(Live) + 1
  <2>1. /\ IsFiniteSet(Live \cup {a})
        /\ Cardinality(Live \cup {a}) <= Cardinality(Live) + 1
    <3>1. IsFiniteSet(Live) /\ Cardinality(Live) \in Nat
      BY LiveAndStartingFinite
    <3>2. /\ IsFiniteSet(Live \cup {a})
          /\ Cardinality(Live \cup {a}) =
                IF a \in Live THEN Cardinality(Live) ELSE Cardinality(Live) + 1
      BY <3>1, FS_AddElement
    <3> QED
      BY <3>1, <3>2
  <2>2. Cardinality(Live') <= Cardinality(Live \cup {a})
    BY <1>1, <2>1, FS_Subset
  <2> QED
    BY <2>1, <2>2, LiveAndStartingFinite, FS_CardinalityType
<1>3. Cardinality(Starting') <= Cardinality(Starting) - 1
  <2>1. /\ IsFiniteSet(Starting \ {r})
        /\ Cardinality(Starting \ {r}) = Cardinality(Starting) - 1
    BY <1>1, LiveAndStartingFinite, FS_RemoveElement
  <2> QED
    BY <1>1, <2>1, FS_Subset
<1>4. refs' = refs /\ calls' = calls /\ host' = host
  BY DEF Invoke
<1> QED
  BY <1>2, <1>3, <1>4, LiveAndStartingFinite DEF RefsInv

\* ... and gives it back when it ends.
LEMMA ExitThreadRefs ==
    ASSUME QueueAssumption, QueueInv, RefsInv, NEW a \in Archive, ExitThread(a)
    PROVE  RefsInv'
<1>1. Settles
  BY ExitThreadInv
<1>2. a \in Live /\ Live' \subseteq Live \ {a}
  BY DEF ExitThread, Live, QueueInv, TypesOK
<1>3. Cardinality(Live') <= Cardinality(Live) - 1
  <2>1. IsFiniteSet(Live \ {a}) /\ Cardinality(Live \ {a}) = Cardinality(Live) - 1
    BY <1>2, LiveAndStartingFinite, FS_RemoveElement
  <2> QED
    BY <1>2, <2>1, FS_Subset
<1>4. Cardinality(Starting') <= Cardinality(Starting)
  BY <1>1, LiveAndStartingFinite, FS_Subset DEF Settles
<1>5. refs' = refs - 1 /\ calls' = calls /\ host' = host
  BY DEF ExitThread
<1> QED
  BY <1>3, <1>4, <1>5, LiveAndStartingFinite DEF RefsInv

----------------------------------------------------------------------------
(* The theorems *)

\* The calls from message pumps do not disturb the rest.
InnerOK == inner \in [Caller -> Caller \cup {NoOne}]

LEMMA InnerInv == ASSUME InnerOK, [Next]_vars PROVE InnerOK'
<1>1. ASSUME NEW r \in Caller, CalledFrom(r) PROVE InnerOK'
  BY <1>1 DEF CalledFrom, InnerOK
<1>2. ASSUME NEW r \in Caller, Return(r) PROVE InnerOK'
  BY <1>2 DEF Return, InnerOK
<1>3. CASE UNCHANGED inner
  BY <1>3 DEF InnerOK
<1>4. \/ \E r \in Caller : CalledFrom(r) \/ Return(r)
      \/ UNCHANGED inner
  BY DEF Next, vars, Call, CallerStep, Enter, GetCondVar, IsQueued, Invoke, Test, Sleep,
     Timeout, SpuriousWakeup, Relock, Extractor, Start, Mark, Skip, ExistsCondVar, NotifyCondVar,
     QueueCleanup, ReleaseMutex, ExitThread, Evict, FreeLibrary
<1> QED
  BY <1>1, <1>2, <1>3, <1>4

Inv == QueueInv /\ RefsInv /\ InnerOK

\* Initially.
LEMMA InitInv == ASSUME Init, QueueAssumption PROVE Inv
<1>1. AnArchive \in Archive
  BY DEF AnArchive, QueueAssumption
<1>2. NoCall \in CallState /\ Idle \in ExtState
  BY <1>1 DEF NoCall, Idle, CallState, CallPC, ExtState, QueueAssumption
<1>3. TypesOK
  BY <1>2 DEF Init, TypesOK, ThreadState
<1>4. LockOK /\ ExtOK /\ (\A r \in Caller : CallOK(r)) /\ NoLostWakeup /\ NoStaleCondVar
  BY <1>1 DEF Init, NoCall, Idle, LockOK, Holding, ExtOK, AtWork, CallOK, NoLostWakeup,
     NoStaleCondVar, QueueAssumption
<1>5. Live = {} /\ Starting = {}
  BY DEF Init, Live, Starting, NoCall
<1>6. RefsInv
  BY <1>5, FS_EmptySet DEF Init, RefsInv, QueueAssumption
<1>7. InnerOK
  BY DEF Init, InnerOK
<1> QED
  BY <1>3, <1>4, <1>6, <1>7 DEF Inv, QueueInv

\* A step of a caller that does not start a thread.
LEMMA CallerInv ==
    ASSUME QueueInv, QueueAssumption, NEW r \in Caller, CallerStep(r), ~Invoke(r)
    PROVE  QueueInv' /\ Settles /\ SerialStep /\ UNCHANGED <<refs, host, calls>>
<1>1. CASE Enter(r)
  BY <1>1, EnterInv DEF Enter, QueueAssumption
<1>2. CASE GetCondVar(r)
  BY <1>2, GetCondVarInv DEF GetCondVar
<1>3. CASE IsQueued(r)
  BY <1>3, IsQueuedInv DEF IsQueued
<1>4. CASE Test(r)
  BY <1>4, TestInv DEF Test
<1>5. CASE Sleep(r)
  BY <1>5, SleepInv DEF Sleep, QueueAssumption
<1>6. CASE Timeout(r)
  BY <1>6, TimeoutInv DEF Timeout, QueueAssumption
<1>7. CASE SpuriousWakeup(r)
  BY <1>7, SpuriousWakeupInv DEF SpuriousWakeup, QueueAssumption
<1>8. CASE Relock(r)
  BY <1>8, RelockInv DEF Relock, QueueAssumption
<1>9. CASE Return(r)
  BY <1>9, ReturnInv DEF Return
<1> QED
  BY <1>1, <1>2, <1>3, <1>4, <1>5, <1>6, <1>7, <1>8, <1>9 DEF CallerStep

\* A step of an extractor.
LEMMA ExtractorInv ==
    ASSUME QueueInv, QueueAssumption, Extractor
    PROVE  QueueInv' /\ Settles /\ SerialStep /\ UNCHANGED <<refs, host, calls>>
<1>1. CASE \E a \in Archive : Start(a)
  BY <1>1, StartInv DEF Start
<1>2. CASE Mark
  BY <1>2, MarkInv DEF Mark
<1>3. CASE Skip
  BY <1>3, SkipInv DEF Skip
<1>4. CASE ExistsCondVar
  BY <1>4, ExistsCondVarInv DEF ExistsCondVar
<1>5. CASE NotifyCondVar
  BY <1>5, NotifyCondVarInv DEF NotifyCondVar
<1>6. CASE QueueCleanup
  BY <1>6, QueueCleanupInv DEF QueueCleanup
<1>7. CASE ReleaseMutex
  BY <1>7, ReleaseMutexInv DEF ReleaseMutex
<1> QED
  BY <1>1, <1>2, <1>3, <1>4, <1>5, <1>6, <1>7 DEF Extractor

\* A step that leaves all but the counters alone.
LEMMA UnchangedInv ==
    ASSUME QueueInv, UNCHANGED <<lock, thread, cvs, ext, cached, call>>
    PROVE  QueueInv' /\ Settles /\ SerialStep
<1>1. QueueInv'
  BY DEF QueueInv, TypesOK, LockOK, ExtOK, CallOK, Key, NoLostWakeup, NoStaleCondVar
<1>2. Settles
  BY DEF Settles, Live, Starting
<1>3. SerialStep
  BY DEF SerialStep, ThreadStep, CachedStep, CallStep, StateOf
<1> QED
  BY <1>1, <1>2, <1>3

\* Any step.
LEMMA NextInv == ASSUME Inv, QueueAssumption, [Next]_vars PROVE Inv' /\ SerialStep
<1> DEFINE Goal == QueueInv' /\ RefsInv' /\ SerialStep
<1> USE DEF Inv
<1>1. ASSUME NEW r \in Caller, NEW a \in Archive, NEW i \in Item, Call(r, a, i)
      PROVE  Goal
  BY <1>1, CallInv, CallRefs
<1>2. ASSUME NEW r \in Caller, CallerStep(r) PROVE Goal
  <2>1. CASE Invoke(r)
    BY <2>1, InvokeInv, InvokeRefs
  <2>2. CASE ~Invoke(r)
    <3>1. QueueInv' /\ Settles /\ SerialStep /\ UNCHANGED <<refs, host, calls>>
      BY <1>2, <2>2, CallerInv
    <3>2. RefsInv'
      BY <3>1, SettlesRefs DEF RefsInv
    <3> QED
      BY <3>1, <3>2
  <2> QED
    BY <2>1, <2>2
<1>3. ASSUME Extractor PROVE Goal
  <2>1. QueueInv' /\ Settles /\ SerialStep /\ UNCHANGED <<refs, host, calls>>
    BY <1>3, ExtractorInv
  <2>2. RefsInv'
    BY <2>1, SettlesRefs DEF RefsInv
  <2> QED
    BY <2>1, <2>2
<1>4. ASSUME NEW a \in Archive, ExitThread(a) PROVE Goal
  BY <1>4, ExitThreadInv, ExitThreadRefs
<1>5. ASSUME NEW k \in cached, Evict(k) PROVE Goal
  <2>1. QueueInv' /\ Settles /\ SerialStep /\ UNCHANGED <<refs, host, calls>>
    BY <1>5, EvictInv DEF Evict
  <2>2. RefsInv'
    BY <2>1, SettlesRefs DEF RefsInv
  <2> QED
    BY <2>1, <2>2
<1>6. ASSUME FreeLibrary PROVE Goal
  <2>1. QueueInv' /\ Settles /\ SerialStep
    BY <1>6, UnchangedInv DEF FreeLibrary
  <2>2. RefsInv'
    BY <1>6, <2>1, SettlesRefs DEF FreeLibrary
  <2> QED
    BY <2>1, <2>2
<1>7. ASSUME UNCHANGED vars PROVE Goal
  <2>1. QueueInv' /\ Settles /\ SerialStep /\ UNCHANGED <<refs, host, calls>>
    BY <1>7, UnchangedInv DEF vars
  <2>2. RefsInv'
    BY <2>1, SettlesRefs DEF RefsInv
  <2> QED
    BY <2>1, <2>2
<1>8. Goal
  BY <1>1, <1>2, <1>3, <1>4, <1>5, <1>6, <1>7 DEF Next
<1> QED
  BY <1>8, InnerInv

\* The inductive invariant, and with it the theorems below.
THEOREM InvHolds == Spec => []Inv
<1>1. Init => Inv
  BY InitInv, QueueAssumption
<1>2. Inv /\ [Next]_vars => Inv'
  BY NextInv, QueueAssumption
<1> QED
  BY <1>1, <1>2, PTL DEF Spec

\* The types of the variables (TypeOK).
THEOREM TypeCorrect == Spec => []TypeOK
<1>1. Inv => TypeOK
  BY DEF Inv, QueueInv, TypesOK, CallOK, RefsInv, InnerOK, TypeOK, CallState, CallPC, ExtState,
     ThreadState
<1> QED
  BY <1>1, InvHolds, PTL

\* A wake-up is never lost between the test of IsCached_ in Extract and the
\* sleep, although the extractor notifies without the lock (NoLostWakeup).
THEOREM NoLostWakeupHolds == Spec => []NoLostWakeup
<1>1. Inv => NoLostWakeup
  BY DEF Inv, QueueInv
<1> QED
  BY <1>1, InvHolds, PTL

\* Queue::cvs has no entry that nobody will remove (NoStaleCondVar).
THEOREM NoStaleCondVarHolds == Spec => []NoStaleCondVar
<1>1. Inv => NoStaleCondVar
  BY DEF Inv, QueueInv
<1> QED
  BY <1>1, InvHolds, PTL

\* The DLL stays loaded while one of its threads runs (ThreadsKeepLibrary).
THEOREM ThreadsKeepLibraryHolds == Spec => []ThreadsKeepLibrary
<1>1. Inv => ThreadsKeepLibrary
  BY DEF Inv, RefsInv, Starting, ThreadsKeepLibrary
<1> QED
  BY <1>1, InvHolds, PTL

----------------------------------------------------------------------------
(* The refinement *)

\* The request of a caller, by the place of the call.
LEMMA RequestParts ==
    ASSUME NEW c
    PROVE  /\ c.pc = "idle" => RequestOf(c) = Serial!None /\ RequestOf(c).state = "none"
           /\ c.pc # "idle" =>
                /\ RequestOf(c) = Serial!Request(StateOf(c), <<c.a, c.i>>)
                /\ RequestOf(c).state = StateOf(c) /\ RequestOf(c).key = <<c.a, c.i>>
  BY DEF RequestOf, StateOf, Serial!None, Serial!Request

\* A step of a thread is a step of its job, ...
LEMMA JobMaps ==
    ASSUME thread \in [Archive -> ThreadState], thread' \in [Archive -> ThreadState],
           QueueInv, NEW a \in Archive, ThreadStep(a)
    PROVE  /\ JobOf(thread'[a]) \in {"none", "queued", "running", "over"}
           /\ Serial!JobStep(a)
<1>1. thread[a] \in ThreadState /\ thread'[a] \in ThreadState
  OBVIOUS
<1>2. JobOf(thread'[a]) \in {"none", "queued", "running", "over"}
  BY <1>1 DEF JobOf, ThreadState
<1>3. Serial!JobStep(a)
  <2>1. CASE thread'[a] = thread[a]
    BY <2>1 DEF Serial!JobStep
  <2>2. ASSUME thread[a] = "none", thread'[a] = "created",
               NEW r \in Caller, call[r].a = a, call[r].pc = "invoke", ~call[r].signaled,
               ~call[r].early
        PROVE  Serial!JobStep(a)
    <3>1. RequestOf(call[r]).state = "asked" /\ RequestOf(call[r]).key[1] = a
      <4>1. StateOf(call[r]) = "asked"
        BY <2>2 DEF StateOf
      <4>2. RequestOf(call[r]).state = "asked" /\ RequestOf(call[r]).key = <<call[r].a, call[r].i>>
        BY <2>2, <4>1, RequestParts
      <4> QED
        BY <2>2, <4>2
    <3>2. JobOf(thread[a]) = "none" /\ JobOf(thread'[a]) = "queued"
      BY <2>2 DEF JobOf
    <3> QED
      BY <3>1, <3>2 DEF Serial!JobStep
  <2>3. CASE thread[a] = "created" /\ thread'[a] = "running" /\ ext.pc = "idle"
    <3>1. \A b \in Archive : thread[b] \in ThreadState /\ thread[b] # "running"
      BY <2>3 DEF QueueInv, ExtOK, AtWork
    <3>2. \A b \in Archive : JobOf(thread[b]) # "running"
      BY <3>1 DEF JobOf, ThreadState
    <3>3. Serial!Running = {}
      BY <3>2 DEF Serial!Running
    <3>4. JobOf(thread[a]) = "queued" /\ JobOf(thread'[a]) = "running"
      BY <2>3 DEF JobOf
    <3> QED
      BY <3>3, <3>4 DEF Serial!JobStep
  <2>4. CASE thread[a] = "running" /\ thread'[a] = "cleaned"
    <3>1. JobOf(thread[a]) = "running" /\ JobOf(thread'[a]) = "over"
      BY <2>4 DEF JobOf
    <3> QED
      BY <3>1 DEF Serial!JobStep
  <2>5. CASE thread[a] = "cleaned" /\ thread'[a] = "exited"
    <3>1. JobOf(thread[a]) = JobOf(thread'[a])
      BY <2>5 DEF JobOf
    <3> QED
      BY <3>1 DEF Serial!JobStep
  <2>6. CASE thread[a] = "exited" /\ thread'[a] = "none"
    <3>1. JobOf(thread[a]) = "over" /\ JobOf(thread'[a]) = "none"
      BY <2>6 DEF JobOf
    <3> QED
      BY <3>1 DEF Serial!JobStep
  <2> QED
    BY <2>1, <2>2, <2>3, <2>4, <2>5, <2>6 DEF ThreadStep
<1> QED
  BY <1>2, <1>3

\* ... a step of the cache one of the items, ...
LEMMA ItemsMap ==
    ASSUME QueueInv, CachedStep
    PROVE  Serial!ItemStep
<1>1. CASE cached' = cached
  BY <1>1 DEF Serial!ItemStep
<1>2. CASE ext.pc = "item"
  <2>1. ext.a \in Archive /\ thread[ext.a] = "running"
    BY <1>2 DEF QueueInv, TypesOK, ExtState, ExtOK, AtWork
  <2>2. JobOf(thread[ext.a]) = "running"
    BY <2>1 DEF JobOf
  <2>3. ext.a \in Serial!Running
    BY <2>1, <2>2 DEF Serial!Running
  <2>4. CASE \E i \in Item : cached' = cached \cup {<<ext.a, i>>}
    BY <2>3, <2>4 DEF Serial!ItemStep
  <2>5. CASE \E k \in cached : cached' = cached \ {k}
    BY <2>3, <2>5 DEF Serial!ItemStep
  <2> QED
    BY <1>1, <2>4, <2>5 DEF CachedStep
<1> QED
  BY <1>1, <1>2 DEF CachedStep

\* ... and a step of a caller one of its request.
LEMMA RequestMaps ==
    ASSUME call \in [Caller -> CallState], call' \in [Caller -> CallState],
           thread' \in [Archive -> ThreadState], QueueInv,
           NEW r \in Caller, CallStep(r)
    PROVE  Serial!RequestStep(r)
<1> DEFINE c == call[r]
           d == call'[r]
           R(s) == RequestOf(call[s])
           N(s) == RequestOf(call'[s])
           job(b) == JobOf(thread'[b])
<1>1. /\ c.a \in Archive /\ d.a \in Archive
  BY DEF CallState
<1>2. R(r).state = "told" /\ c.pc # "idle" => StateOf(c) = "told"
  BY RequestParts
<1>3. CASE c.pc = "idle" /\ d.pc = "idle"
  <2>1. R(r) = N(r)
    BY <1>3, RequestParts
  <2> QED
    BY <2>1 DEF Serial!RequestStep
<1>4. CASE c.pc = "idle" /\ d.pc # "idle" /\ StateOf(d) = "asked" /\ d.i \in Item
  <2>1. R(r).state = "none" /\ N(r) = Serial!Request("asked", <<d.a, d.i>>)
    BY <1>4, RequestParts
  <2> QED
    BY <1>1, <1>4, <2>1 DEF Serial!RequestStep
<1>5. CASE c.pc # "idle" /\ StateOf(c) \in {"told", "early"} /\ d.pc = "idle"
  <2>1. R(r).state \in {"told", "early"} /\ N(r) = Serial!None
    BY <1>5, RequestParts
  <2> QED
    BY <2>1 DEF Serial!RequestStep
<1>6. CASE c.pc # "idle" /\ d.pc # "idle" /\ d.a = c.a /\ d.i = c.i
  <2>1. /\ R(r).state = StateOf(c) /\ R(r).key = <<c.a, c.i>> /\ R(r).key[1] = c.a
        /\ R(r) = Serial!Request(StateOf(c), <<c.a, c.i>>)
        /\ N(r) = Serial!Request(StateOf(d), R(r).key)
    BY <1>6, RequestParts
  <2>2. CASE StateOf(d) = StateOf(c)
    <3>1. R(r) = N(r)
      BY <2>1, <2>2
    <3> QED
      BY <3>1 DEF Serial!RequestStep
  <2>3. CASE StateOf(c) = "asked" /\ StateOf(d) = "joined" /\ thread'[c.a] # "none"
    <3>1. job(c.a) # "none"
      BY <1>1, <2>3 DEF JobOf, ThreadState
    <3> QED
      BY <1>1, <2>1, <2>3, <3>1 DEF Serial!RequestStep
  <2>4. CASE /\ StateOf(c) \notin {"told", "early"} /\ StateOf(d) = "told"
             /\ \/ Key(r) \in cached
                \/ StateOf(c) = "joined" /\ thread'[c.a] \in {"cleaned", "exited", "none"}
    <3>1. StateOf(c) \in {"asked", "joined"}
      BY <2>4 DEF StateOf
    <3>2. Key(r) = R(r).key
      BY <2>1 DEF Key
    <3>3. thread'[c.a] \in {"cleaned", "exited", "none"} => job(c.a) \in {"over", "none"}
      BY DEF JobOf
    <3>4. Serial!MayTell(r)
      BY <1>1, <2>1, <2>4, <3>2, <3>3 DEF Serial!MayTell
    <3> QED
      BY <2>1, <2>4, <3>1, <3>4 DEF Serial!RequestStep
  <2>5. CASE Spurious /\ StateOf(c) = "joined" /\ StateOf(d) = "early"
    BY <2>1, <2>5 DEF Serial!RequestStep
  <2> QED
    BY <1>6, <2>2, <2>3, <2>4, <2>5 DEF CallStep
<1> QED
  BY <1>3, <1>4, <1>5, <1>6 DEF CallStep

\* So a step of ExtractQueue is one of SerialExtraction.
LEMMA SerialNext == ASSUME QueueInv, QueueInv', SerialStep PROVE Serial!Next
<1>1. /\ thread \in [Archive -> ThreadState] /\ thread' \in [Archive -> ThreadState]
      /\ call \in [Caller -> CallState] /\ call' \in [Caller -> CallState]
  BY DEF QueueInv, TypesOK
<1>2. \A a \in Archive : /\ JobOf(thread'[a]) \in {"none", "queued", "running", "over"}
                         /\ Serial!JobStep(a)
  BY <1>1, JobMaps DEF SerialStep
<1>3. Serial!ItemStep
  BY ItemsMap DEF SerialStep
<1>4. \A r \in Caller : Serial!RequestStep(r)
  BY <1>1, RequestMaps DEF SerialStep
<1> QED
  BY <1>2, <1>3, <1>4 DEF Serial!Next

\* The queue implements SerialExtraction: whatever the interleaving, jobs run
\* one at a time and a call of Extract is answered for a reason or, only if
\* wait_for may return without one, left early.
THEOREM Implements == Spec => ImplementsSerialExtraction
<1>1. Init => Serial!Init
  <2> SUFFICES ASSUME Init PROVE Serial!Init
    OBVIOUS
  <2>1. \A a \in Archive : JobOf(thread[a]) = "none"
    BY DEF Init, JobOf
  <2>2. \A r \in Caller : RequestOf(call[r]) = Serial!None
    BY RequestParts DEF Init, NoCall
  <2> QED
    BY <2>1, <2>2 DEF Init, Serial!Init
<1>2. Inv /\ Inv' /\ [Next]_vars => [Serial!Next]_(Serial!vars)
  BY NextInv, SerialNext, QueueAssumption DEF Inv
<1> QED
  BY <1>1, <1>2, InvHolds, PTL DEF Spec, ImplementsSerialExtraction, Serial!Spec
=============================================================================
