------------------------------ MODULE GetFile ------------------------------
(***************************************************************************)
(* GetArchiveInfo, GetFileInfo and GetFile for archives that are not taken *)
(* from the solid cache: look the list up in the information cache, open   *)
(* the archive to make it, open it again to extract the item, ask for the  *)
(* password and retry.  The calls come from any thread of the host; they   *)
(* share one InfoCache, which locks, and one PasswordManager, which does   *)
(* not, so each of its methods is a step.                                  *)
(***************************************************************************)
EXTENDS Integers, FiniteSets

CONSTANTS
    Thread, Archive, NULL,
    Text, NoText,
    Right,        \* the password of each archive that has one
    HiddenNames,  \* archives whose list of names is encrypted too
    SolidRar,     \* solid RAR archives
    Damaged,      \* archives whose data do not pass their checksum
    Unreliable,   \* archives whose file another program may keep from being read
    Together,     \* archives the host works on in several threads at once
    Size,         \* slots of the information cache
    MaxCalls      \* bound on the calls the host makes

Encrypted == DOMAIN Right
Handle == 1..Size + Cardinality(Thread)

VARIABLES
    arcinfo, nowno, heap,   \* infocache
    pm,                     \* PasswordManager::Get()
    thread,                 \* the call of each thread
    calls,
    skippedArc              \* history: Skip Archive was the answer for this one

cache == <<arcinfo, nowno, heap>>
vars == <<cache, pm, thread, calls, skippedArc>>

Info == INSTANCE InfoCache WITH Path <- Archive
PM == INSTANCE PasswordManager

ASSUME GetFileAssumption ==
    /\ Info!InfoCacheAssumption
    /\ Encrypted \subseteq Archive /\ HiddenNames \subseteq Encrypted
    /\ Right \in [Encrypted -> Text] /\ NoText \notin Text
    /\ IsFiniteSet(Thread) /\ MaxCalls \in Nat

NoCall ==
    [pc |-> "idle", op |-> "info", a |-> NULL, stage |-> "list", by |-> "open",
     hinfo |-> NULL, age |-> 0, stale |-> FALSE, answer |-> NoText,
     errors |-> FALSE, filled |-> FALSE, ret |-> "none",
     declined |-> FALSE, readFailed |-> FALSE]

Init ==
    /\ Info!Init /\ pm = PM!New
    /\ thread = [t \in Thread |-> NoCall]
    /\ calls = 0 /\ skippedArc = NULL

Goto(t, pc) == thread' = [thread EXCEPT ![t].pc = pc]
Return(t, code) == thread' = [thread EXCEPT ![t].pc = "return", ![t].ret = code]

----------------------------------------------------------------------------
(* GetArchiveInfoCache                                                     *)

Busy == {t \in Thread : thread[t].pc # "idle"}

Call(t, op, a) ==
    /\ thread[t].pc = "idle" /\ calls < MaxCalls
    /\ Busy # {} => a \in Together /\ \A u \in Busy : thread[u].a \in Together
    /\ thread' = [thread EXCEPT ![t] = [NoCall EXCEPT !.pc = "lookup", !.op = op, !.a = a]]
    /\ calls' = calls + 1
    /\ UNCHANGED <<cache, pm, skippedArc>>

\* InfoCache::Dupli copies out of the list under its lock; GetFile then goes
\* on to GetFileEx, the others return.
Lookup(t) ==
    /\ thread[t].pc = "lookup"
    /\ IF Info!GetCache(thread[t].a) = NULL THEN Goto(t, "notify")
       ELSE IF thread[t].op = "info" THEN Return(t, "ALL_RIGHT")
       ELSE thread' = [thread EXCEPT ![t].pc = "notify", ![t].stage = "file"]
    /\ UNCHANGED <<cache, pm, calls, skippedArc>>

\* GetArchiveInfoEx makes the list of the archive it has opened.
List(t) ==
    LET h == CHOOSE x \in Handle \ heap : TRUE IN
    /\ thread[t].pc = "list"
    /\ Info!NewList(h)
    /\ thread' = [thread EXCEPT ![t].pc = "add", ![t].hinfo = h]
    /\ UNCHANGED <<pm, calls, skippedArc>>

\* InfoCache::Add may free a list another call is reading.
AddList(t) ==
    /\ thread[t].pc = "add"
    /\ Info!Add(thread[t].a, thread[t].hinfo)
    /\ thread' = [u \in Thread |->
          IF u = t THEN [thread[t] EXCEPT !.pc = "use"]
          ELSE IF thread[u].pc = "use"
          THEN [thread[u] EXCEPT !.age = @ + 1,
                                 !.stale = @ \/ thread[u].hinfo \notin heap']
          ELSE thread[u]]
    /\ UNCHANGED <<pm, calls, skippedArc>>

\* The rest of GetArchiveInfoCache reads the list that now is the cache's.
Use(t) ==
    LET c == [thread[t] EXCEPT !.hinfo = NULL, !.age = 0, !.stale = FALSE] IN
    /\ thread[t].pc = "use"
    /\ thread' = [thread EXCEPT ![t] =
          IF c.op = "info" THEN [c EXCEPT !.pc = "return", !.ret = "ALL_RIGHT"]
          ELSE [c EXCEPT !.pc = "notify", !.stage = "file"]]
    /\ UNCHANGED <<cache, pm, calls, skippedArc>>

----------------------------------------------------------------------------
(* MyOpenArchive                                                           *)

Notify(t) ==
    /\ thread[t].pc = "notify"
    /\ PM!NotifyArchive(thread[t].a)
    /\ skippedArc' = IF skippedArc = thread[t].a THEN skippedArc ELSE NULL
    /\ Goto(t, "open")
    /\ UNCHANGED <<cache, calls>>

\* OpenArchive reads the file and asks for the password if the names are
\* encrypted.
OpenArchive(t) ==
    /\ thread[t].pc = "open"
    /\ \/ thread' = [thread EXCEPT ![t].by = "open", ![t].pc =
             IF thread[t].a \in HiddenNames THEN "ask" ELSE "opened"]
       \/ /\ thread[t].a \in Unreliable
          /\ thread' = [thread EXCEPT ![t].pc = "openFailed", ![t].readFailed = TRUE]
    /\ UNCHANGED <<cache, pm, calls, skippedArc>>

OpenFailed(t) ==
    /\ thread[t].pc = "openFailed"
    /\ PM!NotifyError
    /\ Goto(t, "check")
    /\ UNCHANGED <<cache, calls, skippedArc>>

\* IsRetry is asked in the loop ...
Check(t) ==
    /\ thread[t].pc = "check"
    /\ IF PM!IsRetry THEN Goto(t, "recheck") ELSE Return(t, "READ_ERROR")
    /\ UNCHANGED <<cache, pm, calls, skippedArc>>

\* ... and again by its condition: if the answer has changed, MyOpenArchive
\* returns true without a handler, which the caller then uses.
Recheck(t) ==
    /\ thread[t].pc = "recheck"
    /\ Goto(t, IF PM!IsRetry THEN "open" ELSE "noHandler")
    /\ UNCHANGED <<cache, pm, calls, skippedArc>>

Opened(t) ==
    /\ thread[t].pc = "opened"
    /\ PM!ClearError
    /\ Goto(t, IF thread[t].stage = "list" THEN "list" ELSE "prepare")
    /\ UNCHANGED <<cache, calls, skippedArc>>

----------------------------------------------------------------------------
(* CryptoGetTextPassword of the two callbacks                              *)

Ask(t) ==
    /\ thread[t].pc = "ask"
    /\ IF PM!Asks
       THEN pm' = PM!Asking /\ Goto(t, "dialog")
       ELSE /\ pm' = PM!Answered(PM!Asking)
            /\ thread' = [thread EXCEPT ![t].pc = "decode",
                                        ![t].answer = PM!Answer(PM!Asking)]
    /\ UNCHANGED <<cache, calls, skippedArc>>

TypePassword(t, x) ==
    /\ thread[t].pc = "dialog"
    /\ PM!PressOK(x)
    /\ Goto(t, "answered")
    /\ UNCHANGED <<cache, calls, skippedArc>>

\* The button is disabled when the names are encrypted.
Skip(t) ==
    /\ thread[t].pc = "dialog" /\ thread[t].by = "extract"
    /\ PM!PressSkip
    /\ thread' = [thread EXCEPT ![t].pc = "answered", ![t].declined = TRUE]
    /\ UNCHANGED <<cache, calls, skippedArc>>

SkipArchive(t) ==
    /\ thread[t].pc = "dialog"
    /\ PM!PressSkipArchive
    /\ Goto(t, "answered")
    /\ skippedArc' = thread[t].a
    /\ UNCHANGED <<cache, calls>>

DialogEnd(t) ==
    /\ thread[t].pc = "answered"
    /\ pm' = PM!Answered([pm EXCEPT !.error = FALSE])
    /\ thread' = [thread EXCEPT ![t].pc = "decode", ![t].answer = PM!Answer(pm)]
    /\ UNCHANGED <<cache, calls, skippedArc>>

\* The password opens the names, or it does not.
DecodeNames(t) ==
    /\ thread[t].pc = "decode" /\ thread[t].by = "open"
    /\ Goto(t, IF thread[t].answer = Right[thread[t].a] THEN "opened" ELSE "openFailed")
    /\ UNCHANGED <<cache, pm, calls, skippedArc>>

----------------------------------------------------------------------------
(* GetFileExImp_Normal                                                     *)

\* A password the user has not just typed is not tried on a solid RAR.
Prepare(t) ==
    /\ thread[t].pc = "prepare"
    /\ IF thread[t].a \in SolidRar /\ ~PM!IsValid THEN PM!Reset ELSE UNCHANGED pm
    /\ Goto(t, "extract")
    /\ UNCHANGED <<cache, calls, skippedArc>>

\* Extract returns an error before any item has a result; nobody looks at it.
ReadFails(t) ==
    /\ thread[t].pc = "extract" /\ thread[t].a \in Unreliable
    /\ thread' = [thread EXCEPT ![t].pc = "again", ![t].errors = FALSE,
                                ![t].readFailed = TRUE]
    /\ UNCHANGED <<cache, pm, calls, skippedArc>>

Extract(t) ==
    /\ thread[t].pc = "extract"
    /\ thread' = [thread EXCEPT
          ![t].pc = IF thread[t].a \in Encrypted THEN "ask" ELSE "decode",
          ![t].by = "extract", ![t].errors = FALSE]
    /\ UNCHANGED <<cache, pm, calls, skippedArc>>

Decodes(t) ==
    /\ thread[t].a \notin Damaged
    /\ thread[t].a \in Encrypted => thread[t].answer = Right[thread[t].a]

\* SetOperationResult.
OperationResult(t) ==
    /\ thread[t].pc = "decode" /\ thread[t].by = "extract"
    /\ thread' = [thread EXCEPT ![t].pc = "again", ![t].errors = ~Decodes(t),
                                ![t].filled = Decodes(t)]
    /\ IF Decodes(t) THEN UNCHANGED pm ELSE PM!NotifyError
    /\ UNCHANGED <<cache, calls, skippedArc>>

ExtractAgain(t) ==
    /\ thread[t].pc = "again"
    /\ Goto(t, IF thread[t].errors /\ PM!IsRetry THEN "extract" ELSE "end")
    /\ UNCHANGED <<cache, pm, calls, skippedArc>>

EndFile(t) ==
    /\ thread[t].pc = "end"
    /\ PM!NotfiyEndFile
    /\ Return(t, IF thread[t].errors THEN "READ_ERROR" ELSE "ALL_RIGHT")
    /\ UNCHANGED <<cache, calls, skippedArc>>

Returned(t) ==
    /\ thread[t].pc = "return"
    /\ thread' = [thread EXCEPT ![t] = NoCall]
    /\ UNCHANGED <<cache, pm, calls, skippedArc>>

ThreadStep(t) ==
    \/ Lookup(t) \/ List(t) \/ AddList(t) \/ Use(t)
    \/ Notify(t) \/ OpenArchive(t) \/ OpenFailed(t) \/ Check(t) \/ Recheck(t) \/ Opened(t)
    \/ Ask(t) \/ DialogEnd(t) \/ DecodeNames(t)
    \/ Prepare(t) \/ ReadFails(t) \/ Extract(t) \/ OperationResult(t) \/ ExtractAgain(t)
    \/ EndFile(t) \/ Returned(t)

User(t) == Skip(t) \/ SkipArchive(t) \/ \E x \in Text : TypePassword(t, x)

\* The host unloads the plug-in: DLL_PROCESS_DETACH clears the information
\* cache, and static objects start anew when it is loaded again.
Unload ==
    /\ Busy = {}
    /\ Info!Clear
    /\ pm' = PM!New
    /\ skippedArc' = NULL
    /\ UNCHANGED <<thread, calls>>

Next ==
    \/ \E t \in Thread, op \in {"info", "file"}, a \in Archive : Call(t, op, a)
    \/ \E t \in Thread : ThreadStep(t) \/ User(t)
    \/ Unload

Spec == Init /\ [][Next]_vars

\* Threads run, the user answers a dialog, and who is asked again and again
\* presses Skip Archive in the end.
Fairness ==
    \A t \in Thread : /\ WF_vars(ThreadStep(t)) /\ WF_vars(User(t))
                      /\ SF_vars(SkipArchive(t))

FairSpec == Spec /\ Fairness

----------------------------------------------------------------------------
(* Properties *)

\* The types of the variables.
TypeOK ==
    /\ arcinfo \in [Info!Slot -> [hinfo : Handle \cup {NULL}, path : Archive \cup {NULL}]]
    /\ nowno \in Info!Slot /\ heap \subseteq Handle
    /\ pm \in [password : BOOLEAN, used : BOOLEAN, changed : BOOLEAN, error : BOOLEAN,
               skip : BOOLEAN, skipArc : BOOLEAN,
               text : Text \cup {NoText}, archive : Archive \cup {NULL}]
    /\ DOMAIN thread = Thread
    /\ \A t \in Thread :
          /\ thread[t].pc \in
                {"idle", "lookup", "list", "add", "use", "notify", "open", "openFailed",
                 "check", "recheck", "noHandler", "opened", "ask", "dialog", "answered",
                 "decode", "prepare", "extract", "again", "end", "return"}
          /\ thread[t].a \in Archive \cup {NULL}
          /\ thread[t].hinfo \in Handle \cup {NULL}
          /\ thread[t].answer \in Text \cup {NoText}
    /\ calls \in 0..MaxCalls
    /\ skippedArc \in Archive \cup {NULL}

\* Every list that has not been freed belongs to exactly one slot of the cache
\* or to the call that has just made it: nothing leaks and nothing is freed
\* twice, however calls interleave around Add.
ListsAccounted ==
    LET Held == {thread[t].hinfo : t \in {u \in Thread : thread[u].pc = "add"}}
        InCache == {arcinfo[n].hinfo : n \in Info!Filled} IN
    /\ heap = InCache \cup Held /\ InCache \cap Held = {}
    /\ Cardinality(InCache) = Cardinality(Info!Filled)

\* GetArchiveInfoCache goes on reading a list after Add has left the critical
\* section.  The list is freed under it only if as many other archives as the
\* cache has slots are listed in that short time.
FreedOnlyWhenOld ==
    \A t \in Thread : thread[t].stale => thread[t].age >= Size

\* The lists the ring keeps are the last ones listed.
ImplementsRecentLists == Info!ImplementsRecentLists
SearchFindsNewest == Info!SearchFindsNewest

\* Whatever was answered for other archives before and whatever the flags still
\* say of them: a call succeeds only with the item decoded (or reading failed,
\* which is not reported), and fails only if the archive is damaged, reading
\* failed or the user skipped it.  No call goes on without a handler.
AnswerJustified ==
    \A t \in Thread :
        /\ thread[t].pc # "noHandler"
        /\ thread[t].ret = "ALL_RIGHT" /\ thread[t].op = "file"
           => thread[t].filled \/ thread[t].readFailed
        /\ thread[t].ret = "READ_ERROR"
           => \/ thread[t].a \in Damaged \/ thread[t].readFailed
              \/ thread[t].declined \/ skippedArc = thread[t].a

\* Archives that can fail with the right password.  While an archive is opened
\* an error of reading is not told from a wrong password for its names.
Doubtful == Damaged \cup (HiddenNames \cap Unreliable)

\* The user is not asked again for the password of any other archive after
\* typing it, until another one is opened.
RightPasswordKept ==
    \A t \in Thread :
        LET a == thread[t].a IN
        thread[t].pc = "dialog" /\ a \notin Doubtful => pm.changed \/ pm.text # Right[a]

\* Every call ends, with the retries of MyOpenArchive and GetFileExImp_Normal
\* and the user typing wrong passwords.
EveryCallEnds == \A t \in Thread : thread[t].pc # "idle" ~> thread[t].pc = "idle"
=============================================================================
