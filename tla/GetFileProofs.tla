---------------------------- MODULE GetFileProofs ----------------------------
(***************************************************************************)
(* Proofs about GetFile, for any threads, archives and number of calls:    *)
(* the memory of the lists, the search of the information cache, and what  *)
(* the flags of the password manager, which the calls share, decide.       *)
(***************************************************************************)
EXTENDS GetFile, FiniteSetTheorems, TLAPS

PC == {"idle", "lookup", "list", "add", "use", "notify", "open", "openFailed",
       "check", "recheck", "noHandler", "opened", "ask", "dialog", "answered",
       "decode", "prepare", "extract", "again", "end", "return"}
CallState ==
    [pc : PC, op : {"info", "file"}, a : Archive \cup {NULL}, stage : {"list", "file"},
     by : {"open", "extract"}, hinfo : Handle \cup {NULL}, age : Nat, stale : BOOLEAN,
     answer : Text \cup {NoText}, errors : BOOLEAN, filled : BOOLEAN,
     ret : {"none", "ALL_RIGHT", "READ_ERROR"}, declined : BOOLEAN, readFailed : BOOLEAN]
PMState ==
    [password : BOOLEAN, used : BOOLEAN, changed : BOOLEAN, error : BOOLEAN,
     skip : BOOLEAN, skipArc : BOOLEAN,
     text : Text \cup {NoText}, archive : Archive \cup {NULL}]

\* The types of the calls; a call has an archive.
CallTypes ==
    /\ thread \in [Thread -> CallState] /\ pm \in PMState
    /\ calls \in 0..MaxCalls /\ skippedArc \in Archive \cup {NULL}
    /\ \A t \in Thread : thread[t].pc # "idle" => thread[t].a \in Archive

\* A step of t that does not touch the cache, when t neither has a list in hand
\* nor reads one.
Quiet(t) ==
    /\ UNCHANGED cache
    /\ \A u \in Thread : u # t => thread'[u] = thread[u]
    /\ thread[t].pc \notin {"add", "use"} /\ thread'[t].pc \notin {"add", "use"}
    /\ thread'[t].age \in {thread[t].age, 0} /\ thread'[t].stale \in {thread[t].stale, FALSE}

----------------------------------------------------------------------------
(* The inductive invariant of the password manager                         *)

\* Only archives without a password are worked on in several threads at once:
\* nothing guards the password manager.
OneAsksAtATime == Together \cap Encrypted = {}

Sign(t) == thread[t].a \in Encrypted
Hidden(t) == thread[t].a \in HiddenNames

\* Two threads at work at the same time work on archives of Together.
Alone ==
    \A t, u \in Thread :
        t # u /\ thread[t].pc # "idle" /\ thread[u].pc # "idle" => thread[t].a \in Together

\* From NotifyArchive until the call returns, the password manager works for
\* the archive of the call if that has a password, and for none that has one if
\* not.
Bound(t) ==
    thread[t].pc \in {"list", "add", "open", "openFailed", "check", "recheck", "opened",
                      "ask", "dialog", "answered", "decode", "prepare", "extract",
                      "again", "end"}
    => IF Sign(t) THEN pm.archive = thread[t].a ELSE pm.archive \notin Encrypted

\* Who is asked, and the answer the decoder gets.
Asked(t) ==
    /\ thread[t].pc \in {"ask", "dialog", "answered"} => Sign(t)
    /\ thread[t].pc \in {"ask", "dialog", "answered", "decode"} /\ thread[t].by = "open"
       => Hidden(t)
    /\ thread[t].pc = "decode" /\ Sign(t) => thread[t].answer = pm.text /\ pm.used
    /\ thread[t].declined
       => /\ Sign(t) /\ thread[t].by = "extract"
          /\ thread[t].pc \in {"extract", "ask", "dialog", "answered", "decode",
                               "again", "end", "return"}

\* Why the archive could not be opened.
NotOpened(t) ==
    /\ thread[t].pc = "openFailed"
       => /\ thread[t].readFailed \/ (Hidden(t) /\ pm.used)
          /\ Hidden(t) /\ thread[t].a \notin Unreliable => pm.text # Right[thread[t].a]
    /\ thread[t].pc \in {"check", "recheck"}
       => thread[t].readFailed \/ (Hidden(t) /\ pm.used /\ pm.error)
    /\ thread[t].pc = "recheck" => Sign(t) /\ PM!IsRetry
    /\ thread[t].pc # "noHandler"

\* What the flags say while the item is extracted.
Extracting(t) ==
    /\ thread[t].pc = "prepare" /\ Sign(t) => ~pm.error
    /\ thread[t].pc = "extract" \/ (thread[t].pc = "ask" /\ thread[t].by = "extract")
       => (Sign(t) /\ pm.error => pm.used)
    /\ thread[t].pc = "again" /\ thread[t].errors /\ thread[t].a \notin Damaged
       => Sign(t) /\ pm.used /\ pm.error
    /\ thread[t].pc = "end" /\ thread[t].errors
       => \/ thread[t].a \in Damaged \/ thread[t].declined
          \/ skippedArc = thread[t].a
    /\ thread[t].pc \in {"again", "end"} /\ ~thread[t].errors
       => thread[t].filled \/ thread[t].readFailed

\* The results, with what justifies them.
Result(t) ==
    /\ thread[t].ret # "none" => thread[t].pc = "return"
    /\ thread[t].ret = "ALL_RIGHT" /\ thread[t].op = "file"
       => thread[t].filled \/ thread[t].readFailed
    /\ thread[t].ret = "READ_ERROR"
       => \/ thread[t].a \in Damaged \/ thread[t].readFailed
          \/ thread[t].declined \/ skippedArc = thread[t].a
    /\ thread[t].readFailed => thread[t].a \in Unreliable

CallInv(t) == Bound(t) /\ Asked(t) /\ NotOpened(t) /\ Extracting(t) /\ Result(t)

\* Whose doing the flags are: the password is used, or Skip pressed, by a call
\* that has not ended, unless opening the archive used it.
UsedBy(t) ==
    /\ thread[t].a = pm.archive
    /\ thread[t].pc \in {"extract", "ask", "dialog", "answered", "decode", "again", "end"}
SkippedBy(t) ==
    /\ thread[t].a = pm.archive /\ thread[t].declined
    /\ thread[t].pc \in {"answered", "decode", "again", "end"}
FlagsOf(T) ==
    /\ pm.used => /\ pm.archive \in Encrypted
                  /\ pm.archive \in HiddenNames \/ \E t \in T : UsedBy(t)
    /\ pm.skip => \E t \in T : SkippedBy(t)
    /\ pm.skipArc => skippedArc = pm.archive
    /\ skippedArc # NULL => skippedArc \in Encrypted
    /\ pm.error /\ pm.archive \in HiddenNames => pm.used \/ pm.archive \in Unreliable

\* A right password that has not been typed for another archive is used and not
\* asked for again.
Decided(t) == thread[t].pc = "answered" /\ (pm.password \/ pm.skip)
KeptOf(T) ==
    /\ pm.archive \in Encrypted \ Doubtful
       => \/ pm.changed \/ pm.text # Right[pm.archive] \/ pm.skipArc
          \/ pm.password /\ ~(pm.used /\ pm.error)
          \/ \E t \in T : Decided(t)
    /\ \A t \in T : thread[t].pc = "dialog" /\ thread[t].a \notin Doubtful
                    => pm.changed \/ pm.text # Right[thread[t].a]

PasswordInv ==
    /\ Alone /\ FlagsOf(Thread) /\ KeptOf(Thread)
    /\ \A t \in Thread : CallInv(t)

\* The part of it that is about one thread.
Single(t) == FlagsOf({t}) /\ KeptOf({t}) /\ CallInv(t)
----------------------------------------------------------------------------
(* A step of one thread                                                    *)

\* What every step of a busy thread does to the rest.
SameCall(u) ==
    /\ thread'[u].pc = thread[u].pc /\ thread'[u].op = thread[u].op
    /\ thread'[u].a = thread[u].a /\ thread'[u].by = thread[u].by
    /\ thread'[u].answer = thread[u].answer /\ thread'[u].errors = thread[u].errors
    /\ thread'[u].filled = thread[u].filled /\ thread'[u].ret = thread[u].ret
    /\ thread'[u].declined = thread[u].declined
    /\ thread'[u].readFailed = thread[u].readFailed
Moves(t) ==
    /\ \A u \in Thread : u # t => SameCall(u)
    /\ thread'[t].pc # "idle" => thread'[t].a = thread[t].a
    /\ pm'.archive \in {pm.archive, thread[t].a}

\* The call that is asked for a password is the only one.
LEMMA OnlyOne ==
    ASSUME OneAsksAtATime, Alone, NEW t \in Thread, NEW u \in Thread,
           thread[t].pc # "idle", thread[u].pc # "idle", Sign(u)
    PROVE  u = t
BY DEF OneAsksAtATime, Alone, Sign

\* So the flags can be put down to the thread that is about to take a step.
LEMMA SingleHolds ==
    ASSUME OneAsksAtATime, PasswordInv, NEW t \in Thread, thread[t].pc # "idle"
    PROVE  Single(t)
<1>1. Alone /\ CallInv(t)
  BY DEF PasswordInv
<1>2. \A u \in Thread : thread[u].pc # "idle" /\ Sign(u) => u = t
  BY <1>1, OnlyOne
<1>3. pm.skip => pm.archive \in Encrypted
  <2>1. ASSUME NEW u \in Thread, SkippedBy(u)
        PROVE  pm.archive \in Encrypted
    BY <2>1 DEF PasswordInv, CallInv, Asked, SkippedBy, Sign
  <2> QED  BY <2>1 DEF PasswordInv, FlagsOf
<1>4. FlagsOf({t})
  BY <1>2, <1>3 DEF PasswordInv, FlagsOf, UsedBy, SkippedBy, Sign
<1>5. \A u \in Thread : Decided(u) => Sign(u) /\ thread[u].pc # "idle"
  BY DEF PasswordInv, CallInv, Asked, Decided
<1>6. KeptOf({t})
  BY <1>2, <1>5 DEF PasswordInv, KeptOf
<1> QED  BY <1>1, <1>4, <1>6 DEF Single

\* The step keeps what is said of every thread.
LEMMA StepOfOne ==
    ASSUME GetFileAssumption, OneAsksAtATime, CallTypes, PasswordInv,
           NEW t \in Thread, thread[t].pc # "idle", Moves(t), Single(t)'
    PROVE  PasswordInv'
<1>1. Alone'
  BY DEF PasswordInv, Alone, Moves, SameCall
<1>2. \A u \in Thread : u # t /\ thread[u].pc # "idle"
                        => thread[u].a \in Together /\ thread[t].a \in Together
  BY DEF PasswordInv, Alone
<1>3. FlagsOf(Thread)'
  BY DEF Single, FlagsOf
<1>4. ASSUME NEW u \in Thread, u # t PROVE CallInv(u)'
  <2>1. SameCall(u) /\ CallInv(u)
    BY <1>4 DEF Moves, PasswordInv
  <2>2. CASE thread[u].pc = "idle"
    BY <2>1, <2>2 DEF SameCall, CallInv, Bound, Asked, NotOpened, Extracting, Result, Sign
  <2>3. CASE thread[u].pc # "idle"
    <3>1. ~Sign(u) /\ ~Sign(t)
      BY <1>2, <1>4, <2>3 DEF OneAsksAtATime, Sign
    <3>2. ~Hidden(u)
      BY <3>1, GetFileAssumption DEF Hidden, Sign
    <3>3. skippedArc # thread[u].a
      <4>1. thread[u].a \in Archive /\ NULL \notin Archive
        BY <2>3, GetFileAssumption DEF CallTypes, Info!InfoCacheAssumption
      <4> QED  BY <3>1, <4>1 DEF PasswordInv, FlagsOf, Sign
    <3>4. Bound(u)'
      BY <2>1, <3>1 DEF Moves, SameCall, CallInv, Bound, Sign
    <3>5. Asked(u)'
      BY <2>1, <3>1, <3>2 DEF SameCall, CallInv, Asked, Sign, Hidden
    <3>6. NotOpened(u)'
      BY <2>1, <3>1, <3>2 DEF SameCall, CallInv, NotOpened, Sign, Hidden
    <3>7. Extracting(u)'
      BY <2>1, <3>1, <3>3 DEF SameCall, CallInv, Extracting, Sign
    <3>8. Result(u)'
      BY <2>1, <3>3 DEF SameCall, CallInv, Result
    <3> QED  BY <3>4, <3>5, <3>6, <3>7, <3>8 DEF CallInv
  <2> QED  BY <2>2, <2>3
<1>5. ASSUME NEW u \in Thread, u # t, thread[u].pc = "dialog" PROVE FALSE
  <2>1. Sign(u)
    BY <1>5 DEF PasswordInv, CallInv, Asked
  <2> QED  BY <1>2, <1>5, <2>1 DEF OneAsksAtATime, Sign
<1>6. KeptOf(Thread)'
  <2>1. KeptOf({t})' /\ \A u \in Thread : u # t => thread'[u].pc # "dialog"
    BY <1>5 DEF Single, Moves, SameCall
  <2> QED  BY <2>1 DEF KeptOf
<1>7. CallInv(t)'
  BY DEF Single
<1> QED  BY <1>1, <1>3, <1>4, <1>6, <1>7 DEF PasswordInv

\* A step that changes the call of t and of nobody else.
LEMMA Update ==
    ASSUME CallTypes, NEW t \in Thread, NEW c \in CallState,
           thread' = [thread EXCEPT ![t] = c], thread[t].pc # "idle",
           c.pc # "idle" => c.a = thread[t].a,
           pm' \in PMState, pm'.archive \in {pm.archive, thread[t].a},
           calls' = calls, skippedArc' \in {skippedArc, NULL, thread[t].a}
    PROVE  /\ CallTypes' /\ Moves(t) /\ thread'[t] = c
           /\ \A u \in Thread : u # t => thread'[u] = thread[u]
<1>1. thread' \in [Thread -> CallState] /\ thread'[t] = c
      /\ \A u \in Thread : u # t => thread'[u] = thread[u]
  BY DEF CallTypes
<1>2. thread[t].a \in Archive
  BY DEF CallTypes
<1>3. Moves(t)
  BY <1>1 DEF Moves, SameCall
<1>4. CallTypes'
  BY <1>1, <1>2 DEF CallTypes
<1> QED  BY <1>1, <1>3, <1>4

\* What the configuration says of passwords.
LEMMA Passwords ==
    /\ Encrypted \subseteq Archive /\ HiddenNames \subseteq Encrypted
    /\ \A a \in Encrypted : Right[a] \in Text
    /\ NoText \notin Text /\ NULL \notin Archive
BY GetFileAssumption DEF Info!InfoCacheAssumption

\* The answers of the password manager are passwords.
LEMMA AnswerType == CallTypes => /\ PM!Answer(pm) \in Text \cup {NoText}
                                /\ PM!Answer(PM!Asking) \in Text \cup {NoText}
BY DEF CallTypes, PMState, PM!Answer, PM!Asking, PM!KeptPassword, PM!IsRetry

\* A caller looks its archive up in the cache.
LEMMA LookupKeeps ==
    ASSUME CallTypes, NEW t \in Thread, Lookup(t)
    PROVE  CallTypes' /\ Moves(t) /\ Quiet(t) /\ (Single(t) => Single(t)')
<1> DEFINE c == IF Info!GetCache(thread[t].a) = NULL THEN [thread[t] EXCEPT !.pc = "notify"]
               ELSE IF thread[t].op = "info"
               THEN [thread[t] EXCEPT !.pc = "return", !.ret = "ALL_RIGHT"]
               ELSE [thread[t] EXCEPT !.pc = "notify", !.stage = "file"]
<1>1. /\ thread' = [thread EXCEPT ![t] = c]
      /\ calls' = calls /\ skippedArc' = skippedArc
      /\ thread[t].pc = "lookup"
  BY DEF Lookup, Goto, Return, CallTypes
<1>2. thread[t] \in CallState
  BY DEF CallTypes
<1>3. c \in CallState
  <2>1. "notify" \in PC /\ "return" \in PC
    BY DEF PC
  <2> QED  BY <1>2, <2>1 DEF CallState
<1>4. /\ c.pc = (IF Info!GetCache(thread[t].a) = NULL \/ thread[t].op # "info"
                 THEN "notify" ELSE "return")
      /\ c.op = thread[t].op /\ c.a = thread[t].a /\ c.by = thread[t].by
      /\ c.answer = thread[t].answer /\ c.errors = thread[t].errors
      /\ c.filled = thread[t].filled
      /\ c.ret = (IF Info!GetCache(thread[t].a) = NULL \/ thread[t].op # "info"
                  THEN thread[t].ret ELSE "ALL_RIGHT")
      /\ c.declined = thread[t].declined /\ c.readFailed = thread[t].readFailed
      /\ c.age = thread[t].age /\ c.stale = thread[t].stale
  BY <1>2 DEF CallState
<1>5. pm' \in PMState /\ pm' = pm
  BY DEF Lookup, CallTypes
<1> HIDE DEF c
<1>6. CallTypes' /\ Moves(t) /\ thread'[t] = c
  BY <1>1, <1>2, <1>3, <1>4, <1>5, Update
<1>7. Quiet(t)
  BY <1>1, <1>4 DEF Quiet, Lookup, CallTypes
<1>8. ASSUME Single(t) PROVE Single(t)'
  <2>1. FlagsOf({t})'
    BY <1>1, <1>5, <1>8 DEF Single, FlagsOf, UsedBy, SkippedBy
  <2>2. KeptOf({t})'
    BY <1>1, <1>4, <1>5, <1>8 DEF Single, KeptOf, Decided
  <2>3. Bound(t)'
    BY <1>1, <1>4 DEF Bound
  <2>4. Asked(t)'
    BY <1>1, <1>4, <1>8 DEF Single, CallInv, Asked
  <2>5. NotOpened(t)'
    BY <1>1, <1>4 DEF NotOpened
  <2>6. Extracting(t)'
    BY <1>1, <1>4 DEF Extracting
  <2>7. Result(t)'
    BY <1>1, <1>4, <1>8 DEF Single, CallInv, Result
  <2> QED  BY <2>1, <2>2, <2>3, <2>4, <2>5, <2>6, <2>7 DEF Single, CallInv
<1> QED  BY <1>6, <1>7, <1>8

\* It reads the list it has in hand.
LEMMA UseKeeps ==
    ASSUME CallTypes, NEW t \in Thread, Use(t)
    PROVE  CallTypes' /\ Moves(t) /\ (Single(t) => Single(t)')
<1> DEFINE c == IF thread[t].op = "info"
               THEN [thread[t] EXCEPT !.hinfo = NULL, !.age = 0, !.stale = FALSE,
                                      !.pc = "return", !.ret = "ALL_RIGHT"]
               ELSE [thread[t] EXCEPT !.hinfo = NULL, !.age = 0, !.stale = FALSE,
                                      !.pc = "notify", !.stage = "file"]
<1>1. /\ thread' = [thread EXCEPT ![t] = c]
      /\ calls' = calls /\ skippedArc' = skippedArc
      /\ thread[t].pc = "use"
  BY DEF Use, Goto, Return, CallTypes
<1>2. thread[t] \in CallState
  BY DEF CallTypes
<1>3. c \in CallState
  <2>1. "notify" \in PC /\ "return" \in PC
    BY DEF PC
  <2> QED  BY <1>2, <2>1 DEF CallState
<1>4. /\ c.pc = (IF thread[t].op = "info" THEN "return" ELSE "notify")
      /\ c.op = thread[t].op /\ c.a = thread[t].a /\ c.by = thread[t].by
      /\ c.answer = thread[t].answer /\ c.errors = thread[t].errors
      /\ c.filled = thread[t].filled
      /\ c.ret = (IF thread[t].op = "info" THEN "ALL_RIGHT" ELSE thread[t].ret)
      /\ c.declined = thread[t].declined /\ c.readFailed = thread[t].readFailed
  BY <1>2 DEF CallState
<1>5. pm' \in PMState /\ pm' = pm
  BY DEF Use, CallTypes
<1> HIDE DEF c
<1>6. CallTypes' /\ Moves(t) /\ thread'[t] = c
  BY <1>1, <1>2, <1>3, <1>4, <1>5, Update
<1>7. ASSUME Single(t) PROVE Single(t)'
  <2>1. FlagsOf({t})'
    BY <1>1, <1>5, <1>7 DEF Single, FlagsOf, UsedBy, SkippedBy
  <2>2. KeptOf({t})'
    BY <1>1, <1>4, <1>5, <1>7 DEF Single, KeptOf, Decided
  <2>3. Bound(t)'
    BY <1>1, <1>4 DEF Bound
  <2>4. Asked(t)'
    BY <1>1, <1>4, <1>7 DEF Single, CallInv, Asked
  <2>5. NotOpened(t)'
    BY <1>1, <1>4 DEF NotOpened
  <2>6. Extracting(t)'
    BY <1>1, <1>4 DEF Extracting
  <2>7. Result(t)'
    BY <1>1, <1>4, <1>7 DEF Single, CallInv, Result
  <2> QED  BY <2>1, <2>2, <2>3, <2>4, <2>5, <2>6, <2>7 DEF Single, CallInv
<1> QED  BY <1>6, <1>7

\* The password manager learns of the archive.
LEMMA NotifyKeeps ==
    ASSUME CallTypes, NEW t \in Thread, Notify(t)
    PROVE  CallTypes' /\ Moves(t) /\ Quiet(t) /\ (Single(t) => Single(t)')
<1> DEFINE c == [thread[t] EXCEPT !.pc = "open"]
<1>1. /\ thread' = [thread EXCEPT ![t] = c]
      /\ calls' = calls /\ skippedArc' = (IF skippedArc = thread[t].a THEN skippedArc ELSE NULL)
      /\ thread[t].pc = "notify"
  BY DEF Notify, Goto, Return, CallTypes
<1>2. thread[t] \in CallState
  BY DEF CallTypes
<1>3. c \in CallState
  <2>1. "open" \in PC
    BY DEF PC
  <2> QED  BY <1>2, <2>1 DEF CallState
<1>4. /\ c.pc = "open" /\ c.op = thread[t].op /\ c.a = thread[t].a
      /\ c.by = thread[t].by /\ c.answer = thread[t].answer
      /\ c.errors = thread[t].errors /\ c.filled = thread[t].filled
      /\ c.ret = thread[t].ret /\ c.declined = thread[t].declined
      /\ c.readFailed = thread[t].readFailed /\ c.age = thread[t].age
      /\ c.stale = thread[t].stale
  BY <1>2 DEF CallState
<1>5. /\ pm' \in PMState /\ pm'.password = pm.password
      /\ pm'.used = (IF pm.archive = thread[t].a THEN pm.used ELSE FALSE)
      /\ pm'.changed = (IF pm.archive = thread[t].a THEN pm.changed ELSE TRUE)
      /\ pm'.error = (IF pm.archive = thread[t].a THEN pm.error ELSE FALSE)
      /\ pm'.skip = (IF pm.archive = thread[t].a THEN pm.skip ELSE FALSE)
      /\ pm'.skipArc = (IF pm.archive = thread[t].a THEN pm.skipArc ELSE FALSE)
      /\ pm'.text = pm.text /\ pm'.archive = thread[t].a
  BY <1>1, <1>2 DEF Notify, CallTypes, PMState, CallState, PM!NotifyArchive
<1> HIDE DEF c
<1>6. CallTypes' /\ Moves(t) /\ thread'[t] = c
  BY <1>1, <1>2, <1>3, <1>4, <1>5, Update
<1>7. Quiet(t)
  BY <1>1, <1>4 DEF Quiet, Notify, CallTypes
<1>8. ASSUME Single(t) PROVE Single(t)'
  <2>1. FlagsOf({t})'
    BY <1>1, <1>5, <1>8 DEF Single, FlagsOf, UsedBy, SkippedBy
  <2>2. KeptOf({t})'
    BY <1>1, <1>4, <1>5, <1>8 DEF Single, KeptOf, Decided
  <2>3. Bound(t)'
    BY <1>1, <1>4, <1>5 DEF Sign, Bound
  <2>4. Asked(t)'
    BY <1>1, <1>4, <1>8 DEF Single, CallInv, Asked
  <2>5. NotOpened(t)'
    BY <1>1, <1>4 DEF NotOpened
  <2>6. Extracting(t)'
    BY <1>1, <1>4 DEF Extracting
  <2>7. Result(t)'
    BY <1>1, <1>4, <1>8 DEF Single, CallInv, Result
  <2> QED  BY <2>1, <2>2, <2>3, <2>4, <2>5, <2>6, <2>7 DEF Single, CallInv
<1> QED  BY <1>6, <1>7, <1>8

\* The archive is opened, or needs a password for that, or cannot be read.
LEMMA OpenArchiveKeeps ==
    ASSUME CallTypes, NEW t \in Thread, OpenArchive(t)
    PROVE  CallTypes' /\ Moves(t) /\ Quiet(t) /\ (Single(t) => Single(t)')
<1> DEFINE c == IF thread'[t].pc = "openFailed"
               THEN [thread[t] EXCEPT !.pc = "openFailed", !.readFailed = TRUE]
               ELSE [thread[t] EXCEPT !.by = "open",
                        !.pc = IF thread[t].a \in HiddenNames THEN "ask" ELSE "opened"]
<1>1. /\ thread' = [thread EXCEPT ![t] = c]
      /\ calls' = calls /\ skippedArc' = skippedArc
      /\ thread[t].pc = "open" /\ (thread'[t].pc = "openFailed" => thread[t].a \in Unreliable)
  <2>1. thread[t] \in CallState
    BY DEF CallTypes
  <2>2. CASE thread' = [thread EXCEPT ![t].by = "open", ![t].pc =
                 IF thread[t].a \in HiddenNames THEN "ask" ELSE "opened"]
    <3>1. thread'[t].pc # "openFailed"
      BY <2>1, <2>2 DEF CallTypes, CallState
    <3> QED  BY <2>2, <3>1 DEF OpenArchive
  <2>3. CASE /\ thread[t].a \in Unreliable
             /\ thread' = [thread EXCEPT ![t].pc = "openFailed", ![t].readFailed = TRUE]
    <3>1. thread'[t].pc = "openFailed"
      BY <2>1, <2>3 DEF CallTypes, CallState
    <3> QED  BY <2>3, <3>1 DEF OpenArchive
  <2> QED  BY <2>2, <2>3 DEF OpenArchive
<1>2. thread[t] \in CallState
  BY DEF CallTypes
<1>3. c \in CallState
  <2>1. "openFailed" \in PC /\ "ask" \in PC /\ "opened" \in PC
    BY DEF PC
  <2> QED  BY <1>2, <2>1 DEF CallState
<1>4. /\ c.pc = (IF thread'[t].pc = "openFailed" THEN "openFailed"
             ELSE IF thread[t].a \in HiddenNames THEN "ask" ELSE "opened")
      /\ c.op = thread[t].op /\ c.a = thread[t].a
      /\ c.by = (IF thread'[t].pc = "openFailed" THEN thread[t].by ELSE "open")
      /\ c.answer = thread[t].answer /\ c.errors = thread[t].errors
      /\ c.filled = thread[t].filled /\ c.ret = thread[t].ret
      /\ c.declined = thread[t].declined
      /\ c.readFailed = (IF thread'[t].pc = "openFailed" THEN TRUE ELSE thread[t].readFailed)
      /\ c.age = thread[t].age /\ c.stale = thread[t].stale
  BY <1>2 DEF CallState
<1>5. pm' \in PMState /\ pm' = pm
  BY DEF OpenArchive, CallTypes
<1> HIDE DEF c
<1>6. CallTypes' /\ Moves(t) /\ thread'[t] = c
  BY <1>1, <1>2, <1>3, <1>4, <1>5, Update
<1>7. Quiet(t)
  BY <1>1, <1>4 DEF Quiet, OpenArchive, CallTypes
<1>8. ASSUME Single(t) PROVE Single(t)'
  <2>1. FlagsOf({t})'
    BY <1>1, <1>5, <1>8 DEF Single, FlagsOf, UsedBy, SkippedBy
  <2>2. KeptOf({t})'
    BY <1>1, <1>4, <1>5, <1>8 DEF Single, KeptOf, Decided
  <2>3. Bound(t)'
    BY <1>1, <1>4, <1>5, <1>8 DEF Single, CallInv, Sign, Bound
  <2>4. Asked(t)'
    BY <1>1, <1>4, <1>8, Passwords DEF Single, CallInv, Sign, Hidden, Asked
  <2>5. NotOpened(t)'
    BY <1>1, <1>4, <1>6 DEF NotOpened
  <2>6. Extracting(t)'
    BY <1>1, <1>4 DEF Extracting
  <2>7. Result(t)'
    BY <1>1, <1>4, <1>6, <1>8 DEF Single, CallInv, Result
  <2> QED  BY <2>1, <2>2, <2>3, <2>4, <2>5, <2>6, <2>7 DEF Single, CallInv
<1> QED  BY <1>6, <1>7, <1>8

\* An archive that cannot be opened is an error.
LEMMA OpenFailedKeeps ==
    ASSUME CallTypes, NEW t \in Thread, OpenFailed(t)
    PROVE  CallTypes' /\ Moves(t) /\ Quiet(t) /\ (Single(t) => Single(t)')
<1> DEFINE c == [thread[t] EXCEPT !.pc = "check"]
<1>1. /\ thread' = [thread EXCEPT ![t] = c]
      /\ calls' = calls /\ skippedArc' = skippedArc
      /\ thread[t].pc = "openFailed"
  BY DEF OpenFailed, Goto, Return, CallTypes
<1>2. thread[t] \in CallState
  BY DEF CallTypes
<1>3. c \in CallState
  <2>1. "check" \in PC
    BY DEF PC
  <2> QED  BY <1>2, <2>1 DEF CallState
<1>4. /\ c.pc = "check" /\ c.op = thread[t].op /\ c.a = thread[t].a
      /\ c.by = thread[t].by /\ c.answer = thread[t].answer
      /\ c.errors = thread[t].errors /\ c.filled = thread[t].filled
      /\ c.ret = thread[t].ret /\ c.declined = thread[t].declined
      /\ c.readFailed = thread[t].readFailed /\ c.age = thread[t].age
      /\ c.stale = thread[t].stale
  BY <1>2 DEF CallState
<1>5. /\ pm' \in PMState /\ pm'.password = pm.password /\ pm'.used = pm.used
      /\ pm'.changed = pm.changed /\ pm'.error = TRUE /\ pm'.skip = pm.skip
      /\ pm'.skipArc = pm.skipArc /\ pm'.text = pm.text /\ pm'.archive = pm.archive
  BY <1>1, <1>2 DEF OpenFailed, CallTypes, PMState, CallState, PM!NotifyError
<1> HIDE DEF c
<1>6. CallTypes' /\ Moves(t) /\ thread'[t] = c
  BY <1>1, <1>2, <1>3, <1>4, <1>5, Update
<1>7. Quiet(t)
  BY <1>1, <1>4 DEF Quiet, OpenFailed, CallTypes
<1>8. ASSUME Single(t) PROVE Single(t)'
  <2>1. FlagsOf({t})'
    BY <1>1, <1>5, <1>8, Passwords
       DEF Single, CallInv, FlagsOf, UsedBy, SkippedBy, Bound, NotOpened, Result
  <2>2. KeptOf({t})'
    BY <1>1, <1>4, <1>5, <1>8
       DEF Single, CallInv, Hidden, KeptOf, Decided, Doubtful, FlagsOf, UsedBy, Bound,
           NotOpened
  <2>3. Bound(t)'
    BY <1>1, <1>4, <1>5, <1>8 DEF Single, CallInv, Sign, Bound
  <2>4. Asked(t)'
    BY <1>1, <1>4, <1>8 DEF Single, CallInv, Asked
  <2>5. NotOpened(t)'
    BY <1>1, <1>4, <1>5, <1>8 DEF Single, CallInv, Hidden, NotOpened
  <2>6. Extracting(t)'
    BY <1>1, <1>4 DEF Extracting
  <2>7. Result(t)'
    BY <1>1, <1>4, <1>8 DEF Single, CallInv, Result
  <2> QED  BY <2>1, <2>2, <2>3, <2>4, <2>5, <2>6, <2>7 DEF Single, CallInv
<1> QED  BY <1>6, <1>7, <1>8

\* Whether to try again with another password, ...
LEMMA CheckKeeps ==
    ASSUME CallTypes, NEW t \in Thread, Check(t)
    PROVE  CallTypes' /\ Moves(t) /\ Quiet(t) /\ (Single(t) => Single(t)')
<1> DEFINE c == IF PM!IsRetry THEN [thread[t] EXCEPT !.pc = "recheck"]
               ELSE [thread[t] EXCEPT !.pc = "return", !.ret = "READ_ERROR"]
<1>1. /\ thread' = [thread EXCEPT ![t] = c]
      /\ calls' = calls /\ skippedArc' = skippedArc
      /\ thread[t].pc = "check"
  BY DEF Check, Goto, Return, CallTypes
<1>2. thread[t] \in CallState
  BY DEF CallTypes
<1>3. c \in CallState
  <2>1. "recheck" \in PC /\ "return" \in PC
    BY DEF PC
  <2> QED  BY <1>2, <2>1 DEF CallState
<1>4. /\ c.pc = (IF PM!IsRetry THEN "recheck" ELSE "return") /\ c.op = thread[t].op
      /\ c.a = thread[t].a /\ c.by = thread[t].by /\ c.answer = thread[t].answer
      /\ c.errors = thread[t].errors /\ c.filled = thread[t].filled
      /\ c.ret = (IF PM!IsRetry THEN thread[t].ret ELSE "READ_ERROR")
      /\ c.declined = thread[t].declined /\ c.readFailed = thread[t].readFailed
      /\ c.age = thread[t].age /\ c.stale = thread[t].stale
  BY <1>2 DEF CallState, CallTypes, PMState, PM!IsRetry
<1>5. pm' \in PMState /\ pm' = pm
  BY DEF Check, CallTypes
<1> HIDE DEF c
<1>6. CallTypes' /\ Moves(t) /\ thread'[t] = c
  BY <1>1, <1>2, <1>3, <1>4, <1>5, Update
<1>7. Quiet(t)
  BY <1>1, <1>4 DEF Quiet, Check, CallTypes
<1>8. ASSUME Single(t) PROVE Single(t)'
  <2>1. FlagsOf({t})'
    BY <1>1, <1>5, <1>8 DEF Single, FlagsOf, UsedBy, SkippedBy
  <2>2. KeptOf({t})'
    BY <1>1, <1>4, <1>5, <1>8 DEF Single, KeptOf, Decided
  <2>3. Bound(t)'
    BY <1>1, <1>4, <1>5, <1>8 DEF Single, CallInv, Sign, Bound
  <2>4. Asked(t)'
    BY <1>1, <1>4, <1>8 DEF Single, CallInv, Asked
  <2>5. NotOpened(t)'
    BY <1>1, <1>4, <1>5, <1>8
       DEF Single, CallInv, Sign, Hidden, PM!IsRetry, NotOpened, Bound, FlagsOf
  <2>6. Extracting(t)'
    BY <1>1, <1>4 DEF Extracting
  <2>7. Result(t)'
    BY <1>1, <1>4, <1>8
       DEF Single, CallInv, PM!IsRetry, Result, NotOpened, Bound, FlagsOf, SkippedBy
  <2> QED  BY <2>1, <2>2, <2>3, <2>4, <2>5, <2>6, <2>7 DEF Single, CallInv
<1> QED  BY <1>6, <1>7, <1>8

\* ... and once more: the answer is the same.
LEMMA RecheckKeeps ==
    ASSUME CallTypes, NEW t \in Thread, Recheck(t)
    PROVE  CallTypes' /\ Moves(t) /\ Quiet(t) /\ (Single(t) => Single(t)')
<1> DEFINE c == [thread[t] EXCEPT !.pc = IF PM!IsRetry THEN "open" ELSE "noHandler"]
<1>1. /\ thread' = [thread EXCEPT ![t] = c]
      /\ calls' = calls /\ skippedArc' = skippedArc
      /\ thread[t].pc = "recheck"
  BY DEF Recheck, Goto, Return, CallTypes
<1>2. thread[t] \in CallState
  BY DEF CallTypes
<1>3. c \in CallState
  <2>1. "open" \in PC /\ "noHandler" \in PC
    BY DEF PC
  <2> QED  BY <1>2, <2>1 DEF CallState
<1>4. /\ c.pc = (IF PM!IsRetry THEN "open" ELSE "noHandler") /\ c.op = thread[t].op
      /\ c.a = thread[t].a /\ c.by = thread[t].by /\ c.answer = thread[t].answer
      /\ c.errors = thread[t].errors /\ c.filled = thread[t].filled
      /\ c.ret = thread[t].ret /\ c.declined = thread[t].declined
      /\ c.readFailed = thread[t].readFailed /\ c.age = thread[t].age
      /\ c.stale = thread[t].stale
  BY <1>2 DEF CallState, CallTypes, PMState, PM!IsRetry
<1>5. pm' \in PMState /\ pm' = pm
  BY DEF Recheck, CallTypes
<1> HIDE DEF c
<1>6. CallTypes' /\ Moves(t) /\ thread'[t] = c
  BY <1>1, <1>2, <1>3, <1>4, <1>5, Update
<1>7. Quiet(t)
  BY <1>1, <1>4 DEF Quiet, Recheck, CallTypes
<1>8. ASSUME Single(t) PROVE Single(t)'
  <2>1. FlagsOf({t})'
    BY <1>1, <1>5, <1>8 DEF Single, FlagsOf, UsedBy, SkippedBy
  <2>2. KeptOf({t})'
    BY <1>1, <1>4, <1>5, <1>8 DEF Single, KeptOf, Decided
  <2>3. Bound(t)'
    BY <1>1, <1>4, <1>5, <1>8 DEF Single, CallInv, Sign, Bound
  <2>4. Asked(t)'
    BY <1>1, <1>4, <1>8 DEF Single, CallInv, Asked
  <2>5. NotOpened(t)'
    BY <1>1, <1>4, <1>6, <1>8 DEF Single, CallInv, NotOpened
  <2>6. Extracting(t)'
    BY <1>1, <1>4 DEF Extracting
  <2>7. Result(t)'
    BY <1>1, <1>4, <1>8 DEF Single, CallInv, Result
  <2> QED  BY <2>1, <2>2, <2>3, <2>4, <2>5, <2>6, <2>7 DEF Single, CallInv
<1> QED  BY <1>6, <1>7, <1>8

\* An open archive is no error.
LEMMA OpenedKeeps ==
    ASSUME CallTypes, NEW t \in Thread, Opened(t)
    PROVE  CallTypes' /\ Moves(t) /\ Quiet(t) /\ (Single(t) => Single(t)')
<1> DEFINE c == [thread[t] EXCEPT !.pc = IF thread[t].stage = "list" THEN "list" ELSE "prepare"]
<1>1. /\ thread' = [thread EXCEPT ![t] = c]
      /\ calls' = calls /\ skippedArc' = skippedArc
      /\ thread[t].pc = "opened"
  BY DEF Opened, Goto, Return, CallTypes
<1>2. thread[t] \in CallState
  BY DEF CallTypes
<1>3. c \in CallState
  <2>1. "list" \in PC /\ "prepare" \in PC
    BY DEF PC
  <2> QED  BY <1>2, <2>1 DEF CallState
<1>4. /\ c.pc = (IF thread[t].stage = "list" THEN "list" ELSE "prepare")
      /\ c.op = thread[t].op /\ c.a = thread[t].a /\ c.by = thread[t].by
      /\ c.answer = thread[t].answer /\ c.errors = thread[t].errors
      /\ c.filled = thread[t].filled /\ c.ret = thread[t].ret
      /\ c.declined = thread[t].declined /\ c.readFailed = thread[t].readFailed
      /\ c.age = thread[t].age /\ c.stale = thread[t].stale
  BY <1>2 DEF CallState
<1>5. /\ pm' \in PMState /\ pm'.password = pm.password /\ pm'.used = pm.used
      /\ pm'.changed = pm.changed /\ pm'.error = FALSE /\ pm'.skip = pm.skip
      /\ pm'.skipArc = pm.skipArc /\ pm'.text = pm.text /\ pm'.archive = pm.archive
  BY <1>1, <1>2 DEF Opened, CallTypes, PMState, CallState, PM!ClearError
<1> HIDE DEF c
<1>6. CallTypes' /\ Moves(t) /\ thread'[t] = c
  BY <1>1, <1>2, <1>3, <1>4, <1>5, Update
<1>7. Quiet(t)
  BY <1>1, <1>4 DEF Quiet, Opened, CallTypes
<1>8. ASSUME Single(t) PROVE Single(t)'
  <2>1. FlagsOf({t})'
    BY <1>1, <1>5, <1>8 DEF Single, FlagsOf, UsedBy, SkippedBy
  <2>2. KeptOf({t})'
    BY <1>1, <1>4, <1>5, <1>8 DEF Single, KeptOf, Decided
  <2>3. Bound(t)'
    BY <1>1, <1>4, <1>5, <1>8 DEF Single, CallInv, Sign, Bound
  <2>4. Asked(t)'
    BY <1>1, <1>4, <1>8 DEF Single, CallInv, Asked
  <2>5. NotOpened(t)'
    BY <1>1, <1>4 DEF NotOpened
  <2>6. Extracting(t)'
    BY <1>1, <1>4, <1>5 DEF Extracting
  <2>7. Result(t)'
    BY <1>1, <1>4, <1>8 DEF Single, CallInv, Result
  <2> QED  BY <2>1, <2>2, <2>3, <2>4, <2>5, <2>6, <2>7 DEF Single, CallInv
<1> QED  BY <1>6, <1>7, <1>8

\* The password manager answers from what it keeps, or asks the user.
LEMMA AskKeeps ==
    ASSUME CallTypes, NEW t \in Thread, Ask(t)
    PROVE  CallTypes' /\ Moves(t) /\ Quiet(t) /\ (Single(t) => Single(t)')
<1> DEFINE c == IF PM!Asks THEN [thread[t] EXCEPT !.pc = "dialog"]
               ELSE [thread[t] EXCEPT !.pc = "decode", !.answer = PM!Answer(PM!Asking)]
<1>1. /\ thread' = [thread EXCEPT ![t] = c]
      /\ calls' = calls /\ skippedArc' = skippedArc
      /\ thread[t].pc = "ask"
  BY DEF Ask, Goto, Return, CallTypes
<1>2. thread[t] \in CallState
  BY DEF CallTypes
<1>3. c \in CallState
  <2>1. "dialog" \in PC /\ "decode" \in PC
    BY DEF PC
  <2> QED  BY <1>2, <2>1, AnswerType DEF CallState
<1>4. /\ c.pc = (IF PM!Asks THEN "dialog" ELSE "decode") /\ c.op = thread[t].op
      /\ c.a = thread[t].a /\ c.by = thread[t].by
      /\ c.answer = (IF PM!Asks THEN thread[t].answer ELSE PM!Answer(PM!Asking))
      /\ c.errors = thread[t].errors /\ c.filled = thread[t].filled
      /\ c.ret = thread[t].ret /\ c.declined = thread[t].declined
      /\ c.readFailed = thread[t].readFailed /\ c.age = thread[t].age
      /\ c.stale = thread[t].stale
  BY <1>2 DEF CallState, CallTypes, PMState, PM!Asks, PM!KeptPassword, PM!IsRetry
<1>5. /\ pm' \in PMState /\ pm'.password = PM!KeptPassword
      /\ pm'.used = (IF PM!Asks THEN pm.used ELSE TRUE) /\ pm'.changed = pm.changed
      /\ pm'.error = pm.error /\ pm'.skip = pm.skip /\ pm'.skipArc = pm.skipArc
      /\ pm'.text = (IF PM!Asks THEN pm.text ELSE PM!Answer(PM!Asking))
      /\ pm'.archive = pm.archive
  <2>1. CASE PM!Asks
    BY <1>2, <2>1 DEF Ask, CallTypes, PMState, PM!Asking, PM!KeptPassword, PM!IsRetry
  <2>2. CASE ~PM!Asks
    <3>1. pm' = [PM!Asking EXCEPT !.text = PM!Answer(PM!Asking), !.used = TRUE]
      BY <2>2 DEF Ask, PM!Answered
    <3>2. /\ PM!Asking \in PMState /\ PM!Asking.password = PM!KeptPassword
          /\ PM!Asking.changed = pm.changed /\ PM!Asking.error = pm.error
          /\ PM!Asking.skip = pm.skip /\ PM!Asking.skipArc = pm.skipArc
          /\ PM!Asking.archive = pm.archive
      BY DEF CallTypes, PMState, PM!Asking, PM!KeptPassword, PM!IsRetry
    <3> HIDE DEF PM!Asking
    <3> QED  BY <2>2, <3>1, <3>2, AnswerType DEF PMState
  <2> QED  BY <2>1, <2>2
<1> HIDE DEF c
<1>6. CallTypes' /\ Moves(t) /\ thread'[t] = c
  BY <1>1, <1>2, <1>3, <1>4, <1>5, Update
<1>7. Quiet(t)
  BY <1>1, <1>4 DEF Quiet, Ask, CallTypes
<1>8. ASSUME Single(t) PROVE Single(t)'
  <2>1. FlagsOf({t})'
    BY <1>1, <1>4, <1>5, <1>8
       DEF Single, CallInv, Sign, FlagsOf, UsedBy, SkippedBy, Bound, Asked
  <2>2. KeptOf({t})'
    <3>1. CASE PM!Asks
      BY <3>1, <1>1, <1>4, <1>5, <1>8
         DEF Single, CallInv, Sign, PM!IsRetry, PM!Asks, PM!KeptPassword, KeptOf,
             Decided, Bound, Asked
    <3>2. CASE ~PM!Asks
      <4>1. pm.archive \in Encrypted \ Doubtful /\ pm.error => pm.used
        BY <1>1, <1>8
           DEF Single, CallInv, Hidden, Doubtful, FlagsOf, Extracting, Asked, Bound,
               CallTypes, CallState
      <4>2. PM!Answer(PM!Asking) = IF PM!KeptPassword THEN pm.text ELSE NoText
        BY DEF PM!Asking, PM!Answer, PMState
      <4> QED  BY <3>2, <4>1, <4>2, <1>1, <1>4, <1>5, <1>8, Passwords
                  DEF Single, KeptOf, Decided
    <3> QED  BY <3>1, <3>2
  <2>3. Bound(t)'
    BY <1>1, <1>4, <1>5, <1>8 DEF Single, CallInv, Sign, Bound
  <2>4. Asked(t)'
    BY <1>1, <1>4, <1>5, <1>8 DEF Single, CallInv, Sign, Hidden, Asked
  <2>5. NotOpened(t)'
    BY <1>1, <1>4 DEF NotOpened
  <2>6. Extracting(t)'
    BY <1>4, <1>6 DEF Extracting
  <2>7. Result(t)'
    BY <1>1, <1>4, <1>8 DEF Single, CallInv, Result
  <2> QED  BY <2>1, <2>2, <2>3, <2>4, <2>5, <2>6, <2>7 DEF Single, CallInv
<1> QED  BY <1>6, <1>7, <1>8

\* The user types a password.
LEMMA TypePasswordKeeps ==
    ASSUME CallTypes, NEW t \in Thread, NEW x \in Text, TypePassword(t, x)
    PROVE  CallTypes' /\ Moves(t) /\ Quiet(t) /\ (Single(t) => Single(t)')
<1> DEFINE c == [thread[t] EXCEPT !.pc = "answered"]
<1>1. /\ thread' = [thread EXCEPT ![t] = c]
      /\ calls' = calls /\ skippedArc' = skippedArc
      /\ thread[t].pc = "dialog"
  BY DEF TypePassword, Goto, Return, CallTypes
<1>2. thread[t] \in CallState
  BY DEF CallTypes
<1>3. c \in CallState
  <2>1. "answered" \in PC
    BY DEF PC
  <2> QED  BY <1>2, <2>1 DEF CallState
<1>4. /\ c.pc = "answered" /\ c.op = thread[t].op /\ c.a = thread[t].a
      /\ c.by = thread[t].by /\ c.answer = thread[t].answer
      /\ c.errors = thread[t].errors /\ c.filled = thread[t].filled
      /\ c.ret = thread[t].ret /\ c.declined = thread[t].declined
      /\ c.readFailed = thread[t].readFailed /\ c.age = thread[t].age
      /\ c.stale = thread[t].stale
  BY <1>2 DEF CallState
<1>5. /\ pm' \in PMState /\ pm'.password = TRUE /\ pm'.used = pm.used
      /\ pm'.changed = FALSE /\ pm'.error = pm.error /\ pm'.skip = pm.skip
      /\ pm'.skipArc = pm.skipArc /\ pm'.text = x /\ pm'.archive = pm.archive
  BY <1>1, <1>2 DEF TypePassword, CallTypes, PMState, CallState, PM!PressOK
<1> HIDE DEF c
<1>6. CallTypes' /\ Moves(t) /\ thread'[t] = c
  BY <1>1, <1>2, <1>3, <1>4, <1>5, Update
<1>7. Quiet(t)
  BY <1>1, <1>4 DEF Quiet, TypePassword, CallTypes
<1>8. ASSUME Single(t) PROVE Single(t)'
  <2>1. FlagsOf({t})'
    BY <1>1, <1>4, <1>5, <1>8 DEF Single, FlagsOf, UsedBy, SkippedBy
  <2>2. KeptOf({t})'
    BY <1>4, <1>5, <1>6 DEF KeptOf, Decided
  <2>3. Bound(t)'
    BY <1>1, <1>4, <1>5, <1>8 DEF Single, CallInv, Sign, Bound
  <2>4. Asked(t)'
    BY <1>1, <1>4, <1>8 DEF Single, CallInv, Sign, Hidden, Asked
  <2>5. NotOpened(t)'
    BY <1>1, <1>4 DEF NotOpened
  <2>6. Extracting(t)'
    BY <1>1, <1>4 DEF Extracting
  <2>7. Result(t)'
    BY <1>1, <1>4, <1>8 DEF Single, CallInv, Result
  <2> QED  BY <2>1, <2>2, <2>3, <2>4, <2>5, <2>6, <2>7 DEF Single, CallInv
<1> QED  BY <1>6, <1>7, <1>8

\* The user skips the item.
LEMMA SkipKeeps ==
    ASSUME CallTypes, NEW t \in Thread, Skip(t)
    PROVE  CallTypes' /\ Moves(t) /\ Quiet(t) /\ (Single(t) => Single(t)')
<1> DEFINE c == [thread[t] EXCEPT !.pc = "answered", !.declined = TRUE]
<1>1. /\ thread' = [thread EXCEPT ![t] = c]
      /\ calls' = calls /\ skippedArc' = skippedArc
      /\ thread[t].pc = "dialog" /\ thread[t].by = "extract"
  BY DEF Skip, Goto, Return, CallTypes
<1>2. thread[t] \in CallState
  BY DEF CallTypes
<1>3. c \in CallState
  <2>1. "answered" \in PC
    BY DEF PC
  <2> QED  BY <1>2, <2>1 DEF CallState
<1>4. /\ c.pc = "answered" /\ c.op = thread[t].op /\ c.a = thread[t].a
      /\ c.by = thread[t].by /\ c.answer = thread[t].answer
      /\ c.errors = thread[t].errors /\ c.filled = thread[t].filled
      /\ c.ret = thread[t].ret /\ c.declined = TRUE
      /\ c.readFailed = thread[t].readFailed /\ c.age = thread[t].age
      /\ c.stale = thread[t].stale
  BY <1>2 DEF CallState
<1>5. /\ pm' \in PMState /\ pm'.password = FALSE /\ pm'.used = pm.used
      /\ pm'.changed = pm.changed /\ pm'.error = pm.error /\ pm'.skip = TRUE
      /\ pm'.skipArc = pm.skipArc /\ pm'.text = pm.text /\ pm'.archive = pm.archive
  BY <1>1, <1>2 DEF Skip, CallTypes, PMState, CallState, PM!PressSkip
<1> HIDE DEF c
<1>6. CallTypes' /\ Moves(t) /\ thread'[t] = c
  BY <1>1, <1>2, <1>3, <1>4, <1>5, Update
<1>7. Quiet(t)
  BY DEF Quiet, Skip, CallTypes
<1>8. ASSUME Single(t) PROVE Single(t)'
  <2>1. FlagsOf({t})'
    BY <1>1, <1>4, <1>5, <1>6, <1>8
       DEF Single, CallInv, FlagsOf, UsedBy, SkippedBy, Bound, Asked
  <2>2. KeptOf({t})'
    BY <1>4, <1>5, <1>6 DEF KeptOf, Decided
  <2>3. Bound(t)'
    BY <1>1, <1>4, <1>5, <1>8 DEF Single, CallInv, Sign, Bound
  <2>4. Asked(t)'
    BY <1>1, <1>4, <1>8 DEF Single, CallInv, Sign, Asked
  <2>5. NotOpened(t)'
    BY <1>1, <1>4 DEF NotOpened
  <2>6. Extracting(t)'
    BY <1>1, <1>4 DEF Extracting
  <2>7. Result(t)'
    BY <1>1, <1>4, <1>8 DEF Single, CallInv, Result
  <2> QED  BY <2>1, <2>2, <2>3, <2>4, <2>5, <2>6, <2>7 DEF Single, CallInv
<1> QED  BY <1>6, <1>7, <1>8

\* The user skips the whole archive.
LEMMA SkipArchiveKeeps ==
    ASSUME CallTypes, NEW t \in Thread, SkipArchive(t)
    PROVE  CallTypes' /\ Moves(t) /\ Quiet(t) /\ (Single(t) => Single(t)')
<1> DEFINE c == [thread[t] EXCEPT !.pc = "answered"]
<1>1. /\ thread' = [thread EXCEPT ![t] = c]
      /\ calls' = calls /\ skippedArc' = thread[t].a
      /\ thread[t].pc = "dialog"
  BY DEF SkipArchive, Goto, Return, CallTypes
<1>2. thread[t] \in CallState
  BY DEF CallTypes
<1>3. c \in CallState
  <2>1. "answered" \in PC
    BY DEF PC
  <2> QED  BY <1>2, <2>1 DEF CallState
<1>4. /\ c.pc = "answered" /\ c.op = thread[t].op /\ c.a = thread[t].a
      /\ c.by = thread[t].by /\ c.answer = thread[t].answer
      /\ c.errors = thread[t].errors /\ c.filled = thread[t].filled
      /\ c.ret = thread[t].ret /\ c.declined = thread[t].declined
      /\ c.readFailed = thread[t].readFailed /\ c.age = thread[t].age
      /\ c.stale = thread[t].stale
  BY <1>2 DEF CallState
<1>5. /\ pm' \in PMState /\ pm'.password = FALSE /\ pm'.used = pm.used
      /\ pm'.changed = pm.changed /\ pm'.error = pm.error /\ pm'.skip = pm.skip
      /\ pm'.skipArc = TRUE /\ pm'.text = pm.text /\ pm'.archive = pm.archive
  BY <1>1, <1>2 DEF SkipArchive, CallTypes, PMState, CallState, PM!PressSkipArchive
<1> HIDE DEF c
<1>6. CallTypes' /\ Moves(t) /\ thread'[t] = c
  BY <1>1, <1>2, <1>3, <1>4, <1>5, Update
<1>7. Quiet(t)
  BY <1>1, <1>4 DEF Quiet, SkipArchive, CallTypes
<1>8. ASSUME Single(t) PROVE Single(t)'
  <2>1. FlagsOf({t})'
    BY <1>1, <1>4, <1>5, <1>8
       DEF Single, CallInv, Sign, FlagsOf, UsedBy, SkippedBy, Bound, Asked
  <2>2. KeptOf({t})'
    BY <1>4, <1>5, <1>6 DEF KeptOf
  <2>3. Bound(t)'
    BY <1>1, <1>4, <1>5, <1>8 DEF Single, CallInv, Sign, Bound
  <2>4. Asked(t)'
    BY <1>1, <1>4, <1>8 DEF Single, CallInv, Sign, Hidden, Asked
  <2>5. NotOpened(t)'
    BY <1>1, <1>4 DEF NotOpened
  <2>6. Extracting(t)'
    BY <1>1, <1>4 DEF Extracting
  <2>7. Result(t)'
    BY <1>1, <1>4, <1>8 DEF Single, CallInv, Result
  <2> QED  BY <2>1, <2>2, <2>3, <2>4, <2>5, <2>6, <2>7 DEF Single, CallInv
<1> QED  BY <1>6, <1>7, <1>8

\* The dialog ends, and the call goes on with its answer.
LEMMA DialogEndKeeps ==
    ASSUME CallTypes, NEW t \in Thread, DialogEnd(t)
    PROVE  CallTypes' /\ Moves(t) /\ Quiet(t) /\ (Single(t) => Single(t)')
<1> DEFINE c == [thread[t] EXCEPT !.pc = "decode", !.answer = PM!Answer(pm)]
<1>1. /\ thread' = [thread EXCEPT ![t] = c]
      /\ calls' = calls /\ skippedArc' = skippedArc
      /\ thread[t].pc = "answered"
  BY DEF DialogEnd, Goto, Return, CallTypes
<1>2. thread[t] \in CallState
  BY DEF CallTypes
<1>3. c \in CallState
  <2>1. "decode" \in PC
    BY DEF PC
  <2> QED  BY <1>2, <2>1, AnswerType DEF CallState
<1>4. /\ c.pc = "decode" /\ c.op = thread[t].op /\ c.a = thread[t].a
      /\ c.by = thread[t].by /\ c.answer = PM!Answer(pm) /\ c.errors = thread[t].errors
      /\ c.filled = thread[t].filled /\ c.ret = thread[t].ret
      /\ c.declined = thread[t].declined /\ c.readFailed = thread[t].readFailed
      /\ c.age = thread[t].age /\ c.stale = thread[t].stale
  BY <1>2 DEF CallState
<1>5. /\ pm' \in PMState /\ pm'.password = pm.password /\ pm'.used = TRUE
      /\ pm'.changed = pm.changed /\ pm'.error = FALSE /\ pm'.skip = pm.skip
      /\ pm'.skipArc = pm.skipArc /\ pm'.text = PM!Answer(pm)
      /\ pm'.archive = pm.archive
  BY <1>1, <1>2, AnswerType
     DEF DialogEnd, CallTypes, PMState, CallState, PM!Answered, PM!Answer
<1> HIDE DEF c
<1>6. CallTypes' /\ Moves(t) /\ thread'[t] = c
  BY <1>1, <1>2, <1>3, <1>4, <1>5, Update
<1>7. Quiet(t)
  BY DEF Quiet, DialogEnd, CallTypes
<1>8. ASSUME Single(t) PROVE Single(t)'
  <2>1. FlagsOf({t})'
    BY <1>1, <1>4, <1>5, <1>8
       DEF Single, CallInv, Sign, FlagsOf, UsedBy, SkippedBy, Bound, Asked
  <2>2. KeptOf({t})'
    BY <1>1, <1>4, <1>5, Passwords DEF PM!Answer, KeptOf
  <2>3. Bound(t)'
    BY <1>1, <1>4, <1>5, <1>8 DEF Single, CallInv, Sign, Bound
  <2>4. Asked(t)'
    BY <1>1, <1>4, <1>5, <1>8 DEF Single, CallInv, Sign, Hidden, Asked
  <2>5. NotOpened(t)'
    BY <1>1, <1>4 DEF NotOpened
  <2>6. Extracting(t)'
    BY <1>1, <1>4 DEF Extracting
  <2>7. Result(t)'
    BY <1>1, <1>4, <1>8 DEF Single, CallInv, Result
  <2> QED  BY <2>1, <2>2, <2>3, <2>4, <2>5, <2>6, <2>7 DEF Single, CallInv
<1> QED  BY <1>6, <1>7, <1>8

\* The encrypted names are decoded with the answer.
LEMMA DecodeNamesKeeps ==
    ASSUME CallTypes, NEW t \in Thread, DecodeNames(t)
    PROVE  CallTypes' /\ Moves(t) /\ Quiet(t) /\ (Single(t) => Single(t)')
<1> DEFINE c == [thread[t] EXCEPT !.pc = IF thread[t].answer = Right[thread[t].a]
                                         THEN "opened" ELSE "openFailed"]
<1>1. /\ thread' = [thread EXCEPT ![t] = c]
      /\ calls' = calls /\ skippedArc' = skippedArc
      /\ thread[t].pc = "decode" /\ thread[t].by = "open"
  BY DEF DecodeNames, Goto, Return, CallTypes
<1>2. thread[t] \in CallState
  BY DEF CallTypes
<1>3. c \in CallState
  <2>1. "opened" \in PC /\ "openFailed" \in PC
    BY DEF PC
  <2> QED  BY <1>2, <2>1 DEF CallState
<1>4. /\ c.pc = (IF thread[t].answer = Right[thread[t].a] THEN "opened" ELSE "openFailed")
      /\ c.op = thread[t].op /\ c.a = thread[t].a /\ c.by = thread[t].by
      /\ c.answer = thread[t].answer /\ c.errors = thread[t].errors
      /\ c.filled = thread[t].filled /\ c.ret = thread[t].ret
      /\ c.declined = thread[t].declined /\ c.readFailed = thread[t].readFailed
      /\ c.age = thread[t].age /\ c.stale = thread[t].stale
  BY <1>2 DEF CallState
<1>5. pm' \in PMState /\ pm' = pm
  BY DEF DecodeNames, CallTypes
<1> HIDE DEF c
<1>6. CallTypes' /\ Moves(t) /\ thread'[t] = c
  BY <1>1, <1>2, <1>3, <1>4, <1>5, Update
<1>7. Quiet(t)
  BY <1>1, <1>4 DEF Quiet, DecodeNames, CallTypes
<1>8. ASSUME Single(t) PROVE Single(t)'
  <2>1. FlagsOf({t})'
    BY <1>1, <1>5, <1>8 DEF Single, CallInv, Hidden, FlagsOf, UsedBy, SkippedBy, Asked
  <2>2. KeptOf({t})'
    BY <1>1, <1>4, <1>5, <1>8 DEF Single, KeptOf, Decided
  <2>3. Bound(t)'
    BY <1>1, <1>4, <1>5, <1>8 DEF Single, CallInv, Sign, Bound
  <2>4. Asked(t)'
    BY <1>1, <1>4, <1>6, <1>8 DEF Single, CallInv, Asked
  <2>5. NotOpened(t)'
    BY <1>1, <1>4, <1>5, <1>8, Passwords DEF Single, CallInv, Sign, Hidden, NotOpened, Asked
  <2>6. Extracting(t)'
    BY <1>1, <1>4 DEF Extracting
  <2>7. Result(t)'
    BY <1>1, <1>4, <1>8 DEF Single, CallInv, Result
  <2> QED  BY <2>1, <2>2, <2>3, <2>4, <2>5, <2>6, <2>7 DEF Single, CallInv
<1> QED  BY <1>6, <1>7, <1>8

\* What is known of the password of a solid RAR is forgotten.
LEMMA PrepareKeeps ==
    ASSUME CallTypes, NEW t \in Thread, Prepare(t)
    PROVE  CallTypes' /\ Moves(t) /\ Quiet(t) /\ (Single(t) => Single(t)')
<1> DEFINE c == [thread[t] EXCEPT !.pc = "extract"]
<1>1. /\ thread' = [thread EXCEPT ![t] = c]
      /\ calls' = calls /\ skippedArc' = skippedArc
      /\ thread[t].pc = "prepare"
  BY DEF Prepare, Goto, Return, CallTypes
<1>2. thread[t] \in CallState
  BY DEF CallTypes
<1>3. c \in CallState
  <2>1. "extract" \in PC
    BY DEF PC
  <2> QED  BY <1>2, <2>1 DEF CallState
<1>4. /\ c.pc = "extract" /\ c.op = thread[t].op /\ c.a = thread[t].a
      /\ c.by = thread[t].by /\ c.answer = thread[t].answer
      /\ c.errors = thread[t].errors /\ c.filled = thread[t].filled
      /\ c.ret = thread[t].ret /\ c.declined = thread[t].declined
      /\ c.readFailed = thread[t].readFailed /\ c.age = thread[t].age
      /\ c.stale = thread[t].stale
  BY <1>2 DEF CallState
<1>5. /\ pm' \in PMState
      /\ pm'.password = (IF thread[t].a \in SolidRar /\ ~PM!IsValid THEN FALSE ELSE pm.password)
      /\ pm'.used = pm.used /\ pm'.changed = pm.changed /\ pm'.error = pm.error
      /\ pm'.skip = pm.skip /\ pm'.skipArc = pm.skipArc /\ pm'.text = pm.text
      /\ pm'.archive = pm.archive
  BY <1>1, <1>2 DEF Prepare, CallTypes, PMState, CallState, PM!Reset
<1> HIDE DEF c
<1>6. CallTypes' /\ Moves(t) /\ thread'[t] = c
  BY <1>1, <1>2, <1>3, <1>4, <1>5, Update
<1>7. Quiet(t)
  BY <1>1, <1>4 DEF Quiet, Prepare, CallTypes
<1>8. ASSUME Single(t) PROVE Single(t)'
  <2>1. FlagsOf({t})'
    BY <1>1, <1>5, <1>8 DEF Single, FlagsOf, UsedBy, SkippedBy
  <2>2. KeptOf({t})'
    BY <1>1, <1>4, <1>5, <1>8
       DEF Single, CallInv, PM!IsValid, KeptOf, Decided, FlagsOf, SkippedBy, Bound,
           Extracting
  <2>3. Bound(t)'
    BY <1>1, <1>4, <1>5, <1>8 DEF Single, CallInv, Sign, Bound
  <2>4. Asked(t)'
    BY <1>1, <1>4, <1>8 DEF Single, CallInv, Asked
  <2>5. NotOpened(t)'
    BY <1>1, <1>4 DEF NotOpened
  <2>6. Extracting(t)'
    BY <1>1, <1>4, <1>5, <1>8 DEF Single, CallInv, Sign, Extracting
  <2>7. Result(t)'
    BY <1>1, <1>4, <1>8 DEF Single, CallInv, Result
  <2> QED  BY <2>1, <2>2, <2>3, <2>4, <2>5, <2>6, <2>7 DEF Single, CallInv
<1> QED  BY <1>6, <1>7, <1>8

\* The archive cannot be read on.
LEMMA ReadFailsKeeps ==
    ASSUME CallTypes, NEW t \in Thread, ReadFails(t)
    PROVE  CallTypes' /\ Moves(t) /\ Quiet(t) /\ (Single(t) => Single(t)')
<1> DEFINE c == [thread[t] EXCEPT !.pc = "again", !.errors = FALSE, !.readFailed = TRUE]
<1>1. /\ thread' = [thread EXCEPT ![t] = c]
      /\ calls' = calls /\ skippedArc' = skippedArc
      /\ thread[t].pc = "extract" /\ thread[t].a \in Unreliable
  BY DEF ReadFails, Goto, Return, CallTypes
<1>2. thread[t] \in CallState
  BY DEF CallTypes
<1>3. c \in CallState
  <2>1. "again" \in PC
    BY DEF PC
  <2> QED  BY <1>2, <2>1 DEF CallState
<1>4. /\ c.pc = "again" /\ c.op = thread[t].op /\ c.a = thread[t].a
      /\ c.by = thread[t].by /\ c.answer = thread[t].answer /\ c.errors = FALSE
      /\ c.filled = thread[t].filled /\ c.ret = thread[t].ret
      /\ c.declined = thread[t].declined /\ c.readFailed = TRUE /\ c.age = thread[t].age
      /\ c.stale = thread[t].stale
  BY <1>2 DEF CallState
<1>5. pm' \in PMState /\ pm' = pm
  BY DEF ReadFails, CallTypes
<1> HIDE DEF c
<1>6. CallTypes' /\ Moves(t) /\ thread'[t] = c
  BY <1>1, <1>2, <1>3, <1>4, <1>5, Update
<1>7. Quiet(t)
  BY DEF Quiet, ReadFails, CallTypes
<1>8. ASSUME Single(t) PROVE Single(t)'
  <2>1. FlagsOf({t})'
    BY <1>1, <1>4, <1>5, <1>8 DEF Single, FlagsOf, UsedBy, SkippedBy
  <2>2. KeptOf({t})'
    BY <1>1, <1>4, <1>5, <1>8 DEF Single, KeptOf, Decided
  <2>3. Bound(t)'
    BY <1>1, <1>4, <1>5, <1>8 DEF Single, CallInv, Sign, Bound
  <2>4. Asked(t)'
    BY <1>1, <1>4, <1>8 DEF Single, CallInv, Sign, Asked
  <2>5. NotOpened(t)'
    BY <1>1, <1>4 DEF NotOpened
  <2>6. Extracting(t)'
    BY <1>4, <1>6 DEF Extracting
  <2>7. Result(t)'
    BY <1>1, <1>4, <1>8 DEF Single, CallInv, Result
  <2> QED  BY <2>1, <2>2, <2>3, <2>4, <2>5, <2>6, <2>7 DEF Single, CallInv
<1> QED  BY <1>6, <1>7, <1>8

\* The decoder starts, and needs a password if the archive has one.
LEMMA ExtractKeeps ==
    ASSUME CallTypes, NEW t \in Thread, Extract(t)
    PROVE  CallTypes' /\ Moves(t) /\ Quiet(t) /\ (Single(t) => Single(t)')
<1> DEFINE c == [thread[t] EXCEPT !.pc = IF thread[t].a \in Encrypted THEN "ask" ELSE "decode",
                                !.by = "extract", !.errors = FALSE]
<1>1. /\ thread' = [thread EXCEPT ![t] = c]
      /\ calls' = calls /\ skippedArc' = skippedArc
      /\ thread[t].pc = "extract"
  BY DEF Extract, Goto, Return, CallTypes
<1>2. thread[t] \in CallState
  BY DEF CallTypes
<1>3. c \in CallState
  <2>1. "ask" \in PC /\ "decode" \in PC
    BY DEF PC
  <2> QED  BY <1>2, <2>1 DEF CallState
<1>4. /\ c.pc = (IF thread[t].a \in Encrypted THEN "ask" ELSE "decode")
      /\ c.op = thread[t].op /\ c.a = thread[t].a /\ c.by = "extract"
      /\ c.answer = thread[t].answer /\ c.errors = FALSE /\ c.filled = thread[t].filled
      /\ c.ret = thread[t].ret /\ c.declined = thread[t].declined
      /\ c.readFailed = thread[t].readFailed /\ c.age = thread[t].age
      /\ c.stale = thread[t].stale
  BY <1>2 DEF CallState
<1>5. pm' \in PMState /\ pm' = pm
  BY DEF Extract, CallTypes
<1> HIDE DEF c
<1>6. CallTypes' /\ Moves(t) /\ thread'[t] = c
  BY <1>1, <1>2, <1>3, <1>4, <1>5, Update
<1>7. Quiet(t)
  BY DEF Quiet, Extract, CallTypes
<1>8. ASSUME Single(t) PROVE Single(t)'
  <2>1. FlagsOf({t})'
    BY <1>1, <1>4, <1>5, <1>8 DEF Single, FlagsOf, UsedBy, SkippedBy
  <2>2. KeptOf({t})'
    BY <1>1, <1>4, <1>5, <1>8 DEF Single, KeptOf, Decided
  <2>3. Bound(t)'
    BY <1>1, <1>4, <1>5, <1>8 DEF Single, CallInv, Sign, Bound
  <2>4. Asked(t)'
    BY <1>1, <1>4, <1>8 DEF Single, CallInv, Sign, Asked
  <2>5. NotOpened(t)'
    BY <1>1, <1>4 DEF NotOpened
  <2>6. Extracting(t)'
    BY <1>1, <1>4, <1>5, <1>8 DEF Single, CallInv, Sign, Extracting
  <2>7. Result(t)'
    BY <1>1, <1>4, <1>8 DEF Single, CallInv, Result
  <2> QED  BY <2>1, <2>2, <2>3, <2>4, <2>5, <2>6, <2>7 DEF Single, CallInv
<1> QED  BY <1>6, <1>7, <1>8

\* The decoder says what has become of the item.
LEMMA OperationResultKeeps ==
    ASSUME CallTypes, NEW t \in Thread, OperationResult(t)
    PROVE  CallTypes' /\ Moves(t) /\ Quiet(t) /\ (Single(t) => Single(t)')
<1> DEFINE c == [thread[t] EXCEPT !.pc = "again", !.errors = ~Decodes(t), !.filled = Decodes(t)]
<1>1. /\ thread' = [thread EXCEPT ![t] = c]
      /\ calls' = calls /\ skippedArc' = skippedArc
      /\ thread[t].pc = "decode" /\ thread[t].by = "extract"
  BY DEF OperationResult, Goto, Return, CallTypes
<1>2. thread[t] \in CallState
  BY DEF CallTypes
<1>3. c \in CallState
  <2>1. "again" \in PC
    BY DEF PC
  <2> QED  BY <1>2, <2>1 DEF CallState, Decodes
<1>4. /\ c.pc = "again" /\ c.op = thread[t].op /\ c.a = thread[t].a
      /\ c.by = thread[t].by /\ c.answer = thread[t].answer /\ c.errors = ~Decodes(t)
      /\ c.filled = Decodes(t) /\ c.ret = thread[t].ret
      /\ c.declined = thread[t].declined /\ c.readFailed = thread[t].readFailed
      /\ c.age = thread[t].age /\ c.stale = thread[t].stale
  BY <1>2 DEF CallState
<1>5. /\ pm' \in PMState /\ pm'.password = pm.password /\ pm'.used = pm.used
      /\ pm'.changed = pm.changed /\ pm'.error = (IF Decodes(t) THEN pm.error ELSE TRUE)
      /\ pm'.skip = pm.skip /\ pm'.skipArc = pm.skipArc /\ pm'.text = pm.text
      /\ pm'.archive = pm.archive
  <2>1. CASE Decodes(t)
    BY <2>1 DEF OperationResult, CallTypes, PMState
  <2>2. CASE ~Decodes(t)
    BY <2>2 DEF OperationResult, CallTypes, PMState, PM!NotifyError
  <2> QED  BY <2>1, <2>2
<1> HIDE DEF c
<1>6. CallTypes' /\ Moves(t) /\ thread'[t] = c
  BY <1>1, <1>2, <1>3, <1>4, <1>5, Update
<1>7. Quiet(t)
  BY DEF Quiet, OperationResult, CallTypes
<1>8. ASSUME Single(t) PROVE Single(t)'
  <2>1. FlagsOf({t})'
    BY <1>1, <1>4, <1>5, <1>8, Passwords
       DEF Single, CallInv, FlagsOf, UsedBy, SkippedBy, Bound, Asked
  <2>2. KeptOf({t})'
    BY <1>1, <1>4, <1>5, <1>8
       DEF Single, CallInv, Decodes, KeptOf, Decided, Doubtful, Bound, Asked
  <2>3. Bound(t)'
    BY <1>1, <1>4, <1>5, <1>8 DEF Single, CallInv, Sign, Bound
  <2>4. Asked(t)'
    BY <1>1, <1>4, <1>5, <1>8 DEF Single, CallInv, Sign, Asked
  <2>5. NotOpened(t)'
    BY <1>1, <1>4 DEF NotOpened
  <2>6. Extracting(t)'
    BY <1>1, <1>4, <1>5, <1>6, <1>8 DEF Single, CallInv, Sign, Decodes, Extracting, Asked
  <2>7. Result(t)'
    BY <1>1, <1>4, <1>8 DEF Single, CallInv, Result
  <2> QED  BY <2>1, <2>2, <2>3, <2>4, <2>5, <2>6, <2>7 DEF Single, CallInv
<1> QED  BY <1>6, <1>7, <1>8

\* After errors with a password it is tried again.
LEMMA ExtractAgainKeeps ==
    ASSUME CallTypes, NEW t \in Thread, ExtractAgain(t)
    PROVE  CallTypes' /\ Moves(t) /\ Quiet(t) /\ (Single(t) => Single(t)')
<1> DEFINE c == [thread[t] EXCEPT !.pc = IF thread[t].errors /\ PM!IsRetry
                                         THEN "extract" ELSE "end"]
<1>1. /\ thread' = [thread EXCEPT ![t] = c]
      /\ calls' = calls /\ skippedArc' = skippedArc
      /\ thread[t].pc = "again"
  BY DEF ExtractAgain, Goto, Return, CallTypes
<1>2. thread[t] \in CallState
  BY DEF CallTypes
<1>3. c \in CallState
  <2>1. "extract" \in PC /\ "end" \in PC
    BY DEF PC
  <2> QED  BY <1>2, <2>1 DEF CallState
<1>4. /\ c.pc = (IF thread[t].errors /\ PM!IsRetry THEN "extract" ELSE "end")
      /\ c.op = thread[t].op /\ c.a = thread[t].a /\ c.by = thread[t].by
      /\ c.answer = thread[t].answer /\ c.errors = thread[t].errors
      /\ c.filled = thread[t].filled /\ c.ret = thread[t].ret
      /\ c.declined = thread[t].declined /\ c.readFailed = thread[t].readFailed
      /\ c.age = thread[t].age /\ c.stale = thread[t].stale
  BY <1>2 DEF CallState
<1>5. pm' \in PMState /\ pm' = pm
  BY DEF ExtractAgain, CallTypes
<1> HIDE DEF c
<1>6. CallTypes' /\ Moves(t) /\ thread'[t] = c
  BY <1>1, <1>2, <1>3, <1>4, <1>5, Update
<1>7. Quiet(t)
  BY <1>1, <1>4 DEF Quiet, ExtractAgain, CallTypes
<1>8. ASSUME Single(t) PROVE Single(t)'
  <2>1. FlagsOf({t})'
    BY <1>1, <1>4, <1>5, <1>8 DEF Single, PM!IsRetry, FlagsOf, UsedBy, SkippedBy
  <2>2. KeptOf({t})'
    BY <1>1, <1>4, <1>5, <1>8 DEF Single, KeptOf, Decided
  <2>3. Bound(t)'
    BY <1>1, <1>4, <1>5, <1>8 DEF Single, CallInv, Sign, Bound
  <2>4. Asked(t)'
    BY <1>1, <1>4, <1>8 DEF Single, CallInv, Sign, Asked
  <2>5. NotOpened(t)'
    BY <1>1, <1>4 DEF NotOpened
  <2>6. Extracting(t)'
    BY <1>1, <1>4, <1>5, <1>6, <1>8
       DEF Single, CallInv, PM!IsRetry, Extracting, Bound, FlagsOf, SkippedBy
  <2>7. Result(t)'
    BY <1>1, <1>4, <1>8 DEF Single, CallInv, Result
  <2> QED  BY <2>1, <2>2, <2>3, <2>4, <2>5, <2>6, <2>7 DEF Single, CallInv
<1> QED  BY <1>6, <1>7, <1>8

\* The call ends.
LEMMA EndFileKeeps ==
    ASSUME CallTypes, NEW t \in Thread, EndFile(t)
    PROVE  CallTypes' /\ Moves(t) /\ Quiet(t) /\ (Single(t) => Single(t)')
<1> DEFINE c == [thread[t] EXCEPT !.pc = "return",
                  !.ret = IF thread[t].errors THEN "READ_ERROR" ELSE "ALL_RIGHT"]
<1>1. /\ thread' = [thread EXCEPT ![t] = c]
      /\ calls' = calls /\ skippedArc' = skippedArc
      /\ thread[t].pc = "end"
  BY DEF EndFile, Goto, Return, CallTypes
<1>2. thread[t] \in CallState
  BY DEF CallTypes
<1>3. c \in CallState
  <2>1. "return" \in PC
    BY DEF PC
  <2> QED  BY <1>2, <2>1 DEF CallState
<1>4. /\ c.pc = "return" /\ c.op = thread[t].op /\ c.a = thread[t].a
      /\ c.by = thread[t].by /\ c.answer = thread[t].answer
      /\ c.errors = thread[t].errors /\ c.filled = thread[t].filled
      /\ c.ret = (IF thread[t].errors THEN "READ_ERROR" ELSE "ALL_RIGHT")
      /\ c.declined = thread[t].declined /\ c.readFailed = thread[t].readFailed
      /\ c.age = thread[t].age /\ c.stale = thread[t].stale
  BY <1>2 DEF CallState
<1>5. /\ pm' \in PMState /\ pm'.password = pm.password /\ pm'.used = FALSE
      /\ pm'.changed = pm.changed /\ pm'.error = FALSE /\ pm'.skip = FALSE
      /\ pm'.skipArc = pm.skipArc /\ pm'.text = pm.text /\ pm'.archive = pm.archive
  BY <1>1, <1>2 DEF EndFile, CallTypes, PMState, CallState, PM!NotfiyEndFile
<1> HIDE DEF c
<1>6. CallTypes' /\ Moves(t) /\ thread'[t] = c
  BY <1>1, <1>2, <1>3, <1>4, <1>5, Update
<1>7. Quiet(t)
  BY <1>1, <1>4 DEF Quiet, EndFile, CallTypes
<1>8. ASSUME Single(t) PROVE Single(t)'
  <2>1. FlagsOf({t})'
    BY <1>1, <1>5, <1>8 DEF Single, FlagsOf
  <2>2. KeptOf({t})'
    BY <1>1, <1>4, <1>5, <1>8 DEF Single, KeptOf, Decided
  <2>3. Bound(t)'
    BY <1>4, <1>6 DEF Bound
  <2>4. Asked(t)'
    BY <1>1, <1>4, <1>8 DEF Single, CallInv, Sign, Asked
  <2>5. NotOpened(t)'
    BY <1>1, <1>4 DEF NotOpened
  <2>6. Extracting(t)'
    BY <1>4, <1>6 DEF Extracting
  <2>7. Result(t)'
    BY <1>1, <1>4, <1>8 DEF Single, CallInv, Result, Extracting
  <2> QED  BY <2>1, <2>2, <2>3, <2>4, <2>5, <2>6, <2>7 DEF Single, CallInv
<1> QED  BY <1>6, <1>7, <1>8

----------------------------------------------------------------------------
\* A call begins; if there are others they work on archives of Together, as it
\* does.
LEMMA CallKeeps ==
    ASSUME CallTypes, NEW t \in Thread, NEW op \in {"info", "file"}, NEW a \in Archive,
           Call(t, op, a)
    PROVE  CallTypes' /\ Quiet(t) /\ (PasswordInv => PasswordInv')
<1> DEFINE c == [NoCall EXCEPT !.pc = "lookup", !.op = op, !.a = a]
<1>1. /\ c \in CallState /\ c.pc = "lookup" /\ c.a = a /\ c.ret = "none"
      /\ ~c.declined /\ ~c.readFailed /\ c.age = 0 /\ c.stale = FALSE
  BY DEF NoCall, CallState, PC
<1>2. /\ thread' = [thread EXCEPT ![t] = c] /\ thread[t].pc = "idle"
      /\ Busy # {} => a \in Together /\ \A u \in Busy : thread[u].a \in Together
      /\ UNCHANGED <<cache, pm, skippedArc>>
  BY DEF Call
<1>3. calls' \in 0..MaxCalls
  BY GetFileAssumption DEF Call, CallTypes
<1> HIDE DEF c
<1>4. /\ thread' \in [Thread -> CallState] /\ thread'[t] = c
      /\ \A u \in Thread : u # t => thread'[u] = thread[u]
  BY <1>1, <1>2 DEF CallTypes
<1>5. CallTypes'
  BY <1>1, <1>2, <1>3, <1>4 DEF CallTypes
<1>6. Quiet(t)
  BY <1>1, <1>2, <1>4 DEF Quiet
<1>7. ASSUME PasswordInv PROVE PasswordInv'
  <2>1. Alone'
    <3> SUFFICES ASSUME NEW v \in Thread, NEW u \in Thread, v # u,
                        thread'[v].pc # "idle", thread'[u].pc # "idle"
                 PROVE  thread'[v].a \in Together
      BY DEF Alone
    <3> QED  BY <1>1, <1>2, <1>4, <1>7 DEF PasswordInv, Alone, Busy
  <2>2. FlagsOf(Thread)' /\ KeptOf(Thread)'
    <3>1. \A u \in Thread : /\ UsedBy(u) => UsedBy(u)'
                            /\ SkippedBy(u) => SkippedBy(u)'
                            /\ Decided(u) => Decided(u)'
      BY <1>2, <1>4 DEF UsedBy, SkippedBy, Decided
    <3>2. FlagsOf(Thread)'
      BY <1>2, <1>7, <3>1 DEF PasswordInv, FlagsOf
    <3>3. \A u \in Thread : thread'[u].pc = "dialog" => thread'[u] = thread[u]
      BY <1>1, <1>4
    <3>4. KeptOf(Thread)'
      BY <1>2, <1>7, <3>1, <3>3 DEF PasswordInv, KeptOf
    <3> QED  BY <3>2, <3>4
  <2>3. CallInv(t)'
    BY <1>1, <1>4 DEF CallInv, Bound, Asked, NotOpened, Extracting, Result
  <2>4. ASSUME NEW u \in Thread, u # t PROVE CallInv(u)'
    <3>1. CallInv(u) /\ thread'[u] = thread[u]
      BY <1>4, <1>7, <2>4 DEF PasswordInv
    <3> QED  BY <1>2, <3>1 DEF CallInv, Bound, Asked, NotOpened, Extracting, Result, Sign,
                Hidden, PM!IsRetry
  <2> QED  BY <2>1, <2>2, <2>3, <2>4 DEF PasswordInv
<1> QED  BY <1>5, <1>6, <1>7

\* It ends.
LEMMA ReturnedKeeps ==
    ASSUME CallTypes, NEW t \in Thread, Returned(t)
    PROVE  CallTypes' /\ Moves(t) /\ Quiet(t) /\ (Single(t) => Single(t)')
<1>1. /\ NoCall \in CallState /\ NoCall.pc = "idle" /\ NoCall.ret = "none"
      /\ ~NoCall.declined /\ ~NoCall.readFailed /\ NoCall.age = 0 /\ NoCall.stale = FALSE
  BY DEF NoCall, CallState, PC
<1>2. /\ thread' = [thread EXCEPT ![t] = NoCall] /\ thread[t].pc = "return"
      /\ UNCHANGED <<cache, pm, calls, skippedArc>>
  BY DEF Returned
<1>3. pm' \in PMState
  BY <1>2 DEF CallTypes
<1> HIDE DEF NoCall
<1>4. /\ CallTypes' /\ Moves(t) /\ thread'[t] = NoCall
      /\ \A u \in Thread : u # t => thread'[u] = thread[u]
  BY <1>1, <1>2, <1>3, Update
<1>5. Quiet(t)
  BY <1>1, <1>2, <1>4 DEF Quiet
<1>6. ASSUME Single(t) PROVE Single(t)'
  <2>1. CallInv(t)'
    BY <1>1, <1>4 DEF CallInv, Bound, Asked, NotOpened, Extracting, Result
  <2>2. FlagsOf({t})' /\ KeptOf({t})'
    BY <1>1, <1>2, <1>4, <1>6 DEF Single, FlagsOf, UsedBy, SkippedBy, KeptOf, Decided
  <2> QED  BY <2>1, <2>2 DEF Single
<1> QED  BY <1>4, <1>5, <1>6

\* The list of the archive is made.
LEMMA ListKeeps ==
    ASSUME CallTypes, NEW t \in Thread, List(t)
    PROVE  /\ CallTypes' /\ Moves(t) /\ (Single(t) => Single(t)')
           /\ thread[t].pc = "list"
           /\ \A u \in Thread : u # t => thread'[u] = thread[u]
           /\ \E h \in Handle \ heap :
                 /\ arcinfo' = arcinfo /\ nowno' = nowno /\ heap' = heap \cup {h}
                 /\ thread'[t] = [thread[t] EXCEPT !.pc = "add", !.hinfo = h]
<1> DEFINE h == CHOOSE x \in Handle \ heap : TRUE
           c == [thread[t] EXCEPT !.pc = "add", !.hinfo = h]
<1>1. /\ thread' = [thread EXCEPT ![t] = c] /\ thread[t].pc = "list"
      /\ h \in Handle \ heap /\ heap' = heap \cup {h}
      /\ arcinfo' = arcinfo /\ nowno' = nowno
      /\ UNCHANGED <<pm, calls, skippedArc>>
  BY DEF List, Info!NewList, CallTypes
<1> HIDE DEF h
<1>2. thread[t] \in CallState
  BY DEF CallTypes
<1>3. c \in CallState
  <2>1. "add" \in PC
    BY DEF PC
  <2> QED  BY <1>1, <1>2, <2>1 DEF CallState
<1>4. /\ c.pc = "add" /\ c.op = thread[t].op /\ c.a = thread[t].a /\ c.by = thread[t].by
      /\ c.errors = thread[t].errors /\ c.filled = thread[t].filled
      /\ c.ret = thread[t].ret /\ c.declined = thread[t].declined
      /\ c.readFailed = thread[t].readFailed
  BY <1>2 DEF CallState
<1>5. pm' \in PMState
  BY <1>1 DEF CallTypes
<1>6. \E x \in Handle \ heap :
         /\ arcinfo' = arcinfo /\ nowno' = nowno /\ heap' = heap \cup {x}
         /\ c = [thread[t] EXCEPT !.pc = "add", !.hinfo = x]
  BY <1>1
<1> HIDE DEF c
<1>7. /\ CallTypes' /\ Moves(t) /\ thread'[t] = c
      /\ \A u \in Thread : u # t => thread'[u] = thread[u]
  BY <1>1, <1>3, <1>4, <1>5, Update
<1>8. ASSUME Single(t) PROVE Single(t)'
  <2>1. CallInv(t)'
    BY <1>1, <1>4, <1>7, <1>8 DEF Single, CallInv, Bound, Asked, NotOpened, Extracting,
       Result, Sign
  <2>2. FlagsOf({t})' /\ KeptOf({t})'
    BY <1>1, <1>4, <1>7, <1>8 DEF Single, FlagsOf, UsedBy, SkippedBy, KeptOf, Decided
  <2> QED  BY <2>1, <2>2 DEF Single
<1> QED  BY <1>1, <1>6, <1>7, <1>8

\* The list is added to the cache; the threads that read theirs grow older.
LEMMA AddListKeeps ==
    ASSUME CallTypes, NEW t \in Thread, AddList(t)
    PROVE  CallTypes' /\ Moves(t) /\ (Single(t) => Single(t)')
<1> DEFINE c == [thread[t] EXCEPT !.pc = "use"]
           Older(u) == [thread[u] EXCEPT !.age = @ + 1,
                                         !.stale = @ \/ thread[u].hinfo \notin heap']
<1>1. /\ thread' = [u \in Thread |-> IF u = t THEN c
                                     ELSE IF thread[u].pc = "use" THEN Older(u)
                                     ELSE thread[u]]
      /\ thread[t].pc = "add" /\ UNCHANGED <<pm, calls, skippedArc>>
  BY DEF AddList
<1>2. \A u \in Thread : thread[u] \in CallState
  BY DEF CallTypes
<1>3. c \in CallState
  <2>1. "use" \in PC
    BY DEF PC
  <2> QED  BY <1>2, <2>1 DEF CallState
<1>4. /\ c.pc = "use" /\ c.op = thread[t].op /\ c.a = thread[t].a /\ c.by = thread[t].by
      /\ c.errors = thread[t].errors /\ c.filled = thread[t].filled
      /\ c.ret = thread[t].ret /\ c.declined = thread[t].declined
      /\ c.readFailed = thread[t].readFailed
  BY <1>2 DEF CallState
<1>5. ASSUME NEW u \in Thread
      PROVE  /\ Older(u) \in CallState /\ Older(u).pc = thread[u].pc
             /\ Older(u).op = thread[u].op /\ Older(u).a = thread[u].a
             /\ Older(u).by = thread[u].by /\ Older(u).answer = thread[u].answer
             /\ Older(u).errors = thread[u].errors /\ Older(u).filled = thread[u].filled
             /\ Older(u).ret = thread[u].ret /\ Older(u).declined = thread[u].declined
             /\ Older(u).readFailed = thread[u].readFailed
  <2>1. thread[u] \in CallState
    BY <1>2
  <2>2. thread[u].age + 1 \in Nat
    BY <2>1 DEF CallState
  <2> QED  BY <2>1, <2>2 DEF CallState
<1> HIDE DEF c, Older
<1>6. thread' \in [Thread -> CallState] /\ thread'[t] = c
  BY <1>1, <1>2, <1>3, <1>5
<1>7. \A u \in Thread : u # t => SameCall(u)
  BY <1>1, <1>5 DEF SameCall
<1>8. Moves(t)
  BY <1>1, <1>4, <1>6, <1>7 DEF Moves
<1>9. CallTypes'
  BY <1>1, <1>4, <1>6, <1>7 DEF CallTypes, SameCall
<1>10. ASSUME Single(t) PROVE Single(t)'
  <2>1. CallInv(t)'
    BY <1>1, <1>4, <1>6, <1>10 DEF Single, CallInv, Bound, Asked, NotOpened, Extracting,
       Result, Sign
  <2>2. FlagsOf({t})' /\ KeptOf({t})'
    BY <1>1, <1>4, <1>6, <1>10 DEF Single, FlagsOf, UsedBy, SkippedBy, KeptOf, Decided
  <2> QED  BY <2>1, <2>2 DEF Single
<1> QED  BY <1>8, <1>9, <1>10

\* The plug-in is unloaded.
LEMMA UnloadKeeps ==
    ASSUME CallTypes, Unload
    PROVE  CallTypes' /\ (PasswordInv => PasswordInv')
<1>1. /\ thread' = thread /\ calls' = calls /\ skippedArc' = NULL /\ pm' = PM!New
      /\ \A t \in Thread : thread[t].pc = "idle"
  BY DEF Unload, Busy
<1>2. /\ pm' \in PMState /\ pm'.archive = NULL /\ ~pm'.used /\ ~pm'.skip /\ ~pm'.skipArc
      /\ ~pm'.error
  BY <1>1 DEF PM!New, PMState
<1>3. CallTypes'
  BY <1>1, <1>2 DEF CallTypes
<1>4. ASSUME PasswordInv PROVE PasswordInv'
  <2>1. Alone' /\ \A t \in Thread : CallInv(t)'
    BY <1>1, <1>4 DEF PasswordInv, Alone, CallInv, Bound, Asked, NotOpened, Extracting,
       Result, Sign
  <2>2. FlagsOf(Thread)' /\ KeptOf(Thread)'
    BY <1>1, <1>2, Passwords DEF FlagsOf, KeptOf
  <2> QED  BY <2>1, <2>2 DEF PasswordInv
<1> QED  BY <1>3, <1>4

----------------------------------------------------------------------------
(* Every step                                                              *)

\* Whatever step a thread takes, for the list it has in hand only three matter.
LEMMA ThreadKeeps ==
    ASSUME CallTypes, NEW t \in Thread, ThreadStep(t) \/ User(t)
    PROVE  /\ CallTypes' /\ Moves(t) /\ (Single(t) => Single(t)')
           /\ List(t) \/ AddList(t) \/ Use(t) \/ Quiet(t)
           /\ thread[t].pc # "idle"
<1>1. thread[t].pc # "idle"
  BY DEF ThreadStep, User, Lookup, List, AddList, Use, Notify, OpenArchive, OpenFailed,
     Check, Recheck, Opened, Ask, DialogEnd, DecodeNames, Prepare, ReadFails, Extract,
     OperationResult, ExtractAgain, EndFile, Returned, Skip, SkipArchive, TypePassword
<1> QED
  BY <1>1, LookupKeeps, ListKeeps, AddListKeeps, UseKeeps, NotifyKeeps, OpenArchiveKeeps,
     OpenFailedKeeps, CheckKeeps, RecheckKeeps, OpenedKeeps, AskKeeps, DialogEndKeeps,
     DecodeNamesKeeps, PrepareKeeps, ReadFailsKeeps, ExtractKeeps, OperationResultKeeps,
     ExtractAgainKeeps, EndFileKeeps, ReturnedKeeps, SkipKeeps, SkipArchiveKeeps,
     TypePasswordKeeps
     DEF ThreadStep, User

\* The types hold at the start and every step keeps them.
LEMMA CallTypesInit == Init => CallTypes
<1> SUFFICES ASSUME Init PROVE CallTypes
  OBVIOUS
<1>1. NoCall \in CallState /\ NoCall.pc = "idle"
  BY DEF NoCall, CallState, PC
<1>2. pm \in PMState
  BY DEF Init, PM!New, PMState
<1> QED  BY <1>1, <1>2, GetFileAssumption DEF Init, CallTypes

\* No step breaks the types of the calls.
LEMMA CallTypesStep == CallTypes /\ [Next]_vars => CallTypes'
<1> SUFFICES ASSUME CallTypes, [Next]_vars PROVE CallTypes'
  OBVIOUS
<1>1. CASE UNCHANGED vars
  BY <1>1 DEF vars, CallTypes
<1>2. CASE Next
  BY <1>2, CallKeeps, ThreadKeeps, UnloadKeeps DEF Next
<1> QED  BY <1>1, <1>2

\* The invariant of the password manager holds at the start ...
LEMMA PasswordInit == Init => PasswordInv
<1> SUFFICES ASSUME Init PROVE PasswordInv
  OBVIOUS
<1>1. NoCall.pc = "idle" /\ NoCall.ret = "none" /\ ~NoCall.declined /\ ~NoCall.readFailed
  BY DEF NoCall
<1>2. pm.archive = NULL /\ ~pm.used /\ ~pm.skip /\ ~pm.skipArc /\ ~pm.error
  BY DEF Init, PM!New
<1>3. Alone /\ \A t \in Thread : CallInv(t)
  BY <1>1 DEF Init, Alone, CallInv, Bound, Asked, NotOpened, Extracting, Result
<1>4. FlagsOf(Thread) /\ KeptOf(Thread)
  BY <1>1, <1>2, Passwords DEF Init, FlagsOf, KeptOf
<1> QED  BY <1>3, <1>4 DEF PasswordInv

\* ... and every step keeps it.
LEMMA PasswordStep ==
    ASSUME OneAsksAtATime, CallTypes, PasswordInv, [Next]_vars
    PROVE  PasswordInv'
<1>1. CASE UNCHANGED vars
  BY <1>1 DEF vars, PasswordInv, Alone, FlagsOf, UsedBy, SkippedBy, KeptOf, Decided,
     CallInv, Bound, Asked, NotOpened, Extracting, Result, Sign, Hidden, PM!IsRetry
<1>2. ASSUME NEW t \in Thread, NEW op \in {"info", "file"}, NEW a \in Archive, Call(t, op, a)
      PROVE  PasswordInv'
  BY <1>2, CallKeeps
<1>3. ASSUME NEW t \in Thread, ThreadStep(t) \/ User(t) PROVE PasswordInv'
  <2>1. /\ CallTypes' /\ Moves(t) /\ (Single(t) => Single(t)')
        /\ thread[t].pc # "idle"
    BY <1>3, ThreadKeeps
  <2>2. Single(t)
    BY <2>1, SingleHolds
  <2> QED  BY <2>1, <2>2, StepOfOne, GetFileAssumption
<1>4. CASE Unload
  BY <1>4, UnloadKeeps
<1> QED  BY <1>1, <1>2, <1>3, <1>4 DEF Next

\* A call succeeds only with the item decoded, or not read, and fails only for
\* a reason, whatever the flags of the one password manager still say of the
\* archives opened before.
THEOREM CallsAnswerRight == OneAsksAtATime /\ Spec => []AnswerJustified
<1> SUFFICES ASSUME OneAsksAtATime PROVE Spec => []AnswerJustified
  OBVIOUS
<1>1. Init => CallTypes /\ PasswordInv
  BY CallTypesInit, PasswordInit
<1>2. CallTypes /\ PasswordInv /\ [Next]_vars => CallTypes' /\ PasswordInv'
  BY CallTypesStep, PasswordStep
<1>3. PasswordInv => AnswerJustified
  BY DEF PasswordInv, CallInv, NotOpened, Result, AnswerJustified
<1> QED  BY <1>1, <1>2, <1>3, PTL DEF Spec

\* A password that is right is not asked for again, unless the archive may fail
\* for another reason.
THEOREM RightPasswordIsKept == OneAsksAtATime /\ Spec => []RightPasswordKept
<1> SUFFICES ASSUME OneAsksAtATime PROVE Spec => []RightPasswordKept
  OBVIOUS
<1>1. Init => CallTypes /\ PasswordInv
  BY CallTypesInit, PasswordInit
<1>2. CallTypes /\ PasswordInv /\ [Next]_vars => CallTypes' /\ PasswordInv'
  BY CallTypesStep, PasswordStep
<1>3. PasswordInv => RightPasswordKept
  BY DEF PasswordInv, KeptOf, RightPasswordKept
<1> QED  BY <1>1, <1>2, <1>3, PTL DEF Spec

----------------------------------------------------------------------------
(* The information cache and the threads that use it                       *)

\* The proofs about the cache alone.
Ring == INSTANCE InfoCacheProofs WITH Path <- Archive

\* The instances of InfoCache have the assumption of GetFile.
LEMMA RingAssumption == Ring!InfoCacheAssumption /\ Info!InfoCacheAssumption
BY GetFileAssumption DEF Ring!InfoCacheAssumption, Info!InfoCacheAssumption

\* Both instances of the cache are the same.
LEMMA SameRing ==
    /\ Info!Slot = Ring!Slot /\ Info!Filled = Ring!Filled
    /\ \A h : Info!NewList(h) <=> Ring!NewList(h)
    /\ \A a, h : Info!Add(a, h) <=> Ring!Add(a, h)
    /\ Info!Clear <=> Ring!Clear
    /\ Info!Init <=> Ring!Init
BY DEF Info!Slot, Ring!Slot, Info!Filled, Ring!Filled, Info!NewList, Ring!NewList,
   Info!Add, Ring!Add, Info!Replaced, Ring!Replaced, Info!NextSlot, Ring!NextSlot,
   Info!Clear, Ring!Clear, Info!Init, Ring!Init, Info!EmptySlot, Ring!EmptySlot

InCache == {arcinfo[n].hinfo : n \in Ring!Filled}
Makers == {t \in Thread : thread[t].pc = "add"}
Held == {thread[t].hinfo : t \in Makers}

\* Who owns the lists.
Lists ==
    /\ heap = InCache \cup Held
    /\ InCache \cap Held = {}
    /\ \A t, u \in Makers : thread[t].hinfo = thread[u].hinfo => t = u

\* How old the list is that a thread still reads, and which slot has it.
Reading(t) ==
    /\ thread[t].pc # "use" => thread[t].age = 0 /\ ~thread[t].stale
    /\ thread[t].stale => thread[t].age >= Size
    /\ thread[t].pc = "use" /\ thread[t].age < Size
       => /\ Ring!Back(thread[t].age + 1) \in Ring!Filled
          /\ arcinfo[Ring!Back(thread[t].age + 1)].hinfo = thread[t].hinfo

ListInv == Ring!CacheInv /\ Lists /\ \A t \in Thread : Reading(t)

\* Quiet steps keep it.
LEMMA QuietLists ==
    ASSUME CallTypes, ListInv, NEW t \in Thread, Quiet(t)
    PROVE  ListInv'
<1>1. /\ arcinfo' = arcinfo /\ nowno' = nowno /\ heap' = heap
      /\ \A u \in Thread : u # t => thread'[u] = thread[u]
      /\ thread[t].pc \notin {"add", "use"} /\ thread'[t].pc \notin {"add", "use"}
      /\ thread'[t].age \in {thread[t].age, 0} /\ thread'[t].stale \in {thread[t].stale, FALSE}
  BY DEF Quiet, cache
<1>2. Ring!CacheInv' /\ InCache' = InCache /\ Ring!Filled' = Ring!Filled
  BY <1>1
     DEF ListInv, Ring!CacheInv, Ring!Types, Ring!Ring, Ring!Owned, Ring!Filled,
         Ring!Slot,
     InCache
<1>3. Makers' = Makers /\ \A u \in Makers : thread'[u] = thread[u]
  BY <1>1 DEF Makers
<1>4. Held' = Held
  BY <1>3 DEF Held
<1>5. Lists'
  BY <1>1, <1>2, <1>3, <1>4 DEF ListInv, Lists
<1>6. ASSUME NEW u \in Thread PROVE Reading(u)'
  <2>1. CASE u = t
    BY <1>1, <2>1 DEF ListInv, Reading
  <2>2. CASE u # t
    BY <1>1, <1>2, <2>2 DEF ListInv, Reading, Ring!Back
  <2> QED  BY <2>1, <2>2
<1> QED  BY <1>2, <1>5, <1>6 DEF ListInv

\* A list is made.
LEMMA ListLists ==
    ASSUME CallTypes, ListInv, NEW t \in Thread, List(t)
    PROVE  ListInv'
<1>1. /\ thread[t].pc = "list" /\ CallTypes'
      /\ \A u \in Thread : u # t => thread'[u] = thread[u]
  BY ListKeeps
<1>2. PICK h \in Handle \ heap :
         /\ arcinfo' = arcinfo /\ nowno' = nowno /\ heap' = heap \cup {h}
         /\ thread'[t] = [thread[t] EXCEPT !.pc = "add", !.hinfo = h]
  BY ListKeeps
<1>3. /\ thread'[t].pc = "add" /\ thread'[t].hinfo = h /\ thread'[t].age = thread[t].age
      /\ thread'[t].stale = thread[t].stale
  BY <1>2 DEF CallTypes, CallState
<1>4. Ring!CacheInv' /\ InCache' = InCache /\ Ring!Filled' = Ring!Filled
  BY <1>2
     DEF ListInv, Ring!CacheInv, Ring!Types, Ring!Ring, Ring!Owned, Ring!Filled,
         Ring!Slot,
     InCache
<1>5. Makers' = Makers \cup {t} /\ t \notin Makers /\ \A u \in Makers : thread'[u] = thread[u]
  BY <1>1, <1>3 DEF Makers
<1>6. Held' = Held \cup {h}
  BY <1>3, <1>5 DEF Held
<1>7. \A u \in Makers : thread[u].hinfo \in heap
  BY DEF ListInv, Lists, Held
<1>8. Lists'
  <2>1. heap' = (InCache \cup Held)' /\ (InCache \cap Held)' = {}
    BY <1>2, <1>4, <1>6 DEF ListInv, Lists
  <2>2. \A v, u \in Makers' : thread'[v].hinfo = thread'[u].hinfo => v = u
    <3> SUFFICES ASSUME NEW v \in Makers', NEW u \in Makers',
                        thread'[v].hinfo = thread'[u].hinfo
                 PROVE  v = u
      OBVIOUS
    <3>1. CASE v \in Makers /\ u \in Makers
      BY <1>5, <3>1 DEF ListInv, Lists
    <3>2. CASE v = t /\ u # t
      BY <1>3, <1>5, <1>7, <3>2
    <3>3. CASE v # t /\ u = t
      BY <1>3, <1>5, <1>7, <3>3
    <3> QED  BY <1>5, <3>1, <3>2, <3>3
  <2> QED  BY <2>1, <2>2 DEF Lists
<1>9. ASSUME NEW u \in Thread PROVE Reading(u)'
  <2>1. CASE u = t
    BY <1>1, <1>3, <2>1 DEF ListInv, Reading
  <2>2. CASE u # t
    BY <1>1, <1>2, <1>4, <2>2 DEF ListInv, Reading, Ring!Back
  <2> QED  BY <2>1, <2>2
<1> QED  BY <1>4, <1>8, <1>9 DEF ListInv

\* The list in hand becomes one that is read.
LEMMA UseLists ==
    ASSUME CallTypes, ListInv, NEW t \in Thread, Use(t)
    PROVE  ListInv'
<1>1. /\ arcinfo' = arcinfo /\ nowno' = nowno /\ heap' = heap
      /\ \A u \in Thread : u # t => thread'[u] = thread[u]
      /\ thread[t].pc = "use"
  BY DEF Use, cache, CallTypes
<1>2. thread'[t].pc \in {"return", "notify"} /\ thread'[t].age = 0 /\ thread'[t].stale = FALSE
  <2>1. thread[t] \in CallState
    BY DEF CallTypes
  <2>2. CASE thread[t].op = "info"
    BY <2>1, <2>2 DEF Use, CallTypes, CallState
  <2>3. CASE thread[t].op # "info"
    BY <2>1, <2>3 DEF Use, CallTypes, CallState
  <2> QED  BY <2>2, <2>3
<1>3. Ring!CacheInv' /\ InCache' = InCache /\ Ring!Filled' = Ring!Filled
  BY <1>1
     DEF ListInv, Ring!CacheInv, Ring!Types, Ring!Ring, Ring!Owned, Ring!Filled,
         Ring!Slot,
     InCache
<1>4. Makers' = Makers /\ \A u \in Makers : thread'[u] = thread[u]
  BY <1>1, <1>2 DEF Makers
<1>5. Lists'
  BY <1>1, <1>3, <1>4 DEF ListInv, Lists, Held
<1>6. ASSUME NEW u \in Thread PROVE Reading(u)'
  <2>1. CASE u = t
    BY <1>2, <2>1 DEF Reading
  <2>2. CASE u # t
    BY <1>1, <1>3, <2>2 DEF ListInv, Reading, Ring!Back
  <2> QED  BY <2>1, <2>2
<1> QED  BY <1>3, <1>5, <1>6 DEF ListInv

\* The list made is added and the list of the slot it takes is freed.
LEMMA AddLists ==
    ASSUME CallTypes, ListInv, NEW t \in Thread, AddList(t)
    PROVE  ListInv'
<1> USE RingAssumption
<1> DEFINE h == thread[t].hinfo
           a == thread[t].a
           old == arcinfo[nowno].hinfo
<1>1. /\ thread[t].pc = "add" /\ Ring!Add(a, h) /\ a \in Archive
      /\ t \in Makers /\ h \in Held
  BY SameRing DEF AddList, CallTypes, Makers, Held
<1>2. Ring!CacheInv /\ h \in heap /\ h \notin InCache /\ heap' = heap \ {old}
  BY <1>1 DEF ListInv, Lists, Ring!Add, Ring!Replaced
<1>3. /\ Ring!Types' /\ Ring!Ring'
      /\ arcinfo'[nowno].hinfo = h
      /\ \A n \in Ring!Slot : n # nowno => arcinfo'[n] = arcinfo[n]
      /\ Ring!Filled' = Ring!Filled \cup {nowno}
      /\ nowno' = IF nowno = Size - 1 THEN 0 ELSE nowno + 1
  BY <1>1, <1>2, Ring!AddFills
<1>4. Ring!CacheInv'
  <2>1. Ring!Next
    BY <1>1, <1>2 DEF Ring!Next, InCache
  <2> QED  BY <1>2, <2>1, Ring!CacheInvStep
<1>5. /\ thread'[t].pc = "use" /\ thread'[t].age = thread[t].age
      /\ thread'[t].stale = thread[t].stale /\ thread'[t].hinfo = h
  BY DEF AddList, CallTypes, CallState
<1>6. ASSUME NEW u \in Thread, u # t
      PROVE  /\ thread'[u].pc = thread[u].pc /\ thread'[u].hinfo = thread[u].hinfo
             /\ IF thread[u].pc = "use"
                THEN /\ thread'[u].age = thread[u].age + 1
                     /\ thread'[u].stale = (thread[u].stale \/ thread[u].hinfo \notin heap')
                ELSE /\ thread'[u].age = thread[u].age
                     /\ thread'[u].stale = thread[u].stale
  <2>1. thread[u] \in CallState
    BY DEF CallTypes
  <2> QED  BY <1>6, <2>1 DEF AddList, CallState
<1>7. InCache' = (InCache \ {old}) \cup {h}
  <2>1. nowno \in Ring!Slot /\ Ring!Filled \subseteq Ring!Slot
    BY <1>2 DEF Ring!CacheInv, Ring!Types, Ring!Filled
  <2>2. \A n \in Ring!Filled : n # nowno => arcinfo[n].hinfo # old
    <3>1. nowno \in Ring!Filled \/ old = NULL
      BY <2>1 DEF Ring!Filled
    <3> QED  BY <1>2, <3>1 DEF Ring!CacheInv, Ring!Owned, Ring!Filled
  <2>3. \A n \in Ring!Filled : n # nowno => arcinfo'[n].hinfo = arcinfo[n].hinfo
    BY <1>3, <2>1
  <2> QED  BY <1>3, <2>1, <2>2, <2>3 DEF InCache
<1>8. Makers' = Makers \ {t} /\ \A u \in Makers' : thread'[u].hinfo = thread[u].hinfo
  BY <1>5, <1>6 DEF Makers
<1>9. Held' = Held \ {h}
  BY <1>1, <1>8 DEF ListInv, Lists, Held
<1>10. Lists'
  <2>1. old \notin Held
    <3>1. old \in InCache \/ old = NULL
      BY <1>2 DEF Ring!CacheInv, Ring!Types, Ring!Filled, InCache
    <3>2. NULL \notin Held
      BY <1>2 DEF ListInv, Lists, Ring!CacheInv, Ring!Types, Ring!InfoCacheAssumption
    <3> QED  BY <3>1, <3>2 DEF ListInv, Lists
  <2>2. heap' = (InCache \cup Held)'
    BY <1>1, <1>2, <1>7, <1>9, <2>1 DEF ListInv, Lists
  <2>3. (InCache \cap Held)' = {}
    BY <1>7, <1>9 DEF ListInv, Lists
  <2>4. \A v, u \in Makers' : thread'[v].hinfo = thread'[u].hinfo => v = u
    BY <1>8 DEF ListInv, Lists
  <2> QED  BY <2>2, <2>3, <2>4 DEF Lists
<1>11. nowno \in Ring!Slot /\ Size \in Nat \ {0} /\ nowno' \in Ring!Slot
  BY <1>2, <1>4 DEF Ring!CacheInv, Ring!Types, Ring!InfoCacheAssumption
<1>12. Reading(t)'
  <2>1. thread'[t].age = 0 /\ ~thread'[t].stale
    BY <1>1, <1>5 DEF ListInv, Reading
  <2>2. Ring!Back(1)' = nowno
    <3>1. (nowno' - 1) % Size = IF 1 <= nowno' THEN nowno' - 1 ELSE nowno' - 1 + Size
      BY <1>11, Ring!Backward
    <3> QED  BY <1>3, <1>11, <3>1 DEF Ring!Back, Ring!Slot
  <2> QED  BY <1>3, <1>5, <2>1, <2>2 DEF Reading
<1>13. ASSUME NEW u \in Thread, u # t PROVE Reading(u)'
  <2>1. Reading(u) /\ thread[u].age \in Nat
    BY DEF ListInv, CallTypes, CallState
  <2>2. CASE thread[u].pc # "use"
    BY <1>6, <1>13, <2>1, <2>2 DEF Reading
  <2>3. CASE thread[u].pc = "use" /\ thread[u].age + 1 >= Size
    BY <1>6, <1>11, <1>13, <2>1, <2>3 DEF Reading
  <2>4. CASE thread[u].pc = "use" /\ thread[u].age + 1 < Size
    <3> DEFINE k == thread[u].age
               n == (nowno - (k + 1)) % Size
               m == (nowno' - (k + 2)) % Size
    <3>1. n = IF k + 1 <= nowno THEN nowno - (k + 1) ELSE nowno - (k + 1) + Size
      BY <1>11, <2>1, <2>4, Ring!Backward
    <3>2. m = IF k + 2 <= nowno' THEN nowno' - (k + 2) ELSE nowno' - (k + 2) + Size
      BY <1>11, <2>1, <2>4, Ring!Backward
    <3>3. m = n /\ n # nowno
      <4> HIDE DEF n, m
      <4> QED  BY <1>3, <1>11, <2>1, <2>4, <3>1, <3>2 DEF Ring!Slot
    <3>4. n \in Ring!Filled /\ arcinfo[n].hinfo = thread[u].hinfo /\ ~thread[u].stale
      BY <1>11, <2>1, <2>4 DEF Reading, Ring!Back
    <3>5. n \in Ring!Filled' /\ arcinfo'[n].hinfo = thread[u].hinfo
      BY <1>3, <3>3, <3>4 DEF Ring!Filled
    <3>6. thread[u].hinfo \in heap'
      BY <1>10, <3>5 DEF Lists, InCache
    <3>7. thread'[u].age = k + 1 /\ ~thread'[u].stale
      BY <1>6, <1>13, <2>4, <3>4, <3>6
    <3>8. (nowno' - (thread'[u].age + 1)) % Size = n
      <4>1. thread'[u].age + 1 = k + 2
        BY <2>1, <3>7
      <4> QED  BY <3>3, <4>1
    <3> HIDE DEF n, m, k
    <3> QED  BY <1>6, <1>13, <2>4, <3>5, <3>7, <3>8 DEF Reading, Ring!Back
  <2> QED  BY <1>11, <2>1, <2>2, <2>3, <2>4
<1> QED  BY <1>4, <1>10, <1>12, <1>13 DEF ListInv

\* The cache is cleared when no call is at work.
LEMMA UnloadLists ==
    ASSUME CallTypes, ListInv, Unload
    PROVE  ListInv'
<1>1. thread' = thread /\ Ring!Clear /\ \A t \in Thread : thread[t].pc = "idle"
  BY SameRing DEF Unload, Busy
<1>2. Makers = {} /\ Held = {} /\ Makers' = {} /\ Held' = {} /\ heap = InCache
  BY <1>1 DEF Makers, Held, ListInv, Lists
<1>3. Ring!CacheInv'
  BY <1>1, Ring!CacheInvStep, RingAssumption DEF ListInv, Ring!Next
<1>4. heap' = {} /\ Ring!Filled' = {}
  BY <1>1, <1>2 DEF Ring!Clear, InCache, Ring!Filled, ListInv, Ring!CacheInv, Ring!Types
<1>5. InCache' = {}
  BY <1>4 DEF InCache
<1>6. Lists'
  BY <1>2, <1>4, <1>5 DEF Lists
<1>7. ASSUME NEW t \in Thread PROVE Reading(t)'
  BY <1>1 DEF ListInv, Reading
<1> QED  BY <1>3, <1>6, <1>7 DEF ListInv

\* The invariant holds at the start ...
LEMMA ListInit == Init => ListInv
<1> SUFFICES ASSUME Init PROVE ListInv
  OBVIOUS
<1>1. NoCall.pc = "idle" /\ NoCall.age = 0 /\ ~NoCall.stale
  BY DEF NoCall
<1>2. Ring!CacheInv /\ Ring!Filled = {} /\ heap = {}
  BY SameRing, RingAssumption, Ring!CacheInvInit DEF Init, Ring!Init
<1>3. Makers = {}
  BY <1>1 DEF Init, Makers
<1>4. Lists
  BY <1>2, <1>3 DEF Lists, InCache, Held
<1>5. \A t \in Thread : Reading(t)
  BY <1>1 DEF Init, Reading
<1> QED  BY <1>2, <1>4, <1>5 DEF ListInv

\* ... and every step keeps it.
LEMMA ListStep == CallTypes /\ ListInv /\ [Next]_vars => ListInv'
<1> SUFFICES ASSUME CallTypes, ListInv, [Next]_vars PROVE ListInv'
  OBVIOUS
<1>1. CASE UNCHANGED vars
  <2>1. /\ Ring!CacheInv' /\ Ring!Filled' = Ring!Filled /\ InCache' = InCache
        /\ Makers' = Makers /\ Held' = Held
    BY <1>1 DEF vars, cache, ListInv, Ring!CacheInv, Ring!Types, Ring!Ring, Ring!Owned,
       Ring!Filled, Ring!Slot, InCache, Makers, Held
  <2>2. Lists'
    BY <1>1, <2>1 DEF vars, cache, ListInv, Lists
  <2>3. \A t \in Thread : Reading(t)'
    BY <1>1, <2>1 DEF vars, cache, ListInv, Reading, Ring!Back
  <2> QED  BY <2>1, <2>2, <2>3 DEF ListInv
<1>2. ASSUME NEW t \in Thread, NEW op \in {"info", "file"}, NEW a \in Archive, Call(t, op, a)
      PROVE  ListInv'
  BY <1>2, CallKeeps, QuietLists
<1>3. ASSUME NEW t \in Thread, ThreadStep(t) \/ User(t) PROVE ListInv'
  BY <1>3, ThreadKeeps, ListLists, AddLists, UseLists, QuietLists
<1>4. CASE Unload
  BY <1>4, UnloadLists
<1> QED  BY <1>1, <1>2, <1>3, <1>4 DEF Next

\* No two slots have the same list.
LEMMA AsManyLists ==
    ASSUME ListInv
    PROVE  Cardinality(InCache) = Cardinality(Info!Filled)
<1> DEFINE f == [n \in Ring!Filled |-> arcinfo[n].hinfo]
<1>1. f \in Bijection(Ring!Filled, InCache)
  <2>1. f \in Surjection(Ring!Filled, InCache)
    BY DEF InCache, Surjection
  <2>2. \A m, n \in Ring!Filled : f[m] = f[n] => m = n
    BY DEF ListInv, Ring!CacheInv, Ring!Owned
  <2> HIDE DEF f
  <2>3. f \in Injection(Ring!Filled, InCache)
    BY <2>1, <2>2 DEF Injection, IsInjective, Surjection
  <2> QED  BY <2>1, <2>3 DEF Bijection
<1>2. IsFiniteSet(Ring!Filled)
  <2>1. IsFiniteSet(0..Size - 1)
    BY RingAssumption, FS_Interval DEF Ring!InfoCacheAssumption
  <2> QED  BY <2>1, FS_Subset DEF Ring!Filled, Ring!Slot
<1> QED  BY <1>1, <1>2, FS_Bijection, SameRing DEF ExistsBijection

\* The variables keep their types.
THEOREM TypeCorrect == Spec => []TypeOK
<1>1. CallTypes /\ ListInv => TypeOK
  BY SameRing DEF CallTypes, CallState, PMState, PC, ListInv, Ring!CacheInv, Ring!Types,
     Ring!SlotState, TypeOK
<1> QED  BY <1>1, CallTypesInit, CallTypesStep, ListInit, ListStep, PTL DEF Spec

\* Nothing leaks and nothing is freed twice, however calls interleave.
THEOREM NothingLeaks == Spec => []ListsAccounted
<1>1. ListInv => ListsAccounted
  BY AsManyLists, SameRing DEF ListInv, Lists, InCache, Held, Makers, ListsAccounted
<1> QED  BY <1>1, CallTypesInit, CallTypesStep, ListInit, ListStep, PTL DEF Spec

\* A list in use is freed only after as many others have been added as the cache
\* has slots.
THEOREM FreedWhenOld == Spec => []FreedOnlyWhenOld
<1>1. ListInv => FreedOnlyWhenOld
  BY DEF ListInv, Reading, FreedOnlyWhenOld
<1> QED  BY <1>1, CallTypesInit, CallTypesStep, ListInit, ListStep, PTL DEF Spec

----------------------------------------------------------------------------
(* What the cache promises, in GetFile                                     *)

\* The threads use the cache as its own specification says: a list is added
\* once, and by the one who made it.
LEMMA UsesTheRing == Spec => Ring!Spec
<1>1. Init => Ring!Init
  BY SameRing DEF Init
<1>2. CallTypes /\ ListInv /\ [Next]_vars => [Ring!Next]_(Ring!vars)
  <2> SUFFICES ASSUME CallTypes, ListInv, [Next]_vars PROVE [Ring!Next]_(Ring!vars)
    OBVIOUS
  <2>1. CASE UNCHANGED vars
    BY <2>1 DEF vars, cache, Ring!vars
  <2>2. ASSUME NEW t \in Thread, Quiet(t) \/ Use(t) PROVE UNCHANGED Ring!vars
    BY <2>2 DEF Quiet, Use, cache, Ring!vars
  <2>3. ASSUME NEW t \in Thread, List(t) PROVE Ring!Next
    <3>1. PICK h \in Handle : Info!NewList(h)
      BY <2>3 DEF List, Info!NewList
    <3> QED  BY <3>1, SameRing DEF Ring!Next
  <2>4. ASSUME NEW t \in Thread, AddList(t) PROVE Ring!Next
    <3>1. Ring!Add(thread[t].a, thread[t].hinfo) /\ thread[t].a \in Archive
      BY <2>4, SameRing DEF AddList, CallTypes
    <3>2. thread[t].hinfo \in heap \ InCache
      BY <2>4 DEF AddList, ListInv, Lists, Held, Makers
    <3> QED  BY <3>1, <3>2 DEF Ring!Next, InCache
  <2>5. ASSUME NEW t \in Thread, NEW op \in {"info", "file"}, NEW a \in Archive, Call(t, op, a)
        PROVE  UNCHANGED Ring!vars
    BY <2>5 DEF Call, cache, Ring!vars
  <2>6. CASE Unload
    BY <2>6, SameRing DEF Unload, Ring!Next
  <2> QED  BY <2>1, <2>2, <2>3, <2>4, <2>5, <2>6, ThreadKeeps DEF Next
<1> QED  BY <1>1, <1>2, CallTypesInit, CallTypesStep, ListInit, ListStep, PTL
            DEF Spec, Ring!Spec

\* The two instances count the same.
LEMMA SameCount == Info!Count = Ring!Count
BY DEF Info!Count, Info!Filled, Info!Slot, Ring!Count, Ring!Filled, Ring!Slot,
   Info!Cardinality, Ring!Cardinality

\* GetCache finds the newest list of the archive, and one that is not freed.
THEOREM SearchIsRight == Spec => []SearchFindsNewest
<1>1. Ring!SearchFindsNewest => SearchFindsNewest
  <2>1. \A p \in Archive : Info!Recent!Newest(p) = Ring!Recent!Newest(p)
    BY SameCount DEF Info!Recent!Newest, Ring!Recent!Newest
  <2>2. \A p \in Archive : Info!GetCache(p) = Ring!GetCache(p)
    BY DEF Info!GetCache, Ring!GetCache, Info!Searched, Ring!Searched, Info!Back, Ring!Back,
       Info!Filled, Ring!Filled, Info!Slot, Ring!Slot
  <2> QED  BY <2>1, <2>2
              DEF SearchFindsNewest, Info!SearchFindsNewest, Ring!SearchFindsNewest
<1>2. Ring!Spec => []Ring!SearchFindsNewest
  BY RingAssumption, Ring!SearchIsRight
<1> QED  BY <1>1, <1>2, UsesTheRing, PTL

\* Whatever the threads do, the cache remembers the lists made last.
THEOREM CacheImplements == Spec => ImplementsRecentLists
<1> DEFINE theirs == [i \in 1..Info!Count |-> arcinfo[(nowno - (Info!Count + 1 - i)) % Size]]
           ours == [i \in 1..Ring!Count |-> arcinfo[(nowno - (Ring!Count + 1 - i)) % Size]]
<1>1. theirs = ours
  BY SameCount
<1>2. (theirs = ours)'
  BY <1>1, PTL
<1>3. Info!Recent!Init <=> Ring!Recent!Init
  BY <1>1 DEF Info!Recent!Init, Ring!Recent!Init
<1>4. [Info!Recent!Next]_theirs <=> [Ring!Recent!Next]_ours
  BY <1>1, <1>2
     DEF Info!Recent!Next, Ring!Recent!Next, Info!Recent!Clear, Ring!Recent!Clear,
     Info!Recent!Add, Ring!Recent!Add, Info!Recent!Entry, Ring!Recent!Entry
<1>5. Ring!Spec => Ring!ImplementsRecentLists
  BY RingAssumption, Ring!Implements
<1> QED
  BY <1>3, <1>4, <1>5, UsesTheRing, PTL
     DEF ImplementsRecentLists, Info!ImplementsRecentLists, Info!Recent!Spec,
         Ring!ImplementsRecentLists, Ring!Recent!Spec
=============================================================================
