-------------------------- MODULE PasswordManager --------------------------
(***************************************************************************)
(* class PasswordManager: one object for the whole process, without a      *)
(* lock.  It caches the password typed last and remembers, in flags, what  *)
(* has happened to the archive worked on: that decides whether a failure   *)
(* is retried and whether the user is asked.  GetPassword is in two parts, *)
(* before and after the modal dialog.                                      *)
(***************************************************************************)
CONSTANTS
    Archive,
    Text,      \* passwords
    NoText,    \* the empty password
    NULL       \* no archive yet

VARIABLE pm

New ==
    [password |-> FALSE, used |-> FALSE, changed |-> FALSE, error |-> FALSE,
     skip |-> FALSE, skipArc |-> FALSE, text |-> NoText, archive |-> NULL]

BadIsRetry == pm.used /\ pm.error /\ ~pm.skip
IsRetry == pm.used /\ pm.error /\ ~pm.skip /\ ~pm.skipArc

BadIsValid == pm.changed /\ ~pm.error /\ ~pm.skip /\ ~pm.skipArc
IsValid == ~pm.changed /\ ~pm.error /\ ~pm.skip /\ ~pm.skipArc

BadNotifyArchive(a) ==
    pm' = IF pm.archive = a THEN pm
          ELSE [pm EXCEPT !.used = FALSE, !.changed = TRUE, !.error = FALSE,
                          !.skip = FALSE, !.archive = a]
NotifyArchive(a) ==
    pm' = IF pm.archive = a THEN pm
          ELSE [pm EXCEPT !.used = FALSE, !.changed = TRUE, !.error = FALSE,
                          !.skip = FALSE, !.skipArc = FALSE, !.archive = a]

NotfiyEndFile == pm' = [pm EXCEPT !.used = FALSE, !.error = FALSE, !.skip = FALSE]
NotifyError == pm' = [pm EXCEPT !.error = TRUE]
ClearError == pm' = [pm EXCEPT !.error = FALSE]
Reset == pm' = [pm EXCEPT !.password = FALSE]

\* GetPassword up to the dialog, and whether there is one.
KeptPassword == pm.password /\ ~IsRetry
Asks == ~KeptPassword /\ ~pm.skip /\ ~pm.skipArc
Asking == [pm EXCEPT !.password = KeptPassword]

\* The buttons of the dialog.
PressOK(x) == pm' = [pm EXCEPT !.text = x, !.password = TRUE, !.changed = FALSE]
PressSkip == pm' = [pm EXCEPT !.skip = TRUE, !.password = FALSE]
PressSkipArchive == pm' = [pm EXCEPT !.skipArc = TRUE, !.password = FALSE]

\* The rest of GetPassword: the password it returns, and what it leaves.
Answer(p) == IF p.password THEN p.text ELSE NoText
Answered(p) == [p EXCEPT !.text = Answer(p), !.used = TRUE]
=============================================================================
