------------------------------ MODULE Settings ------------------------------
(***************************************************************************)
(* The settings: an ini file per user (in AppData) or one next to the      *)
(* plug-in, shared by all users, and the globals loaded from it.  They are *)
(* loaded not only when the process loads the plug-in but whenever one of  *)
(* its threads starts, under the loader lock; the dialog changes and saves *)
(* them without any lock.  One step of a save or a move is one call that   *)
(* changes a file, so the process can die between any two keys.            *)
(***************************************************************************)
EXTENDS Naturals

CONSTANTS
    NumKeys,       \* the settings, in the order in which SaveToIni writes them
    MainKeys,      \* those of the main dialog; the others are the solid dialog's
    ResetKeys,     \* those that SetParamDefault resets
    Value,
    Default,       \* what a key that is missing is taken for
    NoExtensions,  \* the empty list of user extensions
    NoFile,
    Reload         \* threads may start while OK is being handled

Key == 1..NumKeys

\* ExtManager::Save writes the user extensions first.
UserExtensions == 1

ASSUME SettingsAssumption ==
    /\ NumKeys \in Nat \ {0} /\ MainKeys \subseteq Key /\ ResetKeys \subseteq Key
    /\ Default \in Value /\ NoExtensions \in Value /\ Reload \in BOOLEAN
    /\ NoFile \notin [value : [Key -> Value], shared : BOOLEAN]

VARIABLES
    file,          \* the ini file of each place; "shared": its key shared is 1
    folder,        \* the folder for the personal file exists
    writable,      \* the folder of the plug-in can be written to
    mem,           \* the settings in force
    fSharedConf,   \* g_fSharedConf
    iniFile,       \* g_sIniFileName
    attach,        \* SpiEntryPoint: where the thread is that is starting
    dialog,        \* ConfigDlgProc
    chosen,        \* history: the settings and the place the user chose last,
    before,        \*   the settings before that,
    excused,       \*   and why they need not be what the files say
    answered       \* history: what was answered to the question has been done

globals == <<mem, fSharedConf, iniFile>>
history == <<chosen, before, excused>>
vars == <<file, folder, writable, globals, attach, dialog, history, answered>>

Place == {"personal", "shared"}
Settings == [Key -> Value]
File == [value : Settings, shared : BOOLEAN]
AllDefault == [k \in Key |-> Default]
Closed == [pc |-> "closed", for |-> "ok", to |-> "personal", key |-> 1,
           oldConf |-> FALSE, oldFile |-> "personal"]

\* A list of extensions that is empty is not written: its key is removed.
Kept(k, v) == IF k = UserExtensions /\ v = NoExtensions THEN Default ELSE v
Keepable(v) == \A k \in Key : Kept(k, v[k]) = v[k]

\* What the next start will use: the personal file always wins.
EffectivePlace ==
    IF file["personal"] # NoFile THEN "personal"
    ELSE IF file["shared"] = NoFile THEN "none"
    ELSE IF file["shared"].shared THEN "shared" ELSE "undecided"
EffectiveValue ==
    CASE EffectivePlace = "none" -> AllDefault
      [] EffectivePlace = "personal" -> file["personal"].value
      [] OTHER -> file["shared"].value

\* The files other versions of the plug-in, and this one, leave behind.
Init ==
    /\ file \in [Place -> File \cup {NoFile}]
    /\ file["personal"] # NoFile => ~file["personal"].shared
    /\ \A p \in Place : file[p] # NoFile => Keepable(file[p].value)
    /\ folder \in BOOLEAN /\ (file["personal"] # NoFile => folder)
    /\ writable \in BOOLEAN
    /\ mem = AllDefault /\ fSharedConf = FALSE /\ iniFile = "personal"
    /\ attach = "name" /\ dialog = Closed
    /\ chosen = [value |-> EffectiveValue, place |-> EffectivePlace]
    /\ before = EffectiveValue /\ excused = {} /\ answered = FALSE

\* An OK is being handled.
Saving == dialog.pc \notin {"closed", "open"}

CanWrite(p) == IF p = "personal" THEN folder ELSE writable

\* SetParamDefault leaves the folder of the cache and topmost alone.
ResetValue == [k \in Key |-> IF k \in ResetKeys THEN Default ELSE mem[k]]

\* WritePrivateProfileString creates the file if need be.
Entry(p) == IF file[p] = NoFile THEN [value |-> AllDefault, shared |-> FALSE] ELSE file[p]
WithKey(p, k) ==
    IF CanWrite(p) THEN [file EXCEPT ![p] = [Entry(p) EXCEPT !.value[k] = Kept(k, mem[k])]]
    ELSE file
WithFlag(p) ==
    IF CanWrite(p) THEN [file EXCEPT ![p] = [Entry(p) EXCEPT !.shared = TRUE]] ELSE file

----------------------------------------------------------------------------
(* SpiEntryPoint, for the process and for every thread                     *)

\* Another thread starts; the first attach is part of the initial state.
ThreadAttach ==
    /\ attach = "idle" /\ (Saving => Reload)
    /\ attach' = "name"
    /\ UNCHANGED <<file, folder, writable, globals, dialog, history, answered>>

\* SetIniFileName looks for the files.
BadSetIniFileName ==
    /\ attach = "name"
    /\ attach' = IF EffectivePlace = "undecided" THEN "ask" ELSE "defaults"
    /\ iniFile' = EffectivePlace /\ fSharedConf' = (EffectivePlace = "shared")
    /\ UNCHANGED <<file, folder, writable, mem, dialog, history, answered>>
SetIniFileName ==
    /\ attach = "name"
    /\ CASE EffectivePlace \in {"personal", "none"} ->
               iniFile' = "personal" /\ fSharedConf' = FALSE /\ attach' = "defaults"
         [] EffectivePlace = "shared" ->
               iniFile' = "shared" /\ fSharedConf' = TRUE /\ attach' = "defaults"
         [] OTHER -> attach' = "ask" /\ UNCHANGED <<iniFile, fSharedConf>>
    /\ UNCHANGED <<file, folder, writable, mem, dialog, history, answered>>

\* A shared file of an old version: the user keeps it there, ...
BadAnswerNo ==
    /\ attach = "ask" /\ attach' = "defaults"
    /\ iniFile' = "shared" /\ fSharedConf' = TRUE
    /\ chosen' = [chosen EXCEPT !.place = "shared"]
    /\ answered' = TRUE
    /\ UNCHANGED <<file, folder, writable, mem, dialog, before, excused>>
AnswerNo ==
    /\ attach = "ask" /\ attach' = "defaults"
    /\ file' = WithFlag("shared")
    /\ iniFile' = "shared" /\ fSharedConf' = TRUE
    /\ chosen' = [chosen EXCEPT !.place = "shared"]
    /\ answered' = TRUE
    /\ UNCHANGED <<folder, writable, mem, dialog, before, excused>>

\* ... or has it moved.  The folder may not be created, ...
MakePersonalIniFolder == folder' \in {folder, TRUE}

\* ... and the copy may fail for this or any other reason: then the file stays
\* as it is, and the question comes back.
AnswerYes ==
    /\ attach = "ask"
    /\ MakePersonalIniFolder
    /\ \/ /\ folder' /\ file["personal"] = NoFile /\ file["shared"] # NoFile
          /\ file' = [file EXCEPT !["personal"] = file["shared"]]
          /\ attach' = "deleteShared" /\ answered' = TRUE
          /\ chosen' = [chosen EXCEPT !.place = "personal"]
          /\ UNCHANGED <<iniFile, fSharedConf>>
       \/ /\ attach' = "defaults" /\ iniFile' = "shared" /\ fSharedConf' = TRUE
          /\ answered' = FALSE
          /\ UNCHANGED <<file, chosen>>
    /\ UNCHANGED <<writable, mem, dialog, before, excused>>

\* DeleteFile may fail.
MayDelete(p) ==
    \/ UNCHANGED file
    \/ CanWrite(p) /\ file' = [file EXCEPT ![p] = NoFile]

DeleteShared ==
    /\ attach = "deleteShared" /\ attach' = "defaults"
    /\ MayDelete("shared")
    /\ iniFile' = "personal" /\ fSharedConf' = FALSE
    /\ UNCHANGED <<folder, writable, mem, dialog, history, answered>>

\* LoadFromIni starts with SetParamDefault, g_fSharedConf included, ...
LoadDefaults ==
    /\ attach = "defaults" /\ attach' = "load"
    /\ mem' = ResetValue /\ fSharedConf' = FALSE
    /\ UNCHANGED <<file, folder, writable, iniFile, dialog, history, answered>>

\* ... and takes from the file what it has; a missing key counts as its default.
LoadFromIni ==
    /\ attach = "load" /\ attach' = "idle"
    /\ mem' = Entry(iniFile).value
    /\ fSharedConf' = (fSharedConf \/ Entry(iniFile).shared)
    /\ UNCHANGED <<file, folder, writable, iniFile, dialog, history, answered>>

----------------------------------------------------------------------------
(* The dialogs                                                             *)

Goto(pc) == dialog' = [dialog EXCEPT !.pc = pc]

Open ==
    /\ dialog.pc = "closed" /\ attach = "idle"
    /\ Goto("open")
    /\ UNCHANGED <<file, folder, writable, globals, attach, history, answered>>

Cancel ==
    /\ dialog.pc = "open"
    /\ Goto("closed")
    /\ UNCHANGED <<file, folder, writable, globals, attach, history, answered>>

\* The Default button calls SetParamDefault.
DefaultButton ==
    /\ dialog.pc = "open"
    /\ mem' = ResetValue /\ fSharedConf' = FALSE
    /\ UNCHANGED <<file, folder, writable, iniFile, attach, dialog, history, answered>>

\* A dialog sets the keys K as in v.
TakeOver(K, v) == mem' = [k \in Key |-> IF k \in K THEN v[k] ELSE mem[k]]

\* The user chooses what is in force now: what was true of an earlier choice is
\* forgotten.
Choose(p, why) ==
    /\ chosen' = [value |-> mem', place |-> p]
    /\ before' = EffectiveValue
    /\ excused' = why

\* OK of the dialog for solid archives.  Nothing is saved if it shows what is in
\* force already, be it what the Default button has set.
PressSolidOK(v) ==
    /\ dialog.pc = "open" /\ (attach # "idle" => Reload)
    /\ TakeOver(Key \ MainKeys, v)
    /\ IF mem' = mem
       THEN /\ Choose(chosen.place,
                      (excused \ {"home", "mismatch", "unsaved"})
                      \cup (IF \A k \in Key : EffectiveValue[k] = Kept(k, mem[k])
                            THEN {} ELSE {"unsaved"}))
            /\ UNCHANGED dialog
       ELSE /\ Choose(IF chosen.place = "none" THEN iniFile ELSE chosen.place,
                      (excused \ {"home", "mismatch", "unsaved"})
                      \cup (IF CanWrite(iniFile) THEN {} ELSE {"unwritable"}))
            /\ dialog' = [dialog EXCEPT !.pc = "save", !.for = "solid"]
    /\ UNCHANGED <<file, folder, writable, fSharedConf, iniFile, attach, answered>>

\* g_fSharedConf does not say where g_sIniFileName is: UpdateValue then deletes
\* the file it has just saved.
Mismatch == fSharedConf # (iniFile = "shared")

\* The first personal file, while there is a shared one.
FirstPersonal(p) == p = "personal" /\ file["personal"] = NoFile /\ file["shared"] # NoFile

\* OK of the main dialog: UpdateValue up to the test whether the place changes.
BadPressOK(v, p) ==
    /\ dialog.pc = "open" /\ (attach # "idle" => Reload)
    /\ TakeOver(MainKeys, v)
    /\ fSharedConf' = (p = "shared") /\ iniFile' = p
    /\ IF p = "personal" THEN MakePersonalIniFolder ELSE UNCHANGED folder
    /\ file' = IF fSharedConf # (p = "shared") THEN [file EXCEPT ![iniFile] = NoFile] ELSE file
    /\ UNCHANGED <<writable, attach, answered>>
    /\ dialog' = [dialog EXCEPT !.pc = "save", !.oldConf = fSharedConf, !.oldFile = iniFile,
                                !.for = IF fSharedConf # (p = "shared") THEN "move" ELSE "ok"]
    /\ Choose(p, (IF CanWrite(p)' THEN {} ELSE {"unwritable"})
                 \cup (IF FirstPersonal(p) THEN {"home"} ELSE {})
                 \cup (IF Mismatch /\ p = "shared" THEN {"mismatch"} ELSE {})
                 \cup (IF p = "shared" THEN excused \cap {"undeleted"} ELSE {}))
PressOK(v, p) ==
    /\ dialog.pc = "open" /\ (attach # "idle" => Reload)
    /\ TakeOver(MainKeys, v)
    /\ fSharedConf' = (p = "shared") /\ iniFile' = p
    /\ IF p = "personal" THEN MakePersonalIniFolder ELSE UNCHANGED folder
    /\ UNCHANGED <<file, writable, attach, answered>>
    /\ dialog' = [dialog EXCEPT !.pc = "save", !.oldConf = fSharedConf, !.oldFile = iniFile,
                                !.for = IF fSharedConf # (p = "shared") THEN "move" ELSE "ok"]
    /\ Choose(p, (IF CanWrite(p)' THEN {} ELSE {"unwritable"})
                 \cup (IF FirstPersonal(p) THEN {"home"} ELSE {})
                 \cup (IF Mismatch /\ p = "shared" THEN {"mismatch"} ELSE {})
                 \cup (IF p = "shared" THEN excused \cap {"undeleted"} ELSE {}))

\* SaveToIni writes to the file named when it begins, ...
SaveToIni ==
    /\ dialog.pc = "save"
    /\ dialog' = [dialog EXCEPT !.pc = "write", !.to = iniFile, !.key = 1]
    /\ UNCHANGED <<file, folder, writable, globals, attach, history, answered>>

\* ... one key after the other ...
WriteKey ==
    /\ dialog.pc = "write" /\ dialog.key \in Key
    /\ file' = WithKey(dialog.to, dialog.key)
    /\ dialog' = IF dialog.key = NumKeys THEN [dialog EXCEPT !.pc = "flag"]
                 ELSE [dialog EXCEPT !.key = @ + 1]
    /\ UNCHANGED <<folder, writable, globals, attach, history, answered>>

\* ... and the key shared, if it is to be there, last.
WriteFlag(for) ==
    /\ dialog.pc = "flag" /\ dialog.for = for
    /\ file' = IF fSharedConf THEN WithFlag(dialog.to) ELSE file

\* After the OK of the dialog for solid archives the main one is still there.
SolidSaved ==
    /\ WriteFlag("solid")
    /\ Goto("open")
    /\ UNCHANGED <<folder, writable, globals, attach, history, answered>>

\* The place changes: save in the new one, and only then delete the old file.
Moved ==
    /\ WriteFlag("move")
    /\ IF CanWrite(dialog.to)
       THEN /\ Goto("deleteOld")
            /\ UNCHANGED <<fSharedConf, iniFile>>
       ELSE /\ fSharedConf' = dialog.oldConf /\ iniFile' = dialog.oldFile
            /\ dialog' = [dialog EXCEPT !.pc = "save", !.for = "ok"]
    /\ UNCHANGED <<folder, writable, mem, attach, history, answered>>

BadDeleteOld ==
    /\ dialog.pc = "deleteOld"
    /\ dialog' = [dialog EXCEPT !.pc = "save", !.for = "ok"]
    /\ UNCHANGED <<file, folder, writable, globals, attach, history, answered>>
DeleteOld ==
    /\ dialog.pc = "deleteOld"
    /\ MayDelete(dialog.oldFile)
    /\ dialog' = [dialog EXCEPT !.pc = "save", !.for = "ok"]
    /\ excused' = (excused \ {"undeleted"})
                  \cup (IF dialog.to = "shared" /\ file'["personal"] # NoFile
                        THEN {"undeleted"} ELSE {})
    /\ UNCHANGED <<folder, writable, globals, attach, chosen, before, answered>>

\* In any case OK saves (once more) and closes the dialog.
Saved ==
    /\ WriteFlag("ok")
    /\ dialog' = Closed
    /\ UNCHANGED <<folder, writable, globals, attach, history, answered>>

Dialog ==
    \/ Open \/ Cancel \/ DefaultButton
    \/ \E v \in Settings : PressSolidOK(v) \/ \E p \in Place : PressOK(v, p)
    \/ SaveToIni \/ WriteKey \/ SolidSaved \/ Moved \/ DeleteOld \/ Saved

Attach ==
    \/ ThreadAttach \/ SetIniFileName \/ AnswerNo \/ AnswerYes \/ DeleteShared
    \/ LoadDefaults \/ LoadFromIni

\* The process ends, at any moment, and the plug-in is loaded again.
Restart ==
    /\ attach' = "name" /\ dialog' = Closed
    /\ mem' = AllDefault /\ fSharedConf' = FALSE /\ iniFile' = "personal"
    /\ excused' = IF Saving THEN excused \cup {"crash"} ELSE excused
    /\ UNCHANGED <<file, folder, writable, chosen, before, answered>>

Next == Attach \/ Dialog \/ Restart

Spec == Init /\ [][Next]_vars

----------------------------------------------------------------------------
(* Properties *)

\* The types of the variables.
TypeOK ==
    /\ file \in [Place -> File \cup {NoFile}]
    /\ folder \in BOOLEAN /\ writable \in BOOLEAN
    /\ mem \in Settings /\ fSharedConf \in BOOLEAN /\ iniFile \in Place
    /\ attach \in {"idle", "name", "ask", "deleteShared", "defaults", "load"}
    /\ dialog \in [pc : {"closed", "open", "save", "write", "flag", "deleteOld"},
                   for : {"ok", "solid", "move"}, to : Place, key : Key,
                   oldConf : BOOLEAN, oldFile : Place]
    /\ chosen \in [value : Settings, place : Place \cup {"none", "undecided"}]
    /\ before \in Settings /\ answered \in BOOLEAN
    /\ excused \subseteq {"crash", "unwritable", "undeleted", "unsaved", "mismatch", "home"}

\* An OK has been handled; excused are one during which the process died, a
\* place that cannot be written, an old file that cannot be deleted and a solid
\* dialog that has saved nothing.
Settled ==
    /\ ~Saving /\ attach \notin {"ask", "deleteShared"}
    /\ excused \cap {"crash", "unwritable", "undeleted", "unsaved"} = {}
    /\ chosen.place = "shared" => writable

\* Once an OK has been handled, the files say what the user chose: the next start
\* finds these settings at this place, whatever was in both places before and
\* however the place was changed.  Only an empty list of extensions is not kept.
ChoiceSurvives ==
    Settled => /\ \A k \in Key : EffectiveValue[k] = Kept(k, chosen.value[k])
               /\ EffectivePlace = chosen.place

\* The part of it that is about the place: the file is in AppData if the box is
\* checked and next to the plug-in if it is not.
PlaceSurvives == Settled => EffectivePlace = chosen.place

\* The process may die between any two keys of a save or steps of a move: the next
\* start finds for each key the value chosen before or the one chosen now.  It can
\* find a default instead where the file just saved was deleted (mismatch), and
\* where the first personal file was begun; then the shared one still has them all.
CrashKeepsSettings ==
    \A k \in Key :
        \/ EffectiveValue[k] \in {Kept(k, chosen.value[k]), before[k]}
        \/ /\ EffectiveValue[k] = Default
           /\ \/ "mismatch" \in excused
              \/ /\ "home" \in excused
                 /\ file["shared"] # NoFile /\ file["shared"].value = before

\* The question where the file should be does not come back, however often the
\* plug-in is loaded, threads start and places change, once the answer has been
\* carried out and could be written down - unless the process dies in an OK.
AskedOnce == attach = "ask" /\ answered /\ writable => "crash" \in excused
=============================================================================
