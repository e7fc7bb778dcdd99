---------------------------- MODULE SettingsProofs ----------------------------
(***************************************************************************)
(* Proofs about Settings.  The types hold whatever threads do; the other   *)
(* theorems assume ~Reload, that no thread starts while an OK is being     *)
(* handled: without it the run OkReverted shows the choice lost.           *)
(***************************************************************************)
EXTENDS Settings, TLAPS


\* An OK of the main dialog is being handled.
MainSaving == Saving /\ dialog.for # "solid"

\* Nothing but the writes of an OK happens while it is being handled.
SavingAlone == Saving => attach = "idle"

\* What every version leaves behind: the personal file is never marked shared and
\* is in a folder that exists.
PersonalFile ==
    file["personal"] # NoFile => folder /\ ~file["personal"].shared

\* A place g_sIniFileName can name between two OKs: its file is the one the next start
\* will use, but for an old file that could not be deleted and a folder that could
\* not be made.
Usable(p) ==
    IF p = "shared"
    THEN /\ file["shared"] # NoFile
         /\ file["personal"] = NoFile \/ "undeleted" \in excused
    ELSE \/ file["personal"] # NoFile \/ file["shared"] = NoFile
         \/ ~folder /\ "unwritable" \in excused

Marked == file["shared"] # NoFile /\ file["shared"].shared

\* Where a thread that starts is, and what it leaves to the dialog.
Attaching ==
    /\ attach = "ask" => EffectivePlace = "undecided"
    /\ attach = "deleteShared" =>
          /\ file["personal"] # NoFile
          /\ file["shared"] # NoFile => file["shared"].value = file["personal"].value
    /\ attach \in {"defaults", "load", "idle"} /\ ~MainSaving => Usable(iniFile)
    /\ attach \in {"load", "idle"} /\ ~MainSaving /\ fSharedConf => iniFile = "shared" /\ Marked

\* How far SaveToIni has come.
Writing ==
    /\ dialog.pc \in {"write", "flag", "deleteOld"} => dialog.to = iniFile
    /\ CanWrite(iniFile) =>
          \A k \in Key :
              \/ dialog.pc = "write" /\ k < dialog.key
              \/ dialog.pc \in {"flag", "deleteOld"}
              => file[iniFile] # NoFile /\ file[iniFile].value[k] = Kept(k, mem[k])

\* An OK that changes the place: what it takes to go on and to go back.
Moving ==
    /\ dialog.pc = "deleteOld" => CanWrite(iniFile) /\ dialog.for = "move"
    /\ Saving /\ dialog.for = "move" =>
          /\ fSharedConf = (iniFile = "shared")
          /\ dialog.oldConf # fSharedConf
          /\ dialog.oldConf => dialog.oldFile = "shared" /\ Marked
          /\ dialog.oldFile = iniFile => "mismatch" \in excused
          /\ ~CanWrite(iniFile) => "unwritable" \in excused /\ Usable(dialog.oldFile)
          /\ dialog.oldFile = "shared" /\ iniFile = "shared" /\ file["personal"] # NoFile
             => "undeleted" \in excused

\* The last save of an OK: the file that is written can be used when it is complete.
Finishing ==
    Saving /\ dialog.for = "ok" =>
          /\ iniFile = "shared" /\ writable => fSharedConf
          /\ fSharedConf => iniFile = "shared" /\ (Marked \/ writable)
          /\ CanWrite(iniFile) \/ Usable(iniFile)
          /\ iniFile = "shared" /\ file["personal"] # NoFile => "undeleted" \in excused
          /\ ~CanWrite(iniFile) => "unwritable" \in excused

\* The first personal file is begun while the shared one holds what was valid before.
FirstFile ==
    Saving =>
        /\ iniFile = "personal" /\ folder /\ file["personal"] = NoFile /\ file["shared"] # NoFile
           => "home" \in excused /\ file["shared"].value = before
        /\ iniFile = "shared" /\ file["personal"] # NoFile => "home" \notin excused

\* What an OK is about to write is what the user chose.
Excuses == {"crash", "unwritable", "undeleted"}
ChoiceInHand ==
    Saving =>
        /\ mem = chosen.value /\ "unsaved" \notin excused /\ chosen.place # "none"
        /\ "unwritable" \notin excused =>
              CanWrite(iniFile) /\ (dialog.for # "solid" => chosen.place = iniFile)
        /\ dialog.for = "solid" /\ excused \cap Excuses = {}
           /\ (chosen.place = "shared" => writable) =>
              \/ EffectivePlace = chosen.place
              \/ EffectivePlace = "none" /\ chosen.place = iniFile

\* Between two OKs the files say what the user chose; the value even if the place
\* could not be written down.
ChoiceOnDisk ==
    ~Saving /\ excused \cap Excuses = {} =>
          /\ "unsaved" \notin excused =>
                \A k \in Key : EffectiveValue[k] = Kept(k, chosen.value[k])
          /\ (chosen.place = "shared" => writable) => EffectivePlace = chosen.place

\* An answer that has been carried out has settled the place.
AnswerKept ==
    answered /\ writable
    /\ (IF Saving THEN dialog.for = "solid" \/ ~CanWrite(iniFile)
        ELSE attach \in {"name", "ask"} => "crash" \notin excused)
    => EffectivePlace # "undecided"

IInv ==
    /\ TypeOK /\ SavingAlone /\ PersonalFile /\ Attaching /\ Writing /\ Moving /\ Finishing
    /\ FirstFile /\ ChoiceInHand /\ ChoiceOnDisk /\ AnswerKept /\ CrashKeepsSettings

----------------------------------------------------------------------------
(* Types *)

\* EffectivePlace and EffectiveValue, one line for each combination of files.
Rule ==
    /\ file["personal"] # NoFile =>
          EffectivePlace = "personal" /\ EffectiveValue = file["personal"].value
    /\ file["personal"] = NoFile /\ file["shared"] = NoFile =>
          EffectivePlace = "none" /\ EffectiveValue = AllDefault
    /\ file["personal"] = NoFile /\ file["shared"] # NoFile =>
          /\ EffectivePlace = IF file["shared"].shared THEN "shared" ELSE "undecided"
          /\ EffectiveValue = file["shared"].value

\* The rule holds before and after a step.
LEMMA Effective == Rule /\ Rule'
<1>1. Rule
  <2>1. CASE file["personal"] # NoFile
    <3>1. EffectivePlace = "personal"
      BY <2>1 DEF EffectivePlace
    <3> QED  BY <2>1, <3>1 DEF EffectiveValue, Rule
  <2>2. CASE file["personal"] = NoFile /\ file["shared"] = NoFile
    <3>1. EffectivePlace = "none"
      BY <2>2 DEF EffectivePlace
    <3> QED  BY <2>2, <3>1 DEF EffectiveValue, Rule
  <2>3. CASE file["personal"] = NoFile /\ file["shared"] # NoFile
    <3>1. EffectivePlace = IF file["shared"].shared THEN "shared" ELSE "undecided"
      BY <2>3 DEF EffectivePlace
    <3>2. EffectivePlace # "none" /\ EffectivePlace # "personal"
      BY <3>1
    <3>3. EffectiveValue = file["shared"].value
      BY <3>2 DEF EffectiveValue
    <3> QED  BY <2>3, <3>1, <3>3 DEF Rule
  <2> QED  BY <2>1, <2>2, <2>3
<1>2. Rule'
  <2>1. CASE file'["personal"] # NoFile
    <3>1. EffectivePlace' = "personal"
      BY <2>1 DEF EffectivePlace
    <3> QED  BY <2>1, <3>1 DEF EffectiveValue, Rule
  <2>2. CASE file'["personal"] = NoFile /\ file'["shared"] = NoFile
    <3>1. EffectivePlace' = "none"
      BY <2>2 DEF EffectivePlace
    <3> QED  BY <2>2, <3>1 DEF EffectiveValue, Rule
  <2>3. CASE file'["personal"] = NoFile /\ file'["shared"] # NoFile
    <3>1. EffectivePlace' = IF file'["shared"].shared THEN "shared" ELSE "undecided"
      BY <2>3 DEF EffectivePlace
    <3>2. EffectivePlace' # "none" /\ EffectivePlace' # "personal"
      BY <3>1
    <3>3. EffectiveValue' = file'["shared"].value
      BY <3>2 DEF EffectiveValue
    <3> QED  BY <2>3, <3>1, <3>3 DEF Rule
  <2> QED  BY <2>1, <2>2, <2>3
<1> QED  BY <1>1, <1>2

\* They are a place, or that there is none, and settings.
LEMMA EffectiveTypes ==
    ASSUME file \in [Place -> File \cup {NoFile}]
    PROVE  /\ EffectivePlace \in Place \cup {"none", "undecided"}
           /\ EffectiveValue \in Settings
<1>1. /\ file["personal"] = NoFile \/ file["personal"] \in File
      /\ file["shared"] = NoFile \/ file["shared"] \in File
  BY DEF Place
<1>2. EffectivePlace \in Place \cup {"none", "undecided"}
  BY Effective DEF Rule, Place
<1>3. AllDefault \in Settings
  BY SettingsAssumption DEF AllDefault, Settings
<1>4. EffectiveValue \in Settings
  BY <1>1, <1>3, Effective DEF Rule, File
<1> QED  BY <1>2, <1>4

\* Writing or deleting one file leaves two files, or none, in their places.
LEMMA FileUpdate ==
    ASSUME TypeOK, NEW p \in Place, NEW x \in File \cup {NoFile}
    PROVE  /\ [file EXCEPT ![p] = x] \in [Place -> File \cup {NoFile}]
           /\ [file EXCEPT ![p] = x][p] = x
           /\ \A q \in Place : q # p => [file EXCEPT ![p] = x][q] = file[q]
  BY DEF TypeOK

\* What the file holds to which the next key is written.
LEMMA EntryIs ==
    ASSUME TypeOK, NEW p \in Place
    PROVE  /\ Entry(p) \in File
           /\ file[p] # NoFile => Entry(p) = file[p]
           /\ file[p] = NoFile => Entry(p).value = AllDefault /\ Entry(p).shared = FALSE
<1>1. file[p] = NoFile \/ file[p] \in File
  BY DEF TypeOK
<1>2. AllDefault \in Settings
  BY SettingsAssumption DEF AllDefault, Settings
<1>3. [value |-> AllDefault, shared |-> FALSE] \in File
  BY <1>2 DEF File
<1> QED  BY <1>1, <1>3 DEF Entry

\* A file is no missing file.
LEMMA FileIsFile == NoFile \notin File
  BY SettingsAssumption DEF File, Settings

\* What one write of SaveToIni does: this key and no other, in this file and no other.
LEMMA WithKeyIs ==
    ASSUME TypeOK, NEW p \in Place, NEW k \in Key
    PROVE  /\ WithKey(p, k) \in [Place -> File \cup {NoFile}]
           /\ \A q \in Place : q # p => WithKey(p, k)[q] = file[q]
           /\ ~CanWrite(p) => WithKey(p, k) = file
           /\ CanWrite(p) =>
                 /\ WithKey(p, k)[p] # NoFile
                 /\ WithKey(p, k)[p].value[k] = Kept(k, mem[k])
                 /\ \A j \in Key \ {k} : WithKey(p, k)[p].value[j] = Entry(p).value[j]
                 /\ WithKey(p, k)[p].shared = Entry(p).shared
<1>1. CASE ~CanWrite(p)
  BY <1>1 DEF WithKey, TypeOK
<1>2. CASE CanWrite(p)
  <2> DEFINE x == [Entry(p) EXCEPT !.value[k] = Kept(k, mem[k])]
  <2>1. Kept(k, mem[k]) \in Value
    BY SettingsAssumption DEF Kept, TypeOK, Settings
  <2>2. Entry(p) \in [value : [Key -> Value], shared : BOOLEAN]
    BY EntryIs DEF File, Settings
  <2>3. x \in [value : [Key -> Value], shared : BOOLEAN]
    BY <2>1, <2>2
  <2>4. /\ x.value[k] = Kept(k, mem[k])
        /\ \A j \in Key \ {k} : x.value[j] = Entry(p).value[j]
        /\ x.shared = Entry(p).shared
    BY <2>2
  <2>5. x \in File /\ x # NoFile
    BY <2>3, FileIsFile DEF File, Settings
  <2>6. WithKey(p, k) = [file EXCEPT ![p] = x]
    BY <1>2 DEF WithKey
  <2> HIDE DEF x
  <2> QED  BY <1>2, <2>4, <2>5, <2>6, FileUpdate
<1> QED  BY <1>1, <1>2

\* The key shared comes last and changes nothing else.
LEMMA WithFlagIs ==
    ASSUME TypeOK, NEW p \in Place
    PROVE  /\ WithFlag(p) \in [Place -> File \cup {NoFile}]
           /\ \A q \in Place : q # p => WithFlag(p)[q] = file[q]
           /\ ~CanWrite(p) => WithFlag(p) = file
           /\ CanWrite(p) =>
                 /\ WithFlag(p)[p] # NoFile
                 /\ WithFlag(p)[p].value = Entry(p).value
                 /\ WithFlag(p)[p].shared
<1>1. CASE ~CanWrite(p)
  BY <1>1 DEF WithFlag, TypeOK
<1>2. CASE CanWrite(p)
  <2> DEFINE x == [Entry(p) EXCEPT !.shared = TRUE]
  <2>1. Entry(p) \in File
    BY EntryIs
  <2>2. x \in File /\ x.value = Entry(p).value /\ x.shared
    BY <2>1 DEF File
  <2>3. WithFlag(p) = [file EXCEPT ![p] = x]
    BY <1>2 DEF WithFlag
  <2>4. x # NoFile
    BY <2>2, FileIsFile
  <2> HIDE DEF x
  <2> QED  BY <1>2, <2>2, <2>3, <2>4, FileUpdate
<1> QED  BY <1>1, <1>2

\* DeleteFile leaves the other file alone and may leave its own.
LEMMA MayDeleteIs ==
    ASSUME TypeOK, NEW p \in Place, MayDelete(p)
    PROVE  /\ file' \in [Place -> File \cup {NoFile}]
           /\ \A q \in Place : q # p => file'[q] = file[q]
           /\ file'[p] \in {file[p], NoFile}
  BY FileUpdate DEF MayDelete, TypeOK

DialogPC == {"closed", "open", "save", "write", "flag", "deleteOld"}
DialogFor == {"ok", "solid", "move"}
DialogState == [pc : DialogPC, for : DialogFor, to : Place, key : Key,
                oldConf : BOOLEAN, oldFile : Place]
ChosenState == [value : Settings, place : Place \cup {"none", "undecided"}]
Excused == {"crash", "unwritable", "undeleted", "unsaved", "mismatch", "home"}

\* The type invariant with names for the larger sets.
Types ==
    /\ file \in [Place -> File \cup {NoFile}]
    /\ folder \in BOOLEAN /\ writable \in BOOLEAN
    /\ mem \in Settings /\ fSharedConf \in BOOLEAN /\ iniFile \in Place
    /\ attach \in {"idle", "name", "ask", "deleteShared", "defaults", "load"}
    /\ dialog \in DialogState /\ chosen \in ChosenState
    /\ before \in Settings /\ answered \in BOOLEAN /\ excused \subseteq Excused

\* They are the same, before and after a step.
LEMMA TypeParts == (TypeOK <=> Types) /\ (TypeOK' <=> Types')
  BY DEF TypeOK, Types, DialogState, DialogPC, DialogFor, ChosenState, Excused

\* Settings that are reset or changed in the dialog are settings.
LEMMA NewSettings ==
    ASSUME TypeOK
    PROVE  /\ AllDefault \in Settings /\ ResetValue \in Settings
           /\ \A K, v : v \in Settings /\ TakeOver(K, v) => mem' \in Settings
  BY SettingsAssumption DEF TypeOK, Settings, AllDefault, ResetValue, TakeOver

\* What Choose writes down.
LEMMA ChooseIs ==
    ASSUME TypeOK, mem' \in Settings, NEW p \in Place \cup {"none", "undecided"},
           NEW why \in SUBSET Excused, Choose(p, why)
    PROVE  /\ chosen' \in ChosenState /\ before' \in Settings /\ excused' \subseteq Excused
           /\ chosen'.value = mem' /\ chosen'.place = p
           /\ before' = EffectiveValue /\ excused' = why
  BY EffectiveTypes DEF Choose, ChosenState, TypeOK

\* Every step keeps the types.
LEMMA TypeStep == TypeOK /\ [Next]_vars => TypeOK'
<1> SUFFICES ASSUME TypeOK, Types, [Next]_vars PROVE Types'
  BY TypeParts
<1>0. /\ "personal" \in Place /\ "shared" \in Place /\ NumKeys \in Nat /\ 1 \in Key
      /\ dialog.pc \in DialogPC /\ dialog.for \in DialogFor /\ dialog.to \in Place
      /\ dialog.key \in Key /\ dialog.oldConf \in BOOLEAN /\ dialog.oldFile \in Place
  BY SettingsAssumption DEF Place, Key, DialogState, Types
<1>1. Closed \in DialogState
  BY <1>0 DEF Closed, DialogState, DialogPC, DialogFor, Place
<1>2. dialog \in DialogState
  BY DEF Types
<1>3. \A p \in Place : Entry(p) \in File
  BY EntryIs
<1>4. ResetValue \in Settings /\ AllDefault \in Settings
  BY NewSettings
<1> USE DEF globals, history
<1>5. CASE UNCHANGED vars
  BY <1>5 DEF vars, Types
<1>6. CASE ThreadAttach
  BY <1>6 DEF ThreadAttach, Types
<1>7. CASE SetIniFileName
  BY <1>7, <1>0 DEF SetIniFileName, Types
<1>8. CASE AnswerNo
  <2>1. [chosen EXCEPT !.place = "shared"] \in ChosenState
    BY <1>0 DEF Types, ChosenState
  <2>2. file' \in [Place -> File \cup {NoFile}]
    BY <1>8, <1>0, WithFlagIs DEF AnswerNo
  <2> QED  BY <1>8, <1>0, <2>1, <2>2 DEF AnswerNo, Types
<1>9. CASE AnswerYes
  <2>1. [chosen EXCEPT !.place = "personal"] \in ChosenState
    BY <1>0 DEF Types, ChosenState
  <2>2. file' \in [Place -> File \cup {NoFile}]
    <3>1. CASE file' = [file EXCEPT !["personal"] = file["shared"]]
      BY <3>1, <1>0, FileUpdate DEF Types
    <3>2. CASE UNCHANGED file
      BY <3>2 DEF Types
    <3> QED  BY <1>9, <3>1, <3>2 DEF AnswerYes
  <2>3. folder' \in BOOLEAN
    BY <1>9 DEF AnswerYes, MakePersonalIniFolder, Types
  <2>4. chosen' \in ChosenState /\ answered' \in BOOLEAN
    BY <1>9, <2>1 DEF AnswerYes, Types
  <2>5. fSharedConf' \in BOOLEAN /\ iniFile' \in Place
        /\ attach' \in {"idle", "name", "ask", "deleteShared", "defaults", "load"}
    BY <1>9, <1>0 DEF AnswerYes, Types
  <2> QED  BY <1>9, <2>2, <2>3, <2>4, <2>5 DEF AnswerYes, Types
<1>10. CASE DeleteShared
  <2>1. file' \in [Place -> File \cup {NoFile}]
    BY <1>10, <1>0, MayDeleteIs DEF DeleteShared
  <2> QED  BY <1>10, <1>0, <2>1 DEF DeleteShared, Types
<1>11. CASE LoadDefaults
  BY <1>11, <1>4 DEF LoadDefaults, Types
<1>12. CASE LoadFromIni
  <2>1. Entry(iniFile).value \in Settings /\ Entry(iniFile).shared \in BOOLEAN
    BY <1>3 DEF File, Types
  <2> QED  BY <1>12, <2>1 DEF LoadFromIni, Types
<1>13. CASE Open
  <2>1. dialog' \in DialogState
    BY <1>13, <1>2 DEF Open, Goto, DialogState, DialogPC, DialogFor
  <2> QED  BY <1>13, <2>1 DEF Open, Types
<1>14. CASE Cancel
  <2>1. dialog' \in DialogState
    BY <1>14, <1>2 DEF Cancel, Goto, DialogState, DialogPC, DialogFor
  <2> QED  BY <1>14, <2>1 DEF Cancel, Types
<1>15. CASE DefaultButton
  BY <1>15, <1>4 DEF DefaultButton, Types
<1>16. ASSUME NEW v \in Settings, PressSolidOK(v) PROVE Types'
  <2>1. mem' \in Settings
    BY <1>16, NewSettings DEF PressSolidOK
  <2>2. chosen.place \in Place \cup {"none", "undecided"} /\ iniFile \in Place
    BY DEF Types, ChosenState
  <2>3. PICK p \in Place \cup {"none", "undecided"}, why \in SUBSET Excused : Choose(p, why)
    <3>1. \A s \in SUBSET Excused : \A x \in Excused :
             (excused \ {"home", "mismatch", "unsaved"}) \cup {x} \in SUBSET Excused
      BY DEF Types
    <3>2. (excused \ {"home", "mismatch", "unsaved"}) \cup {} \in SUBSET Excused
      BY DEF Types
    <3>3. "unsaved" \in Excused /\ "unwritable" \in Excused
      BY DEF Excused
    <3> QED  BY <1>16, <2>2, <3>1, <3>2, <3>3 DEF PressSolidOK
  <2>4. chosen' \in ChosenState /\ before' \in Settings /\ excused' \subseteq Excused
    BY <2>1, <2>3, ChooseIs
  <2>5. dialog' \in DialogState
    BY <1>16, <1>2 DEF PressSolidOK, DialogState, DialogPC, DialogFor
  <2> QED  BY <1>16, <2>1, <2>4, <2>5 DEF PressSolidOK, Types
<1>17. ASSUME NEW v \in Settings, NEW p \in Place, PressOK(v, p) PROVE Types'
  <2>1. mem' \in Settings
    BY <1>17, NewSettings DEF PressOK
  <2>2. PICK why \in SUBSET Excused : Choose(p, why)
    <3>1. \A a, b, c \in BOOLEAN :
             (IF a THEN {} ELSE {"unwritable"}) \cup (IF b THEN {"home"} ELSE {})
             \cup (IF c THEN {"mismatch"} ELSE {})
             \cup (IF p = "shared" THEN excused \cap {"undeleted"} ELSE {}) \in SUBSET Excused
      BY DEF Types, Excused
    <3>2. CanWrite(p)' \in BOOLEAN /\ FirstPersonal(p) \in BOOLEAN
          /\ (Mismatch /\ p = "shared") \in BOOLEAN
      BY <1>17 DEF CanWrite, FirstPersonal, PressOK, MakePersonalIniFolder, Types
    <3> QED  BY <1>17, <3>1, <3>2 DEF PressOK
  <2>3. chosen' \in ChosenState /\ before' \in Settings /\ excused' \subseteq Excused
    BY <2>1, <2>2, ChooseIs
  <2>4. dialog' \in DialogState
    <3>1. fSharedConf \in BOOLEAN /\ iniFile \in Place
      BY DEF Types
    <3> QED  BY <1>17, <1>2, <3>1 DEF PressOK, DialogState, DialogPC, DialogFor
  <2>5. fSharedConf' \in BOOLEAN /\ iniFile' \in Place /\ folder' \in BOOLEAN
    BY <1>17 DEF PressOK, MakePersonalIniFolder, Types
  <2> QED  BY <1>17, <2>1, <2>3, <2>4, <2>5 DEF PressOK, Types
<1>18. CASE SaveToIni
  <2>1. dialog' \in DialogState
    <3>1. iniFile \in Place
      BY DEF Types
    <3> QED  BY <1>18, <1>0, <1>2, <3>1 DEF SaveToIni, DialogState, DialogPC, DialogFor
  <2> QED  BY <1>18, <2>1 DEF SaveToIni, Types
<1>19. CASE WriteKey
  <2>1. dialog' \in DialogState
    <3>1. CASE dialog.key = NumKeys
      BY <1>19, <1>2, <3>1 DEF WriteKey, DialogState, DialogPC, DialogFor
    <3>2. CASE dialog.key # NumKeys
      <4>1. dialog.key + 1 \in Key
        BY <1>0, <3>2 DEF Key
      <4> QED  BY <1>19, <1>2, <3>2, <4>1 DEF WriteKey, DialogState, DialogPC, DialogFor
    <3> QED  BY <3>1, <3>2
  <2>2. file' \in [Place -> File \cup {NoFile}]
    BY <1>19, <1>0, WithKeyIs DEF WriteKey
  <2> QED  BY <1>19, <2>1, <2>2 DEF WriteKey, Types
<1>20. ASSUME NEW for, WriteFlag(for) PROVE file' \in [Place -> File \cup {NoFile}]
  BY <1>20, <1>0, WithFlagIs DEF WriteFlag, Types
<1>21. CASE SolidSaved
  <2>1. dialog' \in DialogState
    BY <1>21, <1>2 DEF SolidSaved, Goto, DialogState, DialogPC, DialogFor
  <2> QED  BY <1>21, <1>20, <2>1 DEF SolidSaved, Types
<1>22. CASE Moved
  <2>1. dialog' \in DialogState
    BY <1>22, <1>2 DEF Moved, Goto, DialogState, DialogPC, DialogFor
  <2>2. file' \in [Place -> File \cup {NoFile}]
    BY <1>22, <1>20 DEF Moved
  <2> QED  BY <1>22, <1>0, <2>1, <2>2 DEF Moved, Types
<1>23. CASE DeleteOld
  <2>1. dialog' \in DialogState
    BY <1>23, <1>2 DEF DeleteOld, DialogState, DialogPC, DialogFor
  <2>2. file' \in [Place -> File \cup {NoFile}]
    BY <1>23, <1>0, MayDeleteIs DEF DeleteOld
  <2>3. excused' \subseteq Excused
    BY <1>23 DEF DeleteOld, Types, Excused
  <2> QED  BY <1>23, <2>1, <2>2, <2>3 DEF DeleteOld, Types
<1>24. CASE Saved
  BY <1>24, <1>1, <1>20 DEF Saved, Types
<1>25. CASE Restart
  <2>1. excused' \subseteq Excused
    BY <1>25 DEF Restart, Types, Excused
  <2> QED  BY <1>25, <1>0, <1>1, <1>4, <2>1 DEF Restart, Types
<1>26. Dialog => Types'
  BY <1>13, <1>14, <1>15, <1>16, <1>17, <1>18, <1>19, <1>21, <1>22, <1>23, <1>24 DEF Dialog
<1>27. Attach => Types'
  BY <1>6, <1>7, <1>8, <1>9, <1>10, <1>11, <1>12 DEF Attach
<1> QED  BY <1>5, <1>25, <1>26, <1>27 DEF Next

\* The settings the process starts with have their types.
LEMMA TypeInit == Init => TypeOK
<1> SUFFICES ASSUME Init PROVE Types
  BY TypeParts
<1>1. file \in [Place -> File \cup {NoFile}]
  BY DEF Init
<1>2. EffectivePlace \in Place \cup {"none", "undecided"} /\ EffectiveValue \in Settings
  BY <1>1, EffectiveTypes
<1>3. dialog \in DialogState
  BY SettingsAssumption DEF Init, Closed, Place, Key, DialogState, DialogPC, DialogFor
<1>4. chosen \in ChosenState
  BY <1>2 DEF Init, ChosenState
<1>5. mem \in Settings
  BY SettingsAssumption DEF Init, AllDefault, Settings
<1> QED  BY <1>1, <1>2, <1>3, <1>4, <1>5 DEF Init, Types, Place

\* The settings, the files and the dialog have their types in every reachable state,
\* whatever threads do (SetIniFileName, LoadFromIni, SaveToIni, ConfigDlgProc).
THEOREM TypeCorrect == Spec => []TypeOK
<1>1. Init => TypeOK
  BY TypeInit
<1>2. TypeOK /\ [Next]_vars => TypeOK'
  BY TypeStep
<1> QED  BY <1>1, <1>2, PTL DEF Spec

----------------------------------------------------------------------------
(* The inductive invariant: the steps that save nothing *)

\* What a state in which IInv holds says in detail, in the form the steps need it.
LEMMA IInvFacts ==
    ASSUME IInv
    PROVE  /\ TypeOK
           /\ file["personal"] \in File \cup {NoFile} /\ file["shared"] \in File \cup {NoFile}
           /\ dialog \in DialogState /\ iniFile \in Place /\ chosen \in ChosenState
           /\ fSharedConf \in BOOLEAN /\ folder \in BOOLEAN /\ writable \in BOOLEAN
           /\ "personal" \in Place /\ "shared" \in Place
           /\ EffectivePlace \in Place \cup {"none", "undecided"}
<1>1. TypeOK
  BY DEF IInv
<1>2. Types
  BY <1>1, TypeParts
<1> QED  BY <1>1, <1>2, EffectiveTypes DEF Types, Place

\* Files that do not change are effective as before.
LEMMA EffectiveFrame ==
    ASSUME file' = file
    PROVE  EffectivePlace' = EffectivePlace /\ EffectiveValue' = EffectiveValue
  BY DEF EffectivePlace, EffectiveValue

\* Outside an OK most of the invariant asks nothing.
LEMMA NotSaving ==
    ASSUME ~Saving'
    PROVE  SavingAlone' /\ Writing' /\ Moving' /\ Finishing' /\ FirstFile' /\ ChoiceInHand'
           /\ ~MainSaving'
  BY DEF Saving, SavingAlone, Writing, Moving, Finishing, FirstFile, ChoiceInHand, MainSaving

\* A step outside an OK that leaves the files and what the user chose alone.
LEMMA QuietFacts ==
    ASSUME IInv, ~Saving, ~Saving', UNCHANGED <<file, folder, writable, chosen, before, excused>>
    PROVE  /\ SavingAlone' /\ Writing' /\ Moving' /\ Finishing' /\ FirstFile' /\ ChoiceInHand'
           /\ PersonalFile' /\ ChoiceOnDisk' /\ CrashKeepsSettings'
           /\ ~MainSaving /\ ~MainSaving'
           /\ EffectivePlace' = EffectivePlace /\ EffectiveValue' = EffectiveValue
           /\ Marked' = Marked
           /\ \A p \in Place : Usable(p)' = Usable(p)
<1>1. EffectivePlace' = EffectivePlace /\ EffectiveValue' = EffectiveValue
  BY EffectiveFrame
<1>2. PersonalFile'
  BY DEF IInv, PersonalFile
<1>3. ChoiceOnDisk' /\ CrashKeepsSettings'
  BY <1>1 DEF IInv, ChoiceOnDisk, CrashKeepsSettings
<1>4. Marked' = Marked /\ \A p \in Place : Usable(p)' = Usable(p)
  BY DEF Marked, Usable
<1>5. ~MainSaving /\ ~MainSaving'
  BY DEF MainSaving
<1> QED  BY <1>1, <1>2, <1>3, <1>4, <1>5, NotSaving

\* A thread starts: nothing but its place changes.
LEMMA ThreadAttachStep ==
    ASSUME IInv, ~Reload, ThreadAttach
    PROVE  IInv'
<1>1. TypeOK'
  BY TypeStep DEF IInv, Next, Attach
<1>2. ~Saving /\ ~Saving' /\ attach = "idle" /\ attach' = "name"
  BY DEF ThreadAttach, Saving
<1>3. UNCHANGED <<file, folder, writable, mem, fSharedConf, iniFile, chosen, before, excused,
                  answered>>
  BY DEF ThreadAttach, globals, history
<1>4. Attaching'
  BY <1>2 DEF Attaching
<1>5. AnswerKept'
  BY <1>2, <1>3, EffectiveFrame DEF AnswerKept, IInv
<1> QED  BY <1>1, <1>2, <1>3, <1>4, <1>5, QuietFacts DEF IInv

\* The file is named as the next start would name it.
LEMMA SetIniFileNameStep ==
    ASSUME IInv, ~Reload, SetIniFileName
    PROVE  IInv'
<1>1. TypeOK'
  BY TypeStep DEF IInv, Next, Attach
<1>2. ~Saving /\ ~Saving' /\ attach = "name"
  BY DEF SetIniFileName, Saving, IInv, SavingAlone
<1>3. UNCHANGED <<file, folder, writable, chosen, before, excused, answered>>
  BY DEF SetIniFileName, history
<1>4. EffectivePlace' = EffectivePlace
  BY <1>3, EffectiveFrame
<1>5. /\ \/ /\ EffectivePlace \in {"personal", "none"}
            /\ iniFile' = "personal" /\ fSharedConf' = FALSE /\ attach' = "defaults"
         \/ /\ EffectivePlace = "shared"
            /\ iniFile' = "shared" /\ fSharedConf' = TRUE /\ attach' = "defaults"
         \/ EffectivePlace = "undecided" /\ attach' = "ask"
  <2>1. CASE EffectivePlace \in {"personal", "none"}
    BY <2>1 DEF SetIniFileName
  <2>2. CASE EffectivePlace = "shared"
    BY <2>2 DEF SetIniFileName
  <2>3. CASE EffectivePlace = "undecided"
    BY <2>3 DEF SetIniFileName
  <2> QED  BY <2>1, <2>2, <2>3, IInvFacts DEF Place
<1>6. attach' = "defaults" => Usable(iniFile)'
  BY <1>3, <1>5, Effective DEF Usable, Rule
<1>7. Attaching'
  BY <1>4, <1>5, <1>6 DEF Attaching
<1>8. AnswerKept'
  BY <1>2, <1>3, <1>4, <1>5 DEF AnswerKept, IInv
<1> QED  BY <1>1, <1>2, <1>3, <1>7, <1>8, QuietFacts DEF IInv

\* The defaults are no choice of a place.
LEMMA LoadDefaultsStep ==
    ASSUME IInv, ~Reload, LoadDefaults
    PROVE  IInv'
<1>1. TypeOK'
  BY TypeStep DEF IInv, Next, Attach
<1>2. ~Saving /\ ~Saving' /\ attach = "defaults" /\ attach' = "load" /\ fSharedConf' = FALSE
  BY DEF LoadDefaults, Saving, IInv, SavingAlone
<1>3. UNCHANGED <<file, folder, writable, iniFile, chosen, before, excused, answered>>
  BY DEF LoadDefaults, history
<1>4. Attaching'
  BY <1>2, <1>3, QuietFacts, IInvFacts DEF Attaching, IInv
<1>5. AnswerKept'
  BY <1>2, <1>3, EffectiveFrame DEF AnswerKept, IInv
<1> QED  BY <1>1, <1>2, <1>3, <1>4, <1>5, QuietFacts DEF IInv

\* A file that is loaded marks the place shared only if it is the shared one.
LEMMA LoadFromIniStep ==
    ASSUME IInv, ~Reload, LoadFromIni
    PROVE  IInv'
<1>1. TypeOK'
  BY TypeStep DEF IInv, Next, Attach
<1>2. ~Saving /\ ~Saving' /\ attach = "load" /\ attach' = "idle"
  BY DEF LoadFromIni, Saving, IInv, SavingAlone
<1>3. UNCHANGED <<file, folder, writable, iniFile, chosen, before, excused, answered>>
  BY DEF LoadFromIni, history
<1>4. Entry(iniFile).shared => iniFile = "shared" /\ Marked
  <2>1. CASE file[iniFile] = NoFile
    BY <2>1 DEF Entry
  <2>2. CASE file[iniFile] # NoFile /\ iniFile = "personal"
    BY <2>2 DEF Entry, IInv, PersonalFile
  <2>3. CASE file[iniFile] # NoFile /\ iniFile = "shared"
    BY <2>3 DEF Entry, Marked
  <2> QED  BY <2>1, <2>2, <2>3, IInvFacts DEF Place
<1>5. fSharedConf' => iniFile = "shared" /\ Marked
  BY <1>2, <1>4 DEF LoadFromIni, IInv, Attaching, MainSaving
<1>6. Attaching'
  BY <1>2, <1>3, <1>5, QuietFacts, IInvFacts DEF Attaching, IInv
<1>7. AnswerKept'
  BY <1>2, <1>3, EffectiveFrame DEF AnswerKept, IInv
<1> QED  BY <1>1, <1>2, <1>3, <1>6, <1>7, QuietFacts DEF IInv

\* Opening and leaving the dialog changes nothing else.
LEMMA OpenCancelStep ==
    ASSUME IInv, ~Reload, Open \/ Cancel
    PROVE  IInv'
<1>1. TypeOK'
  BY TypeStep DEF IInv, Next, Dialog
<1>2. ~Saving /\ ~Saving'
  BY IInvFacts DEF Open, Cancel, Goto, Saving, DialogState
<1>3. UNCHANGED <<file, folder, writable, mem, fSharedConf, iniFile, attach, chosen, before,
                  excused, answered>>
  BY DEF Open, Cancel, globals, history
<1>4. Attaching'
  BY <1>2, <1>3, QuietFacts, IInvFacts DEF Attaching, IInv
<1>5. AnswerKept'
  BY <1>2, <1>3, EffectiveFrame DEF AnswerKept, IInv
<1> QED  BY <1>1, <1>2, <1>3, <1>4, <1>5, QuietFacts DEF IInv

\* The button Default leaves the files alone.
LEMMA DefaultButtonStep ==
    ASSUME IInv, ~Reload, DefaultButton
    PROVE  IInv'
<1>1. TypeOK'
  BY TypeStep DEF IInv, Next, Dialog
<1>2. ~Saving /\ ~Saving' /\ fSharedConf' = FALSE
  BY DEF DefaultButton, Saving
<1>3. UNCHANGED <<file, folder, writable, iniFile, attach, chosen, before, excused, answered>>
  BY DEF DefaultButton, history
<1>4. Attaching'
  BY <1>2, <1>3, QuietFacts, IInvFacts DEF Attaching, IInv
<1>5. AnswerKept'
  BY <1>2, <1>3, EffectiveFrame DEF AnswerKept, IInv
<1> QED  BY <1>1, <1>2, <1>3, <1>4, <1>5, QuietFacts DEF IInv

\* A process that ends during an OK excuses it.
LEMMA RestartStep ==
    ASSUME IInv, ~Reload, Restart
    PROVE  IInv'
<1>1. TypeOK'
  BY TypeStep DEF IInv, Next
<1>2. ~Saving' /\ attach' = "name"
  BY DEF Restart, Saving, Closed
<1>3. UNCHANGED <<file, folder, writable, chosen, before, answered>>
  BY DEF Restart
<1>4. EffectivePlace' = EffectivePlace /\ EffectiveValue' = EffectiveValue
  BY <1>3, EffectiveFrame
<1>5. excused' = excused \/ (Saving /\ excused' = excused \cup {"crash"})
  BY DEF Restart
<1>6. PersonalFile' /\ Attaching'
  BY <1>2, <1>3 DEF PersonalFile, Attaching, IInv
<1>7. ChoiceOnDisk'
  <2>1. CASE Saving
    BY <2>1 DEF Restart, ChoiceOnDisk, Excuses
  <2>2. CASE ~Saving
    BY <1>3, <1>4, <2>2 DEF Restart, ChoiceOnDisk, IInv
  <2> QED  BY <2>1, <2>2
<1>8. CrashKeepsSettings'
  BY <1>3, <1>4, <1>5 DEF CrashKeepsSettings, IInv
<1>9. AnswerKept'
  <2>1. CASE Saving
    BY <1>2, <2>1 DEF Restart, AnswerKept
  <2>2. CASE ~Saving
    BY <1>2, <1>3, <1>4, <2>2 DEF Restart, AnswerKept, IInv
  <2> QED  BY <2>1, <2>2
<1> QED  BY <1>1, <1>2, <1>6, <1>7, <1>8, <1>9, NotSaving DEF IInv

\* The file stays next to the plug-in and is marked, if it can be.
LEMMA AnswerNoStep ==
    ASSUME IInv, ~Reload, AnswerNo
    PROVE  IInv'
<1>1. TypeOK'
  BY TypeStep DEF IInv, Next, Attach
<1>2. ~Saving /\ ~Saving' /\ attach = "ask" /\ attach' = "defaults" /\ iniFile' = "shared"
  BY DEF AnswerNo, Saving, IInv, SavingAlone
<1>3. file["personal"] = NoFile /\ file["shared"] # NoFile
  BY <1>2, Effective DEF Attaching, Rule, IInv
<1>4. /\ file'["personal"] = NoFile /\ file'["shared"] # NoFile
      /\ file'["shared"].value = file["shared"].value
      /\ writable => file'["shared"].shared
  BY <1>3, IInvFacts, WithFlagIs, EntryIs DEF AnswerNo, CanWrite
<1>5. /\ EffectiveValue' = EffectiveValue
      /\ writable => EffectivePlace' = "shared"
  BY <1>3, <1>4, Effective DEF Rule
<1>6. /\ chosen'.place = "shared" /\ chosen'.value = chosen.value
      /\ UNCHANGED <<folder, writable, before, excused>>
  BY IInvFacts DEF AnswerNo, ChosenState
<1>7. PersonalFile' /\ Attaching'
  BY <1>2, <1>4 DEF PersonalFile, Attaching, Usable
<1>8. ChoiceOnDisk'
  BY <1>2, <1>5, <1>6 DEF ChoiceOnDisk, IInv
<1>9. CrashKeepsSettings'
  BY <1>3, <1>4, <1>5, <1>6 DEF CrashKeepsSettings, IInv
<1>10. AnswerKept'
  BY <1>5, <1>6 DEF AnswerKept
<1> QED  BY <1>1, <1>2, <1>7, <1>8, <1>9, <1>10, NotSaving DEF IInv

\* The file is copied to AppData, or stays where it is and the question comes back.
LEMMA AnswerYesStep ==
    ASSUME IInv, ~Reload, AnswerYes
    PROVE  IInv'
<1>1. TypeOK'
  BY TypeStep DEF IInv, Next, Attach
<1>2. ~Saving /\ ~Saving' /\ attach = "ask"
  BY DEF AnswerYes, Saving, IInv, SavingAlone
<1>3. /\ file["personal"] = NoFile /\ file["shared"] # NoFile /\ ~file["shared"].shared
      /\ UNCHANGED <<writable, before, excused>>
  BY <1>2, Effective DEF Attaching, Rule, IInv, AnswerYes
<1>4. CASE file' = [file EXCEPT !["personal"] = file["shared"]] /\ folder'
           /\ attach' = "deleteShared" /\ chosen' = [chosen EXCEPT !.place = "personal"]
  <2>1. file'["personal"] = file["shared"] /\ file'["shared"] = file["shared"]
    BY <1>4, IInvFacts DEF TypeOK
  <2>2. EffectiveValue' = EffectiveValue /\ EffectivePlace' = "personal"
    BY <1>3, <2>1, Effective DEF Rule
  <2>3. chosen'.place = "personal" /\ chosen'.value = chosen.value
    BY <1>4, IInvFacts DEF ChosenState
  <2>4. PersonalFile' /\ Attaching'
    BY <1>3, <1>4, <2>1 DEF PersonalFile, Attaching
  <2>5. ChoiceOnDisk'
    BY <1>2, <1>3, <2>2, <2>3 DEF ChoiceOnDisk, IInv
  <2>6. CrashKeepsSettings' /\ AnswerKept'
    BY <1>3, <2>1, <2>2, <2>3 DEF CrashKeepsSettings, AnswerKept, IInv
  <2> QED  BY <1>1, <1>2, <2>4, <2>5, <2>6, NotSaving DEF IInv
<1>5. CASE file' = file /\ attach' = "defaults" /\ iniFile' = "shared" /\ answered' = FALSE
           /\ chosen' = chosen
  <2>1. PersonalFile'
    BY <1>3, <1>5 DEF PersonalFile
  <2>2. Attaching'
    BY <1>3, <1>5 DEF Attaching, Usable
  <2>3. ChoiceOnDisk' /\ CrashKeepsSettings' /\ AnswerKept'
    BY <1>2, <1>3, <1>5, EffectiveFrame DEF ChoiceOnDisk, CrashKeepsSettings, AnswerKept, IInv
  <2> QED  BY <1>1, <1>2, <2>1, <2>2, <2>3, NotSaving DEF IInv
<1> QED  BY <1>4, <1>5 DEF AnswerYes

\* Only then is the shared file deleted, or it stays with the same settings.
LEMMA DeleteSharedStep ==
    ASSUME IInv, ~Reload, DeleteShared
    PROVE  IInv'
<1>1. TypeOK'
  BY TypeStep DEF IInv, Next, Attach
<1>2. /\ ~Saving /\ ~Saving' /\ attach = "deleteShared" /\ attach' = "defaults"
      /\ iniFile' = "personal"
  BY DEF DeleteShared, Saving, IInv, SavingAlone
<1>3. UNCHANGED <<folder, writable, chosen, before, excused, answered>>
  BY DEF DeleteShared, history
<1>4. /\ file["personal"] # NoFile
      /\ file["shared"] # NoFile => file["shared"].value = file["personal"].value
  BY <1>2 DEF Attaching, IInv
<1>5. file'["personal"] = file["personal"] /\ file'["shared"] \in {file["shared"], NoFile}
  BY IInvFacts, MayDeleteIs DEF DeleteShared
<1>6. /\ EffectiveValue' = EffectiveValue /\ EffectivePlace' = EffectivePlace
      /\ EffectivePlace = "personal" /\ EffectiveValue = file["personal"].value
  BY <1>4, <1>5, Effective DEF Rule
<1>7. PersonalFile' /\ Attaching'
  BY <1>2, <1>3, <1>4, <1>5 DEF PersonalFile, Attaching, Usable, IInv
<1>8. ChoiceOnDisk' /\ AnswerKept'
  BY <1>2, <1>3, <1>6 DEF ChoiceOnDisk, AnswerKept, IInv
<1>9. CrashKeepsSettings'
  BY <1>3, <1>4, <1>5, <1>6 DEF CrashKeepsSettings, IInv
<1> QED  BY <1>1, <1>2, <1>7, <1>8, <1>9, NotSaving DEF IInv

\* OK of the dialog for solid archives: nothing is written yet.
LEMMA PressSolidOKStep ==
    ASSUME IInv, ~Reload, NEW v \in Settings, PressSolidOK(v)
    PROVE  IInv'
<1>1. TypeOK'
  BY TypeStep DEF IInv, Next, Dialog
<1>2. ~Saving /\ attach = "idle" /\ attach' = "idle" /\ dialog.pc = "open" /\ ~MainSaving
  BY DEF PressSolidOK, Saving, MainSaving
<1>3. /\ UNCHANGED <<file, folder, writable, fSharedConf, iniFile, answered>>
      /\ EffectivePlace' = EffectivePlace /\ EffectiveValue' = EffectiveValue
  BY EffectiveFrame DEF PressSolidOK
<1>4. Usable(iniFile) /\ (fSharedConf => iniFile = "shared" /\ Marked)
  BY <1>2 DEF Attaching, IInv
<1>5. PersonalFile' /\ before' = EffectiveValue /\ CrashKeepsSettings'
  BY <1>3 DEF PersonalFile, IInv, PressSolidOK, Choose, CrashKeepsSettings
<1>6. /\ \A x \in {"crash", "undeleted"} : x \in excused' <=> x \in excused
      /\ "unwritable" \in excused => "unwritable" \in excused'
      /\ "home" \notin excused'
  BY DEF PressSolidOK, Choose
<1>7. Usable(iniFile)' /\ Marked' = Marked
  BY <1>3, <1>4, <1>6 DEF Usable, Marked
<1>8. CASE mem' = mem
  <2>1. /\ dialog' = dialog /\ chosen'.value = mem /\ chosen'.place = chosen.place
        /\ excused' = (excused \ {"home", "mismatch", "unsaved"})
                      \cup (IF \A k \in Key : EffectiveValue[k] = Kept(k, mem[k])
                            THEN {} ELSE {"unsaved"})
    BY <1>8 DEF PressSolidOK, Choose
  <2>2. ~Saving' /\ ~MainSaving'
    BY <1>2, <2>1 DEF Saving, MainSaving
  <2>3. Attaching'
    BY <1>2, <1>3, <1>4, <1>7 DEF Attaching
  <2>4. ChoiceOnDisk'
    <3>1. SUFFICES ASSUME excused' \cap Excuses = {}
                   PROVE  /\ "unsaved" \notin excused' =>
                                \A k \in Key : EffectiveValue[k] = Kept(k, mem[k])
                          /\ (chosen.place = "shared" => writable) =>
                                EffectivePlace = chosen.place
      BY <1>3, <2>1 DEF ChoiceOnDisk
    <3>2. "unsaved" \notin excused' => \A k \in Key : EffectiveValue[k] = Kept(k, mem[k])
      BY <2>1
    <3>3. excused \cap Excuses = {}
      BY <1>6, <3>1 DEF Excuses
    <3> QED  BY <1>2, <3>2, <3>3 DEF ChoiceOnDisk, IInv
  <2>5. AnswerKept'
    BY <1>2, <1>3, <2>2 DEF AnswerKept, IInv
  <2> QED  BY <1>1, <1>5, <2>2, <2>3, <2>4, <2>5, NotSaving DEF IInv
<1>9. CASE mem' # mem
  <2>1. /\ dialog' = [dialog EXCEPT !.pc = "save", !.for = "solid"]
        /\ chosen'.value = mem'
        /\ chosen'.place = (IF chosen.place = "none" THEN iniFile ELSE chosen.place)
        /\ "unsaved" \notin excused'
        /\ ~CanWrite(iniFile) => "unwritable" \in excused'
    BY <1>9 DEF PressSolidOK, Choose
  <2>2. dialog'.pc = "save" /\ dialog'.for = "solid"
    BY <2>1, IInvFacts DEF DialogState
  <2>3. Saving' /\ ~MainSaving'
    BY <2>2 DEF Saving, MainSaving
  <2>4. Attaching' /\ SavingAlone'
    BY <1>2, <1>3, <1>4, <1>7 DEF Attaching, SavingAlone
  <2>5. Writing' /\ Moving' /\ Finishing'
    BY <2>2 DEF Writing, Moving, Finishing
  <2>6. FirstFile'
    <3>1. ~(iniFile = "personal" /\ folder /\ file["personal"] = NoFile /\ file["shared"] # NoFile)
      BY <1>4 DEF Usable
    <3> QED  BY <1>3, <1>6, <3>1 DEF FirstFile
  <2>7. ChoiceInHand'
    <3>1. "unwritable" \notin excused' => CanWrite(iniFile)'
      BY <1>3, <2>1 DEF CanWrite
    <3>2. chosen'.place # "none"
      BY <2>1, IInvFacts DEF Place
    <3>3. ASSUME excused' \cap Excuses = {}, chosen'.place = "shared" => writable
          PROVE  \/ EffectivePlace = chosen'.place
                 \/ EffectivePlace = "none" /\ chosen'.place = iniFile
      <4>1. excused \cap Excuses = {}
        BY <1>6, <3>3 DEF Excuses
      <4>2. chosen.place = "shared" => writable
        BY <2>1, <3>3
      <4>3. EffectivePlace = chosen.place
        BY <1>2, <4>1, <4>2 DEF ChoiceOnDisk, IInv
      <4> QED  BY <2>1, <4>3
    <3> QED  BY <1>3, <2>1, <2>2, <3>1, <3>2, <3>3 DEF ChoiceInHand
  <2>8. ChoiceOnDisk'
    BY <2>3 DEF ChoiceOnDisk
  <2>9. AnswerKept'
    BY <1>2, <1>3 DEF AnswerKept, IInv
  <2> QED  BY <1>1, <1>5, <2>4, <2>5, <2>6, <2>7, <2>8, <2>9 DEF IInv
<1> QED  BY <1>8, <1>9

\* OK of the main dialog: the old file is known, or the new place is the old one.
LEMMA PressOKStep ==
    ASSUME IInv, ~Reload, NEW v \in Settings, NEW p \in Place, PressOK(v, p)
    PROVE  IInv'
<1>1. TypeOK'
  BY TypeStep DEF IInv, Next, Dialog
<1>2. /\ ~Saving /\ attach = "idle" /\ attach' = "idle" /\ dialog.pc = "open"
      /\ ~MainSaving
  BY DEF PressOK, Saving, MainSaving
<1>3. /\ UNCHANGED <<file, writable, answered>>
      /\ EffectivePlace' = EffectivePlace /\ EffectiveValue' = EffectiveValue
  BY EffectiveFrame DEF PressOK
<1>4. Usable(iniFile) /\ (fSharedConf => iniFile = "shared" /\ Marked)
  BY <1>2 DEF Attaching, IInv
<1>5. /\ fSharedConf' = (p = "shared") /\ iniFile' = p
      /\ p = "shared" => folder' = folder
      /\ folder => folder'
      /\ dialog'.pc = "save" /\ dialog'.oldConf = fSharedConf /\ dialog'.oldFile = iniFile
      /\ dialog'.for = IF fSharedConf # (p = "shared") THEN "move" ELSE "ok"
  BY IInvFacts DEF PressOK, MakePersonalIniFolder, DialogState
<1>6. /\ chosen'.value = mem' /\ chosen'.place = p /\ before' = EffectiveValue
      /\ "unsaved" \notin excused'
      /\ CanWrite(p)' \/ "unwritable" \in excused'
      /\ FirstPersonal(p) => "home" \in excused'
      /\ p = "shared" => "home" \notin excused'
      /\ Mismatch /\ p = "shared" => "mismatch" \in excused'
      /\ p = "shared" /\ "undeleted" \in excused => "undeleted" \in excused'
  BY DEF PressOK, Choose, FirstPersonal
<1>7. p = "personal" \/ p = "shared"
  BY DEF Place
<1>8. Saving' /\ MainSaving'
  BY <1>5 DEF Saving, MainSaving
<1>9. PersonalFile' /\ CrashKeepsSettings'
  BY <1>3, <1>5, <1>6 DEF PersonalFile, CrashKeepsSettings, IInv
<1>10. SavingAlone' /\ Attaching' /\ Writing' /\ ChoiceOnDisk'
  BY <1>2, <1>5, <1>8 DEF SavingAlone, Attaching, Writing, ChoiceOnDisk
<1>11. CanWrite(p)' = (IF p = "personal" THEN folder' ELSE writable)
  BY <1>3 DEF CanWrite
<1>12. p = "shared" /\ iniFile = "shared" /\ file["personal"] # NoFile
       => "undeleted" \in excused'
  BY <1>4, <1>6 DEF Usable
<1>13. ~CanWrite(p)' =>
          IF iniFile = "shared"
          THEN file["shared"] # NoFile /\ (file["personal"] = NoFile \/ "undeleted" \in excused')
          ELSE file["personal"] # NoFile \/ file["shared"] = NoFile
               \/ (~folder' /\ "unwritable" \in excused')
  <2>1. CASE p = "personal"
    <3>1. ~CanWrite(p)' => ~folder /\ file["personal"] = NoFile
      BY <1>5, <1>11, <2>1 DEF PersonalFile, IInv
    <3> QED  BY <1>4, <1>6, <1>11, <2>1, <3>1 DEF Usable
  <2>2. CASE p = "shared"
    BY <1>4, <1>5, <1>6, <2>2 DEF Usable
  <2> QED  BY <1>7, <2>1, <2>2
<1>14. fSharedConf # (p = "shared") /\ iniFile = p => Mismatch /\ p = "shared"
  BY <1>4, <1>7, IInvFacts DEF Mismatch
<1>15. Usable(dialog.oldFile)' <=>
          IF iniFile = "shared"
          THEN file["shared"] # NoFile /\ (file["personal"] = NoFile \/ "undeleted" \in excused')
          ELSE file["personal"] # NoFile \/ file["shared"] = NoFile
               \/ (~folder' /\ "unwritable" \in excused')
  <2>1. CASE iniFile = "shared"
    BY <1>3, <1>5, <2>1 DEF Usable
  <2>2. CASE iniFile # "shared"
    BY <1>3, <1>5, <2>2 DEF Usable
  <2> QED  BY <2>1, <2>2
<1>16. Marked' = Marked
  BY <1>3 DEF Marked
<1>17. CanWrite(iniFile)' = CanWrite(p)'
  BY <1>3, <1>5 DEF CanWrite
<1>18. Moving'
  <2>1. dialog'.pc # "deleteOld"
    BY <1>5
  <2>2. dialog'.for = "move" =>
          /\ dialog'.oldConf # fSharedConf'
          /\ dialog'.oldConf => dialog'.oldFile = "shared" /\ Marked'
          /\ dialog'.oldFile = iniFile' => "mismatch" \in excused'
    BY <1>4, <1>5, <1>6, <1>14, <1>16
  <2>3. ~CanWrite(iniFile)' => "unwritable" \in excused' /\ Usable(dialog.oldFile)'
    BY <1>6, <1>13, <1>15, <1>17
  <2>4. dialog'.oldFile = "shared" /\ iniFile' = "shared" /\ file'["personal"] # NoFile
        => "undeleted" \in excused'
    BY <1>3, <1>5, <1>12
  <2> QED  BY <1>5, <2>1, <2>2, <2>3, <2>4 DEF Moving
<1>19. Finishing'
  <2> SUFFICES ASSUME fSharedConf = (p = "shared")
               PROVE  /\ fSharedConf' => p = "shared" /\ (Marked' \/ writable')
                      /\ CanWrite(p)' \/ Usable(iniFile)'
                      /\ p = "shared" /\ file'["personal"] # NoFile => "undeleted" \in excused'
                      /\ ~CanWrite(p)' => "unwritable" \in excused'
    BY <1>5, <1>17 DEF Finishing
  <2>1. p = "shared" => iniFile = "shared" /\ Marked
    BY <1>4
  <2>2. ~CanWrite(p)' => Usable(iniFile)'
    <3>1. CASE p = "shared"
      BY <1>3, <1>5, <1>13, <2>1, <3>1 DEF Usable
    <3>2. CASE p = "personal"
      <4>1. ~CanWrite(p)' => ~folder' /\ "unwritable" \in excused'
        BY <1>6, <1>11, <3>2
      <4> QED  BY <1>5, <3>2, <4>1 DEF Usable
    <3> QED  BY <1>7, <3>1, <3>2
  <2> QED  BY <1>3, <1>5, <1>6, <1>12, <1>16, <2>1, <2>2
<1>20. FirstFile'
  <2>1. file["personal"] = NoFile /\ file["shared"] # NoFile
        => EffectiveValue = file["shared"].value
    BY Effective DEF Rule
  <2> QED  BY <1>3, <1>5, <1>6, <2>1 DEF FirstFile, FirstPersonal
<1>21. ChoiceInHand'
  <2>1. "unwritable" \notin excused' => CanWrite(iniFile)'
    BY <1>6, <1>17
  <2>2. dialog'.for # "solid" /\ chosen'.place = iniFile' /\ chosen'.place # "none"
    BY <1>5, <1>6, <1>7
  <2> QED  BY <1>6, <2>1, <2>2 DEF ChoiceInHand
<1>22. AnswerKept'
  BY <1>2, <1>3, <1>5, <1>8 DEF AnswerKept, IInv
<1> QED  BY <1>1, <1>9, <1>10, <1>18, <1>19, <1>20, <1>21, <1>22 DEF IInv

----------------------------------------------------------------------------
(* The inductive invariant: saving *)

\* SaveToIni begins: it writes to the place the OK has named.
LEMMA SaveToIniStep ==
    ASSUME IInv, ~Reload, SaveToIni
    PROVE  IInv'
<1>1. TypeOK'
  BY TypeStep DEF IInv, Next, Dialog
<1>2. /\ Saving /\ Saving' /\ dialog.pc = "save" /\ dialog'.pc = "write" /\ dialog'.key = 1
      /\ dialog'.to = iniFile /\ dialog'.for = dialog.for
      /\ dialog'.oldConf = dialog.oldConf /\ dialog'.oldFile = dialog.oldFile
  BY IInvFacts DEF SaveToIni, Saving, DialogState
<1>3. UNCHANGED <<file, folder, writable, mem, fSharedConf, iniFile, attach, chosen, before,
                  excused, answered>>
  BY DEF SaveToIni, globals, history
<1>4. EffectivePlace' = EffectivePlace /\ EffectiveValue' = EffectiveValue
  BY <1>3, EffectiveFrame
<1>5. /\ MainSaving' = MainSaving /\ Marked' = Marked /\ CanWrite(iniFile)' = CanWrite(iniFile)
      /\ Usable(iniFile)' = Usable(iniFile)
      /\ Usable(dialog.oldFile)' = Usable(dialog.oldFile)
  BY <1>2, <1>3 DEF MainSaving, Marked, CanWrite, Usable
<1>6. SavingAlone' /\ PersonalFile' /\ CrashKeepsSettings'
  BY <1>2, <1>3, <1>4 DEF SavingAlone, PersonalFile, CrashKeepsSettings, IInv
<1>7. Attaching'
  BY <1>2, <1>3, <1>4, <1>5 DEF Attaching, IInv
<1>8. Writing'
  BY <1>2, <1>3, SettingsAssumption DEF Writing, Key
<1>9. Moving'
  BY <1>2, <1>3, <1>5 DEF Moving, IInv
<1>10. Finishing' /\ FirstFile'
  BY <1>2, <1>3, <1>5 DEF Finishing, FirstFile, IInv
<1>11. ChoiceInHand' /\ ChoiceOnDisk'
  BY <1>2, <1>3, <1>4, <1>5 DEF ChoiceInHand, ChoiceOnDisk, IInv
<1>12. AnswerKept'
  BY <1>2, <1>3, <1>4, <1>5 DEF AnswerKept, IInv
<1> QED  BY <1>1, <1>6, <1>7, <1>8, <1>9, <1>10, <1>11, <1>12 DEF IInv

\* What one key more in the file means for what the next start finds.
LEMMA WriteKeyFinds ==
    ASSUME IInv, Saving, NEW K \in Key, CanWrite(iniFile),
           \A q \in Place : q # iniFile => file'[q] = file[q],
           file'[iniFile] # NoFile,
           file'[iniFile].value[K] = Kept(K, mem[K]),
           \A j \in Key \ {K} : file'[iniFile].value[j] = Entry(iniFile).value[j],
           UNCHANGED <<chosen, before, excused>>
    PROVE  CrashKeepsSettings'
<1>1. mem = chosen.value
  BY DEF IInv, ChoiceInHand
<1> SUFFICES ASSUME NEW k \in Key
             PROVE  \/ EffectiveValue'[k] \in {Kept(k, chosen.value[k]), before[k]}
                    \/ /\ EffectiveValue'[k] = Default
                       /\ \/ "mismatch" \in excused
                          \/ /\ "home" \in excused
                             /\ file'["shared"] # NoFile /\ file'["shared"].value = before
  BY DEF CrashKeepsSettings
<1>2. \/ EffectiveValue[k] \in {Kept(k, chosen.value[k]), before[k]}
      \/ /\ EffectiveValue[k] = Default
         /\ \/ "mismatch" \in excused
            \/ /\ "home" \in excused
               /\ file["shared"] # NoFile /\ file["shared"].value = before
  BY DEF IInv, CrashKeepsSettings
<1>3. AllDefault[k] = Default
  BY DEF AllDefault
<1>4. file[iniFile] # NoFile => Entry(iniFile) = file[iniFile]
  BY IInvFacts, EntryIs
<1>5. file[iniFile] = NoFile => Entry(iniFile).value = AllDefault
  BY IInvFacts, EntryIs
<1>6. CASE iniFile = "personal"
  <2>1. EffectiveValue' = file'["personal"].value /\ file'["shared"] = file["shared"]
    BY <1>6, Effective, IInvFacts DEF Rule
  <2>2. CASE k = K
    BY <1>1, <1>6, <2>1, <2>2
  <2>3. CASE k # K /\ file["personal"] # NoFile
    <3>1. EffectiveValue'[k] = EffectiveValue[k]
      BY <1>4, <1>6, <2>1, <2>3, Effective DEF Rule
    <3> QED  BY <1>2, <2>1, <3>1
  <2>4. CASE k # K /\ file["personal"] = NoFile
    <3>1. EffectiveValue'[k] = Default
      BY <1>3, <1>5, <1>6, <2>1, <2>4
    <3>2. CASE file["shared"] # NoFile
      <4>1. "home" \in excused /\ file["shared"].value = before
        BY <1>6, <2>4, <3>2 DEF IInv, FirstFile, CanWrite
      <4> QED  BY <2>1, <3>1, <3>2, <4>1
    <3>3. CASE file["shared"] = NoFile
      <4>1. EffectiveValue[k] = Default
        BY <1>3, <2>4, <3>3, Effective DEF Rule
      <4> QED  BY <1>2, <2>1, <3>1, <4>1
    <3> QED  BY <3>2, <3>3
  <2> QED  BY <2>2, <2>3, <2>4
<1>7. CASE iniFile = "shared" /\ file["personal"] # NoFile
  <2>1. EffectiveValue' = EffectiveValue
    BY <1>7, Effective, IInvFacts DEF Rule
  <2>2. "home" \notin excused
    BY <1>7 DEF IInv, FirstFile
  <2> QED  BY <1>2, <2>1, <2>2
<1>8. CASE iniFile = "shared" /\ file["personal"] = NoFile
  <2>1. EffectiveValue' = file'["shared"].value
    BY <1>8, Effective, IInvFacts DEF Rule
  <2>2. CASE k = K
    BY <1>1, <1>8, <2>1, <2>2
  <2>3. CASE k # K
    <3>1. EffectiveValue'[k] = EffectiveValue[k]
      BY <1>3, <1>4, <1>5, <1>8, <2>1, <2>3, Effective DEF Rule
    <3>2. file["shared"] # NoFile => EffectiveValue = file["shared"].value
      BY <1>8, Effective DEF Rule
    <3> QED  BY <1>2, <3>1, <3>2
  <2> QED  BY <2>2, <2>3
<1> QED  BY <1>6, <1>7, <1>8, IInvFacts DEF Place

\* One key more is in the file, or the place cannot be written.
LEMMA WriteKeyStep ==
    ASSUME IInv, ~Reload, WriteKey
    PROVE  IInv'
<1>1. TypeOK'
  BY TypeStep DEF IInv, Next, Dialog
<1>2. /\ dialog.pc = "write" /\ dialog.key \in Key /\ dialog.to = iniFile
      /\ Saving /\ attach = "idle" /\ attach' = "idle"
  BY DEF WriteKey, Saving, IInv, SavingAlone, Writing
<1>3. /\ dialog'.for = dialog.for /\ dialog'.to = iniFile
      /\ dialog'.oldConf = dialog.oldConf /\ dialog'.oldFile = dialog.oldFile
      /\ \/ dialog.key = NumKeys /\ dialog'.pc = "flag"
         \/ dialog.key # NumKeys /\ dialog'.pc = "write" /\ dialog'.key = dialog.key + 1
  BY <1>2, IInvFacts DEF WriteKey, DialogState
<1>4. /\ \A q \in Place : q # iniFile => file'[q] = file[q]
      /\ ~CanWrite(iniFile) => file' = file
      /\ CanWrite(iniFile) =>
            /\ file'[iniFile] # NoFile
            /\ file'[iniFile].value[dialog.key] = Kept(dialog.key, mem[dialog.key])
            /\ \A j \in Key \ {dialog.key} : file'[iniFile].value[j] = Entry(iniFile).value[j]
            /\ file'[iniFile].shared = Entry(iniFile).shared
  BY <1>2, IInvFacts, WithKeyIs DEF WriteKey
<1>5. UNCHANGED <<folder, writable, mem, fSharedConf, iniFile, chosen, before, excused, answered>>
  BY DEF WriteKey, globals, history
<1>6. /\ Saving' /\ MainSaving' = MainSaving /\ CanWrite(iniFile)' = CanWrite(iniFile)
      /\ iniFile = "personal" \/ iniFile = "shared"
      /\ dialog'.pc # "deleteOld"
  BY <1>2, <1>3, <1>5, IInvFacts DEF Saving, MainSaving, CanWrite, Place
<1>7. /\ file[iniFile] # NoFile => Entry(iniFile) = file[iniFile]
      /\ file[iniFile] = NoFile => Entry(iniFile).shared = FALSE
  BY IInvFacts, EntryIs
<1>8. /\ Marked => Marked'
      /\ file["personal"] # NoFile => file'["personal"] # NoFile
      /\ file["shared"] # NoFile => file'["shared"] # NoFile
      /\ iniFile = "shared" => file'["personal"] = file["personal"]
      /\ iniFile = "personal" => file'["shared"] = file["shared"]
      /\ file["shared"] # NoFile => file'["shared"].shared = file["shared"].shared
  BY <1>4, <1>6, <1>7, IInvFacts DEF Marked
<1>9. PersonalFile'
  BY <1>4, <1>5, <1>6, <1>7, IInvFacts DEF PersonalFile, IInv, CanWrite
<1>10. SavingAlone' /\ ChoiceOnDisk'
  BY <1>2, <1>6 DEF SavingAlone, ChoiceOnDisk
<1>11. Usable(iniFile) => Usable(iniFile)'
  BY <1>4, <1>5, <1>6, <1>8 DEF Usable, CanWrite
<1>12. Attaching'
  BY <1>2, <1>5, <1>6, <1>8, <1>11 DEF Attaching, IInv
<1>13. Writing'
  <2> SUFFICES ASSUME CanWrite(iniFile), NEW k \in Key,
                      dialog'.pc = "flag" \/ k < dialog'.key
               PROVE  file'[iniFile] # NoFile /\ file'[iniFile].value[k] = Kept(k, mem[k])
    BY <1>3, <1>5, <1>6 DEF Writing
  <2>1. CASE k = dialog.key
    BY <1>4, <2>1
  <2>2. CASE k # dialog.key
    <3>1. k < dialog.key
      BY <1>2, <1>3, <2>2, SettingsAssumption DEF Key
    <3>2. file[iniFile] # NoFile /\ file[iniFile].value[k] = Kept(k, mem[k])
      BY <1>2, <3>1 DEF IInv, Writing
    <3> QED  BY <1>4, <1>7, <2>2, <3>2
  <2> QED  BY <2>1, <2>2
<1>14. ~CanWrite(iniFile) => Usable(dialog.oldFile)' = Usable(dialog.oldFile)
  BY <1>3, <1>4, <1>5 DEF Usable
<1>15. Moving'
  <2>1. iniFile = "shared" /\ file'["personal"] # NoFile => file["personal"] # NoFile
    BY <1>8
  <2> QED  BY <1>2, <1>3, <1>5, <1>6, <1>8, <1>14, <2>1 DEF Moving, IInv
<1>16. Finishing'
  BY <1>2, <1>3, <1>5, <1>6, <1>8, <1>11 DEF Finishing, IInv
<1>17. FirstFile'
  BY <1>2, <1>4, <1>5, <1>6, <1>8 DEF FirstFile, IInv, CanWrite
<1>18. CrashKeepsSettings'
  <2>1. CASE CanWrite(iniFile)
    BY <1>2, <1>4, <1>5, <2>1, WriteKeyFinds
  <2>2. CASE ~CanWrite(iniFile)
    BY <1>4, <1>5, <2>2, EffectiveFrame DEF CrashKeepsSettings, IInv
  <2> QED  BY <2>1, <2>2
<1>19. dialog.for = "solid" =>
          \/ EffectivePlace' = EffectivePlace
          \/ EffectivePlace = "none" /\ EffectivePlace' = iniFile /\ iniFile = "personal"
          \/ "unwritable" \in excused /\ EffectivePlace' = "personal"
  <2> SUFFICES ASSUME dialog.for = "solid"
               PROVE  \/ EffectivePlace' = EffectivePlace
                      \/ EffectivePlace = "none" /\ EffectivePlace' = iniFile /\ iniFile = "personal"
                      \/ "unwritable" \in excused /\ EffectivePlace' = "personal"
    OBVIOUS
  <2>1. Usable(iniFile)
    BY <1>2 DEF Attaching, MainSaving, IInv
  <2>2. CASE ~CanWrite(iniFile)
    BY <1>4, <2>2, EffectiveFrame
  <2>3. CASE CanWrite(iniFile) /\ iniFile = "shared"
    BY <1>8, <2>1, <2>3, Effective DEF Rule, Usable
  <2>4. CASE CanWrite(iniFile) /\ iniFile = "personal"
    BY <1>4, <2>1, <2>4, Effective DEF Rule, Usable, CanWrite
  <2> QED  BY <1>6, <2>2, <2>3, <2>4
<1>20. ChoiceInHand'
  <2>1. dialog.for = "solid" /\ excused \cap Excuses = {} =>
           "unwritable" \notin excused
    BY DEF Excuses
  <2> QED  BY <1>2, <1>3, <1>5, <1>6, <1>19, <2>1 DEF ChoiceInHand, IInv
<1>21. AnswerKept'
  <2>1. ~CanWrite(iniFile) => EffectivePlace' = EffectivePlace
    BY <1>4, EffectiveFrame
  <2> QED  BY <1>2, <1>3, <1>5, <1>6, <1>19, <2>1 DEF AnswerKept, IInv
<1> QED  BY <1>1, <1>9, <1>10, <1>12, <1>13, <1>15, <1>16, <1>17, <1>18, <1>20, <1>21 DEF IInv

\* The last write of SaveToIni: the file has all settings, and is marked if it is to be.
LEMMA FlagFacts ==
    ASSUME IInv, NEW for, WriteFlag(for), attach' = attach,
           UNCHANGED <<folder, writable, mem, chosen, before, excused>>
    PROVE  /\ Saving /\ attach = "idle" /\ dialog.to = iniFile
           /\ dialog.pc = "flag" /\ dialog.for = for
           /\ fSharedConf => iniFile = "shared"
           /\ iniFile = "personal" \/ iniFile = "shared"
           /\ CanWrite(iniFile) =>
                 /\ file[iniFile] # NoFile
                 /\ \A k \in Key : file[iniFile].value[k] = Kept(k, mem[k])
           /\ file'["personal"] = file["personal"]
           /\ file'["shared"] = NoFile <=> file["shared"] = NoFile
           /\ file["shared"] # NoFile => file'["shared"].value = file["shared"].value
           /\ Marked => Marked'
           /\ ~fSharedConf \/ ~CanWrite(iniFile) => file' = file
           /\ fSharedConf /\ CanWrite(iniFile) => Marked'
           /\ EffectiveValue' = EffectiveValue
           /\ PersonalFile' /\ CrashKeepsSettings'
<1>1. /\ Saving /\ attach = "idle" /\ dialog.to = iniFile
      /\ dialog.pc = "flag" /\ dialog.for = for
  BY DEF WriteFlag, Saving, IInv, SavingAlone, Writing
<1>2. fSharedConf => iniFile = "shared"
  <2>1. dialog.for \in {"ok", "solid", "move"}
    BY IInvFacts DEF DialogState, DialogFor
  <2> QED  BY <1>1, <2>1 DEF IInv, Attaching, MainSaving, Moving, Finishing
<1>3. iniFile = "personal" \/ iniFile = "shared"
  BY IInvFacts DEF Place
<1>4. CanWrite(iniFile) =>
         file[iniFile] # NoFile /\ \A k \in Key : file[iniFile].value[k] = Kept(k, mem[k])
  <2>1. 1 \in Key
    BY SettingsAssumption DEF Key
  <2> QED  BY <1>1, <2>1 DEF IInv, Writing
<1>5. ~fSharedConf \/ ~CanWrite(iniFile) => file' = file
  BY <1>1, IInvFacts, WithFlagIs DEF WriteFlag
<1>6. ASSUME fSharedConf, CanWrite(iniFile)
      PROVE  /\ file'["personal"] = file["personal"]
             /\ file'["shared"] # NoFile /\ file["shared"] # NoFile
             /\ file'["shared"].value = file["shared"].value
             /\ file'["shared"].shared
  <2>1. file' = WithFlag("shared") /\ CanWrite("shared")
    BY <1>1, <1>2, <1>6 DEF WriteFlag
  <2>2. Entry("shared") = file["shared"] /\ file["shared"] # NoFile
    BY <1>2, <1>4, <1>6, IInvFacts, EntryIs
  <2> QED  BY <2>1, <2>2, IInvFacts, WithFlagIs
<1>7. /\ file'["personal"] = file["personal"]
      /\ file'["shared"] = NoFile <=> file["shared"] = NoFile
      /\ file["shared"] # NoFile => file'["shared"].value = file["shared"].value
  BY <1>5, <1>6
<1>8. (Marked => Marked') /\ (fSharedConf /\ CanWrite(iniFile) => Marked')
  BY <1>5, <1>6 DEF Marked
<1>9. EffectiveValue' = EffectiveValue
  BY <1>7, Effective DEF Rule
<1>10. PersonalFile'
  BY <1>7 DEF PersonalFile, IInv
<1>11. CrashKeepsSettings'
  BY <1>7, <1>9 DEF CrashKeepsSettings, IInv
<1> QED  BY <1>1, <1>2, <1>3, <1>4, <1>5, <1>7, <1>8, <1>9, <1>10, <1>11

\* The dialog for solid archives is done.
LEMMA SolidSavedStep ==
    ASSUME IInv, ~Reload, SolidSaved
    PROVE  IInv'
<1>1. TypeOK'
  BY TypeStep DEF IInv, Next, Dialog
<1>2. /\ WriteFlag("solid")
      /\ UNCHANGED <<folder, writable, mem, fSharedConf, iniFile, attach, chosen, before, excused,
                     answered>>
  BY DEF SolidSaved, globals, history
<1>3. ~Saving' /\ ~MainSaving'
  BY IInvFacts DEF SolidSaved, Goto, Saving, MainSaving, DialogState
<1>4. /\ Saving /\ attach = "idle" /\ dialog.to = iniFile
      /\ dialog.pc = "flag" /\ dialog.for = "solid"
      /\ fSharedConf => iniFile = "shared"
      /\ iniFile = "personal" \/ iniFile = "shared"
      /\ CanWrite(iniFile) =>
            file[iniFile] # NoFile /\ \A k \in Key : file[iniFile].value[k] = Kept(k, mem[k])
      /\ file'["personal"] = file["personal"]
      /\ file'["shared"] = NoFile <=> file["shared"] = NoFile
      /\ Marked => Marked'
      /\ ~fSharedConf \/ ~CanWrite(iniFile) => file' = file
      /\ EffectiveValue' = EffectiveValue
      /\ PersonalFile' /\ CrashKeepsSettings'
  BY <1>2, FlagFacts
<1>5. Usable(iniFile) /\ (fSharedConf => iniFile = "shared" /\ Marked)
  BY <1>4 DEF Attaching, MainSaving, IInv
<1>6. Usable(iniFile)'
  BY <1>2, <1>4, <1>5 DEF Usable
<1>7. Attaching'
  BY <1>2, <1>3, <1>4, <1>5, <1>6 DEF Attaching
<1>8. EffectivePlace' = EffectivePlace
  <2>1. CASE ~fSharedConf
    BY <1>4, <2>1, EffectiveFrame
  <2>2. CASE fSharedConf
    BY <1>4, <1>5, <2>2, Effective DEF Rule, Marked
  <2> QED  BY <2>1, <2>2
<1>9. ChoiceOnDisk'
  <2> SUFFICES ASSUME excused \cap Excuses = {}
               PROVE  /\ \A k \in Key : EffectiveValue[k] = Kept(k, chosen.value[k])
                      /\ (chosen.place = "shared" => writable) => EffectivePlace = chosen.place
    BY <1>2, <1>4, <1>8 DEF ChoiceOnDisk
  <2>1. "unwritable" \notin excused /\ "undeleted" \notin excused
    BY DEF Excuses
  <2>2. CanWrite(iniFile) /\ mem = chosen.value
    BY <1>4, <2>1 DEF ChoiceInHand, IInv
  <2>3. EffectiveValue = file[iniFile].value /\ EffectivePlace # "none"
    BY <1>4, <1>5, <2>1, <2>2, Effective DEF Rule, Usable
  <2>4. \A k \in Key : EffectiveValue[k] = Kept(k, chosen.value[k])
    BY <1>4, <2>2, <2>3
  <2>5. (chosen.place = "shared" => writable) => EffectivePlace = chosen.place
    BY <1>4, <2>3 DEF ChoiceInHand, IInv
  <2> QED  BY <2>4, <2>5
<1>10. AnswerKept'
  BY <1>2, <1>3, <1>4, <1>8 DEF AnswerKept, IInv
<1> QED  BY <1>1, <1>3, <1>4, <1>7, <1>9, <1>10, NotSaving DEF IInv

\* The main dialog is done.
LEMMA SavedStep ==
    ASSUME IInv, ~Reload, Saved
    PROVE  IInv'
<1>1. TypeOK'
  BY TypeStep DEF IInv, Next, Dialog
<1>2. /\ WriteFlag("ok")
      /\ UNCHANGED <<folder, writable, mem, fSharedConf, iniFile, attach, chosen, before, excused,
                     answered>>
  BY DEF Saved, globals, history
<1>3. ~Saving' /\ ~MainSaving'
  BY DEF Saved, Closed, Saving, MainSaving
<1>4. /\ Saving /\ attach = "idle" /\ dialog.to = iniFile
      /\ dialog.pc = "flag" /\ dialog.for = "ok"
      /\ iniFile = "personal" \/ iniFile = "shared"
      /\ CanWrite(iniFile) =>
            file[iniFile] # NoFile /\ \A k \in Key : file[iniFile].value[k] = Kept(k, mem[k])
      /\ file'["personal"] = file["personal"]
      /\ file'["shared"] = NoFile <=> file["shared"] = NoFile
      /\ Marked => Marked'
      /\ ~fSharedConf \/ ~CanWrite(iniFile) => file' = file
      /\ fSharedConf /\ CanWrite(iniFile) => Marked'
      /\ EffectiveValue' = EffectiveValue
      /\ PersonalFile' /\ CrashKeepsSettings'
  BY <1>2, FlagFacts
<1>5. /\ iniFile = "shared" /\ writable => fSharedConf
      /\ fSharedConf => iniFile = "shared" /\ (Marked \/ writable)
      /\ CanWrite(iniFile) \/ Usable(iniFile)
      /\ iniFile = "shared" /\ file["personal"] # NoFile => "undeleted" \in excused
      /\ ~CanWrite(iniFile) => "unwritable" \in excused
  BY <1>4 DEF Finishing, IInv
<1>6. Usable(iniFile)'
  BY <1>2, <1>4, <1>5 DEF Usable
<1>7. fSharedConf => Marked'
  BY <1>4, <1>5 DEF CanWrite
<1>8. Attaching'
  BY <1>2, <1>3, <1>4, <1>5, <1>6, <1>7 DEF Attaching
<1>9. ChoiceOnDisk'
  <2> SUFFICES ASSUME excused \cap Excuses = {}
               PROVE  /\ \A k \in Key : EffectiveValue[k] = Kept(k, chosen.value[k])
                      /\ EffectivePlace' = chosen.place
    BY <1>2, <1>4 DEF ChoiceOnDisk
  <2>1. "unwritable" \notin excused /\ "undeleted" \notin excused
    BY DEF Excuses
  <2>2. CanWrite(iniFile) /\ mem = chosen.value /\ chosen.place = iniFile
    BY <1>4, <2>1 DEF ChoiceInHand, IInv
  <2>3. EffectiveValue = file[iniFile].value
    BY <1>4, <1>5, <2>1, <2>2, Effective DEF Rule
  <2>4. EffectivePlace' = iniFile
    <3>1. CASE iniFile = "personal"
      BY <1>4, <2>2, <3>1, Effective DEF Rule
    <3>2. CASE iniFile = "shared"
      <4>1. Marked' /\ file'["personal"] = NoFile
        BY <1>4, <1>5, <2>1, <2>2, <3>2 DEF CanWrite
      <4> QED  BY <3>2, <4>1, Effective DEF Rule, Marked
    <3> QED  BY <1>4, <3>1, <3>2
  <2> QED  BY <1>4, <2>2, <2>3, <2>4
<1>10. AnswerKept'
  <2> SUFFICES ASSUME answered, writable PROVE EffectivePlace' # "undecided"
    BY <1>2 DEF AnswerKept
  <2>1. CASE ~CanWrite(iniFile)
    BY <1>4, <2>1, EffectiveFrame DEF AnswerKept, IInv
  <2>2. CASE CanWrite(iniFile) /\ iniFile = "personal"
    BY <1>4, <2>2, Effective DEF Rule
  <2>3. CASE CanWrite(iniFile) /\ iniFile = "shared"
    <3>1. Marked'
      BY <1>4, <1>5, <2>3
    <3> QED  BY <3>1, Effective DEF Rule, Marked
  <2> QED  BY <1>4, <2>1, <2>2, <2>3
<1> QED  BY <1>1, <1>3, <1>4, <1>8, <1>9, <1>10, NotSaving DEF IInv

\* The new place is written, or the old one is taken back.
LEMMA MovedStep ==
    ASSUME IInv, ~Reload, Moved
    PROVE  IInv'
<1>1. TypeOK'
  BY TypeStep DEF IInv, Next, Dialog
<1>2. /\ WriteFlag("move")
      /\ UNCHANGED <<folder, writable, mem, attach, chosen, before, excused, answered>>
  BY DEF Moved, history
<1>3. /\ Saving /\ attach = "idle" /\ dialog.to = iniFile
      /\ dialog.pc = "flag" /\ dialog.for = "move"
      /\ iniFile = "personal" \/ iniFile = "shared"
      /\ CanWrite(iniFile) =>
            file[iniFile] # NoFile /\ \A k \in Key : file[iniFile].value[k] = Kept(k, mem[k])
      /\ file'["personal"] = file["personal"]
      /\ file'["shared"] = NoFile <=> file["shared"] = NoFile
      /\ file["shared"] # NoFile => file'["shared"].value = file["shared"].value
      /\ Marked => Marked'
      /\ ~fSharedConf \/ ~CanWrite(iniFile) => file' = file
      /\ PersonalFile' /\ CrashKeepsSettings'
  BY <1>2, FlagFacts
<1>4. /\ fSharedConf = (iniFile = "shared")
      /\ dialog.oldConf # fSharedConf
      /\ dialog.oldConf => dialog.oldFile = "shared" /\ Marked
      /\ dialog.oldFile = iniFile => "mismatch" \in excused
      /\ ~CanWrite(iniFile) => "unwritable" \in excused /\ Usable(dialog.oldFile)
      /\ dialog.oldFile = "shared" /\ iniFile = "shared" /\ file["personal"] # NoFile
         => "undeleted" \in excused
  BY <1>3 DEF Moving, IInv
<1>5. CASE CanWrite(iniFile)
  <2>1. /\ dialog'.pc = "deleteOld" /\ dialog'.for = "move" /\ dialog'.to = iniFile
        /\ dialog'.oldConf = dialog.oldConf /\ dialog'.oldFile = dialog.oldFile
        /\ fSharedConf' = fSharedConf /\ iniFile' = iniFile
    BY <1>3, <1>5, IInvFacts DEF Moved, Goto, DialogState
  <2>2. Saving' /\ MainSaving' /\ CanWrite(iniFile)'
    BY <1>2, <1>5, <2>1 DEF Saving, MainSaving, CanWrite
  <2>3. SavingAlone' /\ Attaching' /\ ChoiceOnDisk'
    BY <1>2, <1>3, <2>2 DEF SavingAlone, Attaching, ChoiceOnDisk
  <2>4. Writing'
    BY <1>2, <1>3, <1>5, <2>1 DEF Writing
  <2>5. Moving'
    BY <1>3, <1>4, <1>2, <2>1, <2>2 DEF Moving
  <2>6. Finishing' /\ AnswerKept'
    BY <2>1, <2>2 DEF Finishing, AnswerKept
  <2>7. FirstFile'
    BY <1>2, <1>3, <1>5, <2>1 DEF FirstFile, IInv
  <2>8. ChoiceInHand'
    BY <1>2, <1>3, <2>1, <2>2 DEF ChoiceInHand, IInv
  <2> QED  BY <1>1, <1>3, <2>3, <2>4, <2>5, <2>6, <2>7, <2>8 DEF IInv
<1>6. CASE ~CanWrite(iniFile)
  <2>1. /\ dialog'.pc = "save" /\ dialog'.for = "ok" /\ file' = file
        /\ fSharedConf' = dialog.oldConf /\ iniFile' = dialog.oldFile
    BY <1>3, <1>6, IInvFacts DEF Moved, DialogState
  <2>2. Saving' /\ MainSaving'
    BY <2>1 DEF Saving, MainSaving
  <2>3. SavingAlone' /\ Attaching' /\ ChoiceOnDisk'
    BY <1>2, <1>3, <2>2 DEF SavingAlone, Attaching, ChoiceOnDisk
  <2>4. Writing' /\ Moving'
    BY <2>1 DEF Writing, Moving
  <2>5. Usable(iniFile)' = Usable(dialog.oldFile)
    BY <1>2, <2>1 DEF Usable
  <2>6. Marked' = Marked
    BY <2>1 DEF Marked
  <2>7. iniFile' = "shared" /\ writable => fSharedConf'
    <3>1. dialog.oldConf \in BOOLEAN /\ fSharedConf \in BOOLEAN
      BY IInvFacts DEF DialogState
    <3> QED  BY <1>3, <1>4, <1>6, <2>1, <3>1 DEF CanWrite
  <2>8. iniFile' = "shared" /\ file["personal"] # NoFile => "undeleted" \in excused
    BY <1>4, <1>6, <2>1 DEF Usable
  <2>9. Finishing'
    BY <1>2, <1>4, <1>6, <2>1, <2>5, <2>6, <2>7, <2>8 DEF Finishing
  <2>10. FirstFile'
    <3>1. ~(iniFile' = "personal" /\ folder /\ file["personal"] = NoFile /\ file["shared"] # NoFile)
      BY <1>4, <1>6, <2>1 DEF Usable
    <3>2. iniFile = "personal" => file["personal"] = NoFile
      BY <1>6 DEF CanWrite, PersonalFile, IInv
    <3> QED  BY <1>2, <1>3, <2>1, <3>1, <3>2 DEF FirstFile, IInv
  <2>11. ChoiceInHand'
    BY <1>2, <1>3, <1>4, <1>6, <2>1 DEF ChoiceInHand, IInv
  <2>12. AnswerKept'
    BY <1>2, <1>3, <1>6, <2>1, EffectiveFrame DEF AnswerKept, IInv
  <2> QED  BY <1>1, <1>3, <2>3, <2>4, <2>9, <2>10, <2>11, <2>12 DEF IInv
<1> QED  BY <1>5, <1>6

\* Deleting the old file leaves the new one, unless it is the same.
LEMMA DeleteOldStep ==
    ASSUME IInv, ~Reload, DeleteOld
    PROVE  IInv'
<1>1. TypeOK'
  BY TypeStep DEF IInv, Next, Dialog
<1>2. /\ dialog.pc = "deleteOld" /\ Saving /\ attach = "idle" /\ dialog.to = iniFile
      /\ dialog.for = "move" /\ CanWrite(iniFile)
      /\ UNCHANGED <<folder, writable, mem, fSharedConf, iniFile, attach, chosen, before, answered>>
  BY DEF DeleteOld, Saving, SavingAlone, Writing, Moving, globals, IInv
<1>3. /\ dialog'.pc = "save" /\ dialog'.for = "ok" /\ dialog.oldFile \in Place
      /\ Saving' /\ MainSaving' /\ CanWrite(iniFile)'
  BY <1>2, IInvFacts DEF DeleteOld, DialogState, Saving, MainSaving, CanWrite
<1>4. /\ fSharedConf = (iniFile = "shared")
      /\ dialog.oldConf # fSharedConf
      /\ dialog.oldConf => dialog.oldFile = "shared"
      /\ dialog.oldFile = iniFile => "mismatch" \in excused
  BY <1>2 DEF Moving, IInv
<1>5. /\ file[iniFile] # NoFile
      /\ \A k \in Key : file[iniFile].value[k] = Kept(k, mem[k])
  <2>1. 1 \in Key
    BY SettingsAssumption DEF Key
  <2> QED  BY <1>2, <2>1 DEF Writing, IInv
<1>6. /\ \A q \in Place : q # dialog.oldFile => file'[q] = file[q]
      /\ file'[dialog.oldFile] \in {file[dialog.oldFile], NoFile}
  BY <1>3, IInvFacts, MayDeleteIs DEF DeleteOld
<1>7. /\ \A x \in {"crash", "unwritable", "unsaved", "mismatch", "home"} :
            x \in excused' <=> x \in excused
      /\ iniFile = "shared" /\ file'["personal"] # NoFile => "undeleted" \in excused'
  BY <1>2 DEF DeleteOld
<1>8. /\ iniFile = "personal" \/ iniFile = "shared"
      /\ dialog.oldFile = "personal" \/ dialog.oldFile = "shared"
      /\ iniFile = "personal" => dialog.oldFile = "shared"
  <2>1. dialog.oldConf \in BOOLEAN /\ fSharedConf \in BOOLEAN
    BY IInvFacts DEF DialogState
  <2> QED  BY <1>3, <1>4, <2>1, IInvFacts DEF Place
<1>9. PersonalFile'
  BY <1>2, <1>6, <1>8 DEF PersonalFile, Place, IInv
<1>10. SavingAlone' /\ Attaching' /\ ChoiceOnDisk'
  BY <1>2, <1>3 DEF SavingAlone, Attaching, ChoiceOnDisk
<1>11. Writing' /\ Moving' /\ AnswerKept'
  BY <1>3 DEF Writing, Moving, AnswerKept
<1>12. Finishing'
  BY <1>2, <1>3, <1>4, <1>7 DEF Finishing, CanWrite
<1>13. FirstFile'
  <2>1. iniFile = "personal" => file'["personal"] # NoFile
    BY <1>5, <1>6, <1>8 DEF Place
  <2>2. iniFile = "shared" /\ file'["personal"] # NoFile => "home" \notin excused'
    <3>1. file'["personal"] # NoFile => file["personal"] # NoFile
      BY <1>6, <1>8 DEF Place
    <3> QED  BY <1>2, <1>7, <3>1 DEF FirstFile, IInv
  <2> QED  BY <1>2, <2>1, <2>2 DEF FirstFile
<1>14. ChoiceInHand'
  BY <1>2, <1>3, <1>7 DEF ChoiceInHand, IInv
<1>15. CrashKeepsSettings'
  <2> SUFFICES ASSUME NEW k \in Key
               PROVE  \/ EffectiveValue'[k] \in {Kept(k, chosen.value[k]), before[k]}
                      \/ /\ EffectiveValue'[k] = Default
                         /\ \/ "mismatch" \in excused
                            \/ /\ "home" \in excused
                               /\ file'["shared"] # NoFile /\ file'["shared"].value = before
    BY <1>2, <1>7 DEF CrashKeepsSettings
  <2>1. mem = chosen.value
    BY <1>2 DEF ChoiceInHand, IInv
  <2>2. \/ EffectiveValue[k] \in {Kept(k, chosen.value[k]), before[k]}
        \/ /\ EffectiveValue[k] = Default
           /\ \/ "mismatch" \in excused
              \/ /\ "home" \in excused
                 /\ file["shared"] # NoFile /\ file["shared"].value = before
    BY DEF IInv, CrashKeepsSettings
  <2>3. CASE iniFile = "personal"
    <3>1. EffectiveValue' = file["personal"].value
      BY <1>5, <1>6, <1>8, <2>3, Effective DEF Rule, Place
    <3> QED  BY <1>5, <2>1, <2>3, <3>1
  <2>4. CASE iniFile = "shared" /\ dialog.oldFile = "personal"
    <3>1. file'["shared"] = file["shared"]
      BY <1>6, <2>4 DEF Place
    <3>2. CASE file'["personal"] = NoFile
      <4>1. EffectiveValue' = file["shared"].value
        BY <1>5, <2>4, <3>1, <3>2, Effective DEF Rule
      <4> QED  BY <1>5, <2>1, <2>4, <4>1
    <3>3. CASE file'["personal"] # NoFile
      <4>1. EffectiveValue' = EffectiveValue
        BY <1>6, <2>4, <3>3, Effective DEF Rule, Place
      <4> QED  BY <2>2, <3>1, <4>1
    <3> QED  BY <3>2, <3>3
  <2>5. CASE iniFile = "shared" /\ dialog.oldFile = "shared"
    <3>1. "mismatch" \in excused /\ file'["personal"] = file["personal"]
      BY <1>4, <1>6, <2>5 DEF Place
    <3>2. CASE file'["shared"] = file["shared"] \/ file["personal"] # NoFile
      <4>1. EffectiveValue' = EffectiveValue
        BY <3>1, <3>2, Effective DEF Rule
      <4> QED  BY <2>2, <3>1, <4>1
    <3>3. CASE file'["shared"] = NoFile /\ file["personal"] = NoFile
      <4>1. EffectiveValue' = AllDefault
        BY <3>1, <3>3, Effective DEF Rule
      <4> QED  BY <3>1, <4>1 DEF AllDefault
    <3> QED  BY <1>6, <2>5, <3>2, <3>3
  <2> QED  BY <1>8, <2>3, <2>4, <2>5
<1> QED  BY <1>1, <1>9, <1>10, <1>11, <1>12, <1>13, <1>14, <1>15 DEF IInv

----------------------------------------------------------------------------
(* The theorems *)

\* IInv is inductive if no thread starts during an OK.
LEMMA IInvStep == ~Reload /\ IInv /\ [Next]_vars => IInv'
<1> SUFFICES ASSUME ~Reload, IInv, [Next]_vars PROVE IInv'
  OBVIOUS
<1>1. CASE UNCHANGED vars
  <2>1. UNCHANGED <<file, folder, writable, mem, fSharedConf, iniFile, attach, dialog, chosen,
                    before, excused, answered>>
    BY <1>1 DEF vars, globals, history
  <2>2. EffectivePlace' = EffectivePlace /\ EffectiveValue' = EffectiveValue
    BY <2>1, EffectiveFrame
  <2>3. /\ MainSaving' = MainSaving /\ Marked' = Marked /\ (Saving <=> Saving')
        /\ \A p \in Place : Usable(p)' = Usable(p) /\ CanWrite(p)' = CanWrite(p)
    BY <2>1 DEF MainSaving, Marked, Saving, Usable, CanWrite
  <2>4. iniFile \in Place /\ dialog.oldFile \in Place
    BY IInvFacts DEF DialogState
  <2>5. /\ Usable(iniFile)' = Usable(iniFile) /\ CanWrite(iniFile)' = CanWrite(iniFile)
        /\ Usable(dialog.oldFile)' = Usable(dialog.oldFile)
    BY <2>1 DEF Usable, CanWrite
  <2>6. TypeOK' /\ SavingAlone' /\ PersonalFile' /\ CrashKeepsSettings'
    BY <2>1, <2>2, <2>3 DEF TypeOK, SavingAlone, PersonalFile, CrashKeepsSettings, IInv
  <2>7. Attaching' /\ Writing' /\ Moving'
    BY <2>1, <2>2, <2>3, <2>5 DEF Attaching, Writing, Moving, IInv
  <2>8. Finishing' /\ FirstFile'
    BY <2>1, <2>3, <2>5 DEF Finishing, FirstFile, IInv
  <2>9. ChoiceInHand' /\ ChoiceOnDisk' /\ AnswerKept'
    BY <2>1, <2>2, <2>3, <2>5 DEF ChoiceInHand, ChoiceOnDisk, AnswerKept, IInv
  <2> QED  BY <2>6, <2>7, <2>8, <2>9 DEF IInv
<1>2. Attach => IInv'
  BY ThreadAttachStep, SetIniFileNameStep, AnswerNoStep, AnswerYesStep, DeleteSharedStep,
     LoadDefaultsStep, LoadFromIniStep DEF Attach
<1>3. Dialog => IInv'
  BY OpenCancelStep, DefaultButtonStep, PressSolidOKStep, PressOKStep, SaveToIniStep,
     WriteKeyStep, SolidSavedStep, MovedStep, DeleteOldStep, SavedStep DEF Dialog
<1> QED  BY <1>1, <1>2, <1>3, RestartStep DEF Next

\* The files any version leaves behind satisfy it.
LEMMA IInvInit == Init /\ TypeOK => IInv
<1> SUFFICES ASSUME Init, TypeOK PROVE IInv
  OBVIOUS
<1>1. /\ dialog.pc = "closed" /\ attach = "name" /\ excused = {} /\ ~answered
      /\ chosen.value = EffectiveValue /\ chosen.place = EffectivePlace
      /\ before = EffectiveValue
  BY DEF Init, Closed
<1>2. ~Saving
  BY <1>1 DEF Saving
<1>3. PersonalFile
  BY DEF Init, PersonalFile
<1>4. SavingAlone /\ Attaching /\ Writing /\ Moving /\ Finishing /\ FirstFile /\ ChoiceInHand
  BY <1>1, <1>2 DEF SavingAlone, Attaching, Writing, Moving, Finishing, FirstFile, ChoiceInHand
<1>5. \A k \in Key : Kept(k, EffectiveValue[k]) = EffectiveValue[k]
  <2>1. \A p \in Place : file[p] # NoFile => \A k \in Key : Kept(k, file[p].value[k]) = file[p].value[k]
    BY DEF Init, Keepable
  <2>2. \A k \in Key : Kept(k, AllDefault[k]) = AllDefault[k]
    BY DEF Kept, AllDefault
  <2> QED  BY <2>1, <2>2, Effective DEF Rule, Place
<1>6. ChoiceOnDisk /\ AnswerKept /\ CrashKeepsSettings
  BY <1>1, <1>5 DEF ChoiceOnDisk, AnswerKept, CrashKeepsSettings
<1> QED  BY <1>3, <1>4, <1>6 DEF IInv

\* The inductive invariant holds if no thread starts while an OK is being handled:
\* how far the writes of SaveToIni have come, and what they leave for SetIniFileName.
THEOREM Invariant == ~Reload /\ Spec => []IInv
<1>1. Init => IInv
  BY TypeInit, IInvInit
<1>2. CASE ~Reload
  <2>1. IInv /\ [Next]_vars => IInv'
    BY <1>2, IInvStep
  <2> QED  BY <1>1, <2>1, PTL DEF Spec
<1>3. CASE Reload
  BY <1>3
<1> QED  BY <1>2, <1>3

\* After an OK the next start finds the settings and the place the user chose
\* (UpdateValue, UpdateSolidValue, SaveToIni and SetIniFileName agree), but for a
\* solid dialog that had nothing to save and a file that could not be deleted.
THEOREM ChoiceIsKept == ~Reload /\ Spec => []ChoiceSurvives
<1>1. IInv => ChoiceSurvives
  BY DEF IInv, ChoiceOnDisk, ChoiceSurvives, Settled, Excuses
<1> QED  BY <1>1, Invariant, PTL

\* Wherever the process dies between two calls that write or delete a file, the next
\* start finds every setting as it was before or after the OK; a default only where
\* the file just saved was deleted or the first personal file was begun.
THEOREM CrashLosesNothing == ~Reload /\ Spec => []CrashKeepsSettings
<1>1. IInv => CrashKeepsSettings
  BY DEF IInv
<1> QED  BY <1>1, Invariant, PTL

\* The question where the shared file should be does not come back once its answer
\* has been carried out (SetIniFileName, SaveToIni).
THEOREM QuestionAskedOnce == ~Reload /\ Spec => []AskedOnce
<1>1. IInv => AskedOnce
  BY DEF IInv, AskedOnce, Attaching, AnswerKept, SavingAlone
<1> QED  BY <1>1, Invariant, PTL
=============================================================================
