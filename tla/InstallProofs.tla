---------------------------- MODULE InstallProofs ----------------------------
(***************************************************************************)
(* For any number of installers, of files and of things the user does: no  *)
(* text of the user's is lost unless he wrote it while a run was under     *)
(* way, settings that get the hook are in a backup, and no file is         *)
(* replaced that was there when the run looked.                            *)
(*                                                                         *)
(* The strengthening relates what a run has read to what is there now.  If *)
(* nobody wrote since, it is the user's last text (SeenIsLatest).  If the  *)
(* texts agree, either nothing happened or another run added the hook      *)
(* (SameTextIsSame), which holds because a text is never written twice     *)
(* (TextsAreOld).                                                          *)
(***************************************************************************)
EXTENDS Install, TLAPS

SeenIsLatest ==
    \A i \in Installers : latest = calm /\ pc[i] \in {"compare", "files", "settings"}
        => seen[i].text = latest

TextsAreOld ==
    /\ latest <= acts /\ calm <= acts /\ settings.text <= acts
    /\ \A i \in Installers : seen[i].text <= acts

SameTextIsSame ==
    \A i \in Installers : seen[i].text = settings.text
        => settings = seen[i] \/ settings.hook = "exact"

NoTextNoHook == settings.text = 0 => settings = NoFile \/ settings.hook = "exact"

SeenIsBackedUp ==
    \A i \in Installers : pc[i] = "settings" => seen[i] \in backups

SkillIsToDo ==
    \A i \in Installers : pc[i] = "files" => todo[i] \cap found[i] = {}

InstallInv ==
    InstallTypeOK /\ UserTextIsKept /\ SeenIsLatest /\ TextsAreOld
    /\ SameTextIsSame /\ NoTextNoHook /\ SeenIsBackedUp /\ SkillIsToDo

-----------------------------------------------------------------------------
USE InstallAssumption

LEMMA InstallStarts == InstallInit => InstallInv
  BY DEF InstallInit, InstallInv, InstallTypeOK, UserTextIsKept, SeenIsLatest,
         TextsAreOld, SameTextIsSame, NoTextNoHook, SeenIsBackedUp, SkillIsToDo,
         Settings, NoFile, Hooks, Files

LEMMA InstallStepKeeps ==
  ASSUME InstallInv, [InstallNext]_installVars
  PROVE  InstallInv'
<1> USE DEF InstallInv, InstallTypeOK, UserTextIsKept, SeenIsLatest,
            TextsAreOld, SameTextIsSame, NoTextNoHook, SeenIsBackedUp, SkillIsToDo,
            Settings, NoFile, Hooks, Goto, fileVars, runVars, userVars
<1>1. ASSUME NEW i \in Installers, Scan(i)
      PROVE  InstallInv'
  BY <1>1 DEF Scan
<1>2. ASSUME NEW i \in Installers, ReadSettings(i)
      PROVE  InstallInv'
  BY <1>2 DEF ReadSettings
<1>3. ASSUME NEW i \in Installers, Compare(i)
      PROVE  InstallInv'
  BY <1>3 DEF Compare
<1>4. ASSUME NEW i \in Installers, WriteFile(i)
      PROVE  InstallInv'
  BY <1>4 DEF WriteFile
<1>5. ASSUME NEW i \in Installers, BackUp(i)
      PROVE  InstallInv'
  BY <1>5 DEF BackUp
<1>6. ASSUME NEW i \in Installers, WriteSettings(i)
      PROVE  InstallInv'
  BY <1>6 DEF WriteSettings
<1>7. ASSUME NEW i \in Installers, LeaveSettings(i)
      PROVE  InstallInv'
  BY <1>7 DEF LeaveSettings
<1>8. ASSUME NEW i \in Installers, Stop(i)
      PROVE  InstallInv'
  BY <1>8 DEF Stop
<1>9. ASSUME NEW hook \in Hooks, EditSettings(hook)
      PROVE  InstallInv'
  BY <1>9 DEF EditSettings, IsUnderWay
<1>10. ASSUME NEW f \in Files, PlaceFile(f)
       PROVE  InstallInv'
  BY <1>10 DEF PlaceFile
<1>11. ASSUME NEW f \in Files, RemoveFile(f)
       PROVE  InstallInv'
  BY <1>11 DEF RemoveFile
<1>12. CASE UNCHANGED installVars
  BY <1>12 DEF installVars
<1>13. QED
  BY <1>1, <1>2, <1>3, <1>4, <1>5, <1>6, <1>7, <1>8, <1>9, <1>10, <1>11, <1>12
     DEF InstallNext, InstallStep

LEMMA InstallInvHolds == InstallSpec => []InstallInv
<1>1. InstallInv /\ [InstallNext]_installVars => InstallInv'
  BY InstallStepKeeps
<1>2. QED
  BY InstallStarts, <1>1, PTL DEF InstallSpec

\* Files, runs and the user's texts keep their types, however many runs overlap.
THEOREM InstallTypeCorrect == InstallSpec => []InstallTypeOK
<1>1. InstallInv => InstallTypeOK
  BY DEF InstallInv
<1>2. QED
  BY InstallInvHolds, <1>1, PTL

\* The settings hold what the user wrote last, unless he wrote it while a run
\* was under way.
THEOREM TextIsKept == InstallSpec => []UserTextIsKept
<1>1. InstallInv => UserTextIsKept
  BY DEF InstallInv
<1>2. QED
  BY InstallInvHolds, <1>1, PTL

\* Settings that get the hook are in a backup as they were, also where two
\* installers and the user write at once.
THEOREM SettingsAreBackedUp == InstallSpec => ChangedIsBackedUp
<1> DEFINE Backed == settings # NoFile /\ settings' # settings
                     /\ settings'.text = settings.text => settings \in backups
<1>1. ASSUME InstallInv, [InstallNext]_installVars
      PROVE  Backed
  <2> USE <1>1 DEF InstallInv, InstallTypeOK, TextsAreOld, SameTextIsSame,
                   NoTextNoHook, SeenIsBackedUp, Settings, NoFile, Hooks
  <2>1. ASSUME NEW i \in Installers, WriteSettings(i)
        PROVE  Backed
    BY <2>1 DEF WriteSettings
  <2>2. ASSUME NEW hook \in Hooks, EditSettings(hook)
        PROVE  Backed
    BY <2>2 DEF EditSettings
  <2>3. CASE UNCHANGED settings
    BY <2>3
  <2>4. QED
    BY <2>1, <2>2, <2>3 DEF InstallNext, InstallStep, installVars, fileVars, Scan,
       ReadSettings, Compare, WriteFile, BackUp, LeaveSettings, Stop, PlaceFile,
       RemoveFile
<1>2. QED
  BY InstallInvHolds, <1>1, PTL DEF InstallSpec, ChangedIsBackedUp

\* A file of the user's that was there when a run looked is never replaced.
THEOREM FilesAreNotReplaced == InstallSpec => NoFileIsReplaced
<1> DEFINE Spared == \A f \in Files : skill[f] = "theirs" /\ skill'[f] = "ours" =>
                     \E i \in Installers : todo'[i] # todo[i] /\ f \notin found[i]
<1>1. ASSUME InstallInv, [InstallNext]_installVars
      PROVE  Spared
  <2> USE <1>1 DEF InstallInv, InstallTypeOK, SkillIsToDo
  <2>1. ASSUME NEW i \in Installers, WriteFile(i)
        PROVE  Spared
    BY <2>1 DEF WriteFile
  <2>2. ASSUME NEW f \in Files, PlaceFile(f) \/ RemoveFile(f)
        PROVE  Spared
    BY <2>2 DEF PlaceFile, RemoveFile
  <2>3. CASE UNCHANGED skill
    BY <2>3
  <2>4. QED
    BY <2>1, <2>2, <2>3 DEF InstallNext, InstallStep, installVars, fileVars, Scan,
       ReadSettings, Compare, BackUp, WriteSettings, LeaveSettings, Stop,
       EditSettings
<1>2. QED
  BY InstallInvHolds, <1>1, PTL DEF InstallSpec, NoFileIsReplaced
=============================================================================
