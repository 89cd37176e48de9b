------------------------------- MODULE Install -------------------------------
(***************************************************************************)
(* The installer (install.py): the files of the skill, for both vendors,   *)
(* and one hook in Claude's settings, which belong to the user.  A run     *)
(* first looks at everything and refuses on a conflict; then it writes, in *)
(* one order, each file by an atomic replace.                              *)
(*                                                                         *)
(*    scan   read   compare   files   (back up)   settings                 *)
(*                                                                         *)
(* Nothing is locked: the user and a second installer may write between    *)
(* any two steps, and a run may stop between them: killed, failing on a    *)
(* write, or, with --check, because it only wanted to look.  Settings are  *)
(* abstracted to which text of the user's they hold and to what they say   *)
(* of the hook; a path that is no regular file is a file that differs.     *)
(***************************************************************************)
EXTENDS Naturals

CONSTANTS
    Installers,   \* runs of the installer
    NFiles,       \* files of the skill, both vendors', in the order of writing
    MaxActs,      \* bound: what the user does by hand
    MaxStops      \* bound: runs that stop half-way

ASSUME InstallAssumption == NFiles \in Nat /\ MaxActs \in Nat /\ MaxStops \in Nat

VARIABLES
    skill,        \* what is at each destination of a skill file
    settings,     \* .claude/settings.json
    backups,      \* the contents of its backups
    pc,           \* the next step of each installer
    found,        \* the skill files it saw there
    seen,         \* the settings it read
    todo,         \* the skill files it has left to write
    acts, stops,  \* history: how often the user acted, how often a run stopped
    latest,       \* history: the text the user wrote last
    calm          \* history: and the last one with no run under way

fileVars == <<skill, settings, backups>>
runVars == <<pc, found, seen, todo>>
userVars == <<acts, latest, calm>>
installVars == <<fileVars, runVars, userVars, stops>>

Files == 1..NFiles
Hooks == {"absent", "exact", "foreign"}
NoFile == [text |-> 0, hook |-> "none"]
Settings == [text: 0..MaxActs, hook: Hooks \cup {"none"}]

\* The types.  The installer's own hook is in the settings once at most.
InstallTypeOK ==
    /\ skill \in [Files -> {"missing", "ours", "theirs"}]
    /\ settings \in Settings /\ backups \subseteq Settings
    /\ pc \in [Installers -> {"idle", "read", "compare", "files", "settings"}]
    /\ found \in [Installers -> SUBSET Files]
    /\ todo \in [Installers -> SUBSET Files]
    /\ seen \in [Installers -> Settings]
    /\ acts \in 0..MaxActs /\ stops \in 0..MaxStops
    /\ latest \in 0..MaxActs /\ calm \in 0..MaxActs

InstallInit ==
    /\ skill = [f \in Files |-> "missing"]
    /\ settings = NoFile /\ backups = {}
    /\ pc = [i \in Installers |-> "idle"]
    /\ found = [i \in Installers |-> {}] /\ todo = [i \in Installers |-> {}]
    /\ seen = [i \in Installers |-> NoFile]
    /\ acts = 0 /\ stops = 0 /\ latest = 0 /\ calm = 0

Goto(i, label) == pc' = [pc EXCEPT ![i] = label]

-----------------------------------------------------------------------------
(* _prepare_install.                                                       *)

\* _preflight_destinations: what is there, before anything is read.
Scan(i) ==
    /\ pc[i] = "idle"
    /\ found' = [found EXCEPT ![i] = {f \in Files : skill[f] # "missing"}]
    /\ seen' = [seen EXCEPT ![i] = NoFile]
    /\ Goto(i, IF settings = NoFile THEN "compare" ELSE "read")
    /\ UNCHANGED <<fileVars, todo, userVars, stops>>

\* mutant: a backup of an earlier run is in the way
ReadOnce(i) ==
    /\ pc[i] = "read"
    /\ seen' = [seen EXCEPT ![i] = settings]
    /\ Goto(i, IF settings.hook = "foreign" \/ backups # {} THEN "idle" ELSE "compare")
    /\ UNCHANGED <<fileVars, found, todo, userVars, stops>>

\* The settings are read, and _merge_settings refuses those that hold another
\* ai-room hook, or are no settings at all.  The backup is named by the time,
\* so it is never there already.
ReadSettings(i) ==
    /\ pc[i] = "read"
    /\ seen' = [seen EXCEPT ![i] = settings]
    /\ Goto(i, IF settings.hook = "foreign" THEN "idle" ELSE "compare")
    /\ UNCHANGED <<fileVars, found, todo, userVars, stops>>

\* mutant: a file that differs is written again
CompareForced(i) ==
    /\ pc[i] = "compare"
    /\ todo' = [todo EXCEPT ![i] = {f \in Files : f \in found[i] => skill[f] # "ours"}]
    /\ Goto(i, "files")
    /\ UNCHANGED <<fileVars, found, seen, userVars, stops>>

\* _prepare_file, of every file: those that were there must be the skill's own,
\* the others are to be written.
Compare(i) ==
    /\ pc[i] = "compare"
    /\ \/ /\ \A f \in found[i] : skill[f] = "ours"
          /\ todo' = [todo EXCEPT ![i] = Files \ found[i]]
          /\ Goto(i, "files")
       \/ /\ \E f \in found[i] : skill[f] # "ours"
          /\ Goto(i, "idle")
          /\ UNCHANGED todo
    /\ UNCHANGED <<fileVars, found, seen, userVars, stops>>

-----------------------------------------------------------------------------
(* execute_install: SKILL.md and its manuals, per vendor, then settings.   *)

WriteFile(i) ==
    /\ pc[i] = "files"
    /\ \E f \in todo[i] :
          /\ \A g \in todo[i] : f <= g
          /\ skill' = [skill EXCEPT ![f] = "ours"]
          /\ todo' = [todo EXCEPT ![i] = @ \ {f}]
    /\ UNCHANGED <<settings, backups, pc, found, seen, userVars, stops>>

BackUp(i) ==
    /\ pc[i] = "files" /\ todo[i] = {}
    /\ seen[i].hook = "absent"
    /\ backups' = backups \cup {seen[i]}
    /\ Goto(i, "settings")
    /\ UNCHANGED <<skill, settings, found, seen, todo, userVars, stops>>

\* mutant: the settings are written anew
WriteDefaults(i) ==
    /\ \/ pc[i] = "settings"
       \/ pc[i] = "files" /\ todo[i] = {} /\ seen[i] = NoFile
    /\ settings' = [text |-> 0, hook |-> "exact"]
    /\ Goto(i, "idle")
    /\ UNCHANGED <<skill, backups, found, seen, todo, userVars, stops>>

\* mutant: the backup may come later
WriteAtOnce(i) ==
    /\ \/ pc[i] = "settings"
       \/ pc[i] = "files" /\ todo[i] = {} /\ seen[i].hook # "exact"
    /\ settings' = [text |-> seen[i].text, hook |-> "exact"]
    /\ Goto(i, "idle")
    /\ UNCHANGED <<skill, backups, found, seen, todo, userVars, stops>>

\* What was read, with the hook added; whatever is there by now is replaced.
WriteSettings(i) ==
    /\ \/ pc[i] = "settings"
       \/ pc[i] = "files" /\ todo[i] = {} /\ seen[i] = NoFile
    /\ settings' = [text |-> seen[i].text, hook |-> "exact"]
    /\ Goto(i, "idle")
    /\ UNCHANGED <<skill, backups, found, seen, todo, userVars, stops>>

\* mutant: the hook is not recognised as the installer's own
AddAgain(i) ==
    /\ pc[i] = "files" /\ todo[i] = {}
    /\ seen[i].hook = "exact"
    /\ settings' = [settings EXCEPT !.hook = "twice"]
    /\ Goto(i, "idle")
    /\ UNCHANGED <<skill, backups, found, seen, todo, userVars, stops>>

\* The hook is there: the settings are left alone.
LeaveSettings(i) ==
    /\ pc[i] = "files" /\ todo[i] = {}
    /\ seen[i].hook = "exact"
    /\ Goto(i, "idle")
    /\ UNCHANGED <<fileVars, found, seen, todo, userVars, stops>>

\* A write fails, the run is killed, or it was a preview.  An atomic replace is
\* done or not; the temporary file it may leave is nobody's destination.
Stop(i) ==
    /\ pc[i] # "idle" /\ stops < MaxStops
    /\ stops' = stops + 1
    /\ Goto(i, "idle")
    /\ UNCHANGED <<fileVars, found, seen, todo, userVars>>

-----------------------------------------------------------------------------
(* The user, and the programs that write his settings.                     *)

IsUnderWay == \E i \in Installers : pc[i] # "idle"

EditSettings(hook) ==
    /\ acts < MaxActs
    /\ acts' = acts + 1 /\ latest' = acts + 1
    /\ settings' = [text |-> acts + 1, hook |-> hook]
    /\ calm' = IF IsUnderWay THEN calm ELSE acts + 1
    /\ UNCHANGED <<skill, backups, runVars, stops>>

PlaceFile(f) ==
    /\ acts < MaxActs
    /\ acts' = acts + 1
    /\ skill' = [skill EXCEPT ![f] = "theirs"]
    /\ UNCHANGED <<settings, backups, runVars, latest, calm, stops>>

RemoveFile(f) ==
    /\ acts < MaxActs /\ skill[f] # "missing"
    /\ acts' = acts + 1
    /\ skill' = [skill EXCEPT ![f] = "missing"]
    /\ UNCHANGED <<settings, backups, runVars, latest, calm, stops>>

InstallStep(i) ==
    \/ Scan(i) \/ ReadSettings(i) \/ Compare(i)
    \/ WriteFile(i) \/ BackUp(i) \/ WriteSettings(i) \/ LeaveSettings(i)

InstallNext ==
    \/ \E i \in Installers : InstallStep(i) \/ Stop(i)
    \/ \E hook \in Hooks : EditSettings(hook)
    \/ \E f \in Files : PlaceFile(f) \/ RemoveFile(f)

InstallSpec == InstallInit /\ [][InstallNext]_installVars

\* A run that was refused or cut short is repeated until it is through.
FairInstallSpec == InstallSpec /\ \A i \in Installers : WF_installVars(InstallStep(i))

-----------------------------------------------------------------------------
(* Properties.                                                             *)

\* What the user wrote last is what the settings hold, unless he wrote it while
\* a run was under way: then the run may put back what it had read, and the
\* backup holds that, too.
UserTextIsKept == latest = calm => settings.text = latest

\* Settings that get the hook are in a backup as they were.
ChangedIsBackedUp ==
    [][settings # NoFile /\ settings' # settings /\ settings'.text = settings.text
       => settings \in backups]_installVars

\* No file of the user's is replaced that was there when the run looked.
NoFileIsReplaced ==
    [][\A f \in Files : skill[f] = "theirs" /\ skill'[f] = "ours" =>
        \E i \in Installers : todo'[i] # todo[i] /\ f \notin found[i]]_installVars

\* Whatever a stopped run left behind, another one completes it: only what the
\* user put in the way, and leaves there, keeps the skill from being installed.
IsInstalled == (\A f \in Files : skill[f] = "ours") /\ settings.hook = "exact"
IsConflict == (\E f \in Files : skill[f] = "theirs") \/ settings.hook = "foreign"
InstallCompletes == <>[]IsInstalled \/ <>[]IsConflict
=============================================================================
