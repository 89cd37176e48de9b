------------------------------ MODULE Dispatch ------------------------------
(***************************************************************************)
(* Headless dispatches: `ai-room ask` runs one vendor CLI as a sub-agent,  *)
(* `ai-room resume` continues a conversation that was cut short (cli.py    *)
(* _dispatch, inflight.py, session_settings.py, ledger.py).  They share    *)
(* nothing but files below the project's .ai-room directory, and the       *)
(* caller's shell may kill the ai-room process between any two writes, or  *)
(* inside one: write_text empties the file it then fills.                  *)
(*                                                                         *)
(* A process has two threads.  pc is the main one's next step, pump that   *)
(* of the thread that reads the sub-agent's output:                        *)
(*                                                                         *)
(*    pc:    new  prepare-preparing  invoke  running  keep-keeping         *)
(*           append  write  clear  report  over                            *)
(*    pump:  idle  remember-remembering  record-filling  idle              *)
(*                                                                         *)
(* The handle a vendor announces for its conversation is written down by   *)
(* pump while the sub-agent still talks.  run_cli joins that thread when   *)
(* the sub-agent is gone, for a few seconds only (module RunCli): a run    *)
(* whose output was not drained may announce, and record, after that.      *)
(* A vendor's CLI is external: it can be missing, announce its handle or   *)
(* not, end well or badly, or be ended by one of run_cli's two budgets.    *)
(***************************************************************************)
EXTENDS Naturals, Sequences, FiniteSetsExt

CONSTANTS
    Calls,        \* ai-room processes that run a dispatch
    PidOf,        \* their process ids
    Vendors,      \* claude, codex, opencode, dsh
    Preassigned,  \* the vendors told which handle to use (claude)
    Handles,      \* session ids of vendors' conversations
    Models,       \* model and effort of a turn
    Default,      \* those of resources/models.toml
    NoHandle, NoModel, NoPath, NoCall,
    Torn,         \* what a settings file holds that was emptied and not filled
    MaxStamp      \* bound: the stamps of inflight records told apart

ASSUME DispatchAssumption ==
    /\ Vendors # {} /\ Preassigned \subseteq Vendors /\ Default \in Models
    /\ NoHandle \notin Handles /\ NoCall \notin Calls
    /\ {NoModel, Torn} \cap Models = {} /\ NoModel # Torn
    /\ MaxStamp \in Nat

VARIABLES
    inflight,     \* .ai-room/inflight: at most one file per path
    settings,     \* .ai-room/sessions: what each conversation runs with
    ledger,       \* .ai-room/ledger.md, one write after another
    lock,         \* who holds ledger.lock
    run,          \* what each process is doing
    used          \* the handles that exist, per vendor

dispatchVars == <<inflight, settings, ledger, lock, run, used>>

\* A record that was emptied and not filled names no session.
Paths == Vendors \X {PidOf[c] : c \in Calls}
ASSUME PathAssumption == NoPath \notin Paths

Inflights == [path: Paths, session: Handles \cup {NoHandle}, at: 0..MaxStamp]
Statuses == {"reported", "timeout", "failed"}
Entries == [to: Vendors, session: Handles \cup {NoHandle}]
Writes == [header: BOOLEAN, entry: Entries]
Busy == {"prepare", "preparing", "invoke", "running", "keep", "keeping",
         "append", "write", "clear", "report"}
Runs == [pc: Busy \cup {"new", "over", "dead"},
         pump: {"idle", "remember", "remembering", "record", "filling"},
         to: Vendors, noLedger: BOOLEAN,
         pre: Handles \cup {NoHandle}, resume: Handles \cup {NoHandle},
         model: Models \cup {NoModel}, said: Handles \cup {NoHandle},
         heard: Handles \cup {NoHandle}, path: Paths \cup {NoPath},
         status: Statuses, output: {"open", "drained", "abandoned"},
         empty: BOOLEAN, kept: BOOLEAN]

DispatchTypeOK ==
    /\ inflight \subseteq Inflights
    /\ \A f, g \in inflight : f.path = g.path => f = g
    /\ settings \in [Vendors \X Handles -> Models \cup {NoModel, Torn}]
    /\ ledger \in Seq(Writes)
    /\ lock \in Calls \cup {NoCall}
    /\ run \in [Calls -> Runs]
    /\ \A c \in Calls : run[c].pc \in Busy => run[c].model \in Models
    /\ used \subseteq Vendors \X Handles

NewRun == [pc |-> "new", pump |-> "idle", to |-> CHOOSE v \in Vendors : TRUE,
           noLedger |-> FALSE, pre |-> NoHandle, resume |-> NoHandle,
           model |-> NoModel, said |-> NoHandle, heard |-> NoHandle,
           path |-> NoPath, status |-> "reported",
           output |-> "open", empty |-> FALSE, kept |-> FALSE]

DispatchInit ==
    /\ inflight = {} /\ ledger = <<>> /\ used = {}
    /\ lock = NoCall
    /\ settings = [k \in Vendors \X Handles |-> NoModel]
    /\ run = [c \in Calls |-> NewRun]

IsBusy(c) == run[c].pc \in Busy

Goto(c, label) == run' = [run EXCEPT ![c].pc = label]

\* The process is gone, and with it its reading thread and what it knew; how the
\* sub-agent of a killed one ended is told to nobody.
End(c, label) ==
    run' = [run EXCEPT ![c].pc = label, ![c].pump = "idle", ![c].heard = NoHandle,
                       ![c].empty = FALSE, ![c].noLedger = FALSE,
                       ![c].status = IF label = "dead" THEN "reported" ELSE @]

-----------------------------------------------------------------------------
(* The files.                                                              *)

PathOf(c) == <<run[c].to, PidOf[c]>>

\* record_inflight: the file is named after the vendor and the process, and
\* replaces whatever has that name.
Recorded(c, h, at) ==
    {f \in inflight : f.path # PathOf(c)}
        \cup {[path |-> PathOf(c), session |-> h, at |-> at]}

\* The time has whole seconds and only its order among the records is used: a new
\* record is as old as the newest of the others, or newer.
Stamps(c) ==
    LET others == {f.at : f \in {g \in inflight : g.path # PathOf(c)}}
    IN  IF others = {} THEN {0} ELSE {Max(others), Max(others) + 1} \cap 0..MaxStamp

\* record_settings is skipped without a handle and under --no-ledger.
KeepsNothing(c, h) == h = NoHandle \/ run[c].noLedger

\* record_settings, first half: the thread th empties the file.  (A write that
\* fails is ignored there; here the disk takes it.)
Empties(c, h, th, half, next) ==
    \/ /\ ~KeepsNothing(c, h)
       /\ settings' = [settings EXCEPT ![<<run[c].to, h>>] = Torn]
       /\ run' = [run EXCEPT ![c][th] = half]
    \/ /\ KeepsNothing(c, h)
       /\ run' = [run EXCEPT ![c][th] = next]
       /\ UNCHANGED settings

\* Second half: it fills the file.
Fills(c, h, th, next) ==
    /\ settings' = [settings EXCEPT ![<<run[c].to, h>>] = run[c].model]
    /\ run' = [run EXCEPT ![c][th] = next]

\* list_inflight, newest first: the first of those for the vendor asked for.
\* The stamps have whole seconds, so several may be the newest; a file that
\* does not parse is passed over.
NewestInflight(vendors) ==
    LET found == {f \in inflight : f.path[1] \in vendors /\ f.session # NoHandle}
    IN  {f \in found : \A g \in found : f.at >= g.at}

IsKept(v, h) == h # NoHandle /\ settings[<<v, h>>] \in Models

\* mutant: whatever the file holds is used
ModelOfFile(v, h, flag) ==
    CASE flag # NoModel -> flag
      [] flag = NoModel /\ h # NoHandle /\ settings[<<v, h>>] # NoModel -> settings[<<v, h>>]
      [] OTHER -> Default

\* _resolve_settings: the flag, else what the conversation is recorded to run
\* with, else (no record, or one that does not parse) the vendor's default.
ModelFor(v, h, flag) ==
    CASE flag # NoModel -> flag
      [] flag = NoModel /\ IsKept(v, h) -> settings[<<v, h>>]
      [] OTHER -> Default

-----------------------------------------------------------------------------
(* ask and resume.                                                         *)

\* A process id is not given out while its process lives.
IsPidFree(c) == \A d \in Calls : PidOf[d] = PidOf[c] => ~IsBusy(d)

Begin(c, v, pre, resume) ==
    /\ run[c].pc = "new"
    /\ IsPidFree(c)
    /\ \E flag \in Models \cup {NoModel}, noLedger \in BOOLEAN :
          run' = [run EXCEPT ![c] =
                    [@ EXCEPT !.pc = "prepare", !.to = v, !.pre = pre,
                              !.resume = resume, !.noLedger = noLedger,
                              !.model = ModelFor(v, resume, flag)]]

\* A vendor whose handle can be chosen gets a new one.
Ask(c) ==
    /\ \E v \in Vendors :
          IF v \in Preassigned
          THEN \E h \in Handles :
                  /\ <<v, h>> \notin used
                  /\ used' = used \cup {<<v, h>>}
                  /\ Begin(c, v, h, NoHandle)
          ELSE Begin(c, v, NoHandle, NoHandle) /\ UNCHANGED used
    /\ UNCHANGED <<inflight, settings, ledger, lock>>

\* resume without --session: the newest run left in flight, of any vendor or
\* of the one named by --to.
ResumeListed(c) ==
    /\ \E vendors \in {Vendors} \cup {{v} : v \in Vendors} :
          \E f \in NewestInflight(vendors) :
             Begin(c, f.path[1], NoHandle, f.session)
    /\ UNCHANGED <<inflight, settings, ledger, lock, used>>

\* The conversations a caller can name: those in the ledger, and those a process
\* announced that ended by itself, whose result told him (--no-ledger or not).
Named ==
    {<<ledger[i].entry.to, ledger[i].entry.session>> : i \in DOMAIN ledger}
        \cup {<<run[d].to, run[d].said>> : d \in {e \in Calls : run[e].pc = "over"}}

\* resume --to --session.
ResumeHandle(c) ==
    /\ \E e \in Named :
          e[2] # NoHandle /\ Begin(c, e[1], NoHandle, e[2])
    /\ UNCHANGED <<inflight, settings, ledger, lock, used>>

\* A handle known beforehand has its settings on disk before the run starts.
Known(c) == IF run[c].pre # NoHandle THEN run[c].pre ELSE run[c].resume

Prepare(c) ==
    /\ \/ run[c].pc = "prepare" /\ Empties(c, Known(c), "pc", "preparing", "invoke")
       \/ run[c].pc = "preparing" /\ Fills(c, Known(c), "pc", "invoke")
    /\ UNCHANGED <<inflight, ledger, lock, used>>

\* driver.invoke starts the vendor's CLI, or fails with DriverError.
Invoke(c) ==
    /\ run[c].pc = "invoke"
    /\ \/ Goto(c, "running")
       \/ run' = [run EXCEPT ![c].pc = "append", ![c].status = "failed"]
    /\ UNCHANGED <<inflight, settings, ledger, lock, used>>

\* The sub-agent's output is read to its end, or, when run_cli did not wait for
\* that, for as long as the process lives.
IsReading(c) ==
    \/ run[c].pc = "running"
    \/ IsBusy(c) /\ run[c].output = "abandoned"

\* The handles a conversation may be announced under: the resumed one, the
\* preassigned one, or a new one of the vendor's own.
Announced(c) ==
    {h \in Handles : h \in {run[c].pre, run[c].resume} \/ <<run[c].to, h>> \notin used}

\* The first line that names a handle; later ones are ignored.
Announce(c) ==
    /\ IsReading(c) /\ run[c].said = NoHandle
    /\ \E h \in Announced(c) :
          /\ used' = used \cup {<<run[c].to, h>>}
          /\ run' = [run EXCEPT ![c].said = h,
                        ![c].pump = IF run[c].noLedger THEN "idle" ELSE "remember"]
    /\ UNCHANGED <<inflight, settings, ledger, lock>>

\* mutant: the record comes before the settings
RecordFirst(c) ==
    /\ IsBusy(c) /\ run[c].pump = "remember"
    /\ \E at \in Stamps(c) : inflight' = Recorded(c, run[c].said, at)
    /\ run' = [run EXCEPT ![c].pump = "remembering", ![c].path = PathOf(c)]
    /\ UNCHANGED <<settings, ledger, lock, used>>

\* remember: the settings first,
Remember(c) ==
    /\ IsBusy(c)
    /\ \/ run[c].pump = "remember"
             /\ Empties(c, run[c].said, "pump", "remembering", "record")
       \/ run[c].pump = "remembering" /\ Fills(c, run[c].said, "pump", "record")
    /\ UNCHANGED <<inflight, ledger, lock, used>>

\* then the record, emptied and filled; a failing write is ignored and the path
\* of the file not kept, the run goes on.
Record(c) ==
    /\ IsBusy(c)
    /\ \/ /\ run[c].pump = "record"
          /\ inflight' = Recorded(c, NoHandle, 0)
          /\ run' = [run EXCEPT ![c].pump = "filling"]
       \/ /\ run[c].pump = "filling"
          /\ \E at \in Stamps(c) : inflight' = Recorded(c, run[c].said, at)
          /\ run' = [run EXCEPT ![c].pump = "idle", ![c].path = PathOf(c)]
       \/ /\ run[c].pump \in {"record", "filling"}
          /\ run' = [run EXCEPT ![c].pump = "idle"]
          /\ UNCHANGED inflight
    /\ UNCHANGED <<settings, ledger, lock, used>>

\* mutant: the record is dropped as soon as the sub-agent is done
FinishAndClear(c) ==
    /\ run[c].pc = "running"
    /\ \E status \in {"reported", "timeout"}, output \in {"drained", "abandoned"} :
          /\ output = "drained" => run[c].pump = "idle"
          /\ run' = [run EXCEPT ![c].pc = "keep", ![c].status = status,
                                ![c].output = output, ![c].heard = run[c].said]
    /\ inflight' = {f \in inflight : f.path # run[c].path}
    /\ UNCHANGED <<settings, ledger, lock, used>>

\* The sub-agent ends, or run_cli ends it: silent for too long, or never done.
\* What was read by then is what the dispatch reports.
Finish(c) ==
    /\ run[c].pc = "running"
    /\ \E status \in {"reported", "timeout"}, output \in {"drained", "abandoned"} :
          /\ output = "drained" => run[c].pump = "idle"
          /\ run' = [run EXCEPT ![c].pc = "keep", ![c].status = status,
                                ![c].output = output, ![c].heard = run[c].said]
    /\ UNCHANGED <<inflight, settings, ledger, lock, used>>

\* The handle the dispatch reports, as its drivers and _timed_out work it out.
\* A stream is taken to name one conversation: the parsers report the last id in
\* it, the watcher announces the first.
SessionIn(c) ==
    LET asked == IF run[c].resume # NoHandle THEN run[c].resume
                 ELSE IF run[c].status = "timeout" THEN run[c].pre ELSE NoHandle
    IN  IF run[c].status = "failed" THEN NoHandle
        ELSE IF run[c].heard # NoHandle THEN run[c].heard ELSE asked

Keep(c) ==
    /\ \/ run[c].pc = "keep" /\ Empties(c, SessionIn(c), "pc", "keeping", "append")
       \/ run[c].pc = "keeping" /\ Fills(c, SessionIn(c), "pc", "append")
    /\ UNCHANGED <<inflight, ledger, lock, used>>

-----------------------------------------------------------------------------
(* _record_ledger.                                                         *)

\* stream.tell() tells whether the file is still empty.
TakesLock(c) ==
    /\ lock' = c
    /\ run' = [run EXCEPT ![c].pc = "write", ![c].empty = (ledger = <<>>)]

\* mutant: nobody waits for the lock
LockAnyway(c) ==
    /\ run[c].pc = "append"
    /\ \/ ~run[c].noLedger /\ TakesLock(c)
       \/ run[c].noLedger /\ Goto(c, "clear") /\ UNCHANGED lock
    /\ UNCHANGED <<inflight, settings, ledger, used>>

\* append_ledger waits for the lock; --no-ledger skips it.  When the lock does
\* not come free in time (on Windows) or a file cannot be opened, the command
\* dies with the error.
LockLedger(c) ==
    /\ run[c].pc = "append"
    /\ \/ ~run[c].noLedger /\ lock = NoCall /\ TakesLock(c)
       \/ ~run[c].noLedger /\ End(c, "dead") /\ UNCHANGED lock
       \/ run[c].noLedger /\ Goto(c, "clear") /\ UNCHANGED lock
    /\ UNCHANGED <<inflight, settings, ledger, used>>

\* One write, which starts with the header if the file was empty, and the lock
\* is given back.
WriteLedger(c) ==
    /\ run[c].pc = "write"
    /\ ledger' = Append(ledger, [header |-> run[c].empty,
                                 entry |-> [to |-> run[c].to, session |-> SessionIn(c)]])
    /\ lock' = NoCall
    /\ run' = [run EXCEPT ![c].pc = "clear", ![c].empty = FALSE]
    /\ UNCHANGED <<inflight, settings, used>>

\* mutant: a run that timed out leaves its record
ClearIfReported(c) ==
    /\ run[c].pc = "clear"
    /\ inflight' = IF run[c].status = "timeout" THEN inflight
                   ELSE {f \in inflight : f.path # run[c].path}
    /\ Goto(c, "report")
    /\ UNCHANGED <<settings, ledger, lock, used>>

\* clear_inflight: the record this process wrote, if it wrote one by now.  That
\* the system refuses to remove the file (it is open elsewhere) is not an error:
\* the record stays.
ClearInflight(c) ==
    /\ run[c].pc = "clear"
    /\ \/ /\ inflight' = {f \in inflight : f.path # run[c].path}
          /\ Goto(c, "report")
       \/ /\ run[c].path # NoPath
          /\ run' = [run EXCEPT ![c].pc = "report", ![c].kept = TRUE]
          /\ UNCHANGED inflight
    /\ UNCHANGED <<settings, ledger, lock, used>>

\* The result is printed and the process exits, its reading thread with it.
ExitProcess(c) ==
    /\ run[c].pc = "report"
    /\ End(c, "over")
    /\ UNCHANGED <<inflight, settings, ledger, lock, used>>

\* The caller's shell kills the ai-room process; the system frees its lock.
Kill(c) ==
    /\ IsBusy(c)
    /\ lock' = IF lock = c THEN NoCall ELSE lock
    /\ End(c, "dead")
    /\ UNCHANGED <<inflight, settings, ledger, used>>

DispatchNext ==
    \E c \in Calls :
        \/ Ask(c) \/ ResumeListed(c) \/ ResumeHandle(c)
        \/ Prepare(c) \/ Invoke(c) \/ Announce(c) \/ Remember(c) \/ Record(c)
        \/ Finish(c) \/ Keep(c) \/ LockLedger(c) \/ WriteLedger(c)
        \/ ClearInflight(c) \/ ExitProcess(c) \/ Kill(c)

DispatchSpec == DispatchInit /\ [][DispatchNext]_dispatchVars

-----------------------------------------------------------------------------
(* What a dispatch promises.                                               *)

IsListed(v, h) == \E f \in inflight : f.path[1] = v /\ f.session = h

IsInLedger(v, h) ==
    \E i \in DOMAIN ledger : ledger[i].entry = [to |-> v, session |-> h]

\* A handle once recorded is found again, in flight or in the ledger, wherever
\* the process that ran the turn was killed: a turn that was billed can always
\* be continued (inflight.py: without it "the caller's only remaining move is
\* to dispatch the same task again and pay for it twice").  Only a handle that
\* is announced after run_cli gave up the output may be in neither.
NoHandleForgotten ==
    \A c \in Calls :
        run[c].path # NoPath /\ run[c].output # "abandoned" =>
            \/ IsListed(run[c].to, run[c].said)
            \/ IsInLedger(run[c].to, run[c].said)

\* What is left in flight was cut short: its process runs, was killed or failed
\* to write the ledger; a run that reported back is not offered again (inflight.py:
\* "Whatever is left behind is therefore exactly the set of runs that were
\* killed from outside").  The two exceptions the code has are a handle recorded
\* after the output was given up, and a record the system refused to remove.
LeftBehindWasCutShort ==
    \A f \in inflight :
        f.session # NoHandle =>
            \E c \in Calls :
                /\ PathOf(c) = f.path /\ run[c].said = f.session
                /\ \/ run[c].pc \in Busy \cup {"dead"}
                   \/ run[c].output = "abandoned" \/ run[c].kept

\* The handles whose settings a call may write.
Touched(c) == {run[c].pre, run[c].resume, run[c].said}

\* As long as nobody else continued the conversation of a recorded handle, a
\* resume finds the model its turn ran on, wherever that turn was killed: the
\* settings are on disk before the record that leads to them.  Only a kill
\* while the finished run empties and fills them once more loses them.
SettingsOutliveRun ==
    \A c \in Calls :
        LET v == run[c].to
            h == run[c].said
        IN  /\ run[c].path # NoPath
            /\ \A d \in Calls \ {c} : run[d].to = v => h \notin Touched(d)
            => \/ settings[<<v, h>>] = run[c].model
               \/ settings[<<v, h>>] = Torn /\ run[c].pc \in {"keeping", "dead"}

\* The ledger has one header, above everything else, however many dispatches
\* finish at the same moment and wherever one is killed (ledger.py: "the header
\* goes in only while the file is still empty").
OneHeader == \A i \in DOMAIN ledger : ledger[i].header <=> i = 1

\* Once a resume reported back, the record it consumed is gone: another resume
\* does not pick up, and pay for, what is finished (test_cli_ask.py: "Only runs
\* killed from outside may remain, or resume picks a finished one").
ResumedIsNotListed ==
    \A c \in Calls :
        /\ run[c].pc = "over" /\ run[c].resume # NoHandle
        /\ run[c].status = "reported" /\ run[c].output = "drained" /\ ~run[c].kept
        /\ \A d \in Calls \ {c} :
              IsBusy(d) => run[d].to # run[c].to \/ run[c].resume \notin Touched(d)
        => ~IsListed(run[c].to, run[c].resume)
=============================================================================
