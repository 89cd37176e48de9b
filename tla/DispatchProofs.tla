--------------------------- MODULE DispatchProofs ---------------------------
(***************************************************************************)
(* Theorems about the dispatches, for any number of processes, vendors and *)
(* conversations.                                                          *)
(*                                                                         *)
(* Most of what a dispatch promises rests on what its own process did so   *)
(* far (Sound), and is broken by no other: the others write their own      *)
(* files, and the ledger under its lock.                                   *)
(***************************************************************************)
EXTENDS Dispatch, TLAPS

USE DispatchAssumption

-----------------------------------------------------------------------------
(* The types.                                                              *)

Files ==
    /\ inflight \subseteq Inflights
    /\ \A f, g \in inflight : f.path = g.path => f = g
    /\ settings \in [Vendors \X Handles -> Models \cup {NoModel, Torn}]
    /\ used \subseteq Vendors \X Handles

Ledger == ledger \in Seq(Writes) /\ lock \in Calls \cup {NoCall}

Processes ==
    /\ run \in [Calls -> Runs]
    /\ \A c \in Calls : run[c].pc \in Busy => run[c].model \in Models

LEMMA TypeOfParts == DispatchTypeOK <=> Files /\ Ledger /\ Processes
BY DEF DispatchTypeOK, Files, Ledger, Processes

LEMMA NewRunType == NewRun \in Runs
BY DEF NewRun, Runs, Statuses

LEMMA ModelForType ==
  ASSUME Files, NEW v \in Vendors, NEW h \in Handles \cup {NoHandle},
         NEW flag \in Models \cup {NoModel}
  PROVE  ModelFor(v, h, flag) \in Models
BY DEF ModelFor, IsKept, Files

LEMMA SessionInType ==
  ASSUME Processes, NEW c \in Calls
  PROVE  SessionIn(c) \in Handles \cup {NoHandle}
BY DEF SessionIn, Processes, Runs

\* What Begin needs: a handle, a vendor, and a process that is not running yet.
LEMMA BeginType ==
  ASSUME Files, Processes, NEW c \in Calls, NEW v \in Vendors,
         NEW pre \in Handles \cup {NoHandle}, NEW resume \in Handles \cup {NoHandle},
         Begin(c, v, pre, resume)
  PROVE  Processes'
<1>1. PICK flag \in Models \cup {NoModel}, noLedger \in BOOLEAN :
         run' = [run EXCEPT ![c] =
                    [@ EXCEPT !.pc = "prepare", !.to = v, !.pre = pre,
                              !.resume = resume, !.noLedger = noLedger,
                              !.model = ModelFor(v, resume, flag)]]
  BY DEF Begin
<1>2. PICK m \in Models : m = ModelFor(v, resume, flag)
  BY ModelForType
<1> DEFINE r == [run[c] EXCEPT !.pc = "prepare", !.to = v, !.pre = pre,
                              !.resume = resume, !.noLedger = noLedger, !.model = m]
<1>3. run[c] \in Runs /\ "prepare" \in Busy
  BY DEF Processes, Busy
<1>4. r \in Runs /\ r.model = m
  BY <1>3 DEF Runs
<1>5. run' = [run EXCEPT ![c] = r]
  BY <1>1, <1>2
<1> HIDE DEF r
<1>6. QED
  BY <1>4, <1>5 DEF Processes

\* A busy process may change anything but its model.
LEMMA StepType ==
  ASSUME Processes, NEW c \in Calls, run[c].pc \in Busy,
         NEW r \in Runs, r.model = run[c].model, run' = [run EXCEPT ![c] = r]
  PROVE  Processes'
BY DEF Processes

LEMMA GotoType ==
  ASSUME Processes, NEW c \in Calls, run[c].pc \in Busy,
         NEW th \in {"pc"}, NEW label \in Busy, run' = [run EXCEPT ![c][th] = label]
  PROVE  Processes'
<1> DEFINE r == [run[c] EXCEPT ![th] = label]
<1>1. r \in Runs /\ r.model = run[c].model
  BY DEF Processes, Runs
<1>2. run' = [run EXCEPT ![c] = r]
  OBVIOUS
<1>3. QED
  BY <1>1, <1>2, StepType

LEMMA PumpType ==
  ASSUME Processes, NEW c \in Calls, run[c].pc \in Busy, NEW th \in {"pump"},
         NEW label \in {"idle", "remember", "remembering", "record", "filling"},
         run' = [run EXCEPT ![c][th] = label]
  PROVE  Processes'
<1> DEFINE r == [run[c] EXCEPT ![th] = label]
<1>1. r \in Runs /\ r.model = run[c].model
  BY DEF Processes, Runs
<1>2. run' = [run EXCEPT ![c] = r]
  OBVIOUS
<1>3. QED
  BY <1>1, <1>2, StepType

LEMMA EndType ==
  ASSUME Processes, NEW c \in Calls, run[c].pc \in Busy, NEW label \in {"over", "dead"},
         End(c, label)
  PROVE  Processes'
<1> DEFINE s == IF label = "dead" THEN "reported" ELSE run[c].status
           r == [run[c] EXCEPT !.pc = label, !.pump = "idle", !.heard = NoHandle,
                              !.empty = FALSE, !.noLedger = FALSE, !.status = s]
<1>1. run[c] \in Runs
  BY DEF Processes
<1>2. s \in Statuses
  BY <1>1 DEF Runs, Statuses
<1>3. run' = [run EXCEPT ![c] = r]
  BY DEF End
<1> HIDE DEF s
<1>4. r \in Runs /\ r.model = run[c].model
  BY <1>1, <1>2 DEF Runs
<1>5. QED
  BY <1>3, <1>4, StepType

LEMMA RecordedType ==
  ASSUME Files, Processes, NEW c \in Calls, NEW h \in Handles \cup {NoHandle},
         NEW at \in 0..MaxStamp, inflight' = Recorded(c, h, at),
         UNCHANGED <<settings, used>>
  PROVE  Files'
<1>1. PathOf(c) \in Paths
  BY DEF PathOf, Paths, Processes, Runs
<1>2. QED
  BY <1>1 DEF Files, Recorded, Inflights

\* A thread empties a settings file, or fills it.
LEMMA SettingsType ==
  ASSUME Files, Processes, NEW c \in Calls, run[c].pc \in Busy,
         NEW h, NEW th, NEW half, NEW next,
         Empties(c, h, th, half, next) \/ Fills(c, h, th, next),
         UNCHANGED <<inflight, used>>
  PROVE  Files'
<1>1. run[c].model \in Models
  BY DEF Processes
<1>2. settings' = settings \/ \E k, x : /\ settings' = [settings EXCEPT ![k] = x]
                                       /\ x \in Models \cup {Torn}
  BY <1>1 DEF Empties, Fills
<1>3. settings' \in [Vendors \X Handles -> Models \cup {NoModel, Torn}]
  BY <1>2 DEF Files
<1>4. QED
  BY <1>3 DEF Files

LEMMA FinishedType ==
  ASSUME NEW q \in Runs, NEW s \in Statuses, NEW o \in {"drained", "abandoned"},
         NEW r, r = [q EXCEPT !.pc = "keep", !.status = s, !.output = o, !.heard = q.said]
  PROVE  r \in Runs /\ r.model = q.model
<1>1. "keep" \in Busy /\ q.said \in Handles \cup {NoHandle}
  BY DEF Busy, Runs
<1>2. r.model = q.model
  BY DEF Runs
<1>3. r \in Runs
  BY <1>1 DEF Runs
<1>4. QED
  BY <1>2, <1>3

\* The other steps of the main thread, with what else they set.
LEMMA MainSteps ==
  ASSUME NEW q \in Runs
  PROVE  /\ LET r == [q EXCEPT !.pc = "append", !.status = "failed"]
            IN  r \in Runs /\ r.model = q.model
         /\ \A b \in BOOLEAN : LET r == [q EXCEPT !.pc = "write", !.empty = b]
                              IN  r \in Runs /\ r.model = q.model
         /\ LET r == [q EXCEPT !.pc = "clear", !.empty = FALSE]
            IN  r \in Runs /\ r.model = q.model
<1>1. {"append", "write", "clear"} \subseteq Busy /\ "failed" \in Statuses
  BY DEF Busy, Statuses
<1>2. LET r == [q EXCEPT !.pc = "append", !.status = "failed"]
      IN  r \in Runs /\ r.model = q.model
  BY <1>1 DEF Runs
<1>3. ASSUME NEW b \in BOOLEAN
      PROVE  LET r == [q EXCEPT !.pc = "write", !.empty = b]
             IN  r \in Runs /\ r.model = q.model
  BY <1>1 DEF Runs
<1>4. LET r == [q EXCEPT !.pc = "clear", !.empty = FALSE]
      IN  r \in Runs /\ r.model = q.model
  BY <1>1 DEF Runs
<1>5. QED
  BY <1>2, <1>3, <1>4

LEMMA StepKeepsTypes ==
  ASSUME Files, Ledger, Processes, [DispatchNext]_dispatchVars
  PROVE  Files' /\ Ledger' /\ Processes'
<1> USE DEF IsBusy
<1>1. ASSUME NEW c \in Calls, Ask(c)
      PROVE  Files' /\ Ledger' /\ Processes'
  <2>1. Ledger'
    BY <1>1 DEF Ask, Ledger
  <2>2. PICK v \in Vendors :
           IF v \in Preassigned
           THEN \E h \in Handles :
                   /\ <<v, h>> \notin used
                   /\ used' = used \cup {<<v, h>>}
                   /\ Begin(c, v, h, NoHandle)
           ELSE Begin(c, v, NoHandle, NoHandle) /\ UNCHANGED used
    BY <1>1 DEF Ask
  <2>3. Files'
    BY <1>1, <2>2 DEF Ask, Files
  <2>4. Processes'
    BY <2>2, BeginType
  <2>5. QED
    BY <2>1, <2>3, <2>4
<1>2. ASSUME NEW c \in Calls, ResumeListed(c)
      PROVE  Files' /\ Ledger' /\ Processes'
  <2>1. Files' /\ Ledger'
    BY <1>2 DEF ResumeListed, Ledger, Files
  <2>2. PICK f \in inflight : Begin(c, f.path[1], NoHandle, f.session)
    BY <1>2 DEF ResumeListed, NewestInflight
  <2>3. f.path[1] \in Vendors /\ f.session \in Handles \cup {NoHandle}
    BY DEF Files, Inflights, Paths
  <2>4. QED
    BY <2>1, <2>2, <2>3, BeginType
<1>3. ASSUME NEW c \in Calls, ResumeHandle(c)
      PROVE  Files' /\ Ledger' /\ Processes'
  <2>1. Files' /\ Ledger'
    BY <1>3 DEF ResumeHandle, Ledger, Files
  <2>2. PICK e \in Named : Begin(c, e[1], NoHandle, e[2])
    BY <1>3 DEF ResumeHandle
  <2>3. \A i \in DOMAIN ledger : ledger[i] \in Writes
    BY DEF Ledger
  <2>4. \A d \in Calls : run[d] \in Runs
    BY DEF Processes
  <2>5. e[1] \in Vendors /\ e[2] \in Handles \cup {NoHandle}
    BY <2>3, <2>4 DEF Named, Writes, Entries, Runs
  <2>6. QED
    BY <2>1, <2>2, <2>5, BeginType
<1>4. ASSUME NEW c \in Calls, Prepare(c) \/ Keep(c)
      PROVE  Files' /\ Ledger' /\ Processes'
  <2>1. run[c].pc \in Busy
    BY <1>4 DEF Prepare, Keep, Busy
  <2>2. Files'
    BY <1>4, <2>1, SettingsType DEF Prepare, Keep
  <2>3. \E label \in Busy : run' = [run EXCEPT ![c]["pc"] = label]
    BY <1>4 DEF Prepare, Keep, Empties, Fills, Busy
  <2>4. QED
    BY <1>4, <2>1, <2>2, <2>3, GotoType DEF Prepare, Keep, Ledger
<1>5. ASSUME NEW c \in Calls, Remember(c)
      PROVE  Files' /\ Ledger' /\ Processes'
  <2>1. run[c].pc \in Busy
    BY <1>5 DEF Remember
  <2>2. Files'
    BY <1>5, <2>1, SettingsType DEF Remember
  <2>3. \E label \in {"remembering", "record"} : run' = [run EXCEPT ![c]["pump"] = label]
    BY <1>5 DEF Remember, Empties, Fills
  <2>4. QED
    BY <1>5, <2>1, <2>2, <2>3, PumpType DEF Remember, Ledger
<1>6. ASSUME NEW c \in Calls, Record(c)
      PROVE  Files' /\ Ledger' /\ Processes'
  <2>1. run[c].pc \in Busy /\ run[c] \in Runs
    BY <1>6 DEF Record, Processes
  <2>2. Files'
    <3>1. run[c].said \in Handles \cup {NoHandle}
      BY <2>1 DEF Runs
    <3>2. Stamps(c) \subseteq 0..MaxStamp /\ 0 \in 0..MaxStamp
      BY DEF Stamps
    <3>3. (\E h \in Handles \cup {NoHandle}, at \in 0..MaxStamp : inflight' = Recorded(c, h, at))
            \/ inflight' = inflight
      BY <1>6, <3>1, <3>2 DEF Record
    <3>4. CASE inflight' = inflight
      BY <1>6, <3>4 DEF Record, Files
    <3>5. QED
      BY <1>6, <3>3, <3>4, RecordedType DEF Record
  <2>3. Processes'
    <3>1. CASE \E label \in {"filling", "idle"} : run' = [run EXCEPT ![c].pump = label]
      BY <2>1, <3>1, PumpType
    <3>2. CASE run' = [run EXCEPT ![c].pump = "idle", ![c].path = PathOf(c)]
      <4> DEFINE r == [run[c] EXCEPT !.pump = "idle", !.path = PathOf(c)]
      <4>1. PathOf(c) \in Paths
        BY <2>1 DEF PathOf, Paths, Runs
      <4>2. r \in Runs /\ r.model = run[c].model
        BY <2>1, <4>1 DEF Runs
      <4>3. run' = [run EXCEPT ![c] = r]
        BY <3>2
      <4>4. QED
        BY <2>1, <4>2, <4>3, StepType
    <3>3. QED
      BY <1>6, <3>1, <3>2 DEF Record
  <2>4. QED
    BY <1>6, <2>2, <2>3 DEF Record, Ledger
<1>7. ASSUME NEW c \in Calls, Invoke(c)
      PROVE  Files' /\ Ledger' /\ Processes'
  <2>1. run[c].pc \in Busy /\ run[c] \in Runs
    BY <1>7 DEF Invoke, Processes, Busy
  <2>2. Files' /\ Ledger'
    BY <1>7 DEF Invoke, Files, Ledger
  <2>3. Processes'
    <3>1. CASE Goto(c, "running")
      BY <2>1, <3>1, GotoType DEF Goto, Busy
    <3>2. CASE run' = [run EXCEPT ![c].pc = "append", ![c].status = "failed"]
      <4> DEFINE r == [run[c] EXCEPT !.pc = "append", !.status = "failed"]
      <4>1. r \in Runs /\ r.model = run[c].model
        BY <2>1, MainSteps
      <4>2. run' = [run EXCEPT ![c] = r]
        BY <3>2
      <4>3. QED
        BY <2>1, <4>1, <4>2, StepType
    <3>3. QED
      BY <1>7, <3>1, <3>2 DEF Invoke
  <2>4. QED
    BY <2>2, <2>3
<1>8. ASSUME NEW c \in Calls, Announce(c)
      PROVE  Files' /\ Ledger' /\ Processes'
  <2>1. run[c].pc \in Busy /\ run[c] \in Runs
    BY <1>8 DEF Announce, IsReading, Processes, Busy
  <2>2. PICK h \in Handles :
           /\ used' = used \cup {<<run[c].to, h>>}
           /\ run' = [run EXCEPT ![c].said = h,
                        ![c].pump = IF run[c].noLedger THEN "idle" ELSE "remember"]
    BY <1>8 DEF Announce, Announced
  <2>3. Files' /\ Ledger'
    BY <1>8, <2>1, <2>2 DEF Announce, Files, Ledger, Runs
  <2> DEFINE r == [run[c] EXCEPT !.said = h,
                     !.pump = IF run[c].noLedger THEN "idle" ELSE "remember"]
  <2>4. r \in Runs /\ r.model = run[c].model
    BY <2>1 DEF Runs
  <2>5. run' = [run EXCEPT ![c] = r]
    BY <2>2
  <2>6. QED
    BY <2>1, <2>3, <2>4, <2>5, StepType
<1>9. ASSUME NEW c \in Calls, Finish(c)
      PROVE  Files' /\ Ledger' /\ Processes'
  <2>1. run[c].pc \in Busy /\ run[c] \in Runs
    BY <1>9 DEF Finish, Processes, Busy
  <2>2. PICK status \in {"reported", "timeout"}, output \in {"drained", "abandoned"} :
           run' = [run EXCEPT ![c].pc = "keep", ![c].status = status,
                              ![c].output = output, ![c].heard = run[c].said]
    BY <1>9 DEF Finish
  <2> DEFINE r == [run[c] EXCEPT !.pc = "keep", !.status = status,
                                 !.output = output, !.heard = run[c].said]
  <2>3. r \in Runs /\ r.model = run[c].model
    <3>1. status \in Statuses
      BY DEF Statuses
    <3>2. output \in {"drained", "abandoned"}
      OBVIOUS
    <3>3. QED
      BY <2>1, <3>1, <3>2, FinishedType
  <2>4. run' = [run EXCEPT ![c] = r]
    BY <2>2
  <2>5. QED
    BY <1>9, <2>1, <2>3, <2>4, StepType DEF Finish, Files, Ledger
<1>10. ASSUME NEW c \in Calls, LockLedger(c)
      PROVE  Files' /\ Ledger' /\ Processes'
  <2>1. run[c].pc \in Busy /\ run[c] \in Runs
    BY <1>10 DEF LockLedger, Processes, Busy
  <2>2. Files' /\ Ledger'
    BY <1>10 DEF LockLedger, TakesLock, Files, Ledger
  <2>3. CASE TakesLock(c)
    <3> DEFINE r == [run[c] EXCEPT !.pc = "write", !.empty = (ledger = <<>>)]
    <3>1. (ledger = <<>>) \in BOOLEAN
      OBVIOUS
    <3>2. r \in Runs /\ r.model = run[c].model
      BY <2>1, <3>1, MainSteps
    <3>3. run' = [run EXCEPT ![c] = r]
      BY <2>3 DEF TakesLock
    <3>4. QED
      BY <2>1, <2>2, <3>2, <3>3, StepType
  <2>4. QED
    BY <1>10, <2>1, <2>2, <2>3, GotoType, EndType DEF LockLedger, Goto, Busy
<1>11. ASSUME NEW c \in Calls, WriteLedger(c)
      PROVE  Files' /\ Ledger' /\ Processes'
  <2>1. run[c].pc \in Busy /\ run[c] \in Runs
    BY <1>11 DEF WriteLedger, Processes, Busy
  <2>2. [header |-> run[c].empty,
         entry |-> [to |-> run[c].to, session |-> SessionIn(c)]] \in Writes
    BY <2>1, SessionInType DEF Writes, Entries, Runs
  <2>3. Files' /\ Ledger'
    BY <1>11, <2>2 DEF WriteLedger, Files, Ledger
  <2> DEFINE r == [run[c] EXCEPT !.pc = "clear", !.empty = FALSE]
  <2>4. r \in Runs /\ r.model = run[c].model
    BY <2>1, MainSteps
  <2>5. run' = [run EXCEPT ![c] = r]
    BY <1>11 DEF WriteLedger
  <2>6. QED
    BY <2>1, <2>3, <2>4, <2>5, StepType
<1>12. ASSUME NEW c \in Calls, ClearInflight(c)
      PROVE  Files' /\ Ledger' /\ Processes'
  <2>1. run[c].pc \in Busy
    BY <1>12 DEF ClearInflight, Busy
  <2>2. Files' /\ Ledger'
    BY <1>12 DEF ClearInflight, Files, Ledger
  <2>3. QED
    BY <1>12, <2>1, <2>2, GotoType DEF ClearInflight, Goto, Busy
<1>13. ASSUME NEW c \in Calls, ExitProcess(c) \/ Kill(c)
      PROVE  Files' /\ Ledger' /\ Processes'
  <2>1. run[c].pc \in Busy
    BY <1>13 DEF ExitProcess, Kill, Busy
  <2>2. Files' /\ Ledger'
    BY <1>13 DEF ExitProcess, Kill, Files, Ledger
  <2>3. QED
    BY <1>13, <2>1, <2>2, EndType DEF ExitProcess, Kill
<1>14. CASE UNCHANGED dispatchVars
  BY <1>14 DEF dispatchVars, Files, Ledger, Processes
<1>15. QED
  BY <1>1, <1>2, <1>3, <1>4, <1>5, <1>6, <1>7, <1>8, <1>9, <1>10, <1>11, <1>12,
     <1>13, <1>14 DEF DispatchNext

-----------------------------------------------------------------------------
(* What a process did so far.                                              *)

Early == {"new", "prepare", "preparing", "invoke"}
Late == {"keep", "keeping", "append", "write", "clear", "report"}

\* A handle is announced to a run that goes on, or whose output was given up;
\* it is recorded once, after that; and a dispatch whose output was drained
\* reports the handle it was told.
Sound(r) ==
    /\ r.pc \in Early \cup {"running"} => r.output = "open" /\ r.status = "reported"
    /\ r.pc \in Early => r.said = NoHandle
    /\ r.status = "failed" => r.output = "open" /\ r.said = NoHandle
    /\ r.said = NoHandle \/ r.noLedger => r.pump = "idle" /\ r.path = NoPath
    /\ r.pump # "idle" => r.path = NoPath
    /\ r.output = "drained" => r.pump = "idle"
    /\ r.pc \in Late \cup {"over"} /\ r.status # "failed" => r.output # "open"
    /\ r.pc \in Late /\ r.output = "drained" => r.heard = r.said

AllSound == \A c \in Calls : Sound(run[c])

LEMMA SoundOfOne ==
  ASSUME Processes, AllSound, NEW c \in Calls, NEW r,
         run' = [run EXCEPT ![c] = r], Sound(r)
  PROVE  AllSound'
BY DEF AllSound, Processes

\* Where a thread goes, when nothing else changes.
LEMMA SoundMain ==
  ASSUME NEW r \in Runs, Sound(r), NEW label \in Busy,
         r.pc \in Early => label \in Early \cup {"running"},
         r.pc \notin Early => r.pc \in Late /\ label \in Late
  PROVE  Sound([r EXCEPT !.pc = label])
BY DEF Sound, Runs, Early, Late

LEMMA SoundPump ==
  ASSUME NEW r \in Runs, Sound(r), r.pump # "idle",
         NEW label \in {"idle", "remembering", "record", "filling"}
  PROVE  Sound([r EXCEPT !.pump = label])
BY DEF Sound, Runs

LEMMA SoundEnd ==
  ASSUME NEW q \in Runs, Sound(q), NEW label \in {"over", "dead"},
         label = "over" => q.pc \in Late
  PROVE  Sound([q EXCEPT !.pc = label, !.pump = "idle", !.heard = NoHandle,
                         !.empty = FALSE, !.noLedger = FALSE,
                         !.status = IF label = "dead" THEN "reported" ELSE @])
BY DEF Sound, Runs, Early, Late

LEMMA SoundFinish ==
  ASSUME NEW q \in Runs, Sound(q), q.pc = "running",
         NEW s \in {"reported", "timeout"}, NEW o \in {"drained", "abandoned"},
         o = "drained" => q.pump = "idle"
  PROVE  Sound([q EXCEPT !.pc = "keep", !.status = s, !.output = o, !.heard = q.said])
BY DEF Sound, Runs, Early, Late

LEMMA SoundAnnounce ==
  ASSUME NEW q \in Runs, Sound(q), NEW h \in Handles,
         q.pc = "running" \/ (q.pc \in Busy /\ q.output = "abandoned"),
         q.said = NoHandle
  PROVE  Sound([q EXCEPT !.said = h, !.pump = IF q.noLedger THEN "idle" ELSE "remember"])
BY DEF Sound, Runs, Early, Late

LEMMA SoundRecord ==
  ASSUME NEW q \in Runs, Sound(q), q.pump # "idle", NEW p
  PROVE  Sound([q EXCEPT !.pump = "idle", !.path = p])
BY DEF Sound, Runs

LEMMA StepKeepsSound ==
  ASSUME Processes, AllSound, [DispatchNext]_dispatchVars
  PROVE  AllSound'
<1> USE DEF IsBusy
<1>1. ASSUME NEW c \in Calls, NEW v, NEW pre, NEW resume, Begin(c, v, pre, resume)
      PROVE  AllSound'
  <2>1. PICK flag \in Models \cup {NoModel}, noLedger \in BOOLEAN :
           run' = [run EXCEPT ![c] =
                    [@ EXCEPT !.pc = "prepare", !.to = v, !.pre = pre,
                              !.resume = resume, !.noLedger = noLedger,
                              !.model = ModelFor(v, resume, flag)]]
    BY <1>1 DEF Begin
  <2> DEFINE r == [run[c] EXCEPT !.pc = "prepare", !.to = v, !.pre = pre,
                              !.resume = resume, !.noLedger = noLedger,
                              !.model = ModelFor(v, resume, flag)]
  <2>2. run[c] \in Runs /\ run[c].pc = "new" /\ Sound(run[c])
    BY <1>1 DEF Begin, Processes, AllSound
  <2>3. Sound(r)
    BY <2>2 DEF Sound, Runs, Early, Late
  <2>4. run' = [run EXCEPT ![c] = r]
    BY <2>1
  <2>5. QED
    BY <2>3, <2>4, SoundOfOne
<1>2. ASSUME NEW c \in Calls, Ask(c) \/ ResumeListed(c) \/ ResumeHandle(c)
      PROVE  AllSound'
  BY <1>1, <1>2 DEF Ask, ResumeListed, ResumeHandle
<1>3. ASSUME NEW c \in Calls, NEW label \in Busy, run' = [run EXCEPT ![c].pc = label],
             run[c].pc \in Early => label \in Early \cup {"running"},
             run[c].pc \notin Early => run[c].pc \in Late /\ label \in Late
      PROVE  AllSound'
  <2> DEFINE r == [run[c] EXCEPT !.pc = label]
  <2>1. run[c] \in Runs /\ Sound(run[c])
    BY DEF Processes, AllSound
  <2>2. Sound(r)
    BY <1>3, <2>1, SoundMain
  <2>3. run' = [run EXCEPT ![c] = r]
    BY <1>3
  <2>4. QED
    BY <2>2, <2>3, SoundOfOne
<1>4. ASSUME NEW c \in Calls, NEW label \in {"idle", "remembering", "record", "filling"},
             run[c].pump # "idle", run' = [run EXCEPT ![c].pump = label]
      PROVE  AllSound'
  <2> DEFINE r == [run[c] EXCEPT !.pump = label]
  <2>1. run[c] \in Runs /\ Sound(run[c])
    BY DEF Processes, AllSound
  <2>2. Sound(r)
    BY <1>4, <2>1, SoundPump
  <2>3. run' = [run EXCEPT ![c] = r]
    BY <1>4
  <2>4. QED
    BY <2>2, <2>3, SoundOfOne
<1>5. ASSUME NEW c \in Calls, NEW label \in {"over", "dead"}, End(c, label),
             label = "over" => run[c].pc \in Late
      PROVE  AllSound'
  <2> DEFINE r == [run[c] EXCEPT !.pc = label, !.pump = "idle", !.heard = NoHandle,
                                 !.empty = FALSE, !.noLedger = FALSE,
                                 !.status = IF label = "dead" THEN "reported" ELSE @]
  <2>1. Sound(r)
    BY <1>5, SoundEnd DEF Processes, AllSound
  <2>2. run' = [run EXCEPT ![c] = r]
    BY <1>5 DEF End
  <2>3. QED
    BY <2>1, <2>2, SoundOfOne
<1>6. ASSUME NEW c \in Calls, Prepare(c)
      PROVE  AllSound'
  BY <1>3, <1>6 DEF Prepare, Empties, Fills, Early, Busy
<1>7. ASSUME NEW c \in Calls, Keep(c)
      PROVE  AllSound'
  BY <1>3, <1>7 DEF Keep, Empties, Fills, Early, Late, Busy
<1>8. ASSUME NEW c \in Calls, Remember(c)
      PROVE  AllSound'
  BY <1>4, <1>8 DEF Remember, Empties, Fills
<1>9. ASSUME NEW c \in Calls, Invoke(c)
      PROVE  AllSound'
  <2>1. CASE Goto(c, "running")
    BY <1>3, <1>9, <2>1 DEF Invoke, Goto, Early, Busy
  <2>2. CASE run' = [run EXCEPT ![c].pc = "append", ![c].status = "failed"]
    <3> DEFINE r == [run[c] EXCEPT !.pc = "append", !.status = "failed"]
    <3>1. run[c] \in Runs /\ run[c].pc = "invoke" /\ Sound(run[c])
      BY <1>9 DEF Invoke, Processes, AllSound
    <3>2. Sound(r)
      BY <3>1 DEF Sound, Runs, Early, Late
    <3>3. run' = [run EXCEPT ![c] = r]
      BY <2>2
    <3>4. QED
      BY <3>2, <3>3, SoundOfOne
  <2>3. QED
    BY <1>9, <2>1, <2>2 DEF Invoke
<1>10. ASSUME NEW c \in Calls, Announce(c)
      PROVE  AllSound'
  <2>1. PICK h \in Handles :
           run' = [run EXCEPT ![c].said = h,
                        ![c].pump = IF run[c].noLedger THEN "idle" ELSE "remember"]
    BY <1>10 DEF Announce, Announced
  <2> DEFINE r == [run[c] EXCEPT !.said = h,
                     !.pump = IF run[c].noLedger THEN "idle" ELSE "remember"]
  <2>2. run[c] \in Runs /\ Sound(run[c])
    BY DEF Processes, AllSound
  <2>3. Sound(r)
    BY <1>10, <2>2, SoundAnnounce DEF Announce, IsReading
  <2>4. run' = [run EXCEPT ![c] = r]
    BY <2>1
  <2>5. QED
    BY <2>3, <2>4, SoundOfOne
<1>11. ASSUME NEW c \in Calls, Record(c)
      PROVE  AllSound'
  <2>1. CASE run' = [run EXCEPT ![c].pump = "idle", ![c].path = PathOf(c)]
    <3> DEFINE r == [run[c] EXCEPT !.pump = "idle", !.path = PathOf(c)]
    <3>1. run[c] \in Runs /\ Sound(run[c]) /\ run[c].pump # "idle"
      BY <1>11 DEF Record, Processes, AllSound
    <3>2. Sound(r)
      BY <3>1, SoundRecord
    <3>3. run' = [run EXCEPT ![c] = r]
      BY <2>1
    <3>4. QED
      BY <3>2, <3>3, SoundOfOne
  <2>2. QED
    BY <1>4, <1>11, <2>1 DEF Record
<1>12. ASSUME NEW c \in Calls, Finish(c)
      PROVE  AllSound'
  <2>1. PICK status \in {"reported", "timeout"}, output \in {"drained", "abandoned"} :
           /\ output = "drained" => run[c].pump = "idle"
           /\ run' = [run EXCEPT ![c].pc = "keep", ![c].status = status,
                                 ![c].output = output, ![c].heard = run[c].said]
    BY <1>12 DEF Finish
  <2> DEFINE r == [run[c] EXCEPT !.pc = "keep", !.status = status,
                                 !.output = output, !.heard = run[c].said]
  <2>2. run[c] \in Runs /\ Sound(run[c]) /\ run[c].pc = "running"
    BY <1>12 DEF Finish, Processes, AllSound
  <2>3. Sound(r)
    BY <2>1, <2>2, SoundFinish
  <2>4. run' = [run EXCEPT ![c] = r]
    BY <2>1
  <2>5. QED
    BY <2>3, <2>4, SoundOfOne
<1>13. ASSUME NEW c \in Calls, LockLedger(c)
      PROVE  AllSound'
  <2>1. CASE TakesLock(c)
    <3> DEFINE r == [run[c] EXCEPT !.pc = "write", !.empty = (ledger = <<>>)]
    <3>1. run[c] \in Runs /\ Sound(run[c]) /\ run[c].pc = "append"
      BY <1>13 DEF LockLedger, Processes, AllSound
    <3>2. Sound(r)
      BY <3>1 DEF Sound, Runs, Early, Late
    <3>3. run' = [run EXCEPT ![c] = r]
      BY <2>1 DEF TakesLock
    <3>4. QED
      BY <3>2, <3>3, SoundOfOne
  <2>2. QED
    BY <1>3, <1>5, <1>13, <2>1 DEF LockLedger, Goto, Early, Late, Busy
<1>14. ASSUME NEW c \in Calls, WriteLedger(c)
      PROVE  AllSound'
  <2> DEFINE r == [run[c] EXCEPT !.pc = "clear", !.empty = FALSE]
  <2>1. run[c] \in Runs /\ Sound(run[c]) /\ run[c].pc = "write"
    BY <1>14 DEF WriteLedger, Processes, AllSound
  <2>2. Sound(r)
    BY <2>1 DEF Sound, Runs, Early, Late
  <2>3. run' = [run EXCEPT ![c] = r]
    BY <1>14 DEF WriteLedger
  <2>4. QED
    BY <2>2, <2>3, SoundOfOne
<1>15. ASSUME NEW c \in Calls, ClearInflight(c)
      PROVE  AllSound'
  BY <1>3, <1>15 DEF ClearInflight, Goto, Early, Late, Busy
<1>16. ASSUME NEW c \in Calls, ExitProcess(c) \/ Kill(c)
      PROVE  AllSound'
  BY <1>5, <1>16 DEF ExitProcess, Kill, Late
<1>17. CASE UNCHANGED dispatchVars
  BY <1>17 DEF dispatchVars, AllSound
<1>18. QED
  BY <1>2, <1>6, <1>7, <1>8, <1>9, <1>10, <1>11, <1>12, <1>13, <1>14, <1>15, <1>16,
     <1>17 DEF DispatchNext

-----------------------------------------------------------------------------
(* The ledger.                                                             *)

\* Who is about to write holds the lock, and what it learned of the file under
\* the lock is still so.
Locked ==
    \A c \in Calls : run[c].pc = "write" =>
        lock = c /\ (run[c].empty <=> ledger = <<>>)

LEMMA StepKeepsHeader ==
  ASSUME Ledger, Processes, Locked, OneHeader, [DispatchNext]_dispatchVars
  PROVE  Locked' /\ OneHeader'
<1> USE DEF IsBusy
<1>1. ASSUME UNCHANGED <<ledger, lock>>,
             \A d \in Calls : run'[d].pc = "write" =>
                run[d].pc = "write" /\ run'[d].empty = run[d].empty
      PROVE  Locked' /\ OneHeader'
  BY <1>1 DEF Locked, OneHeader
<1>2. ASSUME NEW c \in Calls, Ask(c) \/ ResumeListed(c) \/ ResumeHandle(c)
      PROVE  Locked' /\ OneHeader'
  <2>1. UNCHANGED <<ledger, lock>> /\ \E v, pre, resume : Begin(c, v, pre, resume)
    BY <1>2 DEF Ask, ResumeListed, ResumeHandle
  <2> PICK v, pre, resume : Begin(c, v, pre, resume)
    BY <2>1
  <2>2. PICK flag \in Models \cup {NoModel}, noLedger \in BOOLEAN :
           run' = [run EXCEPT ![c] =
                    [@ EXCEPT !.pc = "prepare", !.to = v, !.pre = pre,
                              !.resume = resume, !.noLedger = noLedger,
                              !.model = ModelFor(v, resume, flag)]]
    BY DEF Begin
  <2>3. run'[c].pc = "prepare" /\ \A d \in Calls \ {c} : run'[d] = run[d]
    BY <2>2 DEF Processes, Runs
  <2>4. QED
    BY <1>1, <2>1, <2>3
<1>3. ASSUME NEW c \in Calls, Prepare(c) \/ Keep(c)
      PROVE  Locked' /\ OneHeader'
  <2>1. \E label \in {"preparing", "invoke", "keeping", "append"} :
           run' = [run EXCEPT ![c]["pc"] = label]
    BY <1>3 DEF Prepare, Keep, Empties, Fills
  <2>2. run'[c].pc # "write" /\ \A d \in Calls \ {c} : run'[d] = run[d]
    BY <2>1 DEF Processes, Runs
  <2>3. QED
    BY <1>1, <1>3, <2>2 DEF Prepare, Keep
<1>4. ASSUME NEW c \in Calls, Remember(c)
      PROVE  Locked' /\ OneHeader'
  <2>1. \E label : run' = [run EXCEPT ![c]["pump"] = label]
    BY <1>4 DEF Remember, Empties, Fills
  <2>2. /\ run'[c].pc = run[c].pc /\ run'[c].empty = run[c].empty
        /\ \A d \in Calls \ {c} : run'[d] = run[d]
    BY <2>1 DEF Processes, Runs
  <2>3. QED
    BY <1>1, <1>4, <2>2 DEF Remember
<1>5. ASSUME NEW c \in Calls, Announce(c) \/ Record(c)
      PROVE  Locked' /\ OneHeader'
  <2>1. /\ run'[c].pc = run[c].pc /\ run'[c].empty = run[c].empty
        /\ \A d \in Calls \ {c} : run'[d] = run[d]
    <3>1. CASE Announce(c)
      BY <3>1 DEF Announce, Processes, Runs
    <3>2. CASE run' = [run EXCEPT ![c].pump = "idle", ![c].path = PathOf(c)]
      BY <3>2 DEF Processes, Runs
    <3>3. CASE \E label : run' = [run EXCEPT ![c].pump = label]
      BY <3>3 DEF Processes, Runs
    <3>4. QED
      BY <1>5, <3>1, <3>2, <3>3 DEF Record
  <2>2. QED
    BY <1>1, <1>5, <2>1 DEF Announce, Record
<1>6. ASSUME NEW c \in Calls, Invoke(c) \/ Finish(c) \/ ClearInflight(c)
      PROVE  Locked' /\ OneHeader'
  <2>1. run'[c].pc # "write" /\ \A d \in Calls \ {c} : run'[d] = run[d]
    BY <1>6 DEF Invoke, Finish, ClearInflight, Goto, Processes, Runs
  <2>2. QED
    BY <1>1, <1>6, <2>1 DEF Invoke, Finish, ClearInflight
<1>7. ASSUME NEW c \in Calls, NEW label \in {"over", "dead"}, End(c, label),
             UNCHANGED ledger, lock' = (IF lock = c THEN NoCall ELSE lock)
      PROVE  Locked' /\ OneHeader'
  <2>1. run'[c].pc # "write" /\ \A d \in Calls \ {c} : run'[d] = run[d]
    BY <1>7 DEF End, Processes, Runs
  <2>2. QED
    BY <1>7, <2>1 DEF Locked, OneHeader
<1>8. ASSUME NEW c \in Calls, ExitProcess(c) \/ Kill(c)
      PROVE  Locked' /\ OneHeader'
  <2>1. CASE Kill(c)
    BY <1>7, <2>1 DEF Kill
  <2>2. CASE ExitProcess(c)
    <3>1. run'[c].pc # "write" /\ \A d \in Calls \ {c} : run'[d] = run[d]
      BY <2>2 DEF ExitProcess, End, Processes, Runs
    <3>2. QED
      BY <1>1, <2>2, <3>1 DEF ExitProcess
  <2>3. QED
    BY <1>8, <2>1, <2>2
<1>9. ASSUME NEW c \in Calls, LockLedger(c)
      PROVE  Locked' /\ OneHeader'
  <2>1. CASE lock = NoCall /\ TakesLock(c)
    <3>1. \A d \in Calls : run[d].pc # "write"
      BY <2>1 DEF Locked
    <3>2. run'[c].empty = (ledger = <<>>) /\ \A d \in Calls \ {c} : run'[d] = run[d]
      BY <2>1 DEF TakesLock, Processes, Runs
    <3>3. UNCHANGED ledger /\ lock' = c
      BY <1>9, <2>1 DEF LockLedger, TakesLock
    <3>4. QED
      BY <3>1, <3>2, <3>3 DEF Locked, OneHeader
  <2>2. CASE UNCHANGED lock /\ (End(c, "dead") \/ Goto(c, "clear"))
    <3>1. run'[c].pc # "write" /\ \A d \in Calls \ {c} : run'[d] = run[d]
      BY <2>2 DEF End, Goto, Processes, Runs
    <3>2. QED
      BY <1>1, <1>9, <2>2, <3>1 DEF LockLedger
  <2>3. QED
    BY <1>9, <2>1, <2>2 DEF LockLedger
<1>10. ASSUME NEW c \in Calls, WriteLedger(c)
      PROVE  Locked' /\ OneHeader'
  <2>1. run'[c].pc # "write" /\ \A d \in Calls \ {c} : run'[d] = run[d]
    BY <1>10 DEF WriteLedger, Processes, Runs
  <2>2. lock = c /\ (run[c].empty <=> ledger = <<>>)
    BY <1>10 DEF WriteLedger, Locked
  <2>3. Locked'
    BY <2>1, <2>2 DEF Locked
  <2> DEFINE line == [header |-> run[c].empty,
                      entry |-> [to |-> run[c].to, session |-> SessionIn(c)]]
  <2>4. ledger \in Seq(Writes) /\ ledger' = Append(ledger, line)
    BY <1>10 DEF WriteLedger, Ledger
  <2>5. line.header <=> Len(ledger) + 1 = 1
    BY <2>2, <2>4
  <2> HIDE DEF line
  <2>6. OneHeader'
    BY <2>4, <2>5 DEF OneHeader
  <2>7. QED
    BY <2>3, <2>6
<1>11. CASE UNCHANGED dispatchVars
  BY <1>11, <1>1 DEF dispatchVars
<1>12. QED
  BY <1>2, <1>3, <1>4, <1>5, <1>6, <1>8, <1>9, <1>10, <1>11 DEF DispatchNext

-----------------------------------------------------------------------------
(* The records.                                                            *)

\* No two processes have the same id.
OneIdPerProcess == \A c, d \in Calls : PidOf[c] = PidOf[d] => c = d

Owned == \A c \in Calls : run[c].path # NoPath => run[c].path = PathOf(c)

\* A handle that was recorded is in flight until the ledger has it, and the
\* record is cleared only then.
Found ==
    \A c \in Calls :
        run[c].path # NoPath /\ run[c].output # "abandoned" =>
            \/ /\ run[c].pc # "clear"
               /\ \E f \in inflight : f.path = run[c].path /\ f.session = run[c].said
            \/ IsInLedger(run[c].to, run[c].said)

LEMMA PathsDiffer ==
  ASSUME OneIdPerProcess, NEW c \in Calls, NEW d \in Calls, PathOf(c) = PathOf(d)
  PROVE  c = d
BY DEF OneIdPerProcess, PathOf

\* A ledger with an entry, and what IsInLedger says in terms of it.
Has(l, v, h) == \E i \in DOMAIN l : l[i].entry = [to |-> v, session |-> h]

LEMMA HasEntry == Found <=>
    \A c \in Calls :
        run[c].path # NoPath /\ run[c].output # "abandoned" =>
            \/ /\ run[c].pc # "clear"
               /\ \E f \in inflight : f.path = run[c].path /\ f.session = run[c].said
            \/ Has(ledger, run[c].to, run[c].said)
BY DEF Found, IsInLedger, Has

\* What a step leaves of the process that takes it, when it does nothing to a
\* recorded handle.
Keeps(c) ==
    /\ run'[c].path = run[c].path
    /\ run[c].path # NoPath =>
          /\ run'[c].to = run[c].to /\ run'[c].said = run[c].said
          /\ run'[c].output # "abandoned" => run[c].output # "abandoned"
          /\ run'[c].pc = "clear" => run[c].pc = "clear"

LEMMA QuietStep ==
  ASSUME Processes, Owned, Found, NEW c \in Calls, Keeps(c),
         \A d \in Calls \ {c} : run'[d] = run[d], UNCHANGED <<inflight, ledger>>
  PROVE  Owned' /\ Found'
BY DEF Owned, Found, Keeps, PathOf, IsInLedger

\* The steps that are quiet, and what they change.
LEMMA QuietSteps ==
  ASSUME Processes, AllSound, NEW c \in Calls,
         \/ Ask(c) \/ ResumeListed(c) \/ ResumeHandle(c) \/ Prepare(c) \/ Keep(c)
         \/ Remember(c) \/ Invoke(c) \/ Announce(c) \/ Finish(c) \/ LockLedger(c)
         \/ ExitProcess(c) \/ Kill(c)
  PROVE  Keeps(c) /\ (\A d \in Calls \ {c} : run'[d] = run[d]) /\ UNCHANGED <<inflight, ledger>>
<1> USE DEF Keeps
<1>0. run[c] \in Runs /\ Sound(run[c]) /\ run \in [Calls -> Runs]
  BY DEF Processes, AllSound
<1>1. CASE Ask(c) \/ ResumeListed(c) \/ ResumeHandle(c)
  <2>1. UNCHANGED <<inflight, ledger>> /\ \E v, pre, resume : Begin(c, v, pre, resume)
    BY <1>1 DEF Ask, ResumeListed, ResumeHandle
  <2> PICK v, pre, resume : Begin(c, v, pre, resume)
    BY <2>1
  <2>2. PICK flag \in Models \cup {NoModel}, noLedger \in BOOLEAN :
           run' = [run EXCEPT ![c] =
                    [@ EXCEPT !.pc = "prepare", !.to = v, !.pre = pre,
                              !.resume = resume, !.noLedger = noLedger,
                              !.model = ModelFor(v, resume, flag)]]
    BY DEF Begin
  <2>3. run'[c].path = run[c].path /\ \A d \in Calls \ {c} : run'[d] = run[d]
    BY <1>0, <2>2 DEF Runs
  <2>4. run[c].path = NoPath
    BY <1>0 DEF Begin, Sound, Early
  <2>5. QED
    BY <2>1, <2>3, <2>4
<1>2. ASSUME NEW label, run' = [run EXCEPT ![c].pc = label], label # "clear"
      PROVE  Keeps(c) /\ \A d \in Calls \ {c} : run'[d] = run[d]
  BY <1>0, <1>2 DEF Runs
<1>3. CASE Prepare(c) \/ Keep(c)
  <2>1. \E label : run' = [run EXCEPT ![c].pc = label] /\ label # "clear"
    BY <1>3 DEF Prepare, Keep, Empties, Fills
  <2>2. QED
    BY <1>2, <1>3, <2>1 DEF Prepare, Keep
<1>4. CASE Remember(c)
  <2>1. \E label : run' = [run EXCEPT ![c].pump = label]
    BY <1>4 DEF Remember, Empties, Fills
  <2>2. Keeps(c) /\ \A d \in Calls \ {c} : run'[d] = run[d]
    BY <1>0, <2>1 DEF Runs
  <2>3. QED
    BY <1>4, <2>2 DEF Remember
<1>5. CASE Invoke(c)
  <2>1. CASE Goto(c, "running")
    BY <1>2, <1>5, <2>1 DEF Invoke, Goto
  <2>2. CASE run' = [run EXCEPT ![c].pc = "append", ![c].status = "failed"]
    BY <1>0, <1>5, <2>2 DEF Invoke, Runs
  <2>3. QED
    BY <1>5, <2>1, <2>2 DEF Invoke
<1>6. CASE Announce(c)
  <2>1. run[c].path = NoPath
    BY <1>0, <1>6 DEF Announce, Sound
  <2>2. run'[c].path = run[c].path /\ \A d \in Calls \ {c} : run'[d] = run[d]
    <3>1. \E h, label : run' = [run EXCEPT ![c].said = h, ![c].pump = label]
      BY <1>6 DEF Announce
    <3>2. QED
      BY <1>0, <3>1 DEF Runs
  <2>3. QED
    BY <1>6, <2>1, <2>2 DEF Announce
<1>7. CASE Finish(c)
  <2>1. run[c].output = "open"
    BY <1>0, <1>7 DEF Finish, Sound
  <2>2. /\ run'[c].path = run[c].path /\ run'[c].to = run[c].to
        /\ run'[c].said = run[c].said /\ run'[c].pc = "keep"
        /\ \A d \in Calls \ {c} : run'[d] = run[d]
    BY <1>0, <1>7 DEF Finish, Runs
  <2>3. QED
    BY <1>7, <2>1, <2>2 DEF Finish
<1>8. ASSUME NEW label, End(c, label), label # "clear"
      PROVE  Keeps(c) /\ \A d \in Calls \ {c} : run'[d] = run[d]
  BY <1>0, <1>8 DEF End, Runs
<1>9. CASE ExitProcess(c) \/ Kill(c)
  BY <1>8, <1>9 DEF ExitProcess, Kill
<1>10. CASE LockLedger(c)
  <2>1. CASE TakesLock(c)
    BY <1>0, <1>10, <2>1 DEF LockLedger, TakesLock, Runs
  <2>2. CASE run[c].noLedger /\ Goto(c, "clear")
    <3>1. run[c].path = NoPath
      BY <1>0, <2>2 DEF Sound
    <3>2. run'[c].path = run[c].path /\ \A d \in Calls \ {c} : run'[d] = run[d]
      BY <1>0, <2>2 DEF Goto, Runs
    <3>3. QED
      BY <1>10, <3>1, <3>2 DEF LockLedger
  <2>3. QED
    BY <1>8, <1>10, <2>1, <2>2 DEF LockLedger
<1>11. QED
  BY <1>1, <1>3, <1>4, <1>5, <1>6, <1>7, <1>9, <1>10

LEMMA StepKeepsFound ==
  ASSUME OneIdPerProcess, Files, Ledger, Processes, AllSound, Owned, Found,
         [DispatchNext]_dispatchVars
  PROVE  Owned' /\ Found'
<1>1. ASSUME NEW c \in Calls,
             \/ Ask(c) \/ ResumeListed(c) \/ ResumeHandle(c) \/ Prepare(c) \/ Keep(c)
             \/ Remember(c) \/ Invoke(c) \/ Announce(c) \/ Finish(c) \/ LockLedger(c)
             \/ ExitProcess(c) \/ Kill(c)
      PROVE  Owned' /\ Found'
  BY <1>1, QuietSteps, QuietStep
<1>2. ASSUME NEW c \in Calls, Record(c)
      PROVE  Owned' /\ Found'
  <2>1. run[c] \in Runs /\ Sound(run[c]) /\ run[c].pump # "idle" /\ run[c].path = NoPath
    BY <1>2 DEF Record, Processes, AllSound, Sound
  <2>2. \A d \in Calls \ {c} : run'[d] = run[d]
    BY <1>2 DEF Record, Processes
  <2>3. ASSUME NEW h, NEW at, inflight' = Recorded(c, h, at), NEW d \in Calls \ {c},
               run[d].path # NoPath, NEW f \in inflight, f.path = run[d].path
        PROVE  f \in inflight'
    BY <2>3, PathsDiffer DEF Recorded, Owned
  <2>4. \A d \in Calls : PathOf(d)' = PathOf(d)
    <3>1. run'[c].to = run[c].to
      <4>1. CASE \E label : run' = [run EXCEPT ![c].pump = label]
        BY <4>1, <2>1 DEF Processes, Runs
      <4>2. CASE run' = [run EXCEPT ![c].pump = "idle", ![c].path = PathOf(c)]
        BY <4>2, <2>1 DEF Processes, Runs
      <4>3. QED
        BY <1>2, <4>1, <4>2 DEF Record
    <3>2. QED
      BY <2>2, <3>1 DEF PathOf
  <2>5. UNCHANGED ledger
    BY <1>2 DEF Record
  <2>6. CASE (\E h, at : inflight' = Recorded(c, h, at)) \/ inflight' = inflight
    <3>1. \A d \in Calls \ {c}, f \in inflight :
             run[d].path # NoPath /\ f.path = run[d].path => f \in inflight'
      BY <2>3, <2>6
    <3>2. CASE run'[c].path = NoPath
      BY <2>2, <2>4, <2>5, <3>1, <3>2 DEF Owned, Found, IsInLedger
    <3>3. CASE run' = [run EXCEPT ![c].pump = "idle", ![c].path = PathOf(c)]
               /\ \E at : inflight' = Recorded(c, run[c].said, at)
      <4>1. /\ run'[c].path = PathOf(c) /\ run'[c].said = run[c].said
            /\ run'[c].pc = run[c].pc /\ run'[c].output = run[c].output
        BY <2>1, <3>3 DEF Processes, Runs
      <4>2. \E f \in inflight' : f.path = PathOf(c) /\ f.session = run[c].said
        <5> PICK at : inflight' = Recorded(c, run[c].said, at)
          BY <3>3
        <5> DEFINE g == [path |-> PathOf(c), session |-> run[c].said, at |-> at]
        <5>1. g \in inflight'
          BY DEF Recorded
        <5>2. g.path = PathOf(c) /\ g.session = run[c].said
          OBVIOUS
        <5>3. QED
          BY <5>1, <5>2
      <4>3. run[c].output # "abandoned" => run[c].pc # "clear"
        BY <2>1 DEF Sound, Late, Runs
      <4>4. QED
        BY <2>2, <2>4, <2>5, <3>1, <4>1, <4>2, <4>3 DEF Owned, Found, IsInLedger
    <3>4. QED
      <4>1. CASE \E label : run' = [run EXCEPT ![c].pump = label]
        <5>1. run'[c].path = NoPath
          BY <4>1, <2>1 DEF Processes, Runs
        <5>2. QED
          BY <3>2, <5>1
      <4>2. QED
        BY <1>2, <3>3, <4>1 DEF Record
  <2>7. QED
    BY <1>2, <2>6 DEF Record
<1>3. ASSUME NEW c \in Calls, WriteLedger(c)
      PROVE  Owned' /\ Found'
  <2>1. run[c] \in Runs /\ Sound(run[c]) /\ run[c].pc = "write"
    BY <1>3 DEF WriteLedger, Processes, AllSound
  <2>2. /\ run'[c].path = run[c].path /\ run'[c].to = run[c].to
        /\ run'[c].said = run[c].said /\ run'[c].output = run[c].output
        /\ \A d \in Calls \ {c} : run'[d] = run[d]
    BY <1>3, <2>1 DEF WriteLedger, Processes, Runs
  <2>3. run[c].path # NoPath /\ run[c].output # "abandoned" => SessionIn(c) = run[c].said
    <3> SUFFICES ASSUME run[c].path # NoPath, run[c].output # "abandoned"
                 PROVE  SessionIn(c) = run[c].said
      OBVIOUS
    <3>1. run[c].said # NoHandle /\ run[c].status # "failed"
      BY <2>1 DEF Sound
    <3>2. run[c].output # "open"
      BY <2>1, <3>1 DEF Sound, Late
    <3>3. run[c].output \in {"open", "drained", "abandoned"}
      BY <2>1 DEF Runs
    <3>4. run[c].heard = run[c].said
      BY <2>1, <3>2, <3>3 DEF Sound, Late
    <3>5. SessionIn(c) = run[c].heard
      BY <3>1, <3>4 DEF SessionIn
    <3>6. QED
      BY <3>4, <3>5
  <2> DEFINE line == [header |-> run[c].empty,
                      entry |-> [to |-> run[c].to, session |-> SessionIn(c)]]
  <2>4. ledger \in Seq(Writes) /\ line \in Writes /\ ledger' = Append(ledger, line)
    BY <1>3, <2>1, SessionInType DEF WriteLedger, Ledger, Writes, Entries, Runs
  <2>5. line.entry = [to |-> run[c].to, session |-> SessionIn(c)]
    OBVIOUS
  <2> HIDE DEF line
  <2>6. Has(ledger', run[c].to, SessionIn(c))
    <3>1. ledger'[Len(ledger) + 1] = line /\ Len(ledger) + 1 \in DOMAIN ledger'
      BY <2>4
    <3>2. QED
      BY <2>5, <3>1 DEF Has
  <2>7. \A v, h : Has(ledger, v, h) => Has(ledger', v, h)
    <3>1. \A i \in DOMAIN ledger : i \in DOMAIN ledger' /\ ledger'[i] = ledger[i]
      BY <2>4
    <3>2. QED
      BY <3>1 DEF Has
  <2>8. Owned'
    BY <2>2 DEF Owned, PathOf
  <2>9. ASSUME NEW d \in Calls, run'[d].path # NoPath, run'[d].output # "abandoned"
        PROVE  \/ /\ run'[d].pc # "clear"
                  /\ \E f \in inflight' : f.path = run'[d].path /\ f.session = run'[d].said
               \/ Has(ledger', run'[d].to, run'[d].said)
    <3>1. CASE d = c
      BY <2>2, <2>3, <2>6, <2>9, <3>1
    <3>2. CASE d # c
      <4>1. run'[d] = run[d] /\ UNCHANGED inflight
        BY <1>3, <2>2, <3>2 DEF WriteLedger
      <4>2. QED
        BY <2>7, <2>9, <4>1, HasEntry
    <3>3. QED
      BY <3>1, <3>2
  <2>10. QED
    BY <2>8, <2>9 DEF Found, IsInLedger, Has
<1>4. ASSUME NEW c \in Calls, ClearInflight(c)
      PROVE  Owned' /\ Found'
  <2>1. run[c] \in Runs /\ run[c].pc = "clear"
    BY <1>4 DEF ClearInflight, Processes
  <2>2. /\ run'[c].path = run[c].path /\ run'[c].to = run[c].to
        /\ run'[c].said = run[c].said /\ run'[c].output = run[c].output
        /\ \A d \in Calls \ {c} : run'[d] = run[d]
    BY <1>4, <2>1 DEF ClearInflight, Goto, Processes, Runs
  <2>3. \A d \in Calls \ {c} : run[d].path # NoPath => run[d].path # run[c].path
    BY PathsDiffer DEF Owned
  <2>4. (\A f \in inflight : f.path # run[c].path => f \in inflight') /\ UNCHANGED ledger
    BY <1>4 DEF ClearInflight
  <2>5. Owned'
    BY <2>2 DEF Owned, PathOf
  <2>6. ASSUME NEW d \in Calls, run'[d].path # NoPath, run'[d].output # "abandoned"
        PROVE  \/ /\ run'[d].pc # "clear"
                  /\ \E f \in inflight' : f.path = run'[d].path /\ f.session = run'[d].said
               \/ Has(ledger', run'[d].to, run'[d].said)
    <3>1. CASE d = c
      BY <2>1, <2>2, <2>4, <2>6, <3>1, HasEntry
    <3>2. CASE d # c
      <4>1. run'[d] = run[d]
        BY <2>2, <3>2
      <4>2. \A f \in inflight : f.path = run[d].path => f \in inflight'
        BY <2>3, <2>4, <2>6, <3>2, <4>1
      <4>3. QED
        BY <2>4, <2>6, <4>1, <4>2, HasEntry
    <3>3. QED
      BY <3>1, <3>2
  <2>7. QED
    BY <2>5, <2>6 DEF Found, IsInLedger, Has
<1>5. CASE UNCHANGED dispatchVars
  BY <1>5 DEF dispatchVars, Owned, Found, PathOf, IsInLedger
<1>6. QED
  BY <1>1, <1>2, <1>3, <1>4, <1>5 DEF DispatchNext

-----------------------------------------------------------------------------
(* What is left in flight.                                                 *)

\* Every record is of a process that began, and names the handle it was told;
\* one that reported a drained output left none with a handle, unless the system
\* refused to remove it.
Behind ==
    /\ \A f \in inflight :
          \E c \in Calls :
             /\ run[c].pc # "new" /\ PathOf(c) = f.path
             /\ f.session # NoHandle => run[c].path = f.path /\ run[c].said = f.session
    /\ \A c \in Calls, f \in inflight :
          /\ run[c].pc \in {"report", "over"} /\ run[c].output = "drained"
          /\ ~run[c].kept /\ f.session # NoHandle
          => f.path # PathOf(c)

\* What a step leaves of the process that takes it, when it writes no record.
Stays(c) ==
    /\ run'[c].pc # "new" /\ run'[c].path = run[c].path
    /\ run[c].pc # "new" => run'[c].to = run[c].to
    /\ run[c].path # NoPath => run'[c].said = run[c].said
    /\ run'[c].kept = run[c].kept
    /\ run'[c].pc \in {"report", "over"} /\ run'[c].output = "drained" =>
          run[c].pc \in {"report", "over"} /\ run[c].output = "drained"

LEMMA BehindStays ==
  ASSUME Files, Processes, Behind, OneIdPerProcess, NEW c \in Calls, Stays(c),
         \A d \in Calls \ {c} : run'[d] = run[d], UNCHANGED inflight
  PROVE  Behind'
<1>1. ASSUME NEW f \in inflight
      PROVE  \E d \in Calls :
                /\ run'[d].pc # "new" /\ <<run'[d].to, PidOf[d]>> = f.path
                /\ f.session # NoHandle => run'[d].path = f.path /\ run'[d].said = f.session
  <2>1. PICK d \in Calls :
           /\ run[d].pc # "new" /\ <<run[d].to, PidOf[d]>> = f.path
           /\ f.session # NoHandle => run[d].path = f.path /\ run[d].said = f.session
    BY DEF Behind, PathOf
  <2>2. f.path # NoPath
    BY PathAssumption DEF Files, Inflights
  <2>3. QED
    BY <2>1, <2>2 DEF Stays
<1>2. ASSUME NEW d \in Calls, NEW f \in inflight, run'[d].pc \in {"report", "over"},
             run'[d].output = "drained", ~run'[d].kept, f.session # NoHandle
      PROVE  f.path # <<run'[d].to, PidOf[d]>>
  <2>1. /\ run[d].pc \in {"report", "over"} /\ run[d].output = "drained" /\ ~run[d].kept
        /\ run'[d].to = run[d].to
    BY <1>2 DEF Stays
  <2>2. QED
    BY <1>2, <2>1 DEF Behind, PathOf
<1>3. QED
  BY <1>1, <1>2 DEF Behind, PathOf

\* Nearly all steps leave that much.
LEMMA StayingSteps ==
  ASSUME Processes, AllSound, NEW c \in Calls,
         \/ Ask(c) \/ ResumeListed(c) \/ ResumeHandle(c) \/ Prepare(c) \/ Keep(c)
         \/ Remember(c) \/ Invoke(c) \/ Announce(c) \/ Finish(c) \/ LockLedger(c)
         \/ WriteLedger(c) \/ ExitProcess(c) \/ Kill(c)
  PROVE  Stays(c) /\ (\A d \in Calls \ {c} : run'[d] = run[d]) /\ UNCHANGED inflight
<1> USE DEF Stays
<1>0. run[c] \in Runs /\ Sound(run[c]) /\ run \in [Calls -> Runs]
  BY DEF Processes, AllSound
<1>1. CASE Ask(c) \/ ResumeListed(c) \/ ResumeHandle(c)
  <2>1. UNCHANGED inflight /\ \E v, pre, resume : Begin(c, v, pre, resume)
    BY <1>1 DEF Ask, ResumeListed, ResumeHandle
  <2> PICK v, pre, resume : Begin(c, v, pre, resume)
    BY <2>1
  <2>2. PICK flag \in Models \cup {NoModel}, noLedger \in BOOLEAN :
           run' = [run EXCEPT ![c] =
                    [@ EXCEPT !.pc = "prepare", !.to = v, !.pre = pre,
                              !.resume = resume, !.noLedger = noLedger,
                              !.model = ModelFor(v, resume, flag)]]
    BY DEF Begin
  <2>3. /\ run'[c].pc = "prepare" /\ run'[c].path = run[c].path /\ run'[c].said = run[c].said
        /\ run'[c].kept = run[c].kept
        /\ \A d \in Calls \ {c} : run'[d] = run[d]
    BY <1>0, <2>2 DEF Runs
  <2>4. run[c].pc = "new"
    BY DEF Begin
  <2>5. QED
    BY <2>1, <2>3, <2>4
<1>2. ASSUME NEW label, run' = [run EXCEPT ![c].pc = label], label \notin {"new", "report", "over"}
      PROVE  Stays(c) /\ \A d \in Calls \ {c} : run'[d] = run[d]
  BY <1>0, <1>2 DEF Runs
<1>3. CASE Prepare(c) \/ Keep(c)
  <2>1. \E label : /\ run' = [run EXCEPT ![c].pc = label]
                   /\ label \notin {"new", "report", "over"}
    BY <1>3 DEF Prepare, Keep, Empties, Fills
  <2>2. QED
    BY <1>2, <1>3, <2>1 DEF Prepare, Keep
<1>4. CASE Remember(c)
  <2>1. \E label : run' = [run EXCEPT ![c].pump = label]
    BY <1>4 DEF Remember, Empties, Fills
  <2>2. run[c].pc # "new"
    BY <1>4 DEF Remember, IsBusy, Busy
  <2>3. Stays(c) /\ \A d \in Calls \ {c} : run'[d] = run[d]
    BY <1>0, <2>1, <2>2 DEF Runs
  <2>4. QED
    BY <1>4, <2>3 DEF Remember
<1>5. CASE Invoke(c)
  <2>1. CASE Goto(c, "running")
    BY <1>2, <1>5, <2>1 DEF Invoke, Goto
  <2>2. CASE run' = [run EXCEPT ![c].pc = "append", ![c].status = "failed"]
    BY <1>0, <1>5, <2>2 DEF Invoke, Runs
  <2>3. QED
    BY <1>5, <2>1, <2>2 DEF Invoke
<1>6. CASE Announce(c)
  <2>1. run[c].path = NoPath /\ run[c].pc # "new"
    BY <1>0, <1>6 DEF Announce, Sound, IsReading, IsBusy, Busy
  <2>2. /\ run'[c].path = run[c].path /\ run'[c].to = run[c].to
        /\ run'[c].pc = run[c].pc /\ run'[c].output = run[c].output
        /\ run'[c].kept = run[c].kept
        /\ \A d \in Calls \ {c} : run'[d] = run[d]
    <3>1. \E h, label : run' = [run EXCEPT ![c].said = h, ![c].pump = label]
      BY <1>6 DEF Announce
    <3>2. QED
      BY <1>0, <3>1 DEF Runs
  <2>3. QED
    BY <1>6, <2>1, <2>2 DEF Announce
<1>7. CASE Finish(c)
  <2>1. /\ run'[c].path = run[c].path /\ run'[c].to = run[c].to
        /\ run'[c].said = run[c].said /\ run'[c].pc = "keep"
        /\ run'[c].kept = run[c].kept
        /\ \A d \in Calls \ {c} : run'[d] = run[d]
    BY <1>0, <1>7 DEF Finish, Runs
  <2>2. QED
    BY <1>7, <2>1 DEF Finish
<1>8. ASSUME NEW label \in {"over", "dead"}, End(c, label),
             label = "over" => run[c].pc = "report"
      PROVE  Stays(c) /\ \A d \in Calls \ {c} : run'[d] = run[d]
  BY <1>0, <1>8 DEF End, Runs
<1>9. CASE ExitProcess(c) \/ Kill(c)
  BY <1>8, <1>9 DEF ExitProcess, Kill
<1>10. CASE LockLedger(c)
  <2>1. CASE TakesLock(c)
    BY <1>0, <1>10, <2>1 DEF LockLedger, TakesLock, Runs
  <2>2. QED
    BY <1>2, <1>8, <1>10, <2>1 DEF LockLedger, Goto
<1>11. CASE WriteLedger(c)
  BY <1>0, <1>11 DEF WriteLedger, Runs
<1>12. QED
  BY <1>1, <1>3, <1>4, <1>5, <1>6, <1>7, <1>9, <1>10, <1>11

LEMMA StepKeepsBehind ==
  ASSUME OneIdPerProcess, Files, Processes, AllSound, Behind,
         [DispatchNext]_dispatchVars
  PROVE  Behind'
<1>1. ASSUME NEW c \in Calls,
             \/ Ask(c) \/ ResumeListed(c) \/ ResumeHandle(c) \/ Prepare(c) \/ Keep(c)
             \/ Remember(c) \/ Invoke(c) \/ Announce(c) \/ Finish(c) \/ LockLedger(c)
             \/ WriteLedger(c) \/ ExitProcess(c) \/ Kill(c)
      PROVE  Behind'
  BY <1>1, StayingSteps, BehindStays
<1>2. ASSUME NEW c \in Calls, Record(c)
      PROVE  Behind'
  <2>1. /\ run[c] \in Runs /\ Sound(run[c]) /\ run[c].pump # "idle" /\ run[c].path = NoPath
        /\ run[c].output # "drained" /\ run[c].pc # "new"
    BY <1>2 DEF Record, Processes, AllSound, Sound, IsBusy, Busy
  <2>2. /\ run'[c].to = run[c].to /\ run'[c].pc = run[c].pc
        /\ run'[c].output = run[c].output /\ run'[c].said = run[c].said
        /\ run'[c].kept = run[c].kept
        /\ \A d \in Calls \ {c} : run'[d] = run[d]
    <3>1. CASE \E label : run' = [run EXCEPT ![c].pump = label]
      BY <2>1, <3>1 DEF Processes, Runs
    <3>2. CASE run' = [run EXCEPT ![c].pump = "idle", ![c].path = PathOf(c)]
      BY <2>1, <3>2 DEF Processes, Runs
    <3>3. QED
      BY <1>2, <3>1, <3>2 DEF Record
  <2>3. CASE UNCHANGED inflight /\ run'[c].path = run[c].path
    BY <2>1, <2>2, <2>3, BehindStays DEF Stays
  <2>4. ASSUME NEW h, NEW at, inflight' = Recorded(c, h, at),
               h # NoHandle => h = run[c].said /\ run'[c].path = PathOf(c)
        PROVE  Behind'
    <3> DEFINE g == [path |-> PathOf(c), session |-> h, at |-> at]
    <3>1. \A f \in inflight' : f = g \/ (f \in inflight /\ f.path # PathOf(c))
      BY <2>4 DEF Recorded
    <3>2. g.path = PathOf(c) /\ g.session = h
      OBVIOUS
    <3> HIDE DEF g
    <3>3. ASSUME NEW f \in inflight'
          PROVE  \E d \in Calls :
                    /\ run'[d].pc # "new" /\ <<run'[d].to, PidOf[d]>> = f.path
                    /\ f.session # NoHandle => run'[d].path = f.path /\ run'[d].said = f.session
      <4>1. CASE f = g
        BY <2>1, <2>2, <2>4, <3>2, <4>1 DEF PathOf
      <4>2. CASE f \in inflight /\ f.path # PathOf(c)
        <5>1. PICK d \in Calls :
                 /\ run[d].pc # "new" /\ <<run[d].to, PidOf[d]>> = f.path
                 /\ f.session # NoHandle => run[d].path = f.path /\ run[d].said = f.session
          BY <4>2 DEF Behind, PathOf
        <5>2. run'[d] = run[d]
          BY <2>2, <4>2, <5>1 DEF PathOf
        <5>3. QED
          BY <5>1, <5>2
      <4>3. QED
        BY <3>1, <4>1, <4>2
    <3>4. ASSUME NEW d \in Calls, NEW f \in inflight', run'[d].pc \in {"report", "over"},
                 run'[d].output = "drained", ~run'[d].kept, f.session # NoHandle
          PROVE  f.path # <<run'[d].to, PidOf[d]>>
      <4>1. d # c /\ run'[d] = run[d]
        BY <2>1, <2>2, <3>4
      <4>2. CASE f = g
        BY <3>2, <4>1, <4>2, PathsDiffer DEF PathOf
      <4>3. CASE f \in inflight
        BY <3>4, <4>1, <4>3 DEF Behind, PathOf
      <4>4. QED
        BY <3>1, <4>2, <4>3
    <3>5. QED
      BY <3>3, <3>4 DEF Behind, PathOf
  <2>5. CASE inflight' = Recorded(c, NoHandle, 0)
    BY <2>4, <2>5
  <2>6. CASE /\ \E at : inflight' = Recorded(c, run[c].said, at)
             /\ run' = [run EXCEPT ![c].pump = "idle", ![c].path = PathOf(c)]
    <3>1. run'[c].path = PathOf(c)
      BY <2>1, <2>6 DEF Processes, Runs
    <3>2. QED
      BY <2>4, <2>6, <3>1
  <2>7. CASE run' = [run EXCEPT ![c].pump = "idle"] /\ UNCHANGED inflight
    <3>1. run'[c].path = run[c].path
      BY <2>1, <2>7 DEF Processes, Runs
    <3>2. QED
      BY <2>3, <2>7, <3>1
  <2>8. QED
    BY <1>2, <2>5, <2>6, <2>7 DEF Record
<1>3. ASSUME NEW c \in Calls, ClearInflight(c)
      PROVE  Behind'
  <2>1. run[c] \in Runs /\ run[c].pc = "clear"
    BY <1>3 DEF ClearInflight, Processes
  <2>2. /\ run'[c].path = run[c].path /\ run'[c].to = run[c].to /\ run'[c].pc = "report"
        /\ run'[c].said = run[c].said /\ run'[c].output = run[c].output
        /\ \A d \in Calls \ {c} : run'[d] = run[d]
    BY <1>3, <2>1 DEF ClearInflight, Goto, Processes, Runs
  <2>3. /\ inflight' \subseteq inflight
        /\ run'[c].kept \/ inflight' = {f \in inflight : f.path # run[c].path}
    BY <1>3, <2>1 DEF ClearInflight, Processes, Runs
  <2>4. ASSUME NEW f \in inflight'
        PROVE  \E d \in Calls :
                  /\ run'[d].pc # "new" /\ <<run'[d].to, PidOf[d]>> = f.path
                  /\ f.session # NoHandle => run'[d].path = f.path /\ run'[d].said = f.session
    <3>1. PICK d \in Calls :
             /\ run[d].pc # "new" /\ <<run[d].to, PidOf[d]>> = f.path
             /\ f.session # NoHandle => run[d].path = f.path /\ run[d].said = f.session
      BY <2>3 DEF Behind, PathOf
    <3>2. QED
      BY <2>2, <3>1
  <2>5. ASSUME NEW d \in Calls, NEW f \in inflight', run'[d].pc \in {"report", "over"},
               run'[d].output = "drained", ~run'[d].kept, f.session # NoHandle
        PROVE  f.path # <<run'[d].to, PidOf[d]>>
    <3>1. CASE d # c
      BY <2>2, <2>3, <2>5, <3>1 DEF Behind, PathOf
    <3>2. CASE d = c
      <4> SUFFICES ASSUME f.path = PathOf(c) PROVE FALSE
        BY <2>2, <3>2 DEF PathOf
      <4>1. PICK e \in Calls : PathOf(e) = f.path /\ run[e].path = f.path
        BY <2>3, <2>5 DEF Behind
      <4>2. e = c
        BY <4>1, PathsDiffer
      <4>3. QED
        BY <2>3, <2>5, <3>2, <4>1, <4>2
    <3>3. QED
      BY <3>1, <3>2
  <2>6. QED
    BY <2>4, <2>5 DEF Behind, PathOf
<1>4. CASE UNCHANGED dispatchVars
  BY <1>4 DEF dispatchVars, Behind, PathOf
<1>5. QED
  BY <1>1, <1>2, <1>3, <1>4 DEF DispatchNext

-----------------------------------------------------------------------------
(* The settings.                                                           *)

\* A dispatch reports a handle it was told, and one that has not begun has none.
Told ==
    \A c \in Calls :
        /\ run[c].heard \in {NoHandle, run[c].said}
        /\ run[c].pc = "new" => Touched(c) = {NoHandle}

\* Nobody else continues the conversation of c's handle.
Alone(c) ==
    \A d \in Calls \ {c} : run[d].to = run[c].to => run[c].said \notin Touched(d)

\* The settings of c's handle, once remembered, are those of its turn, but while
\* c empties and fills them again.
IsSettled(c) ==
    \/ settings[<<run[c].to, run[c].said>>] = run[c].model
    \/ /\ settings[<<run[c].to, run[c].said>>] = Torn
       /\ \/ run[c].pc = "dead"
          \/ run[c].pc = "keeping" /\ SessionIn(c) = run[c].said

IsRemembered(c) == run[c].pump \in {"record", "filling"} \/ run[c].path # NoPath

Settled == \A c \in Calls : IsRemembered(c) /\ Alone(c) => IsSettled(c)

DoesStep(c) ==
    \/ Ask(c) \/ ResumeListed(c) \/ ResumeHandle(c)
    \/ Prepare(c) \/ Invoke(c) \/ Announce(c) \/ Remember(c) \/ Record(c)
    \/ Finish(c) \/ Keep(c) \/ LockLedger(c) \/ WriteLedger(c)
    \/ ClearInflight(c) \/ ExitProcess(c) \/ Kill(c)

\* What a step leaves of the process that takes it.
GoesOn(c) ==
    /\ run'[c].pc # "new"
    /\ run'[c].heard \in {NoHandle, run'[c].said}
    /\ run[c].pc # "new" =>
          /\ run'[c].to = run[c].to /\ run'[c].model = run[c].model
          /\ run'[c].pre = run[c].pre /\ run'[c].resume = run[c].resume
    /\ run[c].said = NoHandle \/ run'[c].said = run[c].said
    /\ \A d \in Calls \ {c} : run'[d] = run[d]

LEMMA StepGoesOn ==
  ASSUME Processes, AllSound, Told, NEW c \in Calls, DoesStep(c)
  PROVE  GoesOn(c)
<1> USE DEF GoesOn, IsBusy, Busy
<1>0. /\ run[c] \in Runs /\ run \in [Calls -> Runs]
      /\ run[c].heard \in {NoHandle, run[c].said}
  BY DEF Processes, Told
<1>1. CASE Ask(c) \/ ResumeListed(c) \/ ResumeHandle(c)
  <2> PICK v, pre, resume : Begin(c, v, pre, resume)
    BY <1>1 DEF Ask, ResumeListed, ResumeHandle
  <2>1. PICK flag \in Models \cup {NoModel}, noLedger \in BOOLEAN :
           run' = [run EXCEPT ![c] =
                    [@ EXCEPT !.pc = "prepare", !.to = v, !.pre = pre,
                              !.resume = resume, !.noLedger = noLedger,
                              !.model = ModelFor(v, resume, flag)]]
    BY DEF Begin
  <2>2. run[c].pc = "new"
    BY DEF Begin
  <2> DEFINE m == ModelFor(v, resume, flag)
  <2>3. run' = [run EXCEPT ![c] =
                    [@ EXCEPT !.pc = "prepare", !.to = v, !.pre = pre,
                              !.resume = resume, !.noLedger = noLedger, !.model = m]]
    BY <2>1
  <2> HIDE DEF m
  <2>4. /\ run'[c].pc = "prepare" /\ run'[c].heard = run[c].heard
        /\ run'[c].said = run[c].said /\ \A d \in Calls \ {c} : run'[d] = run[d]
    BY <1>0, <2>3 DEF Runs
  <2>5. QED
    BY <1>0, <2>2, <2>4
<1>2. ASSUME NEW label, run' = [run EXCEPT ![c].pc = label], label # "new"
      PROVE  GoesOn(c)
  BY <1>0, <1>2 DEF Runs
<1>3. ASSUME NEW label, run' = [run EXCEPT ![c].pump = label], run[c].pc # "new"
      PROVE  GoesOn(c)
  BY <1>0, <1>3 DEF Runs
<1>4. CASE Prepare(c) \/ Keep(c)
  <2>1. \E label : run' = [run EXCEPT ![c].pc = label] /\ label # "new"
    BY <1>4 DEF Prepare, Keep, Empties, Fills
  <2>2. QED
    BY <1>2, <2>1
<1>5. CASE Remember(c)
  <2>1. \E label : run' = [run EXCEPT ![c].pump = label]
    BY <1>5 DEF Remember, Empties, Fills
  <2>2. run[c].pc # "new"
    BY <1>5 DEF Remember
  <2>3. QED
    BY <1>3, <2>1, <2>2
<1>6. CASE Record(c)
  <2>1. run[c].pc # "new"
    BY <1>6 DEF Record
  <2>2. CASE run' = [run EXCEPT ![c].pump = "idle", ![c].path = PathOf(c)]
    BY <1>0, <2>1, <2>2 DEF Runs
  <2>3. QED
    BY <1>3, <1>6, <2>1, <2>2 DEF Record
<1>7. CASE Invoke(c)
  <2>1. CASE run' = [run EXCEPT ![c].pc = "append", ![c].status = "failed"]
    BY <1>0, <2>1 DEF Runs
  <2>2. QED
    BY <1>2, <1>7, <2>1 DEF Invoke, Goto
<1>8. CASE Announce(c)
  <2>1. run[c].said = NoHandle /\ run[c].pc # "new"
    BY <1>8 DEF Announce, IsReading
  <2>2. PICK h, label : run' = [run EXCEPT ![c].said = h, ![c].pump = label]
    BY <1>8 DEF Announce
  <2>3. QED
    BY <1>0, <2>1, <2>2 DEF Runs
<1>9. CASE Finish(c)
  <2>1. PICK status, output :
           run' = [run EXCEPT ![c].pc = "keep", ![c].status = status,
                              ![c].output = output, ![c].heard = run[c].said]
    BY <1>9 DEF Finish
  <2>2. QED
    BY <1>0, <2>1 DEF Runs
<1>10. ASSUME NEW label, End(c, label), label # "new"
       PROVE  GoesOn(c)
  BY <1>0, <1>10 DEF End, Runs
<1>11. CASE LockLedger(c)
  <2>1. CASE TakesLock(c)
    BY <1>0, <2>1 DEF TakesLock, Runs
  <2>2. QED
    BY <1>2, <1>10, <1>11, <2>1 DEF LockLedger, Goto
<1>12. CASE WriteLedger(c)
  BY <1>0, <1>12 DEF WriteLedger, Runs
<1>13. CASE ClearInflight(c) \/ ExitProcess(c) \/ Kill(c)
  BY <1>2, <1>10, <1>13 DEF ClearInflight, Goto, ExitProcess, Kill
<1>14. QED
  BY <1>1, <1>4, <1>5, <1>6, <1>7, <1>8, <1>9, <1>11, <1>12, <1>13 DEF DoesStep

\* A process writes only the settings of handles it touches.
LEMMA WritesItsOwn ==
  ASSUME Files, Processes, Told, NEW c \in Calls, DoesStep(c),
         NEW v \in Vendors, NEW h \in Handles, settings'[<<v, h>>] # settings[<<v, h>>]
  PROVE  run[c].pc # "new" /\ v = run[c].to /\ h \in Touched(c)
<1>0. settings \in [Vendors \X Handles -> Models \cup {NoModel, Torn}]
  BY DEF Files
<1>1. Prepare(c) \/ Remember(c) \/ Keep(c)
  BY DEF DoesStep, Ask, ResumeListed, ResumeHandle, Invoke, Announce, Record, Finish,
         LockLedger, WriteLedger, ClearInflight, ExitProcess, Kill
<1>2. ASSUME NEW k, NEW x, settings' = [settings EXCEPT ![<<run[c].to, k>>] = x]
      PROVE  v = run[c].to /\ h = k
  <2>1. <<v, h>> = <<run[c].to, k>>
    BY <1>0, <1>2
  <2>2. QED
    BY <2>1
<1>3. ASSUME NEW k, NEW th, NEW half, NEW next,
             Empties(c, k, th, half, next) \/ Fills(c, k, th, next)
      PROVE  v = run[c].to /\ h = k
  BY <1>2, <1>3 DEF Empties, Fills
<1>4. CASE Prepare(c)
  <2>1. v = run[c].to /\ h = Known(c)
    BY <1>3, <1>4 DEF Prepare
  <2>2. QED
    BY <1>4, <2>1 DEF Prepare, Known, Touched
<1>5. CASE Remember(c)
  <2>1. v = run[c].to /\ h = run[c].said
    BY <1>3, <1>5 DEF Remember
  <2>2. QED
    BY <1>5, <2>1 DEF Remember, Touched, IsBusy, Busy
<1>6. CASE Keep(c)
  <2>1. v = run[c].to /\ h = SessionIn(c)
    BY <1>3, <1>6 DEF Keep
  <2>2. SessionIn(c) \in {NoHandle, run[c].said, run[c].pre, run[c].resume}
    BY DEF SessionIn, Told
  <2>3. QED
    BY <1>6, <2>1, <2>2 DEF Keep, Touched
<1>7. QED
  BY <1>1, <1>4, <1>5, <1>6

\* What is remembered is a handle, of a process past its start.
LEMMA RememberedIsHandle ==
  ASSUME Processes, AllSound, NEW c \in Calls, IsRemembered(c)
  PROVE  run[c].said \in Handles /\ run[c].to \in Vendors /\ run[c].pc \notin Early
BY DEF Processes, AllSound, Sound, IsRemembered, Runs

LEMMA WasAlone ==
  ASSUME Processes, AllSound, Told, NEW d \in Calls, GoesOn(d), NEW c \in Calls,
         IsRemembered(c), Alone(c)'
  PROVE  Alone(c)
<1>1. run[c].said \in Handles /\ run[c].said # NoHandle /\ run[c].pc # "new"
  BY RememberedIsHandle DEF Early
<1>2. run'[c].said = run[c].said /\ run'[c].to = run[c].to
  BY <1>1 DEF GoesOn
<1>3. SUFFICES ASSUME NEW e \in Calls \ {c}, run[e].to = run[c].to, run[c].said \in Touched(e)
               PROVE  FALSE
  BY DEF Alone
<1>4. run[e].pc # "new"
  BY <1>1, <1>3 DEF Told
<1>5. run'[e].to = run[e].to /\ run[c].said \in Touched(e)'
  BY <1>1, <1>3, <1>4 DEF GoesOn, Touched
<1>6. QED
  BY <1>2, <1>3, <1>5 DEF Alone

LEMMA OthersSettled ==
  ASSUME Files, Processes, AllSound, Told, Settled, NEW d \in Calls, DoesStep(d),
         NEW c \in Calls \ {d}, IsRemembered(c)', Alone(c)'
  PROVE  IsSettled(c)'
<1>1. GoesOn(d) /\ run'[c] = run[c]
  BY StepGoesOn DEF GoesOn
<1>2. IsRemembered(c)
  BY <1>1 DEF IsRemembered
<1>3. Alone(c) /\ IsSettled(c)
  BY <1>1, <1>2, WasAlone DEF Settled
<1>4. run[c].said \in Handles /\ run[c].to \in Vendors
  BY <1>2, RememberedIsHandle
<1>5. settings'[<<run[c].to, run[c].said>>] = settings[<<run[c].to, run[c].said>>]
  BY <1>3, <1>4, WritesItsOwn DEF Alone
<1>6. QED
  BY <1>1, <1>3, <1>5 DEF IsSettled, SessionIn

LEMMA OwnSettled ==
  ASSUME Files, Processes, AllSound, Told, Settled, NEW c \in Calls, DoesStep(c),
         IsRemembered(c)', Alone(c)'
  PROVE  IsSettled(c)'
<1> USE DEF IsBusy, Busy
<1> DEFINE key == <<run[c].to, run[c].said>>
<1>0. /\ run[c] \in Runs /\ run \in [Calls -> Runs] /\ Sound(run[c]) /\ GoesOn(c)
      /\ settings \in [Vendors \X Handles -> Models \cup {NoModel, Torn}]
  BY StepGoesOn DEF Processes, AllSound, Files
<1>1. ASSUME IsRemembered(c)
      PROVE  /\ IsSettled(c) /\ key \in DOMAIN settings /\ run[c].pc \notin Early
             /\ run'[c].to = run[c].to /\ run'[c].said = run[c].said
             /\ run'[c].model = run[c].model
  <2>1. IsSettled(c)
    BY <1>0, <1>1, WasAlone DEF Settled
  <2>2. /\ run[c].said \in Handles /\ run[c].to \in Vendors /\ run[c].pc \notin Early
        /\ run[c].said # NoHandle /\ run[c].pc # "new"
    BY <1>1, RememberedIsHandle DEF Early
  <2>3. QED
    BY <1>0, <2>1, <2>2 DEF GoesOn
<1> HIDE DEF key
\* Steps that write no settings: a remembered handle was remembered before.
<1>2. ASSUME IsRemembered(c), UNCHANGED settings, run'[c].pc \in {run[c].pc, "dead"},
             SessionIn(c)' = SessionIn(c) \/ run[c].pc # "keeping" \/ run'[c].pc = "dead"
      PROVE  IsSettled(c)'
  BY <1>1, <1>2 DEF IsSettled, key
<1>3. ASSUME IsRemembered(c), UNCHANGED settings, run[c].pc \notin {"keeping", "dead"}
      PROVE  IsSettled(c)'
  BY <1>1, <1>3 DEF IsSettled, key
<1>4. CASE Ask(c) \/ ResumeListed(c) \/ ResumeHandle(c)
  <2>1. ~IsRemembered(c)
    <3>1. run[c].pc = "new"
      BY <1>4 DEF Ask, ResumeListed, ResumeHandle, Begin
    <3>2. QED
      BY <1>1, <3>1 DEF Early
  <2> PICK v, pre, resume : Begin(c, v, pre, resume)
    BY <1>4 DEF Ask, ResumeListed, ResumeHandle
  <2>2. PICK flag \in Models \cup {NoModel}, noLedger \in BOOLEAN :
           run' = [run EXCEPT ![c] =
                    [@ EXCEPT !.pc = "prepare", !.to = v, !.pre = pre,
                              !.resume = resume, !.noLedger = noLedger,
                              !.model = ModelFor(v, resume, flag)]]
    BY DEF Begin
  <2>3. run'[c].pump = run[c].pump /\ run'[c].path = run[c].path
    BY <1>0, <2>2 DEF Runs
  <2>4. QED
    BY <2>1, <2>3 DEF IsRemembered
<1>5. ASSUME NEW label, run' = [run EXCEPT ![c].pc = label]
      PROVE  /\ IsRemembered(c) /\ SessionIn(c)' = SessionIn(c) /\ run'[c].pc = label
  BY <1>0, <1>5 DEF IsRemembered, SessionIn, Runs
<1>6. CASE Prepare(c)
  <2>1. \E label : run' = [run EXCEPT ![c].pc = label]
    BY <1>6 DEF Prepare, Empties, Fills
  <2>2. run[c].pc \in Early
    BY <1>6 DEF Prepare, Early
  <2>3. QED
    BY <1>1, <1>5, <2>1, <2>2
<1>7. CASE Invoke(c)
  <2>1. run'[c].pump = run[c].pump /\ run'[c].path = run[c].path
    BY <1>0, <1>7 DEF Invoke, Goto, Runs
  <2>2. run[c].pc \in Early
    BY <1>7 DEF Invoke, Early
  <2>3. QED
    BY <1>1, <2>1, <2>2 DEF IsRemembered
<1>8. CASE Announce(c)
  <2>1. run[c].said = NoHandle /\ run[c].path = NoPath
    BY <1>0, <1>8 DEF Announce, Sound
  <2>2. PICK h \in Handles :
           run' = [run EXCEPT ![c].said = h,
                     ![c].pump = IF run[c].noLedger THEN "idle" ELSE "remember"]
    BY <1>8 DEF Announce, Announced
  <2>3. run'[c].pump \in {"idle", "remember"} /\ run'[c].path = run[c].path
    BY <1>0, <2>2 DEF Runs
  <2>4. QED
    BY <2>1, <2>3 DEF IsRemembered
<1>9. CASE Remember(c)
  <2>1. run[c].pump # "idle" /\ run[c].path = NoPath /\ run[c].said \in Handles
        /\ ~run[c].noLedger /\ run[c].to \in Vendors
    BY <1>0, <1>9 DEF Remember, Sound, Runs
  <2>2. CASE Empties(c, run[c].said, "pump", "remembering", "record")
    <3>1. run' = [run EXCEPT ![c].pump = "remembering"]
      BY <2>1, <2>2 DEF Empties, KeepsNothing
    <3>2. run'[c].pump = "remembering" /\ run'[c].path = NoPath
      BY <1>0, <2>1, <3>1 DEF Runs
    <3>3. QED
      BY <3>2 DEF IsRemembered
  <2>3. CASE Fills(c, run[c].said, "pump", "record")
    <3>1. run' = [run EXCEPT ![c].pump = "record"]
      BY <2>3 DEF Fills
    <3>2. /\ run'[c].to = run[c].to /\ run'[c].said = run[c].said
          /\ run'[c].model = run[c].model
      BY <1>0, <3>1 DEF Runs
    <3>3. settings'[<<run[c].to, run[c].said>>] = run[c].model
      BY <1>0, <2>1, <2>3 DEF Fills
    <3>4. QED
      BY <3>2, <3>3 DEF IsSettled
  <2>4. QED
    BY <1>9, <2>2, <2>3 DEF Remember
<1>10. CASE Record(c)
  <2>1. IsRemembered(c) /\ UNCHANGED settings
    BY <1>10 DEF Record, IsRemembered
  <2>2. run'[c].pc = run[c].pc /\ SessionIn(c)' = SessionIn(c)
    <3>1. CASE \E label : run' = [run EXCEPT ![c].pump = label]
      BY <1>0, <3>1 DEF Runs, SessionIn
    <3>2. CASE run' = [run EXCEPT ![c].pump = "idle", ![c].path = PathOf(c)]
      BY <1>0, <3>2 DEF Runs, SessionIn
    <3>3. QED
      BY <1>10, <3>1, <3>2 DEF Record
  <2>3. QED
    BY <1>2, <2>1, <2>2
<1>11. CASE Finish(c)
  <2>1. PICK status, output :
           run' = [run EXCEPT ![c].pc = "keep", ![c].status = status,
                              ![c].output = output, ![c].heard = run[c].said]
    BY <1>11 DEF Finish
  <2>2. run'[c].pump = run[c].pump /\ run'[c].path = run[c].path
    BY <1>0, <2>1 DEF Runs
  <2>3. QED
    BY <1>3, <1>11, <2>2 DEF Finish, IsRemembered
<1>12. CASE Keep(c)
  <2>1. PICK label : run' = [run EXCEPT ![c].pc = label]
    BY <1>12 DEF Keep, Empties, Fills
  <2>2. /\ IsRemembered(c) /\ SessionIn(c)' = SessionIn(c)
        /\ run'[c].to = run[c].to /\ run'[c].said = run[c].said /\ run'[c].model = run[c].model
        /\ key \in DOMAIN settings /\ IsSettled(c)
    BY <1>1, <1>5, <2>1
  <2>3. CASE run[c].pc = "keep" /\ Empties(c, SessionIn(c), "pc", "keeping", "append")
    <3>1. settings[key] = run[c].model
      BY <2>2, <2>3 DEF IsSettled, key
    <3>2. CASE SessionIn(c) = run[c].said /\ ~KeepsNothing(c, SessionIn(c))
      <4>1. settings' = [settings EXCEPT ![key] = Torn] /\ run'[c].pc = "keeping"
        BY <1>0, <2>3, <3>2 DEF Empties, key, Runs
      <4>2. settings'[key] = Torn
        BY <1>0, <2>2, <4>1
      <4>3. QED
        BY <2>2, <3>2, <4>1, <4>2 DEF IsSettled, key
    <3>3. CASE SessionIn(c) # run[c].said \/ KeepsNothing(c, SessionIn(c))
      <4>1. settings'[key] = settings[key]
        <5>1. <<run[c].to, SessionIn(c)>> = key => SessionIn(c) = run[c].said
          BY DEF key
        <5>2. QED
          BY <1>0, <2>2, <2>3, <3>3, <5>1 DEF Empties
      <4>2. QED
        BY <2>2, <3>1, <4>1 DEF IsSettled, key
    <3>4. QED
      BY <3>2, <3>3
  <2>4. CASE run[c].pc = "keeping" /\ Fills(c, SessionIn(c), "pc", "append")
    <3>1. CASE SessionIn(c) = run[c].said
      <4>1. settings'[key] = run[c].model
        BY <1>0, <2>2, <2>4, <3>1 DEF Fills, key
      <4>2. QED
        BY <2>2, <4>1 DEF IsSettled, key
    <3>2. CASE SessionIn(c) # run[c].said
      <4>1. <<run[c].to, SessionIn(c)>> # key
        BY <3>2 DEF key
      <4>2. settings'[key] = settings[key]
        BY <1>0, <2>2, <2>4, <4>1 DEF Fills
      <4>3. settings[key] = run[c].model
        BY <2>2, <2>4, <3>2 DEF IsSettled, key
      <4>4. QED
        BY <2>2, <4>2, <4>3 DEF IsSettled, key
    <3>3. QED
      BY <3>1, <3>2
  <2>5. QED
    BY <1>12, <2>3, <2>4 DEF Keep
<1>13. CASE LockLedger(c) \/ WriteLedger(c) \/ ClearInflight(c) \/ ExitProcess(c)
  <2>1. run[c].pc \notin {"keeping", "dead"} /\ UNCHANGED settings
    BY <1>13 DEF LockLedger, WriteLedger, ClearInflight, ExitProcess
  <2>2. IsRemembered(c)
    <3>1. ASSUME NEW label, End(c, label) PROVE IsRemembered(c)
      BY <1>0, <3>1 DEF End, IsRemembered, Runs
    <3>2. CASE TakesLock(c) \/ WriteLedger(c)
      BY <1>0, <3>2 DEF TakesLock, WriteLedger, IsRemembered, Runs
    <3>3. QED
      BY <1>5, <1>13, <3>1, <3>2 DEF LockLedger, Goto, ClearInflight, ExitProcess
  <2>3. QED
    BY <1>3, <2>1, <2>2
<1>14. CASE Kill(c)
  <2>1. run'[c].pc = "dead" /\ run'[c].pump = "idle" /\ run'[c].path = run[c].path
    BY <1>0, <1>14 DEF Kill, End, Runs
  <2>2. QED
    BY <1>2, <1>14, <2>1 DEF Kill, IsRemembered
<1>15. QED
  BY <1>4, <1>6, <1>7, <1>8, <1>9, <1>10, <1>11, <1>12, <1>13, <1>14 DEF DoesStep

LEMMA StepKeepsSettled ==
  ASSUME Files, Processes, AllSound, Told, Settled, [DispatchNext]_dispatchVars
  PROVE  Told' /\ Settled'
<1>1. ASSUME NEW c \in Calls, DoesStep(c) PROVE Told' /\ Settled'
  <2>1. Settled'
    BY <1>1, OwnSettled, OthersSettled DEF Settled
  <2>2. Told'
    BY <1>1, StepGoesOn DEF GoesOn, Told, Touched
  <2>3. QED
    BY <2>1, <2>2
<1>2. CASE UNCHANGED dispatchVars
  BY <1>2 DEF dispatchVars, Told, Touched, Settled, IsRemembered, Alone, IsSettled, SessionIn
<1>3. QED
  BY <1>1, <1>2 DEF DispatchNext, DoesStep

-----------------------------------------------------------------------------
(* The theorems.                                                           *)

DispatchTypes == Files /\ Ledger /\ Processes

LEMMA TypesStart == DispatchInit => DispatchTypes
<1> SUFFICES ASSUME DispatchInit PROVE DispatchTypes
  OBVIOUS
<1>1. Files
  BY DEF DispatchInit, Files
<1>2. Ledger
  BY DEF DispatchInit, Ledger
<1>3. Processes
  BY NewRunType DEF DispatchInit, Processes, NewRun, Busy
<1>4. QED
  BY <1>1, <1>2, <1>3 DEF DispatchTypes

LEMMA SoundStarts == DispatchInit => AllSound
BY DEF DispatchInit, AllSound, Sound, NewRun, Early, Late

LEMMA RestStarts == DispatchInit => Locked /\ OneHeader /\ Owned /\ Found /\ Behind
<1> SUFFICES ASSUME DispatchInit PROVE Locked /\ OneHeader /\ Owned /\ Found /\ Behind
  OBVIOUS
<1>1. \A c \in Calls : run[c].pc = "new" /\ run[c].path = NoPath
  BY DEF DispatchInit, NewRun
<1>2. Locked /\ OneHeader
  BY <1>1 DEF DispatchInit, Locked, OneHeader
<1>3. Owned /\ Found
  BY <1>1 DEF Owned, Found
<1>4. Behind
  BY DEF DispatchInit, Behind
<1>5. QED
  BY <1>2, <1>3, <1>4

LEMMA SettingsStart == DispatchInit => Told /\ Settled
  BY DEF DispatchInit, NewRun, Told, Settled, Touched, IsRemembered

LEMMA KeepsTypes == DispatchSpec => []DispatchTypes
<1>1. DispatchTypes /\ [DispatchNext]_dispatchVars => DispatchTypes'
  BY StepKeepsTypes DEF DispatchTypes
<1>2. QED
  BY <1>1, TypesStart, PTL DEF DispatchSpec

LEMMA KeepsSound == DispatchSpec => []AllSound
<1>1. DispatchTypes /\ AllSound /\ [DispatchNext]_dispatchVars => AllSound'
  BY StepKeepsSound DEF DispatchTypes
<1>2. QED
  BY <1>1, SoundStarts, KeepsTypes, PTL DEF DispatchSpec

\* Every file, the ledger and what each dispatch knows keep their types, and
\* no two records have one path.
THEOREM DispatchTypeCorrect == DispatchSpec => []DispatchTypeOK
<1>1. DispatchTypes => DispatchTypeOK
  BY TypeOfParts DEF DispatchTypes
<1>2. QED
  BY <1>1, KeepsTypes, PTL

\* append_ledger writes the header once, as the first thing in the file,
\* however many dispatches append and wherever one dies holding the lock.
THEOREM LedgerHasOneHeader == DispatchSpec => []OneHeader
<1>1. DispatchTypes /\ Locked /\ OneHeader /\ [DispatchNext]_dispatchVars
        => Locked' /\ OneHeader'
  BY StepKeepsHeader DEF DispatchTypes
<1>2. DispatchInit => Locked /\ OneHeader
  BY RestStarts
<1>3. QED
  BY <1>1, <1>2, KeepsTypes, PTL DEF DispatchSpec

\* As long as process ids are not reused, a handle _dispatch recorded is in
\* flight or in the ledger, however the process ended: it can be resumed.
THEOREM HandlesAreFound ==
  ASSUME OneIdPerProcess
  PROVE  DispatchSpec => []NoHandleForgotten
<1>1. DispatchTypes /\ AllSound /\ Owned /\ Found /\ [DispatchNext]_dispatchVars
        => Owned' /\ Found'
  BY OneIdPerProcess, StepKeepsFound DEF DispatchTypes
<1>2. DispatchInit => Owned /\ Found
  BY RestStarts
<1>3. Owned /\ Found => NoHandleForgotten
  <2> SUFFICES ASSUME Owned, Found, NEW c \in Calls, run[c].path # NoPath,
                      run[c].output # "abandoned"
               PROVE  \/ IsListed(run[c].to, run[c].said)
                      \/ IsInLedger(run[c].to, run[c].said)
    BY DEF NoHandleForgotten
  <2>1. run[c].path = <<run[c].to, PidOf[c]>>
    BY DEF Owned, PathOf
  <2>2. ASSUME NEW f \in inflight, f.path = run[c].path, f.session = run[c].said
        PROVE  IsListed(run[c].to, run[c].said)
    <3>1. f.path[1] = run[c].to
      BY <2>1, <2>2
    <3>2. QED
      BY <2>2, <3>1 DEF IsListed
  <2>3. QED
    BY <2>2 DEF Found
<1>4. QED
  BY <1>1, <1>2, <1>3, KeepsTypes, KeepsSound, PTL DEF DispatchSpec

\* And what clear_inflight leaves behind, with a handle, is a run that still
\* goes on, that was killed or died, or whose output run_cli gave up: resume
\* offers nothing that was reported whole.
THEOREM OnlyCutShortIsLeft ==
  ASSUME OneIdPerProcess
  PROVE  DispatchSpec => []LeftBehindWasCutShort
<1>1. DispatchTypes /\ AllSound /\ Behind /\ [DispatchNext]_dispatchVars => Behind'
  BY OneIdPerProcess, StepKeepsBehind DEF DispatchTypes
<1>2. DispatchInit => Behind
  BY RestStarts
<1>3. DispatchTypes /\ AllSound /\ Behind => LeftBehindWasCutShort
  <2> SUFFICES ASSUME DispatchTypes, AllSound, Behind, NEW f \in inflight,
                      f.session # NoHandle
               PROVE  \E c \in Calls :
                         /\ PathOf(c) = f.path /\ run[c].said = f.session
                         /\ \/ run[c].pc \in Busy \cup {"dead"}
                            \/ run[c].output = "abandoned" \/ run[c].kept
    BY DEF LeftBehindWasCutShort
  <2>1. PICK c \in Calls :
           /\ run[c].pc # "new" /\ PathOf(c) = f.path
           /\ run[c].path = f.path /\ run[c].said = f.session
    BY DEF Behind
  <2>2. run[c] \in Runs /\ Sound(run[c])
    BY DEF DispatchTypes, Processes, AllSound
  <2>3. CASE run[c].pc = "over"
    <3>1. run[c].status # "failed"
      BY <2>1, <2>2 DEF Sound
    <3>2. run[c].output # "open"
      BY <2>2, <2>3, <3>1 DEF Sound
    <3>3. run[c].output # "drained" \/ run[c].kept
      BY <2>1, <2>3 DEF Behind
    <3>4. run[c].output = "abandoned" \/ run[c].kept
      BY <2>2, <3>2, <3>3 DEF Runs
    <3>5. QED
      BY <2>1, <3>4
  <2>4. CASE run[c].pc # "over"
    <3>1. run[c].pc \in Busy \cup {"dead"}
      BY <2>1, <2>2, <2>4 DEF Runs
    <3>2. QED
      BY <2>1, <3>1
  <2>5. QED
    BY <2>3, <2>4
<1>4. QED
  BY <1>1, <1>2, <1>3, KeepsTypes, KeepsSound, PTL DEF DispatchSpec

\* What a first dispatch was run with outlives it: once a handle's record is
\* written, and while nobody else continues that conversation, its settings are
\* those of the turn, or the torn file of the process that is writing them again
\* or died of it (drivers/process.py writes the settings before the record).
THEOREM SettingsAreKept == DispatchSpec => []SettingsOutliveRun
<1>1. /\ DispatchTypes /\ AllSound /\ Told /\ Settled /\ [DispatchNext]_dispatchVars
      => Told' /\ Settled'
  BY StepKeepsSettled DEF DispatchTypes
<1>2. DispatchInit => Told /\ Settled
  BY SettingsStart
<1>3. Settled => SettingsOutliveRun
  BY DEF Settled, Alone, IsSettled, IsRemembered, SettingsOutliveRun
<1>4. QED
  BY <1>1, <1>2, <1>3, KeepsTypes, KeepsSound, PTL DEF DispatchSpec
=============================================================================
