---------------------------- MODULE RunCliProofs ----------------------------
(***************************************************************************)
(* Theorems about one run of a vendor's CLI, for pipes of every size and   *)
(* budgets of every length.  They hold without fairness: they are about    *)
(* what run_cli may say when it says it.                                   *)
(*                                                                         *)
(* The properties are about the end of a run, and not inductive.  What a   *)
(* run keeps up until then: a pump that ended leaves a pipe nobody can     *)
(* write to; a handle that was read is on its way to the callback; and a   *)
(* clock the main thread compares runs ahead of the silence only while a   *)
(* line is on its way to last_activity.                                    *)
(***************************************************************************)
EXTENDS RunCli, TLAPS

Counts ==
    /\ unread \in [Pipes -> 0..PipeSize]
    /\ quiet \in 0..Silence /\ idle \in 0..Silence /\ silent \in 0..Silence
    /\ age \in 0..Cap

Labels ==
    /\ pump \in [Pipes -> {"read", "stamp", "tell", "closed"}]
    /\ waiter \in {"poll", "judge", "kill", "join_stdout", "join_stderr", "done"}
    /\ reason \in {"none", "idle", "max-runtime"}
    /\ wants \in Pipes \cup {NoPipe}
    /\ joined \subseteq Pipes /\ missed \subseteq Pipes

Flags ==
    /\ child \in BOOLEAN /\ kin \in BOOLEAN /\ capped \in BOOLEAN
    /\ names \in BOOLEAN /\ told \in BOOLEAN /\ failed \in BOOLEAN
    /\ spoke \in BOOLEAN /\ named \in BOOLEAN

\* Only a child that runs writes, and only a cap that is set ends a run.
Causes == (wants # NoPipe => child) /\ (reason = "max-runtime" => capped)

\* A pump that ended read everything, and nobody can write any more.
ClosedIsFinal ==
    /\ \A p \in Pipes : pump[p] = "closed" =>
          unread[p] = 0 /\ ~child /\ ~kin
    /\ \A p \in joined : pump[p] = "closed" /\ p \notin missed
    /\ waiter # "done" => missed = {}

\* A handle that was read is announced, or about to be.
ReadIsTold ==
    /\ failed => told
    /\ named => told \/ (names /\ pump["stdout"] \in {"stamp", "tell"})

\* last_activity is as late as the last line, once no line is on its way.
NoLineIsLost == (\A p \in Pipes : ~IsPending(p)) => quiet <= silent

\* The reading the main thread judges by is not older than that.
JudgedByActivity ==
    /\ waiter = "judge" /\ spoke => idle < Silence
    /\ waiter \in {"poll", "judge"} => reason = "none"
    /\ reason = "idle" => ~spoke

RunInv ==
    /\ Counts /\ Labels /\ Flags /\ Causes
    /\ ClosedIsFinal /\ ReadIsTold /\ NoLineIsLost /\ JudgedByActivity

-----------------------------------------------------------------------------
USE RunCliAssumption

LEMMA TypeOfParts == RunTypeOK <=> Counts /\ Labels /\ Flags /\ Causes
BY DEF RunTypeOK, Counts, Labels, Flags, Causes

LEMMA RunStarts == RunInit => RunInv
<1> SUFFICES ASSUME RunInit PROVE RunInv
  OBVIOUS
<1> USE DEF RunInit, Pipes
<1>1. Counts /\ Labels
  BY DEF Counts, Labels
<1>2. Flags /\ Causes
  BY DEF Flags, Causes, NoPipe
<1>3. ClosedIsFinal /\ ReadIsTold
  BY DEF ClosedIsFinal, ReadIsTold
<1>4. NoLineIsLost
  BY DEF NoLineIsLost
<1>5. JudgedByActivity
  BY DEF JudgedByActivity
<1>6. QED
  BY <1>1, <1>2, <1>3, <1>4, <1>5 DEF RunInv

\* The actions of a step, one by one.
LEMMA Actions ==
  ASSUME RunNext
  PROVE  \/ \E p \in Pipes : Speak(p) \/ KinWrites(p) \/ ReadLine(p) \/ Stamp(p) \/ Close(p)
         \/ WriteLine \/ ChildExits \/ KinExits \/ TellLine \/ Tick
         \/ Poll \/ Judge \/ KillTree
         \/ Join("stdout", "join_stdout", "join_stderr")
         \/ Join("stderr", "join_stderr", "done")
BY DEF RunNext, PumpStep, WaiterStep

LEMMA CountsStep ==
  ASSUME Counts, Labels, [RunNext]_runVars
  PROVE  Counts'
<1> USE DEF Counts, childVars, pumpVars, waiterVars
<1>1. ASSUME NEW p \in Pipes, Put(p), UNCHANGED <<quiet, idle, age>>
      PROVE  Counts'
  BY <1>1 DEF Put
<1>2. ASSUME NEW p \in Pipes, ReadLine(p)
      PROVE  Counts'
  BY <1>2 DEF ReadLine
<1>3. ASSUME NEW p \in Pipes, Stamp(p)
      PROVE  Counts'
  BY <1>3 DEF Stamp
<1>4. CASE Poll
  BY <1>4 DEF Poll
<1>5. CASE Tick
  BY <1>5 DEF Tick, AtMost
<1>6. CASE WriteLine
  BY <1>1, <1>6 DEF WriteLine, Labels
<1>7. ASSUME NEW p \in Pipes, KinWrites(p)
      PROVE  Counts'
  BY <1>1, <1>7 DEF KinWrites
<1>8. CASE UNCHANGED <<unread, quiet, idle, silent, age>>
  BY <1>8
<1>9. QED
  BY <1>2, <1>3, <1>4, <1>5, <1>6, <1>7, <1>8, Actions
     DEF Speak, ChildExits, KinExits, TellLine, Close, Judge, KillTree, Join, runVars

LEMMA LabelsStep ==
  ASSUME Counts, Labels, [RunNext]_runVars
  PROVE  Labels'
<1> USE DEF Labels, childVars, pumpVars, waiterVars
<1>1. ASSUME NEW p \in Pipes, Speak(p) \/ KinWrites(p)
      PROVE  Labels'
  BY <1>1 DEF Speak, KinWrites, Put
<1>2. ASSUME NEW p \in Pipes, ReadLine(p) \/ Stamp(p) \/ Close(p)
      PROVE  Labels'
  BY <1>2 DEF ReadLine, Stamp, Close
<1>3. CASE WriteLine
  BY <1>3 DEF WriteLine, Put
<1>4. CASE ChildExits \/ KinExits \/ Tick
  BY <1>4 DEF ChildExits, KinExits, Tick
<1>5. CASE TellLine
  BY <1>5 DEF TellLine, Pipes
<1>6. CASE Poll
  BY <1>6 DEF Poll
<1>7. CASE Judge
  BY <1>7 DEF Judge
<1>8. CASE KillTree
  BY <1>8 DEF KillTree
<1>9. CASE Join("stdout", "join_stdout", "join_stderr") \/ Join("stderr", "join_stderr", "done")
  BY <1>9 DEF Join, Pipes
<1>10. CASE UNCHANGED runVars
  BY <1>10 DEF runVars
<1>11. QED
  BY <1>1, <1>2, <1>3, <1>4, <1>5, <1>6, <1>7, <1>8, <1>9, <1>10, Actions

LEMMA FlagsStep ==
  ASSUME Flags, [RunNext]_runVars
  PROVE  Flags'
<1> USE DEF Flags, childVars, pumpVars, waiterVars
<1>1. ASSUME NEW p \in Pipes, Speak(p) \/ KinWrites(p) \/ Stamp(p) \/ Close(p)
      PROVE  Flags'
  BY <1>1 DEF Speak, KinWrites, Stamp, Close
<1>2. ASSUME NEW p \in Pipes, ReadLine(p)
      PROVE  Flags'
  BY <1>2 DEF ReadLine
<1>3. CASE WriteLine \/ ChildExits \/ KinExits \/ Tick
  BY <1>3 DEF WriteLine, ChildExits, KinExits, Tick
<1>4. CASE TellLine
  BY <1>4 DEF TellLine
<1>5. CASE Poll
  BY <1>5 DEF Poll
<1>6. CASE Judge \/ KillTree
  BY <1>6 DEF Judge, KillTree
<1>7. CASE Join("stdout", "join_stdout", "join_stderr") \/ Join("stderr", "join_stderr", "done")
  BY <1>7 DEF Join
<1>8. CASE UNCHANGED runVars
  BY <1>8 DEF runVars
<1>9. QED
  BY <1>1, <1>2, <1>3, <1>4, <1>5, <1>6, <1>7, <1>8, Actions

LEMMA CausesStep ==
  ASSUME Causes, [RunNext]_runVars
  PROVE  Causes'
<1> USE DEF Causes, childVars, pumpVars, waiterVars
<1>1. ASSUME NEW p \in Pipes, Speak(p) \/ KinWrites(p) \/ ReadLine(p) \/ Stamp(p) \/ Close(p)
      PROVE  Causes'
  BY <1>1 DEF Speak, KinWrites, ReadLine, Stamp, Close
<1>2. CASE WriteLine \/ ChildExits \/ KinExits \/ TellLine \/ Tick
  BY <1>2 DEF WriteLine, ChildExits, KinExits, TellLine, Tick
<1>3. CASE Poll \/ KillTree
  BY <1>3 DEF Poll, KillTree
<1>4. CASE Judge
  BY <1>4 DEF Judge
<1>5. CASE Join("stdout", "join_stdout", "join_stderr") \/ Join("stderr", "join_stderr", "done")
  BY <1>5 DEF Join
<1>6. CASE UNCHANGED runVars
  BY <1>6 DEF runVars
<1>7. QED
  BY <1>1, <1>2, <1>3, <1>4, <1>5, <1>6, Actions

LEMMA ClosedStep ==
  ASSUME Counts, Labels, ClosedIsFinal, [RunNext]_runVars
  PROVE  ClosedIsFinal'
<1> USE DEF Counts, Labels, ClosedIsFinal, childVars, pumpVars, waiterVars
<1>1. CASE WriteLine \/ \E p \in Pipes : KinWrites(p)
  <2>1. \A p \in Pipes : pump[p] # "closed"
    BY <1>1 DEF WriteLine, KinWrites
  <2>2. UNCHANGED <<pump, joined, waiter>>
    BY <1>1 DEF WriteLine, KinWrites
  <2>3. waiter # "done" => missed' = missed
    BY <1>1 DEF WriteLine, KinWrites, Put
  <2>4. QED
    BY <2>1, <2>2, <2>3
<1>2. ASSUME NEW p \in Pipes, Speak(p) \/ Stamp(p) \/ Close(p)
      PROVE  ClosedIsFinal'
  BY <1>2 DEF Speak, Stamp, Close
<1>3. ASSUME NEW p \in Pipes, ReadLine(p)
      PROVE  ClosedIsFinal'
  BY <1>3 DEF ReadLine
<1>4. CASE ChildExits \/ KinExits \/ TellLine \/ Tick \/ Poll \/ Judge
  BY <1>4 DEF ChildExits, KinExits, TellLine, Tick, Poll, Judge
<1>5. CASE KillTree
  <2>1. ~child => ~child'
    <3>1. child' = child \/ child' = FALSE
      BY <1>5 DEF KillTree
    <3>2. QED
      BY <3>1, Zenon
  <2>2. ~kin => ~kin'
    <3>1. kin' = kin \/ kin' = FALSE
      BY <1>5 DEF KillTree
    <3>2. QED
      BY <3>1, Zenon
  <2>3. UNCHANGED <<unread, pump, joined, missed>> /\ missed = {}
    BY <1>5 DEF KillTree
  <2>4. QED
    BY <2>1, <2>2, <2>3
<1>6. ASSUME NEW p \in Pipes, NEW label, NEW next, label # "done", Join(p, label, next)
      PROVE  ClosedIsFinal'
  <2>1. UNCHANGED <<child, kin, unread, pump>>
    BY <1>6 DEF Join
  <2>2. joined' = joined \/ (pump[p] = "closed" /\ joined' = joined \cup {p})
    BY <1>6 DEF Join
  <2>3. missed' = missed \/ missed' = {q \in Pipes : unread[q] > 0}
    BY <1>6 DEF Join
  <2>4. \A q \in joined' : pump[q] = "closed" /\ (q \in joined \/ q = p)
    BY <2>2
  <2>5. \A q \in joined' : q \notin missed'
    <3>1. ASSUME NEW q \in joined' PROVE q \notin missed'
      <4>1. CASE missed' = {r \in Pipes : unread[r] > 0}
        <5>1. q \in Pipes /\ pump[q] = "closed"
          BY <2>4
        <5>2. unread[q] = 0
          BY <5>1
        <5>3. QED
          BY <4>1, <5>2
      <4>2. CASE missed' = missed /\ joined' = joined
        BY <4>2
      <4>3. CASE missed' = missed /\ q = p
        BY <1>6, <4>3 DEF Join
      <4>4. QED
        BY <2>2, <2>3, <2>4, <4>1, <4>2, <4>3
    <3>2. QED
      BY <3>1
  <2>6. waiter' # "done" => missed' = {}
    BY <1>6 DEF Join
  <2>7. QED
    BY <2>1, <2>4, <2>5, <2>6
<1>7. CASE UNCHANGED runVars
  BY <1>7 DEF runVars
<1>8. QED
  BY <1>1, <1>2, <1>3, <1>4, <1>5, <1>6, <1>7, Actions DEF Pipes

LEMMA ToldStep ==
  ASSUME Labels, Flags, ReadIsTold, [RunNext]_runVars
  PROVE  ReadIsTold'
<1> USE DEF Labels, Flags, ReadIsTold, childVars, pumpVars, waiterVars
<1>1. CASE UNCHANGED <<pump, names, told, failed, named>>
  BY <1>1
<1>2. ASSUME NEW p \in Pipes, ReadLine(p)
      PROVE  ReadIsTold'
  <2>1. failed' => told'
    BY <1>2 DEF ReadLine
  <2>2. CASE named
    <3>1. CASE told
      BY <2>1, <3>1, <1>2 DEF ReadLine
    <3>2. CASE ~told
      <4>1. p = "stderr"
        BY <1>2, <2>2, <3>2 DEF ReadLine, Pipes
      <4>2. QED
        BY <1>2, <2>1, <2>2, <3>2, <4>1 DEF ReadLine, Pipes
    <3>3. QED
      BY <3>1, <3>2
  <2>3. CASE ~named
    <3>1. named' => names' /\ p = "stdout"
      BY <1>2, <2>3, Zenon DEF ReadLine
    <3>2. p = "stdout" => pump'["stdout"] = "stamp"
      BY <1>2 DEF ReadLine, Pipes
    <3>3. QED
      BY <2>1, <3>1, <3>2
  <2>4. QED
    BY <2>2, <2>3
<1>3. ASSUME NEW p \in Pipes, Stamp(p) \/ Close(p)
      PROVE  ReadIsTold'
  BY <1>3 DEF Stamp, Close, Pipes
<1>4. CASE TellLine
  <2>1. failed' => told'
    BY <1>4 DEF TellLine
  <2>2. named' => told'
    BY <1>4 DEF TellLine
  <2>3. QED
    BY <2>1, <2>2
<1>5. QED
  BY <1>1, <1>2, <1>3, <1>4, Actions
     DEF Speak, WriteLine, KinWrites, ChildExits, KinExits, Tick, Poll, Judge,
         KillTree, Join, runVars

LEMMA NoLineStep ==
  ASSUME Counts, Labels, NoLineIsLost, [RunNext]_runVars
  PROVE  NoLineIsLost'
<1> USE DEF Counts, Labels, NoLineIsLost, IsPending, childVars, pumpVars, waiterVars
<1>1. CASE UNCHANGED <<unread, quiet, silent>> /\ UNCHANGED pump
  BY <1>1
<1>2. ASSUME NEW p \in Pipes, Put(p), UNCHANGED pump
      PROVE  NoLineIsLost'
  BY <1>2 DEF Put
<1>3. ASSUME NEW p \in Pipes, ReadLine(p)
      PROVE  NoLineIsLost'
  BY <1>3 DEF ReadLine
<1>4. ASSUME NEW p \in Pipes, Stamp(p)
      PROVE  NoLineIsLost'
  BY <1>4 DEF Stamp
<1>5. ASSUME NEW p \in Pipes, Close(p)
      PROVE  NoLineIsLost'
  BY <1>5 DEF Close
<1>6. CASE TellLine
  BY <1>6 DEF TellLine, Pipes
<1>7. CASE Tick
  BY <1>7 DEF Tick, AtMost
<1>8. QED
  BY <1>1, <1>2, <1>3, <1>4, <1>5, <1>6, <1>7, Actions
     DEF Speak, WriteLine, KinWrites, ChildExits, KinExits, Poll, Judge,
         KillTree, Join, runVars, Pipes, NoPipe

LEMMA JudgedStep ==
  ASSUME Counts, Labels, Flags, NoLineIsLost, JudgedByActivity, [RunNext]_runVars
  PROVE  JudgedByActivity'
<1> USE DEF Counts, Labels, JudgedByActivity, childVars, pumpVars, waiterVars
<1>1. CASE UNCHANGED <<waiter, idle, reason, spoke>>
  BY <1>1
<1>2. ASSUME NEW p \in Pipes, Stamp(p)
      PROVE  JudgedByActivity'
  <2>1. UNCHANGED <<waiter, reason, spoke>> /\ idle' \in {0, idle}
    BY <1>2 DEF Stamp
  <2>2. QED
    BY <2>1
<1>3. CASE Poll
  <2>1. waiter = "poll" /\ UNCHANGED reason /\ reason = "none"
    BY <1>3 DEF Poll
  <2>2. waiter' = "judge" => idle' = quiet
    BY <1>3 DEF Poll
  <2>3. waiter' = "judge" /\ spoke' => silent < Silence /\ \A p \in Pipes : ~IsPending(p)
    BY <1>3, Zenon DEF Poll
  <2>4. waiter' = "judge" /\ spoke' => quiet < Silence
    BY <2>3 DEF NoLineIsLost
  <2>5. QED
    BY <2>1, <2>2, <2>4
<1>4. CASE Judge
  <2>1. waiter = "judge" /\ waiter' \in {"kill", "poll"} /\ UNCHANGED <<idle, spoke>>
    BY <1>4 DEF Judge
  <2>2. reason' = "idle" => idle >= Silence
    BY <1>4, <2>1 DEF Judge
  <2>3. waiter' = "poll" => reason' = "none"
    BY <1>4 DEF Judge
  <2>4. idle \in Nat /\ (spoke => idle < Silence)
    BY <2>1
  <2>5. QED
    BY <2>1, <2>2, <2>3, <2>4
<1>5. CASE KillTree
  BY <1>5 DEF KillTree
<1>6. CASE Join("stdout", "join_stdout", "join_stderr") \/ Join("stderr", "join_stderr", "done")
  BY <1>6 DEF Join
<1>7. QED
  BY <1>1, <1>2, <1>3, <1>4, <1>5, <1>6, Actions
     DEF Speak, WriteLine, KinWrites, ChildExits, KinExits, TellLine, ReadLine,
         Close, Tick, runVars

LEMMA RunStep == RunInv /\ [RunNext]_runVars => RunInv'
<1> SUFFICES ASSUME RunInv, [RunNext]_runVars PROVE RunInv'
  OBVIOUS
<1>1. Counts /\ Labels /\ Flags /\ Causes
  BY DEF RunInv
<1>2. ClosedIsFinal /\ ReadIsTold /\ NoLineIsLost /\ JudgedByActivity
  BY DEF RunInv
<1>3. Counts'
  BY <1>1, CountsStep
<1>4. Labels'
  BY <1>1, LabelsStep
<1>5. Flags'
  BY <1>1, FlagsStep
<1>6. Causes'
  BY <1>1, CausesStep
<1>7. ClosedIsFinal'
  BY <1>1, <1>2, ClosedStep
<1>8. ReadIsTold'
  BY <1>1, <1>2, ToldStep
<1>9. NoLineIsLost'
  BY <1>1, <1>2, NoLineStep
<1>10. JudgedByActivity'
  BY <1>1, <1>2, JudgedStep
<1>11. QED
  BY <1>3, <1>4, <1>5, <1>6, <1>7, <1>8, <1>9, <1>10 DEF RunInv

LEMMA RunKeepsInv == RunSpec => []RunInv
<1>1. QED
  BY RunStarts, RunStep, PTL DEF RunSpec

-----------------------------------------------------------------------------

\* Every variable of run_cli keeps its type, whatever the interleaving of the
\* main thread, the two pump threads and the sub-agent.
THEOREM RunTypeCorrect == RunSpec => []RunTypeOK
<1>1. RunInv => RunTypeOK
  BY TypeOfParts DEF RunInv
<1>2. QED
  BY <1>1, RunKeepsInv, PTL

\* run_cli ends no run for its silence that was seen to write within the
\* budget, on stdout or stderr: last_activity, which both pump threads set
\* without a lock, is never further behind than a line on its way to it.
THEOREM NoTalkerIsEnded == RunSpec => []OnlySilenceIsEnded
<1>1. RunInv => OnlySilenceIsEnded
  BY DEF RunInv, JudgedByActivity, OnlySilenceIsEnded
<1>2. QED
  BY <1>1, RunKeepsInv, PTL

\* A pump thread that ended before its join returned has put every line of its
\* pipe in the result, those of a process left behind included.
THEOREM ResultsAreWhole == RunSpec => []ResultIsWhole
<1>1. RunInv => ResultIsWhole
  BY DEF RunInv, ClosedIsFinal, ResultIsWhole
<1>2. QED
  BY <1>1, RunKeepsInv, PTL

\* run_cli does not return a stdout read to its end that names the
\* conversation before on_session_id was called with it.
THEOREM HandlesAreTold == RunSpec => []HandleIsTold
<1>1. RunInv => HandleIsTold
  <2> SUFFICES ASSUME RunInv, waiter = "done", "stdout" \in joined, named
               PROVE  told
    BY DEF HandleIsTold
  <2>1. pump["stdout"] = "closed"
    BY DEF RunInv, ClosedIsFinal
  <2>2. QED
    BY <2>1 DEF RunInv, ReadIsTold
<1>2. QED
  BY <1>1, RunKeepsInv, PTL

-----------------------------------------------------------------------------

\* A step of run_cli is one of the abstract sub-agent, or none of it.
LEMMA SubagentStep ==
  ASSUME RunInv, [RunNext]_runVars
  PROVE  [Sub!Tell \/ Sub!EndRun]_Sub!subagentVars
<1> DEFINE ph == IF waiter # "done" THEN "running"
                 ELSE IF "stdout" \in joined THEN "drained" ELSE "abandoned"
<1> USE DEF Sub!Tell, Sub!EndRun, Sub!subagentVars, childVars, pumpVars, waiterVars
<1>1. CASE UNCHANGED <<waiter, joined, told>>
  BY <1>1
<1>2. CASE TellLine
  <2>1. ph # "drained"
    <3>1. "stdout" \notin joined
      BY <1>2 DEF TellLine, RunInv, ClosedIsFinal
    <3>2. QED
      BY <3>1
  <2>2. ph' = ph
    BY <1>2 DEF TellLine
  <2>3. told' = told \/ (~told /\ told' = TRUE)
    BY <1>2, Zenon DEF TellLine
  <2>4. QED
    BY <2>1, <2>2, <2>3
<1>3. CASE Poll \/ Judge \/ KillTree
  <2>1. ph' = ph /\ UNCHANGED told
    BY <1>3 DEF Poll, Judge, KillTree
  <2>2. QED
    BY <2>1
<1>4. CASE Join("stdout", "join_stdout", "join_stderr")
  <2>1. ph' = ph /\ UNCHANGED told
    BY <1>4 DEF Join
  <2>2. QED
    BY <2>1
<1>5. CASE Join("stderr", "join_stderr", "done")
  <2>1. ph = "running" /\ ph' \in {"drained", "abandoned"} /\ UNCHANGED told
    BY <1>5 DEF Join
  <2>2. QED
    BY <2>1
<1>6. QED
  BY <1>1, <1>2, <1>3, <1>4, <1>5, Actions
     DEF Speak, WriteLine, KinWrites, ChildExits, KinExits, Tick, ReadLine,
         Stamp, Close, runVars

\* run_cli implements the sub-agent the dispatches are modelled on: the handle
\* is told at most once, and never after the run was over with its output read.
THEOREM RunIsSubagent == RunSpec => IsSubagent
<1>1. RunInit => Sub!SubagentInit
  BY DEF RunInit, Sub!SubagentInit
<1>2. QED
  BY <1>1, SubagentStep, RunKeepsInv, PTL
     DEF RunSpec, IsSubagent, Sub!SubagentSpec
=============================================================================
