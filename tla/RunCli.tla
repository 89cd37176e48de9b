------------------------------- MODULE RunCli -------------------------------
(***************************************************************************)
(* How one vendor CLI is run (drivers/process.py run_cli): the main thread *)
(* waits for the child and judges two budgets, two pump threads read its   *)
(* pipes, and nothing but last_activity and callback_error is shared.      *)
(*                                                                         *)
(*    waiter:  poll  judge  kill  join_stdout  join_stderr  done           *)
(*    pump:    read  stamp  tell  (read)  closed                           *)
(*                                                                         *)
(* The child writes one line at a time and blocks on a full pipe; a        *)
(* process it left behind (kin) may write too and keeps the pipes open     *)
(* when the child is gone.  Times are counted in ticks since the event     *)
(* they are compared with, up to the budget: beyond it they are equal.     *)
(***************************************************************************)
EXTENDS Naturals

CONSTANTS
    PipeSize,     \* lines a pipe holds
    Silence,      \* timeout, in ticks
    Cap           \* max_runtime, in ticks

ASSUME RunCliAssumption ==
    PipeSize \in Nat \ {0} /\ Silence \in Nat \ {0} /\ Cap \in Nat \ {0}

VARIABLES
    child,        \* the vendor's CLI runs
    kin,          \* a process it started, which holds its pipes, runs
    wants,        \* the pipe the child is writing to
    unread,       \* the lines in each pipe
    pump,         \* the next step of each reading thread
    names,        \* the stdout line in hand names the conversation's handle
    waiter,       \* the next step of the main thread
    quiet,        \* ticks since last_activity
    age,          \* ticks since started
    idle,         \* what the main thread takes for the silence
    capped,       \* max_runtime is set
    reason,       \* the budget that ended the run
    joined,       \* the pumps that ended before their join gave up
    told,         \* on_session_id was called
    failed,       \* callback_error
    silent,       \* history: ticks since a line was last written
    spoke,        \* history: a line was seen within the budget when judged
    named,        \* history: a line with the handle is in the result
    missed        \* history: the pipes with lines that are not in the result

childVars == <<child, kin, wants>>
pumpVars == <<pump, names, told, failed, named>>
waiterVars == <<waiter, idle, reason, joined, spoke>>
runVars == <<childVars, unread, pumpVars, waiterVars, quiet, age, capped, silent, missed>>

Pipes == {"stdout", "stderr"}
NoPipe == "none"

\* The types; only a child that runs is writing, and only a cap that is set ends
\* a run.
RunTypeOK ==
    /\ child \in BOOLEAN /\ kin \in BOOLEAN /\ wants \in Pipes \cup {NoPipe}
    /\ unread \in [Pipes -> 0..PipeSize]
    /\ pump \in [Pipes -> {"read", "stamp", "tell", "closed"}]
    /\ waiter \in {"poll", "judge", "kill", "join_stdout", "join_stderr", "done"}
    /\ quiet \in 0..Silence /\ idle \in 0..Silence /\ silent \in 0..Silence
    /\ age \in 0..Cap
    /\ reason \in {"none", "idle", "max-runtime"}
    /\ joined \subseteq Pipes /\ missed \subseteq Pipes
    /\ {names, capped, told, failed, spoke, named} \subseteq BOOLEAN
    /\ wants # NoPipe => child
    /\ reason = "max-runtime" => capped

RunInit ==
    /\ child = TRUE /\ kin \in BOOLEAN /\ wants = NoPipe
    /\ unread = [p \in Pipes |-> 0]
    /\ pump = [p \in Pipes |-> "read"]
    /\ waiter = "poll" /\ reason = "none" /\ joined = {} /\ missed = {}
    /\ quiet = 0 /\ idle = 0 /\ silent = 0 /\ age = 0
    /\ capped \in BOOLEAN
    /\ names = FALSE /\ told = FALSE /\ failed = FALSE
    /\ spoke = FALSE /\ named = FALSE

-----------------------------------------------------------------------------
(* The sub-agent.                                                          *)

Put(p) ==
    /\ unread[p] < PipeSize
    /\ unread' = [unread EXCEPT ![p] = @ + 1]
    /\ silent' = 0
    /\ missed' = IF waiter = "done" THEN missed \cup {p} ELSE missed

\* The child is about to write a line.
Speak(p) ==
    /\ child /\ wants = NoPipe
    /\ wants' = p
    /\ UNCHANGED <<child, kin, unread, pumpVars, waiterVars, quiet, age, capped,
                   silent, missed>>

\* It blocks until the pipe has room.
WriteLine ==
    /\ child /\ wants # NoPipe
    /\ Put(wants)
    /\ wants' = NoPipe
    /\ UNCHANGED <<child, kin, pumpVars, waiterVars, quiet, age, capped>>

KinWrites(p) ==
    /\ kin
    /\ Put(p)
    /\ UNCHANGED <<childVars, pumpVars, waiterVars, quiet, age, capped>>

ChildExits ==
    /\ child /\ wants = NoPipe
    /\ child' = FALSE
    /\ UNCHANGED <<kin, wants, unread, pumpVars, waiterVars, quiet, age, capped,
                   silent, missed>>

KinExits ==
    /\ kin
    /\ kin' = FALSE
    /\ UNCHANGED <<child, wants, unread, pumpVars, waiterVars, quiet, age, capped,
                   silent, missed>>

-----------------------------------------------------------------------------
(* The pump threads.                                                       *)

\* mutant: stderr is read when stdout has ended
ReadInTurn(p) ==
    /\ pump[p] = "read" /\ unread[p] > 0
    /\ p = "stderr" => pump["stdout"] = "closed"
    /\ unread' = [unread EXCEPT ![p] = @ - 1]
    /\ pump' = [pump EXCEPT ![p] = "stamp"]
    /\ IF p = "stdout" THEN names' \in BOOLEAN ELSE UNCHANGED names
    /\ named' = (named \/ (names' /\ p = "stdout" /\ waiter # "done"))
    /\ UNCHANGED <<childVars, told, failed, waiterVars, quiet, age, capped,
                   silent, missed>>

\* A line is taken from the pipe and appended to what the run returns.
ReadLine(p) ==
    /\ pump[p] = "read" /\ unread[p] > 0
    /\ unread' = [unread EXCEPT ![p] = @ - 1]
    /\ pump' = [pump EXCEPT ![p] = "stamp"]
    /\ IF p = "stdout" THEN names' \in BOOLEAN ELSE UNCHANGED names
    /\ named' = (named \/ (names' /\ p = "stdout" /\ waiter # "done"))
    /\ UNCHANGED <<childVars, told, failed, waiterVars, quiet, age, capped,
                   silent, missed>>

\* mutant: only stdout is proof of life
StampStdout(p) ==
    /\ pump[p] = "stamp"
    /\ quiet' = IF p = "stdout" THEN 0 ELSE quiet
    /\ idle' \in IF waiter = "judge" /\ p = "stdout" THEN {0, idle} ELSE {idle}
    /\ pump' = [pump EXCEPT ![p] = IF p = "stdout" THEN "tell" ELSE "read"]
    /\ UNCHANGED <<childVars, unread, names, told, failed, named, waiter, reason,
                   joined, spoke, age, capped, silent, missed>>

\* last_activity = monotonic(), on a line of either pipe.  A main thread that
\* has read its clock may find the new value or have read the old one.
Stamp(p) ==
    /\ pump[p] = "stamp"
    /\ quiet' = 0
    /\ idle' \in IF waiter = "judge" THEN {0, idle} ELSE {idle}
    /\ pump' = [pump EXCEPT ![p] = IF p = "stdout" THEN "tell" ELSE "read"]
    /\ UNCHANGED <<childVars, unread, names, told, failed, named, waiter, reason,
                   joined, spoke, age, capped, silent, missed>>

\* mutant: no latch
TellAgain ==
    /\ pump["stdout"] = "tell"
    /\ IF names /\ ~failed
       THEN told' = ~told /\ failed' \in BOOLEAN
       ELSE UNCHANGED <<told, failed>>
    /\ pump' = [pump EXCEPT !["stdout"] = "read"]
    /\ UNCHANGED <<childVars, unread, names, named, waiterVars, quiet, age, capped,
                   silent, missed>>

\* on_line, which is session_id_watcher's: the first handle is reported.  What
\* the callback raises is kept, and it is not called again.
TellLine ==
    /\ pump["stdout"] = "tell"
    /\ IF names /\ ~told /\ ~failed
       THEN told' = TRUE /\ failed' \in BOOLEAN
       ELSE UNCHANGED <<told, failed>>
    /\ pump' = [pump EXCEPT !["stdout"] = "read"]
    /\ UNCHANGED <<childVars, unread, names, named, waiterVars, quiet, age, capped,
                   silent, missed>>

\* mutant: reading ends with the child
CloseWithChild(p) ==
    /\ pump[p] = "read" /\ ~child
    /\ pump' = [pump EXCEPT ![p] = "closed"]
    /\ UNCHANGED <<childVars, unread, names, told, failed, named, waiterVars, quiet,
                   age, capped, silent, missed>>

\* End of file: the pipe is empty and nobody can write to it.
Close(p) ==
    /\ pump[p] = "read" /\ unread[p] = 0 /\ ~child /\ ~kin
    /\ pump' = [pump EXCEPT ![p] = "closed"]
    /\ UNCHANGED <<childVars, unread, names, told, failed, named, waiterVars, quiet,
                   age, capped, silent, missed>>

-----------------------------------------------------------------------------
(* The main thread.                                                        *)

\* Lines on their way to last_activity.
IsPending(p) == unread[p] > 0 \/ pump[p] = "stamp"

\* process.wait(timeout=_POLL_SECONDS): the child is gone, or the thread reads
\* the clock; its age is part of that reading.
Poll ==
    /\ waiter = "poll"
    /\ \/ ~child /\ waiter' = "join_stdout" /\ UNCHANGED <<idle, spoke>>
       \/ /\ child
          /\ waiter' = "judge"
          /\ idle' = quiet
          /\ spoke' = (silent < Silence /\ \A p \in Pipes : ~IsPending(p))
    /\ UNCHANGED <<childVars, unread, pumpVars, reason, joined, quiet, age, capped,
                   silent, missed>>

\* mutant: the cap is only looked at when the sub-agent is quiet
JudgeQuiet ==
    /\ waiter = "judge"
    /\ \/ /\ idle >= Silence
          /\ reason' = "idle" /\ waiter' = "kill"
       \/ /\ idle < Silence /\ capped /\ age >= Cap /\ idle > 0
          /\ reason' = "max-runtime" /\ waiter' = "kill"
       \/ /\ idle < Silence /\ ~(capped /\ age >= Cap /\ idle > 0)
          /\ waiter' = "poll" /\ UNCHANGED reason
    /\ UNCHANGED <<childVars, unread, pumpVars, idle, joined, spoke, quiet, age,
                   capped, silent, missed>>

\* mutant: no cap is taken for one of no ticks
JudgeUncapped ==
    /\ waiter = "judge"
    /\ \/ /\ idle >= Silence
          /\ reason' = "idle" /\ waiter' = "kill"
       \/ /\ idle < Silence /\ (capped => age >= Cap)
          /\ reason' = "max-runtime" /\ waiter' = "kill"
       \/ /\ idle < Silence /\ capped /\ age < Cap
          /\ waiter' = "poll" /\ UNCHANGED reason
    /\ UNCHANGED <<childVars, unread, pumpVars, idle, joined, spoke, quiet, age,
                   capped, silent, missed>>

\* The budget of silence comes first, then the cap, else the wait goes on.
Judge ==
    /\ waiter = "judge"
    /\ \/ /\ idle >= Silence
          /\ reason' = "idle" /\ waiter' = "kill"
       \/ /\ idle < Silence /\ capped /\ age >= Cap
          /\ reason' = "max-runtime" /\ waiter' = "kill"
       \/ /\ idle < Silence /\ ~(capped /\ age >= Cap)
          /\ waiter' = "poll" /\ UNCHANGED reason
    /\ UNCHANGED <<childVars, unread, pumpVars, idle, joined, spoke, quiet, age,
                   capped, silent, missed>>

\* _kill_tree: the child, and what it started where the system knows of it.  A
\* taskkill or kill that fails is not noticed, and what it did not end runs on.
KillTree ==
    /\ waiter = "kill"
    /\ \/ child' = FALSE /\ wants' = NoPipe
       \/ UNCHANGED <<child, wants>>
    /\ kin' \in {kin, FALSE}
    /\ waiter' = "join_stdout"
    /\ UNCHANGED <<unread, pumpVars, idle, reason, joined, spoke, quiet, age, capped,
                   silent, missed>>

\* mutant: the threads are not waited for
JoinNothing(p, label, next) ==
    /\ waiter = label
    /\ waiter' = next /\ joined' = joined \cup {p}
    /\ missed' = IF next = "done" THEN {q \in Pipes : unread[q] > 0} ELSE missed
    /\ UNCHANGED <<childVars, unread, pumpVars, idle, reason, spoke, quiet, age, capped,
                   silent>>

\* thread.join(timeout=_DRAIN_SECONDS): the pump ended, or the time is over.
\* After the second one run_cli returns what both have read.
Join(p, label, next) ==
    /\ waiter = label
    /\ waiter' = next
    /\ \/ pump[p] = "closed" /\ joined' = joined \cup {p}
       \/ pump[p] # "closed" /\ UNCHANGED joined
    /\ missed' = IF next = "done" THEN {q \in Pipes : unread[q] > 0} ELSE missed
    /\ UNCHANGED <<childVars, unread, pumpVars, idle, reason, spoke, quiet, age,
                   capped, silent>>

-----------------------------------------------------------------------------

AtMost(n, bound) == IF n < bound THEN n ELSE bound

\* Time passes, but not between the reading of the clock and the verdict on it,
\* which has no wait in it.
Tick ==
    /\ waiter \notin {"judge", "done"}
    /\ quiet' = AtMost(quiet + 1, Silence)
    /\ silent' = AtMost(silent + 1, Silence)
    /\ age' = AtMost(age + 1, Cap)
    /\ UNCHANGED <<childVars, unread, pumpVars, waiterVars, capped, missed>>

WaiterStep ==
    \/ Poll \/ Judge \/ KillTree
    \/ Join("stdout", "join_stdout", "join_stderr")
    \/ Join("stderr", "join_stderr", "done")

PumpStep(p) == ReadLine(p) \/ Stamp(p) \/ Close(p)

RunNext ==
    \/ \E p \in Pipes : Speak(p) \/ KinWrites(p) \/ PumpStep(p)
    \/ WriteLine \/ ChildExits \/ KinExits \/ TellLine \/ WaiterStep \/ Tick

RunSpec == RunInit /\ [][RunNext]_runVars

\* The threads are scheduled, and a writer that waits for room gets it although
\* another process writes to the same pipe.  The sub-agent owes nothing.
FairRunSpec ==
    /\ RunSpec
    /\ WF_runVars(WaiterStep) /\ WF_runVars(TellLine) /\ SF_runVars(WriteLine)
    /\ \A p \in Pipes : WF_runVars(PumpStep(p))

-----------------------------------------------------------------------------
(* Properties.                                                             *)

\* A sub-agent ended for its silence had not written within the budget, on
\* either pipe, when the clock was read: a working one is not killed.  Lines
\* the threads had not come to yet are left out.
OnlySilenceIsEnded == reason = "idle" => ~spoke

\* What a pump that ended has read is all that was ever written to its pipe,
\* by the child or by what the child left behind: only a join that gave up
\* returns less.
ResultIsWhole == \A p \in joined : p \notin missed

\* When stdout was read to its end and names the conversation's handle, the
\* driver's callback was called with it before the run returned.
HandleIsTold == waiter = "done" /\ "stdout" \in joined /\ named => told

\* A run is a sub-agent that tells its handle at most once, and only before
\* its output is handed over complete.
Sub == INSTANCE Subagent WITH
    phase <- IF waiter # "done" THEN "running"
             ELSE IF "stdout" \in joined THEN "drained" ELSE "abandoned"
IsSubagent == Sub!SubagentSpec

\* If time goes on, a run comes to its end, whatever it left running; only one
\* without a cap that keeps talking goes on for ever.
RunReturns ==
    SF_runVars(Tick) => <>(waiter = "done") \/ (~capped /\ []<>(silent = 0))

\* A child blocked on a full pipe is served, however slowly time passes: the
\* two pipes are drained at once, so neither holds up the other.
WriterGoesOn == wants # NoPipe ~> wants = NoPipe
=============================================================================
