# ai-room in TLA+

ai-room lets two AI coding agents, codex and claude, work in one worktree: one
sends the other questions and waits for answers through a SQLite database (the
*room*), and either can run a vendor's CLI headlessly as a sub-agent
(*dispatch*).  No server runs: every command is a short process, or a `wait`
that polls, and everything that lasts is in database rows and small files.  The
correctness of the program is therefore a matter of what happens *between* its
transactions and file writes: which processes run at once, where one of them is
killed, and what was read before and used after.  These modules model that.

Paths below are relative to `src/ai_room/` of the repository.

## 1. The system

| Part | State it keeps | Operations | Talks to | What is hard |
|---|---|---|---|---|
| Room store (`storage.py`, `domain.py`) | SQLite tables: members, tasks, messages, quarantined messages, workspace baselines, context-check rows | join, leave, begin/refresh/clear waiter, enqueue, claim, acknowledge, reply, resume check, record baseline, record/clear check; each one `BEGIN IMMEDIATE` transaction | the service, one connection per process | one queue moved by four transactions, leases, rounds, damaged rows |
| Room service (`service.py`) | what one command has read so far | join, send, wait, reply, resume check, leave, acknowledge | store, guard, context sample | several transactions per command, killed or overtaken in between |
| Mailbox commands (`cli.py main`) | nothing of their own | join, wait, send, reply, status, leave | registry, store, service, the terminal | join and leave write two databases; output comes before the confirmation |
| Binding registry (`bindings.py`) | a second database per runtime directory: session → room | reserve, activate, resolve, delete | `cli.py` | agreement with the rooms' member rows |
| Context policy and samples (`context/`) | none (the store keeps the last check) | evaluate, fingerprint, read a transcript | service | stale previous check, growth and fingerprint rules |
| Workspace guard (`workspace_guard.py`) | none (the store keeps baselines) | capture, compare, normalise paths | service | the worktree changes while it is hashed and judged |
| Dispatches (`cli.py _dispatch`, `inflight.py`, `session_settings.py`, `ledger.py`) | files under `.ai-room`: in-flight records, settings per conversation, the ledger and its lock | ask, resume | drivers | two threads write the files, and the process is killed between or inside any two writes |
| Driver processes (`drivers/process.py`, `protocol.py`) | a child process, two reader threads, a callback | run_cli, session watcher | vendors' CLIs, `_dispatch` | two budgets, threads that outlive the wait for them |
| Vendor drivers (`drivers/claude.py`, `codex.py`, `opencode.py`, `dsh.py`) | none | build a command line, parse events | run_cli | parsing |
| Installer (`install.py`), session hook (`hooks/`) | skill files, settings, exported variables | install, session start | the file system | a failure between two writes |
| Receipts, paths, model defaults | none | pure readers | the commands | nothing that outlives a call |

What makes each part correct:

* **Store**: one task is active at a time, in the order of sending; work never
  waits behind an empty place; the active task's request can be delivered; a
  round is answered once; nothing that is over is delivered again; the first
  baseline of a round stands; a damaged row is removed without stopping the rest.
* **Service and commands**: a request is printed to its recipient however often
  waits die, and what is printed can be answered; no reply is lost unread; a
  round is answered by someone it was delivered to; a newer wait is not thrown
  out by an older one; a compaction counts as granted only by the answer to the
  check on record.
* **Registry**: a session a room counts as joined can still use or leave it; a
  session is in one room at most; whoever got a room open has its tables.
* **Dispatches**: a handle that was announced is found again and continued on
  its own model; what is left in flight was cut short; the ledger has one header
  however many dispatches end at once.
* **Driver processes**: a sub-agent that works is not ended as silent, one whose
  output is read to its end has lost no line and no handle, a full pipe holds
  nothing up, and the run returns whatever it left running.
* **Installer**: nothing of the user's is lost that he did not write during a
  run, nothing of his is replaced unseen, and a repeated run completes a stopped
  one.

## 2. The modules

```
AdvisorQueue            what a room promises: a line, served one at a time
   ^ ServesTheLine
RoomStore ── RoomQueue (refinement mapping) ── MCRoomStore
   |  \__ RoomStoreProofs (with the refinement) ── RoomRoundsProofs
   v
ContextCheck            the context-check half of wait
   v
Session                 processes running join/send/wait/reply/leave
   \__ SessionProofs (with RoomRoundsProofs) ── DeliveryProofs; MCSession

Binding ── BindingProofs, MCBinding     registry and rooms: join, leave, open

Subagent                what a dispatch may count on: a handle told once, in time
   ^ IsSubagent
RunCli ── RunCliProofs                  one run of a vendor's CLI
   .  (what a run may do is a choice in:)
Dispatch ── DispatchProofs, MCDispatch  ask and resume over files

Install ── InstallProofs, MCInstall     the installer and the user
```

**`RoomStore`** models the tables as `members`, `tasks`, `messages`,
`quarantined`, `baselines`, `checks`.  A task is identified by its sequence
number, a message by its fifo sequence.  An action is a whole transaction, so
the request row `_activate_next` inserts and the trailing activations in
`enqueue_task`, `reply` and `_quarantine_message` are part of the action that
causes them.  Time is abstracted: a leased row can be claimed again after
`LeaseExpires`.  Text is abstracted to what can differ: a request is its sender,
recipient, kind, key, topic and tokens; a reply its outcome and body.  Damage by
something else to a row (`_validate_message_row` and the quarantine exist for
it) is `DamageRow`.  `Next` lets any client call any transaction at any time,
which is weaker than what the commands do and is what the theorems are about.

**`ContextCheck`** and **`Session`** put processes on top: `pc` names the next
transaction of each, `ctx` and `job` hold what it has read, `disk` is the
worktree, `shown` what agents have seen on their terminals.  Each label is one
store transaction or one look at the worktree, so that any other process can
come between.  `Crash` kills a process at any label; `Interrupt` is `Ctrl+C` in
a wait, or a worktree it cannot read (`WorkspaceCaptureError`), which runs its
`finally` (the label `clear`); `Compare` may end a reply for the same reason.  `CheckStep` follows
`service.wait` after its first empty claim: look for a waiting check, sample the
tokens, judge, enqueue and record, or acknowledge, find and resume.  A check's
next entry and the session and window of its sample are left out of the request;
that they differ from an earlier request with the same key is one reason for the
conflict `AskForCheck` may end in.  Both advisors' processes may answer one
round, and a retried reply is a second run of the same command.

**`AdvisorQueue`** is the abstract room: tasks stand in one line, the first
unfinished one is served, and tasks only move from waiting to serving to over.
`RoomQueue` maps the tables to it (`PhaseOf`).

**`Binding`** keeps the registry's row of each session, which rooms have a
database file and which of these have their tables, and the session each room's
member row names.  `join` is Reserve, (open), Enter, Activate; `leave` is
ResolveForLeave, (open), ExitRoom, Unbind; every other command is Resolve,
(open), Use.  Opening is `SQLiteStore.open`, step by step: `Probe` looks for the
file, `Connect` creates it empty and `CreateSchema` commits the tables, or
`Verify` reads the schema version of a file that was there.  A command that is
refused before it changes anything is left out.

**`Dispatch`** keeps the three kinds of files under `.ai-room`, the ledger's
lock, and per process the state of its two threads: `pc` is `_dispatch`, `pump`
the thread of `run_cli` that reads the sub-agent and runs the callback that
writes settings and the in-flight record *while* the main thread goes on.
`write_text` empties a file and then fills it, so a settings file can be `Torn`
and a record name no session.  `Kill` may follow any step; `LockLedger` and
`WriteLedger` are the append under the lock, which the system frees when its
holder dies.  `ClearInflight` may leave the record: `clear_inflight` ignores a
file the system does not remove (`inflight.py:84`).  `ResumeHandle` continues a
conversation the ledger names or a finished process told its caller.  The vendor
is external: it may fail to start, announce one handle
or none, and end in any way.  What `_resolve_settings` does with model and
effort is modelled on one value.

**`RunCli`** is `run_cli` itself: the main thread (`waiter`) polls, judges the
silence budget before the runtime cap, kills and joins for a bounded time (a kill
that fails is not noticed, and the child runs on: `KillTree`); two
pump threads read bounded pipes, stamp `last_activity` and, for stdout, call
`session_id_watcher`.  The child blocks on a full pipe; a process it left behind
(`kin`) keeps the pipes open.  Time is `Tick`; each clock counts up to the
budget it is compared with.  **`Subagent`** states what a run owes the
dispatch: the handle is told at most once, and never after an output read to its
end.  `Dispatch` makes the same choices by hand (`Announce` until the output is
drained or, abandoned, as long as the process lives).

**`Install`** is a run's scan, read and compare (`_prepare_install`) and its
writes in order: the skill's files one by one, the backup, the settings.
Several runs overlap, any may stop between two steps (`Stop`), and the user
edits or removes files meanwhile.

## 3. What the runs check

| Run | Instance | Shows |
|---|---|---|
| `room_tables` | 2 tasks, 2 rounds, 1 damaged row | `ServesTheLine`: the tables implement `AdvisorQueue`; `NeverIdleWithWork`, `WorkIsPosted`, `StateMatchesReply`, `OneReplyPerRound`, `TypeOK` under every order of transactions |
| `session_rounds` | 3 processes, 2 of them of the advisor's session, 1 check of 2 rounds | `NoStaleRequest`, `ShownIsAnswerable`, `AnswersFollowDelivery`, `WaiterIsWaiting`, `WaitKeepsItsPlace` while waits supersede each other and both of the advisor's processes answer; nobody is killed |
| `session_crash` | 2 processes, 2 kills or interrupts, 1 damaged row, files edited, the primary's checks at 3 token counts | `ShownIsAnswerable`, `GrantedIsReplied`, `FirstBaselineStands`, `SessionTypeOK` |
| `session_live` | 2 processes, 1 kill or interrupt, 1 damaged row, a user's request, with fairness | `RequestsArrive`; `NoReplyLost` |
| `binding_commands` | 3 sessions, 2 rooms, any kill, databases deleted | `MemberIsBound`, `OneRoomPerSession`, `OpenIsWhole`, `BindingTypeOK` |
| `dispatch_kills` | 2 dispatches, 2 vendors, any kill | `NoHandleForgotten`, `LeftBehindWasCutShort`, `SettingsOutliveRun`, `OneHeader`, `DispatchTypeOK` |
| `run_cli` | pipes of 1 line, both budgets 2 ticks | `OnlySilenceIsEnded`, `ResultIsWhole`, `HandleIsTold`, `IsSubagent` and, with fairness, `RunReturns`, `WriterGoesOn`; `RunTypeOK` |
| `install_writes` | 2 runs, 3 files, 2 acts of the user, 2 stops | `UserTextIsKept`, `ChangedIsBackedUp`, `NoFileIsReplaced` and, with fairness, `InstallCompletes`; `InstallTypeOK` |

Four runs end in a violation.  Each compares a sentence of the repository with
what the code does; the quotes are under `findings` in `PROJECT.json`.

| Run | Property | What happens |
|---|---|---|
| `room_stall` | `WaitingCanContinue` | A review is answered CHECKPOINT_NEEDED.  Only context checks can be resumed, so the task waits for ever and every later one stays queued. |
| `late_answer` | `AnsweredWasDelivered` | One process per agent, nobody killed.  The advisor asks for documents in a check (CHECKPOINT_NEEDED), runs `reply` again while the check waits, and that command reads the task as round 1, delivered and so allowed.  The sender resumes the check; the command's `store.reply` then answers round 2, which no `wait` has delivered.  The sentence of `resources/SKILL.md` and the refusal of `storage.py:53` do not hold. |
| `join_repeat` | `JoinCanBeRepeated` | A join is killed after the database file appeared and before its tables are committed.  Every later open takes the file for a database and refuses it, so "repeat the same ai-room join command" cannot succeed. |
| `resume_again` | `ResumedIsNotListed` | The killed run's record survives a successful resume, which deletes only the file of its own process. |

**Where a property stops.**  Some statements hold only inside the instance or
under the condition they name, because beyond it the code does something else:

* `NoReplyLost` holds until a process is killed.  A wait killed after it claimed
  a reply and before it printed it leaves a lease in the session's name, which
  the session's next command takes for delivery and acknowledges
  (`service.py:286`).
* `AnswersFollowDelivery` says no more than the guard of `reply` can: the task
  was delivered, in the answered round or an earlier one.  The stronger
  `AnsweredWasDelivered` is what `late_answer` refutes.
* `ShownIsAnswerable` stops after two rounds where an agent runs several
  processes at once: while one wait is between claim and capture, another
  command of the agent may end the round with such a late answer, and the wait
  then prints a request whose round never had a baseline.  With one process per
  agent there is no such limit (`ShownCanBeAnswered`).
* `WaiterIsWaiting` holds until a process is killed.  `Interrupt` counts with the
  kills, so nothing is said after an interrupt either, although the code
  unregisters the waiter there too.
* `GrantedIsReplied` excludes a grant that was not given; it does not say that a
  grant is remembered (see the known divergences).
* `OneRoomPerSession` and `MemberIsBound` need one command at a time per
  session: a leave that overlaps a join of the same session deletes its
  reservation (`bindings.py:368`).
* `NoHandleForgotten` and `LeftBehindWasCutShort` need process ids that are not
  given out again while a killed process's record is there, because records are
  named by them (`inflight.py:62`); and a handle announced after `run_cli` gave
  up the output can be recorded, or lost, at any later time
  (`drivers/process.py:194`).  `LeftBehindWasCutShort` and `ResumedIsNotListed`
  except a record the system refuses to remove (`inflight.py:84`).
* `SettingsOutliveRun` is about a conversation nobody else continues: two live
  turns of one conversation overwrite each other's settings, and `resume` does
  not ask whether the process of a record still runs (`inflight.py:96`).
* `UserTextIsKept` excludes what the user writes while a run is under way: it
  is replaced by what the run had read (`install.py:238`).

Known divergences that no run states, each visible in the modules:

* a retried reply is rewritten by the guard when a file changed since the first
  try, and then conflicts with itself (`service.py:193`);
* a context check is requested in one transaction and recorded in the next, so a
  kill or a fast answer between them makes the record forget one or the other
  (`service.py:387`, `388`): after a kill the check is asked again, where the
  repository's design says it is not repeated
  (`2026-07-23-ai-room-design.md:134`, under its `docs/superpowers/specs/`);
* two waits of one agent may both judge before either asks, and then ask twice;
  and one may read a check's round and resume it in another, so that the
  question names a round it is not posted in (`service.py:232`);
* a reply whose reader is killed between claiming and printing it is lost to the
  session (`service.py:286`);
* a skill's directory is to travel "as one unit" (`install.py:415`), but is
  written file by file, so that a stopped run leaves a part of it until another
  run completes it (`InstallCompletes`).

**Bounds.**  `MaxTasks`, `MaxRounds`, `MaxCorrupt`, `MaxCrashes`, `MaxStamp`,
`MaxActs` and `MaxStops` guard the actions that count up.  Two tasks are what it
takes for one to wait behind another; two rounds for anything stale, since a
round only refers to the one before; one damaged row and one kill each already
meet every transaction, and the second kill of `session_crash` may hit the
redelivery that the first one caused.  Two agents are all there are.  A second process of the
advisor's session gives superseding waits and answers that race.  Sample values
0, 1 and 16 with threshold 15 stand for unknown, fallen and due tokens, of the
primary alone.  Users send in `session_live` only: in the other session runs
`SendKeys` is empty and every task is a context check of the primary's own, with
which its reply, grant and follow-up can be told apart.  `Checkpoints`, the
documents a wait may name, is empty in `session_crash` and `session_live`.
`Samples` holds one value in `room_tables`, where tokens are only stored.
In `dispatch_kills` two dispatches are what one record, one lock or one
conversation needs to be shared; one vendor can be told which handle to use and
the other cannot; stamps 0 and 1 allow both a tie of two records and an order.
In `run_cli` a pipe of one line makes the child block, and two ticks tell a
silent sub-agent from one that spoke a moment ago.  Three skill files let a run
stop before, between and after them.

**Symmetry.**  Agents and keys in the room runs, the advisor's two processes in
`session_rounds`, processes and handles in the dispatch runs are only compared
for equality, which the symmetry sets state.
These runs check safety only, where symmetry is sound; the runs with fairness
use none.

**Stopping.**  `dispatch_kills`, `resume_again` and `run_cli` switch off the
deadlock check: every call there ends, which is what it should do.  In all the
others it is on.

**Fairness.**

* `FairSessionSpec`: a started command keeps running (weak fairness of each
  process's `Step`; the code holds no locks beyond transactions that end).  A
  session always comes back to wait (strong fairness of `StartWait`), which the
  packaged `resources/SKILL.md` requires of the agents, and which must be strong
  because other commands of the same process disable it again and again.
  Leases run out (weak fairness of `Expire`, the passing of time).  Nothing is
  assumed of replies, sends or crashes; `RequestsArrive` is stated for a session
  that stays joined from some time on.
* `FairRunSpec`: the three threads are scheduled (weak fairness), and a writer
  blocked on a pipe that gets room again and again is let in (strong fairness of
  `WriteLine`, since a second process may fill the same pipe).  The sub-agent
  owes nothing, and the passing of time is a hypothesis inside `RunReturns`,
  not an assumption of the run.
* `FairInstallSpec`: weak fairness of each installer's steps, that is, a run
  that was refused or cut short is repeated.  Nothing is assumed of the user.

## 4. What is proved

Every theorem holds for all values of the constants, under the assumptions of
its module and those named.  Each rests on an inductive invariant, in the last
column; TLC found no state of the instances above that breaks one, and no run is
kept for them because the proofs say more.

| Module | Theorem | States | Inductive because of |
|---|---|---|---|
| `RoomStoreProofs` | `TypeCorrect` | `Spec => []TypeOK` | itself; one lemma per transaction over lemmas for the helpers |
| | `QueueCorrect` | `[](ServedInOrder /\ NeverIdleWithWork)` | `RowsOfStartedTasks`: quarantine blocks the task of a damaged row *whatever its state*; were that task still queued, a finished one would follow an unfinished one |
| | `RoomServesTheLine` | `Spec => ServesTheLine`, the refinement | order and never-idle, before and after a step, leave one choice of which task starts |
| `RoomRoundsProofs` | `WorkStaysPosted` | `WorkIsPosted` | `RoundsInv`, which the four share: one row per task, type and round, none of a round its task has not reached, and an ending reply ends its task; stated of the tables halfway through a transaction too |
| | `RoundsAreAnsweredOnce` | `OneReplyPerRound` | a reply is stored only while its round is the working one, and moves the task on |
| | `StatesMatchReplies` | `StateMatchesReply` | quarantine blocks the task of each row it removes |
| | `NothingStaleIsDelivered` | `NoStaleRequest` | the reply acknowledges the request of its round |
| | `OnlyTheCurrentRoundIsAsked` | `UnansweredIsCurrent`: with damaged rows too, an unanswered request is of its task's round, which has no reply | `Current`, a part of `RoundsInv` |
| `SessionProofs` | `SessionTypeCorrect` | `SessionTypeOK` | `SessionInv`: what a process holds at each label fits the tables, and still does after any step of another, because rows are only added and keep what identifies them |
| | `CommandsRefineStore` | `SessionSpec => Spec`: what is proved of every client of the store holds of the commands; no run states it, because the steps are built from the transactions and only the arguments could be wrong | the same: every argument a command passes, read transactions ago, is one the transaction takes |
| | `CommandsKeepPromises` | order, never-idle, and the four of `RoomRoundsProofs`, of `SessionSpec` | the refinement |
| | `WaitersKeepTheirPlace` | `WaitKeepsItsPlace` | `SessionInv`; refreshing and clearing a waiter compare the one they speak for |
| | `RegisteredIsWaiting` | `WaiterIsWaiting` | itself with `SessionInv` |
| `DeliveryProofs` | `FirstBaselinesStand`, `CommandsKeepBaselines` | `FirstBaselineStands`, of the store and of the commands | `OneBaseline`, one per task and round |
| | `CommandsServeTheLine` | `SessionSpec => ServesTheLine` | the two refinements, one after the other |
| | `RepliesAreKept` | `NoReplyLost` | `NotTaken`: until somebody was killed, a reply that was claimed has been shown or is carried by a process, which puts it down only by showing it |
| | `ShownIsJudgeable` | what was shown has its baseline, or its round is over | `Carries`: what a process read of its delivery (its task, its round) stands until it prints, as rows keep their columns and rounds only go up |
| | `FirstAnswersWereDelivered` | a reply that is not to a continued check is to a delivered round | the reply's `inspect` found a baseline, and baselines stay; a round changes only by a resume (`RoundsMoveBy`) |
| | `AnswersFollowTheirDelivery` | `AnswersFollowDelivery`, for any number of rounds and processes | `Delivered` and `Carries`: what `compare` found a baseline for is still a round of the task when the reply is stored, or an earlier one |
| | `GrantsAreReplied`, `CommandsNoteGrants` | `GrantedIsReplied`, of the store and of the commands | itself, with the rows that stay (`RowsKept`) |
| | `ShownCanBeAnswered` | `ShownIsAnswerable`, for `OneProcessPerAgent` and any number of rounds | `InHand`: only its advisor can end the round of a delivery, and it is busy with that delivery |
| `BindingProofs` | `BindingTypeCorrect` | `BindingTypeOK` | itself |
| | `OpenRoomsAreWhole` | `OpenIsWhole` | `HoldsARoom`, `CreatedIsThere`: the file a command created is there when it commits the tables; for any commands at once |
| | `MembersAreBound` | `MemberIsBound` | a process that holds a room still finds it in the registry (`HolderIsBound`), a leave has left before it unbinds (`LeftBeforeUnbind`), members exist only in rooms with tables |
| | `OneRoomAtATime` | `OneRoomPerSession` | the theorem before it |
| `DispatchProofs` | `DispatchTypeCorrect` | `DispatchTypeOK`, one record per path | itself |
| | `LedgerHasOneHeader` | `OneHeader` | `Locked`: who is about to write holds the lock, and what it saw of the file is still so |
| | `HandlesAreFound` | `NoHandleForgotten` | `Sound`, what a process at a given place has done; `Owned`, a record is its process's; `Found`, until the ledger names a handle its record is there |
| | `OnlyCutShortIsLeft` | `LeftBehindWasCutShort` | `Sound` and `Behind`, a record of a process that is over was written after its output was given up, or was not removed |
| | `SettingsAreKept` | `SettingsOutliveRun` | `Settled`: from the moment the settings are filled they are those of the turn, while nobody else continues the conversation; `Told`, a run reports a handle it was told |
| `RunCliProofs` | `RunTypeCorrect` | `RunTypeOK` | itself |
| | `NoTalkerIsEnded` | `OnlySilenceIsEnded` | `NoLineIsLost`: without a line on its way, `last_activity` is as late as the last line |
| | `ResultsAreWhole` | `ResultIsWhole` | `ClosedIsFinal`: a pump ends only when nobody can write any more |
| | `HandlesAreTold` | `HandleIsTold` | `ReadIsTold`: a handle that was read is told, or about to be |
| | `RunIsSubagent` | `IsSubagent`, the refinement | both of these |
| `InstallProofs` | `InstallTypeCorrect` | `InstallTypeOK` | itself |
| | `TextIsKept` | `UserTextIsKept` | what a run has read is the last text, unless someone wrote since |
| | `SettingsAreBackedUp` | `ChangedIsBackedUp` | settings with the text a run has read are the ones it read, or have the hook already |
| | `FilesAreNotReplaced` | `NoFileIsReplaced` | a run's `todo` excludes what it found |

`MembersAreBound` and `OneRoomAtATime` assume `OneCommandPerSession`;
`HandlesAreFound` and `OnlyCutShortIsLeft` assume `OneIdPerProcess`.
`ShownCanBeAnswered` assumes `OneProcessPerAgent`: the agent's shell runs one
command after another, as it does when `wait` is run the way
`resources/SKILL.md:182` describes it, deliberately blocking; the process may be
killed anywhere and start again.  It bounds no rounds: a wait that is killed
between claim and capture in any of them, a lease that runs out in between and
a redelivery never leave a printed request unanswerable.  Section 3 says what
happens without each of these hypotheses.  The theorems about sessions use that
every agent has a peer (`PeerAssumption`; the code knows codex and claude), and
that what commands write can be written: the question of a check is among the
keys, topics and tokens of the tables (`CheckAssumption`), and the bodies of a
reply among the bodies (`BodyAssumption`).

The proofs about deliveries share one argument.  `DeliveryInv` joins what the
tables promise (`RoundsInv`, `Addressed`) to what each process holds
(`Carries`).  A step of the process itself is looked at label by label; a step of
any other leaves its program counter and what it has read alone (`OthersStay`),
and moves the tables by one transaction of the store, after which `RowsKept`
still holds.  So `Carries` needs no case for each pair of actions.

Every invariant and action property the passing runs check is stated by a
theorem; `ShownIsAnswerable` for one process per agent, so that with several it
is only model-checked, by `session_rounds`.  So are the liveness properties
(`RequestsArrive`, `RunReturns`, `WriterGoesOn`, `InstallCompletes`): they need
fairness, whose meaning (`ENABLED`) the proof system does not reach.

## 5. What is not modelled, and why

* Vendor drivers, model defaults, transcript readers, path and room names, git
  listings, receipts, output formats, help and argument validation: functions of
  strings without state.  `Dispatch` uses which handle a driver reports, and the
  default model as a constant; `ContextCheck` any known or unknown token count.
* The session start hook: one append and one atomic replacement, with no state
  to relate.
* The registry's own schema: created and verified in one transaction under a
  lock (`bindings.py:150`), so it is taken for present.  The `.gitignore` beside
  the ledger steers nothing.
* Busy timeouts (`DatabaseBusyError`): every transaction gets its turn.
  Heartbeats: `status` reads only, and its "stale" flag depends on timestamps
  nothing else uses.
* A sub-agent's stream that names several conversations: the drivers' parsers
  report the last id in it, the watcher announces the first, and `Dispatch`
  takes them for the same handle.
* Between the installer's comparison of one file and the next (`Compare` is one
  step), and a directory that stands where a file's parent should be; no
  property depends on either.
* A disk that refuses a settings file; a refused record or ledger entry is in.
* A file changing between the guard's hashing and the stored reply: the guard
  claims no atomicity with the worktree, so there is no statement to check.
* A dispatch stopped (not killed) while it holds the ledger's lock stops the
  others for ever on POSIX, where `flock` waits without a limit
  (`ledger.py:107`).  Without fairness of a stopped process there is no progress
  to state; a killed holder's lock is freed in the model as by the system.

## 6. What is left

1. Proofs: `AnsweredWasDelivered` needs a change of the code before it is true
   (a reply that names the round it is for); with it `AnswersFollowDelivery`
   would become an equality.  The liveness properties have safety parts worth a
   theorem of their own (what each helpful step decreases).
2. Larger instances: two primary processes in `ContextCheck` (two waits of one
   session that both ask), which takes TLC more than five minutes with the
   present state; and one session of an agent taking over from another.
3. Composition: `Dispatch` with `Subagent` in place of its own choices, so that
   `IsSubagent` is used as well as shown.
4. A refused settings file in `Dispatch`, and the busy timeout as a transaction
   that fails without effect.
