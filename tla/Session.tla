------------------------------- MODULE Session -------------------------------
(***************************************************************************)
(* The ai-room commands the two sessions run against one room: join,       *)
(* leave, send, wait and reply (cli.py, service.py).  Each process runs    *)
(* one command at a time; between its transactions any other process may   *)
(* act, leases may run out and files may change.  A process can be killed  *)
(* anywhere and started again, and a wait can be interrupted.              *)
(*                                                                         *)
(* A wait:   wait_ack  begin  claim  (check ... of ContextCheck)  poll     *)
(*           open  record  clear  print  confirm                           *)
(* A reply:  reply_ack  inspect  compare  post                             *)
(* A send:   send_ack  enqueue                                             *)
(***************************************************************************)
EXTENDS ContextCheck

CONSTANTS
    SendKeys,     \* idempotency keys of the users' sends
    SendTopics,   \* what the users ask
    Texts,        \* what an advisor says
    Verdicts,     \* the outcomes an advisor gives
    Checkpoints,  \* bound: the documents a wait may name (--checkpoint)
    MaxCrashes    \* bound: processes killed, waits interrupted or failing

ASSUME SessionAssumption ==
    /\ SendKeys \subseteq Keys /\ SendTopics \subseteq Topics
    /\ Verdicts \subseteq Outcomes /\ Checkpoints \subseteq Files
    /\ MaxCrashes \in Nat

\* What a reply says can be written to the tables.
ASSUME BodyAssumption ==
    [text: Texts, notice: SUBSET Files, reminder: 0..MaxRounds] \subseteq Bodies

VARIABLES
    job,          \* what the command of each process holds
    shown,        \* the deliveries printed to the agent they are for
    crashes

sessionVars == <<job, shown, crashes>>
vars == <<storeVars, checkVars, sessionVars>>

NoJob == [msg |-> 0, task |-> 0, round |-> 0, files |-> <<>>,
          verdict |-> NoOutcome, text |-> NoBody, notice |-> {}]

Jobs == [msg: Nat, task: Nat, round: Nat, files: Snapshots \cup {<<>>},
         verdict: Verdicts \cup {NoOutcome}, text: Texts \cup {NoBody},
         notice: SUBSET Files]

WaitLabels == {"claim", "check", "sample", "forget", "judge", "ask", "note",
               "resume_ack", "resume_find", "resume", "poll", "open", "record"}
Labels == WaitLabels \cup
    {"idle", "wait_ack", "begin", "clear", "print", "confirm",
     "reply_ack", "inspect", "compare", "post", "send_ack", "enqueue"}

\* Every process is where its command can be and holds what it may hold.
SessionTypeOK ==
    /\ TypeOK
    /\ disk \in Snapshots
    /\ pc \in [Procs -> Labels]
    /\ ctx \in [Procs -> Ctxs]
    /\ job \in [Procs -> Jobs]
    /\ shown \subseteq DOMAIN messages
    /\ crashes \in 0..MaxCrashes

SessionInit ==
    /\ Init
    /\ disk \in Snapshots
    /\ pc = [p \in Procs |-> "idle"]
    /\ ctx = [p \in Procs |-> NoCtx]
    /\ job = [p \in Procs |-> NoJob]
    /\ shown = {} /\ crashes = 0

\* The command ends: what it had read is gone with the process.
Exit(p) ==
    /\ Goto(p, "idle")
    /\ ctx' = [ctx EXCEPT ![p] = NoCtx]
    /\ job' = [job EXCEPT ![p] = NoJob]

Quiet == UNCHANGED <<disk, shown, crashes>>

mine(p) == SessionOf[p]
IsMine(p) == IsJoinedAs(me(p), mine(p))

-----------------------------------------------------------------------------
(* join and leave, and the transaction every other command starts with.    *)

Join(p) ==
    /\ pc[p] = "idle"
    /\ JoinMember(me(p), mine(p))
    /\ UNCHANGED <<pc, ctx, job>> /\ Quiet

Leave(p) ==
    /\ pc[p] = "idle"
    /\ LeaveMember(me(p), mine(p))
    /\ UNCHANGED <<pc, ctx, job>> /\ Quiet

Start(p, label) ==
    /\ pc[p] = "idle"
    /\ Goto(p, label)
    /\ UNCHANGED <<storeVars, ctx, job>> /\ Quiet

\* A user who has something to ask.
StartSend(p) == SendKeys # {} /\ Start(p, "send_ack")
StartReply(p) == Start(p, "reply_ack")

StartWait(p) ==
    /\ pc[p] = "idle"
    /\ \E docs \in SUBSET Checkpoints : ctx' = [ctx EXCEPT ![p].docs = docs]
    /\ Goto(p, "wait_ack")
    /\ UNCHANGED <<storeVars, job>> /\ Quiet

\* mutant: every reply to the agent counts as read
AckAll(p, from, to) ==
    /\ pc[p] = from
    /\ messages' = [m \in DOMAIN messages |->
                      IF /\ m \in Rows /\ messages[m].type = "reply"
                         /\ messages[m].recipient = me(p)
                      THEN Acked(messages[m]) ELSE messages[m]]
    /\ Goto(p, to)
    /\ UNCHANGED <<members, tasks, quarantined, baselines, checks, ctx, job>>
    /\ Quiet

\* _acknowledge_prior_reply: refused unless this session is joined.
AckPrior(p, from, to) ==
    /\ pc[p] = from
    /\ \/ /\ AcknowledgeReplies(me(p), mine(p))
          /\ Goto(p, to)
          /\ UNCHANGED <<ctx, job>>
       \/ /\ ~IsMine(p)
          /\ Exit(p)
          /\ UNCHANGED storeVars
    /\ Quiet

-----------------------------------------------------------------------------
(* send.                                                                   *)

SendRequests(p) ==
    {r \in Requests : /\ r.sender = me(p)
                      /\ r.key \in SendKeys /\ r.topic \in SendTopics}

\* send: a repeated key and a peer that never joined change nothing.
Enqueue(p) ==
    /\ pc[p] = "enqueue"
    /\ \E r \in SendRequests(p) :
          \/ EnqueueTask(r)
          \/ /\ WithKey(r.key) # {} \/ members[r.recipient].status = "never"
             /\ UNCHANGED storeVars
    /\ Exit(p) /\ Quiet

-----------------------------------------------------------------------------
(* wait.                                                                   *)

\* begin_wait; from here on the finally clause of wait unregisters the waiter.
Begin(p) ==
    /\ pc[p] = "begin"
    /\ \/ /\ BeginWait(me(p), mine(p), p)
          /\ Goto(p, "claim")
          /\ UNCHANGED <<ctx, job>>
       \/ /\ ~IsMine(p)
          /\ Exit(p)
          /\ UNCHANGED storeVars
    /\ Quiet

\* A malformed row ends the wait with MalformedMessageError, by its finally clause.
Malformed(p) ==
    /\ QuarantineMessage(me(p), mine(p), p)
    /\ Goto(p, "clear")
    /\ UNCHANGED <<ctx, job>>

\* claim_next_message with this waiter's identity, on entry and at every poll.
\* A superseded waiter finds nothing; a poll that finds nothing just polls on.
Claim(p) ==
    /\ pc[p] \in {"claim", "poll"}
    /\ \/ /\ ClaimMessage(me(p), mine(p), p)
          /\ job' = [job EXCEPT ![p].msg = First(Claimable(me(p)))]
          /\ Goto(p, "open")
          /\ UNCHANGED ctx
       \/ Malformed(p)
       \/ /\ pc[p] = "claim"
          /\ Claimable(me(p)) = {} \/ ~IsCurrentWaiter(me(p), mine(p), p)
          /\ Goto(p, "check")
          /\ UNCHANGED <<storeVars, ctx, job>>
    /\ Quiet

Check(p) == CheckStep(p) /\ UNCHANGED sessionVars

\* refresh_waiter, at a heartbeat, finds that another wait took over.
Superseded(p) ==
    /\ pc[p] = "poll"
    /\ ~IsCurrentWaiter(me(p), mine(p), p)
    /\ Goto(p, "clear")
    /\ UNCHANGED <<storeVars, ctx, job>> /\ Quiet

\* mutant: the test for the task's recipient is the wrong way round
OpenReplies(p) ==
    LET t == messages[job[p].msg].task
    IN  /\ pc[p] = "open"
        /\ IF tasks[t].req.recipient # me(p)
           THEN /\ job' = [job EXCEPT ![p].task = t, ![p].round = tasks[t].round,
                                      ![p].files = disk]
                /\ Goto(p, "record")
           ELSE Goto(p, "clear") /\ UNCHANGED job
        /\ UNCHANGED <<storeVars, ctx>> /\ Quiet

\* _capture_task_baseline reads the task as it is now and hashes the worktree;
\* a reply, or a request that is not for this agent, needs no baseline.
Open(p) ==
    LET t == messages[job[p].msg].task
    IN  /\ pc[p] = "open"
        /\ IF tasks[t].req.recipient = me(p)
           THEN /\ job' = [job EXCEPT ![p].task = t, ![p].round = tasks[t].round,
                                      ![p].files = disk]
                /\ Goto(p, "record")
           ELSE Goto(p, "clear") /\ UNCHANGED job
        /\ UNCHANGED <<storeVars, ctx>> /\ Quiet

\* A baseline of a round that is over is refused, and the delivery with it.
Record(p) ==
    /\ pc[p] = "record"
    /\ \/ /\ RecordBaseline(job[p].task, job[p].round, job[p].files)
          /\ UNCHANGED job
       \/ /\ tasks[job[p].task].round # job[p].round
          /\ job' = [job EXCEPT ![p] = NoJob]
          /\ UNCHANGED storeVars
    /\ Goto(p, "clear")
    /\ UNCHANGED ctx /\ Quiet

\* mutant: a wait that ends unregisters whichever waiter the session has
ClearAny(p) ==
    /\ pc[p] = "clear"
    /\ members' = IF members[me(p)].session = mine(p)
                  THEN [members EXCEPT ![me(p)].waiter = NoWaiter] ELSE members
    /\ UNCHANGED <<tasks, messages, quarantined, baselines, checks>>
    /\ IF job[p].msg = 0 THEN Exit(p) ELSE Goto(p, "print") /\ UNCHANGED <<ctx, job>>
    /\ Quiet

\* mutant: a wait that returns a delivery stays registered
ClearEmptyHanded(p) ==
    /\ pc[p] = "clear"
    /\ IF job[p].msg = 0
       THEN ClearWaiter(me(p), mine(p), p) /\ Exit(p)
       ELSE Goto(p, "print") /\ UNCHANGED <<storeVars, ctx, job>>
    /\ Quiet

\* The finally clause of wait: with a delivery in hand the command goes on to
\* print it, without one it ends.
Clear(p) ==
    /\ pc[p] = "clear"
    /\ ClearWaiter(me(p), mine(p), p)
    /\ IF job[p].msg = 0 THEN Exit(p) ELSE Goto(p, "print") /\ UNCHANGED <<ctx, job>>
    /\ Quiet

\* mutant: the delivery is named by its task, which only a request's job has
ShowTask(p) ==
    /\ pc[p] = "print"
    /\ shown' = shown \cup {job[p].task}
    /\ IF messages[job[p].msg].type = "reply"
       THEN Goto(p, "confirm") /\ UNCHANGED <<ctx, job>>
       ELSE Exit(p)
    /\ UNCHANGED <<storeVars, disk, crashes>>

\* _write_success: the agent sees the delivery.
Show(p) ==
    /\ pc[p] = "print"
    /\ shown' = shown \cup {job[p].msg}
    /\ IF messages[job[p].msg].type = "reply"
       THEN Goto(p, "confirm") /\ UNCHANGED <<ctx, job>>
       ELSE Exit(p)
    /\ UNCHANGED <<storeVars, disk, crashes>>

\* acknowledge_delivered_reply: the agent has it, so it is not sent again.
Confirm(p) ==
    /\ pc[p] = "confirm"
    /\ AcknowledgeReplies(me(p), mine(p)) \/ (~IsMine(p) /\ UNCHANGED storeVars)
    /\ Exit(p) /\ Quiet

-----------------------------------------------------------------------------
(* reply.                                                                  *)

\* service.reply reads the task; one that is not its recipient's, or not a
\* task, is refused.
Inspect(p) ==
    /\ pc[p] = "inspect"
    /\ \/ \E t \in DOMAIN tasks, v \in Verdicts, x \in Texts :
             /\ tasks[t].req.recipient = me(p)
             /\ job' = [job EXCEPT ![p].task = t, ![p].round = tasks[t].round,
                                   ![p].verdict = v, ![p].text = x]
             /\ Goto(p, "compare")
             /\ UNCHANGED ctx
       \/ Exit(p)
    /\ UNCHANGED storeVars /\ Quiet

\* _writable_docs_for: decisions and context checks may write nothing.
WritableDocs(req) ==
    IF req.kind \in {"decision", "context_check"} THEN {} ELSE req.topic.docs

\* compare_workspace: the files that differ from the baseline and may not.
Violations(b, req) ==
    {f \in Files : b.files[f] # disk[f]} \ WritableDocs(req)

\* mutant: without a baseline there is nothing to compare
CompareIfKnown(p) ==
    LET t == job[p].task
        known == BaselineOf(t, job[p].round)
    IN  /\ pc[p] = "compare"
        /\ job' = [job EXCEPT ![p].notice =
                      UNION {Violations(b, tasks[t].req) : b \in known}]
        /\ Goto(p, "post")
        /\ UNCHANGED <<storeVars, ctx>> /\ Quiet

\* Without a baseline the round was never delivered, and the reply is refused;
\* so is one whose worktree cannot be read (WorkspaceCaptureError).
Compare(p) ==
    LET t == job[p].task
        known == BaselineOf(t, job[p].round)
    IN  /\ pc[p] = "compare"
        /\ \/ Exit(p)
           \/ \E b \in known :
                 /\ job' = [job EXCEPT ![p].notice = Violations(b, tasks[t].req)]
                 /\ Goto(p, "post")
                 /\ UNCHANGED ctx
        /\ UNCHANGED storeVars /\ Quiet

\* The guard downgrades the outcome of a reply to a changed worktree.
OutcomeOf(j) == IF j.notice = {} THEN j.verdict ELSE "blocked"

\* The notice or the manual compaction reminder is part of the body: both are
\* written from the task as it was read.
BodyOf(j) ==
    [text |-> j.text, notice |-> j.notice,
     reminder |-> IF /\ j.notice = {} /\ j.verdict = "compact_ready"
                     /\ tasks[j.task].req.kind = "context_check"
                  THEN j.round ELSE 0]

\* store.reply, which reads the task again: the round's first reply, the same
\* one once more, or a refusal.
Post(p) ==
    LET j == job[p]
    IN  /\ pc[p] = "post"
        /\ \/ Reply(j.task, me(p), OutcomeOf(j), BodyOf(j))
           \/ ~MayReply(j.task, me(p)) /\ UNCHANGED storeVars
        /\ Exit(p)
        /\ UNCHANGED <<disk, shown, crashes>>

-----------------------------------------------------------------------------
(* The world around the processes.                                         *)

\* The process is killed, or the machine stops: nothing of it is written.
Crash(p) ==
    /\ pc[p] # "idle"
    /\ crashes < MaxCrashes
    /\ crashes' = crashes + 1
    /\ Exit(p)
    /\ UNCHANGED <<storeVars, disk, shown>>

\* KeyboardInterrupt in a wait, or a worktree it cannot read while it captures
\* the baseline: the finally clause runs, the delivery is lost.
Interrupt(p) ==
    /\ pc[p] \in WaitLabels
    /\ crashes < MaxCrashes
    /\ crashes' = crashes + 1
    /\ job' = [job EXCEPT ![p] = NoJob]
    /\ Goto(p, "clear")
    /\ UNCHANGED <<storeVars, ctx, disk, shown>>

\* Anyone edits the shared worktree.
Edit(f, c) ==
    /\ disk' = [disk EXCEPT ![f] = c]
    /\ UNCHANGED <<storeVars, pc, ctx, job, shown, crashes>>

Expire(m) == LeaseExpires(m) /\ UNCHANGED <<checkVars, sessionVars>>

Damage(m) ==
    /\ \E how \in {"payload", "recipient"} : DamageRow(m, how)
    /\ UNCHANGED <<checkVars, sessionVars>>

\* What a started command does next, without its user or a fault.
Step(p) ==
    \/ AckPrior(p, "send_ack", "enqueue") \/ Enqueue(p)
    \/ AckPrior(p, "wait_ack", "begin") \/ Begin(p) \/ Claim(p) \/ Check(p)
    \/ Superseded(p) \/ Open(p) \/ Record(p) \/ Clear(p) \/ Show(p)
    \/ Confirm(p)
    \/ AckPrior(p, "reply_ack", "inspect") \/ Inspect(p) \/ Compare(p) \/ Post(p)

SessionNext ==
    \/ \E p \in Procs :
          \/ Join(p) \/ Leave(p) \/ StartSend(p) \/ StartWait(p) \/ StartReply(p)
          \/ Step(p)
          \/ Crash(p) \/ Interrupt(p)
    \/ \E f \in Files, c \in Contents : Edit(f, c)
    \/ \E m \in DOMAIN messages : Expire(m) \/ Damage(m)

SessionSpec == SessionInit /\ [][SessionNext]_vars
-----------------------------------------------------------------------------
(* What the commands promise.                                              *)

\* A request is printed only once the room can judge its answer: its round has
\* a baseline, whoever was killed between the claim and the capture.  An agent
\* shown a request without one could never answer it (TaskNotDeliveredError).
ShownIsAnswerable ==
    \A m \in shown :
        messages[m].type = "request" =>
            BaselineOf(messages[m].task, messages[m].round) # {}

\* While no process is killed, a reply is acknowledged only when its reader has
\* it, or still runs the wait that will print it: neither the next command of
\* the session, nor a lease that ran out, nor a rejoining takes it away
\* (acknowledge_delivered_reply: "a reply stays redeliverable while the process
\* could still fail before that").  A wait that is killed between its claim and
\* its output does lose the reply to the session's next command.
NoReplyLost ==
    crashes = 0 =>
        \A m \in Rows :
            messages[m].type = "reply" /\ messages[m].status = "acked" =>
                m \in shown \/ \E p \in Procs : job[p].msg = m

\* While no process is killed, the member row names a waiter only as long as
\* that wait runs, under the session it belongs to: every way out of wait
\* passes its finally clause.
WaiterIsWaiting ==
    crashes = 0 =>
        \A p \in Procs :
            members[me(p)].waiter = p =>
                pc[p] \in WaitLabels \cup {"clear"} /\ members[me(p)].session = mine(p)

\* A wait keeps its place while it runs: it loses it to a newer wait, or to a
\* join or leave, never to an older wait that ends later.
WaitKeepsItsPlace ==
    [][\A p \in Procs :
          /\ IsCurrentWaiter(me(p), mine(p), p) /\ pc'[p] \in WaitLabels
          /\ ~IsCurrentWaiter(me(p), mine(p), p)'
          => \E q \in Procs : me(q) = me(p) /\ q # p /\ pc[q] \in {"begin", "idle"}]_vars

\* "`reply` must first have been delivered by `wait`" (resources/SKILL.md:195);
\* TaskNotDeliveredError is "raised when an agent replies to a round it has never
\* received" (storage.py:53): a stored reply is to a round whose delivery captured
\* a baseline.
AnsweredWasDelivered ==
    \A m \in Rows :
        messages[m].type = "reply" =>
            BaselineOf(messages[m].task, messages[m].round) # {}

\* What the guard of reply does ensure, over any number of rounds: a reply is to
\* a task that was delivered, in the round it is stored in or in an earlier one.
AnswersFollowDelivery ==
    \A m \in Rows :
        messages[m].type = "reply" =>
            \E b \in baselines :
                b.task = messages[m].task /\ b.round <= messages[m].round

-----------------------------------------------------------------------------
(* Progress.                                                               *)

MaxRows == 2 * MaxTasks * MaxRounds

\* A started command keeps running, a session always comes back to wait, and
\* leases run out as time passes.
Fairness ==
    /\ \A p \in Procs : WF_vars(Step(p)) /\ SF_vars(StartWait(p))
    /\ \A m \in 1..MaxRows : WF_vars(m \in DOMAIN messages /\ Expire(m))

FairSessionSpec == SessionSpec /\ Fairness

IsRequestFor(m, p) ==
    /\ m \in Rows /\ messages[m].type = "request" /\ messages[m].recipient = me(p)

IsAcked(m) == m \in DOMAIN messages /\ messages[m].status = "acked"

\* A request posted to a session that stays joined is printed to it, however
\* many of its waits were killed or interrupted on the way, unless its round
\* is answered first or its row turns out damaged and is quarantined: a damaged
\* row holds nothing up, be it this request or a row before it.
RequestsArrive ==
    \A p \in Procs :
        <>[]IsMine(p) =>
            \A m \in 1..MaxRows : IsRequestFor(m, p) ~> (m \in shown \cup quarantined \/ IsAcked(m))
=============================================================================
