---------------------------- MODULE SessionProofs ----------------------------
(***************************************************************************)
(* The commands move the room's tables by the transactions of RoomStore    *)
(* alone, for any number of processes, however they interleave, are        *)
(* killed or interrupted.  What is proved of every client of the store is  *)
(* therefore true of the commands.                                         *)
(*                                                                         *)
(* A command calls a transaction with what it has read before, so its      *)
(* arguments must still be ones the tables take: what a process holds at   *)
(* each label (Fits) refers to rows that are still there, because tasks    *)
(* and messages only grow and rounds only go up (Grown).                   *)
(***************************************************************************)
EXTENDS Session, RoomRoundsProofs

\* Rounds stay within their bound.
RoundsBounded == \A t \in DOMAIN tasks : tasks[t].round \in 1..MaxRounds

StoreInv == TypeOK /\ QueueInv /\ RoundsBounded

\* What a transaction leaves of the tables.
Grown ==
    /\ DOMAIN messages \subseteq DOMAIN messages'
    /\ \A t \in DOMAIN tasks :
          /\ t \in DOMAIN tasks'
          /\ {tasks[t].round, tasks'[t].round} \subseteq Nat
          /\ tasks[t].round <= tasks'[t].round

\* What a wait at a label has read for its context check, when the tasks are ts.
CtxFits(label, c, ts) ==
    /\ c \in Ctxs
    /\ label \in {"forget", "judge", "ask", "note", "resume"} => c.tokens \in Samples
    /\ label \in {"ask", "note", "resume"} => c.print \in Prints
    /\ label = "resume" => c.task \in DOMAIN ts /\ c.round <= ts[c.task].round

\* What a command at a label holds, when the messages are ms.
JobFits(label, j, ms) ==
    /\ j \in Jobs
    /\ j.msg \in DOMAIN ms \cup {0}
    /\ label \in {"open", "print"} => j.msg \in DOMAIN ms
    /\ label = "record" => j.files \in Snapshots
    /\ label \in {"compare", "post"} =>
          j.round \in 1..MaxRounds /\ j.verdict \in Verdicts /\ j.text \in Texts

Processes ==
    /\ disk \in Snapshots
    /\ pc \in [Procs -> Labels]
    /\ ctx \in [Procs -> Ctxs] /\ job \in [Procs -> Jobs]
    /\ shown \subseteq DOMAIN messages
    /\ crashes \in 0..MaxCrashes
    /\ \A p \in Procs : CtxFits(pc[p], ctx[p], tasks) /\ JobFits(pc[p], job[p], messages)

SessionInv == StoreInv /\ Processes

-----------------------------------------------------------------------------
(* The store.                                                              *)

LEMMA NewestIsLast ==
  ASSUME NEW n \in Nat, NEW S, S \subseteq 1..n, S # {}
  PROVE  Newest(S) \in S
<1> DEFINE T == {n - k : k \in S}
<1>1. T \subseteq Nat /\ T # {}
  <2>1. \A k \in S : k \in 1..n
    OBVIOUS
  <2>2. \A k \in S : n - k \in Nat
    BY <2>1
  <2>3. PICK k \in S : TRUE
    OBVIOUS
  <2>4. n - k \in T
    OBVIOUS
  <2>5. QED
    BY <2>2, <2>4
<1>2. First(T) \in T /\ \A j \in T : First(T) <= j
  BY <1>1, FirstIsLeast
<1>3. PICK k \in S : First(T) = n - k
  BY <1>2
<1>4. \A j \in S : k >= j
  <2>1. SUFFICES ASSUME NEW j \in S PROVE k >= j
    OBVIOUS
  <2>2. n - k <= n - j
    BY <1>2, <1>3
  <2>3. k \in 1..n /\ j \in 1..n
    OBVIOUS
  <2>4. QED
    BY <2>2, <2>3
<1>5. QED
  BY <1>4 DEF Newest

LEMMA ActivationKeepsRounds ==
  ASSUME NEW ts \in Seq(TaskRows), NEW ms \in Seq(MessageRows), ActivateNext(ts, ms)
  PROVE  /\ DOMAIN tasks' = DOMAIN ts /\ DOMAIN ms \subseteq DOMAIN messages'
         /\ \A t \in DOMAIN ts : tasks'[t].round = ts[t].round
<1> DEFINE t == First(InState(ts, {"queued"}))
<1>1. DOMAIN tasks' = DOMAIN ts /\ DOMAIN ms \subseteq DOMAIN messages'
  BY ActivationTypes
<1>2. tasks' = ts \/ tasks' = [ts EXCEPT ![t].state = "working"]
  BY DEF ActivateNext
<1> HIDE DEF t
<1>3. \A u \in DOMAIN ts : ts[u] \in TaskRows
  BY TaskColumns
<1>4. \A u \in DOMAIN ts : tasks'[u].round = ts[u].round
  BY <1>2, <1>3 DEF TaskRows
<1>5. QED
  BY <1>1, <1>4

LEMMA StoreGrows ==
  ASSUME StoreInv, [Next]_storeVars
  PROVE  StoreInv' /\ Grown
<1>0. /\ \A t \in DOMAIN tasks : tasks[t] \in TaskRows /\ tasks[t].round \in Nat
      /\ MaxRounds \in Nat \ {0}
  BY TaskColumns, BoundsAssumption DEF StoreInv, TypeOK
<1> DEFINE Kept == /\ DOMAIN messages \subseteq DOMAIN messages'
                   /\ \A t \in DOMAIN tasks' :
                         /\ tasks'[t].round \in 1..MaxRounds
                         /\ t \in DOMAIN tasks => tasks[t].round <= tasks'[t].round
                   /\ DOMAIN tasks \subseteq DOMAIN tasks'
<1>1. ASSUME UNCHANGED tasks, DOMAIN messages' = DOMAIN messages PROVE Kept
  BY <1>0, <1>1 DEF StoreInv, RoundsBounded
<1>2. ASSUME NEW a \in Agents, NEW s \in Sessions, NEW w \in Waiters,
             QuarantineMessage(a, s, w)
      PROVE  Kept
  <2> DEFINE m == First(Claimable(a))
             ts == [tasks EXCEPT ![messages[m].task].state = "blocked"]
  <2>1. m \in DOMAIN messages /\ ActivateNext(ts, messages)
    BY <1>2, FirstClaimable DEF QuarantineMessage, Rows, StoreInv
  <2> HIDE DEF m
  <2>2. messages[m].task \in DOMAIN tasks
    BY <2>1 DEF StoreInv, QueueInv, RowsOfStartedTasks
  <2>3. [tasks[messages[m].task] EXCEPT !.state = "blocked"] \in TaskRows
    BY <1>0, <2>2 DEF TaskRows, TaskStates, TerminalStates
  <2>4. /\ ts \in Seq(TaskRows) /\ DOMAIN ts = DOMAIN tasks
    BY <2>2, <2>3, TaskUpdated DEF StoreInv
  <2>5. \A t \in DOMAIN tasks : ts[t].round = tasks[t].round
    BY <1>0, <2>2 DEF TaskRows
  <2> HIDE DEF ts
  <2>6. QED
    BY <1>0, <2>1, <2>4, <2>5, ActivationKeepsRounds DEF StoreInv, TypeOK, RoundsBounded
<1>3. ASSUME NEW r \in Requests, EnqueueTask(r) PROVE Kept
  <2> DEFINE task == [req |-> r, state |-> "queued", round |-> 1]
             ts == Append(tasks, task)
             last == Len(tasks) + 1
  <2>1. task \in TaskRows /\ task.round = 1
    BY DEF TaskRows, TaskStates, Requests
  <2>2. ActivateNext(ts, messages)
    BY <1>3 DEF EnqueueTask
  <2> HIDE DEF task
  <2>3. /\ ts \in Seq(TaskRows) /\ DOMAIN ts = DOMAIN tasks \cup {last}
        /\ ts[last] = task /\ \A t \in DOMAIN tasks : ts[t] = tasks[t]
    BY <2>1, TaskColumns, AppendProperties DEF StoreInv, TypeOK
  <2> HIDE DEF ts
  <2>4. QED
    BY <1>0, <2>1, <2>2, <2>3, ActivationKeepsRounds DEF StoreInv, TypeOK, RoundsBounded
<1>4. ASSUME NEW t \in DOMAIN tasks, NEW a \in Agents, NEW topic \in Topics,
             ResumeContextCheck(t, a, topic)
      PROVE  Kept
  <2> DEFINE task == Reopened(tasks[t], topic)
  <2>1. task.round = tasks[t].round + 1 /\ tasks[t].round < MaxRounds
        /\ tasks' = [tasks EXCEPT ![t] = task]
    BY <1>4 DEF ResumeContextCheck, Reopened
  <2>2. DOMAIN messages \subseteq DOMAIN messages'
    <3>1. task \in TaskRows
      BY <1>0, TaskTypes
    <3>2. t \in Nat
      BY TaskColumns DEF StoreInv, TypeOK
    <3>3. RequestRow(task, t) \in MessageRows
      BY <3>1, <3>2, TaskTypes
    <3>4. messages' = Append(messages, RequestRow(task, t))
      BY <1>4 DEF ResumeContextCheck
    <3> HIDE DEF task
    <3>5. QED
      BY <3>3, <3>4, MessageColumns, AppendProperties DEF StoreInv, TypeOK
  <2> HIDE DEF task
  <2>3. QED
    BY <1>0, <2>1, <2>2 DEF StoreInv, RoundsBounded
<1>5. ASSUME NEW t \in DOMAIN tasks, NEW a \in Agents, NEW o \in Outcomes,
             NEW b \in Bodies, Reply(t, a, o, b)
      PROVE  Kept
  <2> DEFINE ts == [tasks EXCEPT ![t].state = StateAfter(o)]
             ms == Append(Answered(t), ReplyRow(t, o, b))
  <2>1. /\ MayReply(t, a)
        /\ IF o \in TerminalOutcomes THEN ActivateNext(ts, ms)
           ELSE tasks' = ts /\ messages' = ms
    BY <1>5 DEF Reply
  <2>2. Answered(t) \in Seq(MessageRows) /\ DOMAIN Answered(t) = DOMAIN messages
    BY <2>1, AnsweredTypes DEF MayReply, StoreInv
  <2>3. ReplyRow(t, o, b) \in MessageRows
    <3>1. t \in Nat
      BY TaskColumns DEF StoreInv, TypeOK
    <3>2. QED
      BY <1>0, <3>1 DEF ReplyRow, MessageRows, TaskRows, RequestColumns
  <2>4. ms \in Seq(MessageRows) /\ DOMAIN messages \subseteq DOMAIN ms
    <3> HIDE DEF Answered
    <3>1. QED
      BY <2>2, <2>3, MessageColumns, AppendProperties
  <2>5. StateAfter(o) \in TaskStates
    BY DEF StateAfter, TaskStates, ActiveStates, TerminalStates, Outcomes, TerminalOutcomes
  <2>6. ts \in Seq(TaskRows) /\ DOMAIN ts = DOMAIN tasks
    <3>1. [tasks[t] EXCEPT !.state = StateAfter(o)] \in TaskRows
      BY <1>0, <2>5, TaskTypes
    <3>2. QED
      BY <3>1, TaskUpdated DEF StoreInv
  <2>7. \A u \in DOMAIN tasks : ts[u].round = tasks[u].round
    BY <1>0 DEF TaskRows
  <2> HIDE DEF ts, ms
  <2>8. QED
    BY <1>0, <2>1, <2>4, <2>6, <2>7, ActivationKeepsRounds DEF StoreInv, RoundsBounded
<1> HIDE DEF Kept
<1>6. Kept
  <2> DEFINE Still == UNCHANGED tasks /\ DOMAIN messages' = DOMAIN messages
  <2>2. UNCHANGED storeVars => Still
    BY DEF storeVars
  <2>3. ASSUME NEW a \in Agents, NEW s \in Sessions
        PROVE  JoinMember(a, s) \/ LeaveMember(a, s) \/ AcknowledgeReplies(a, s) => Still
    BY DEF JoinMember, LeaveMember, AcknowledgeReplies
  <2>4. ASSUME NEW a \in Agents, NEW s \in Sessions, NEW w \in Waiters
        PROVE  BeginWait(a, s, w) \/ ClearWaiter(a, s, w) \/ ClaimMessage(a, s, w) => Still
    BY DEF BeginWait, ClearWaiter, ClaimMessage
  <2>5. ASSUME NEW t \in DOMAIN tasks, NEW a \in Agents
        PROVE  /\ \A k \in Samples, p \in Prints : RecordContextCheck(a, k, p, t) => Still
               /\ \A f \in Snapshots, r \in 1..MaxRounds : RecordBaseline(t, r, f) => Still
    BY DEF RecordContextCheck, RecordBaseline
  <2>6. \A a \in Agents : ClearContextCheck(a) => Still
    BY DEF ClearContextCheck
  <2>7. ASSUME NEW m \in DOMAIN messages
        PROVE  /\ LeaseExpires(m) => Still
               /\ \A how \in {"payload", "recipient"} : DamageRow(m, how) => Still
    BY DEF LeaseExpires, DamageRow
  <2> HIDE DEF Still
  <2>8. Still => Kept
    BY <1>1 DEF Still
  <2>9. QED
    BY <2>2, <2>3, <2>4, <2>5, <2>6, <2>7, <2>8, <1>2, <1>3, <1>4, <1>5 DEF Next
<1>7. TypeOK' /\ QueueInv'
  BY TypeStep, QueueStep DEF StoreInv
<1>8. QED
  BY <1>0, <1>6, <1>7 DEF Kept, StoreInv, RoundsBounded, Grown
-----------------------------------------------------------------------------
(* Every command calls the transactions with arguments they take.          *)

LEMMA WhoseProcess ==
  ASSUME NEW p \in Procs
  PROVE  me(p) \in Agents /\ mine(p) \in Sessions /\ p \in Waiters
BY ProcsAssumption DEF me, mine, Procs

LEMMA PeerIsOther ==
  ASSUME NEW a \in Agents
  PROVE  Peer(a) \in Agents /\ Peer(a) # a
BY PeerAssumption DEF Peer

LEMMA FingerprintIsPrint ==
  ASSUME disk \in Snapshots, NEW docs \in SUBSET Files
  PROVE  Fingerprint(docs) \in Prints
<1>1. Fingerprint(docs) \in [docs -> Contents]
  BY ProcsAssumption DEF Fingerprint
<1>2. QED
  BY <1>1, CheckAssumption

LEMMA CheckIsRequest ==
  ASSUME NEW p \in Procs, CtxFits("ask", ctx[p], tasks)
  PROVE  CheckRequest(p) \in Requests
<1>1. me(p) \in Agents /\ Peer(me(p)) \in Agents /\ Peer(me(p)) # me(p)
  BY WhoseProcess, PeerIsOther
<1>2. ctx[p].tokens \in Samples /\ ctx[p].print \in Prints /\ ctx[p].docs \in SUBSET Files
  BY DEF CtxFits, Ctxs
<1>3. <<me(p), ctx[p].tokens, ctx[p].print>> \in Keys
  <2>1. <<me(p), ctx[p].tokens, ctx[p].print>> \in Agents \X Samples \X Prints
    BY <1>1, <1>2
  <2>2. QED
    BY <2>1, CheckAssumption
<1>4. [docs |-> ctx[p].docs, round |-> 1] \in Topics
  <2>1. 1 \in 1..MaxRounds
    BY BoundsAssumption
  <2>2. [docs |-> ctx[p].docs, round |-> 1] \in [docs: SUBSET Files, round: 1..MaxRounds]
    BY <1>2, <2>1
  <2>3. QED
    BY <2>2, CheckAssumption
<1>5. CheckRequest(p) \in RequestColumns
  BY <1>1, <1>2, <1>3, <1>4, KindAssumption DEF CheckRequest, RequestColumns
<1>6. QED
  BY <1>1, <1>5 DEF CheckRequest, Requests

LEMMA ResumedTopic ==
  ASSUME StoreInv, NEW p \in Procs, CtxFits("resume", ctx[p], tasks),
         NEW a, NEW topic, ResumeContextCheck(ctx[p].task, a, topic)
  PROVE  [docs |-> ctx[p].docs, round |-> ctx[p].round + 1] \in Topics
<1> DEFINE t == ctx[p].task
<1>1. t \in DOMAIN tasks /\ tasks[t].round < MaxRounds
  BY DEF ResumeContextCheck, WaitingChecks
<1>2. /\ ctx[p].docs \in SUBSET Files /\ ctx[p].round \in Nat
      /\ ctx[p].round <= tasks[t].round
  BY DEF CtxFits, Ctxs
<1>3. ctx[p].round + 1 \in 1..MaxRounds
  BY <1>1, <1>2, BoundsAssumption DEF StoreInv, RoundsBounded
<1>4. [docs |-> ctx[p].docs, round |-> ctx[p].round + 1]
        \in [docs: SUBSET Files, round: 1..MaxRounds]
  BY <1>2, <1>3
<1>5. QED
  BY <1>4, CheckAssumption

LEMMA ReplyIsTaken ==
  ASSUME NEW p \in Procs, JobFits("post", job[p], messages)
  PROVE  OutcomeOf(job[p]) \in Outcomes /\ BodyOf(job[p]) \in Bodies
<1> DEFINE j == job[p]
<1>1. /\ j.verdict \in Outcomes /\ j.text \in Texts /\ j.notice \in SUBSET Files
      /\ j.round \in 1..MaxRounds
  BY SessionAssumption DEF JobFits, Jobs
<1>2. OutcomeOf(j) \in Outcomes
  BY <1>1 DEF OutcomeOf, Outcomes, TerminalOutcomes
<1>3. BodyOf(j) \in [text: Texts, notice: SUBSET Files, reminder: 0..MaxRounds]
  BY <1>1, BoundsAssumption DEF BodyOf
<1>4. QED
  BY <1>2, <1>3, BodyAssumption

LEMMA WaitCallsTheStore ==
  ASSUME SessionInv, NEW p \in Procs,
         \/ Begin(p) \/ Claim(p) \/ Superseded(p) \/ Open(p) \/ Record(p)
         \/ Clear(p) \/ Show(p) \/ Confirm(p)
  PROVE  [Next]_storeVars
<1>1. me(p) \in Agents /\ mine(p) \in Sessions /\ p \in Waiters
  BY WhoseProcess
<1>2. (\/ BeginWait(me(p), mine(p), p) \/ ClaimMessage(me(p), mine(p), p)
       \/ QuarantineMessage(me(p), mine(p), p) \/ ClearWaiter(me(p), mine(p), p)
       \/ AcknowledgeReplies(me(p), mine(p))) => Next
  BY <1>1 DEF Next
<1>3. CASE Record(p)
  <2>1. ASSUME RecordBaseline(job[p].task, job[p].round, job[p].files)
        PROVE  Next
    <3>1. job[p].task \in DOMAIN tasks /\ job[p].round \in 1..MaxRounds
      BY <2>1 DEF RecordBaseline, SessionInv, StoreInv, RoundsBounded
    <3>2. job[p].files \in Snapshots
      BY <1>3 DEF Record, SessionInv, Processes, JobFits
    <3>3. QED
      BY <1>1, <2>1, <3>1, <3>2 DEF Next
  <2>2. QED
    BY <1>3, <2>1 DEF Record
<1>4. Begin(p) => [Next]_storeVars
  BY <1>2 DEF Begin
<1>5. Claim(p) => [Next]_storeVars
  BY <1>2 DEF Claim, Malformed
<1>6. Superseded(p) \/ Open(p) \/ Show(p) => [Next]_storeVars
  BY DEF Superseded, Open, Show
<1>7. Clear(p) \/ Confirm(p) => [Next]_storeVars
  BY <1>2 DEF Clear, Confirm
<1>8. QED
  BY <1>3, <1>4, <1>5, <1>6, <1>7

LEMMA CheckCallsTheStore ==
  ASSUME SessionInv, NEW p \in Procs, CheckStep(p)
  PROVE  [Next]_storeVars
<1>1. me(p) \in Agents /\ SessionOf[p] \in Sessions
  BY WhoseProcess DEF mine
<1>2. CtxFits(pc[p], ctx[p], tasks)
  BY DEF SessionInv, Processes
<1>3. LookForCheck(p) \/ SampleTokens(p) \/ JudgeCheck(p) \/ FindCheck(p)
        => [Next]_storeVars
  BY DEF LookForCheck, SampleTokens, JudgeCheck, FindCheck, Fail
<1>4. ForgetCheck(p) => [Next]_storeVars
  BY <1>1 DEF ForgetCheck, Next
<1>5. AckBeforeResume(p) => [Next]_storeVars
  BY <1>1 DEF AckBeforeResume, Fail, Next
<1>6. CASE AskForCheck(p)
  <2>1. CheckRequest(p) \in Requests
    BY <1>2, <1>6, CheckIsRequest DEF AskForCheck
  <2>2. EnqueueTask(CheckRequest(p)) => Next
    BY <2>1 DEF Next
  <2>3. QED
    BY <1>6, <2>2 DEF AskForCheck, Fail
<1>7. CASE NoteCheck(p)
  <2>1. ctx[p].tokens \in Samples /\ ctx[p].print \in Prints
    BY <1>2, <1>7 DEF NoteCheck, CtxFits
  <2>2. RecordContextCheck(me(p), ctx[p].tokens, ctx[p].print, ctx[p].task)
    BY <1>7 DEF NoteCheck
  <2>3. ctx[p].task \in DOMAIN tasks
    BY <2>2 DEF RecordContextCheck
  <2>4. QED
    BY <1>1, <2>1, <2>2, <2>3 DEF Next
<1>8. CASE ResumeCheck(p)
  <2> DEFINE t == ctx[p].task
             topic == [docs |-> ctx[p].docs, round |-> ctx[p].round + 1]
  <2>1. ASSUME ResumeContextCheck(t, me(p), topic)
        PROVE  Next
    <3>1. t \in DOMAIN tasks
      BY <2>1 DEF ResumeContextCheck, WaitingChecks
    <3>2. topic \in Topics
      BY <1>2, <1>8, <2>1, ResumedTopic DEF ResumeCheck, SessionInv
    <3>3. QED
      BY <1>1, <2>1, <3>1, <3>2 DEF Next
  <2>2. QED
    BY <1>8, <2>1 DEF ResumeCheck, Fail
<1>9. QED
  BY <1>3, <1>4, <1>5, <1>6, <1>7, <1>8 DEF CheckStep

LEMMA CommandsCallTheStore ==
  ASSUME SessionInv, [SessionNext]_vars
  PROVE  [Next]_storeVars
<1>1. ASSUME NEW p \in Procs
      PROVE  /\ Join(p) \/ Leave(p) => Next
             /\ \A from, to \in Labels : AckPrior(p, from, to) => [Next]_storeVars
  <2>1. me(p) \in Agents /\ mine(p) \in Sessions
    BY WhoseProcess
  <2>2. QED
    BY <2>1 DEF Join, Leave, AckPrior, Next
<1>2. ASSUME NEW p \in Procs
      PROVE  StartSend(p) \/ StartWait(p) \/ StartReply(p) \/ Crash(p) \/ Interrupt(p)
             \/ Inspect(p) \/ Compare(p) => UNCHANGED storeVars
  BY DEF StartSend, StartReply, Start, StartWait, Crash, Interrupt, Inspect, Compare
<1>3. ASSUME NEW p \in Procs PROVE Enqueue(p) => [Next]_storeVars
  BY DEF Enqueue, SendRequests, Next
<1>4. ASSUME NEW p \in Procs, Post(p) PROVE [Next]_storeVars
  <2>1. me(p) \in Agents
    BY WhoseProcess
  <2>2. JobFits("post", job[p], messages)
    BY <1>4 DEF Post, SessionInv, Processes
  <2>3. OutcomeOf(job[p]) \in Outcomes /\ BodyOf(job[p]) \in Bodies
    BY <2>2, ReplyIsTaken
  <2>4. ASSUME Reply(job[p].task, me(p), OutcomeOf(job[p]), BodyOf(job[p]))
        PROVE  Next
    <3>1. job[p].task \in DOMAIN tasks
      BY <2>4 DEF Reply, MayReply
    <3>2. QED
      BY <2>1, <2>3, <2>4, <3>1 DEF Next
  <2>5. QED
    BY <1>4, <2>4 DEF Post
<1>5. ASSUME NEW p \in Procs, Step(p) PROVE [Next]_storeVars
  <2>1. {"send_ack", "enqueue", "wait_ack", "begin", "reply_ack", "inspect"} \subseteq Labels
    BY DEF Labels
  <2>2. Check(p) => CheckStep(p)
    BY DEF Check
  <2>3. QED
    BY <1>1, <1>2, <1>3, <1>4, <1>5, <2>1, <2>2, WaitCallsTheStore, CheckCallsTheStore DEF Step
<1>6. ASSUME NEW m \in DOMAIN messages, Expire(m) \/ Damage(m) PROVE Next
  BY <1>6 DEF Expire, Damage, Next
<1>7. ASSUME NEW f \in Files, NEW c \in Contents, Edit(f, c) PROVE UNCHANGED storeVars
  BY <1>7 DEF Edit
<1>8. UNCHANGED vars => UNCHANGED storeVars
  BY DEF vars
<1>9. QED
  BY <1>1, <1>2, <1>5, <1>6, <1>7, <1>8 DEF SessionNext
-----------------------------------------------------------------------------
(* Every command stays within what it may hold.                            *)

LEMMA Outgrown ==
  ASSUME StoreInv', Grown, NEW label, NEW c, NEW j,
         CtxFits(label, c, tasks), JobFits(label, j, messages)
  PROVE  CtxFits(label, c, tasks') /\ JobFits(label, j, messages')
<1>1. label = "resume" => c.task \in DOMAIN tasks' /\ c.round <= tasks'[c.task].round
  <2>1. SUFFICES ASSUME label = "resume"
                 PROVE  c.task \in DOMAIN tasks' /\ c.round <= tasks'[c.task].round
    OBVIOUS
  <2>2. /\ c.round \in Nat /\ c.task \in DOMAIN tasks /\ c.round <= tasks[c.task].round
    BY <2>1 DEF CtxFits, Ctxs
  <2>3. /\ c.task \in DOMAIN tasks' /\ tasks'[c.task].round \in Nat
        /\ tasks[c.task].round \in Nat /\ tasks[c.task].round <= tasks'[c.task].round
    BY <2>2 DEF Grown
  <2>4. QED
    BY <2>2, <2>3
<1>2. QED
  BY <1>1 DEF CtxFits, JobFits, Grown

LEMMA ProcessMoves ==
  ASSUME SessionInv, StoreInv', Grown, NEW p \in Procs, NEW label \in Labels, NEW c, NEW j,
         CtxFits(label, c, tasks'), JobFits(label, j, messages'),
         Goto(p, label), ctx' = [ctx EXCEPT ![p] = c], job' = [job EXCEPT ![p] = j],
         disk' \in Snapshots, shown' \subseteq DOMAIN messages', crashes' \in 0..MaxCrashes
  PROVE  SessionInv'
<1>1. c \in Ctxs /\ j \in Jobs
  BY DEF CtxFits, JobFits
<1>2. /\ pc \in [Procs -> Labels] /\ ctx \in [Procs -> Ctxs] /\ job \in [Procs -> Jobs]
      /\ \A q \in Procs : CtxFits(pc[q], ctx[q], tasks) /\ JobFits(pc[q], job[q], messages)
  BY DEF SessionInv, Processes
<1>3. /\ pc' \in [Procs -> Labels] /\ ctx' \in [Procs -> Ctxs] /\ job' \in [Procs -> Jobs]
      /\ pc'[p] = label /\ ctx'[p] = c /\ job'[p] = j
      /\ \A q \in Procs \ {p} : pc'[q] = pc[q] /\ ctx'[q] = ctx[q] /\ job'[q] = job[q]
  BY <1>1, <1>2 DEF Goto
<1>4. \A q \in Procs : CtxFits(pc'[q], ctx'[q], tasks') /\ JobFits(pc'[q], job'[q], messages')
  <2>1. SUFFICES ASSUME NEW q \in Procs \ {p}
                 PROVE  CtxFits(pc'[q], ctx'[q], tasks') /\ JobFits(pc'[q], job'[q], messages')
    BY <1>3
  <2>2. CtxFits(pc[q], ctx[q], tasks) /\ JobFits(pc[q], job[q], messages)
    BY <1>2
  <2>3. CtxFits(pc[q], ctx[q], tasks') /\ JobFits(pc[q], job[q], messages')
    BY <2>2, Outgrown
  <2>4. QED
    BY <1>3, <2>3
<1>5. QED
  BY <1>3, <1>4 DEF SessionInv, Processes

LEMMA NoJobFits ==
  ASSUME NEW label \in {"idle", "clear"}, NEW ms
  PROVE  JobFits(label, NoJob, ms)
BY DEF JobFits, NoJob, Jobs

\* A command that ends holds nothing.
LEMMA ExitStaysWithin ==
  ASSUME SessionInv, StoreInv', Grown, NEW p \in Procs, Exit(p),
         disk' \in Snapshots, shown' \subseteq DOMAIN messages', crashes' \in 0..MaxCrashes
  PROVE  SessionInv'
<1>1. CtxFits("idle", NoCtx, tasks')
  BY DEF CtxFits, NoCtx, Ctxs, NoCheck, CheckRows
<1>2. JobFits("idle", NoJob, messages') /\ "idle" \in Labels
  BY NoJobFits DEF Labels
<1>3. QED
  BY <1>1, <1>2, ProcessMoves DEF Exit

\* The labels at which what a process holds is not about a delivery or a reply.
FreeLabels == Labels \ {"open", "record", "print", "compare", "post"}

LEMMA CheckStaysWithin ==
  ASSUME SessionInv, StoreInv', Grown, NEW p \in Procs, Check(p)
  PROVE  SessionInv'
<1>1. CtxFits(pc[p], ctx[p], tasks') /\ JobFits(pc[p], job[p], messages')
  <2>1. CtxFits(pc[p], ctx[p], tasks) /\ JobFits(pc[p], job[p], messages)
    BY DEF SessionInv, Processes
  <2>2. QED
    BY <2>1, Outgrown
<1>2. /\ disk \in Snapshots /\ ctx \in [Procs -> Ctxs] /\ job \in [Procs -> Jobs]
      /\ job' = [job EXCEPT ![p] = job[p]]
      /\ shown' \subseteq DOMAIN messages' /\ crashes' \in 0..MaxCrashes
  BY DEF Check, SessionInv, Processes, sessionVars, Grown
<1>3. ASSUME NEW label \in FreeLabels, NEW c, CtxFits(label, c, tasks'),
             Goto(p, label), ctx' = [ctx EXCEPT ![p] = c], UNCHANGED disk
      PROVE  SessionInv'
  <2>1. JobFits(label, job[p], messages') /\ label \in Labels
    BY <1>1 DEF JobFits, FreeLabels
  <2>2. disk' \in Snapshots
    BY <1>2, <1>3
  <2>3. QED
    BY <1>2, <1>3, <2>1, <2>2, ProcessMoves
<1>4. ASSUME NEW label \in FreeLabels, CtxFits(label, ctx[p], tasks'),
             Goto(p, label), UNCHANGED <<ctx, disk>>
      PROVE  SessionInv'
  <2>1. ctx' = [ctx EXCEPT ![p] = ctx[p]]
    BY <1>2, <1>4
  <2>2. QED
    BY <1>3, <1>4, <2>1
<1>5. {"clear", "poll", "sample", "resume_ack", "resume_find", "resume", "forget",
       "judge", "ask", "note"} \subseteq FreeLabels
  BY DEF FreeLabels, Labels, WaitLabels
<1>6. ASSUME Fail(p) PROVE SessionInv'
  <2>1. CtxFits("clear", ctx[p], tasks')
    BY <1>1 DEF CtxFits
  <2>2. QED
    BY <1>4, <1>5, <1>6, <2>1 DEF Fail
<1>7. CASE LookForCheck(p)
  <2>1. PICK label \in {"sample", "resume_ack", "poll"} : Goto(p, label)
    BY <1>7 DEF LookForCheck
  <2>2. CtxFits(label, ctx[p], tasks')
    BY <1>1 DEF CtxFits
  <2>3. QED
    BY <1>4, <1>5, <1>7, <2>1, <2>2 DEF LookForCheck
<1>8. CASE SampleTokens(p)
  <2>1. PICK tokens \in SamplesOf[me(p)], label \in {"poll", "forget", "judge"} :
            /\ ctx' = [ctx EXCEPT ![p].tokens = tokens, ![p].prev = checks[me(p)]]
            /\ Goto(p, label)
    BY <1>8 DEF SampleTokens
  <2> DEFINE c == [ctx[p] EXCEPT !.tokens = tokens, !.prev = checks[me(p)]]
  <2>2. tokens \in Samples /\ tokens \in Nat /\ checks[me(p)] \in CheckRows
    BY WhoseProcess, ProcsAssumption, SampleAssumption DEF SessionInv, StoreInv, TypeOK
  <2>3. CtxFits(label, c, tasks')
    BY <1>2, <2>2 DEF CtxFits, Ctxs
  <2>4. ctx' = [ctx EXCEPT ![p] = c]
    BY <1>2, <2>1
  <2>5. QED
    BY <1>3, <1>5, <1>8, <2>1, <2>3, <2>4 DEF SampleTokens
<1>9. CASE ForgetCheck(p)
  <2> DEFINE c == [ctx[p] EXCEPT !.prev = NoCheck]
  <2>1. NoCheck \in CheckRows
    BY DEF NoCheck, CheckRows
  <2>2. CtxFits("judge", c, tasks')
    BY <1>1, <1>9, <2>1 DEF ForgetCheck, CtxFits, Ctxs
  <2>3. ctx' = [ctx EXCEPT ![p] = c] /\ Goto(p, "judge") /\ UNCHANGED disk
    BY <1>9 DEF ForgetCheck
  <2>4. QED
    BY <1>3, <1>5, <2>2, <2>3
<1>10. CASE JudgeCheck(p)
  <2> DEFINE print == Fingerprint(ctx[p].docs)
             c == [ctx[p] EXCEPT !.print = print]
  <2>1. PICK label \in {"poll", "clear", "ask"} : Goto(p, label)
    BY <1>10 DEF JudgeCheck
  <2>2. print \in Prints
    <3>1. ctx[p].docs \in SUBSET Files
      BY <1>1 DEF CtxFits, Ctxs
    <3>2. QED
      BY <1>2, <3>1, FingerprintIsPrint
  <2>3. ctx' = [ctx EXCEPT ![p] = c] /\ UNCHANGED disk
    BY <1>10 DEF JudgeCheck
  <2> HIDE DEF print
  <2>4. CtxFits(label, c, tasks')
    BY <1>1, <1>10, <2>2 DEF JudgeCheck, CtxFits, Ctxs
  <2>5. QED
    BY <1>3, <1>5, <2>1, <2>3, <2>4
<1>11. CASE AskForCheck(p)
  <2>1. ASSUME NEW t \in Nat, ctx' = [ctx EXCEPT ![p].task = t], Goto(p, "note"), UNCHANGED disk
        PROVE  SessionInv'
    <3> DEFINE c == [ctx[p] EXCEPT !.task = t]
    <3>1. CtxFits("note", c, tasks')
      BY <1>1, <1>11 DEF AskForCheck, CtxFits, Ctxs
    <3>2. ctx' = [ctx EXCEPT ![p] = c]
      BY <2>1
    <3>3. QED
      BY <1>3, <1>5, <2>1, <3>1, <3>2
  <2>2. Len(tasks) + 1 \in Nat /\ DOMAIN tasks \subseteq Nat
    BY TaskColumns DEF SessionInv, StoreInv, TypeOK
  <2>3. WithKey(CheckRequest(p).key) \subseteq Nat
    BY <2>2 DEF WithKey
  <2>4. QED
    BY <1>6, <1>11, <2>1, <2>2, <2>3 DEF AskForCheck
<1>12. CASE NoteCheck(p)
  <2>1. CtxFits("poll", ctx[p], tasks')
    BY <1>1 DEF CtxFits
  <2>2. QED
    BY <1>4, <1>5, <1>12, <2>1 DEF NoteCheck
<1>13. CASE AckBeforeResume(p)
  <2>1. CtxFits("resume_find", ctx[p], tasks')
    BY <1>1 DEF CtxFits
  <2>2. QED
    BY <1>4, <1>5, <1>6, <1>13, <2>1 DEF AckBeforeResume
<1>14. CASE FindCheck(p)
  <2> DEFINE t == Newest(WaitingChecks(me(p)))
             c == [ctx[p] EXCEPT !.task = t, !.round = tasks[t].round,
                                 !.tokens = tasks[t].req.tokens,
                                 !.print = Fingerprint(ctx[p].docs)]
  <2>1. ASSUME WaitingChecks(me(p)) # {},
               ctx' = [ctx EXCEPT ![p].task = t, ![p].round = tasks[t].round,
                                  ![p].tokens = tasks[t].req.tokens,
                                  ![p].print = Fingerprint(ctx[p].docs)],
               Goto(p, "resume"), UNCHANGED disk, UNCHANGED storeVars
        PROVE  SessionInv'
    <3>1. t \in DOMAIN tasks
      <4>1. WaitingChecks(me(p)) \subseteq 1..Len(tasks) /\ Len(tasks) \in Nat
        BY TaskColumns DEF WaitingChecks, SessionInv, StoreInv, TypeOK
      <4>2. t \in WaitingChecks(me(p))
        BY <2>1, <4>1, NewestIsLast
      <4>3. QED
        BY <4>2 DEF WaitingChecks
    <3>2. /\ t \in Nat /\ tasks[t].round \in Nat
          /\ tasks[t].req.tokens \in Samples /\ tasks[t].req.tokens \in Nat
      BY <3>1, TaskColumns, SampleAssumption
         DEF SessionInv, StoreInv, TypeOK, TaskRows, RequestColumns
    <3>3. Fingerprint(ctx[p].docs) \in Prints
      <4>1. ctx[p].docs \in SUBSET Files
        BY <1>1 DEF CtxFits, Ctxs
      <4>2. QED
        BY <1>2, <4>1, FingerprintIsPrint
    <3>4. ctx' = [ctx EXCEPT ![p] = c]
      BY <1>2, <2>1
    <3>5. tasks' = tasks
      BY <2>1 DEF storeVars
    <3>6. CtxFits("resume", c, tasks')
      <4> HIDE DEF t
      <4>1. ctx[p] \in Ctxs
        BY <1>1 DEF CtxFits
      <4>2. /\ c.task = t /\ c.round = tasks[t].round /\ c.tokens = tasks[t].req.tokens
            /\ c.print = Fingerprint(ctx[p].docs)
        BY <4>1 DEF Ctxs
      <4>3. c \in Ctxs
        BY <3>2, <3>3, <4>1 DEF Ctxs
      <4> HIDE DEF c
      <4>4. QED
        BY <3>1, <3>2, <3>3, <3>5, <4>2, <4>3 DEF CtxFits
    <3>7. QED
      BY <1>3, <1>5, <2>1, <3>4, <3>6
  <2>2. QED
    BY <1>6, <1>14, <2>1 DEF FindCheck
<1>15. CASE ResumeCheck(p)
  <2>1. CtxFits("clear", ctx[p], tasks') /\ CtxFits("note", ctx[p], tasks')
    BY <1>1, <1>15 DEF ResumeCheck, CtxFits
  <2>2. QED
    BY <1>4, <1>5, <1>6, <1>15, <2>1 DEF ResumeCheck
<1>16. QED
  BY <1>7, <1>8, <1>9, <1>10, <1>11, <1>12, <1>13, <1>14, <1>15 DEF Check, CheckStep

LEMMA WaitStaysWithin ==
  ASSUME SessionInv, StoreInv', Grown, NEW p \in Procs,
         \/ Begin(p) \/ Claim(p) \/ Superseded(p) \/ Open(p) \/ Record(p)
         \/ Clear(p) \/ Show(p) \/ Confirm(p)
  PROVE  SessionInv'
<1>1. CtxFits(pc[p], ctx[p], tasks') /\ JobFits(pc[p], job[p], messages')
  <2>1. CtxFits(pc[p], ctx[p], tasks) /\ JobFits(pc[p], job[p], messages)
    BY DEF SessionInv, Processes
  <2>2. QED
    BY <2>1, Outgrown
<1>2. /\ disk \in Snapshots /\ ctx \in [Procs -> Ctxs] /\ job \in [Procs -> Jobs]
      /\ shown \subseteq DOMAIN messages' /\ crashes \in 0..MaxCrashes
  BY DEF SessionInv, Processes, Grown
<1>3. ASSUME NEW label \in Labels \ {"forget", "judge", "ask", "note", "resume"},
             NEW j, JobFits(label, j, messages'),
             Goto(p, label), UNCHANGED ctx, job' = [job EXCEPT ![p] = j], UNCHANGED <<disk, crashes>>,
             shown' \subseteq DOMAIN messages'
      PROVE  SessionInv'
  <2>1. CtxFits(label, ctx[p], tasks')
    BY <1>1 DEF CtxFits
  <2>2. ctx' = [ctx EXCEPT ![p] = ctx[p]]
    BY <1>2, <1>3
  <2>3. disk' \in Snapshots /\ crashes' \in 0..MaxCrashes
    BY <1>2, <1>3
  <2>4. QED
    BY <1>3, <2>1, <2>2, <2>3, ProcessMoves
<1>4. ASSUME NEW label \in Labels \ {"forget", "judge", "ask", "note", "resume"},
             JobFits(label, job[p], messages'),
             Goto(p, label), UNCHANGED <<ctx, job>>, UNCHANGED <<disk, crashes>>,
             shown' \subseteq DOMAIN messages'
      PROVE  SessionInv'
  <2>1. job' = [job EXCEPT ![p] = job[p]]
    BY <1>2, <1>4
  <2>2. QED
    BY <1>3, <1>4, <2>1
<1>5. ASSUME Exit(p), UNCHANGED <<disk, crashes>>, shown' \subseteq DOMAIN messages'
      PROVE  SessionInv'
  BY <1>2, <1>5, ExitStaysWithin
<1>6. {"claim", "check", "clear", "open", "record", "print", "confirm"}
        \subseteq Labels \ {"forget", "judge", "ask", "note", "resume"}
  BY DEF Labels, WaitLabels
<1>7. \A label \in {"claim", "check", "clear", "confirm"} : JobFits(label, job[p], messages')
  BY <1>1 DEF JobFits
<1>8. CASE Begin(p)
  BY <1>2, <1>4, <1>5, <1>6, <1>7, <1>8 DEF Begin, Quiet
<1>9. CASE Claim(p)
  <2>1. ASSUME ClaimMessage(me(p), mine(p), p),
               job' = [job EXCEPT ![p].msg = First(Claimable(me(p)))],
               Goto(p, "open"), UNCHANGED ctx, Quiet
        PROVE  SessionInv'
    <3> DEFINE m == First(Claimable(me(p)))
               j == [job[p] EXCEPT !.msg = m]
    <3>1. m \in DOMAIN messages
      BY <2>1, FirstClaimable DEF ClaimMessage, Rows, SessionInv, StoreInv
    <3>2. m \in Nat /\ m \in DOMAIN messages'
      BY <3>1, RowsAreTyped DEF SessionInv, StoreInv, Grown
    <3>3. job' = [job EXCEPT ![p] = j]
      BY <1>2, <2>1
    <3> HIDE DEF m
    <3>4. JobFits("open", j, messages')
      BY <1>1, <3>2 DEF JobFits, Jobs
    <3>5. QED
      BY <1>2, <1>3, <1>6, <2>1, <3>3, <3>4 DEF Quiet
  <2>2. ASSUME Malformed(p), Quiet PROVE SessionInv'
    BY <1>2, <1>4, <1>6, <1>7, <2>2 DEF Malformed, Quiet
  <2>3. QED
    BY <1>2, <1>4, <1>6, <1>7, <1>9, <2>1, <2>2 DEF Claim, Quiet
<1>10. CASE Superseded(p)
  BY <1>2, <1>4, <1>6, <1>7, <1>10 DEF Superseded, Quiet
<1>11. CASE Open(p)
  <2> DEFINE t == messages[job[p].msg].task
             j == [job[p] EXCEPT !.task = t, !.round = tasks[t].round, !.files = disk]
  <2>1. t \in Nat /\ tasks[t].round \in Nat
    <3>1. job[p].msg \in DOMAIN messages
      BY <1>11 DEF Open, SessionInv, Processes, JobFits
    <3>2. t \in DOMAIN tasks
      BY <3>1 DEF SessionInv, StoreInv, QueueInv, RowsOfStartedTasks
    <3>3. QED
      BY <3>2, TaskColumns DEF SessionInv, StoreInv, TypeOK
  <2>2. ASSUME job' = [job EXCEPT ![p].task = t, ![p].round = tasks[t].round,
                                  ![p].files = disk],
               Goto(p, "record"), UNCHANGED ctx, Quiet
        PROVE  SessionInv'
    <3>1. job' = [job EXCEPT ![p] = j]
      BY <1>2, <2>2
    <3> HIDE DEF t
    <3>2. JobFits("record", j, messages')
      BY <1>1, <1>2, <2>1 DEF JobFits, Jobs
    <3>3. QED
      BY <1>2, <1>3, <1>6, <2>2, <3>1, <3>2 DEF Quiet
  <2>3. QED
    BY <1>2, <1>4, <1>6, <1>7, <1>11, <2>2 DEF Open, Quiet
<1>12. CASE Record(p)
  <2>1. JobFits("clear", NoJob, messages')
    BY NoJobFits
  <2>2. QED
    BY <1>2, <1>3, <1>4, <1>6, <1>7, <1>12, <2>1 DEF Record, Quiet
<1>13. CASE Clear(p)
  <2>1. job[p].msg # 0 => JobFits("print", job[p], messages')
    BY <1>1 DEF JobFits
  <2>2. QED
    BY <1>2, <1>4, <1>5, <1>6, <1>13, <2>1 DEF Clear, Quiet
<1>14. CASE Show(p)
  <2>1. job[p].msg \in DOMAIN messages'
    BY <1>1, <1>14 DEF Show, JobFits
  <2>2. shown' \subseteq DOMAIN messages'
    BY <1>2, <1>14, <2>1 DEF Show
  <2>3. QED
    BY <1>4, <1>5, <1>6, <1>7, <1>14, <2>2 DEF Show
<1>15. CASE Confirm(p)
  BY <1>2, <1>5, <1>15 DEF Confirm, Quiet
<1>16. QED
  BY <1>8, <1>9, <1>10, <1>11, <1>12, <1>13, <1>14, <1>15

LEMMA ProcessesStay ==
  ASSUME SessionInv, StoreInv', Grown, UNCHANGED <<pc, ctx, job, shown, crashes>>,
         disk' \in Snapshots
  PROVE  SessionInv'
<1>1. ASSUME NEW p \in Procs
      PROVE  CtxFits(pc[p], ctx[p], tasks') /\ JobFits(pc[p], job[p], messages')
  <2>1. CtxFits(pc[p], ctx[p], tasks) /\ JobFits(pc[p], job[p], messages)
    BY DEF SessionInv, Processes
  <2>2. QED
    BY <2>1, Outgrown
<1>2. QED
  BY <1>1 DEF SessionInv, Processes, Grown

LEMMA CommandStaysWithin ==
  ASSUME SessionInv, StoreInv', Grown, NEW p \in Procs,
         \/ StartSend(p) \/ StartReply(p) \/ StartWait(p) \/ Crash(p) \/ Interrupt(p)
         \/ \E from, to \in {"send_ack", "enqueue", "wait_ack", "begin", "reply_ack", "inspect"} :
               AckPrior(p, from, to)
         \/ Enqueue(p) \/ Inspect(p) \/ Compare(p) \/ Post(p)
  PROVE  SessionInv'
<1>1. CtxFits(pc[p], ctx[p], tasks') /\ JobFits(pc[p], job[p], messages')
  <2>1. CtxFits(pc[p], ctx[p], tasks) /\ JobFits(pc[p], job[p], messages)
    BY DEF SessionInv, Processes
  <2>2. QED
    BY <2>1, Outgrown
<1>2. /\ disk \in Snapshots /\ ctx \in [Procs -> Ctxs] /\ job \in [Procs -> Jobs]
      /\ shown \subseteq DOMAIN messages' /\ crashes \in 0..MaxCrashes
  BY DEF SessionInv, Processes, Grown
<1> DEFINE Plain == {"send_ack", "enqueue", "wait_ack", "begin", "reply_ack", "inspect"}
<1>3. ASSUME NEW label \in Labels, NEW c, NEW j,
             CtxFits(label, c, tasks'), JobFits(label, j, messages'), Goto(p, label),
             ctx' = [ctx EXCEPT ![p] = c], job' = [job EXCEPT ![p] = j],
             UNCHANGED <<disk, shown>>, crashes' \in 0..MaxCrashes
      PROVE  SessionInv'
  <2>1. disk' \in Snapshots /\ shown' \subseteq DOMAIN messages'
    BY <1>2, <1>3
  <2>2. QED
    BY <1>3, <2>1, ProcessMoves
<1>4. ASSUME NEW label \in Plain, Goto(p, label), UNCHANGED <<ctx, job>>, Quiet
      PROVE  SessionInv'
  <2>1. label \in Labels
    BY DEF Labels
  <2>2. CtxFits(label, ctx[p], tasks') /\ JobFits(label, job[p], messages')
    BY <1>1 DEF CtxFits, JobFits
  <2>3. ctx' = [ctx EXCEPT ![p] = ctx[p]] /\ job' = [job EXCEPT ![p] = job[p]]
    BY <1>2, <1>4
  <2>4. QED
    BY <1>2, <1>3, <1>4, <2>1, <2>2, <2>3 DEF Quiet
<1>5. ASSUME Exit(p), UNCHANGED <<disk, shown>>, crashes' \in 0..MaxCrashes
      PROVE  SessionInv'
  BY <1>2, <1>5, ExitStaysWithin
<1>6. CASE StartSend(p) \/ StartReply(p)
  BY <1>4, <1>6 DEF StartSend, StartReply, Start
<1>7. CASE StartWait(p)
  <2>1. PICK docs \in SUBSET Checkpoints : ctx' = [ctx EXCEPT ![p].docs = docs]
    BY <1>7 DEF StartWait
  <2> DEFINE c == [ctx[p] EXCEPT !.docs = docs]
  <2>2. CtxFits("wait_ack", c, tasks')
    BY <1>1, SessionAssumption DEF CtxFits, Ctxs
  <2>3. JobFits("wait_ack", job[p], messages') /\ "wait_ack" \in Labels
    BY <1>1 DEF JobFits, Labels
  <2>4. ctx' = [ctx EXCEPT ![p] = c] /\ job' = [job EXCEPT ![p] = job[p]]
    BY <1>2, <1>7, <2>1 DEF StartWait
  <2>5. QED
    BY <1>2, <1>3, <1>7, <2>2, <2>3, <2>4 DEF StartWait, Quiet
<1>8. ASSUME crashes < MaxCrashes, crashes' = crashes + 1
      PROVE  crashes' \in 0..MaxCrashes
  BY <1>2, <1>8, SessionAssumption
<1>9. CASE Crash(p)
  BY <1>5, <1>8, <1>9 DEF Crash
<1>10. CASE Interrupt(p)
  <2>1. CtxFits("clear", ctx[p], tasks') /\ JobFits("clear", NoJob, messages')
    BY <1>1, NoJobFits DEF CtxFits
  <2>2. ctx' = [ctx EXCEPT ![p] = ctx[p]] /\ "clear" \in Labels
    BY <1>2, <1>10 DEF Interrupt, Labels
  <2>3. QED
    BY <1>3, <1>8, <1>10, <2>1, <2>2 DEF Interrupt
<1>11. CASE \E from, to \in Plain : AckPrior(p, from, to)
  BY <1>2, <1>4, <1>5, <1>11 DEF AckPrior, Quiet
<1>12. CASE Enqueue(p)
  BY <1>2, <1>5, <1>12 DEF Enqueue, Quiet
<1>13. CASE Inspect(p)
  <2>1. ASSUME NEW t \in DOMAIN tasks, NEW v \in Verdicts, NEW x \in Texts,
               job' = [job EXCEPT ![p].task = t, ![p].round = tasks[t].round,
                                  ![p].verdict = v, ![p].text = x],
               Goto(p, "compare"), UNCHANGED ctx, Quiet
        PROVE  SessionInv'
    <3> DEFINE j == [job[p] EXCEPT !.task = t, !.round = tasks[t].round,
                                   !.verdict = v, !.text = x]
    <3>1. t \in Nat /\ tasks[t].round \in 1..MaxRounds
      BY TaskColumns DEF SessionInv, StoreInv, TypeOK, RoundsBounded
    <3>2. job[p] \in Jobs /\ tasks[t].round \in Nat
      BY <1>2, <3>1, BoundsAssumption
    <3>3. /\ j.round = tasks[t].round /\ j.verdict = v /\ j.text = x /\ j.msg = job[p].msg
          /\ j \in Jobs
      BY <3>1, <3>2 DEF Jobs
    <3>4. job' = [job EXCEPT ![p] = j]
      BY <1>2, <2>1
    <3> HIDE DEF j
    <3>5. JobFits("compare", j, messages')
      BY <1>1, <3>1, <3>3 DEF JobFits
    <3>6. CtxFits("compare", ctx[p], tasks') /\ "compare" \in Labels
      BY <1>1 DEF CtxFits, Labels
    <3>7. ctx' = [ctx EXCEPT ![p] = ctx[p]]
      BY <1>2, <2>1
    <3>8. QED
      BY <1>2, <1>3, <2>1, <3>4, <3>5, <3>6, <3>7 DEF Quiet
  <2>2. ASSUME Exit(p), Quiet PROVE SessionInv'
    BY <1>2, <1>5, <2>2 DEF Quiet
  <2>3. \/ Exit(p) /\ Quiet
        \/ \E t \in DOMAIN tasks, v \in Verdicts, x \in Texts :
              /\ job' = [job EXCEPT ![p].task = t, ![p].round = tasks[t].round,
                                   ![p].verdict = v, ![p].text = x]
              /\ Goto(p, "compare") /\ UNCHANGED ctx /\ Quiet
    BY <1>13 DEF Inspect
  <2>4. QED
    BY <2>1, <2>2, <2>3
<1>14. CASE Compare(p)
  <2>1. ASSUME NEW notice \in SUBSET Files, job' = [job EXCEPT ![p].notice = notice],
               Goto(p, "post"), UNCHANGED ctx, Quiet
        PROVE  SessionInv'
    <3> DEFINE j == [job[p] EXCEPT !.notice = notice]
    <3>1. job' = [job EXCEPT ![p] = j] /\ ctx' = [ctx EXCEPT ![p] = ctx[p]]
      BY <1>2, <2>1
    <3>2. JobFits("post", j, messages')
      <4>1. JobFits("compare", job[p], messages') /\ job[p] \in Jobs
        BY <1>1, <1>2, <1>14 DEF Compare
      <4>2. /\ j.msg = job[p].msg /\ j.round = job[p].round /\ j.verdict = job[p].verdict
            /\ j.text = job[p].text /\ j \in Jobs
        BY <4>1 DEF Jobs
      <4> HIDE DEF j
      <4>3. QED
        BY <4>1, <4>2 DEF JobFits
    <3>3. CtxFits("post", ctx[p], tasks') /\ "post" \in Labels
      BY <1>1 DEF CtxFits, Labels
    <3>4. QED
      BY <1>2, <1>3, <2>1, <3>1, <3>2, <3>3 DEF Quiet
  <2>2. \A b, req : Violations(b, req) \in SUBSET Files
    BY DEF Violations
  <2>3. QED
    BY <1>2, <1>5, <1>14, <2>1, <2>2 DEF Compare, Quiet
<1>15. CASE Post(p)
  BY <1>2, <1>5, <1>15 DEF Post
<1>16. QED
  BY <1>6, <1>7, <1>9, <1>10, <1>11, <1>12, <1>13, <1>14, <1>15

LEMMA SessionStep ==
  ASSUME SessionInv, [SessionNext]_vars
  PROVE  SessionInv'
<1>1. StoreInv' /\ Grown
  BY CommandsCallTheStore, StoreGrows DEF SessionInv
<1>2. disk \in Snapshots
  BY DEF SessionInv, Processes
<1>3. ASSUME NEW p \in Procs, Join(p) \/ Leave(p) PROVE SessionInv'
  BY <1>1, <1>2, <1>3, ProcessesStay DEF Join, Leave, Quiet
<1>4. ASSUME NEW p \in Procs,
             \/ StartSend(p) \/ StartWait(p) \/ StartReply(p) \/ Step(p)
             \/ Crash(p) \/ Interrupt(p)
      PROVE  SessionInv'
  BY <1>1, <1>4, CommandStaysWithin, WaitStaysWithin, CheckStaysWithin DEF Step
<1>5. ASSUME NEW f \in Files, NEW c \in Contents, Edit(f, c) PROVE SessionInv'
  <2>1. disk' \in Snapshots
    BY <1>2, <1>5, ProcsAssumption DEF Edit
  <2>2. QED
    BY <1>1, <1>5, <2>1, ProcessesStay DEF Edit
<1>6. ASSUME NEW m \in DOMAIN messages, Expire(m) \/ Damage(m) PROVE SessionInv'
  BY <1>1, <1>2, <1>6, ProcessesStay DEF Expire, Damage, checkVars, sessionVars
<1>7. ASSUME UNCHANGED vars PROVE SessionInv'
  BY <1>1, <1>2, <1>7, ProcessesStay DEF vars, checkVars, sessionVars
<1>8. QED
  BY <1>3, <1>4, <1>5, <1>6, <1>7 DEF SessionNext

LEMMA SessionStarts == SessionInit => SessionInv
<1>1. SUFFICES ASSUME SessionInit PROVE SessionInv
  OBVIOUS
<1>2. TypeOK /\ QueueInv
  <2>1. TypeOK
    BY <1>1 DEF SessionInit, Init, TypeOK, MemberRows, CheckRows, NoCheck
  <2>2. QueueInv
    BY <1>1 DEF SessionInit, Init, QueueInv, ServedInOrder, NeverIdleWithWork, InState,
                RowsOfStartedTasks
  <2>3. QED
    BY <2>1, <2>2
<1>3. StoreInv
  BY <1>1, <1>2 DEF SessionInit, Init, StoreInv, RoundsBounded
<1>4. /\ NoCtx \in Ctxs /\ NoJob \in Jobs /\ "idle" \in Labels
      /\ CtxFits("idle", NoCtx, tasks) /\ JobFits("idle", NoJob, messages)
  BY NoJobFits DEF CtxFits, JobFits, NoCtx, Ctxs, NoCheck, CheckRows, Labels
<1>5. 0 \in 0..MaxCrashes
  BY SessionAssumption
<1>6. QED
  BY <1>1, <1>3, <1>4, <1>5 DEF SessionInit, SessionInv, Processes

LEMMA AlwaysWithin == SessionSpec => []SessionInv
<1>1. SessionInv /\ [SessionNext]_vars => SessionInv'
  BY SessionStep
<1>2. QED
  BY <1>1, SessionStarts, PTL DEF SessionSpec

-----------------------------------------------------------------------------
(* What follows for the commands.                                          *)

\* Wherever a process is killed and whatever comes between two of its
\* transactions, it holds only what it may hold there: types of Session.
THEOREM SessionTypeCorrect == SessionSpec => []SessionTypeOK
<1>1. SessionInv => SessionTypeOK
  BY DEF SessionInv, StoreInv, Processes, SessionTypeOK
<1>2. QED
  BY <1>1, AlwaysWithin, PTL

\* The commands (cli.py, service.py) move the room's tables by the store's
\* transactions alone (storage.py): they call each with arguments it takes,
\* although what they pass was read transactions ago.
THEOREM CommandsRefineStore == SessionSpec => Spec
<1>1. SessionInit => Init
  BY DEF SessionInit
<1>2. SessionInv /\ [SessionNext]_vars => [Next]_storeVars
  BY CommandsCallTheStore
<1>3. QED
  BY <1>1, <1>2, AlwaysWithin, PTL DEF SessionSpec, Spec

\* What is proved of every client of the store holds of the commands: tasks are
\* served in order, the room is never idle with work, every working task has
\* its one deliverable request, rounds are answered once, states match the
\* replies stored, and nobody is handed a request that is over.
THEOREM CommandsKeepPromises ==
  SessionSpec => [](/\ ServedInOrder /\ NeverIdleWithWork /\ WorkIsPosted
                    /\ OneReplyPerRound /\ StateMatchesReply /\ NoStaleRequest)
<1>1. SessionSpec => Spec
  BY CommandsRefineStore
<1>2. QED
  BY <1>1, QueueCorrect, WorkStaysPosted, RoundsAreAnsweredOnce, StatesMatchReplies,
     NothingStaleIsDelivered, PTL

-----------------------------------------------------------------------------
(* The place of a wait.                                                    *)

\* Only these commands write a member row.
LEMMA RowsMoveBy ==
  ASSUME [SessionNext]_vars
  PROVE  \/ UNCHANGED members
         \/ \E q \in Procs : Join(q) \/ Leave(q) \/ Begin(q) \/ Clear(q)
<1>1. UNCHANGED storeVars => UNCHANGED members
  BY DEF storeVars
<1>2. ASSUME NEW p \in Procs, Claim(p) PROVE UNCHANGED members
  BY <1>1, <1>2 DEF Claim, Malformed, ClaimMessage, QuarantineMessage
<1>3. ASSUME NEW p \in Procs, Check(p) PROVE UNCHANGED members
  <2>1. LookForCheck(p) \/ SampleTokens(p) \/ JudgeCheck(p) \/ FindCheck(p)
          => UNCHANGED members
    BY <1>1 DEF LookForCheck, SampleTokens, JudgeCheck, FindCheck, Fail
  <2>2. ForgetCheck(p) \/ NoteCheck(p) => UNCHANGED members
    BY DEF ForgetCheck, NoteCheck, ClearContextCheck, RecordContextCheck
  <2>3. AckBeforeResume(p) \/ AskForCheck(p) \/ ResumeCheck(p) => UNCHANGED members
    BY <1>1 DEF AckBeforeResume, AskForCheck, ResumeCheck, Fail, AcknowledgeReplies,
                EnqueueTask, ResumeContextCheck
  <2>4. QED
    BY <1>3, <2>1, <2>2, <2>3 DEF Check, CheckStep
<1>4. ASSUME NEW p \in Procs
      PROVE  /\ \A from, to : AckPrior(p, from, to) => UNCHANGED members
             /\ Enqueue(p) \/ Superseded(p) \/ Open(p) \/ Show(p) \/ Inspect(p) \/ Compare(p)
                  => UNCHANGED members
             /\ Record(p) \/ Confirm(p) \/ Post(p) => UNCHANGED members
  <2>1. \A from, to : AckPrior(p, from, to) => UNCHANGED members
    BY <1>1 DEF AckPrior, AcknowledgeReplies
  <2>2. Enqueue(p) \/ Superseded(p) \/ Open(p) \/ Show(p) \/ Inspect(p) \/ Compare(p)
          => UNCHANGED members
    BY <1>1 DEF Enqueue, EnqueueTask, Superseded, Open, Show, Inspect, Compare
  <2>3. Record(p) \/ Confirm(p) \/ Post(p) => UNCHANGED members
    BY <1>1 DEF Record, RecordBaseline, Confirm, AcknowledgeReplies, Post, Reply
  <2>4. QED
    BY <2>1, <2>2, <2>3
<1>5. ASSUME NEW p \in Procs
      PROVE  StartSend(p) \/ StartWait(p) \/ StartReply(p) \/ Crash(p) \/ Interrupt(p)
               => UNCHANGED members
  BY <1>1 DEF StartSend, StartReply, Start, StartWait, Crash, Interrupt
<1>6. ASSUME NEW m \in DOMAIN messages, Expire(m) \/ Damage(m) PROVE UNCHANGED members
  BY <1>6 DEF Expire, Damage, LeaseExpires, DamageRow
<1>7. ASSUME NEW f \in Files, NEW c \in Contents, Edit(f, c) PROVE UNCHANGED members
  BY <1>1, <1>7 DEF Edit
<1>8. UNCHANGED vars => UNCHANGED members
  BY DEF vars, storeVars
<1>9. QED
  BY <1>2, <1>3, <1>4, <1>5, <1>6, <1>7, <1>8 DEF SessionNext, Step

\* What a command does to one member row.
LEMMA RowAfter ==
  ASSUME SessionInv, NEW p \in Procs, NEW q \in Procs,
         Join(q) \/ Leave(q) \/ Begin(q) \/ Clear(q)
  PROVE  \/ members'[me(p)] = members[me(p)]
         \/ me(q) = me(p) /\ members'[me(p)].waiter = NoWaiter /\ pc[q] \in {"idle", "clear"}
         \/ me(q) = me(p) /\ Begin(q) /\ members'[me(p)].waiter = q
              /\ IsCurrentWaiter(me(q), mine(q), q)'
<1>1. /\ me(p) \in Agents /\ me(q) \in Agents /\ members \in [Agents -> MemberRows]
      /\ members[me(p)] \in MemberRows /\ members[me(q)] \in MemberRows
  BY WhoseProcess DEF SessionInv, StoreInv, TypeOK
<1>2. CASE Join(q)
  BY <1>1, <1>2 DEF Join, JoinMember
<1>3. CASE Leave(q)
  BY <1>1, <1>3 DEF Leave, LeaveMember, MemberRows
<1>4. CASE Begin(q)
  BY <1>1, <1>4 DEF Begin, BeginWait, storeVars, IsJoinedAs, IsCurrentWaiter, MemberRows
<1>5. CASE Clear(q)
  BY <1>1, <1>5 DEF Clear, ClearWaiter, MemberRows
<1>6. QED
  BY <1>2, <1>3, <1>4, <1>5

LEMMA ProcessIsNotNull ==
  ASSUME NEW p \in Procs
  PROVE  p # NoWaiter
BY NullAssumption DEF Procs

\* Each wait keeps its place until it ends or loses it to a newer one.
THEOREM WaitersKeepTheirPlace == SessionSpec => WaitKeepsItsPlace
<1> DEFINE Kept(p) ==
      /\ IsCurrentWaiter(me(p), mine(p), p) /\ pc'[p] \in WaitLabels
      /\ ~IsCurrentWaiter(me(p), mine(p), p)'
      => \E q \in Procs : me(q) = me(p) /\ q # p /\ pc[q] \in {"begin", "idle"}
<1>1. ASSUME SessionInv, [SessionNext]_vars, NEW p \in Procs PROVE Kept(p)
  <2>1. SUFFICES ASSUME IsCurrentWaiter(me(p), mine(p), p), pc'[p] \in WaitLabels,
                        ~IsCurrentWaiter(me(p), mine(p), p)'
                 PROVE  \E q \in Procs : me(q) = me(p) /\ q # p /\ pc[q] \in {"begin", "idle"}
    OBVIOUS
  <2>2. members'[me(p)] # members[me(p)]
    BY <2>1 DEF IsCurrentWaiter, IsJoinedAs
  <2>3. PICK q \in Procs : Join(q) \/ Leave(q) \/ Begin(q) \/ Clear(q)
    BY <1>1, <2>2, RowsMoveBy
  <2>4. me(q) = me(p)
    BY <1>1, <2>2, <2>3, RowAfter
  <2>5. ~Clear(q)
    <3>1. SUFFICES ASSUME Clear(q) PROVE FALSE
      OBVIOUS
    <3>2. members[me(p)].waiter = q
      BY <2>2, <2>4, <3>1 DEF Clear, ClearWaiter
    <3>3. q = p
      BY <2>1, <3>2 DEF IsCurrentWaiter
    <3>4. Goto(p, "idle") \/ Goto(p, "print")
      BY <3>1, <3>3 DEF Clear, Exit
    <3>5. pc'[p] \in {"idle", "print"}
      BY <1>1, <3>4 DEF Goto, SessionInv, Processes
    <3>6. QED
      BY <2>1, <3>5 DEF WaitLabels
  <2>6. pc[q] \in {"begin", "idle"}
    BY <2>3, <2>5 DEF Join, Leave, Begin
  <2>7. q # p
    <3>1. SUFFICES ASSUME q = p PROVE FALSE
      OBVIOUS
    <3>2. ~Begin(p)
      <4>1. SUFFICES ASSUME Begin(p) PROVE FALSE
        OBVIOUS
      <4>2. pc[p] = "begin"
        BY <4>1 DEF Begin
      <4>3. QED
        BY <1>1, <2>1, <2>2, <4>1, <4>2, RowAfter
    <3>3. pc'[p] = "idle"
      BY <2>3, <2>5, <3>1, <3>2 DEF Join, Leave
    <3>4. QED
      BY <2>1, <3>3 DEF WaitLabels
  <2>8. QED
    BY <2>4, <2>6, <2>7
<1>2. SessionInv /\ [SessionNext]_vars => [\A p \in Procs : Kept(p)]_vars
  BY <1>1
<1> HIDE DEF Kept
<1>3. QED
  BY <1>2, AlwaysWithin, PTL DEF SessionSpec, WaitKeepsItsPlace, Kept

\* The process goes on as it is.
Rests(p) == pc'[p] = pc[p] /\ ctx'[p] = ctx[p] /\ job'[p] = job[p]

\* A command runs alone: the other processes stay where they are.
LEMMA OthersStay ==
  ASSUME SessionInv, [SessionNext]_vars, NEW p \in Procs
  PROVE  \/ Rests(p)
         \/ StartSend(p) \/ StartWait(p) \/ StartReply(p) \/ Step(p) \/ Crash(p) \/ Interrupt(p)
<1>1. pc \in [Procs -> Labels] /\ ctx \in [Procs -> Ctxs] /\ job \in [Procs -> Jobs]
  BY DEF SessionInv, Processes
<1> DEFINE PcKept(q) == UNCHANGED pc \/ \E label : pc' = [pc EXCEPT ![q] = label]
           CtxKept(q) == UNCHANGED ctx \/ \E c : ctx' = [ctx EXCEPT ![q] = c]
           JobKept(q) == UNCHANGED job \/ \E j : job' = [job EXCEPT ![q] = j]
           Alone(q) == PcKept(q) /\ CtxKept(q) /\ JobKept(q)
<1>2. ASSUME NEW q \in Procs \ {p}, Alone(q) PROVE Rests(p)
  <2>1. pc'[p] = pc[p]
    BY <1>1, <1>2
  <2>2. ctx'[p] = ctx[p]
    BY <1>1, <1>2
  <2>3. job'[p] = job[p]
    BY <1>1, <1>2
  <2>4. QED
    BY <2>1, <2>2, <2>3 DEF Rests
<1>3. ASSUME NEW q \in Procs
      PROVE  /\ \A label : Goto(q, label) => PcKept(q)
             /\ Exit(q) => Alone(q)
             /\ UNCHANGED pc => PcKept(q)
             /\ UNCHANGED ctx => CtxKept(q)
             /\ UNCHANGED job => JobKept(q)
  BY DEF Goto, Exit
<1>4. ASSUME NEW q \in Procs, Step(q) PROVE Alone(q)
  <2>1. \A from, to : AckPrior(q, from, to) => Alone(q)
    BY <1>3 DEF AckPrior
  <2>2. Enqueue(q) \/ Begin(q) \/ Superseded(q) \/ Confirm(q) \/ Clear(q) \/ Show(q) => Alone(q)
    BY <1>3 DEF Enqueue, Begin, Superseded, Confirm, Clear, Show
  <2>3. Post(q) => Alone(q)
    BY <1>3 DEF Post
  <2>4. Claim(q) => Alone(q)
    <3>1. Malformed(q) => Alone(q)
      BY <1>3 DEF Malformed
    <3>2. \A m : job' = [job EXCEPT ![q].msg = m] => JobKept(q)
      BY Zenon
    <3>3. QED
      BY <1>3, <3>1, <3>2 DEF Claim
  <2>5. Open(q) \/ Record(q) => Alone(q)
    <3>1. \A t, r, f : job' = [job EXCEPT ![q].task = t, ![q].round = r, ![q].files = f]
            => JobKept(q)
      BY Zenon
    <3>2. job' = [job EXCEPT ![q] = NoJob] => JobKept(q)
      BY Zenon
    <3>3. QED
      BY <1>3, <3>1, <3>2 DEF Open, Record
  <2>6. Inspect(q) \/ Compare(q) => Alone(q)
    <3>1. \A t, r, v, x : job' = [job EXCEPT ![q].task = t, ![q].round = r,
                                             ![q].verdict = v, ![q].text = x]
            => JobKept(q)
      BY Zenon
    <3>2. \A n : job' = [job EXCEPT ![q].notice = n] => JobKept(q)
      BY Zenon
    <3>3. QED
      BY <1>3, <3>1, <3>2 DEF Inspect, Compare
  <2>7. Check(q) => Alone(q)
    <3>1. UNCHANGED sessionVars => JobKept(q)
      BY <1>3 DEF sessionVars
    <3>2. Fail(q) => PcKept(q) /\ CtxKept(q)
      BY <1>3 DEF Fail
    <3>3. LookForCheck(q) \/ NoteCheck(q) \/ AckBeforeResume(q) \/ ResumeCheck(q)
            => PcKept(q) /\ CtxKept(q)
      BY <1>3, <3>2 DEF LookForCheck, NoteCheck, AckBeforeResume, ResumeCheck
    <3>4. /\ \A n, k : ctx' = [ctx EXCEPT ![q].tokens = n, ![q].prev = k] => CtxKept(q)
          /\ \A k : ctx' = [ctx EXCEPT ![q].prev = k] => CtxKept(q)
          /\ \A f : ctx' = [ctx EXCEPT ![q].print = f] => CtxKept(q)
          /\ \A t : ctx' = [ctx EXCEPT ![q].task = t] => CtxKept(q)
          /\ \A t, r, n, f : ctx' = [ctx EXCEPT ![q].task = t, ![q].round = r,
                                                ![q].tokens = n, ![q].print = f]
                => CtxKept(q)
      BY Zenon
    <3>5. SampleTokens(q) \/ ForgetCheck(q) \/ JudgeCheck(q) => PcKept(q) /\ CtxKept(q)
      BY <1>3, <3>4 DEF SampleTokens, ForgetCheck, JudgeCheck
    <3> HIDE DEF PcKept, CtxKept, JobKept
    <3>6. AskForCheck(q) => PcKept(q) /\ CtxKept(q)
      <4>1. AskForCheck(q)
              => \/ Goto(q, "note") /\ \E t : ctx' = [ctx EXCEPT ![q].task = t]
                 \/ Fail(q)
        BY DEF AskForCheck
      <4>2. QED
        BY <1>3, <3>2, <3>4, <4>1
    <3>7. FindCheck(q) => PcKept(q) /\ CtxKept(q)
      <4> DEFINE t == Newest(WaitingChecks(me(q)))
                 found == [ctx EXCEPT ![q].task = t, ![q].round = tasks[t].round,
                                      ![q].tokens = tasks[t].req.tokens,
                                      ![q].print = Fingerprint(ctx[q].docs)]
      <4>1. FindCheck(q) => \/ Goto(q, "resume") /\ ctx' = found
                            \/ Fail(q)
        BY DEF FindCheck
      <4> HIDE DEF t
      <4>2. ctx' = found => CtxKept(q)
        BY Zenon DEF CtxKept
      <4> HIDE DEF found
      <4>3. QED
        BY <1>3, <3>2, <4>1, <4>2
    <3>8. QED
      BY <3>1, <3>3, <3>5, <3>6, <3>7 DEF Check, CheckStep, PcKept, CtxKept, JobKept
  <2>8. QED
    BY <1>4, <2>1, <2>2, <2>3, <2>4, <2>5, <2>6, <2>7 DEF Step
<1>5. ASSUME NEW q \in Procs,
             StartSend(q) \/ StartWait(q) \/ StartReply(q) \/ Crash(q) \/ Interrupt(q)
      PROVE  Alone(q)
  <2>1. \A docs : ctx' = [ctx EXCEPT ![q].docs = docs] => CtxKept(q)
    BY Zenon
  <2>2. job' = [job EXCEPT ![q] = NoJob] => JobKept(q)
    BY Zenon
  <2>3. QED
    BY <1>3, <1>5, <2>1, <2>2 DEF StartSend, StartReply, Start, StartWait, Crash, Interrupt
<1>6. ASSUME UNCHANGED <<pc, ctx, job>> PROVE Rests(p)
  BY <1>6 DEF Rests
<1>7. ASSUME NEW q \in Procs, Join(q) \/ Leave(q) PROVE UNCHANGED <<pc, ctx, job>>
  BY <1>7 DEF Join, Leave
<1>8. ASSUME NEW m \in DOMAIN messages, Expire(m) \/ Damage(m) PROVE UNCHANGED <<pc, ctx, job>>
  BY <1>8 DEF Expire, Damage, checkVars, sessionVars
<1>9. ASSUME NEW f \in Files, NEW c \in Contents, Edit(f, c) PROVE UNCHANGED <<pc, ctx, job>>
  BY <1>9 DEF Edit
<1>10. UNCHANGED vars => UNCHANGED <<pc, ctx, job>>
  BY DEF vars, checkVars, sessionVars
<1> HIDE DEF Alone
<1>11. QED
  BY <1>2, <1>4, <1>5, <1>6, <1>7, <1>8, <1>9, <1>10 DEF SessionNext

\* A wait that is not killed ends by its finally clause.
LEMMA WaitEndsByClear ==
  ASSUME SessionInv, [SessionNext]_vars, crashes' = crashes, NEW p \in Procs,
         pc[p] \in WaitLabels \cup {"clear"}, ~Clear(p)
  PROVE  pc'[p] \in WaitLabels \cup {"clear"}
<1>1. pc \in [Procs -> Labels] /\ crashes \in Nat
  BY SessionAssumption DEF SessionInv, Processes
<1> DEFINE There == WaitLabels \cup {"clear"}
<1>2. \A label \in There : Goto(p, label) => pc'[p] \in There
  BY <1>1 DEF Goto
<1>3. pc[p] \notin {"idle", "send_ack", "enqueue", "wait_ack", "begin", "print", "confirm",
                    "reply_ack", "inspect", "compare", "post"}
  BY DEF WaitLabels
<1>4. {"open", "clear", "check", "sample", "resume_ack", "resume_find", "resume", "poll",
       "forget", "judge", "ask", "note", "record"} \subseteq There
  BY DEF WaitLabels
<1> HIDE DEF There
<1>5. ~(StartSend(p) \/ StartWait(p) \/ StartReply(p) \/ Crash(p) \/ Interrupt(p))
  BY <1>1, <1>3 DEF StartSend, StartReply, Start, StartWait, Crash, Interrupt
<1>6. ~(\/ AckPrior(p, "send_ack", "enqueue") \/ AckPrior(p, "wait_ack", "begin")
        \/ AckPrior(p, "reply_ack", "inspect") \/ Enqueue(p) \/ Begin(p) \/ Show(p)
        \/ Confirm(p) \/ Inspect(p) \/ Compare(p) \/ Post(p))
  BY <1>3 DEF AckPrior, Enqueue, Begin, Show, Confirm, Inspect, Compare, Post
<1>7. Claim(p) \/ Superseded(p) \/ Open(p) \/ Record(p) => pc'[p] \in There
  BY <1>2, <1>4 DEF Claim, Malformed, Superseded, Open, Record
<1>8. Check(p) => pc'[p] \in There
  <2>1. LookForCheck(p) \/ SampleTokens(p) \/ ForgetCheck(p) \/ JudgeCheck(p) \/ AskForCheck(p)
          => pc'[p] \in There
    BY <1>2, <1>4 DEF LookForCheck, SampleTokens, ForgetCheck, JudgeCheck, AskForCheck, Fail
  <2>2. NoteCheck(p) \/ AckBeforeResume(p) \/ FindCheck(p) \/ ResumeCheck(p)
          => pc'[p] \in There
    BY <1>2, <1>4 DEF NoteCheck, AckBeforeResume, FindCheck, ResumeCheck, Fail
  <2>3. QED
    BY <2>1, <2>2 DEF Check, CheckStep
<1>9. QED
  BY <1>5, <1>6, <1>7, <1>8, OthersStay DEF Step, There, Rests

LEMMA CrashesCount ==
  ASSUME [SessionNext]_vars
  PROVE  crashes' = crashes \/ crashes' = crashes + 1
<1>1. \A p \in Procs : \A from, to : AckPrior(p, from, to) => UNCHANGED crashes
  BY DEF AckPrior, Quiet
<1>2. ASSUME NEW p \in Procs
      PROVE  /\ Enqueue(p) \/ Begin(p) \/ Claim(p) \/ Superseded(p) \/ Open(p) \/ Record(p)
                  => UNCHANGED crashes
             /\ Clear(p) \/ Show(p) \/ Confirm(p) \/ Inspect(p) \/ Compare(p) \/ Post(p)
                  => UNCHANGED crashes
             /\ Check(p) => UNCHANGED crashes
  BY DEF Enqueue, Begin, Claim, Superseded, Open, Record, Clear, Show, Confirm, Inspect,
         Compare, Post, Check, Quiet, sessionVars
<1>3. ASSUME NEW p \in Procs, Step(p) PROVE UNCHANGED crashes
  BY <1>1, <1>2, <1>3 DEF Step
<1>4. ASSUME NEW p \in Procs
      PROVE  Join(p) \/ Leave(p) \/ StartSend(p) \/ StartReply(p) \/ StartWait(p)
               => UNCHANGED crashes
  BY DEF Join, Leave, StartSend, StartReply, Start, StartWait, Quiet
<1>5. ASSUME NEW p \in Procs PROVE Crash(p) \/ Interrupt(p) => crashes' = crashes + 1
  BY DEF Crash, Interrupt
<1>6. \A f \in Files, c \in Contents : Edit(f, c) => UNCHANGED crashes
  BY DEF Edit
<1>7. \A m \in DOMAIN messages : Expire(m) \/ Damage(m) => UNCHANGED crashes
  BY DEF Expire, Damage, sessionVars
<1>8. UNCHANGED vars => UNCHANGED crashes
  BY DEF vars, sessionVars
<1>9. QED
  BY <1>3, <1>4, <1>5, <1>6, <1>7, <1>8 DEF SessionNext

LEMMA WaiterStep ==
  ASSUME SessionInv, WaiterIsWaiting, [SessionNext]_vars
  PROVE  WaiterIsWaiting'
<1>1. crashes \in Nat /\ (crashes' = crashes \/ crashes' = crashes + 1)
  <2>1. crashes \in Nat
    BY SessionAssumption DEF SessionInv, Processes
  <2>2. QED
    BY <2>1, CrashesCount
<1>2. SUFFICES ASSUME crashes' = 0, NEW p \in Procs, members'[me(p)].waiter = p
               PROVE  /\ pc'[p] \in WaitLabels \cup {"clear"}
                      /\ members'[me(p)].session = mine(p)
  BY DEF WaiterIsWaiting, me, mine
<1>3. crashes = 0 /\ crashes' = crashes
  BY <1>1, <1>2
<1>4. CASE members'[me(p)] = members[me(p)]
  <2>1. pc[p] \in WaitLabels \cup {"clear"} /\ members[me(p)].session = mine(p)
    BY <1>2, <1>3, <1>4 DEF WaiterIsWaiting
  <2>2. ~Clear(p)
    <3>1. SUFFICES ASSUME Clear(p) PROVE FALSE
      OBVIOUS
    <3>2. /\ me(p) \in Agents /\ members \in [Agents -> MemberRows]
          /\ members[me(p)] \in MemberRows
      BY WhoseProcess DEF SessionInv, StoreInv, TypeOK
    <3>3. members' = [members EXCEPT ![me(p)].waiter = NoWaiter]
      BY <1>2, <1>4, <2>1, <3>1 DEF Clear, ClearWaiter
    <3>4. members'[me(p)].waiter = NoWaiter
      BY <3>2, <3>3 DEF MemberRows
    <3>5. QED
      BY <1>2, <3>4, ProcessIsNotNull
  <2>3. QED
    BY <1>3, <1>4, <2>1, <2>2, WaitEndsByClear
<1>5. CASE members'[me(p)] # members[me(p)]
  <2>1. PICK q \in Procs : Join(q) \/ Leave(q) \/ Begin(q) \/ Clear(q)
    BY <1>5, RowsMoveBy
  <2>2. Begin(q) /\ me(q) = me(p) /\ q = p /\ IsCurrentWaiter(me(q), mine(q), q)'
    BY <1>2, <1>5, <2>1, RowAfter, ProcessIsNotNull
  <2>3. members'[me(p)].session = mine(p)
    BY <2>2 DEF IsCurrentWaiter, IsJoinedAs
  <2>4. Goto(p, "claim")
    <3>1. ~UNCHANGED storeVars
      BY <1>5 DEF storeVars
    <3>2. QED
      BY <2>2, <3>1 DEF Begin
  <2>5. pc'[p] = "claim"
    BY <2>4 DEF Goto, SessionInv, Processes
  <2>6. QED
    BY <2>3, <2>5 DEF WaitLabels
<1>6. QED
  BY <1>4, <1>5

\* While nothing is killed, a member row names a waiter only as long as that
\* wait runs (service.py wait, its finally clause).
THEOREM RegisteredIsWaiting == SessionSpec => []WaiterIsWaiting
<1>1. SessionInit => WaiterIsWaiting
  <2>1. SUFFICES ASSUME SessionInit PROVE WaiterIsWaiting
    OBVIOUS
  <2>2. \A p \in Procs : members[me(p)].waiter = NoWaiter
    BY <2>1, WhoseProcess DEF SessionInit, Init
  <2>3. QED
    BY <2>2, ProcessIsNotNull DEF WaiterIsWaiting
<1>2. SessionInv /\ WaiterIsWaiting /\ [SessionNext]_vars => WaiterIsWaiting'
  BY WaiterStep
<1>3. QED
  BY <1>1, <1>2, AlwaysWithin, PTL DEF SessionSpec
=============================================================================
