---------------------------- MODULE DeliveryProofs ----------------------------
(***************************************************************************)
(* What a session is shown and what it answers: a request is shown once    *)
(* its answer can be judged, a reply is acknowledged once it is read, a    *)
(* round is judged against the first baseline captured for it, no reply    *)
(* precedes the delivery of its task, and a compaction counts as granted   *)
(* once the check on record was answered so.                               *)
(*                                                                         *)
(* A delivery passes through several transactions of its process.  Rows    *)
(* keep their columns, rounds only go up and baselines stay (RowsKept), so *)
(* what was true of a delivery when its process read it (Carries, InHand)  *)
(* is still true when it goes on, whatever the others did meanwhile.       *)
(***************************************************************************)
EXTENDS SessionProofs

\* What a row says, apart from who has it.
SameRow(row, old) ==
    /\ row.task = old.task /\ row.round = old.round /\ row.type = old.type
    /\ row.recipient = old.recipient /\ row.outcome = old.outcome

\* What no transaction takes back.
RowsKept ==
    /\ \A m \in DOMAIN messages :
          /\ m \in DOMAIN messages'
          /\ messages'[m].task = messages[m].task
          /\ messages'[m].round = messages[m].round
          /\ messages'[m].type = messages[m].type
          /\ messages'[m].recipient = messages[m].recipient
          /\ messages'[m].outcome = messages[m].outcome
    /\ \A t \in DOMAIN tasks :
          /\ t \in DOMAIN tasks'
          /\ tasks'[t].req.sender = tasks[t].req.sender
          /\ tasks'[t].req.recipient = tasks[t].req.recipient
          /\ tasks'[t].req.kind = tasks[t].req.kind
          /\ tasks'[t].req.key = tasks[t].req.key
          /\ tasks'[t].req.tokens = tasks[t].req.tokens
    /\ quarantined \subseteq quarantined' /\ baselines \subseteq baselines'

\* A row of the current round of its task, for the agent it concerns.
IsPosted(row, ts) ==
    /\ row.task \in DOMAIN ts /\ row.round = ts[row.task].round
    /\ \/ row.type = "request" /\ row.recipient = ts[row.task].req.recipient
       \/ row.type = "reply" /\ row.recipient = ts[row.task].req.sender

\* What a transaction posts.
RowsPosted ==
    \A m \in DOMAIN messages' \ DOMAIN messages : IsPosted(messages'[m], tasks')

-----------------------------------------------------------------------------
(* The transactions.                                                       *)

LEMMA ActivationKeepsRows ==
  ASSUME NEW ts \in Seq(TaskRows), NEW ms \in Seq(MessageRows), ActivateNext(ts, ms)
  PROVE  /\ DOMAIN tasks' = DOMAIN ts /\ DOMAIN ms \subseteq DOMAIN messages'
         /\ \A t \in DOMAIN ts : tasks'[t].req = ts[t].req /\ tasks'[t].round = ts[t].round
         /\ \A m \in DOMAIN ms : messages'[m] = ms[m]
         /\ \A m \in DOMAIN messages' \ DOMAIN ms :
               messages'[m].type = "request" /\ IsPosted(messages'[m], tasks')
<1> DEFINE queued == InState(ts, {"queued"})
           t == First(queued)
           row == RequestRow(ts[t], t)
<1>1. CASE IsIdle(ts) /\ queued # {}
  <2>1. tasks' = [ts EXCEPT ![t].state = "working"] /\ messages' = Append(ms, row)
    BY <1>1 DEF ActivateNext
  <2>2. t \in DOMAIN ts
    <3>1. queued \subseteq Nat
      BY DEF InState
    <3>2. QED
      BY <3>1, <1>1, FirstIsLeast DEF InState
  <2>3. row \in MessageRows
    BY <2>2, TaskColumns, TaskTypes
  <2>4. /\ row.task = t /\ row.round = ts[t].round /\ row.type = "request"
        /\ row.recipient = ts[t].req.recipient
    BY DEF RequestRow
  <2> HIDE DEF t, row
  <2>5. /\ DOMAIN messages' = DOMAIN ms \cup {Len(ms) + 1}
        /\ messages'[Len(ms) + 1] = row /\ \A m \in DOMAIN ms : messages'[m] = ms[m]
    BY <2>1, <2>3, MessageColumns, AppendProperties
  <2>6. \A u \in DOMAIN ts : ts[u] \in TaskRows
    BY TaskColumns
  <2>7. /\ DOMAIN tasks' = DOMAIN ts
        /\ \A u \in DOMAIN ts : tasks'[u].req = ts[u].req /\ tasks'[u].round = ts[u].round
    BY <2>1, <2>2, <2>6 DEF TaskRows
  <2>8. QED
    BY <2>2, <2>4, <2>5, <2>7 DEF IsPosted
<1>2. CASE ~(IsIdle(ts) /\ queued # {})
  BY <1>2 DEF ActivateNext
<1>3. QED
  BY <1>1, <1>2

\* A transaction that may free or give the advisor work is a change of one task,
\* perhaps a new row, and then _activate_next.
LEMMA QuarantineActivates ==
  ASSUME TypeOK, QueueInv, NEW a, NEW s, NEW w, QuarantineMessage(a, s, w)
  PROVE  \E ts \in Seq(TaskRows) :
            /\ DOMAIN ts = DOMAIN tasks
            /\ \A t \in DOMAIN tasks : ts[t].req = tasks[t].req /\ ts[t].round = tasks[t].round
            /\ ActivateNext(ts, messages)
<1> DEFINE m == First(Claimable(a))
           ts == [tasks EXCEPT ![messages[m].task].state = "blocked"]
<1>1. m \in DOMAIN messages /\ ActivateNext(ts, messages)
  BY FirstClaimable DEF QuarantineMessage, Rows
<1> HIDE DEF m
<1>2. messages[m].task \in DOMAIN tasks
  BY <1>1 DEF QueueInv, RowsOfStartedTasks
<1>3. [tasks[messages[m].task] EXCEPT !.state = "blocked"] \in TaskRows
  BY <1>2, RowsAreTyped DEF TaskRows, TaskStates, TerminalStates
<1>4. ts \in Seq(TaskRows) /\ DOMAIN ts = DOMAIN tasks
  BY <1>2, <1>3, TaskUpdated
<1>5. \A t \in DOMAIN tasks : ts[t].req = tasks[t].req /\ ts[t].round = tasks[t].round
  BY <1>2, RowsAreTyped DEF TaskRows
<1> HIDE DEF ts
<1>6. QED
  BY <1>1, <1>4, <1>5

LEMMA EnqueueActivates ==
  ASSUME TypeOK, NEW r \in Requests, EnqueueTask(r)
  PROVE  \E ts \in Seq(TaskRows) :
            /\ DOMAIN ts = DOMAIN tasks \cup {Len(tasks) + 1}
            /\ \A t \in DOMAIN tasks : ts[t] = tasks[t]
            /\ ts[Len(tasks) + 1].req = r /\ ts[Len(tasks) + 1].round = 1
            /\ ActivateNext(ts, messages)
<1> DEFINE task == [req |-> r, state |-> "queued", round |-> 1]
           ts == Append(tasks, task)
<1>1. task \in TaskRows /\ task.req = r /\ task.round = 1
  BY DEF TaskRows, TaskStates, Requests
<1>2. ActivateNext(ts, messages)
  BY DEF EnqueueTask
<1> HIDE DEF task
<1>3. /\ ts \in Seq(TaskRows) /\ DOMAIN ts = DOMAIN tasks \cup {Len(tasks) + 1}
      /\ ts[Len(tasks) + 1] = task /\ \A t \in DOMAIN tasks : ts[t] = tasks[t]
  BY <1>1, TaskColumns, AppendProperties DEF TypeOK
<1> HIDE DEF ts
<1>4. QED
  BY <1>1, <1>2, <1>3

\* The tables between the two steps of a reply.
Replied(t, o, b, ts, ms) ==
    /\ DOMAIN ts = DOMAIN tasks
    /\ \A u \in DOMAIN tasks : ts[u].req = tasks[u].req /\ ts[u].round = tasks[u].round
    /\ DOMAIN ms = DOMAIN messages \cup {Len(messages) + 1}
    /\ ms[Len(messages) + 1] = ReplyRow(t, o, b)
    /\ \A m \in DOMAIN messages :
          \/ ms[m] = messages[m]
          \/ messages[m].type = "request" /\ ms[m] = Acked(messages[m])
    /\ ActivateNext(ts, ms) \/ (tasks' = ts /\ messages' = ms)

LEMMA ReplyActivates ==
  ASSUME TypeOK, NEW t, NEW a, NEW o \in Outcomes, NEW b \in Bodies, Reply(t, a, o, b)
  PROVE  \E ts \in Seq(TaskRows), ms \in Seq(MessageRows) : Replied(t, o, b, ts, ms)
<1> DEFINE ts == [tasks EXCEPT ![t].state = StateAfter(o)]
           row == ReplyRow(t, o, b)
           q == First(RequestRows(t, tasks[t].round))
           ms == Append(Answered(t), row)
<1>0. /\ \A m \in DOMAIN messages : messages[m] \in MessageRows
      /\ \A u \in DOMAIN tasks : u \in Nat /\ tasks[u] \in TaskRows
  BY RowsAreTyped
<1>1. /\ MayReply(t, a)
      /\ ActivateNext(ts, ms) \/ (tasks' = ts /\ messages' = ms)
  BY DEF Reply
<1>2. RequestRows(t, tasks[t].round) # {} /\ t \in DOMAIN tasks
  BY <1>1 DEF MayReply
<1>3. q \in DOMAIN messages /\ messages[q].type = "request"
  BY <1>2, FirstRequest DEF RequestRows, Rows
<1>4. /\ Answered(t) \in Seq(MessageRows) /\ DOMAIN Answered(t) = DOMAIN messages
      /\ \A m \in DOMAIN messages :
            \/ Answered(t)[m] = messages[m]
            \/ messages[m].type = "request" /\ Answered(t)[m] = Acked(messages[m])
  <2>1. Answered(t) \in Seq(MessageRows) /\ DOMAIN Answered(t) = DOMAIN messages
    BY <1>2, AnsweredTypes
  <2>2. Answered(t) = [messages EXCEPT ![q] = Acked(messages[q])]
    BY DEF Answered
  <2> HIDE DEF q
  <2>3. QED
    BY <1>3, <2>1, <2>2
<1>5. row \in MessageRows
  BY <1>0, <1>2 DEF ReplyRow, MessageRows, TaskRows, RequestColumns
<1>6. /\ ts \in Seq(TaskRows) /\ DOMAIN ts = DOMAIN tasks
      /\ \A u \in DOMAIN tasks : ts[u].req = tasks[u].req /\ ts[u].round = tasks[u].round
  <2>1. StateAfter(o) \in TaskStates
    BY DEF StateAfter, TaskStates, ActiveStates, TerminalStates, Outcomes, TerminalOutcomes
  <2>2. [tasks[t] EXCEPT !.state = StateAfter(o)] \in TaskRows
    BY <1>0, <1>2, <2>1, TaskTypes
  <2>3. ts \in Seq(TaskRows) /\ DOMAIN ts = DOMAIN tasks
    BY <2>2, TaskUpdated
  <2>4. QED
    BY <1>0, <2>3 DEF TaskRows
<1> HIDE DEF row, q
<1>7. /\ ms \in Seq(MessageRows) /\ DOMAIN ms = DOMAIN messages \cup {Len(messages) + 1}
      /\ ms[Len(messages) + 1] = row
      /\ \A m \in DOMAIN messages : ms[m] = Answered(t)[m]
  <2>1. Len(Answered(t)) = Len(messages)
    BY <1>4, MessageColumns DEF TypeOK
  <2> HIDE DEF Answered
  <2>2. QED
    BY <1>4, <1>5, <2>1, MessageColumns, AppendProperties
<1> HIDE DEF ts, ms
<1>8. QED
  BY <1>1, <1>4, <1>6, <1>7 DEF Replied, row

LEMMA RowsMove ==
  ASSUME NEW row \in MessageRows
  PROVE  /\ SameRow(row, row) /\ SameRow(Acked(row), row) /\ SameRow(Expired(row), row)
         /\ \A s \in Sessions : SameRow(Leased(row, s), row)
         /\ \A how \in {"payload", "recipient"} : SameRow([row EXCEPT !.damage = how], row)
BY DEF SameRow, Acked, Expired, Leased, MessageRows

LEMMA StoreKeepsRows ==
  ASSUME TypeOK, QueueInv, [Next]_storeVars
  PROVE  RowsKept /\ RowsPosted
<1> DEFINE Goal == RowsKept /\ RowsPosted
<1>0. /\ \A m \in DOMAIN messages : messages[m] \in MessageRows
      /\ \A t \in DOMAIN tasks : tasks[t] \in TaskRows /\ tasks[t].req \in RequestColumns
      /\ tasks \in Seq(TaskRows) /\ messages \in Seq(MessageRows)
  BY RowsAreTyped DEF TypeOK, TaskRows
<1>1. ASSUME UNCHANGED tasks, quarantined \subseteq quarantined', baselines \subseteq baselines',
             DOMAIN messages' = DOMAIN messages,
             \A m \in DOMAIN messages : \/ messages'[m] = messages[m]
                                        \/ messages'[m] = Acked(messages[m])
                                        \/ messages'[m] = Expired(messages[m])
                                        \/ \E s \in Sessions : messages'[m] = Leased(messages[m], s)
                                        \/ \E how \in {"payload", "recipient"} :
                                              messages'[m] = [messages[m] EXCEPT !.damage = how]
      PROVE  Goal
  <2>1. \A m \in DOMAIN messages : SameRow(messages'[m], messages[m])
    <3>1. SUFFICES ASSUME NEW m \in DOMAIN messages PROVE SameRow(messages'[m], messages[m])
      OBVIOUS
    <3>2. messages[m] \in MessageRows
      BY <1>0
    <3>3. /\ SameRow(messages[m], messages[m]) /\ SameRow(Acked(messages[m]), messages[m])
          /\ SameRow(Expired(messages[m]), messages[m])
          /\ \A s \in Sessions : SameRow(Leased(messages[m], s), messages[m])
          /\ \A how \in {"payload", "recipient"} :
                SameRow([messages[m] EXCEPT !.damage = how], messages[m])
      BY <3>2, RowsMove
    <3>4. QED
      BY <1>1, <3>3
  <2>2. QED
    BY <1>1, <2>1 DEF RowsKept, RowsPosted, SameRow
<1>2. ASSUME NEW a \in Agents, NEW s \in Sessions, NEW w \in Waiters,
             QuarantineMessage(a, s, w)
      PROVE  Goal
  <2>1. UNCHANGED baselines /\ quarantined \subseteq quarantined'
    BY <1>2 DEF QuarantineMessage
  <2>2. PICK ts \in Seq(TaskRows) :
            /\ DOMAIN ts = DOMAIN tasks
            /\ \A t \in DOMAIN tasks : ts[t].req = tasks[t].req /\ ts[t].round = tasks[t].round
            /\ ActivateNext(ts, messages)
    BY <1>2, QuarantineActivates
  <2>3. QED
    BY <1>0, <2>1, <2>2, ActivationKeepsRows DEF RowsKept, RowsPosted
<1>3. ASSUME NEW r \in Requests, EnqueueTask(r) PROVE Goal
  <2>1. UNCHANGED <<quarantined, baselines>>
    BY <1>3 DEF EnqueueTask
  <2>2. PICK ts \in Seq(TaskRows) :
            /\ DOMAIN tasks \subseteq DOMAIN ts
            /\ \A t \in DOMAIN tasks : ts[t] = tasks[t]
            /\ ActivateNext(ts, messages)
    BY <1>3, EnqueueActivates
  <2>3. QED
    BY <1>0, <2>1, <2>2, ActivationKeepsRows DEF RowsKept, RowsPosted
<1>4. ASSUME NEW t \in DOMAIN tasks, NEW a \in Agents, NEW topic \in Topics,
             ResumeContextCheck(t, a, topic)
      PROVE  Goal
  <2> DEFINE task == Reopened(tasks[t], topic)
             row == RequestRow(task, t)
  <2>1. /\ task.req.sender = tasks[t].req.sender /\ task.req.recipient = tasks[t].req.recipient
        /\ task.req.kind = tasks[t].req.kind /\ task.req.key = tasks[t].req.key
        /\ task.req.tokens = tasks[t].req.tokens
        /\ row.task = t /\ row.round = task.round /\ row.type = "request"
        /\ row.recipient = task.req.recipient
    BY <1>0 DEF Reopened, RequestRow, RequestColumns
  <2>2. row \in MessageRows
    BY <1>0, TaskColumns, TaskTypes
  <2>3. tasks' = [tasks EXCEPT ![t] = task] /\ messages' = Append(messages, row)
        /\ UNCHANGED <<quarantined, baselines>>
    BY <1>4 DEF ResumeContextCheck
  <2> HIDE DEF row, task
  <2>4. /\ DOMAIN messages' = DOMAIN messages \cup {Len(messages) + 1}
        /\ messages'[Len(messages) + 1] = row
        /\ \A m \in DOMAIN messages : messages'[m] = messages[m]
    BY <1>0, <2>2, <2>3, MessageColumns, AppendProperties
  <2>5. DOMAIN tasks' = DOMAIN tasks /\ tasks'[t] = task
        /\ \A u \in DOMAIN tasks \ {t} : tasks'[u] = tasks[u]
    BY <1>0, <2>3
  <2>6. RowsKept
    BY <2>1, <2>3, <2>4, <2>5 DEF RowsKept
  <2>7. RowsPosted
    BY <2>1, <2>4, <2>5 DEF RowsPosted, IsPosted
  <2>8. QED
    BY <2>6, <2>7
<1>5. ASSUME NEW t \in DOMAIN tasks, NEW a \in Agents, NEW o \in Outcomes,
             NEW b \in Bodies, Reply(t, a, o, b)
      PROVE  Goal
  <2> DEFINE row == ReplyRow(t, o, b)
             last == Len(messages) + 1
  <2>1. UNCHANGED <<quarantined, baselines>>
    BY <1>5 DEF Reply
  <2>2. PICK ts \in Seq(TaskRows), ms \in Seq(MessageRows) : Replied(t, o, b, ts, ms)
    BY <1>5, ReplyActivates
  <2>3. /\ row.task = t /\ row.round = tasks[t].round /\ row.type = "reply"
        /\ row.recipient = tasks[t].req.sender
    BY DEF ReplyRow
  <2> HIDE DEF row, last
  <2>4. \A m \in DOMAIN messages : SameRow(ms[m], messages[m])
    BY <1>0, <2>2, RowsMove DEF SameRow, Replied
  <2>5. /\ DOMAIN tasks' = DOMAIN ts /\ DOMAIN ms \subseteq DOMAIN messages'
        /\ \A u \in DOMAIN ts : tasks'[u].req = ts[u].req /\ tasks'[u].round = ts[u].round
        /\ \A m \in DOMAIN ms : messages'[m] = ms[m]
        /\ \A m \in DOMAIN messages' \ DOMAIN ms : IsPosted(messages'[m], tasks')
    BY <2>2, ActivationKeepsRows DEF Replied
  <2>6. RowsKept
    BY <2>1, <2>2, <2>4, <2>5 DEF RowsKept, Replied, SameRow
  <2>7. RowsPosted
    BY <2>2, <2>3, <2>5 DEF RowsPosted, IsPosted, Replied, row, last
  <2>8. QED
    BY <2>6, <2>7
<1>6. ASSUME UNCHANGED <<tasks, messages, quarantined>>, baselines \subseteq baselines' PROVE Goal
  BY <1>6 DEF RowsKept, RowsPosted
<1>7. ASSUME NEW a \in Agents, NEW s \in Sessions, AcknowledgeReplies(a, s) PROVE Goal
  BY <1>7, <1>1 DEF AcknowledgeReplies
<1>8. ASSUME NEW a \in Agents, NEW s \in Sessions, NEW w \in Waiters, ClaimMessage(a, s, w)
      PROVE  Goal
  <2> DEFINE m == First(Claimable(a))
  <2>1. messages' = [messages EXCEPT ![m] = Leased(messages[m], s)]
        /\ UNCHANGED <<tasks, quarantined, baselines>>
    BY <1>8 DEF ClaimMessage
  <2> HIDE DEF m
  <2>2. QED
    BY <1>0, <1>1, <2>1
<1>9. ASSUME NEW m \in DOMAIN messages,
             LeaseExpires(m) \/ \E how \in {"payload", "recipient"} : DamageRow(m, how)
      PROVE  Goal
  BY <1>0, <1>1, <1>9 DEF LeaseExpires, DamageRow
<1> HIDE DEF Goal
<1>10. ASSUME NEW a \in Agents, NEW s \in Sessions,
              \/ JoinMember(a, s) \/ LeaveMember(a, s)
              \/ \E w \in Waiters : BeginWait(a, s, w) \/ ClearWaiter(a, s, w)
       PROVE  Goal
  BY <1>6, <1>10 DEF JoinMember, LeaveMember, BeginWait, ClearWaiter
<1>11. ASSUME NEW t \in DOMAIN tasks, NEW a \in Agents,
              \/ \E k \in Samples, p \in Prints : RecordContextCheck(a, k, p, t)
              \/ \E f \in Snapshots, r \in 1..MaxRounds : RecordBaseline(t, r, f)
       PROVE  Goal
  BY <1>6, <1>11 DEF RecordContextCheck, RecordBaseline
<1>12. ASSUME NEW a \in Agents, ClearContextCheck(a) PROVE Goal
  BY <1>6, <1>12 DEF ClearContextCheck
<1>13. ASSUME UNCHANGED storeVars PROVE Goal
  <2>1. UNCHANGED <<tasks, messages, quarantined>> /\ baselines \subseteq baselines'
    BY <1>13 DEF storeVars
  <2>2. QED
    BY <1>6, <2>1
<1>14. Goal
  BY <1>2, <1>3, <1>4, <1>5, <1>7, <1>8, <1>9, <1>10, <1>11, <1>12, <1>13 DEF Next
<1>15. QED
  BY <1>14 DEF Goal

-----------------------------------------------------------------------------
(* Baselines.                                                              *)

\* A round has one baseline, and it is a round.
OneBaseline ==
    \A b, c \in baselines :
        b.task = c.task /\ b.round = c.round => b = c

\* Only the capture of a round's first baseline changes the table.
BaselineAdded ==
    \/ UNCHANGED baselines
    \/ \E t \in DOMAIN tasks, f \in Snapshots :
          /\ BaselineOf(t, tasks[t].round) = {}
          /\ baselines' = baselines \cup
                {[task |-> t, round |-> tasks[t].round, files |-> f]}

LEMMA BaselinesMoveBy ==
  ASSUME [Next]_storeVars
  PROVE  BaselineAdded
<1>1. ASSUME NEW t \in DOMAIN tasks, NEW f \in Snapshots, NEW r \in 1..MaxRounds,
             RecordBaseline(t, r, f)
      PROVE  BaselineAdded
  BY <1>1 DEF RecordBaseline, BaselineAdded
<1>2. ASSUME NEW a \in Agents, NEW s \in Sessions
      PROVE  /\ JoinMember(a, s) \/ LeaveMember(a, s) \/ AcknowledgeReplies(a, s)
                  => UNCHANGED baselines
             /\ \A w \in Waiters :
                  BeginWait(a, s, w) \/ ClearWaiter(a, s, w) \/ ClaimMessage(a, s, w)
                     \/ QuarantineMessage(a, s, w) => UNCHANGED baselines
  BY DEF JoinMember, LeaveMember, AcknowledgeReplies, BeginWait, ClearWaiter, ClaimMessage,
         QuarantineMessage
<1>3. \A r \in Requests : EnqueueTask(r) => UNCHANGED baselines
  BY DEF EnqueueTask
<1>4. ASSUME NEW t \in DOMAIN tasks, NEW a \in Agents
      PROVE  /\ \A topic \in Topics : ResumeContextCheck(t, a, topic) => UNCHANGED baselines
             /\ \A o \in Outcomes, b \in Bodies : Reply(t, a, o, b) => UNCHANGED baselines
             /\ \A k \in Samples, p \in Prints :
                   RecordContextCheck(a, k, p, t) => UNCHANGED baselines
  BY DEF ResumeContextCheck, Reply, RecordContextCheck
<1>5. \A a \in Agents : ClearContextCheck(a) => UNCHANGED baselines
  BY DEF ClearContextCheck
<1>6. ASSUME NEW m \in DOMAIN messages
      PROVE  /\ LeaseExpires(m) => UNCHANGED baselines
             /\ \A how \in {"payload", "recipient"} : DamageRow(m, how) => UNCHANGED baselines
  BY DEF LeaseExpires, DamageRow
<1>7. UNCHANGED storeVars => UNCHANGED baselines
  BY DEF storeVars
<1>8. UNCHANGED baselines => BaselineAdded
  BY DEF BaselineAdded
<1>9. QED
  BY <1>1, <1>2, <1>3, <1>4, <1>5, <1>6, <1>7, <1>8 DEF Next

LEMMA BaselinesStay == OneBaseline /\ BaselineAdded => OneBaseline'
BY DEF OneBaseline, BaselineAdded, BaselineOf

\* The first baseline of a round is the one its reply is judged against,
\* whoever captures one again (storage.py record_workspace_baseline).
THEOREM FirstBaselinesStand == Spec => FirstBaselineStands
<1> DEFINE Stands(b) == {c \in baselines' : c.task = b.task /\ c.round = b.round} = {b}
<1>1. Init => OneBaseline
  BY DEF Init, OneBaseline
<1>2. OneBaseline /\ [Next]_storeVars => OneBaseline'
  BY BaselinesMoveBy, BaselinesStay
<1>3. ASSUME OneBaseline, [Next]_storeVars, NEW b \in baselines PROVE Stands(b)
  <2>1. OneBaseline' /\ b \in baselines'
    BY <1>2, <1>3, BaselinesMoveBy DEF BaselineAdded
  <2>2. QED
    BY <2>1 DEF OneBaseline
<1>4. OneBaseline /\ [Next]_storeVars => [\A b \in baselines : Stands(b)]_storeVars
  BY <1>3
<1> HIDE DEF Stands
<1>5. QED
  BY <1>1, <1>2, <1>4, PTL DEF Spec, FirstBaselineStands, Stands

\* What RoomStore promises of baselines and of the line, the commands keep.
THEOREM CommandsKeepBaselines == SessionSpec => FirstBaselineStands
BY CommandsRefineStore, FirstBaselinesStand, PTL

\* The sessions' commands implement the advisor queue: through the store, which
\* they refine, and which refines it.
THEOREM CommandsServeTheLine == SessionSpec => ServesTheLine
BY CommandsRefineStore, RoomServesTheLine, PTL

-----------------------------------------------------------------------------
(* Granted compactions.                                                    *)

LEMMA GrantsStep ==
  ASSUME TypeOK, QueueInv, [Next]_storeVars, GrantedIsReplied
  PROVE  GrantedIsReplied'
<1>0. RowsKept /\ checks \in [Agents -> CheckRows]
  BY StoreKeepsRows DEF TypeOK
<1>1. ASSUME \A a \in Agents : checks'[a].awaiting =>
                checks[a].awaiting /\ checks'[a].task = checks[a].task
      PROVE  GrantedIsReplied'
  BY <1>0, <1>1 DEF GrantedIsReplied, RowsKept
<1>2. ASSUME UNCHANGED checks PROVE GrantedIsReplied'
  BY <1>1, <1>2
<1>3. ASSUME NEW t \in DOMAIN tasks, NEW a \in Agents, NEW o \in Outcomes,
             NEW b \in Bodies, Reply(t, a, o, b)
      PROVE  GrantedIsReplied'
  <2>1. PICK ts \in Seq(TaskRows), ms \in Seq(MessageRows) : Replied(t, o, b, ts, ms)
    BY <1>3, ReplyActivates
  <2> DEFINE last == Len(messages) + 1
  <2>2. last \in DOMAIN messages' /\ messages'[last] = ReplyRow(t, o, b)
    BY <2>1, ActivationKeepsRows DEF Replied
  <2>3. /\ ReplyRow(t, o, b).task = t /\ ReplyRow(t, o, b).type = "reply"
        /\ ReplyRow(t, o, b).outcome = o
    BY DEF ReplyRow
  <2> HIDE DEF last
  <2>4. ASSUME NEW c \in Agents, checks'[c].awaiting
        PROVE  \E m \in DOMAIN messages' :
                  /\ messages'[m].task = checks'[c].task /\ messages'[m].type = "reply"
                  /\ messages'[m].outcome = "compact_ready"
    <3>1. CASE checks'[c] = checks[c]
      BY <1>0, <2>4, <3>1 DEF GrantedIsReplied, RowsKept
    <3>2. CASE checks'[c] # checks[c]
      <4>1. o = "compact_ready" /\ checks[c].task = t
            /\ checks'[c] = [checks[c] EXCEPT !.awaiting = TRUE]
        BY <1>3, <3>2 DEF Reply, IsCheckOnRecord
      <4>2. checks'[c].task = t
        BY <1>0, <4>1 DEF CheckRows
      <4>3. QED
        BY <2>2, <2>3, <4>1, <4>2
    <3>3. QED
      BY <3>1, <3>2
  <2>5. QED
    BY <2>4 DEF GrantedIsReplied
<1>4. ASSUME NEW t \in DOMAIN tasks, NEW a \in Agents,
             \/ \E k \in Samples, p \in Prints : RecordContextCheck(a, k, p, t)
             \/ ClearContextCheck(a)
      PROVE  GrantedIsReplied'
  BY <1>0, <1>1, <1>4 DEF RecordContextCheck, ClearContextCheck, NoCheck
<1>5. ASSUME NEW a \in Agents, ClearContextCheck(a) PROVE GrantedIsReplied'
  BY <1>0, <1>1, <1>5 DEF ClearContextCheck, NoCheck
<1>6. ASSUME NEW a \in Agents, NEW s \in Sessions,
             \/ JoinMember(a, s) \/ LeaveMember(a, s) \/ AcknowledgeReplies(a, s)
             \/ \E w \in Waiters : \/ BeginWait(a, s, w) \/ ClearWaiter(a, s, w)
                                   \/ ClaimMessage(a, s, w) \/ QuarantineMessage(a, s, w)
      PROVE  GrantedIsReplied'
  BY <1>2, <1>6 DEF JoinMember, LeaveMember, AcknowledgeReplies, BeginWait, ClearWaiter,
                    ClaimMessage, QuarantineMessage
<1>7. ASSUME NEW r \in Requests, EnqueueTask(r) PROVE GrantedIsReplied'
  BY <1>2, <1>7 DEF EnqueueTask
<1>8. ASSUME NEW t \in DOMAIN tasks, NEW a \in Agents,
             \/ \E topic \in Topics : ResumeContextCheck(t, a, topic)
             \/ \E f \in Snapshots, r \in 1..MaxRounds : RecordBaseline(t, r, f)
      PROVE  GrantedIsReplied'
  BY <1>2, <1>8 DEF ResumeContextCheck, RecordBaseline
<1>9. ASSUME NEW m \in DOMAIN messages,
             LeaseExpires(m) \/ \E how \in {"payload", "recipient"} : DamageRow(m, how)
      PROVE  GrantedIsReplied'
  BY <1>2, <1>9 DEF LeaseExpires, DamageRow
<1>10. UNCHANGED storeVars => GrantedIsReplied'
  BY <1>2 DEF storeVars
<1>11. QED
  BY <1>3, <1>4, <1>5, <1>6, <1>7, <1>8, <1>9, <1>10 DEF Next

\* Whoever uses the store: a check on record is noted as granted by the very
\* reply COMPACT_READY to it (storage.py reply, record_context_check), never by
\* the grant of a check it replaced.
THEOREM GrantsAreReplied == Spec => []GrantedIsReplied
<1>1. Init => GrantedIsReplied
  BY DEF Init, GrantedIsReplied, NoCheck
<1>2. TypeOK /\ QueueInv /\ GrantedIsReplied /\ [Next]_storeVars => GrantedIsReplied'
  BY GrantsStep
<1>3. QED
  BY <1>1, <1>2, AlwaysRounds, PTL DEF Spec

\* The commands of the sessions note no other grant.
THEOREM CommandsNoteGrants == SessionSpec => []GrantedIsReplied
BY CommandsRefineStore, GrantsAreReplied, PTL

-----------------------------------------------------------------------------
(* Who a row is for.                                                       *)

\* A row is of a round, for the agent it concerns: no agent is handed its own
\* question, or the answer to another's.
Addressed ==
    /\ \A t \in DOMAIN tasks : tasks[t].req.sender # tasks[t].req.recipient
    /\ \A m \in DOMAIN messages :
          /\ messages[m].task \in DOMAIN tasks /\ messages[m].round >= 1
          /\ messages[m].recipient = IF messages[m].type = "request"
                                     THEN tasks[messages[m].task].req.recipient
                                     ELSE tasks[messages[m].task].req.sender
    /\ \A b \in baselines : b.round >= 1

\* A task is new only by a send, which never asks one's own agent.
LEMMA TasksAddedAreRequests ==
  ASSUME TypeOK, QueueInv, [Next]_storeVars, NEW t \in DOMAIN tasks' \ DOMAIN tasks
  PROVE  tasks'[t].req \in Requests /\ tasks'[t].round = 1
<1>1. PICK r \in Requests : EnqueueTask(r)
  <2>1. ASSUME DOMAIN tasks' = DOMAIN tasks PROVE FALSE
    BY <2>1
  <2>2. ASSUME NEW a \in Agents, NEW s \in Sessions
        PROVE  /\ JoinMember(a, s) \/ LeaveMember(a, s) \/ AcknowledgeReplies(a, s)
                    => UNCHANGED tasks
               /\ \A w \in Waiters :
                    BeginWait(a, s, w) \/ ClearWaiter(a, s, w) \/ ClaimMessage(a, s, w)
                       => UNCHANGED tasks
    BY DEF JoinMember, LeaveMember, AcknowledgeReplies, BeginWait, ClearWaiter, ClaimMessage
  <2>3. ASSUME NEW a \in Agents, NEW s \in Sessions, NEW w \in Waiters,
               QuarantineMessage(a, s, w)
        PROVE  DOMAIN tasks' = DOMAIN tasks
    BY <2>3, QuarantineActivates, ActivationTypes DEF TypeOK
  <2>4. ASSUME NEW u \in DOMAIN tasks, NEW a \in Agents, NEW o \in Outcomes, NEW b \in Bodies,
               Reply(u, a, o, b)
        PROVE  DOMAIN tasks' = DOMAIN tasks
    <3>1. PICK ts \in Seq(TaskRows), ms \in Seq(MessageRows) : Replied(u, o, b, ts, ms)
      BY <2>4, ReplyActivates
    <3>2. QED
      BY <3>1, ActivationTypes DEF Replied
  <2>5. ASSUME NEW u \in DOMAIN tasks, NEW a \in Agents
        PROVE  /\ \A topic \in Topics :
                     ResumeContextCheck(u, a, topic) => DOMAIN tasks' = DOMAIN tasks
               /\ \A k \in Samples, p \in Prints :
                     RecordContextCheck(a, k, p, u) => UNCHANGED tasks
               /\ \A f \in Snapshots, r \in 1..MaxRounds :
                     RecordBaseline(u, r, f) => UNCHANGED tasks
    BY DEF ResumeContextCheck, RecordContextCheck, RecordBaseline
  <2>6. \A a \in Agents : ClearContextCheck(a) => UNCHANGED tasks
    BY DEF ClearContextCheck
  <2>7. ASSUME NEW m \in DOMAIN messages
        PROVE  /\ LeaseExpires(m) => UNCHANGED tasks
               /\ \A how \in {"payload", "recipient"} : DamageRow(m, how) => UNCHANGED tasks
    BY DEF LeaseExpires, DamageRow
  <2>8. UNCHANGED storeVars => UNCHANGED tasks
    BY DEF storeVars
  <2>9. QED
    BY <2>1, <2>2, <2>3, <2>4, <2>5, <2>6, <2>7, <2>8 DEF Next
<1>2. PICK ts \in Seq(TaskRows) :
         /\ DOMAIN ts = DOMAIN tasks \cup {Len(tasks) + 1}
         /\ ts[Len(tasks) + 1].req = r /\ ts[Len(tasks) + 1].round = 1
         /\ ActivateNext(ts, messages)
  BY <1>1, EnqueueActivates
<1>3. /\ DOMAIN tasks' = DOMAIN ts
      /\ \A u \in DOMAIN ts : tasks'[u].req = ts[u].req /\ tasks'[u].round = ts[u].round
  BY <1>2, ActivationKeepsRows DEF TypeOK
<1>4. QED
  BY <1>2, <1>3

LEMMA AddressedStep ==
  ASSUME StoreInv, Addressed, [Next]_storeVars
  PROVE  Addressed'
<1>1. /\ RowsKept /\ RowsPosted /\ BaselineAdded /\ StoreInv'
  BY StoreKeepsRows, BaselinesMoveBy, StoreGrows DEF StoreInv
<1>2. \A t \in DOMAIN tasks' : tasks'[t].req.sender # tasks'[t].req.recipient
  <2>1. \A t \in DOMAIN tasks' \ DOMAIN tasks : tasks'[t].req \in Requests
    BY TasksAddedAreRequests DEF StoreInv
  <2>2. QED
    BY <1>1, <2>1 DEF RowsKept, Addressed, Requests
<1>3. \A t \in DOMAIN tasks \cup DOMAIN tasks' :
         /\ t \in DOMAIN tasks => tasks[t].round >= 1
         /\ t \in DOMAIN tasks' => tasks'[t].round >= 1
  BY <1>1 DEF StoreInv, RoundsBounded
<1>4. ASSUME NEW m \in DOMAIN messages'
      PROVE  /\ messages'[m].task \in DOMAIN tasks' /\ messages'[m].round >= 1
             /\ messages'[m].recipient = IF messages'[m].type = "request"
                                         THEN tasks'[messages'[m].task].req.recipient
                                         ELSE tasks'[messages'[m].task].req.sender
  <2>1. CASE m \in DOMAIN messages
    BY <1>1, <2>1 DEF RowsKept, Addressed
  <2>2. CASE m \notin DOMAIN messages
    <3>1. IsPosted(messages'[m], tasks')
      BY <1>1, <2>2 DEF RowsPosted
    <3>2. QED
      BY <1>3, <3>1 DEF IsPosted
  <2>3. QED
    BY <2>1, <2>2
<1>5. \A b \in baselines' : b.round >= 1
  BY <1>1, <1>3 DEF BaselineAdded, Addressed
<1>6. QED
  BY <1>2, <1>4, <1>5 DEF Addressed

-----------------------------------------------------------------------------
(* Rounds, and the replies that move them.                                 *)

\* No reply is posted, claimed or acknowledged by the step.
NoReplyMoves ==
    \A m \in DOMAIN messages' : messages'[m].type = "reply" =>
        /\ m \in DOMAIN messages
        /\ messages'[m].status # "posted" => messages[m].status # "posted"

\* The one reply of its step, to the round its task is in.
RepliesTo(t) ==
    \A m \in DOMAIN messages' : messages'[m].type = "reply" =>
        \/ m \in DOMAIN messages /\ messages'[m].status = messages[m].status
        \/ /\ messages'[m].task = t /\ messages'[m].round = tasks[t].round
           /\ messages'[m].status = "posted"

LEMMA AcknowledgingMovesNoReply ==
  ASSUME TypeOK, NEW a, NEW s, AcknowledgeReplies(a, s)
  PROVE  NoReplyMoves
<1>1. \A m \in DOMAIN messages : messages[m] \in MessageRows
  BY RowsAreTyped
<1>2. \A m \in LeasedReplies(a, s) : messages[m].status = "leased"
  BY DEF LeasedReplies
<1>3. /\ DOMAIN messages' = DOMAIN messages
      /\ \A m \in DOMAIN messages :
            messages'[m] = IF m \in LeasedReplies(a, s) THEN Acked(messages[m]) ELSE messages[m]
  BY DEF AcknowledgeReplies
<1>4. QED
  BY <1>1, <1>2, <1>3 DEF NoReplyMoves, Acked, MessageRows

LEMMA QuarantineMovesNoReply ==
  ASSUME TypeOK, QueueInv, NEW a, NEW s, NEW w, QuarantineMessage(a, s, w)
  PROVE  NoReplyMoves
BY QuarantineActivates, ActivationKeepsRows DEF TypeOK, NoReplyMoves

LEMMA EnqueueMovesNoReply ==
  ASSUME TypeOK, NEW r \in Requests, EnqueueTask(r)
  PROVE  NoReplyMoves
BY EnqueueActivates, ActivationKeepsRows DEF TypeOK, NoReplyMoves

LEMMA ResumeMovesNoReply ==
  ASSUME TypeOK, NEW t \in DOMAIN tasks, NEW a, NEW topic \in Topics,
         ResumeContextCheck(t, a, topic)
  PROVE  NoReplyMoves
<1> DEFINE row == RequestRow(Reopened(tasks[t], topic), t)
<1>1. row \in MessageRows
  BY RowsAreTyped, TaskTypes
<1>2. row.type = "request"
  BY DEF RequestRow
<1>3. messages' = Append(messages, row)
  BY DEF ResumeContextCheck
<1> HIDE DEF row
<1>4. QED
  BY <1>1, <1>2, <1>3, MessageColumns, AppendProperties DEF TypeOK, NoReplyMoves

LEMMA ReplyPostsOne ==
  ASSUME TypeOK, NEW t, NEW a, NEW o \in Outcomes, NEW b \in Bodies, Reply(t, a, o, b)
  PROVE  RepliesTo(t)
<1> DEFINE row == ReplyRow(t, o, b)
           last == Len(messages) + 1
<1>1. PICK ts \in Seq(TaskRows), ms \in Seq(MessageRows) : Replied(t, o, b, ts, ms)
  BY ReplyActivates
<1>2. row.task = t /\ row.round = tasks[t].round /\ row.status = "posted"
  BY DEF ReplyRow
<1>3. \A m \in DOMAIN messages : Acked(messages[m]).type = messages[m].type
  BY RowsAreTyped DEF Acked, MessageRows
<1>4. /\ \A m \in DOMAIN ms : messages'[m] = ms[m]
      /\ \A m \in DOMAIN messages' \ DOMAIN ms : messages'[m].type = "request"
  BY <1>1, ActivationKeepsRows DEF Replied
<1> HIDE DEF row, last
<1>5. QED
  BY <1>1, <1>2, <1>3, <1>4 DEF RepliesTo, Replied, row, last

\* A round begins only when its sender takes up a check that waits.
LEMMA RoundsMoveBy ==
  ASSUME TypeOK, QueueInv, [Next]_storeVars, NEW t \in DOMAIN tasks,
         tasks'[t].round # tasks[t].round
  PROVE  /\ tasks[t].state = "waiting_checkpoint" /\ tasks'[t].round = tasks[t].round + 1
         /\ \E a \in Agents, topic \in Topics : ResumeContextCheck(t, a, topic)
<1>0. /\ \A m \in DOMAIN messages : messages[m] \in MessageRows
      /\ \A u \in DOMAIN tasks : tasks[u] \in TaskRows
  BY RowsAreTyped
<1>1. ASSUME NEW a \in Agents, NEW s \in Sessions
      PROVE  /\ JoinMember(a, s) \/ LeaveMember(a, s) \/ AcknowledgeReplies(a, s)
                  => UNCHANGED tasks
             /\ \A w \in Waiters :
                  BeginWait(a, s, w) \/ ClearWaiter(a, s, w) \/ ClaimMessage(a, s, w)
                     => UNCHANGED tasks
  BY DEF JoinMember, LeaveMember, AcknowledgeReplies, BeginWait, ClearWaiter, ClaimMessage
<1>2. ASSUME NEW a \in Agents, NEW s \in Sessions, NEW w \in Waiters,
             QuarantineMessage(a, s, w)
      PROVE  FALSE
  BY <1>2, QuarantineActivates, ActivationKeepsRows DEF TypeOK
<1>3. ASSUME NEW r \in Requests, EnqueueTask(r) PROVE FALSE
  BY <1>3, EnqueueActivates, ActivationKeepsRows DEF TypeOK
<1>4. ASSUME NEW u \in DOMAIN tasks, NEW a \in Agents, NEW o \in Outcomes, NEW b \in Bodies,
             Reply(u, a, o, b)
      PROVE  FALSE
  <2>1. PICK ts \in Seq(TaskRows), ms \in Seq(MessageRows) : Replied(u, o, b, ts, ms)
    BY <1>4, ReplyActivates
  <2>2. QED
    BY <2>1, ActivationKeepsRows DEF Replied
<1>5. ASSUME NEW u \in DOMAIN tasks, NEW a \in Agents, NEW topic \in Topics,
             ResumeContextCheck(u, a, topic)
      PROVE  /\ u = t /\ tasks[t].state = "waiting_checkpoint"
             /\ tasks'[t].round = tasks[t].round + 1
  BY <1>0, <1>5 DEF ResumeContextCheck, WaitingChecks, Reopened, TaskRows
<1>6. ASSUME NEW u \in DOMAIN tasks, NEW a \in Agents
      PROVE  /\ \A k \in Samples, p \in Prints :
                   RecordContextCheck(a, k, p, u) => UNCHANGED tasks
             /\ \A f \in Snapshots, r \in 1..MaxRounds :
                   RecordBaseline(u, r, f) => UNCHANGED tasks
             /\ ClearContextCheck(a) => UNCHANGED tasks
  BY DEF RecordContextCheck, RecordBaseline, ClearContextCheck
<1>7. \A a \in Agents : ClearContextCheck(a) => UNCHANGED tasks
  BY DEF ClearContextCheck
<1>8. ASSUME NEW m \in DOMAIN messages
      PROVE  /\ LeaseExpires(m) => UNCHANGED tasks
             /\ \A how \in {"payload", "recipient"} : DamageRow(m, how) => UNCHANGED tasks
  BY DEF LeaseExpires, DamageRow
<1>9. ~UNCHANGED tasks
  OBVIOUS
<1>10. UNCHANGED storeVars => UNCHANGED tasks
  BY DEF storeVars
<1>11. PICK u \in DOMAIN tasks, a \in Agents, topic \in Topics : ResumeContextCheck(u, a, topic)
  BY <1>1, <1>2, <1>3, <1>4, <1>6, <1>7, <1>8, <1>9, <1>10 DEF Next
<1>12. QED
  BY <1>5, <1>11

-----------------------------------------------------------------------------
(* What a command's step does to replies and to its own delivery.          *)

\* The reply a process posts.
Posts(p) ==
    /\ Post(p) /\ pc[p] = "post"
    /\ Reply(job[p].task, me(p), OutcomeOf(job[p]), BodyOf(job[p]))

\* The delivery a process takes.
Takes(p) ==
    /\ pc[p] \in {"claim", "poll"} /\ Goto(p, "open")
    /\ ClaimMessage(me(p), mine(p), p)
    /\ job' = [job EXCEPT ![p].msg = First(Claimable(me(p)))]

LEMMA RepliesMoveBy ==
  ASSUME SessionInv, [SessionNext]_vars
  PROVE  NoReplyMoves \/ \E p \in Procs : Takes(p) \/ Posts(p)
<1>0. TypeOK /\ QueueInv
  BY DEF SessionInv, StoreInv
<1>1. UNCHANGED messages => NoReplyMoves
  BY DEF NoReplyMoves
<1>2. UNCHANGED storeVars => NoReplyMoves
  BY <1>1 DEF storeVars
<1>3. ASSUME NEW p \in Procs
      PROVE  /\ AcknowledgeReplies(me(p), mine(p)) => NoReplyMoves
             /\ QuarantineMessage(me(p), mine(p), p) => NoReplyMoves
  BY <1>0, AcknowledgingMovesNoReply, QuarantineMovesNoReply
<1>4. ASSUME NEW p \in Procs
      PROVE  /\ Join(p) \/ Leave(p) => NoReplyMoves
             /\ StartSend(p) \/ StartWait(p) \/ StartReply(p) \/ Crash(p) \/ Interrupt(p)
                  => NoReplyMoves
             /\ Superseded(p) \/ Open(p) \/ Show(p) \/ Inspect(p) \/ Compare(p)
                  => NoReplyMoves
             /\ Begin(p) \/ Record(p) \/ Clear(p) => NoReplyMoves
             /\ \A from, to : AckPrior(p, from, to) => NoReplyMoves
             /\ Confirm(p) => NoReplyMoves
  <2>1. Join(p) \/ Leave(p) => NoReplyMoves
    BY <1>1 DEF Join, JoinMember, Leave, LeaveMember
  <2>2. StartSend(p) \/ StartWait(p) \/ StartReply(p) \/ Crash(p) \/ Interrupt(p)
          => NoReplyMoves
    BY <1>2 DEF StartSend, StartReply, Start, StartWait, Crash, Interrupt
  <2>3. Superseded(p) \/ Open(p) \/ Show(p) \/ Inspect(p) \/ Compare(p) => NoReplyMoves
    BY <1>2 DEF Superseded, Open, Show, Inspect, Compare
  <2>4. Begin(p) \/ Record(p) \/ Clear(p) => NoReplyMoves
    BY <1>1, <1>2 DEF Begin, BeginWait, Record, RecordBaseline, Clear, ClearWaiter
  <2>5. \A from, to : AckPrior(p, from, to) => NoReplyMoves
    BY <1>2, <1>3 DEF AckPrior
  <2>6. Confirm(p) => NoReplyMoves
    BY <1>2, <1>3 DEF Confirm
  <2>7. QED
    BY <2>1, <2>2, <2>3, <2>4, <2>5, <2>6
<1>5. ASSUME NEW p \in Procs, Enqueue(p) PROVE NoReplyMoves
  BY <1>0, <1>2, <1>5, EnqueueMovesNoReply DEF Enqueue, SendRequests
<1>6. ASSUME NEW p \in Procs, Claim(p) PROVE NoReplyMoves \/ Takes(p)
  BY <1>2, <1>3, <1>6 DEF Claim, Malformed, Takes
<1>7. ASSUME NEW p \in Procs, Post(p) PROVE NoReplyMoves \/ Posts(p)
  BY <1>2, <1>7 DEF Post, Posts
<1>8. ASSUME NEW p \in Procs, CheckStep(p) PROVE NoReplyMoves
  <2>1. CtxFits(pc[p], ctx[p], tasks)
    BY DEF SessionInv, Processes
  <2>2. LookForCheck(p) \/ SampleTokens(p) \/ JudgeCheck(p) \/ FindCheck(p) => NoReplyMoves
    BY <1>2 DEF LookForCheck, SampleTokens, JudgeCheck, FindCheck, Fail
  <2>3. ForgetCheck(p) \/ NoteCheck(p) => NoReplyMoves
    BY <1>1 DEF ForgetCheck, ClearContextCheck, NoteCheck, RecordContextCheck
  <2>4. AckBeforeResume(p) => NoReplyMoves
    BY <1>2, <1>3 DEF AckBeforeResume, Fail, mine
  <2>5. CASE AskForCheck(p)
    <3>1. CheckRequest(p) \in Requests
      BY <2>1, <2>5, CheckIsRequest DEF AskForCheck
    <3>2. EnqueueTask(CheckRequest(p)) => NoReplyMoves
      BY <1>0, <3>1, EnqueueMovesNoReply
    <3>3. QED
      BY <1>2, <2>5, <3>2 DEF AskForCheck, Fail
  <2>6. CASE ResumeCheck(p)
    <3> DEFINE t == ctx[p].task
               topic == [docs |-> ctx[p].docs, round |-> ctx[p].round + 1]
    <3>1. ASSUME ResumeContextCheck(t, me(p), topic) PROVE NoReplyMoves
      <4>1. t \in DOMAIN tasks
        BY <3>1 DEF ResumeContextCheck, WaitingChecks
      <4>2. topic \in Topics
        BY <2>1, <2>6, <3>1, ResumedTopic DEF ResumeCheck, SessionInv
      <4> HIDE DEF t, topic
      <4>3. QED
        BY <1>0, <3>1, <4>1, <4>2, ResumeMovesNoReply
    <3>2. QED
      BY <1>2, <2>6, <3>1 DEF ResumeCheck, Fail
  <2>7. QED
    BY <1>8, <2>2, <2>3, <2>4, <2>5, <2>6 DEF CheckStep
<1>9. ASSUME NEW p \in Procs, Step(p) PROVE NoReplyMoves \/ Takes(p) \/ Posts(p)
  BY <1>4, <1>5, <1>6, <1>7, <1>8, <1>9 DEF Step, Check
<1>10. ASSUME NEW m \in DOMAIN messages, Expire(m) \/ Damage(m) PROVE NoReplyMoves
  <2>1. LeaseExpires(m) \/ \E how \in {"payload", "recipient"} : DamageRow(m, how)
    BY <1>10 DEF Expire, Damage
  <2>2. \A n \in DOMAIN messages : messages[n] \in MessageRows
    BY <1>0, RowsAreTyped
  <2>3. QED
    BY <2>1, <2>2 DEF LeaseExpires, DamageRow, Expired, MessageRows, NoReplyMoves
<1>11. ASSUME NEW f \in Files, NEW c \in Contents, Edit(f, c) PROVE NoReplyMoves
  BY <1>2, <1>11 DEF Edit
<1>12. UNCHANGED vars => NoReplyMoves
  BY <1>2 DEF vars
<1>13. QED
  BY <1>4, <1>9, <1>10, <1>11, <1>12 DEF SessionNext

\* Printed is printed.
LEMMA ShownGrows ==
  ASSUME [SessionNext]_vars
  PROVE  shown' = shown \/ \E p \in Procs : Show(p)
<1>1. \A p \in Procs : \A from, to : AckPrior(p, from, to) => UNCHANGED shown
  BY DEF AckPrior, Quiet
<1>2. ASSUME NEW p \in Procs
      PROVE  /\ Enqueue(p) \/ Begin(p) \/ Claim(p) \/ Superseded(p) \/ Open(p) \/ Record(p)
                  => UNCHANGED shown
             /\ Clear(p) \/ Confirm(p) \/ Inspect(p) \/ Compare(p) \/ Post(p)
                  => UNCHANGED shown
             /\ Check(p) => UNCHANGED shown
  BY DEF Enqueue, Begin, Claim, Superseded, Open, Record, Clear, Confirm, Inspect,
         Compare, Post, Check, Quiet, sessionVars
<1>3. ASSUME NEW p \in Procs, Step(p) PROVE UNCHANGED shown \/ Show(p)
  BY <1>1, <1>2, <1>3 DEF Step
<1>4. ASSUME NEW p \in Procs
      PROVE  Join(p) \/ Leave(p) \/ StartSend(p) \/ StartReply(p) \/ StartWait(p)
               \/ Crash(p) \/ Interrupt(p) => UNCHANGED shown
  BY DEF Join, Leave, StartSend, StartReply, Start, StartWait, Quiet, Crash, Interrupt
<1>5. \A f \in Files, c \in Contents : Edit(f, c) => UNCHANGED shown
  BY DEF Edit
<1>6. \A m \in DOMAIN messages : Expire(m) \/ Damage(m) => UNCHANGED shown
  BY DEF Expire, Damage, sessionVars
<1>7. UNCHANGED vars => UNCHANGED shown
  BY DEF vars, sessionVars
<1>8. QED
  BY <1>3, <1>4, <1>5, <1>6, <1>7 DEF SessionNext

-----------------------------------------------------------------------------
(* What a delivery can count on.                                           *)

\* The answer to a request can be judged, or its round is over.
Judgeable(m) ==
    \/ BaselineOf(messages[m].task, messages[m].round) # {}
    \/ tasks[messages[m].task].round > messages[m].round

\* What a process knows of the delivery or the answer it carries.
Carries(p) ==
    LET j == job[p]
    IN  /\ pc[p] \notin {"open", "record", "clear", "print", "confirm"} => j.msg = 0
        /\ pc[p] \in {"open", "record"} =>
              j.msg \in DOMAIN messages /\ messages[j.msg].recipient = me(p)
        /\ pc[p] = "record" =>
              /\ messages[j.msg].type = "request" /\ j.task = messages[j.msg].task
              /\ messages[j.msg].round <= j.round /\ j.round <= tasks[j.task].round
        /\ /\ pc[p] \in {"clear", "print"} /\ j.msg # 0
              /\ messages[j.msg].type = "request"
           => Judgeable(j.msg)
        /\ pc[p] = "confirm" => j.msg \in shown
        /\ pc[p] \in {"compare", "post"} =>
              j.task \in DOMAIN tasks /\ j.round <= tasks[j.task].round
        /\ pc[p] = "post" => BaselineOf(j.task, j.round) # {}

\* The tables and what is shown, after a step of the commands.
LEMMA StepKeepsRows ==
  ASSUME SessionInv, [SessionNext]_vars
  PROVE  /\ [Next]_storeVars /\ RowsKept /\ RowsPosted /\ Grown
         /\ SessionInv' /\ shown \subseteq shown'
<1>1. [Next]_storeVars /\ SessionInv'
  BY CommandsCallTheStore, SessionStep
<1>2. RowsKept /\ RowsPosted /\ Grown
  BY <1>1, StoreKeepsRows, StoreGrows DEF SessionInv, StoreInv
<1>3. shown \subseteq shown'
  BY ShownGrows DEF Show
<1>4. QED
  BY <1>1, <1>2, <1>3

LEMMA BaselinesLast ==
  ASSUME RowsKept, NEW t, NEW r, BaselineOf(t, r) # {}
  PROVE  BaselineOf(t, r)' # {}
BY DEF RowsKept, BaselineOf

LEMMA JudgeableStays ==
  ASSUME SessionInv, Addressed, RowsKept, Grown, NEW m \in DOMAIN messages, Judgeable(m)
  PROVE  Judgeable(m)'
<1>1. /\ messages'[m].task = messages[m].task /\ messages'[m].round = messages[m].round
      /\ messages[m].task \in DOMAIN tasks /\ messages[m].round \in Nat
  BY RowsAreTyped DEF RowsKept, Addressed, SessionInv, StoreInv, MessageRows
<1>2. CASE BaselineOf(messages[m].task, messages[m].round) # {}
  BY <1>1, <1>2 DEF Judgeable, RowsKept, BaselineOf
<1>3. CASE tasks[messages[m].task].round > messages[m].round
  BY <1>1, <1>3 DEF Judgeable, Grown
<1>4. QED
  BY <1>2, <1>3 DEF Judgeable

\* What others do takes nothing of it away.
LEMMA CarriesOn ==
  ASSUME SessionInv, Addressed, RowsKept, Grown, shown \subseteq shown',
         NEW p \in Procs, Carries(p), pc'[p] = pc[p], job'[p] = job[p]
  PROVE  Carries(p)'
<1> DEFINE j == job[p]
<1>0. /\ JobFits(pc[p], j, messages) /\ j.round \in Nat
      /\ 0 \notin DOMAIN messages
      /\ \A m \in DOMAIN messages : messages[m].task \in DOMAIN tasks
                                    /\ messages[m].round \in Nat
      /\ \A t \in DOMAIN tasks : tasks[t].round \in Nat
  <2>1. TypeOK /\ JobFits(pc[p], j, messages) /\ j \in Jobs
    BY DEF SessionInv, StoreInv, Processes, JobFits
  <2>2. /\ \A m \in DOMAIN messages : m \in Nat \ {0} /\ messages[m] \in MessageRows
        /\ \A t \in DOMAIN tasks : tasks[t] \in TaskRows
    BY <2>1, RowsAreTyped DEF TypeOK
  <2>3. QED
    BY <2>1, <2>2 DEF Jobs, Addressed, MessageRows, TaskRows
<1>1. pc[p] \in {"open", "record"} =>
         /\ j.msg \in DOMAIN messages' /\ messages'[j.msg].recipient = me(p)
         /\ messages'[j.msg].type = messages[j.msg].type
         /\ messages'[j.msg].task = messages[j.msg].task
         /\ messages'[j.msg].round = messages[j.msg].round
  BY DEF Carries, RowsKept
<1>2. pc[p] = "record" => j.round <= tasks'[j.task].round
  BY <1>0 DEF Carries, Grown
<1>3. pc[p] \in {"compare", "post"} =>
         j.task \in DOMAIN tasks' /\ j.round <= tasks'[j.task].round
  BY <1>0 DEF Carries, Grown
<1>4. /\ pc[p] \in {"clear", "print"} /\ j.msg # 0
      /\ messages'[j.msg].type = "request"
      => Judgeable(j.msg)'
  <2>1. j.msg # 0 => j.msg \in DOMAIN messages
    BY <1>0 DEF JobFits
  <2>2. QED
    BY <2>1, JudgeableStays DEF Carries, RowsKept
<1>5. pc[p] = "post" => BaselineOf(j.task, j.round)' # {}
  BY DEF Carries, RowsKept, BaselineOf
<1>6. QED
  BY <1>1, <1>2, <1>3, <1>4, <1>5 DEF Carries

LEMMA InspectReads ==
  ASSUME NEW p \in Procs, Inspect(p), ~Exit(p)
  PROVE  \E t \in DOMAIN tasks : \E v \in Verdicts, x \in Texts :
            /\ job' = [job EXCEPT ![p].task = t, ![p].round = tasks[t].round,
                                  ![p].verdict = v, ![p].text = x]
            /\ Goto(p, "compare")
BY Zenon DEF Inspect

\* Only Open, Record, Show, Inspect and Compare change what a process carries;
\* each learns what it must from the tables as they are then.
LEMMA CarriesStep ==
  ASSUME SessionInv, RoundsInv, Addressed, [SessionNext]_vars, NEW p \in Procs, Carries(p)
  PROVE  Carries(p)'
<1> DEFINE j == job[p]
           Goal == Carries(p)'
<1>0. /\ pc \in [Procs -> Labels] /\ job \in [Procs -> Jobs]
      /\ RowsKept /\ Grown /\ SessionInv' /\ shown \subseteq shown'
      /\ TypeOK /\ JobFits(pc[p], j, messages)
  BY StepKeepsRows DEF SessionInv, StoreInv, Processes
<1>1. ASSUME pc'[p] = pc[p], job'[p] = job[p] PROVE Goal
  BY <1>0, <1>1, CarriesOn
<1>2. ASSUME pc'[p] \notin {"open", "record", "print", "confirm", "compare", "post"},
             job'[p].msg = 0
      PROVE  Goal
  BY <1>2 DEF Carries
<1>3. /\ \A label : Goto(p, label) => pc'[p] = label
      /\ Exit(p) => pc'[p] = "idle" /\ job'[p] = NoJob
      /\ NoJob.msg = 0
  BY <1>0 DEF Goto, Exit, NoJob
<1>4. Exit(p) => Goal
  BY <1>2, <1>3
<1>5. pc[p] \notin {"open", "record", "clear", "print", "confirm"} => j.msg = 0
  BY DEF Carries
<1>6. StartSend(p) \/ StartWait(p) \/ StartReply(p) => Goal
  <2>1. StartSend(p) \/ StartWait(p) \/ StartReply(p)
          => /\ pc'[p] \in {"send_ack", "wait_ack", "reply_ack"} /\ pc[p] = "idle"
             /\ job' = job
    BY <1>3 DEF StartSend, StartWait, StartReply, Start
  <2>2. QED
    BY <2>1, <1>2, <1>5
<1>7. Crash(p) \/ Interrupt(p) => Goal
  <2>1. Interrupt(p) => pc'[p] = "clear" /\ job'[p] = NoJob
    BY <1>0, <1>3 DEF Interrupt
  <2>2. QED
    BY <2>1, <1>2, <1>3, <1>4 DEF Crash
<1>8. ASSUME NEW from \in {"send_ack", "wait_ack", "reply_ack"},
             NEW to \in {"enqueue", "begin", "inspect"}, AckPrior(p, from, to)
      PROVE  Goal
  <2>1. pc[p] = from /\ (Exit(p) \/ (pc'[p] = to /\ job' = job))
    BY <1>3, <1>8 DEF AckPrior
  <2>2. QED
    BY <2>1, <1>2, <1>4, <1>5
<1>9. Enqueue(p) \/ Begin(p) \/ Superseded(p) \/ Confirm(p) \/ Post(p) => Goal
  <2>1. Begin(p) \/ Superseded(p)
          => \/ Exit(p)
             \/ pc[p] \in {"begin", "poll"} /\ pc'[p] \in {"claim", "clear"} /\ job' = job
    BY <1>3 DEF Begin, Superseded
  <2>2. QED
    BY <2>1, <1>2, <1>4, <1>5 DEF Enqueue, Confirm, Post
<1>10. Claim(p) => Goal
  <2>1. CASE Takes(p)
    <3> DEFINE m == First(Claimable(me(p)))
    <3>1. /\ m \in Claimable(me(p)) /\ messages[m].damage = "none"
          /\ pc'[p] = "open" /\ job' = [job EXCEPT ![p].msg = m]
      BY <1>0, <1>3, <2>1, FirstClaimable DEF Takes, ClaimMessage
    <3>2. m \in DOMAIN messages /\ messages[m].recipient = me(p)
      BY <3>1 DEF Claimable, Rows
    <3> HIDE DEF m
    <3>3. job'[p].msg = m
      BY <1>0, <3>1 DEF Jobs
    <3>4. m \in DOMAIN messages' /\ messages'[m].recipient = me(p)
      BY <1>0, <3>2 DEF RowsKept
    <3>5. QED
      BY <3>1, <3>3, <3>4 DEF Carries
  <2>2. Claim(p) => \/ Takes(p)
                    \/ /\ pc[p] \in {"claim", "poll"} /\ pc'[p] \in {"clear", "check"}
                       /\ job' = job
    BY <1>3 DEF Claim, Takes, Malformed
  <2>3. QED
    BY <2>1, <2>2, <1>2, <1>5
<1>11. Check(p) => Goal
  <2>1. CheckStep(p) => pc[p] \in WaitLabels \ {"open", "record"}
    BY DEF CheckStep, LookForCheck, SampleTokens, ForgetCheck, JudgeCheck, AskForCheck,
           NoteCheck, AckBeforeResume, FindCheck, ResumeCheck, WaitLabels
  <2> DEFINE There == {"sample", "resume_ack", "poll", "forget", "judge", "clear", "ask",
                       "note", "resume_find", "resume"}
  <2>2. Fail(p) => pc'[p] \in There
    BY <1>3 DEF Fail
  <2>3. \A label \in There : Goto(p, label) => pc'[p] \in There
    BY <1>3
  <2>4. {"sample", "resume_ack", "poll", "forget", "judge", "clear", "ask", "note",
         "resume_find", "resume"} \subseteq There
    OBVIOUS
  <2>5. There \cap {"open", "record", "print", "confirm", "compare", "post"} = {}
    OBVIOUS
  <2> HIDE DEF There
  <2>6. LookForCheck(p) \/ SampleTokens(p) \/ ForgetCheck(p) \/ JudgeCheck(p)
          => pc'[p] \in There
    BY <2>3, <2>4 DEF LookForCheck, SampleTokens, ForgetCheck, JudgeCheck
  <2>7. AskForCheck(p) \/ NoteCheck(p) \/ AckBeforeResume(p) \/ FindCheck(p) \/ ResumeCheck(p)
          => pc'[p] \in There
    BY <2>2, <2>3, <2>4 DEF AskForCheck, NoteCheck, AckBeforeResume, FindCheck, ResumeCheck
  <2>8. Check(p) => job' = job /\ pc'[p] \in There /\ pc[p] \in WaitLabels \ {"open", "record"}
    BY <2>1, <2>6, <2>7 DEF Check, CheckStep, sessionVars
  <2>9. QED
    BY <2>5, <2>8, <1>2, <1>5 DEF WaitLabels
<1>12. CASE Open(p)
  <2> DEFINE m == j.msg
             t == messages[m].task
  <2>1. /\ pc[p] = "open" /\ m \in DOMAIN messages /\ messages[m].recipient = me(p)
        /\ UNCHANGED storeVars
    BY <1>12 DEF Open, Carries
  <2>2. /\ t \in DOMAIN tasks /\ tasks[t].req.sender # tasks[t].req.recipient
        /\ messages[m].recipient = IF messages[m].type = "request"
                                   THEN tasks[t].req.recipient ELSE tasks[t].req.sender
        /\ messages[m].type \in {"request", "reply"}
        /\ messages[m].round <= tasks[t].round /\ tasks[t].round \in Nat
    BY <1>0, <2>1, RowsAreTyped
       DEF Addressed, RoundsInv, Rounds, Reached, MessageRows, TaskRows
  <2>3. CASE tasks[t].req.recipient = me(p)
    <3>1. /\ job' = [job EXCEPT ![p].task = t, ![p].round = tasks[t].round, ![p].files = disk]
          /\ pc'[p] = "record"
      BY <1>3, <1>12, <2>3 DEF Open
    <3>2. job'[p].msg = m /\ job'[p].task = t /\ job'[p].round = tasks[t].round
      BY <1>0, <3>1 DEF Jobs
    <3>3. messages[m].type = "request"
      BY <2>1, <2>2, <2>3
    <3> HIDE DEF m, t
    <3>4. messages' = messages /\ tasks' = tasks
      BY <2>1 DEF storeVars
    <3>5. QED
      BY <2>1, <2>2, <3>1, <3>2, <3>3, <3>4 DEF Carries, t
  <2>4. CASE tasks[t].req.recipient # me(p)
    <3>1. pc'[p] = "clear" /\ job' = job /\ messages' = messages
      BY <1>3, <1>12, <2>4 DEF Open, storeVars
    <3>2. messages[m].type # "request"
      BY <2>1, <2>2, <2>4
    <3>3. QED
      BY <3>1, <3>2 DEF Carries
  <2>5. QED
    BY <2>3, <2>4
<1>13. CASE Record(p)
  <2>1. /\ pc[p] = "record" /\ pc'[p] = "clear" /\ j.msg \in DOMAIN messages
        /\ messages[j.msg].type = "request" /\ j.task = messages[j.msg].task
        /\ messages[j.msg].round <= j.round /\ messages[j.msg].round \in Nat
    BY <1>0, <1>3, <1>13, RowsAreTyped DEF Record, Carries, MessageRows
  <2>2. CASE RecordBaseline(j.task, j.round, j.files) /\ job' = job
    <3>1. /\ tasks[j.task].round = j.round /\ messages' = messages /\ tasks' = tasks
          /\ j.round \in Nat
      BY <1>0, <2>2 DEF RecordBaseline, JobFits, Jobs
    <3>2. \E b \in baselines' : b.task = j.task /\ b.round = j.round
      <4>1. CASE BaselineOf(j.task, j.round) = {}
        <5> DEFINE b == [task |-> j.task, round |-> j.round, files |-> j.files]
        <5>1. b \in baselines' /\ b.task = j.task /\ b.round = j.round
          BY <2>2, <4>1 DEF RecordBaseline
        <5>2. QED
          BY <5>1
      <4>2. CASE BaselineOf(j.task, j.round) # {}
        BY <2>2, <4>2 DEF RecordBaseline, BaselineOf
      <4>3. QED
        BY <4>1, <4>2
    <3>3. Judgeable(j.msg)'
      BY <2>1, <3>1, <3>2, <2>2 DEF Judgeable, BaselineOf
    <3>4. QED
      BY <2>1, <2>2, <3>3 DEF Carries
  <2>3. CASE job' = [job EXCEPT ![p] = NoJob]
    BY <1>0, <1>2, <1>3, <2>1, <2>3
  <2>4. QED
    BY <1>13, <2>2, <2>3 DEF Record
<1>14. CASE Clear(p)
  <2>1. Exit(p) \/ (/\ pc[p] = "clear" /\ pc'[p] = "print" /\ job' = job /\ j.msg # 0)
    BY <1>3, <1>14 DEF Clear
  <2>2. CASE /\ pc[p] = "clear" /\ pc'[p] = "print" /\ job' = job /\ j.msg # 0
    <3>1. j.msg \in DOMAIN messages
      BY <1>0, <2>2 DEF JobFits
    <3>2. messages[j.msg].type = "request" => Judgeable(j.msg)'
      BY <1>0, <2>2, <3>1, JudgeableStays DEF Carries
    <3>3. messages'[j.msg].type = messages[j.msg].type
      BY <1>0, <3>1 DEF RowsKept
    <3>4. QED
      BY <2>2, <3>2, <3>3 DEF Carries
  <2>3. QED
    BY <1>4, <2>1, <2>2
<1>15. CASE Show(p)
  <2>1. Exit(p) \/ (pc'[p] = "confirm" /\ job' = job /\ j.msg \in shown')
    BY <1>3, <1>15 DEF Show
  <2>2. pc'[p] = "confirm" /\ job' = job /\ j.msg \in shown' => Goal
    BY DEF Carries
  <2>3. QED
    BY <1>4, <2>1, <2>2
<1>16. CASE Inspect(p)
  <2>1. CASE Exit(p)
    BY <1>4, <2>1
  <2>2. CASE ~Exit(p)
    <3>1. pc[p] = "inspect" /\ UNCHANGED storeVars
      BY <1>16 DEF Inspect
    <3>2. PICK t \in DOMAIN tasks : \E v \in Verdicts, x \in Texts :
             /\ job' = [job EXCEPT ![p].task = t, ![p].round = tasks[t].round,
                                   ![p].verdict = v, ![p].text = x]
             /\ Goto(p, "compare")
      BY <1>16, <2>2, InspectReads
    <3>3. pc'[p] = "compare" /\ tasks' = tasks
      BY <1>3, <3>1, <3>2 DEF storeVars
    <3>4. job'[p].msg = 0 /\ job'[p].task = t /\ job'[p].round = tasks[t].round
      BY <1>0, <1>5, <3>1, <3>2 DEF Jobs
    <3>5. tasks[t].round \in Nat
      BY <1>0, RowsAreTyped DEF TaskRows
    <3>6. QED
      BY <3>3, <3>4, <3>5 DEF Carries
  <2>3. QED
    BY <2>1, <2>2
<1>17. CASE Compare(p)
  <2>1. \/ Exit(p)
        \/ /\ BaselineOf(j.task, j.round) # {} /\ pc[p] = "compare" /\ pc'[p] = "post"
           /\ \E n : job' = [job EXCEPT ![p].notice = n]
           /\ UNCHANGED storeVars
    <3>1. CASE BaselineOf(j.task, j.round) = {}
      BY <1>17, <3>1 DEF Compare
    <3>2. CASE BaselineOf(j.task, j.round) # {}
      BY <1>3, <1>17, <3>2 DEF Compare
    <3>3. QED
      BY <3>1, <3>2
  <2>2. ASSUME BaselineOf(j.task, j.round) # {}, pc[p] = "compare", pc'[p] = "post",
               NEW n, job' = [job EXCEPT ![p].notice = n], UNCHANGED storeVars
        PROVE  Goal
    <3>1. job'[p].msg = 0 /\ job'[p].task = j.task /\ job'[p].round = j.round
      BY <1>0, <1>5, <2>2 DEF Jobs
    <3>2. j.task \in DOMAIN tasks /\ j.round <= tasks[j.task].round
      BY <2>2 DEF Carries
    <3>3. QED
      BY <2>2, <3>1, <3>2 DEF Carries, storeVars, BaselineOf
  <2>3. QED
    BY <1>4, <2>1, <2>2
<1> HIDE DEF Goal
<1>18. Step(p) => Goal
  BY <1>8, <1>9, <1>10, <1>11, <1>12, <1>13, <1>14, <1>15, <1>16, <1>17 DEF Step, Goal
<1>19. Goal
  BY <1>1, <1>6, <1>7, <1>18, OthersStay DEF Rests
<1>20. QED
  BY <1>19 DEF Goal

-----------------------------------------------------------------------------
(* What is delivered, and what is answered.                                *)

\* A reply's task was captured in that round or before, a task that went on to
\* a second round was captured in its first, and what is shown can be judged.
Delivered ==
    /\ \A m \in DOMAIN messages : messages[m].type = "reply" =>
          \E b \in baselines : b.task = messages[m].task /\ b.round <= messages[m].round
    /\ \A t \in DOMAIN tasks : tasks[t].round # 1 =>
          BaselineOf(t, 1) # {} /\ tasks[t].req.kind = "context_check"
    /\ \A m \in shown : messages[m].type = "request" => Judgeable(m)

\* A reply is new only by the post of its advisor.
LEMMA NewReply ==
  ASSUME SessionInv, [SessionNext]_vars, NEW m \in DOMAIN messages' \ DOMAIN messages,
         messages'[m].type = "reply"
  PROVE  \E p \in Procs :
            /\ Posts(p) /\ messages'[m].task = job[p].task
            /\ messages'[m].round = tasks[job[p].task].round
            /\ messages'[m].status = "posted"
<1>1. ~NoReplyMoves
  BY DEF NoReplyMoves
<1>2. PICK p \in Procs : Takes(p) \/ Posts(p)
  BY <1>1, RepliesMoveBy
<1>3. ~Takes(p)
  BY DEF Takes, ClaimMessage
<1>4. JobFits("post", job[p], messages) /\ TypeOK
  BY <1>2, <1>3 DEF Posts, SessionInv, StoreInv, Processes
<1>5. RepliesTo(job[p].task)
  BY <1>2, <1>3, <1>4, ReplyIsTaken, ReplyPostsOne DEF Posts
<1>6. QED
  BY <1>2, <1>3, <1>5 DEF RepliesTo

\* A reply leaves the room by the claim of the process that then carries it.
LEMMA ReplyLeaves ==
  ASSUME SessionInv, [SessionNext]_vars, NEW m \in DOMAIN messages',
         messages'[m].type = "reply", messages'[m].status # "posted",
         m \in DOMAIN messages => messages[m].status = "posted"
  PROVE  \E p \in Procs : job'[p].msg = m
<1>0. TypeOK /\ job \in [Procs -> Jobs] /\ pc \in [Procs -> Labels]
  BY DEF SessionInv, StoreInv, Processes
<1>1. m \in DOMAIN messages
  BY NewReply
<1>2. ~NoReplyMoves
  BY <1>1 DEF NoReplyMoves
<1>3. PICK p \in Procs : Takes(p) \/ Posts(p)
  BY <1>2, RepliesMoveBy
<1>4. ~Posts(p)
  <2>1. ASSUME Posts(p) PROVE FALSE
    <3>1. JobFits("post", job[p], messages)
      BY <2>1 DEF Posts, SessionInv, Processes
    <3>2. RepliesTo(job[p].task)
      BY <1>0, <2>1, <3>1, ReplyIsTaken, ReplyPostsOne DEF Posts
    <3>3. QED
      BY <1>1, <3>2 DEF RepliesTo
  <2>2. QED
    BY <2>1
<1> DEFINE n == First(Claimable(me(p)))
<1>5. /\ messages' = [messages EXCEPT ![n] = Leased(messages[n], mine(p))]
      /\ job' = [job EXCEPT ![p].msg = n]
  BY <1>3, <1>4 DEF Takes, ClaimMessage
<1> HIDE DEF n
<1>6. m = n
  BY <1>1, <1>5
<1>7. QED
  BY <1>0, <1>5, <1>6 DEF Jobs

LEMMA DeliveredStep ==
  ASSUME SessionInv, RoundsInv, Addressed, \A p \in Procs : Carries(p), Delivered,
         [SessionNext]_vars
  PROVE  Delivered'
<1>0. /\ [Next]_storeVars /\ RowsKept /\ RowsPosted /\ Grown /\ shown \subseteq shown'
      /\ TypeOK /\ QueueInv /\ Addressed'
      /\ \A m \in DOMAIN messages : messages[m].round \in Nat
      /\ \A t \in DOMAIN tasks : tasks[t].round \in Nat
      /\ \A b \in baselines : b.round \in Nat
  <2>1. TypeOK /\ QueueInv /\ StoreInv
    BY DEF SessionInv, StoreInv
  <2>2. [Next]_storeVars /\ Addressed'
    BY <2>1, StepKeepsRows, AddressedStep
  <2>3. QED
    BY <2>1, <2>2, StepKeepsRows, RowsAreTyped DEF MessageRows, TaskRows, TypeOK, BaselineRows
<1>1. ASSUME NEW m \in DOMAIN messages', messages'[m].type = "reply"
      PROVE  \E b \in baselines' : b.task = messages'[m].task /\ b.round <= messages'[m].round
  <2>1. CASE m \in DOMAIN messages
    BY <1>0, <1>1, <2>1 DEF Delivered, RowsKept
  <2>2. CASE m \notin DOMAIN messages
    <3>1. PICK p \in Procs : /\ Posts(p) /\ messages'[m].task = job[p].task
                             /\ messages'[m].round = tasks[job[p].task].round
      BY <1>1, <2>2, NewReply
    <3>2. PICK b \in baselines : b.task = job[p].task /\ b.round = job[p].round
      BY <3>1 DEF Posts, Carries, BaselineOf
    <3>3. job[p].round <= tasks[job[p].task].round
      BY <3>1 DEF Posts, Carries
    <3>4. QED
      BY <1>0, <3>1, <3>2, <3>3 DEF RowsKept
  <2>3. QED
    BY <2>1, <2>2
<1>2. ASSUME NEW t \in DOMAIN tasks', tasks'[t].round # 1
      PROVE  BaselineOf(t, 1)' # {} /\ tasks'[t].req.kind = "context_check"
  <2>1. t \in DOMAIN tasks
    BY <1>0, <1>2, TasksAddedAreRequests
  <2>2. BaselineOf(t, 1) # {} /\ tasks[t].req.kind = "context_check"
    <3>1. CASE tasks[t].round # 1
      BY <2>1, <3>1 DEF Delivered
    <3>2. CASE tasks[t].round = 1
      <4>1. /\ tasks[t].state = "waiting_checkpoint"
            /\ \E a \in Agents, topic \in Topics : ResumeContextCheck(t, a, topic)
        BY <1>0, <1>2, <2>1, <3>2, RoundsMoveBy
      <4>2. tasks[t].req.kind = "context_check"
        BY <4>1 DEF ResumeContextCheck, WaitingChecks
      <4>3. PICK m \in DOMAIN messages :
               messages[m].type = "reply" /\ messages[m].task = t /\ messages[m].round = 1
        BY <2>1, <3>2, <4>1 DEF RoundsInv, Rounds, Told, Live, IsOf
      <4>4. PICK b \in baselines : b.task = t /\ b.round <= 1
        BY <4>3 DEF Delivered
      <4>5. b.round = 1
        BY <1>0, <4>4 DEF Addressed
      <4>6. QED
        BY <4>2, <4>4, <4>5 DEF BaselineOf
    <3>3. QED
      BY <3>1, <3>2
  <2>3. QED
    BY <1>0, <2>1, <2>2, BaselinesLast DEF RowsKept
<1>3. ASSUME NEW m \in shown', messages'[m].type = "request"
      PROVE  Judgeable(m)'
  <2>1. CASE m \in shown
    <3>1. m \in DOMAIN messages
      BY <2>1 DEF SessionInv, Processes
    <3>2. messages[m].type = "request"
      BY <1>0, <1>3, <3>1 DEF RowsKept
    <3>3. QED
      BY <1>0, <2>1, <3>1, <3>2, JudgeableStays DEF Delivered
  <2>2. CASE m \notin shown
    <3>1. PICK p \in Procs : Show(p) /\ m = job[p].msg
      BY <1>3, <2>2, ShownGrows DEF Show
    <3>2. pc[p] = "print" /\ UNCHANGED storeVars
      BY <3>1 DEF Show
    <3>3. m \in DOMAIN messages /\ 0 \notin DOMAIN messages
      BY <3>1, <3>2, <1>0 DEF SessionInv, Processes, JobFits, TypeOK
    <3>4. messages[m].type = "request"
      BY <1>3, <3>2 DEF storeVars
    <3>5. Judgeable(m)
      BY <3>1, <3>2, <3>3, <3>4 DEF Carries
    <3>6. QED
      BY <1>0, <3>3, <3>5, JudgeableStays
  <2>3. QED
    BY <2>1, <2>2
<1>4. QED
  BY <1>1, <1>2, <1>3 DEF Delivered

-----------------------------------------------------------------------------
(* No reply is lost.                                                       *)

\* While no process was killed, whoever took a reply shows it or carries it.
NotTaken ==
    crashes = 0 =>
        \A m \in DOMAIN messages :
            messages[m].type = "reply" /\ messages[m].status # "posted" =>
                m \in shown \/ \E p \in Procs : job[p].msg = m

\* A process that is not killed puts a reply down only where it is read.
LEMMA CarriedToTheEnd ==
  ASSUME SessionInv, [SessionNext]_vars, crashes' = crashes,
         NEW p \in Procs, Carries(p), job[p].msg \in DOMAIN messages,
         messages[job[p].msg].type = "reply"
  PROVE  job'[p].msg = job[p].msg \/ job[p].msg \in shown'
<1> DEFINE m == job[p].msg
           Goal == job'[p].msg = m \/ m \in shown'
<1>0. /\ pc \in [Procs -> Labels] /\ job \in [Procs -> Jobs] /\ crashes \in Nat
      /\ m # 0 /\ shown \subseteq shown'
  BY SessionAssumption, StepKeepsRows DEF SessionInv, StoreInv, TypeOK, Processes
<1>1. pc[p] \in {"open", "record", "clear", "print", "confirm"} /\ pc[p] # "record"
  BY <1>0 DEF Carries
<1>2. Rests(p) => Goal
  BY DEF Rests
<1>3. ~(Crash(p) \/ Interrupt(p))
  BY <1>0 DEF Crash, Interrupt
<1>4. Open(p) => Goal
  BY <1>0 DEF Open, Jobs
<1>5. Clear(p) => Goal
  BY <1>0 DEF Clear
<1>6. Show(p) => Goal
  BY DEF Show
<1>7. Confirm(p) => Goal
  BY <1>0 DEF Confirm, Carries
<1> HIDE DEF Goal
<1>8. ~(\/ StartSend(p) \/ StartWait(p) \/ StartReply(p) \/ Enqueue(p) \/ Begin(p) \/ Claim(p)
        \/ Superseded(p) \/ Record(p) \/ Inspect(p) \/ Compare(p) \/ Post(p)
        \/ AckPrior(p, "send_ack", "enqueue") \/ AckPrior(p, "wait_ack", "begin")
        \/ AckPrior(p, "reply_ack", "inspect"))
  BY <1>1 DEF StartSend, StartReply, Start, StartWait, Enqueue, Begin, Claim, Superseded,
              Record, Inspect, Compare, Post, AckPrior
<1>9. ~Check(p)
  BY <1>1 DEF Check, CheckStep, LookForCheck, SampleTokens, ForgetCheck, JudgeCheck,
              AskForCheck, NoteCheck, AckBeforeResume, FindCheck, ResumeCheck
<1>10. Goal
  BY <1>2, <1>3, <1>4, <1>5, <1>6, <1>7, <1>8, <1>9, OthersStay DEF Step
<1>11. QED
  BY <1>10 DEF Goal

LEMMA NotTakenStep ==
  ASSUME SessionInv, \A p \in Procs : Carries(p), NotTaken, [SessionNext]_vars
  PROVE  NotTaken'
<1>1. SUFFICES ASSUME crashes' = 0, NEW m \in DOMAIN messages',
                      messages'[m].type = "reply", messages'[m].status # "posted"
               PROVE  m \in shown' \/ \E p \in Procs : job'[p].msg = m
  BY DEF NotTaken
<1>2. crashes = 0 /\ crashes' = crashes
  <2>1. crashes \in Nat
    BY SessionAssumption DEF SessionInv, Processes
  <2>2. QED
    BY <1>1, <2>1, CrashesCount
<1>3. CASE m \in DOMAIN messages => messages[m].status = "posted"
  BY <1>1, <1>3, ReplyLeaves
<1>4. CASE m \in DOMAIN messages /\ messages[m].status # "posted"
  <2>1. RowsKept /\ shown \subseteq shown'
    BY StepKeepsRows
  <2>2. messages[m].type = "reply"
    BY <1>1, <1>4, <2>1 DEF RowsKept
  <2>3. m \in shown \/ \E p \in Procs : job[p].msg = m
    BY <1>2, <1>4, <2>2 DEF NotTaken
  <2>4. ASSUME NEW p \in Procs, job[p].msg = m PROVE job'[p].msg = m \/ m \in shown'
    BY <1>2, <1>4, <2>2, <2>4, CarriedToTheEnd
  <2>5. QED
    BY <2>1, <2>3, <2>4
<1>5. QED
  BY <1>3, <1>4

-----------------------------------------------------------------------------

DeliveryInv ==
    /\ SessionInv /\ RoundsInv /\ Addressed
    /\ (\A p \in Procs : Carries(p)) /\ Delivered /\ NotTaken

LEMMA DeliveryStep == DeliveryInv /\ [SessionNext]_vars => DeliveryInv'
<1>1. SUFFICES ASSUME DeliveryInv, [SessionNext]_vars PROVE DeliveryInv'
  OBVIOUS
<1>2. [Next]_storeVars /\ SessionInv'
  BY <1>1, StepKeepsRows DEF DeliveryInv
<1>3. RoundsInv' /\ Addressed'
  BY <1>1, <1>2, RoundsStep, AddressedStep DEF DeliveryInv, SessionInv, StoreInv
<1>4. \A p \in Procs : Carries(p)'
  BY <1>1, CarriesStep DEF DeliveryInv
<1>5. Delivered' /\ NotTaken'
  BY <1>1, DeliveredStep, NotTakenStep DEF DeliveryInv
<1>6. QED
  BY <1>2, <1>3, <1>4, <1>5 DEF DeliveryInv

LEMMA AlwaysDelivers == SessionSpec => []DeliveryInv
<1>1. SessionInit => DeliveryInv
  <2>1. SUFFICES ASSUME SessionInit PROVE DeliveryInv
    OBVIOUS
  <2>2. /\ tasks = <<>> /\ messages = <<>> /\ baselines = {} /\ shown = {}
        /\ quarantined = {} /\ \A p \in Procs : pc[p] = "idle" /\ job[p] = NoJob
    BY <2>1 DEF SessionInit, Init
  <2>3. SessionInv /\ RoundsInv
    BY <2>1, <2>2, SessionStarts DEF RoundsInv, Rounds, Posted, Reached, Ended, OneEach, Told,
       Fresh, Current, Live
  <2>4. Addressed /\ Delivered /\ NotTaken
    BY <2>2 DEF Addressed, Delivered, NotTaken
  <2>5. \A p \in Procs : Carries(p)
    BY <2>2 DEF Carries, NoJob
  <2>6. QED
    BY <2>3, <2>4, <2>5 DEF DeliveryInv
<1>2. QED
  BY <1>1, DeliveryStep, PTL DEF SessionSpec

\* While no process is killed, no reply is acknowledged before its reader has
\* it: neither a lease that ran out, nor the next command, nor a rejoining takes
\* it away (cli.py wait, acknowledge_delivered_reply).
THEOREM RepliesAreKept == SessionSpec => []NoReplyLost
<1>1. DeliveryInv => NoReplyLost
  BY DEF DeliveryInv, NotTaken, NoReplyLost, Rows
<1>2. QED
  BY <1>1, AlwaysDelivers, PTL

\* However the waits of an agent interleave, are killed or interrupted: what it
\* is shown has a baseline to be judged against, or its round is over.
THEOREM ShownIsJudgeable ==
  SessionSpec => [](\A m \in shown : messages[m].type = "request" => Judgeable(m))
<1>1. DeliveryInv => \A m \in shown : messages[m].type = "request" => Judgeable(m)
  BY DEF DeliveryInv, Delivered
<1>2. QED
  BY <1>1, AlwaysDelivers, PTL

\* A task has one round unless it is a context check that was continued.
FirstRoundIsDelivered ==
    \A m \in Rows : messages[m].type = "reply" =>
        /\ tasks[messages[m].task].req.kind # "context_check" => messages[m].round = 1
        /\ messages[m].round = 1 => BaselineOf(messages[m].task, 1) # {}

\* A reply to a first round, and so every reply that is not to a continued
\* context check, is to a round that was delivered before, whatever was retried
\* (service.py reply, TaskNotDeliveredError).
THEOREM FirstAnswersWereDelivered == SessionSpec => []FirstRoundIsDelivered
<1>1. ASSUME DeliveryInv, NEW m \in Rows, messages[m].type = "reply"
      PROVE  /\ tasks[messages[m].task].req.kind # "context_check" => messages[m].round = 1
             /\ messages[m].round = 1 => BaselineOf(messages[m].task, 1) # {}
  <2>1. /\ m \in DOMAIN messages /\ messages[m].task \in DOMAIN tasks
        /\ messages[m].round >= 1 /\ messages[m].round <= tasks[messages[m].task].round
    BY <1>1 DEF DeliveryInv, Addressed, RoundsInv, Rounds, Reached, Rows
  <2>2. messages[m].round \in Nat /\ baselines \subseteq BaselineRows
    BY <1>1, <2>1, RowsAreTyped DEF DeliveryInv, SessionInv, StoreInv, TypeOK, MessageRows
  <2>3. tasks[messages[m].task].req.kind # "context_check" => messages[m].round = 1
    BY <1>1, <2>1, <2>2 DEF DeliveryInv, Delivered
  <2>4. PICK b \in baselines : b.task = messages[m].task /\ b.round <= messages[m].round
    BY <1>1, <2>1 DEF DeliveryInv, Delivered
  <2>5. b.round \in Nat /\ b.round >= 1
    BY <1>1, <2>2, <2>4 DEF DeliveryInv, Addressed, BaselineRows
  <2>6. messages[m].round = 1 => b.round = 1
    BY <2>4, <2>5
  <2>7. QED
    BY <2>3, <2>4, <2>6 DEF BaselineOf
<1>2. DeliveryInv => FirstRoundIsDelivered
  BY <1>1 DEF FirstRoundIsDelivered
<1>3. QED
  BY <1>2, AlwaysDelivers, PTL

\* However many rounds a check takes and however many processes answer it, no
\* reply is stored to a task that was not delivered by then: the guard of reply
\* (service.py, TaskNotDeliveredError) read a baseline of this round or an
\* earlier one, and baselines stay.
THEOREM AnswersFollowTheirDelivery == SessionSpec => []AnswersFollowDelivery
<1>1. DeliveryInv => AnswersFollowDelivery
  BY DEF DeliveryInv, Delivered, AnswersFollowDelivery, Rows
<1>2. QED
  BY <1>1, AlwaysDelivers, PTL

-----------------------------------------------------------------------------
(* One command at a time per agent.                                        *)

\* Each agent runs one process: its user starts a command when the last ended.
OneProcessPerAgent == \A p, q \in Procs : me(p) = me(q) => p = q

\* The round of a row is its task's, and nobody has answered it.
InRound(m) ==
    /\ messages[m].round = tasks[messages[m].task].round
    /\ ReplyRows(messages[m].task, messages[m].round) = {}

\* The request a process carries is of the current round until it is captured,
\* and has its own baseline from then on.
InHand(p) ==
    LET m == job[p].msg
    IN  m # 0 /\ messages[m].type = "request" =>
            /\ pc[p] \in {"open", "record"} => InRound(m)
            /\ pc[p] \in {"clear", "print"} =>
                  BaselineOf(messages[m].task, messages[m].round) # {}

\* Only its advisor ends a round, and it is busy with the delivery.
LEMMA RoundStands ==
  ASSUME DeliveryInv, OneProcessPerAgent, [SessionNext]_vars, NEW p \in Procs,
         pc[p] \in {"open", "record"}, NEW m, m = job[p].msg,
         messages[m].type = "request", InRound(m)
  PROVE  InRound(m)'
<1> DEFINE t == messages[m].task
           r == messages[m].round
<1>0. /\ SessionInv /\ TypeOK /\ QueueInv /\ [Next]_storeVars /\ RowsKept
      /\ \A q \in Procs : Carries(q)
  BY StepKeepsRows DEF DeliveryInv, SessionInv, StoreInv
<1>1. /\ m \in DOMAIN messages /\ t \in DOMAIN tasks /\ tasks[t].req.recipient = me(p)
      /\ tasks[t].round = r /\ ReplyRows(t, r) = {}
  BY <1>0 DEF Carries, DeliveryInv, Addressed, InRound
<1>2. messages'[m].task = t /\ messages'[m].round = r
  BY <1>0, <1>1 DEF RowsKept
<1>3. tasks'[t].round = tasks[t].round
  <2>1. SUFFICES ASSUME tasks[t].state = "waiting_checkpoint" PROVE FALSE
    BY <1>0, <1>1, RoundsMoveBy
  <2>2. PICK n \in Rows : IsOf(messages[n], "reply", t, r)
    BY <1>1, <2>1 DEF DeliveryInv, RoundsInv, Rounds, Told, Live, Rows
  <2>3. QED
    BY <1>1, <2>2 DEF ReplyRows, IsOf
<1>4. ASSUME NEW n \in DOMAIN messages' \ quarantined', messages'[n].task = t,
             messages'[n].round = r, messages'[n].type = "reply"
      PROVE  FALSE
  <2>1. CASE n \in DOMAIN messages
    BY <1>0, <1>1, <1>4, <2>1 DEF RowsKept, ReplyRows, Rows
  <2>2. CASE n \notin DOMAIN messages
    <3>1. PICK q \in Procs : Posts(q) /\ job[q].task = t
      BY <1>0, <1>4, <2>2, NewReply
    <3>2. pc[q] = "post" /\ me(q) = me(p)
      BY <1>1, <3>1 DEF Posts, Reply, MayReply
    <3>3. QED
      BY <3>2 DEF OneProcessPerAgent
  <2>3. QED
    BY <2>1, <2>2
<1>5. InRound(m)' <=> (/\ messages'[m].round = tasks'[messages'[m].task].round
                       /\ {n \in DOMAIN messages' \ quarantined' :
                             /\ messages'[n].task = messages'[m].task
                             /\ messages'[n].round = messages'[m].round
                             /\ messages'[n].type = "reply"} = {})
  BY DEF InRound, ReplyRows, Rows
<1>6. QED
  BY <1>1, <1>2, <1>3, <1>4, <1>5

\* The steps after which a process carries a delivery.
LEMMA CarriedBy ==
  ASSUME SessionInv, [SessionNext]_vars, NEW p \in Procs, Carries(p), job'[p].msg # 0
  PROVE  Rests(p) \/ Takes(p) \/ Open(p) \/ Record(p) \/ Clear(p) \/ Show(p)
<1>0. pc \in [Procs -> Labels] /\ job \in [Procs -> Jobs] /\ NoJob.msg = 0
  BY DEF SessionInv, Processes, NoJob
<1>1. ~Exit(p) /\ job' # [job EXCEPT ![p] = NoJob]
  BY <1>0 DEF Exit
<1>2. pc[p] \notin {"open", "record", "clear", "print", "confirm"} => job' # job
  BY DEF Carries
<1>3. ~(StartSend(p) \/ StartWait(p) \/ StartReply(p) \/ Crash(p) \/ Interrupt(p))
  BY <1>1, <1>2 DEF StartSend, StartReply, Start, StartWait, Crash, Interrupt
<1>4. ~(\/ AckPrior(p, "send_ack", "enqueue") \/ AckPrior(p, "wait_ack", "begin")
        \/ AckPrior(p, "reply_ack", "inspect"))
  BY <1>1, <1>2 DEF AckPrior
<1>5. ~(Enqueue(p) \/ Begin(p) \/ Superseded(p) \/ Confirm(p) \/ Post(p))
  BY <1>1, <1>2 DEF Enqueue, Begin, Superseded, Confirm, Post
<1>6. Claim(p) => Takes(p)
  BY <1>2 DEF Claim, Malformed, Takes
<1>7. ~Check(p)
  <2>1. CheckStep(p) => pc[p] \notin {"open", "record", "clear", "print", "confirm"}
    BY DEF CheckStep, LookForCheck, SampleTokens, ForgetCheck, JudgeCheck, AskForCheck,
           NoteCheck, AckBeforeResume, FindCheck, ResumeCheck
  <2>2. QED
    BY <2>1, <1>2 DEF Check, sessionVars
<1>8. ~Inspect(p)
  <2>1. SUFFICES ASSUME Inspect(p) PROVE FALSE
    OBVIOUS
  <2>2. pc[p] = "inspect" /\ job[p].msg = 0
    BY <2>1 DEF Inspect, Carries
  <2>3. ~Exit(p)
    BY <1>1
  <2>4. PICK t \in DOMAIN tasks : \E v \in Verdicts, x \in Texts :
           /\ job' = [job EXCEPT ![p].task = t, ![p].round = tasks[t].round,
                                 ![p].verdict = v, ![p].text = x]
           /\ Goto(p, "compare")
    BY <2>1, <2>3, InspectReads
  <2>5. QED
    BY <1>0, <2>2, <2>4 DEF Jobs
<1>9. ~Compare(p)
  <2>1. SUFFICES ASSUME Compare(p) PROVE FALSE
    OBVIOUS
  <2>2. pc[p] = "compare" /\ job[p].msg = 0
    BY <2>1 DEF Compare, Carries
  <2>3. PICK n : job' = [job EXCEPT ![p].notice = n]
    BY <1>1, <2>1 DEF Compare
  <2>4. QED
    BY <1>0, <2>2, <2>3 DEF Jobs
<1>10. QED
  BY <1>3, <1>4, <1>5, <1>6, <1>7, <1>8, <1>9, OthersStay DEF Step

LEMMA InHandStep ==
  ASSUME DeliveryInv, OneProcessPerAgent, [SessionNext]_vars, NEW p \in Procs, InHand(p)
  PROVE  InHand(p)'
<1>0. /\ SessionInv /\ TypeOK /\ QueueInv /\ RowsKept /\ Carries(p)
      /\ pc \in [Procs -> Labels] /\ job \in [Procs -> Jobs]
      /\ JobFits(pc[p], job[p], messages)
  BY StepKeepsRows DEF DeliveryInv, SessionInv, StoreInv, Processes
<1>1. SUFFICES ASSUME NEW m, m = job'[p].msg, m # 0, messages'[m].type = "request",
                      NEW t, t = messages'[m].task, NEW r, r = messages'[m].round
               PROVE  /\ pc'[p] \in {"open", "record"} => InRound(m)'
                      /\ pc'[p] \in {"clear", "print"} =>
                            \E b \in baselines' : b.task = t /\ b.round = r
  BY DEF InHand, BaselineOf
<1>2. \A label : Goto(p, label) => pc'[p] = label
  BY <1>0 DEF Goto
<1>3. ASSUME job[p].msg = m
      PROVE  /\ m \in DOMAIN messages /\ messages[m].type = "request"
             /\ messages[m].task = t /\ messages[m].round = r
  BY <1>0, <1>1, <1>3 DEF JobFits, RowsKept
<1>4. ASSUME job[p].msg = m, pc[p] \in {"clear", "print"}
      PROVE  \E b \in baselines' : b.task = t /\ b.round = r
  <2>1. BaselineOf(t, r) # {}
    BY <1>1, <1>3, <1>4 DEF InHand
  <2>2. QED
    BY <1>0, <2>1 DEF RowsKept, BaselineOf
<1>5. ASSUME job[p].msg = m, pc[p] \in {"open", "record"} PROVE InRound(m)'
  <2>1. messages[m].type = "request" /\ InRound(m)
    BY <1>1, <1>3, <1>5 DEF InHand
  <2>2. QED
    BY <1>5, <2>1, RoundStands
<1>6. CASE Rests(p)
  BY <1>1, <1>4, <1>5, <1>6 DEF Rests
<1>7. CASE Takes(p)
  <2> DEFINE n == First(Claimable(me(p)))
  <2>1. /\ n \in Claimable(me(p)) /\ pc'[p] = "open" /\ job' = [job EXCEPT ![p].msg = n]
        /\ messages' = [messages EXCEPT ![n] = Leased(messages[n], mine(p))]
        /\ UNCHANGED <<tasks, quarantined>>
    BY <1>0, <1>2, <1>7, FirstClaimable DEF Takes, ClaimMessage
  <2> HIDE DEF n
  <2>2. m = n
    <3>1. job'[p].msg = n
      BY <1>0, <2>1 DEF Jobs
    <3>2. QED
      BY <1>1, <3>1
  <2>3. /\ m \in Rows /\ m \in DOMAIN messages /\ messages[m].status = "posted"
    BY <2>1, <2>2 DEF Claimable, Rows
  <2>4. DOMAIN messages' = DOMAIN messages
        /\ \A k \in DOMAIN messages : /\ messages'[k].task = messages[k].task
                                      /\ messages'[k].round = messages[k].round
                                      /\ messages'[k].type = messages[k].type
    BY <1>0, <2>1 DEF RowsKept
  <2>5. messages[m].task = t /\ messages[m].round = r /\ messages[m].type = "request"
    BY <1>1, <2>3, <2>4
  <2>6. r = tasks[t].round /\ \A k \in Rows : ~IsOf(messages[k], "reply", t, r)
    BY <2>3, <2>5 DEF DeliveryInv, RoundsInv, Rounds, Current, Live, Rows
  <2>7. \A k \in DOMAIN messages' \ quarantined' : ~IsOf(messages'[k], "reply", t, r)
    BY <2>1, <2>4, <2>6 DEF IsOf, Rows
  <2>8. InRound(m)'
    BY <1>1, <2>1, <2>6, <2>7 DEF InRound, ReplyRows, Rows, IsOf
  <2>9. QED
    BY <2>1, <2>8
<1>8. CASE Open(p)
  <2>1. job[p].msg = m /\ pc[p] = "open"
    <3> DEFINE u == messages[job[p].msg].task
               filled == [job EXCEPT ![p].task = u, ![p].round = tasks[u].round,
                                     ![p].files = disk]
    <3>1. pc[p] = "open" /\ (job' = job \/ job' = filled)
      BY <1>8 DEF Open
    <3> HIDE DEF u
    <3>2. filled[p].msg = job[p].msg
      BY <1>0 DEF Jobs
    <3> HIDE DEF filled
    <3>3. QED
      BY <1>1, <3>1, <3>2
  <2>2. tasks[t].req.recipient = me(p)
    BY <1>0, <1>3, <2>1 DEF Carries, DeliveryInv, Addressed
  <2>3. pc'[p] = "record"
    <3>1. messages[job[p].msg].task = t
      BY <1>3, <2>1
    <3>2. Goto(p, "record")
      BY <1>8, <2>2, <3>1 DEF Open
    <3>3. QED
      BY <1>2, <3>2
  <2>4. QED
    BY <1>5, <2>1, <2>3
<1>9. CASE Record(p)
  <2>1. pc'[p] = "clear" /\ pc[p] = "record" /\ job'[p] # NoJob
    BY <1>1, <1>2, <1>9 DEF Record, NoJob
  <2>2. RecordBaseline(job[p].task, job[p].round, job[p].files) /\ job' = job
    BY <1>0, <1>9, <2>1 DEF Record
  <2>3. job[p].msg = m /\ InRound(m) /\ messages[m].task = t /\ messages[m].round = r
    BY <1>1, <1>3, <2>1, <2>2 DEF InHand
  <2>4. job[p].task = t /\ tasks[t].round = r
    BY <1>0, <2>1, <2>3 DEF Carries, InRound
  <2>5. job[p].round = r
    BY <2>2, <2>4 DEF RecordBaseline
  <2>6. \E b \in baselines' : b.task = t /\ b.round = r
    <3> DEFINE b == [task |-> t, round |-> r, files |-> job[p].files]
    <3>1. (BaselineOf(t, r) # {} /\ baselines' = baselines) \/ b \in baselines'
      BY <2>2, <2>4, <2>5 DEF RecordBaseline
    <3>2. b.task = t /\ b.round = r
      OBVIOUS
    <3> HIDE DEF b
    <3>3. QED
      BY <3>1, <3>2 DEF BaselineOf
  <2>7. QED
    BY <2>1, <2>6
<1>10. CASE Clear(p)
  <2>1. job[p].msg = m /\ pc[p] = "clear" /\ pc'[p] = "print"
    BY <1>0, <1>1, <1>2, <1>10 DEF Clear, Exit, NoJob
  <2>2. QED
    BY <1>4, <2>1
<1>11. CASE Show(p)
  <2>1. pc'[p] = "confirm"
    BY <1>0, <1>1, <1>2, <1>11 DEF Show, Exit, NoJob
  <2>2. QED
    BY <2>1
<1>12. QED
  BY <1>0, <1>1, <1>6, <1>7, <1>8, <1>9, <1>10, <1>11, CarriedBy

\* With one process per agent, every request that is shown has its own baseline:
\* no kill or interrupt between the claim and the capture, and no lease that runs
\* out, leaves its advisor unable to answer (TaskNotDeliveredError).
THEOREM ShownCanBeAnswered ==
  ASSUME OneProcessPerAgent
  PROVE  SessionSpec => []ShownIsAnswerable
<1>1. SessionInit => (\A p \in Procs : InHand(p)) /\ ShownIsAnswerable
  BY DEF SessionInit, InHand, NoJob, ShownIsAnswerable
<1>2. ASSUME DeliveryInv, \A p \in Procs : InHand(p), ShownIsAnswerable, [SessionNext]_vars
      PROVE  (\A p \in Procs : InHand(p))' /\ ShownIsAnswerable'
  <2>1. \A p \in Procs : InHand(p)'
    BY <1>2, InHandStep
  <2>2. /\ RowsKept /\ shown \subseteq DOMAIN messages /\ 0 \notin DOMAIN messages
        /\ \A p \in Procs : JobFits(pc[p], job[p], messages)
    BY <1>2, StepKeepsRows DEF DeliveryInv, SessionInv, StoreInv, TypeOK, Processes
  <2>3. ASSUME NEW m \in shown', messages'[m].type = "request"
        PROVE  BaselineOf(messages[m].task, messages[m].round)' # {}
    <3>1. m \in DOMAIN messages
          /\ BaselineOf(messages[m].task, messages[m].round) # {}
      <4>1. CASE m \in shown
        BY <1>2, <2>2, <2>3, <4>1 DEF RowsKept, ShownIsAnswerable
      <4>2. CASE m \notin shown
        <5>1. PICK p \in Procs : Show(p) /\ m = job[p].msg
          BY <1>2, <2>3, <4>2, ShownGrows DEF Show
        <5>2. pc[p] = "print" /\ m \in DOMAIN messages /\ m # 0
          BY <2>2, <5>1 DEF Show, JobFits
        <5>3. messages[m].type = "request"
          BY <2>2, <2>3, <5>2 DEF RowsKept
        <5>4. QED
          BY <1>2, <5>1, <5>2, <5>3 DEF InHand
      <4>3. QED
        BY <4>1, <4>2
    <3>2. QED
      BY <2>2, <3>1 DEF RowsKept, BaselineOf
  <2>4. QED
    BY <2>1, <2>3 DEF ShownIsAnswerable
<1>3. SessionSpec => []((\A p \in Procs : InHand(p)) /\ ShownIsAnswerable)
  <2> DEFINE Held == (\A p \in Procs : InHand(p)) /\ ShownIsAnswerable
  <2>1. SessionInit => Held
    BY <1>1
  <2>2. DeliveryInv /\ Held /\ [SessionNext]_vars => Held'
    BY <1>2
  <2> HIDE DEF Held
  <2>3. SessionSpec => []Held
    BY <2>1, <2>2, AlwaysDelivers, PTL DEF SessionSpec
  <2>4. QED
    BY <2>3 DEF Held
<1>4. QED
  BY <1>3, PTL

=============================================================================
