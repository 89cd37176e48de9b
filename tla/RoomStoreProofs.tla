--------------------------- MODULE RoomStoreProofs ---------------------------
(***************************************************************************)
(* Theorems about the room's tables, for every set of agents, sessions,    *)
(* waiters and keys, every bound, and every client of the store: types,    *)
(* the order in which tasks are served, and that the tables implement the  *)
(* advisor queue.                                                          *)
(***************************************************************************)
EXTENDS RoomQueue, FiniteSetTheorems, SequenceTheorems,
        WellFoundedInduction, TLAPS

-----------------------------------------------------------------------------
(* Lemmas about the helpers.                                               *)

\* ORDER BY ... LIMIT 1 of a non-empty result is its least row number.
LEMMA FirstIsLeast ==
  ASSUME NEW S, S \subseteq Nat, S # {}
  PROVE  First(S) \in S /\ \A k \in S : First(S) <= k
<1> DEFINE Below(k) == S \cap (0..k)
           Bounded == {Below(k) : k \in S}
<1>1. Bounded \subseteq FiniteSubsetsOf(Nat)
  <2>1. SUFFICES ASSUME NEW k \in S
                 PROVE  Below(k) \in FiniteSubsetsOf(Nat)
    OBVIOUS
  <2>2. k \in Nat /\ Below(k) \in SUBSET Nat /\ \A y \in Below(k) : y <= k
    OBVIOUS
  <2>3. QED
    BY <2>2, FS_BoundedSetOfNaturals DEF FiniteSubsetsOf
<1>2. Bounded # {}
  OBVIOUS
<1>3. PICK B \in Bounded :
        \A C \in Bounded : ~(<<C, B>> \in StrictSubsetOrdering(Nat))
  <2>1. IsWellFoundedOn(StrictSubsetOrdering(Nat), FiniteSubsetsOf(Nat))
    BY FS_StrictSubsetOrderingWellFounded
  <2> HIDE DEF Bounded
  <2>2. QED
    BY <1>1, <1>2, <2>1, WFMin
<1>4. PICK x \in S : B = Below(x)
  OBVIOUS
<1>5. ASSUME NEW y \in S, y < x PROVE FALSE
  <2>1. x \in Nat /\ y \in Nat
    OBVIOUS
  <2>2. Below(y) \subseteq Below(x) /\ x \in Below(x) /\ x \notin Below(y)
    BY <1>5, <2>1
  <2>3. Below(y) \in SUBSET Nat /\ Below(x) \in SUBSET Nat
    OBVIOUS
  <2>4. <<Below(y), Below(x)>> \in StrictSubsetOrdering(Nat)
    BY <2>2, <2>3 DEF StrictSubsetOrdering
  <2>5. QED
    BY <2>4, <1>3, <1>4
<1>6. \A y \in S : x <= y
  BY <1>5
<1>7. QED
  BY <1>6 DEF First

\* The result of _activate_next: at most the first queued task starts.
LEMMA ActivationTypes ==
  ASSUME NEW ts \in Seq(TaskRows), NEW ms \in Seq(MessageRows), ActivateNext(ts, ms)
  PROVE  /\ tasks' \in Seq(TaskRows)
         /\ messages' \in Seq(MessageRows)
         /\ DOMAIN tasks' = DOMAIN ts
         /\ DOMAIN ms \subseteq DOMAIN messages'
<1> DEFINE queued == InState(ts, {"queued"})
<1>1. CASE IsIdle(ts) /\ queued # {}
  <2> DEFINE t == First(queued)
  <2>1. t \in DOMAIN ts
    <3>1. queued \subseteq Nat
      BY DEF InState
    <3>2. QED
      BY <3>1, <1>1, FirstIsLeast DEF InState
  <2>2. /\ tasks' = [ts EXCEPT ![t].state = "working"]
        /\ messages' = Append(ms, RequestRow(ts[t], t))
    BY <1>1 DEF ActivateNext
  <2>3. ts[t] \in TaskRows /\ t \in Nat
    BY <2>1
  <2>4. RequestRow(ts[t], t) \in MessageRows
    BY <2>3 DEF RequestRow, TaskRows, MessageRows, RequestColumns
  <2>5. [ts[t] EXCEPT !.state = "working"] \in TaskRows
    BY <2>3 DEF TaskRows, TaskStates, ActiveStates
  <2>6. QED
    BY <2>1, <2>2, <2>4, <2>5, ExceptSeq, AppendProperties
<1>2. CASE ~(IsIdle(ts) /\ queued # {})
  BY <1>2 DEF ActivateNext
<1>3. QED
  BY <1>1, <1>2

\* A row number a query returns is a row number.
LEMMA FirstClaimable ==
  ASSUME TypeOK, NEW a, Claimable(a) # {}
  PROVE  First(Claimable(a)) \in Rows /\ First(Claimable(a)) \in Claimable(a)
<1>1. Claimable(a) \subseteq Nat
  BY DEF TypeOK, Claimable, Rows
<1>2. QED
  BY <1>1, FirstIsLeast DEF Claimable

LEMMA FirstRequest ==
  ASSUME TypeOK, NEW t, NEW r, RequestRows(t, r) # {}
  PROVE  First(RequestRows(t, r)) \in RequestRows(t, r)
<1>1. RequestRows(t, r) \subseteq Nat
  BY DEF TypeOK, RequestRows, Rows
<1>2. QED
  BY <1>1, FirstIsLeast

-----------------------------------------------------------------------------
(* Type correctness.                                                       *)

LEMMA RowTypes ==
  ASSUME NEW row \in MessageRows
  PROVE  /\ Acked(row) \in MessageRows
         /\ Expired(row) \in MessageRows
         /\ \A s \in Sessions : Leased(row, s) \in MessageRows
         /\ \A how \in {"payload", "recipient"} :
               [row EXCEPT !.damage = how] \in MessageRows
BY DEF MessageRows, Acked, Expired, Leased

LEMMA TaskTypes ==
  ASSUME NEW task \in TaskRows
  PROVE  /\ \A state \in TaskStates : [task EXCEPT !.state = state] \in TaskRows
         /\ \A topic \in Topics : Reopened(task, topic) \in TaskRows
         /\ \A t \in Nat : RequestRow(task, t) \in MessageRows
BY DEF TaskRows, MessageRows, RequestColumns, Reopened, RequestRow, TaskStates, ActiveStates

LEMMA RowsAreTyped ==
  ASSUME TypeOK
  PROVE  /\ \A m \in DOMAIN messages : m \in Nat /\ messages[m] \in MessageRows
         /\ \A t \in DOMAIN tasks : t \in Nat /\ tasks[t] \in TaskRows
BY DEF TypeOK

\* Updating one row keeps the table a table.
LEMMA RowUpdated ==
  ASSUME TypeOK, NEW m \in DOMAIN messages, NEW row \in MessageRows
  PROVE  /\ [messages EXCEPT ![m] = row] \in Seq(MessageRows)
         /\ DOMAIN [messages EXCEPT ![m] = row] = DOMAIN messages
BY ExceptSeq DEF TypeOK

LEMMA TaskUpdated ==
  ASSUME TypeOK, NEW t, NEW task, t \in DOMAIN tasks => task \in TaskRows
  PROVE  /\ [tasks EXCEPT ![t] = task] \in Seq(TaskRows)
         /\ DOMAIN [tasks EXCEPT ![t] = task] = DOMAIN tasks
<1>1. CASE t \in DOMAIN tasks
  BY <1>1, ExceptSeq DEF TypeOK
<1>2. CASE t \notin DOMAIN tasks
  <2>1. [tasks EXCEPT ![t] = task] = tasks
    BY <1>2 DEF TypeOK
  <2>2. QED
    BY <2>1 DEF TypeOK
<1>3. QED
  BY <1>1, <1>2

LEMMA AnsweredTypes ==
  ASSUME TypeOK, NEW t, RequestRows(t, tasks[t].round) # {}
  PROVE  /\ Answered(t) \in Seq(MessageRows)
         /\ DOMAIN Answered(t) = DOMAIN messages
<1> DEFINE q == First(RequestRows(t, tasks[t].round))
<1>1. q \in DOMAIN messages
  BY FirstRequest DEF RequestRows, Rows
<1>2. Acked(messages[q]) \in MessageRows
  <2>1. messages[q] \in MessageRows
    BY <1>1, RowsAreTyped
  <2>2. QED
    BY <2>1, RowTypes
<1>3. QED
  BY <1>1, <1>2, RowUpdated DEF Answered

LEMMA TypeStep ==
  ASSUME TypeOK, [Next]_storeVars
  PROVE  TypeOK'
<1> USE DEF TypeOK
<1>1. ASSUME NEW a \in Agents, NEW s \in Sessions, JoinMember(a, s) PROVE TypeOK'
  BY <1>1 DEF JoinMember, MemberRows
<1>2. ASSUME NEW a \in Agents, NEW s \in Sessions, LeaveMember(a, s) PROVE TypeOK'
  BY <1>2 DEF LeaveMember, MemberRows
<1>3. ASSUME NEW a \in Agents, NEW s \in Sessions, AcknowledgeReplies(a, s) PROVE TypeOK'
  <2>1. \A m \in DOMAIN messages : messages[m] \in MessageRows
    BY RowsAreTyped
  <2>2. \A m \in DOMAIN messages : Acked(messages[m]) \in MessageRows
    BY <2>1, RowTypes
  <2>3. DOMAIN messages = 1..Len(messages) /\ Len(messages) \in Nat
    OBVIOUS
  <2> DEFINE row(m) == IF m \in LeasedReplies(a, s) THEN Acked(messages[m])
                       ELSE messages[m]
  <2>4. messages' = [m \in 1..Len(messages) |-> row(m)]
    BY <1>3, <2>3 DEF AcknowledgeReplies
  <2>5. \A m \in 1..Len(messages) : row(m) \in MessageRows
    BY <2>1, <2>2, <2>3
  <2> HIDE DEF row
  <2>6. messages' \in Seq(MessageRows) /\ DOMAIN messages' = DOMAIN messages
    BY <2>3, <2>4, <2>5
  <2>7. QED
    BY <1>3, <2>6 DEF AcknowledgeReplies
<1>4. ASSUME NEW a \in Agents, NEW s \in Sessions, NEW w \in Waiters,
             BeginWait(a, s, w)
      PROVE  TypeOK'
  BY <1>4 DEF BeginWait, MemberRows
<1>5. ASSUME NEW a \in Agents, NEW s \in Sessions, NEW w \in Waiters,
             ClearWaiter(a, s, w)
      PROVE  TypeOK'
  BY <1>5 DEF ClearWaiter, MemberRows
<1>6. ASSUME NEW a \in Agents, NEW s \in Sessions, NEW w \in Waiters,
             ClaimMessage(a, s, w)
      PROVE  TypeOK'
  <2> DEFINE m == First(Claimable(a))
  <2>1. m \in DOMAIN messages /\ messages' = [messages EXCEPT ![m] = Leased(@, s)]
    BY <1>6, FirstClaimable DEF ClaimMessage, Rows
  <2>2. Leased(messages[m], s) \in MessageRows
    <3>1. messages[m] \in MessageRows
      BY <2>1, RowsAreTyped
    <3>2. QED
      BY <3>1, RowTypes
  <2>3. messages' \in Seq(MessageRows) /\ DOMAIN messages' = DOMAIN messages
    BY <2>1, <2>2, RowUpdated
  <2>4. QED
    BY <1>6, <2>3 DEF ClaimMessage
<1>7. ASSUME NEW a \in Agents, NEW s \in Sessions, NEW w \in Waiters,
             QuarantineMessage(a, s, w)
      PROVE  TypeOK'
  <2> DEFINE m == First(Claimable(a))
             t == messages[m].task
             ts == [tasks EXCEPT ![t].state = "blocked"]
  <2>1. m \in DOMAIN messages /\ quarantined' = quarantined \cup {m}
        /\ ActivateNext(ts, messages)
    BY <1>7, FirstClaimable DEF QuarantineMessage, Rows
  <2>2. t \in DOMAIN tasks => [tasks[t] EXCEPT !.state = "blocked"] \in TaskRows
    <3>1. t \in DOMAIN tasks => tasks[t] \in TaskRows
      BY RowsAreTyped
    <3>2. QED
      BY <3>1, TaskTypes DEF TaskStates, TerminalStates
  <2>3. ts \in Seq(TaskRows)
    BY <2>2, TaskUpdated
  <2>4. /\ tasks' \in Seq(TaskRows) /\ messages' \in Seq(MessageRows)
        /\ DOMAIN messages \subseteq DOMAIN messages'
    BY <2>1, <2>3, ActivationTypes
  <2>5. QED
    BY <1>7, <2>1, <2>4 DEF QuarantineMessage
<1>8. ASSUME NEW r \in Requests, EnqueueTask(r) PROVE TypeOK'
  <2> DEFINE task == [req |-> r, state |-> "queued", round |-> 1]
  <2>1. task \in TaskRows
    BY DEF TaskRows, TaskStates, Requests
  <2>2. Append(tasks, task) \in Seq(TaskRows)
    BY <2>1
  <2>3. QED
    BY <1>8, <2>2, ActivationTypes DEF EnqueueTask
<1>9. ASSUME NEW t \in DOMAIN tasks, NEW a \in Agents, NEW topic \in Topics,
             ResumeContextCheck(t, a, topic)
      PROVE  TypeOK'
  <2> DEFINE task == Reopened(tasks[t], topic)
  <2>1. task \in TaskRows /\ t \in Nat
    BY TaskTypes
  <2>2. [tasks EXCEPT ![t] = task] \in Seq(TaskRows)
    BY <2>1, TaskUpdated
  <2>3. RequestRow(task, t) \in MessageRows
    BY <2>1, TaskTypes
  <2>4. /\ Append(messages, RequestRow(task, t)) \in Seq(MessageRows)
        /\ DOMAIN messages \subseteq DOMAIN Append(messages, RequestRow(task, t))
    BY <2>3
  <2>5. QED
    BY <1>9, <2>2, <2>4 DEF ResumeContextCheck
<1>10. ASSUME NEW t \in DOMAIN tasks, NEW a \in Agents, NEW o \in Outcomes,
              NEW b \in Bodies, Reply(t, a, o, b)
       PROVE  TypeOK'
  <2> DEFINE ms == Append(Answered(t), ReplyRow(t, o, b))
             ts == [tasks EXCEPT ![t].state = StateAfter(o)]
  <2>1. /\ Answered(t) \in Seq(MessageRows)
        /\ DOMAIN Answered(t) = DOMAIN messages
    BY <1>10, AnsweredTypes DEF Reply, MayReply
  <2>2. tasks[t] \in TaskRows /\ t \in Nat
    OBVIOUS
  <2>3. ReplyRow(t, o, b) \in MessageRows
    BY <2>2 DEF ReplyRow, MessageRows, TaskRows, RequestColumns
  <2>4. ms \in Seq(MessageRows) /\ DOMAIN messages \subseteq DOMAIN ms
    BY <2>1, <2>3
  <2>5. StateAfter(o) \in TaskStates
    BY DEF StateAfter, TaskStates, ActiveStates, TerminalStates, Outcomes,
           TerminalOutcomes
  <2>6. ts \in Seq(TaskRows)
    BY <2>2, <2>5, TaskTypes, TaskUpdated
  <2>7. /\ tasks' \in Seq(TaskRows) /\ messages' \in Seq(MessageRows)
        /\ DOMAIN messages \subseteq DOMAIN messages'
    BY <1>10, <2>4, <2>6, ActivationTypes DEF Reply
  <2>8. checks' \in [Agents -> CheckRows]
    BY <1>10 DEF Reply, CheckRows
  <2>9. QED
    BY <1>10, <2>7, <2>8 DEF Reply
<1>11. ASSUME NEW t \in DOMAIN tasks, NEW a \in Agents, NEW k \in Samples,
              NEW p \in Prints, RecordContextCheck(a, k, p, t)
       PROVE  TypeOK'
  BY <1>11, SampleAssumption DEF RecordContextCheck, CheckRows
<1>12. ASSUME NEW t \in DOMAIN tasks, NEW r \in 1..MaxRounds, NEW f \in Snapshots,
              RecordBaseline(t, r, f)
       PROVE  TypeOK'
  BY <1>12 DEF RecordBaseline, BaselineRows
<1>13. ASSUME NEW a \in Agents, ClearContextCheck(a) PROVE TypeOK'
  BY <1>13 DEF ClearContextCheck, CheckRows, NoCheck
<1>14. ASSUME NEW m \in DOMAIN messages, LeaseExpires(m) PROVE TypeOK'
  <2>1. Expired(messages[m]) \in MessageRows
    <3>1. messages[m] \in MessageRows
      BY RowsAreTyped
    <3>2. QED
      BY <3>1, RowTypes
  <2>2. QED
    BY <1>14, <2>1, RowUpdated DEF LeaseExpires
<1>15. ASSUME NEW m \in DOMAIN messages, NEW how \in {"payload", "recipient"},
              DamageRow(m, how)
       PROVE  TypeOK'
  <2>1. [messages[m] EXCEPT !.damage = how] \in MessageRows
    <3>1. messages[m] \in MessageRows
      BY RowsAreTyped
    <3>2. QED
      BY <3>1, RowTypes
  <2>2. QED
    BY <1>15, <2>1, RowUpdated DEF DamageRow
<1>16. CASE UNCHANGED storeVars
  BY <1>16 DEF storeVars
<1>17. QED
  BY <1>1, <1>2, <1>3, <1>4, <1>5, <1>6, <1>7, <1>8, <1>9, <1>10, <1>11, <1>12,
     <1>13, <1>14, <1>15, <1>16 DEF Next

\* The tables keep their types: no transaction writes a row the schema and the
\* readers (_task_from_row, _validate_message_row) would not accept.
THEOREM TypeCorrect == Spec => []TypeOK
<1>1. Init => TypeOK
  BY DEF Init, TypeOK, MemberRows, CheckRows, NoCheck
<1>2. TypeOK /\ [Next]_storeVars => TypeOK'
  BY TypeStep
<1>3. QED
  BY <1>1, <1>2, PTL DEF Spec

-----------------------------------------------------------------------------
(* The order of service.                                                   *)

InOrder(ts) ==
    \A t, u \in DOMAIN ts :
        t < u /\ ts[u].state # "queued" => ts[t].state \in TerminalStates

\* Only a task that was started has message rows: quarantine, which blocks the
\* task of the row it meets, never takes a queued task out of its turn.
RowsOfStartedTasks ==
    \A m \in DOMAIN messages : /\ messages[m].task \in DOMAIN tasks
                               /\ tasks[messages[m].task].state # "queued"

QueueInv == ServedInOrder /\ NeverIdleWithWork /\ RowsOfStartedTasks

\* Activation restores "never idle" and keeps the order.
LEMMA ActivationServes ==
  ASSUME NEW ts \in Seq(TaskRows), NEW ms \in Seq(MessageRows),
         InOrder(ts), ActivateNext(ts, ms),
         \A m \in DOMAIN ms : /\ ms[m].task \in DOMAIN ts
                              /\ ts[ms[m].task].state # "queued"
  PROVE  QueueInv'
<1> DEFINE queued == InState(ts, {"queued"})
<1>1. CASE IsIdle(ts) /\ queued # {}
  <2> DEFINE t == First(queued)
  <2>1. queued \subseteq Nat
    BY DEF InState
  <2>2. t \in DOMAIN ts /\ t \in Nat /\ ts[t].state = "queued" /\ \A k \in queued : t <= k
    BY <1>1, <2>1, FirstIsLeast DEF InState
  <2>3. /\ tasks' = [ts EXCEPT ![t].state = "working"]
        /\ messages' = Append(ms, RequestRow(ts[t], t))
    BY <1>1 DEF ActivateNext
  <2> HIDE DEF t
  <2>4. /\ DOMAIN tasks' = DOMAIN ts
        /\ \A u \in DOMAIN ts : tasks'[u].state = IF u = t THEN "working" ELSE ts[u].state
    BY <2>2, <2>3 DEF TaskRows
  <2>5. \A u \in DOMAIN ts : u \in Nat /\ ts[u].state \in TaskStates
    <3>1. \A u \in DOMAIN ts : u \in Nat /\ ts[u] \in TaskRows
      OBVIOUS
    <3>2. QED
      BY <3>1 DEF TaskRows
  <2>6. ASSUME NEW x \in DOMAIN ts, x < t PROVE ts[x].state \in TerminalStates
    <3>1. x \in Nat /\ ts[x].state \in TaskStates
      BY <2>5
    <3>2. x \notin queued
      BY <2>2, <2>6, <3>1
    <3>3. ts[x].state \notin ActiveStates
      BY <1>1 DEF IsIdle, InState
    <3>4. QED
      BY <3>1, <3>2, <3>3 DEF TaskStates, InState
  <2>7. ServedInOrder'
    <3>1. SUFFICES ASSUME NEW x \in DOMAIN ts, NEW u \in DOMAIN ts, x < u,
                          tasks'[u].state # "queued"
                   PROVE  tasks'[x].state \in TerminalStates
      BY <2>4 DEF ServedInOrder
    <3>2. CASE u = t
      BY <3>1, <3>2, <2>4, <2>5, <2>6
    <3>3. CASE u # t
      <4>1. ts[u].state # "queued"
        BY <3>1, <3>3, <2>4
      <4>2. ts[x].state \in TerminalStates
        BY <3>1, <4>1 DEF InOrder
      <4>3. x # t
        BY <4>2, <2>2 DEF TerminalStates
      <4>4. QED
        BY <4>2, <4>3, <2>4
    <3>4. QED
      BY <3>2, <3>3
  <2>8. NeverIdleWithWork'
    <3>1. tasks'[t].state = "working" /\ t \in DOMAIN tasks'
      BY <2>2, <2>4
    <3>2. QED
      BY <3>1 DEF NeverIdleWithWork, InState, ActiveStates
  <2>9. RowsOfStartedTasks'
    <3>1. /\ DOMAIN messages' = 1..Len(ms)+1 /\ DOMAIN ms = 1..Len(ms) /\ Len(ms) \in Nat
          /\ \A m \in 1..Len(ms) : messages'[m] = ms[m]
          /\ messages'[Len(ms)+1] = RequestRow(ts[t], t)
      BY <2>3
    <3>2. ASSUME NEW m \in 1..Len(ms)
          PROVE  /\ messages'[m].task \in DOMAIN tasks'
                 /\ tasks'[messages'[m].task].state # "queued"
      BY <3>1, <2>4
    <3>3. messages'[Len(ms)+1].task = t
      BY <3>1 DEF RequestRow
    <3>4. QED
      BY <3>1, <3>2, <3>3, <2>2, <2>4 DEF RowsOfStartedTasks
  <2>10. QED
    BY <2>7, <2>8, <2>9 DEF QueueInv
<1>2. CASE ~(IsIdle(ts) /\ queued # {})
  <2>1. tasks' = ts /\ messages' = ms
    BY <1>2 DEF ActivateNext
  <2>2. QED
    BY <1>2, <2>1 DEF QueueInv, ServedInOrder, InOrder, NeverIdleWithWork, IsIdle,
                      InState, RowsOfStartedTasks
<1>3. QED
  BY <1>1, <1>2

\* A transaction that leaves tasks alone, and the columns of messages that name
\* a task, keeps the queue as it is.
LEMMA QueueUntouched ==
  ASSUME QueueInv, UNCHANGED tasks, DOMAIN messages' = DOMAIN messages,
         \A m \in DOMAIN messages : messages'[m].task = messages[m].task
  PROVE  QueueInv'
BY DEF QueueInv, ServedInOrder, NeverIdleWithWork, InState, RowsOfStartedTasks

\* Ending a started task, whatever became of it before, keeps the order.
LEMMA EndingKeepsOrder ==
  ASSUME TypeOK, QueueInv, NEW t \in DOMAIN tasks, tasks[t].state # "queued",
         NEW state \in TerminalStates
  PROVE  /\ InOrder([tasks EXCEPT ![t].state = state])
         /\ \A u \in DOMAIN tasks :
               tasks[u].state # "queued" =>
                 [tasks EXCEPT ![t].state = state][u].state # "queued"
<1> DEFINE ts == [tasks EXCEPT ![t].state = state]
<1>1. \A u \in DOMAIN tasks : tasks[u] \in TaskRows
  BY RowsAreTyped
<1>2. /\ DOMAIN ts = DOMAIN tasks
      /\ \A u \in DOMAIN tasks : ts[u].state = IF u = t THEN state ELSE tasks[u].state
  BY <1>1 DEF TaskRows
<1>3. state # "queued"
  BY DEF TerminalStates
<1> HIDE DEF ts
<1>4. InOrder(ts)
  <2>1. SUFFICES ASSUME NEW x \in DOMAIN tasks, NEW u \in DOMAIN tasks, x < u,
                        ts[u].state # "queued"
                 PROVE  ts[x].state \in TerminalStates
    BY <1>2 DEF InOrder
  <2>2. tasks[u].state # "queued"
    BY <2>1, <1>2
  <2>3. tasks[x].state \in TerminalStates
    BY <2>1, <2>2 DEF QueueInv, ServedInOrder
  <2>4. QED
    BY <2>3, <1>2
<1>5. QED
  BY <1>2, <1>3, <1>4 DEF ts

LEMMA QueueStep ==
  ASSUME TypeOK, QueueInv, [Next]_storeVars
  PROVE  QueueInv'
<1>1. ASSUME NEW a \in Agents, NEW s \in Sessions, JoinMember(a, s) PROVE QueueInv'
  BY <1>1, QueueUntouched DEF JoinMember
<1>2. ASSUME NEW a \in Agents, NEW s \in Sessions, LeaveMember(a, s) PROVE QueueInv'
  BY <1>2, QueueUntouched DEF LeaveMember
<1>3. ASSUME NEW a \in Agents, NEW s \in Sessions, AcknowledgeReplies(a, s)
      PROVE  QueueInv'
  <2>1. \A m \in DOMAIN messages : messages[m] \in MessageRows
    BY RowsAreTyped
  <2>2. /\ DOMAIN messages' = DOMAIN messages
        /\ \A m \in DOMAIN messages : messages'[m].task = messages[m].task
    BY <1>3, <2>1 DEF AcknowledgeReplies, Acked, MessageRows
  <2>3. QED
    BY <1>3, <2>2, QueueUntouched DEF AcknowledgeReplies
<1>4. ASSUME NEW a \in Agents, NEW s \in Sessions, NEW w \in Waiters,
             BeginWait(a, s, w) \/ ClearWaiter(a, s, w)
      PROVE  QueueInv'
  BY <1>4, QueueUntouched DEF BeginWait, ClearWaiter
<1>5. ASSUME NEW a \in Agents, NEW s \in Sessions, NEW w \in Waiters,
             ClaimMessage(a, s, w)
      PROVE  QueueInv'
  <2> DEFINE m == First(Claimable(a))
  <2>1. messages' = [messages EXCEPT ![m] = Leased(@, s)]
    BY <1>5 DEF ClaimMessage
  <2>2. \A n \in DOMAIN messages : messages[n] \in MessageRows
    BY RowsAreTyped
  <2>3. \A n \in DOMAIN messages : messages'[n].task = messages[n].task
    BY <2>1, <2>2 DEF Leased, MessageRows
  <2>4. QED
    BY <1>5, <2>1, <2>3, QueueUntouched DEF ClaimMessage
<1>6. ASSUME NEW a \in Agents, NEW s \in Sessions, NEW w \in Waiters,
             QuarantineMessage(a, s, w)
      PROVE  QueueInv'
  <2> DEFINE m == First(Claimable(a))
             t == messages[m].task
             ts == [tasks EXCEPT ![t].state = "blocked"]
  <2>1. m \in DOMAIN messages /\ ActivateNext(ts, messages)
    BY <1>6, FirstClaimable DEF QuarantineMessage, Rows
  <2>2. t \in DOMAIN tasks /\ tasks[t].state # "queued"
    BY <2>1 DEF QueueInv, RowsOfStartedTasks
  <2>3. [tasks[t] EXCEPT !.state = "blocked"] \in TaskRows
    <3>1. tasks[t] \in TaskRows
      BY <2>2, RowsAreTyped
    <3>2. QED
      BY <3>1, TaskTypes DEF TaskStates, TerminalStates
  <2>4. ts \in Seq(TaskRows) /\ DOMAIN ts = DOMAIN tasks
    BY <2>3, TaskUpdated
  <2>5. /\ InOrder(ts)
        /\ \A u \in DOMAIN tasks : tasks[u].state # "queued" => ts[u].state # "queued"
    BY <2>2, EndingKeepsOrder DEF TerminalStates
  <2>6. \A n \in DOMAIN messages : /\ messages[n].task \in DOMAIN ts
                                   /\ ts[messages[n].task].state # "queued"
    BY <2>4, <2>5 DEF QueueInv, RowsOfStartedTasks
  <2> HIDE DEF ts
  <2>7. QED
    BY <2>1, <2>4, <2>5, <2>6, ActivationServes DEF TypeOK
<1>7. ASSUME NEW r \in Requests, EnqueueTask(r) PROVE QueueInv'
  <2> DEFINE task == [req |-> r, state |-> "queued", round |-> 1]
             ts == Append(tasks, task)
  <2>1. task \in TaskRows
    BY DEF TaskRows, TaskStates, Requests
  <2>2. /\ ts \in Seq(TaskRows) /\ DOMAIN ts = 1..(Len(tasks) + 1)
        /\ DOMAIN tasks = 1..Len(tasks) /\ Len(tasks) \in Nat
        /\ \A u \in 1..Len(tasks) : ts[u] = tasks[u]
        /\ ts[Len(tasks) + 1].state = "queued"
    BY <2>1 DEF TypeOK
  <2> HIDE DEF ts
  <2>3. InOrder(ts)
    BY <2>2 DEF InOrder, QueueInv, ServedInOrder
  <2>4. \A n \in DOMAIN messages : /\ messages[n].task \in DOMAIN ts
                                   /\ ts[messages[n].task].state # "queued"
    BY <2>2 DEF QueueInv, RowsOfStartedTasks
  <2>5. ActivateNext(ts, messages)
    BY <1>7 DEF EnqueueTask, ts
  <2>6. QED
    BY <2>2, <2>3, <2>4, <2>5, ActivationServes DEF TypeOK
<1>8. ASSUME NEW t \in DOMAIN tasks, NEW a \in Agents, NEW topic \in Topics,
             ResumeContextCheck(t, a, topic)
      PROVE  QueueInv'
  <2> DEFINE task == Reopened(tasks[t], topic)
             row == RequestRow(task, t)
  <2>1. \A u \in DOMAIN tasks : u \in Nat /\ tasks[u] \in TaskRows
    BY RowsAreTyped
  <2>2. /\ tasks' = [tasks EXCEPT ![t] = task] /\ task.state = "working"
        /\ tasks[t].state = "waiting_checkpoint"
        /\ messages' = Append(messages, row) /\ row.task = t
    BY <1>8 DEF ResumeContextCheck, WaitingChecks, Reopened, RequestRow
  <2>3. /\ DOMAIN tasks' = DOMAIN tasks
        /\ \A u \in DOMAIN tasks :
              tasks'[u].state = IF u = t THEN "working" ELSE tasks[u].state
    BY <2>1, <2>2
  <2>4. row \in MessageRows
    BY <2>1, TaskTypes
  <2>5. /\ DOMAIN messages' = 1..(Len(messages) + 1)
        /\ DOMAIN messages = 1..Len(messages) /\ Len(messages) \in Nat
        /\ \A m \in 1..Len(messages) : messages'[m] = messages[m]
        /\ messages'[Len(messages) + 1] = row
    BY <2>2, <2>4 DEF TypeOK
  <2> HIDE DEF row, task
  <2>6. ServedInOrder'
    BY <2>1, <2>2, <2>3 DEF QueueInv, ServedInOrder, TerminalStates
  <2>7. NeverIdleWithWork'
    BY <2>3 DEF NeverIdleWithWork, InState, ActiveStates
  <2>8. RowsOfStartedTasks'
    BY <2>2, <2>3, <2>5 DEF QueueInv, RowsOfStartedTasks
  <2>9. QED
    BY <2>6, <2>7, <2>8 DEF QueueInv
<1>9. ASSUME NEW t \in DOMAIN tasks, NEW a \in Agents, NEW o \in Outcomes,
             NEW b \in Bodies, Reply(t, a, o, b)
      PROVE  QueueInv'
  <2> DEFINE ms == Append(Answered(t), ReplyRow(t, o, b))
             ts == [tasks EXCEPT ![t].state = StateAfter(o)]
  <2>1. /\ tasks[t].state = "working" /\ RequestRows(t, tasks[t].round) # {}
        /\ tasks[t] \in TaskRows /\ t \in Nat
    BY <1>9, RowsAreTyped DEF Reply, MayReply
  <2>2. ReplyRow(t, o, b) \in MessageRows
    BY <2>1 DEF ReplyRow, MessageRows, TaskRows, RequestColumns
  <2>3. /\ ms \in Seq(MessageRows)
        /\ DOMAIN ms = 1..(Len(messages) + 1)
        /\ DOMAIN messages = 1..Len(messages) /\ Len(messages) \in Nat
        /\ \A m \in 1..Len(messages) : ms[m] = Answered(t)[m]
        /\ ms[Len(messages) + 1] = ReplyRow(t, o, b)
    <3>1. /\ Answered(t) \in Seq(MessageRows)
          /\ DOMAIN Answered(t) = DOMAIN messages
      BY <2>1, AnsweredTypes
    <3>2. /\ DOMAIN messages = 1..Len(messages) /\ Len(messages) \in Nat
          /\ Len(Answered(t)) = Len(messages)
      BY <3>1 DEF TypeOK
    <3> HIDE DEF Answered
    <3>3. QED
      BY <3>1, <3>2, <2>2, AppendProperties
  <2>4. \A m \in 1..Len(messages) : Answered(t)[m].task = messages[m].task
    <3>1. \A m \in 1..Len(messages) : messages[m] \in MessageRows
      BY <2>3, RowsAreTyped
    <3>2. QED
      BY <3>1, <2>3 DEF Answered, Acked, MessageRows
  <2>5. \A m \in DOMAIN ms : ms[m].task \in DOMAIN tasks /\ tasks[ms[m].task].state # "queued"
    <3>1. ReplyRow(t, o, b).task = t
      BY DEF ReplyRow
    <3> HIDE DEF ms, Answered, ReplyRow
    <3>2. QED
      BY <2>1, <2>3, <2>4, <3>1 DEF QueueInv, RowsOfStartedTasks
  <2> HIDE DEF ms
  <2>6. CASE o \in TerminalOutcomes
    <3>1. StateAfter(o) \in TerminalStates /\ StateAfter(o) \in TaskStates
      BY <2>6 DEF StateAfter, TerminalStates, TerminalOutcomes, TaskStates
    <3>2. ts \in Seq(TaskRows) /\ DOMAIN ts = DOMAIN tasks
      BY <2>1, <3>1, TaskTypes, TaskUpdated
    <3>3. /\ InOrder(ts)
          /\ \A u \in DOMAIN tasks : tasks[u].state # "queued" => ts[u].state # "queued"
      BY <2>1, <3>1, EndingKeepsOrder
    <3> HIDE DEF ts
    <3>4. \A m \in DOMAIN ms : ms[m].task \in DOMAIN ts /\ ts[ms[m].task].state # "queued"
      BY <2>5, <3>2, <3>3
    <3>5. ActivateNext(ts, ms)
      BY <1>9, <2>6 DEF Reply, ts, ms
    <3>6. QED
      BY <2>3, <3>2, <3>3, <3>4, <3>5, ActivationServes
  <2>7. CASE o \notin TerminalOutcomes
    <3>1. StateAfter(o) = "waiting_checkpoint"
      BY <2>7 DEF StateAfter, Outcomes
    <3>2. tasks' = ts /\ messages' = ms
      BY <1>9, <2>7 DEF Reply, ts, ms
    <3>3. /\ DOMAIN tasks' = DOMAIN tasks
          /\ \A u \in DOMAIN tasks :
                tasks'[u].state = IF u = t THEN "waiting_checkpoint" ELSE tasks[u].state
      <4>1. \A u \in DOMAIN tasks : tasks[u] \in TaskRows
        BY RowsAreTyped
      <4>2. QED
        BY <3>1, <3>2, <4>1 DEF TaskRows
    <3> HIDE DEF ts
    <3>4. ServedInOrder'
      BY <2>1, <3>3 DEF QueueInv, ServedInOrder, TerminalStates
    <3>5. NeverIdleWithWork'
      BY <3>3 DEF NeverIdleWithWork, InState, ActiveStates
    <3>6. RowsOfStartedTasks'
      BY <2>5, <3>2, <3>3 DEF RowsOfStartedTasks
    <3>7. QED
      BY <3>4, <3>5, <3>6 DEF QueueInv
  <2>8. QED
    BY <2>6, <2>7
<1>10. ASSUME NEW t \in DOMAIN tasks, NEW a \in Agents, NEW k \in Samples,
              NEW p \in Prints, RecordContextCheck(a, k, p, t)
       PROVE  QueueInv'
  BY <1>10, QueueUntouched DEF RecordContextCheck
<1>11. ASSUME NEW t \in DOMAIN tasks, NEW r \in 1..MaxRounds, NEW f \in Snapshots,
              RecordBaseline(t, r, f)
       PROVE  QueueInv'
  BY <1>11, QueueUntouched DEF RecordBaseline
<1>12. ASSUME NEW a \in Agents, ClearContextCheck(a) PROVE QueueInv'
  BY <1>12, QueueUntouched DEF ClearContextCheck
<1>13. ASSUME NEW m \in DOMAIN messages,
              LeaseExpires(m) \/ \E how \in {"payload", "recipient"} : DamageRow(m, how)
       PROVE  QueueInv'
  <2>1. \A n \in DOMAIN messages : messages[n] \in MessageRows
    BY RowsAreTyped
  <2>2. /\ DOMAIN messages' = DOMAIN messages
        /\ \A n \in DOMAIN messages : messages'[n].task = messages[n].task
        /\ UNCHANGED tasks
    <3>1. CASE LeaseExpires(m)
      <4>1. messages' = [messages EXCEPT ![m] = Expired(@)] /\ UNCHANGED tasks
        BY <3>1 DEF LeaseExpires
      <4>2. Expired(messages[m]).task = messages[m].task
        BY <2>1 DEF Expired, MessageRows
      <4>3. QED
        BY <4>1, <4>2
    <3>2. CASE \E how \in {"payload", "recipient"} : DamageRow(m, how)
      <4>1. PICK how \in {"payload", "recipient"} : DamageRow(m, how)
        BY <3>2
      <4>2. messages' = [messages EXCEPT ![m].damage = how] /\ UNCHANGED tasks
        BY <4>1 DEF DamageRow
      <4>3. QED
        BY <4>2, <2>1 DEF MessageRows
    <3>3. QED
      BY <1>13, <3>1, <3>2
  <2>3. QED
    BY <2>2, QueueUntouched
<1>14. CASE UNCHANGED storeVars
  BY <1>14, QueueUntouched DEF storeVars
<1>15. QED
  BY <1>1, <1>2, <1>3, <1>4, <1>5, <1>6, <1>7, <1>8, <1>9, <1>10, <1>11, <1>12,
     <1>13, <1>14 DEF Next

\* Tasks are served strictly in the order they were sent, and the advisor is
\* never idle while one is queued, whoever calls the store and in whatever order.
THEOREM QueueCorrect == Spec => [](ServedInOrder /\ NeverIdleWithWork)
<1>1. Init => QueueInv
  BY DEF Init, QueueInv, ServedInOrder, NeverIdleWithWork, InState, RowsOfStartedTasks
<1>2. TypeOK /\ QueueInv /\ [Next]_storeVars => QueueInv'
  BY QueueStep
<1>3. QueueInv => ServedInOrder /\ NeverIdleWithWork
  BY DEF QueueInv
<1>4. QED
  BY <1>1, <1>2, <1>3, TypeCorrect, PTL DEF Spec

-----------------------------------------------------------------------------
(* The room implements the advisor queue.                                  *)
(*                                                                         *)
(* A transaction is first described by what it does to each task alone: it *)
(* leaves its phase, starts it if it was queued, or ends the one that was  *)
(* served (StaysOrStarts, EndsOne).  Which task that is follows from the   *)
(* invariant before and after the step, not from the transaction: in order *)
(* and never idle leave no choice but the next in line.                    *)

Phase(t) == PhaseOf(tasks[t].state)

StaysOrStarts(t) ==
    \/ PhaseOf(tasks'[t].state) = Phase(t)
    \/ tasks[t].state = "queued" /\ tasks'[t].state = "working"

\* No task ends; there may be one more.
EndsNone ==
    /\ \A t \in DOMAIN tasks : StaysOrStarts(t)
    /\ \/ DOMAIN tasks' = DOMAIN tasks
       \/ /\ DOMAIN tasks' = 1..(Len(tasks) + 1)
          /\ tasks'[Len(tasks) + 1].state \in {"queued", "working"}

\* The task e ends.
EndsOne(e) ==
    /\ DOMAIN tasks' = DOMAIN tasks
    /\ Phase(e) = "serving" /\ PhaseOf(tasks'[e].state) = "over"
    /\ \A t \in DOMAIN tasks \ {e} : StaysOrStarts(t)

RoomInv == TypeOK /\ QueueInv

-----------------------------------------------------------------------------
(* Phases.                                                                 *)

LEMMA PhaseIsState ==
  ASSUME NEW state \in TaskStates
  PROVE  /\ PhaseOf(state) \in {"waiting", "serving", "over"}
         /\ PhaseOf(state) = "waiting" <=> state = "queued"
         /\ PhaseOf(state) = "serving" <=> state \in ActiveStates
         /\ PhaseOf(state) = "over" <=> state \in TerminalStates
BY DEF PhaseOf, TaskStates, ActiveStates, TerminalStates

LEMMA TasksHaveStates ==
  ASSUME NEW ts \in Seq(TaskRows)
  PROVE  /\ DOMAIN ts = 1..Len(ts) /\ Len(ts) \in Nat
         /\ \A t \in DOMAIN ts : t \in Nat /\ ts[t].state \in TaskStates
<1>1. \A t \in DOMAIN ts : t \in Nat /\ ts[t] \in TaskRows
  OBVIOUS
<1>2. QED
  BY <1>1 DEF TaskRows

\* What the invariant says of the tasks, now and in the next state.
LEMMA RoomTasks ==
  ASSUME RoomInv, RoomInv'
  PROVE  /\ tasks \in Seq(TaskRows) /\ tasks' \in Seq(TaskRows)
         /\ InOrder(tasks) /\ InOrder(tasks')
         /\ InState(tasks, {"queued"}) # {} => InState(tasks, ActiveStates) # {}
         /\ InState(tasks', {"queued"}) # {} => InState(tasks', ActiveStates) # {}
BY DEF RoomInv, TypeOK, QueueInv, ServedInOrder, NeverIdleWithWork, InOrder, InState

\* One task is served at a time.
LEMMA OneIsServed ==
  ASSUME NEW ts \in Seq(TaskRows), InOrder(ts), NEW t \in DOMAIN ts, NEW u \in DOMAIN ts,
         ts[t].state \in ActiveStates, ts[u].state \in ActiveStates
  PROVE  t = u
<1>1. t \in Nat /\ u \in Nat
  BY TasksHaveStates
<1>2. ~(t < u) /\ ~(u < t)
  BY DEF InOrder, ActiveStates, TerminalStates
<1>3. QED
  BY <1>1, <1>2

\* A step that ends no task starts none of those in line: somebody is served.
LEMMA NoneStarts ==
  ASSUME RoomInv, RoomInv', EndsNone
  PROVE  \A t \in DOMAIN tasks : PhaseOf(tasks'[t].state) = Phase(t)
<1>1. SUFFICES ASSUME NEW t \in DOMAIN tasks, tasks[t].state = "queued",
                      tasks'[t].state = "working"
               PROVE  FALSE
  BY DEF EndsNone, StaysOrStarts
<1>2. PICK u \in DOMAIN tasks : tasks[u].state \in ActiveStates
  BY <1>1, RoomTasks DEF InState
<1>3. DOMAIN tasks \subseteq DOMAIN tasks'
  BY TasksHaveStates, RoomTasks DEF EndsNone
<1>4. tasks'[u].state \in ActiveStates /\ t # u
  <2>1. PhaseOf(tasks'[u].state) = Phase(u) /\ t # u
    BY <1>1, <1>2 DEF EndsNone, StaysOrStarts, ActiveStates
  <2>2. tasks[u].state \in TaskStates /\ tasks'[u].state \in TaskStates
    BY <1>3, TasksHaveStates, RoomTasks
  <2>3. QED
    BY <1>2, <2>1, <2>2, PhaseIsState DEF Phase
<1>5. tasks'[t].state \in ActiveStates
  BY <1>1 DEF ActiveStates
<1>6. QED
  BY <1>3, <1>4, <1>5, OneIsServed, RoomTasks

\* When the served task ends, the one behind it is served next, if there is one,
\* and no other task changes its phase.
LEMMA NextStarts ==
  ASSUME RoomInv, RoomInv', NEW e \in DOMAIN tasks, EndsOne(e)
  PROVE  \A t \in DOMAIN tasks \ {e} :
            PhaseOf(tasks'[t].state) = IF t = e + 1 THEN "serving" ELSE Phase(t)
<1>1. /\ \A t \in DOMAIN tasks : /\ t \in Nat /\ tasks[t].state \in TaskStates
                                 /\ tasks'[t].state \in TaskStates
      /\ DOMAIN tasks = 1..Len(tasks) /\ Len(tasks) \in Nat
  BY TasksHaveStates, RoomTasks DEF EndsOne
<1>2. tasks[e].state \in ActiveStates /\ tasks'[e].state \in TerminalStates
  BY <1>1, PhaseIsState DEF EndsOne, Phase
<1>3. ASSUME NEW t \in DOMAIN tasks, e < t
      PROVE  tasks[t].state = "queued" /\ tasks'[t].state \in {"queued", "working"}
  <2>1. tasks[t].state = "queued"
    BY <1>2, <1>3, RoomTasks DEF InOrder, ActiveStates, TerminalStates
  <2>2. Phase(t) = "waiting"
    BY <1>1, <2>1, PhaseIsState DEF Phase
  <2>3. QED
    BY <1>1, <1>3, <2>1, <2>2, PhaseIsState DEF EndsOne, StaysOrStarts
<1>4. ASSUME NEW t \in DOMAIN tasks, e < t, tasks'[t].state = "working"
      PROVE  t = e + 1
  <2>1. CASE e + 1 < t
    <3>1. e + 1 \in DOMAIN tasks
      BY <1>1, <2>1
    <3>2. tasks'[e + 1].state \in TerminalStates
      BY <1>1, <1>4, <2>1, <3>1, RoomTasks DEF InOrder, EndsOne
    <3>3. QED
      BY <1>1, <1>3, <3>1, <3>2 DEF TerminalStates
  <2>2. QED
    BY <1>1, <1>4, <2>1
<1>5. ASSUME NEW t \in DOMAIN tasks, t < e
      PROVE  PhaseOf(tasks'[t].state) = Phase(t)
  <2>1. tasks[t].state # "queued"
    BY <1>2, <1>5, RoomTasks DEF InOrder, ActiveStates, TerminalStates
  <2>2. QED
    BY <1>1, <1>5, <2>1 DEF EndsOne, StaysOrStarts
<1>6. ASSUME e + 1 \in DOMAIN tasks
      PROVE  tasks'[e + 1].state = "working"
  <2>1. SUFFICES ASSUME tasks'[e + 1].state = "queued"
                 PROVE  FALSE
    BY <1>1, <1>3, <1>6
  <2>2. PICK u \in DOMAIN tasks : tasks'[u].state \in ActiveStates
    BY <1>6, <2>1, RoomTasks DEF InState, EndsOne
  <2>3. u # e /\ ~(u < e)
    <3>1. CASE u < e
      <4>1. tasks[u].state \in ActiveStates
        BY <1>1, <1>5, <2>2, <3>1, PhaseIsState DEF Phase
      <4>2. QED
        BY <1>1, <1>2, <3>1, <4>1, OneIsServed, RoomTasks
    <3>2. QED
      BY <1>2, <2>2, <3>1 DEF ActiveStates, TerminalStates
  <2>4. e < u /\ tasks'[u].state = "working"
    BY <1>1, <1>3, <2>2, <2>3 DEF ActiveStates
  <2>5. QED
    BY <1>4, <2>1, <2>4
<1>7. TAKE t \in DOMAIN tasks \ {e}
<1>8. CASE t < e
  BY <1>1, <1>5, <1>8
<1>9. CASE t = e + 1
  BY <1>6, <1>9 DEF PhaseOf, ActiveStates
<1>10. CASE e + 1 < t
  <2>1. tasks[t].state = "queued" /\ tasks'[t].state = "queued"
    BY <1>1, <1>3, <1>4, <1>10
  <2>2. QED
    BY <1>1, <1>10, <2>1 DEF Phase
<1>11. QED
  BY <1>1, <1>8, <1>9, <1>10

-----------------------------------------------------------------------------
(* The line.                                                               *)

LEMMA LineIsTyped ==
  ASSUME RoomInv
  PROVE  /\ lineOfTasks \in Seq({"waiting", "serving", "over"})
         /\ Len(lineOfTasks) = Len(tasks) /\ DOMAIN lineOfTasks = DOMAIN tasks
         /\ \A t \in DOMAIN tasks : lineOfTasks[t] = Phase(t)
<1>1. /\ DOMAIN tasks = 1..Len(tasks) /\ Len(tasks) \in Nat
      /\ \A t \in DOMAIN tasks : Phase(t) \in {"waiting", "serving", "over"}
  BY TasksHaveStates, PhaseIsState DEF RoomInv, TypeOK, Phase
<1>2. lineOfTasks = [t \in 1..Len(tasks) |-> Phase(t)]
  BY <1>1 DEF lineOfTasks, Phase
<1>3. QED
  BY <1>1, <1>2

LEMMA OneMore ==
  ASSUME NEW k \in Nat
  PROVE  /\ 1..(k + 1) = 1..k \cup {k + 1}
         /\ \A t \in 1..k : t < k + 1
         /\ k + 1 \in Nat /\ k + 1 \in 1..(k + 1) /\ k + 1 \notin 1..k
OBVIOUS

LEMMA LineByPlaces ==
  ASSUME NEW S, NEW q \in Seq(S)
  PROVE  q = [t \in 1..Len(q) |-> q[t]]
OBVIOUS

LEMMA AppendedLine ==
  ASSUME NEW S, NEW q \in Seq(S), NEW x \in S
  PROVE  Append(q, x) = [t \in 1..(Len(q) + 1) |-> IF t = Len(q) + 1 THEN x ELSE q[t]]
<1> DEFINE r == Append(q, x)
<1>1. /\ r \in Seq(S) /\ Len(r) = Len(q) + 1 /\ Len(q) \in Nat
      /\ \A t \in 1..Len(q) : r[t] = q[t]
      /\ r[Len(q) + 1] = x
  BY AppendProperties
<1> HIDE DEF r
<1>2. r = [t \in 1..(Len(q) + 1) |-> r[t]]
  BY <1>1, LineByPlaces
<1>3. \A t \in 1..(Len(q) + 1) : r[t] = IF t = Len(q) + 1 THEN x ELSE q[t]
  BY <1>1
<1>4. r = [t \in 1..(Len(q) + 1) |-> IF t = Len(q) + 1 THEN x ELSE q[t]]
  BY <1>2, <1>3
<1>5. QED
  BY <1>4 DEF r

LEMMA LineStays ==
  ASSUME RoomInv, RoomInv', EndsNone, DOMAIN tasks' = DOMAIN tasks
  PROVE  lineOfTasks' = lineOfTasks
BY NoneStarts DEF lineOfTasks, Phase

LEMMA LineGrows ==
  ASSUME RoomInv, RoomInv', EndsNone, DOMAIN tasks' # DOMAIN tasks
  PROVE  Queue!Submit
<1> DEFINE n == Len(tasks) + 1
           last == IF Queue!IsOver THEN "serving" ELSE "waiting"
<1>1. /\ DOMAIN tasks = 1..Len(tasks) /\ Len(tasks) \in Nat
      /\ DOMAIN tasks' = 1..n /\ tasks'[n].state \in {"queued", "working"}
  BY TasksHaveStates DEF RoomInv, TypeOK, EndsNone
<1>2. /\ n \in DOMAIN tasks' /\ n \in Nat /\ n \notin DOMAIN tasks
      /\ DOMAIN tasks' = DOMAIN tasks \cup {n}
      /\ \A t \in DOMAIN tasks : t < n
  BY <1>1, OneMore
<1> HIDE DEF n
<1>3. \A t \in DOMAIN tasks : /\ tasks[t].state \in TaskStates
                              /\ tasks'[t].state \in TaskStates
                              /\ PhaseOf(tasks'[t].state) = Phase(t)
  BY <1>2, NoneStarts, TasksHaveStates, RoomTasks
<1>4. PhaseOf(tasks'[n].state) = last
  <2>1. CASE Queue!IsOver
    <3>1. \A t \in DOMAIN tasks : tasks'[t].state \in TerminalStates
      BY <1>3, <2>1, LineIsTyped, PhaseIsState DEF Queue!IsOver
    <3>2. InState(tasks', ActiveStates) \subseteq {n}
      BY <1>2, <3>1 DEF InState, ActiveStates, TerminalStates
    <3>3. tasks'[n].state # "queued"
      BY <1>2, <3>2, RoomTasks DEF InState, ActiveStates
    <3>4. QED
      BY <1>1, <2>1, <3>3 DEF PhaseOf, ActiveStates
  <2>2. CASE ~Queue!IsOver
    <3>1. PICK t \in DOMAIN tasks : Phase(t) # "over"
      BY <2>2, LineIsTyped DEF Queue!IsOver
    <3>2. tasks'[t].state \notin TerminalStates
      BY <1>3, <3>1, PhaseIsState
    <3>3. t < n /\ t \in DOMAIN tasks' /\ n \in DOMAIN tasks'
      BY <1>2
    <3>4. InOrder(tasks')
      BY RoomTasks
    <3>5. tasks'[n].state = "queued"
      BY <3>2, <3>3, <3>4 DEF InOrder
    <3>6. PhaseOf(tasks'[n].state) = "waiting"
      BY <1>2, <3>5, TasksHaveStates, RoomTasks, PhaseIsState
    <3>7. QED
      BY <2>2, <3>6
  <2>3. QED
    BY <2>1, <2>2
<1> HIDE DEF last
<1>5. /\ DOMAIN lineOfTasks' = DOMAIN lineOfTasks \cup {n}
      /\ \A t \in DOMAIN lineOfTasks : lineOfTasks'[t] = lineOfTasks[t]
      /\ lineOfTasks'[n] = last
  BY <1>2, <1>3, <1>4, LineIsTyped DEF lineOfTasks
<1>6. lineOfTasks' = Append(lineOfTasks, last)
  <2>1. /\ lineOfTasks \in Seq({"waiting", "serving", "over"})
        /\ n = Len(lineOfTasks) + 1 /\ DOMAIN lineOfTasks = 1..Len(tasks)
        /\ last \in {"waiting", "serving", "over"}
    BY <1>1, LineIsTyped DEF n, last
  <2>2. lineOfTasks' = [t \in 1..n |-> lineOfTasks'[t]]
    BY <1>1, <1>5, <2>1 DEF lineOfTasks
  <2>3. \A t \in 1..n : lineOfTasks'[t] = IF t = n THEN last ELSE lineOfTasks[t]
    BY <1>1, <1>2, <1>5, <2>1
  <2>4. lineOfTasks' = [t \in 1..n |-> IF t = n THEN last ELSE lineOfTasks[t]]
    BY <2>2, <2>3
  <2>5. Append(lineOfTasks, last) =
           [t \in 1..(Len(lineOfTasks) + 1) |->
              IF t = Len(lineOfTasks) + 1 THEN last ELSE lineOfTasks[t]]
    BY <2>1, AppendedLine
  <2>6. QED
    BY <2>1, <2>4, <2>5
<1>7. QED
  BY <1>6 DEF Queue!Submit, last

LEMMA LineMoves ==
  ASSUME RoomInv, RoomInv', NEW e \in DOMAIN tasks, EndsOne(e)
  PROVE  Queue!Finish
<1>1. /\ lineOfTasks[e] = "serving" /\ DOMAIN lineOfTasks = DOMAIN tasks
      /\ \A t \in DOMAIN tasks : lineOfTasks[t] = Phase(t) /\ t \in Nat
  BY LineIsTyped, TasksHaveStates DEF EndsOne, RoomInv, TypeOK
<1>2. lineOfTasks' = [t \in DOMAIN lineOfTasks |->
                        CASE t = e -> "over"
                          [] t = e + 1 -> "serving"
                          [] OTHER -> lineOfTasks[t]]
  <2>1. lineOfTasks' = [t \in DOMAIN tasks |-> PhaseOf(tasks'[t].state)]
    BY DEF lineOfTasks, EndsOne
  <2>2. \A t \in DOMAIN tasks :
          PhaseOf(tasks'[t].state) = CASE t = e -> "over"
                                       [] t = e + 1 -> "serving"
                                       [] OTHER -> lineOfTasks[t]
    BY <1>1, NextStarts DEF EndsOne
  <2>3. QED
    BY <1>1, <2>1, <2>2
<1>3. QED
  BY <1>1, <1>2 DEF Queue!Finish

-----------------------------------------------------------------------------
(* The transactions.                                                       *)

LEMMA ActivationMoves ==
  ASSUME NEW ts \in Seq(TaskRows), NEW ms, ActivateNext(ts, ms)
  PROVE  /\ DOMAIN tasks' = DOMAIN ts
         /\ \A u \in DOMAIN ts :
               \/ tasks'[u].state = ts[u].state
               \/ ts[u].state = "queued" /\ tasks'[u].state = "working"
<1> DEFINE t == First(InState(ts, {"queued"}))
<1>1. CASE tasks' = ts
  BY <1>1
<1>2. CASE /\ InState(ts, {"queued"}) # {}
           /\ tasks' = [ts EXCEPT ![t].state = "working"]
  <2>1. t \in InState(ts, {"queued"})
    <3>1. InState(ts, {"queued"}) \subseteq Nat
      BY DEF InState
    <3>2. QED
      BY <1>2, <3>1, FirstIsLeast
  <2>2. t \in DOMAIN ts /\ ts[t].state = "queued"
    BY <2>1 DEF InState
  <2>3. \A u \in DOMAIN ts : ts[u] \in TaskRows
    OBVIOUS
  <2> HIDE DEF t
  <2>4. QED
    BY <1>2, <2>2, <2>3 DEF TaskRows
<1>3. QED
  BY <1>1, <1>2 DEF ActivateNext

\* Ending a started task and starting the next: what reply and quarantine do.
LEMMA EndingMoves ==
  ASSUME TypeOK, NEW t \in DOMAIN tasks, tasks[t].state # "queued",
         NEW state \in TerminalStates, NEW ms,
         ActivateNext([tasks EXCEPT ![t].state = state], ms)
  PROVE  EndsNone \/ EndsOne(t)
<1> DEFINE ts == [tasks EXCEPT ![t].state = state]
<1>1. \A u \in DOMAIN tasks : tasks[u] \in TaskRows /\ tasks[u].state \in TaskStates
  <2>1. \A u \in DOMAIN tasks : tasks[u] \in TaskRows
    BY RowsAreTyped
  <2>2. QED
    BY <2>1 DEF TaskRows
<1>2. state \in TaskStates /\ state # "queued"
  BY DEF TaskStates, TerminalStates
<1>3. ts \in Seq(TaskRows) /\ DOMAIN ts = DOMAIN tasks
  BY <1>1, <1>2, TaskTypes, TaskUpdated
<1>4. \A u \in DOMAIN tasks : ts[u].state = IF u = t THEN state ELSE tasks[u].state
  BY <1>1 DEF TaskRows
<1>5. ActivateNext(ts, ms)
  OBVIOUS
<1> HIDE DEF ts
<1>6. /\ DOMAIN tasks' = DOMAIN tasks
      /\ \A u \in DOMAIN tasks :
            \/ tasks'[u].state = ts[u].state
            \/ ts[u].state = "queued" /\ tasks'[u].state = "working"
  BY <1>3, <1>5, ActivationMoves
<1>7. \A u \in DOMAIN tasks \ {t} : StaysOrStarts(u)
  BY <1>4, <1>6 DEF StaysOrStarts, Phase
<1>8. PhaseOf(tasks'[t].state) = "over"
  BY <1>2, <1>4, <1>6, PhaseIsState
<1>9. Phase(t) \in {"serving", "over"}
  BY <1>1, PhaseIsState DEF Phase
<1>10. CASE Phase(t) = "serving"
  BY <1>6, <1>7, <1>8, <1>10 DEF EndsOne
<1>11. CASE Phase(t) = "over"
  <2>1. StaysOrStarts(t)
    BY <1>8, <1>11 DEF StaysOrStarts
  <2>2. QED
    BY <1>6, <1>7, <2>1 DEF EndsNone
<1>12. QED
  BY <1>9, <1>10, <1>11

\* A transaction ends one task or none.
LEMMA StepMoves ==
  ASSUME RoomInv, RoomInv', Next
  PROVE  EndsNone \/ \E e \in DOMAIN tasks : EndsOne(e)
<1> USE DEF RoomInv
<1>1. CASE UNCHANGED tasks
  BY <1>1 DEF EndsNone, StaysOrStarts, Phase
<1>2. ASSUME NEW a \in Agents, NEW s \in Sessions, NEW w \in Waiters,
             QuarantineMessage(a, s, w)
      PROVE  \E e \in DOMAIN tasks : EndsNone \/ EndsOne(e)
  <2> DEFINE m == First(Claimable(a))
             t == messages[m].task
  <2>1. m \in DOMAIN messages
        /\ ActivateNext([tasks EXCEPT ![t].state = "blocked"], messages)
    BY <1>2, FirstClaimable DEF QuarantineMessage, Rows
  <2>2. t \in DOMAIN tasks /\ tasks[t].state # "queued"
    BY <2>1 DEF QueueInv, RowsOfStartedTasks
  <2>3. "blocked" \in TerminalStates
    BY DEF TerminalStates
  <2> HIDE DEF t, m
  <2>4. QED
    BY <2>1, <2>2, <2>3, EndingMoves
<1>3. ASSUME NEW r \in Requests, EnqueueTask(r) PROVE EndsNone
  <2> DEFINE task == [req |-> r, state |-> "queued", round |-> 1]
             ts == Append(tasks, task)
  <2>1. task \in TaskRows /\ task.state = "queued"
    BY DEF TaskRows, TaskStates, Requests
  <2>2. /\ ts \in Seq(TaskRows) /\ DOMAIN ts = 1..(Len(tasks) + 1)
        /\ DOMAIN tasks = 1..Len(tasks) /\ Len(tasks) \in Nat
        /\ \A u \in 1..Len(tasks) : ts[u] = tasks[u]
        /\ ts[Len(tasks) + 1].state = "queued"
    BY <2>1 DEF TypeOK
  <2>3. ActivateNext(ts, messages)
    BY <1>3 DEF EnqueueTask
  <2> HIDE DEF ts, task
  <2>4. /\ DOMAIN tasks' = 1..(Len(tasks) + 1)
        /\ \A u \in 1..(Len(tasks) + 1) :
              \/ tasks'[u].state = ts[u].state
              \/ ts[u].state = "queued" /\ tasks'[u].state = "working"
    BY <2>2, <2>3, ActivationMoves
  <2>5. \A u \in DOMAIN tasks : StaysOrStarts(u)
    BY <2>2, <2>4 DEF StaysOrStarts, Phase
  <2>6. tasks'[Len(tasks) + 1].state \in {"queued", "working"}
    BY <2>2, <2>4
  <2>7. QED
    BY <2>4, <2>5, <2>6 DEF EndsNone
<1>4. ASSUME NEW t \in DOMAIN tasks, NEW a \in Agents, NEW topic \in Topics,
             ResumeContextCheck(t, a, topic)
      PROVE  EndsNone
  <2>1. /\ tasks' = [tasks EXCEPT ![t] = Reopened(tasks[t], topic)]
        /\ tasks[t].state = "waiting_checkpoint"
        /\ Reopened(tasks[t], topic).state = "working"
    BY <1>4 DEF ResumeContextCheck, WaitingChecks, Reopened
  <2>2. DOMAIN tasks' = DOMAIN tasks
        /\ tasks'[t].state = "working" /\ \A u \in DOMAIN tasks \ {t} : tasks'[u] = tasks[u]
    BY <2>1
  <2>3. PhaseOf("working") = PhaseOf("waiting_checkpoint")
    BY DEF PhaseOf, ActiveStates
  <2>4. \A u \in DOMAIN tasks : StaysOrStarts(u)
    BY <2>1, <2>2, <2>3 DEF StaysOrStarts, Phase
  <2>5. QED
    BY <2>2, <2>4 DEF EndsNone
<1>5. ASSUME NEW t \in DOMAIN tasks, NEW a \in Agents, NEW o \in Outcomes,
             NEW b \in Bodies, Reply(t, a, o, b)
      PROVE  EndsNone \/ EndsOne(t)
  <2> DEFINE ms == Append(Answered(t), ReplyRow(t, o, b))
             ts == [tasks EXCEPT ![t].state = StateAfter(o)]
  <2>1. tasks[t].state = "working"
    BY <1>5 DEF Reply, MayReply
  <2>2. CASE o \in TerminalOutcomes
    <3>1. StateAfter(o) \in TerminalStates
      BY <2>2 DEF StateAfter, TerminalStates, TerminalOutcomes
    <3>2. ActivateNext(ts, ms)
      BY <1>5, <2>2 DEF Reply
    <3> HIDE DEF ms
    <3>3. QED
      BY <2>1, <3>1, <3>2, EndingMoves
  <2>3. CASE o \notin TerminalOutcomes
    <3>1. StateAfter(o) = "waiting_checkpoint" /\ tasks' = ts
      BY <1>5, <2>3 DEF Reply, StateAfter, Outcomes
    <3>2. \A u \in DOMAIN tasks : tasks[u] \in TaskRows
      BY RowsAreTyped
    <3>3. /\ DOMAIN tasks' = DOMAIN tasks /\ tasks'[t].state = "waiting_checkpoint"
          /\ \A u \in DOMAIN tasks \ {t} : tasks'[u] = tasks[u]
      BY <3>1, <3>2 DEF TaskRows
    <3>4. PhaseOf("working") = PhaseOf("waiting_checkpoint")
      BY DEF PhaseOf, ActiveStates
    <3>5. \A u \in DOMAIN tasks : StaysOrStarts(u)
      BY <2>1, <3>3, <3>4 DEF StaysOrStarts, Phase
    <3>6. QED
      BY <3>3, <3>5 DEF EndsNone
  <2>4. QED
    BY <2>2, <2>3
<1>6. ASSUME ~UNCHANGED tasks
      PROVE  \/ \E a \in Agents, s \in Sessions, w \in Waiters : QuarantineMessage(a, s, w)
             \/ \E r \in Requests : EnqueueTask(r)
             \/ \E t \in DOMAIN tasks, a \in Agents, topic \in Topics :
                   ResumeContextCheck(t, a, topic)
             \/ \E t \in DOMAIN tasks, a \in Agents, o \in Outcomes, b \in Bodies :
                   Reply(t, a, o, b)
  BY <1>6 DEF Next, JoinMember, LeaveMember, AcknowledgeReplies, BeginWait, ClearWaiter,
              ClaimMessage, RecordContextCheck, RecordBaseline, ClearContextCheck,
              LeaseExpires, DamageRow
<1>7. QED
  BY <1>1, <1>2, <1>3, <1>4, <1>5, <1>6

LEMMA LineStep ==
  ASSUME RoomInv, RoomInv', [Next]_storeVars
  PROVE  [Queue!LineNext]_lineOfTasks
<1>1. CASE UNCHANGED storeVars
  BY <1>1 DEF storeVars, lineOfTasks
<1>2. CASE EndsNone /\ DOMAIN tasks' = DOMAIN tasks
  BY <1>2, LineStays
<1>3. CASE EndsNone /\ DOMAIN tasks' # DOMAIN tasks
  BY <1>3, LineGrows DEF Queue!LineNext
<1>4. CASE \E e \in DOMAIN tasks : EndsOne(e)
  BY <1>4, LineMoves DEF Queue!LineNext
<1>5. QED
  BY <1>1, <1>2, <1>3, <1>4, StepMoves

\* The room's transactions implement the advisor queue (storage.py
\* enqueue_task, reply, _quarantine_message and _activate_next): one task is
\* served at a time, each in its turn, and the next starts with the end of the
\* one before, whoever calls the store and in whatever order.
THEOREM RoomServesTheLine == Spec => ServesTheLine
<1>1. Init => RoomInv
  BY DEF Init, RoomInv, TypeOK, MemberRows, CheckRows, NoCheck, QueueInv, ServedInOrder,
         NeverIdleWithWork, InState, RowsOfStartedTasks
<1>2. RoomInv /\ [Next]_storeVars => RoomInv'
  BY TypeStep, QueueStep DEF RoomInv
<1>3. Init => Queue!Start
  BY DEF Init, Queue!Start, lineOfTasks
<1>4. RoomInv /\ RoomInv' /\ [Next]_storeVars => [Queue!LineNext]_lineOfTasks
  BY LineStep
<1>5. QED
  BY <1>1, <1>2, <1>3, <1>4, PTL DEF Spec, ServesTheLine, Queue!LineSpec
=============================================================================
