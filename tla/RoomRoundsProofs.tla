-------------------------- MODULE RoomRoundsProofs --------------------------
(***************************************************************************)
(* What the room promises about the rounds of a task: the work that blocks *)
(* the room is posted once and can be delivered, a round is answered once, *)
(* a state is the one its last reply gave, and nothing that is over is     *)
(* delivered again.  For every number of tasks, rounds and damaged rows    *)
(* and every client of the store.                                          *)
(*                                                                         *)
(* The transactions write tasks and messages in two steps, a change of one *)
(* task and then perhaps the start of the next (ActivateNext), so the      *)
(* invariant is stated of any tasks ts, messages ms and quarantined rows q *)
(* and proved of what is between the steps, too.                           *)
(***************************************************************************)
EXTENDS RoomStoreProofs

Live(ms, q) == DOMAIN ms \ q

IsOf(row, type, t, r) == row.type = type /\ row.task = t /\ row.round = r

\* The request of a working task's round is there once, unanswered.
Posted(ts, ms, q) ==
    \A t \in DOMAIN ts : ts[t].state = "working" =>
        \E m \in Live(ms, q) :
            /\ IsOf(ms[m], "request", t, ts[t].round) /\ ms[m].status # "acked"
            /\ \A n \in Live(ms, q) : IsOf(ms[n], "request", t, ts[t].round) => n = m

\* No row is of a round its task has not reached.
Reached(ts, ms) == \A m \in DOMAIN ms : ms[m].round <= ts[ms[m].task].round

\* A row with a terminal outcome is a reply, and its task is over.
Ended(ts, ms) ==
    \A m \in DOMAIN ms : ms[m].outcome \in TerminalOutcomes =>
        ms[m].type = "reply" /\ ts[ms[m].task].state \in TerminalStates

\* One row per task, type and round, one ending per task.
OneEach(ms, q) ==
    \A m, n \in Live(ms, q) :
        m # n /\ ms[m].task = ms[n].task /\ ms[m].type = ms[n].type
        => /\ ms[m].round # ms[n].round
           /\ ~(ms[m].outcome \in TerminalOutcomes /\ ms[n].outcome \in TerminalOutcomes)

\* A task that is done, granted or waiting was told so in its round.
Told(ts, ms, q) ==
    \A t \in DOMAIN ts : ts[t].state \in {"done", "compact_ready", "waiting_checkpoint"} =>
        \E m \in Live(ms, q) : /\ IsOf(ms[m], "reply", t, ts[t].round)
                               /\ StateAfter(ms[m].outcome) = ts[t].state

\* Where nobody damages rows, an unanswered request is of the task at work.
Fresh(ts, ms, q) ==
    MaxCorrupt = 0 =>
        /\ \A m \in DOMAIN ms : ms[m].damage = "none"
        /\ \A m \in Live(ms, q) :
              ms[m].type = "request" /\ ms[m].status # "acked" =>
                  /\ ts[ms[m].task].state = "working"
                  /\ ts[ms[m].task].round = ms[m].round

\* An unanswered request is of the round its task is in, and that round has no
\* reply, damaged rows or not.
Current(ts, ms, q) ==
    \A m \in Live(ms, q) : ms[m].type = "request" /\ ms[m].status # "acked" =>
        /\ ms[m].round = ts[ms[m].task].round
        /\ \A n \in Live(ms, q) : ~IsOf(ms[n], "reply", ms[m].task, ms[m].round)

Rounds(ts, ms, q) ==
    /\ Posted(ts, ms, q) /\ Reached(ts, ms) /\ Ended(ts, ms)
    /\ OneEach(ms, q) /\ Told(ts, ms, q) /\ Fresh(ts, ms, q) /\ Current(ts, ms, q)

\* Rows are of tasks, and of started ones (RowsOfStartedTasks).
Started(ts, ms) ==
    \A m \in DOMAIN ms : ms[m].task \in DOMAIN ts /\ ts[ms[m].task].state # "queued"

RoundsInv == Rounds(tasks, messages, quarantined)

-----------------------------------------------------------------------------

LEMMA TaskColumns ==
  ASSUME NEW ts \in Seq(TaskRows)
  PROVE  /\ DOMAIN ts = 1..Len(ts) /\ Len(ts) \in Nat
         /\ \A t \in DOMAIN ts : /\ t \in Nat /\ ts[t] \in TaskRows
                                 /\ ts[t].state \in TaskStates /\ ts[t].round \in Nat
<1>1. \A t \in DOMAIN ts : t \in Nat /\ ts[t] \in TaskRows
  OBVIOUS
<1>2. QED
  BY <1>1 DEF TaskRows

LEMMA MessageColumns ==
  ASSUME NEW ms \in Seq(MessageRows)
  PROVE  /\ DOMAIN ms = 1..Len(ms) /\ Len(ms) \in Nat
         /\ \A m \in DOMAIN ms : /\ m \in Nat /\ ms[m] \in MessageRows
                                 /\ ms[m].task \in Nat /\ ms[m].round \in Nat
<1>1. \A m \in DOMAIN ms : m \in Nat /\ ms[m] \in MessageRows
  OBVIOUS
<1>2. QED
  BY <1>1 DEF MessageRows

\* The properties are parts of the invariant.
LEMMA RoundsSuffice ==
  ASSUME RoundsInv
  PROVE  WorkIsPosted /\ OneReplyPerRound /\ StateMatchesReply /\ NoStaleRequest
<1> USE DEF RoundsInv, Rounds, Live, Rows
<1>1. WorkIsPosted
  <2>1. SUFFICES ASSUME NEW t \in DOMAIN tasks, tasks[t].state = "working"
                 PROVE  \E m \in RequestRows(t, tasks[t].round) :
                           /\ messages[m].status # "acked"
                           /\ RequestRows(t, tasks[t].round) = {m}
    BY DEF WorkIsPosted, InState
  <2>2. PICK m \in Rows :
           /\ IsOf(messages[m], "request", t, tasks[t].round)
           /\ messages[m].status # "acked"
           /\ \A n \in Rows : IsOf(messages[n], "request", t, tasks[t].round) => n = m
    BY <2>1 DEF Posted
  <2>3. RequestRows(t, tasks[t].round) = {m}
    BY <2>2 DEF RequestRows, IsOf
  <2>4. QED
    BY <2>2, <2>3
<1>2. OneReplyPerRound
  BY DEF OneEach, OneReplyPerRound
<1>3. StateMatchesReply
  BY DEF Told, StateMatchesReply, ReplyRows, IsOf
<1>4. NoStaleRequest
  BY DEF Fresh, NoStaleRequest
<1>5. QED
  BY <1>1, <1>2, <1>3, <1>4

-----------------------------------------------------------------------------
(* What a step may do to rows and rounds.                                  *)

\* A step that leaves tasks alone and answers no request.
LEMMA RoundsUntouched ==
  ASSUME RoundsInv, UNCHANGED <<tasks, quarantined>>,
         DOMAIN messages' = DOMAIN messages,
         \A m \in DOMAIN messages :
            /\ messages'[m].task = messages[m].task
            /\ messages'[m].round = messages[m].round
            /\ messages'[m].type = messages[m].type
            /\ messages'[m].outcome = messages[m].outcome
            /\ messages[m].type = "request" =>
                  (messages'[m].status = "acked" <=> messages[m].status = "acked")
            /\ MaxCorrupt = 0 => messages'[m].damage = messages[m].damage
  PROVE  RoundsInv'
<1> USE DEF RoundsInv, Rounds, Live, IsOf
<1>1. Posted(tasks, messages, quarantined)'
  BY DEF Posted
<1>2. Reached(tasks, messages)' /\ Ended(tasks, messages)' /\ OneEach(messages, quarantined)'
  BY DEF Reached, Ended, OneEach
<1>3. Told(tasks, messages, quarantined)'
  BY DEF Told
<1>4. Fresh(tasks, messages, quarantined)'
  BY DEF Fresh
<1>5. Current(tasks, messages, quarantined)'
  BY DEF Current
<1>6. QED
  BY <1>1, <1>2, <1>3, <1>4, <1>5

\* A task that is not at work is set to work, in a round that has no row yet,
\* and the request of that round is posted.
LEMMA RequestPosted ==
  ASSUME NEW ts \in Seq(TaskRows), NEW ms \in Seq(MessageRows), NEW q,
         q \subseteq DOMAIN ms, Rounds(ts, ms, q), Started(ts, ms),
         NEW t \in DOMAIN ts, ts[t].state \in {"queued", "waiting_checkpoint"},
         NEW task \in TaskRows, task.state = "working", task.round >= ts[t].round,
         \A m \in DOMAIN ms : ms[m].task = t => ms[m].round < task.round
  PROVE  Rounds([ts EXCEPT ![t] = task], Append(ms, RequestRow(task, t)), q)
<1> DEFINE us == [ts EXCEPT ![t] = task]
           row == RequestRow(task, t)
           ns == Append(ms, row)
           last == Len(ms) + 1
<1>1. /\ row.task = t /\ row.round = task.round /\ row.type = "request"
      /\ row.outcome = NoOutcome /\ row.status = "posted" /\ row.damage = "none"
  BY DEF RequestRow
<1>2. /\ DOMAIN ms = 1..Len(ms) /\ Len(ms) \in Nat
      /\ DOMAIN ns = DOMAIN ms \cup {last} /\ last \notin DOMAIN ms
      /\ \A m \in DOMAIN ms : ns[m] = ms[m]
      /\ ns[last] = row
  <2>1. row \in MessageRows
    BY TaskColumns, TaskTypes
  <2> HIDE DEF row
  <2>2. QED
    BY <2>1, MessageColumns, AppendProperties
<1>3. /\ DOMAIN us = DOMAIN ts /\ us[t] = task
      /\ \A u \in DOMAIN ts : u # t => us[u] = ts[u]
  OBVIOUS
<1>4. /\ \A u \in DOMAIN ts : ts[u].state \in TaskStates /\ ts[u].round \in Nat
      /\ \A m \in DOMAIN ms : ms[m].task \in DOMAIN ts /\ ms[m].round \in Nat
      /\ task.round \in Nat
  BY TaskColumns, MessageColumns DEF Started, TaskRows
<1>5. Live(ns, q) = Live(ms, q) \cup {last} /\ last \notin Live(ms, q)
      /\ Live(ms, q) \subseteq DOMAIN ms
  BY <1>2 DEF Live
<1> HIDE DEF us, row, ns, last
<1>6. Posted(us, ns, q)
  <2>1. SUFFICES ASSUME NEW u \in DOMAIN ts, us[u].state = "working"
                 PROVE  \E m \in Live(ns, q) :
                           /\ IsOf(ns[m], "request", u, us[u].round)
                           /\ ns[m].status # "acked"
                           /\ \A n \in Live(ns, q) :
                                 IsOf(ns[n], "request", u, us[u].round) => n = m
    BY <1>3 DEF Posted
  <2>2. CASE u = t
    <3>1. \A n \in Live(ms, q) : ~IsOf(ns[n], "request", t, task.round)
      BY <1>2, <1>4, <1>5 DEF IsOf
    <3>2. last \in Live(ns, q) /\ IsOf(ns[last], "request", t, task.round)
          /\ ns[last].status # "acked"
      BY <1>1, <1>2, <1>5 DEF IsOf
    <3>3. QED
      BY <2>2, <3>1, <3>2, <1>3, <1>5
  <2>3. CASE u # t
    <3>1. us[u] = ts[u] /\ ts[u].state = "working"
      BY <2>1, <2>3, <1>3
    <3>2. PICK m \in Live(ms, q) :
             /\ IsOf(ms[m], "request", u, ts[u].round) /\ ms[m].status # "acked"
             /\ \A n \in Live(ms, q) : IsOf(ms[n], "request", u, ts[u].round) => n = m
      BY <3>1 DEF Rounds, Posted
    <3>3. ~IsOf(ns[last], "request", u, ts[u].round)
      BY <1>1, <1>2, <2>3 DEF IsOf
    <3>4. m \in Live(ns, q) /\ ns[m] = ms[m]
          /\ \A n \in Live(ms, q) : ns[n] = ms[n]
      BY <1>2, <1>5
    <3>5. QED
      BY <3>1, <3>2, <3>3, <3>4, <1>5
  <2>4. QED
    BY <2>2, <2>3
<1>7. Reached(us, ns)
  <2>1. ASSUME NEW m \in DOMAIN ms PROVE ns[m].round <= us[ns[m].task].round
    <3>1. ns[m] = ms[m] /\ ms[m].round <= ts[ms[m].task].round /\ ms[m].task \in DOMAIN ts
      BY <1>2, <1>4 DEF Rounds, Reached
    <3>2. QED
      BY <3>1, <1>3, <1>4
  <2>2. ns[last].round <= us[ns[last].task].round
    BY <1>1, <1>2, <1>3, <1>4
  <2>3. QED
    BY <2>1, <2>2, <1>2 DEF Reached
<1>8. Ended(us, ns)
  <2>1. ASSUME NEW m \in DOMAIN ms, ms[m].outcome \in TerminalOutcomes
        PROVE  ms[m].type = "reply" /\ us[ms[m].task].state \in TerminalStates
    <3>1. ms[m].type = "reply" /\ ts[ms[m].task].state \in TerminalStates
      BY <2>1 DEF Rounds, Ended
    <3>2. ms[m].task # t
      BY <3>1 DEF TerminalStates
    <3>3. QED
      BY <3>1, <3>2, <1>3, <1>4
  <2>2. ns[last].outcome \notin TerminalOutcomes
    BY <1>1, <1>2 DEF NoOutcome, TerminalOutcomes
  <2>3. QED
    BY <2>1, <2>2, <1>2 DEF Ended
<1>9. OneEach(ns, q)
  <2>1. ASSUME NEW m \in Live(ms, q), ms[m].task = t
        PROVE  ms[m].round # task.round
    BY <2>1, <1>4, <1>5
  <2>2. ns[last].outcome \notin TerminalOutcomes /\ ns[last].task = t
        /\ ns[last].round = task.round
    BY <1>1, <1>2 DEF NoOutcome, TerminalOutcomes
  <2>3. \A m \in Live(ms, q) : ns[m] = ms[m]
    BY <1>2, <1>5
  <2>4. OneEach(ms, q)
    BY DEF Rounds
  <2>5. QED
    BY <2>1, <2>2, <2>3, <2>4, <1>5 DEF OneEach
<1>10. Told(us, ns, q)
  <2>1. SUFFICES ASSUME NEW u \in DOMAIN ts,
                        us[u].state \in {"done", "compact_ready", "waiting_checkpoint"}
                 PROVE  \E m \in Live(ns, q) :
                           /\ IsOf(ns[m], "reply", u, us[u].round)
                           /\ StateAfter(ns[m].outcome) = us[u].state
    BY <1>3 DEF Told
  <2>2. us[u] = ts[u]
    BY <2>1, <1>3
  <2>3. PICK m \in Live(ms, q) : /\ IsOf(ms[m], "reply", u, ts[u].round)
                                 /\ StateAfter(ms[m].outcome) = ts[u].state
    BY <2>1, <2>2 DEF Rounds, Told
  <2>4. QED
    BY <2>2, <2>3, <1>2, <1>5
<1>11. Fresh(us, ns, q)
  <2>1. SUFFICES ASSUME MaxCorrupt = 0 PROVE Fresh(us, ns, q)
    BY DEF Fresh
  <2>2. \A m \in DOMAIN ns : ns[m].damage = "none"
    BY <2>1, <1>1, <1>2 DEF Rounds, Fresh
  <2>3. ASSUME NEW m \in Live(ms, q), ms[m].type = "request", ms[m].status # "acked"
        PROVE  us[ms[m].task].state = "working" /\ us[ms[m].task].round = ms[m].round
    <3>1. ts[ms[m].task].state = "working" /\ ts[ms[m].task].round = ms[m].round
      BY <2>1, <2>3 DEF Rounds, Fresh
    <3>2. QED
      BY <3>1, <1>3, <1>4, <1>5
  <2>4. us[ns[last].task].state = "working" /\ us[ns[last].task].round = ns[last].round
    BY <1>1, <1>2, <1>3
  <2>5. \A m \in Live(ms, q) : ns[m] = ms[m]
    BY <1>2, <1>5
  <2>6. QED
    BY <2>2, <2>3, <2>4, <2>5, <1>5 DEF Fresh
<1>12. Current(us, ns, q)
  <2>1. \A m \in Live(ms, q) : ns[m] = ms[m] /\ m \in DOMAIN ms
    BY <1>2, <1>5
  <2>2. ASSUME NEW m \in Live(ms, q), ms[m].type = "request", ms[m].status # "acked"
        PROVE  /\ ms[m].task # t /\ ms[m].round = us[ms[m].task].round
               /\ \A n \in Live(ms, q) : ~IsOf(ms[n], "reply", ms[m].task, ms[m].round)
    <3>1. /\ ms[m].task \in DOMAIN ts /\ ms[m].round = ts[ms[m].task].round
          /\ \A n \in Live(ms, q) : ~IsOf(ms[n], "reply", ms[m].task, ms[m].round)
      BY <2>1, <2>2, <1>4 DEF Rounds, Current
    <3>2. ms[m].task # t
      <4>1. CASE ts[t].state = "queued"
        BY <2>1, <4>1 DEF Started
      <4>2. CASE ts[t].state = "waiting_checkpoint"
        BY <3>1, <4>2 DEF Rounds, Told
      <4>3. QED
        BY <4>1, <4>2
    <3>3. QED
      BY <3>1, <3>2, <1>3
  <2>3. \A n \in Live(ms, q) : ~IsOf(ms[n], "reply", t, task.round)
    BY <2>1, <1>4 DEF IsOf
  <2>4. /\ ns[last].round = us[ns[last].task].round /\ ns[last].task = t
        /\ ns[last].round = task.round /\ \A u, r : ~IsOf(ns[last], "reply", u, r)
    BY <1>1, <1>2, <1>3 DEF IsOf
  <2>5. QED
    BY <2>1, <2>2, <2>3, <2>4, <1>5 DEF Current
<1>13. QED
  BY <1>6, <1>7, <1>8, <1>9, <1>10, <1>11, <1>12 DEF Rounds, us, ns, row

\* _activate_next posts the request of the task it starts.
LEMMA ActivationPosts ==
  ASSUME NEW ts \in Seq(TaskRows), NEW ms \in Seq(MessageRows),
         quarantined' \subseteq DOMAIN ms, Rounds(ts, ms, quarantined'), Started(ts, ms),
         ActivateNext(ts, ms)
  PROVE  RoundsInv'
<1> DEFINE queued == InState(ts, {"queued"})
           t == First(queued)
           task == [ts[t] EXCEPT !.state = "working"]
<1>1. CASE IsIdle(ts) /\ queued # {}
  <2>1. queued \subseteq Nat
    BY TaskColumns DEF InState
  <2>2. t \in DOMAIN ts /\ ts[t].state = "queued"
    BY <1>1, <2>1, FirstIsLeast DEF InState
  <2>3. ts[t] \in TaskRows
    BY <2>2, TaskColumns
  <2>4. /\ task \in TaskRows /\ task.state = "working" /\ task.round = ts[t].round
        /\ task.req = ts[t].req
    BY <2>3 DEF TaskRows, TaskStates, ActiveStates
  <2>5. tasks' = [ts EXCEPT ![t] = task] /\ messages' = Append(ms, RequestRow(task, t))
    <3>1. /\ tasks' = [ts EXCEPT ![t].state = "working"]
          /\ messages' = Append(ms, RequestRow(ts[t], t))
      BY <1>1 DEF ActivateNext
    <3>2. RequestRow(ts[t], t) = RequestRow(task, t)
      BY <2>4 DEF RequestRow
    <3>3. QED
      BY <3>1, <3>2
  <2>6. \A m \in DOMAIN ms : ms[m].task # t
    BY <2>2 DEF Started
  <2>7. task.round \in Nat
    BY <2>4 DEF TaskRows
  <2> HIDE DEF task, t
  <2>8. Rounds([ts EXCEPT ![t] = task], Append(ms, RequestRow(task, t)), quarantined')
    BY <2>2, <2>4, <2>6, <2>7, RequestPosted
  <2>9. QED
    BY <2>5, <2>8 DEF RoundsInv
<1>2. CASE ~(IsIdle(ts) /\ queued # {})
  BY <1>2 DEF ActivateNext, RoundsInv
<1>3. QED
  BY <1>1, <1>2

\* A new task in the line changes nothing for the others.
LEMMA TaskJoins ==
  ASSUME TypeOK, QueueInv, RoundsInv, NEW task \in TaskRows, task.state = "queued"
  PROVE  /\ Append(tasks, task) \in Seq(TaskRows)
         /\ Rounds(Append(tasks, task), messages, quarantined)
         /\ Started(Append(tasks, task), messages)
<1> DEFINE ts == Append(tasks, task)
           last == Len(tasks) + 1
<1>1. /\ ts \in Seq(TaskRows) /\ DOMAIN ts = DOMAIN tasks \cup {last}
      /\ last \notin DOMAIN tasks /\ ts[last] = task
      /\ \A t \in DOMAIN tasks : ts[t] = tasks[t]
  BY TaskColumns, AppendProperties DEF TypeOK
<1> HIDE DEF ts, last
<1>2. \A m \in DOMAIN messages : messages[m].task \in DOMAIN tasks
  BY DEF QueueInv, RowsOfStartedTasks
<1>3. Posted(ts, messages, quarantined)
  BY <1>1 DEF RoundsInv, Rounds, Posted
<1>4. Reached(ts, messages) /\ Ended(ts, messages)
  BY <1>1, <1>2 DEF RoundsInv, Rounds, Reached, Ended
<1>5. Told(ts, messages, quarantined)
  BY <1>1 DEF RoundsInv, Rounds, Told
<1>6. Fresh(ts, messages, quarantined)
  BY <1>1, <1>2 DEF RoundsInv, Rounds, Fresh, Live
<1>7. Started(ts, messages)
  BY <1>1 DEF Started, QueueInv, RowsOfStartedTasks
<1>8. Current(ts, messages, quarantined)
  BY <1>1, <1>2 DEF RoundsInv, Rounds, Current, Live
<1>9. QED
  BY <1>1, <1>3, <1>4, <1>5, <1>6, <1>7, <1>8 DEF Rounds, RoundsInv, ts

\* A damaged row goes, and its task with it.
LEMMA RowTaken ==
  ASSUME TypeOK, QueueInv, RoundsInv, NEW m \in Rows, messages[m].damage # "none"
  PROVE  LET ts == [tasks EXCEPT ![messages[m].task].state = "blocked"]
         IN  /\ ts \in Seq(TaskRows)
             /\ Rounds(ts, messages, quarantined \cup {m})
             /\ Started(ts, messages)
<1> DEFINE t == messages[m].task
           ts == [tasks EXCEPT ![t].state = "blocked"]
           q == quarantined \cup {m}
<1>1. /\ m \in DOMAIN messages /\ t \in DOMAIN tasks /\ tasks[t].state # "queued"
      /\ \A n \in DOMAIN messages : messages[n].task \in DOMAIN tasks
  BY DEF Rows, QueueInv, RowsOfStartedTasks
<1>2. /\ \A u \in DOMAIN tasks : tasks[u] \in TaskRows /\ tasks[u].round \in Nat
  BY TaskColumns DEF TypeOK
<1>3. /\ DOMAIN ts = DOMAIN tasks
      /\ \A u \in DOMAIN tasks : ts[u].round = tasks[u].round
      /\ \A u \in DOMAIN tasks : ts[u].state = IF u = t THEN "blocked" ELSE tasks[u].state
  BY <1>1, <1>2 DEF TaskRows
<1>4. ts \in Seq(TaskRows)
  <2>1. [tasks[t] EXCEPT !.state = "blocked"] \in TaskRows
    BY <1>1, <1>2 DEF TaskRows, TaskStates, TerminalStates
  <2>2. QED
    BY <1>1, <2>1, TaskUpdated
<1>5. Live(messages, q) = Live(messages, quarantined) \ {m}
  BY DEF Live
<1> HIDE DEF ts, q
<1>6. Posted(ts, messages, q)
  <2>1. SUFFICES ASSUME NEW u \in DOMAIN tasks, ts[u].state = "working"
                 PROVE  \E n \in Live(messages, q) :
                           /\ IsOf(messages[n], "request", u, ts[u].round)
                           /\ messages[n].status # "acked"
                           /\ \A k \in Live(messages, q) :
                                 IsOf(messages[k], "request", u, ts[u].round) => k = n
    BY <1>3 DEF Posted
  <2>2. u # t /\ tasks[u].state = "working" /\ ts[u].round = tasks[u].round
    BY <2>1, <1>3
  <2>3. PICK n \in Live(messages, quarantined) :
           /\ IsOf(messages[n], "request", u, tasks[u].round)
           /\ messages[n].status # "acked"
           /\ \A k \in Live(messages, quarantined) :
                 IsOf(messages[k], "request", u, tasks[u].round) => k = n
    BY <2>2 DEF RoundsInv, Rounds, Posted
  <2>4. n # m
    BY <2>2, <2>3 DEF IsOf
  <2>5. QED
    BY <2>2, <2>3, <2>4, <1>5
<1>7. Reached(ts, messages) /\ Ended(ts, messages)
  BY <1>1, <1>3 DEF RoundsInv, Rounds, Reached, Ended, TerminalStates
<1>8. OneEach(messages, q)
  BY <1>5 DEF RoundsInv, Rounds, OneEach
<1>9. Told(ts, messages, q)
  <2>1. SUFFICES ASSUME NEW u \in DOMAIN tasks,
                        ts[u].state \in {"done", "compact_ready", "waiting_checkpoint"}
                 PROVE  \E n \in Live(messages, q) :
                           /\ IsOf(messages[n], "reply", u, ts[u].round)
                           /\ StateAfter(messages[n].outcome) = ts[u].state
    BY <1>3 DEF Told
  <2>2. u # t /\ tasks[u].state = ts[u].state /\ ts[u].round = tasks[u].round
    BY <2>1, <1>3
  <2>3. PICK n \in Live(messages, quarantined) :
           /\ IsOf(messages[n], "reply", u, tasks[u].round)
           /\ StateAfter(messages[n].outcome) = tasks[u].state
    BY <2>1, <2>2 DEF RoundsInv, Rounds, Told
  <2>4. n # m
    BY <2>2, <2>3 DEF IsOf
  <2>5. QED
    BY <2>2, <2>3, <2>4, <1>5
<1>10. Fresh(ts, messages, q)
  BY <1>1 DEF RoundsInv, Rounds, Fresh
<1>11. Started(ts, messages)
  BY <1>1, <1>3 DEF Started, QueueInv, RowsOfStartedTasks
<1>12. Current(ts, messages, q)
  BY <1>1, <1>3, <1>5 DEF RoundsInv, Rounds, Current, Live
<1>13. QED
  BY <1>4, <1>6, <1>7, <1>8, <1>9, <1>10, <1>11, <1>12 DEF Rounds, ts, q

\* A reply answers the request of the round and gives the task its state.
LEMMA RoundAnswered ==
  ASSUME TypeOK, QueueInv, RoundsInv, NEW t \in DOMAIN tasks, NEW a, MayReply(t, a),
         NEW o \in Outcomes, NEW b \in Bodies
  PROVE  LET ts == [tasks EXCEPT ![t].state = StateAfter(o)]
             ms == Append(Answered(t), ReplyRow(t, o, b))
         IN  /\ ts \in Seq(TaskRows) /\ ms \in Seq(MessageRows)
             /\ DOMAIN messages \subseteq DOMAIN ms
             /\ Rounds(ts, ms, quarantined)
             /\ Started(ts, ms)
<1> DEFINE r == tasks[t].round
           state == StateAfter(o)
           ts == [tasks EXCEPT ![t].state = state]
           row == ReplyRow(t, o, b)
           ms == Append(Answered(t), row)
           last == Len(messages) + 1
           x == First(RequestRows(t, r))
           rows == Live(messages, quarantined)
<1>1. /\ \A u \in DOMAIN tasks : tasks[u] \in TaskRows /\ u \in Nat /\ tasks[u].round \in Nat
      /\ \A m \in DOMAIN messages : /\ messages[m] \in MessageRows
                                    /\ messages[m].task \in DOMAIN tasks
                                    /\ messages[m].round \in Nat
  BY TaskColumns, MessageColumns DEF TypeOK, QueueInv, RowsOfStartedTasks
<1>2. /\ tasks[t].state = "working" /\ ReplyRows(t, r) = {} /\ RequestRows(t, r) # {}
  BY DEF MayReply
<1>3. x \in RequestRows(t, r)
  BY <1>2, FirstRequest
<1>4. x \in DOMAIN messages /\ x \in rows /\ IsOf(messages[x], "request", t, r)
  BY <1>3 DEF RequestRows, Rows, Live, IsOf
<1>5. \A n \in rows : IsOf(messages[n], "request", t, r) => n = x
  BY <1>2, <1>4 DEF RoundsInv, Rounds, Posted
<1>6. /\ row.task = t /\ row.round = r /\ row.type = "reply" /\ row.outcome = o
      /\ row.status = "posted" /\ row.damage = "none" /\ row \in MessageRows
  BY <1>1 DEF ReplyRow, MessageRows, TaskRows, RequestColumns
<1>7. /\ state \in TaskStates /\ state \in TerminalStates \cup {"waiting_checkpoint"}
      /\ o \in TerminalOutcomes => state \in TerminalStates
  BY DEF StateAfter, TaskStates, ActiveStates, TerminalStates, Outcomes, TerminalOutcomes
<1>8. /\ DOMAIN ts = DOMAIN tasks
      /\ \A u \in DOMAIN tasks : ts[u].round = tasks[u].round
      /\ \A u \in DOMAIN tasks : ts[u].state = IF u = t THEN state ELSE tasks[u].state
  <2> HIDE DEF state
  <2>1. QED
    BY <1>1 DEF TaskRows
<1>9. ts \in Seq(TaskRows)
  <2>1. [tasks[t] EXCEPT !.state = state] \in TaskRows
    BY <1>1, <1>7, TaskTypes
  <2> HIDE DEF state
  <2>2. QED
    BY <2>1, TaskUpdated
<1>10. /\ Answered(t) \in Seq(MessageRows) /\ DOMAIN Answered(t) = DOMAIN messages
       /\ \A m \in DOMAIN messages :
             /\ Answered(t)[m].task = messages[m].task
             /\ Answered(t)[m].round = messages[m].round
             /\ Answered(t)[m].type = messages[m].type
             /\ Answered(t)[m].outcome = messages[m].outcome
             /\ Answered(t)[m].damage = messages[m].damage
             /\ Answered(t)[m].status = IF m = x THEN "acked" ELSE messages[m].status
  <2>1. Answered(t) \in Seq(MessageRows) /\ DOMAIN Answered(t) = DOMAIN messages
    BY <1>2, AnsweredTypes
  <2>2. Answered(t) = [messages EXCEPT ![x] = Acked(messages[x])]
    BY DEF Answered
  <2> HIDE DEF x
  <2>3. QED
    BY <1>1, <1>4, <2>1, <2>2 DEF Acked, MessageRows
<1>11. /\ ms \in Seq(MessageRows) /\ DOMAIN ms = DOMAIN messages \cup {last}
       /\ last \notin DOMAIN messages /\ ms[last] = row
       /\ \A m \in DOMAIN messages : ms[m] = Answered(t)[m]
  <2>1. /\ DOMAIN messages = 1..Len(messages) /\ Len(messages) \in Nat
        /\ Len(Answered(t)) = Len(messages)
    BY <1>10, MessageColumns DEF TypeOK
  <2> HIDE DEF row
  <2>2. QED
    BY <1>6, <1>10, <2>1, AppendProperties
<1> HIDE DEF ts, ms, row, last, x, state
<1>12. /\ Live(ms, quarantined) = rows \cup {last} /\ rows \subseteq DOMAIN messages
       /\ last \notin rows
  BY <1>11 DEF Live, TypeOK
<1> HIDE DEF rows
<1>13. \A m \in rows : ~IsOf(messages[m], "reply", t, r)
  BY <1>2 DEF ReplyRows, IsOf, Rows, rows, Live
<1>14. Posted(ts, ms, quarantined)
  <2>1. SUFFICES ASSUME NEW u \in DOMAIN tasks, ts[u].state = "working"
                 PROVE  \E m \in Live(ms, quarantined) :
                           /\ IsOf(ms[m], "request", u, ts[u].round)
                           /\ ms[m].status # "acked"
                           /\ \A n \in Live(ms, quarantined) :
                                 IsOf(ms[n], "request", u, ts[u].round) => n = m
    BY <1>8 DEF Posted
  <2>2. u # t /\ tasks[u].state = "working" /\ ts[u].round = tasks[u].round
    BY <2>1, <1>7, <1>8 DEF TerminalStates
  <2>3. PICK m \in rows :
           /\ IsOf(messages[m], "request", u, tasks[u].round)
           /\ messages[m].status # "acked"
           /\ \A n \in rows : IsOf(messages[n], "request", u, tasks[u].round) => n = m
    BY <2>2 DEF RoundsInv, Rounds, Posted, rows
  <2>4. m # x
    BY <2>2, <2>3, <1>4 DEF IsOf
  <2>5. ~IsOf(ms[last], "request", u, ts[u].round)
    BY <1>6, <1>11 DEF IsOf
  <2>6. \A n \in rows : IsOf(ms[n], "request", u, ts[u].round)
                          <=> IsOf(messages[n], "request", u, tasks[u].round)
    BY <1>10, <1>11, <1>12, <2>2 DEF IsOf
  <2>7. ms[m].status # "acked"
    BY <1>10, <1>11, <1>12, <2>3, <2>4
  <2>8. QED
    BY <2>3, <2>5, <2>6, <2>7, <1>12
<1>15. Reached(ts, ms)
  BY <1>1, <1>6, <1>8, <1>10, <1>11 DEF RoundsInv, Rounds, Reached
<1>16. Ended(ts, ms)
  <2>1. ASSUME NEW m \in DOMAIN messages, messages[m].outcome \in TerminalOutcomes
        PROVE  messages[m].type = "reply" /\ ts[messages[m].task].state \in TerminalStates
    <3>1. messages[m].type = "reply" /\ tasks[messages[m].task].state \in TerminalStates
      BY <2>1 DEF RoundsInv, Rounds, Ended
    <3>2. messages[m].task # t
      BY <3>1, <1>2 DEF TerminalStates
    <3>3. QED
      BY <3>1, <3>2, <1>1, <1>8
  <2>2. QED
    BY <2>1, <1>6, <1>7, <1>8, <1>10, <1>11 DEF Ended
<1>17. OneEach(ms, quarantined)
  <2>1. ASSUME NEW m \in rows, messages[m].task = t, messages[m].type = "reply"
        PROVE  messages[m].round # r /\ messages[m].outcome \notin TerminalOutcomes
    <3>1. messages[m].outcome \notin TerminalOutcomes
      BY <2>1, <1>2, <1>12 DEF RoundsInv, Rounds, Ended, TerminalStates
    <3>2. QED
      BY <2>1, <3>1, <1>13 DEF IsOf
  <2>2. \A m \in rows : /\ ms[m].task = messages[m].task /\ ms[m].type = messages[m].type
                        /\ ms[m].round = messages[m].round
                        /\ ms[m].outcome = messages[m].outcome
    BY <1>10, <1>11, <1>12
  <2>3. OneEach(messages, quarantined)
    BY DEF RoundsInv, Rounds
  <2>4. ms[last].task = t /\ ms[last].type = "reply" /\ ms[last].round = r
    BY <1>6, <1>11
  <2>5. QED
    BY <2>1, <2>2, <2>3, <2>4, <1>12 DEF OneEach, rows
<1>18. Told(ts, ms, quarantined)
  <2>1. SUFFICES ASSUME NEW u \in DOMAIN tasks,
                        ts[u].state \in {"done", "compact_ready", "waiting_checkpoint"}
                 PROVE  \E n \in Live(ms, quarantined) :
                           /\ IsOf(ms[n], "reply", u, ts[u].round)
                           /\ StateAfter(ms[n].outcome) = ts[u].state
    BY <1>8 DEF Told
  <2>2. CASE u = t
    <3>1. IsOf(ms[last], "reply", t, ts[t].round) /\ StateAfter(ms[last].outcome) = ts[t].state
      BY <1>6, <1>8, <1>11 DEF IsOf, state
    <3>2. QED
      BY <3>1, <2>2, <1>12
  <2>3. CASE u # t
    <3>1. tasks[u].state = ts[u].state /\ ts[u].round = tasks[u].round
      BY <2>3, <1>8
    <3>2. PICK n \in rows : /\ IsOf(messages[n], "reply", u, tasks[u].round)
                            /\ StateAfter(messages[n].outcome) = tasks[u].state
      BY <2>1, <3>1 DEF RoundsInv, Rounds, Told, rows
    <3>3. IsOf(ms[n], "reply", u, ts[u].round) /\ ms[n].outcome = messages[n].outcome
      BY <3>1, <3>2, <1>10, <1>11, <1>12 DEF IsOf
    <3>4. QED
      BY <3>1, <3>2, <3>3, <1>12
  <2>4. QED
    BY <2>2, <2>3
<1>19. Fresh(ts, ms, quarantined)
  <2>1. SUFFICES ASSUME MaxCorrupt = 0 PROVE Fresh(ts, ms, quarantined)
    BY DEF Fresh
  <2>2. \A m \in DOMAIN ms : ms[m].damage = "none"
    BY <2>1, <1>6, <1>10, <1>11 DEF RoundsInv, Rounds, Fresh
  <2>3. ASSUME NEW m \in rows, ms[m].type = "request", ms[m].status # "acked"
        PROVE  ts[ms[m].task].state = "working" /\ ts[ms[m].task].round = ms[m].round
    <3>1. /\ m # x /\ messages[m].type = "request" /\ messages[m].status # "acked"
          /\ ms[m].task = messages[m].task /\ ms[m].round = messages[m].round
      BY <2>3, <1>10, <1>11, <1>12
    <3>2. /\ tasks[messages[m].task].state = "working"
          /\ tasks[messages[m].task].round = messages[m].round
      BY <2>1, <3>1 DEF RoundsInv, Rounds, Fresh, rows
    <3>3. messages[m].task # t
      BY <3>1, <3>2, <1>5 DEF IsOf
    <3>4. QED
      BY <3>1, <3>2, <3>3, <1>1, <1>8, <1>12
  <2>4. QED
    BY <2>2, <2>3, <1>6, <1>11, <1>12 DEF Fresh
<1>20. Started(ts, ms)
  <2>1. ts[t].state # "queued"
    BY <1>7, <1>8 DEF TerminalStates
  <2>2. QED
    BY <2>1, <1>6, <1>8, <1>10, <1>11 DEF Started, QueueInv, RowsOfStartedTasks
<1>21. Current(ts, ms, quarantined)
  <2>1. ASSUME NEW m \in rows, ms[m].type = "request", ms[m].status # "acked"
        PROVE  /\ ms[m].round = ts[ms[m].task].round
               /\ \A n \in rows : ~IsOf(ms[n], "reply", ms[m].task, ms[m].round)
               /\ ~IsOf(ms[last], "reply", ms[m].task, ms[m].round)
    <3>1. /\ m # x /\ messages[m].type = "request" /\ messages[m].status # "acked"
          /\ ms[m].task = messages[m].task /\ ms[m].round = messages[m].round
          /\ ms[m].task \in DOMAIN tasks
      BY <2>1, <1>1, <1>10, <1>11, <1>12
    <3>2. /\ messages[m].round = tasks[messages[m].task].round
          /\ \A n \in rows : ~IsOf(messages[n], "reply", messages[m].task, messages[m].round)
      BY <2>1, <3>1 DEF RoundsInv, Rounds, Current, rows
    <3>3. ~IsOf(messages[m], "request", t, r)
      BY <2>1, <3>1, <1>5
    <3>4. \A n \in rows : ~IsOf(ms[n], "reply", ms[m].task, ms[m].round)
      BY <3>1, <3>2, <1>10, <1>11, <1>12 DEF IsOf
    <3>5. ~IsOf(ms[last], "reply", ms[m].task, ms[m].round)
      BY <3>1, <3>2, <3>3, <1>6, <1>11 DEF IsOf
    <3>6. QED
      BY <3>1, <3>2, <3>4, <3>5, <1>8
  <2>2. ms[last].type # "request"
    BY <1>6, <1>11
  <2>3. QED
    BY <2>1, <2>2, <1>12 DEF Current
<1>22. QED
  BY <1>9, <1>11, <1>14, <1>15, <1>16, <1>17, <1>18, <1>19, <1>20, <1>21
     DEF Rounds, ts, ms, row, state

-----------------------------------------------------------------------------
(* The transactions.                                                       *)

\* A row is damaged only where the bound lets someone damage it.
LEMMA DamageNeedsRoom ==
  ASSUME TypeOK, NEW m, NEW how, DamageRow(m, how)
  PROVE  MaxCorrupt # 0
<1> DEFINE S == {n \in DOMAIN messages : messages[n].damage # "none"}
<1>1. IsFiniteSet(1..Len(messages))
  BY FS_Interval DEF TypeOK
<1>2. S \subseteq 1..Len(messages)
  BY DEF TypeOK
<1>3. IsFiniteSet(S) /\ Cardinality(S) \in Nat
  BY <1>1, <1>2, FS_Subset, FS_CardinalityType
<1>4. Cardinality(S) < MaxCorrupt
  BY DEF DamageRow
<1> HIDE DEF S
<1>5. QED
  BY <1>3, <1>4, BoundsAssumption

LEMMA RoundsStep ==
  ASSUME TypeOK, QueueInv, RoundsInv, [Next]_storeVars
  PROVE  RoundsInv'
<1>0. \A m \in DOMAIN messages : messages[m] \in MessageRows
  BY RowsAreTyped
<1>1. CASE UNCHANGED <<tasks, messages, quarantined>>
  BY <1>1, RoundsUntouched
<1>2. ASSUME NEW a \in Agents, NEW s \in Sessions, AcknowledgeReplies(a, s)
      PROVE  RoundsInv'
  <2>1. /\ DOMAIN messages' = DOMAIN messages
        /\ \A m \in DOMAIN messages :
              messages'[m] = IF m \in LeasedReplies(a, s) THEN Acked(messages[m])
                             ELSE messages[m]
    BY <1>2 DEF AcknowledgeReplies
  <2>2. \A m \in LeasedReplies(a, s) : m \in DOMAIN messages /\ messages[m].type = "reply"
    BY DEF LeasedReplies, Rows
  <2>3. UNCHANGED <<tasks, quarantined>>
    BY <1>2 DEF AcknowledgeReplies
  <2>4. QED
    BY <1>0, <2>1, <2>2, <2>3, RoundsUntouched DEF Acked, MessageRows
<1>3. ASSUME NEW a \in Agents, NEW s \in Sessions, NEW w \in Waiters,
             ClaimMessage(a, s, w)
      PROVE  RoundsInv'
  <2> DEFINE m == First(Claimable(a))
  <2>1. /\ m \in DOMAIN messages /\ messages[m].status = "posted"
        /\ messages' = [messages EXCEPT ![m] = Leased(messages[m], s)]
        /\ UNCHANGED <<tasks, quarantined>>
    BY <1>3, FirstClaimable DEF ClaimMessage, Claimable, Rows
  <2> HIDE DEF m
  <2>2. QED
    BY <1>0, <2>1, RoundsUntouched DEF Leased, MessageRows
<1>4. ASSUME NEW a \in Agents, NEW s \in Sessions, NEW w \in Waiters,
             QuarantineMessage(a, s, w)
      PROVE  RoundsInv'
  <2> DEFINE m == First(Claimable(a))
             ts == [tasks EXCEPT ![messages[m].task].state = "blocked"]
  <2>1. /\ m \in Rows /\ messages[m].damage # "none"
        /\ quarantined' = quarantined \cup {m} /\ ActivateNext(ts, messages)
    BY <1>4, FirstClaimable DEF QuarantineMessage
  <2>2. quarantined' \subseteq DOMAIN messages
    BY <2>1 DEF TypeOK, Rows
  <2> HIDE DEF m
  <2>3. ts \in Seq(TaskRows) /\ Rounds(ts, messages, quarantined') /\ Started(ts, messages)
    BY <2>1, RowTaken
  <2> HIDE DEF ts
  <2>4. QED
    BY <2>1, <2>2, <2>3, ActivationPosts DEF TypeOK
<1>5. ASSUME NEW r \in Requests, EnqueueTask(r) PROVE RoundsInv'
  <2> DEFINE task == [req |-> r, state |-> "queued", round |-> 1]
             ts == Append(tasks, task)
  <2>1. task \in TaskRows /\ task.state = "queued"
    BY DEF TaskRows, TaskStates, Requests
  <2>2. ActivateNext(ts, messages) /\ UNCHANGED quarantined
    BY <1>5 DEF EnqueueTask
  <2> HIDE DEF task
  <2>3. ts \in Seq(TaskRows) /\ Rounds(ts, messages, quarantined) /\ Started(ts, messages)
    BY <2>1, TaskJoins
  <2> HIDE DEF ts
  <2>4. QED
    BY <2>2, <2>3, ActivationPosts DEF TypeOK
<1>6. ASSUME NEW t \in DOMAIN tasks, NEW a \in Agents, NEW topic \in Topics,
             ResumeContextCheck(t, a, topic)
      PROVE  RoundsInv'
  <2> DEFINE task == Reopened(tasks[t], topic)
  <2>1. tasks[t] \in TaskRows /\ tasks[t].round \in Nat
    BY TaskColumns DEF TypeOK
  <2>2. /\ task \in TaskRows /\ task.state = "working" /\ task.round = tasks[t].round + 1
    BY <2>1, TaskTypes DEF Reopened
  <2>3. /\ tasks[t].state = "waiting_checkpoint"
        /\ tasks' = [tasks EXCEPT ![t] = task]
        /\ messages' = Append(messages, RequestRow(task, t))
        /\ UNCHANGED quarantined
    BY <1>6 DEF ResumeContextCheck, WaitingChecks
  <2> HIDE DEF task
  <2>4. \A m \in DOMAIN messages : messages[m].task = t => messages[m].round < task.round
    BY <2>1, <2>2, MessageColumns DEF RoundsInv, Rounds, Reached, TypeOK
  <2>5. Started(tasks, messages)
    BY DEF Started, QueueInv, RowsOfStartedTasks
  <2>6. task.round >= tasks[t].round
    BY <2>1, <2>2
  <2>7. Rounds([tasks EXCEPT ![t] = task], Append(messages, RequestRow(task, t)), quarantined)
    BY <2>2, <2>3, <2>4, <2>5, <2>6, RequestPosted DEF TypeOK, RoundsInv
  <2>8. QED
    BY <2>3, <2>7 DEF RoundsInv
<1>7. ASSUME NEW t \in DOMAIN tasks, NEW a \in Agents, NEW o \in Outcomes,
             NEW b \in Bodies, Reply(t, a, o, b)
      PROVE  RoundsInv'
  <2> DEFINE ts == [tasks EXCEPT ![t].state = StateAfter(o)]
             ms == Append(Answered(t), ReplyRow(t, o, b))
  <2>1. /\ MayReply(t, a) /\ UNCHANGED quarantined
        /\ IF o \in TerminalOutcomes THEN ActivateNext(ts, ms)
           ELSE tasks' = ts /\ messages' = ms
    BY <1>7 DEF Reply
  <2>2. /\ ts \in Seq(TaskRows) /\ ms \in Seq(MessageRows)
        /\ DOMAIN messages \subseteq DOMAIN ms
        /\ Rounds(ts, ms, quarantined) /\ Started(ts, ms)
    BY <2>1, RoundAnswered
  <2> HIDE DEF ts, ms
  <2>3. CASE o \in TerminalOutcomes
    BY <2>1, <2>2, <2>3, ActivationPosts DEF TypeOK
  <2>4. CASE o \notin TerminalOutcomes
    BY <2>1, <2>2, <2>4 DEF RoundsInv
  <2>5. QED
    BY <2>3, <2>4
<1>8. ASSUME NEW m \in DOMAIN messages, LeaseExpires(m) PROVE RoundsInv'
  <2>1. /\ messages[m].status = "leased"
        /\ messages' = [messages EXCEPT ![m] = Expired(messages[m])]
        /\ UNCHANGED <<tasks, quarantined>>
    BY <1>8 DEF LeaseExpires
  <2>2. QED
    BY <1>0, <2>1, RoundsUntouched DEF Expired, MessageRows
<1>9. ASSUME NEW m \in DOMAIN messages, NEW how \in {"payload", "recipient"},
             DamageRow(m, how)
      PROVE  RoundsInv'
  <2>1. /\ messages' = [messages EXCEPT ![m].damage = how]
        /\ UNCHANGED <<tasks, quarantined>>
    BY <1>9 DEF DamageRow
  <2>2. MaxCorrupt # 0
    BY <1>9, DamageNeedsRoom
  <2>3. QED
    BY <1>0, <2>1, <2>2, RoundsUntouched DEF MessageRows
<1>10. CASE Next
  <2>1. ASSUME NEW a \in Agents, NEW s \in Sessions,
               \/ JoinMember(a, s) \/ LeaveMember(a, s)
               \/ \E w \in Waiters : BeginWait(a, s, w) \/ ClearWaiter(a, s, w)
        PROVE  RoundsInv'
    BY <2>1, <1>1 DEF JoinMember, LeaveMember, BeginWait, ClearWaiter
  <2>2. ASSUME NEW t \in DOMAIN tasks, NEW a \in Agents,
               \/ \E k \in Samples, p \in Prints : RecordContextCheck(a, k, p, t)
               \/ \E f \in Snapshots, r \in 1..MaxRounds : RecordBaseline(t, r, f)
               \/ ClearContextCheck(a)
        PROVE  RoundsInv'
    BY <2>2, <1>1 DEF RecordContextCheck, RecordBaseline, ClearContextCheck
  <2>3. ASSUME NEW a \in Agents, ClearContextCheck(a) PROVE RoundsInv'
    BY <2>3, <1>1 DEF ClearContextCheck
  <2>4. QED
    BY <1>10, <2>1, <2>2, <2>3, <1>2, <1>3, <1>4, <1>5, <1>6, <1>7, <1>8, <1>9 DEF Next
<1>11. QED
  BY <1>1, <1>10 DEF storeVars

LEMMA AlwaysRounds == Spec => [](TypeOK /\ QueueInv /\ RoundsInv)
<1>1. Init => TypeOK /\ QueueInv /\ RoundsInv
  BY DEF Init, TypeOK, MemberRows, CheckRows, NoCheck, QueueInv, ServedInOrder,
         NeverIdleWithWork, InState, RowsOfStartedTasks, RoundsInv, Rounds, Posted,
         Reached, Ended, OneEach, Told, Fresh, Current, Live
<1>2. TypeOK /\ QueueInv /\ RoundsInv /\ [Next]_storeVars
        => TypeOK' /\ QueueInv' /\ RoundsInv'
  BY TypeStep, QueueStep, RoundsStep
<1>3. QED
  BY <1>1, <1>2, PTL DEF Spec

\* The request of the working task is posted once and can be delivered: the
\* room never waits for an answer to nothing (storage.py reply, "task request
\* is missing").
THEOREM WorkStaysPosted == Spec => []WorkIsPosted
BY AlwaysRounds, RoundsSuffice, PTL

\* No round is answered twice and no task ends twice, so that the unique indexes
\* on messages never fire, whoever retries what.
THEOREM RoundsAreAnsweredOnce == Spec => []OneReplyPerRound
BY AlwaysRounds, RoundsSuffice, PTL

\* A task is done, granted or waiting only if the reply that said so is stored,
\* whatever was quarantined on the way.
THEOREM StatesMatchReplies == Spec => []StateMatchesReply
BY AlwaysRounds, RoundsSuffice, PTL

\* While nobody damages rows, what can be delivered is the working task's
\* current request: nobody is handed work that is over.
THEOREM NothingStaleIsDelivered == Spec => []NoStaleRequest
BY AlwaysRounds, RoundsSuffice, PTL

\* Damaged rows or not, a request that can still be delivered asks for the round
\* its task is in, and nobody has answered that round.
UnansweredIsCurrent ==
    \A m \in Rows : messages[m].type = "request" /\ messages[m].status # "acked" =>
        /\ messages[m].round = tasks[messages[m].task].round
        /\ ReplyRows(messages[m].task, messages[m].round) = {}

\* Nobody is asked for a round that is over or answered, whatever rows were
\* damaged and quarantined on the way.
THEOREM OnlyTheCurrentRoundIsAsked == Spec => []UnansweredIsCurrent
<1>1. RoundsInv => UnansweredIsCurrent
  BY DEF RoundsInv, Rounds, Current, Live, Rows, IsOf, ReplyRows, UnansweredIsCurrent
<1>2. QED
  BY <1>1, AlwaysRounds, PTL
=============================================================================
