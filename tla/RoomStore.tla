------------------------------ MODULE RoomStore ------------------------------
(***************************************************************************)
(* The durable room: the tables of one room's SQLite database and the      *)
(* transactions of SQLiteStore (storage.py).  Every public mutation runs   *)
(* under _mutation(), a lock plus BEGIN IMMEDIATE ... COMMIT, so each is   *)
(* one action here, whoever calls it.  A transaction that raises rolls     *)
(* back: its refusal is the negation of the action's guard.                *)
(*                                                                         *)
(* A task is its fifo_sequence, a message row is its fifo_sequence; both   *)
(* are AUTOINCREMENT, so they index the sequences tasks and messages.      *)
(* Quarantine moves a row to another table: the row keeps its number and   *)
(* joins the set quarantined, and every query below reads Rows only.       *)
(* A row's delivery columns become one status: posted (never delivered, or *)
(* delivered under a lease that ran out), leased (to session by) or acked. *)
(* The clock passing lease_expires_at is the event LeaseExpires.           *)
(***************************************************************************)
EXTENDS Naturals, Sequences, FiniteSets

CONSTANTS
    Agents,       \* AgentName: codex and claude
    Sessions,     \* platform session ids
    Waiters,      \* (pid, token) pairs, one per wait call
    Keys,         \* idempotency keys
    Topics,       \* what a request asks: its question and document lists
    Kinds,        \* TaskKind; only a context check is told apart here
    Bodies,       \* what a reply says
    Snapshots,    \* content hashes of the room's worktree
    Samples,      \* input_tokens of a context sample
    Prints,       \* checkpoint fingerprints
    NoSession, NoWaiter, NoPrint, NoBody,  \* the NULLs of those columns
    MaxTasks,     \* bound: tasks ever enqueued
    MaxRounds,    \* bound: rounds of one context check
    MaxCorrupt    \* bound: rows damaged by someone else

ASSUME BoundsAssumption ==
    /\ MaxTasks \in Nat /\ MaxRounds \in Nat \ {0} /\ MaxCorrupt \in Nat

ASSUME NullAssumption == NoSession \notin Sessions /\ NoWaiter \notin Waiters

ASSUME SampleAssumption == Samples \subseteq Nat

ASSUME KindAssumption == "context_check" \in Kinds

VARIABLES
    members,      \* the members table, one row per agent
    tasks,        \* the tasks table, in FIFO order
    messages,     \* every message row ever inserted, in FIFO order
    quarantined,  \* the rows moved to quarantined_messages
    baselines,    \* the workspace_baselines table
    checks        \* the context_check_state table, one row per agent

storeVars == <<members, tasks, messages, quarantined, baselines, checks>>

-----------------------------------------------------------------------------
(* Rows and their columns.                                                 *)

ActiveStates == {"working", "waiting_checkpoint"}
TerminalStates == {"done", "blocked", "compact_ready"}
TaskStates == {"queued"} \cup ActiveStates \cup TerminalStates
TerminalOutcomes == {"done", "blocked", "compact_ready"}
Outcomes == TerminalOutcomes \cup {"checkpoint_needed"}

\* An unknown token count is the sample 0, which no known count is.
RequestColumns ==
    [key: Keys, sender: Agents, recipient: Agents, kind: Kinds,
     topic: Topics, tokens: Samples]

\* AiRoomService.send, the only caller of enqueue_task beside the context
\* check, sends nothing to its own agent.
Requests == {r \in RequestColumns : r.sender # r.recipient}

TaskRows == [req: RequestColumns, state: TaskStates, round: Nat]
NoOutcome == "null"
MessageRows ==
    [task: Nat, round: Nat, type: {"request", "reply"}, recipient: Agents,
     outcome: Outcomes \cup {NoOutcome}, body: Bodies \cup {NoBody},
     status: {"posted", "leased", "acked"},
     by: Sessions \cup {NoSession}, damage: {"none", "payload", "recipient"}]
MemberRows == [status: {"never", "joined", "left"},
               session: Sessions \cup {NoSession},
               waiter: Waiters \cup {NoWaiter}]
BaselineRows == [task: Nat, round: Nat, files: Snapshots]
CheckRows == [tokens: Nat, print: Prints \cup {NoPrint}, task: Nat,
              awaiting: BOOLEAN]
NoCheck == [tokens |-> 0, print |-> NoPrint, task |-> 0, awaiting |-> FALSE]

TypeOK ==
    /\ members \in [Agents -> MemberRows]
    /\ tasks \in Seq(TaskRows)
    /\ messages \in Seq(MessageRows)
    /\ quarantined \subseteq DOMAIN messages
    /\ baselines \subseteq BaselineRows
    /\ checks \in [Agents -> CheckRows]

Init ==
    /\ members = [a \in Agents |->
                    [status |-> "never", session |-> NoSession, waiter |-> NoWaiter]]
    /\ tasks = <<>>
    /\ messages = <<>>
    /\ quarantined = {}
    /\ baselines = {}
    /\ checks = [a \in Agents |-> NoCheck]

-----------------------------------------------------------------------------
(* Queries.                                                                *)

\* ORDER BY fifo_sequence DESC LIMIT 1.
Newest(S) == CHOOSE n \in S : \A k \in S : n >= k

\* ORDER BY fifo_sequence LIMIT 1.
First(S) == CHOOSE n \in S : \A k \in S : n <= k

Rows == DOMAIN messages \ quarantined

IsJoinedAs(a, s) == members[a].status = "joined" /\ members[a].session = s

IsCurrentWaiter(a, s, w) == IsJoinedAs(a, s) /\ members[a].waiter = w

RequestRows(t, r) ==
    {m \in Rows : /\ messages[m].task = t /\ messages[m].round = r
                  /\ messages[m].type = "request"}

ReplyRows(t, r) ==
    {m \in Rows : /\ messages[m].task = t /\ messages[m].round = r
                  /\ messages[m].type = "reply"}

\* What claim_next_message may hand to a: unacknowledged, and never delivered
\* or delivered under a lease that ran out.  A row whose recipient is not an
\* agent is anybody's.
Claimable(a) ==
    {m \in Rows : /\ messages[m].recipient = a \/ messages[m].damage = "recipient"
                  /\ messages[m].status = "posted"}

WithKey(k) == {t \in DOMAIN tasks : tasks[t].req.key = k}

WaitingChecks(a) ==
    {t \in DOMAIN tasks : /\ tasks[t].req.sender = a
                          /\ tasks[t].req.kind = "context_check"
                          /\ tasks[t].state = "waiting_checkpoint"}

BaselineOf(t, r) == {b \in baselines : b.task = t /\ b.round = r}

-----------------------------------------------------------------------------
(* Membership and waiting.                                                 *)

\* join_member: upsert the row; a new session replaces the old one and any
\* waiter registered under it.
JoinMember(a, s) ==
    /\ members' = [members EXCEPT ![a] =
                     [status |-> "joined", session |-> s, waiter |-> NoWaiter]]
    /\ UNCHANGED <<tasks, messages, quarantined, baselines, checks>>

\* leave_member: only the session the row names leaves.
LeaveMember(a, s) ==
    /\ members[a].session = s
    /\ members' = [members EXCEPT ![a].status = "left", ![a].waiter = NoWaiter]
    /\ UNCHANGED <<tasks, messages, quarantined, baselines, checks>>

\* begin_wait: the newest wait of a session supersedes the one before it.
BeginWait(a, s, w) ==
    /\ IsJoinedAs(a, s)
    /\ members' = [members EXCEPT ![a].waiter = w]
    /\ UNCHANGED <<tasks, messages, quarantined, baselines, checks>>

\* clear_waiter: a waiter unregisters itself, never its successor.
ClearWaiter(a, s, w) ==
    /\ members' = IF members[a].session = s /\ members[a].waiter = w
                  THEN [members EXCEPT ![a].waiter = NoWaiter]
                  ELSE members
    /\ UNCHANGED <<tasks, messages, quarantined, baselines, checks>>

-----------------------------------------------------------------------------
(* The task queue.                                                         *)

RequestRow(task, t) ==
    [task |-> t, round |-> task.round, type |-> "request",
     recipient |-> task.req.recipient, outcome |-> NoOutcome, body |-> NoBody,
     status |-> "posted", by |-> NoSession, damage |-> "none"]

InState(ts, S) == {t \in DOMAIN ts : ts[t].state \in S}

IsIdleOrWaiting(ts) == InState(ts, {"working"}) = {}    \* mutant: a waiting
                                            \* check does not hold the advisor

IsIdle(ts) == InState(ts, ActiveStates) = {}

\* _activate_next, which ends every transaction that may free the advisor:
\* with no active task, the oldest queued one starts and its request is posted.
ActivateNext(ts, ms) ==
    LET queued == InState(ts, {"queued"})
    IN  IF IsIdle(ts) /\ queued # {}
        THEN LET t == First(queued)
             IN  /\ tasks' = [ts EXCEPT ![t].state = "working"]
                 /\ messages' = Append(ms, RequestRow(ts[t], t))
        ELSE tasks' = ts /\ messages' = ms

\* enqueue_task, when the idempotency key is new and the peer has a row.  A
\* repeated key returns the existing task (same request) or is refused.
EnqueueTask(r) ==
    /\ WithKey(r.key) = {}
    /\ members[r.recipient].status # "never"
    /\ Len(tasks) < MaxTasks
    /\ ActivateNext(Append(tasks, [req |-> r, state |-> "queued", round |-> 1]),
                    messages)
    /\ UNCHANGED <<members, quarantined, baselines, checks>>

\* mutant: the round is not counted up
ReopenedInSameRound(task, topic) ==
    [req |-> [task.req EXCEPT !.topic = topic],
     state |-> "working", round |-> task.round]

Reopened(task, topic) ==
    [req |-> [task.req EXCEPT !.topic = topic],
     state |-> "working", round |-> task.round + 1]

\* mutant: the request is posted from the row read before the update
ResumePostsOldRow(t, a, topic) ==
    /\ t \in WaitingChecks(a)
    /\ tasks[t].round < MaxRounds
    /\ tasks' = [tasks EXCEPT ![t] = Reopened(@, topic)]
    /\ messages' = Append(messages, RequestRow(tasks[t], t))
    /\ UNCHANGED <<members, quarantined, baselines, checks>>

\* resume_context_check: the sender of a waiting check reopens it with a
\* rewritten question.
ResumeContextCheck(t, a, topic) ==
    /\ t \in WaitingChecks(a)
    /\ tasks[t].round < MaxRounds
    /\ tasks' = [tasks EXCEPT ![t] = Reopened(@, topic)]
    /\ messages' = Append(messages, RequestRow(Reopened(tasks[t], topic), t))
    /\ UNCHANGED <<members, quarantined, baselines, checks>>

-----------------------------------------------------------------------------
(* Delivery.                                                               *)

Leased(row, s) == [row EXCEPT !.status = "leased", !.by = s]

\* claim_next_message on a readable row: the oldest claimable message is
\* leased to the current waiter's session.
ClaimMessage(a, s, w) ==
    /\ IsCurrentWaiter(a, s, w)
    /\ Claimable(a) # {}
    /\ LET m == First(Claimable(a))
       IN  /\ messages[m].damage = "none"
           /\ messages' = [messages EXCEPT ![m] = Leased(@, s)]
    /\ UNCHANGED <<members, tasks, quarantined, baselines, checks>>

\* mutant: the next task is not started
QuarantineOnly(a, s, w) ==
    /\ IsCurrentWaiter(a, s, w)
    /\ Claimable(a) # {}
    /\ LET m == First(Claimable(a))
       IN  /\ messages[m].damage # "none"
           /\ quarantined' = quarantined \cup {m}
           /\ tasks' = [tasks EXCEPT ![messages[m].task].state = "blocked"]
    /\ UNCHANGED <<members, messages, baselines, checks>>

\* mutant: a task that is over keeps its state
QuarantineKeepsState(a, s, w) ==
    /\ IsCurrentWaiter(a, s, w)
    /\ Claimable(a) # {}
    /\ LET m == First(Claimable(a))
           t == messages[m].task
       IN  /\ messages[m].damage # "none"
           /\ quarantined' = quarantined \cup {m}
           /\ ActivateNext([tasks EXCEPT ![t].state =
                              IF @ \in TerminalStates THEN @ ELSE "blocked"],
                           messages)
    /\ UNCHANGED <<members, baselines, checks>>

\* claim_next_message on a malformed row: _quarantine_message moves the row
\* away, blocks its task whatever state it is in, and starts the next one.
QuarantineMessage(a, s, w) ==
    /\ IsCurrentWaiter(a, s, w)
    /\ Claimable(a) # {}
    /\ LET m == First(Claimable(a))
       IN  /\ messages[m].damage # "none"
           /\ quarantined' = quarantined \cup {m}
           /\ ActivateNext([tasks EXCEPT ![messages[m].task].state = "blocked"],
                           messages)
    /\ UNCHANGED <<members, baselines, checks>>

Acked(row) == [row EXCEPT !.status = "acked", !.by = NoSession]

\* The replies acknowledge_informational_replies marks: those leased to this
\* session whose lease still runs.
LeasedReplies(a, s) ==
    {m \in Rows : /\ messages[m].recipient = a /\ messages[m].damage # "recipient"
                  /\ messages[m].type = "reply"
                  /\ messages[m].status = "leased" /\ messages[m].by = s}

AcknowledgeReplies(a, s) ==
    /\ IsJoinedAs(a, s)
    /\ messages' = [m \in DOMAIN messages |->
                      IF m \in LeasedReplies(a, s)
                      THEN Acked(messages[m]) ELSE messages[m]]
    /\ UNCHANGED <<members, tasks, quarantined, baselines, checks>>

\* mutant: INSERT OR REPLACE
ReplaceBaseline(t, r, files) ==
    /\ t \in DOMAIN tasks /\ tasks[t].round = r
    /\ baselines' = (baselines \ BaselineOf(t, r))
                       \cup {[task |-> t, round |-> r, files |-> files]}
    /\ UNCHANGED <<members, tasks, messages, quarantined, checks>>

\* record_workspace_baseline: INSERT OR IGNORE, refused once the round moved on.
RecordBaseline(t, r, files) ==
    /\ t \in DOMAIN tasks /\ tasks[t].round = r
    /\ baselines' = IF BaselineOf(t, r) = {}
                    THEN baselines \cup {[task |-> t, round |-> r, files |-> files]}
                    ELSE baselines
    /\ UNCHANGED <<members, tasks, messages, quarantined, checks>>

-----------------------------------------------------------------------------
(* Replies.                                                                *)

ReplyRow(t, o, b) ==
    [task |-> t, round |-> tasks[t].round, type |-> "reply",
     recipient |-> tasks[t].req.sender, outcome |-> o, body |-> b,
     status |-> "posted", by |-> NoSession, damage |-> "none"]

OutcomeAsState(o) == o    \* mutant: the nonterminal outcome is no task state

StateAfter(o) == IF o = "checkpoint_needed" THEN "waiting_checkpoint" ELSE o

\* What reply() checks before it writes the round's first reply.
MayReply(t, a) ==
    /\ t \in DOMAIN tasks
    /\ tasks[t].req.recipient = a
    /\ ReplyRows(t, tasks[t].round) = {}
    /\ tasks[t].state = "working"
    /\ RequestRows(t, tasks[t].round) # {}

AnsweredNothing(t) == messages    \* mutant: the request stays open

\* The messages once the request of t's round is acknowledged.
Answered(t) ==
    [messages EXCEPT ![First(RequestRows(t, tasks[t].round))] = Acked(@)]

\* mutant: a grant is noted for the sender, whichever check it has on record
IsSendersCheck(a, t) == a = tasks[t].req.sender

IsCheckOnRecord(a, t) == checks[a].task = t

\* reply: acknowledge the round's request, post the reply, move the task, note
\* a granted compaction, and on a terminal outcome start the next task.
Reply(t, a, o, b) ==
    /\ MayReply(t, a)
    /\ LET ms == Append(Answered(t), ReplyRow(t, o, b))
           ts == [tasks EXCEPT ![t].state = StateAfter(o)]
       IN  IF o \in TerminalOutcomes
           THEN ActivateNext(ts, ms)
           ELSE tasks' = ts /\ messages' = ms
    /\ checks' = [c \in Agents |->
                    IF /\ tasks[t].req.kind = "context_check"
                       /\ o = "compact_ready"
                       /\ IsCheckOnRecord(c, t)
                    THEN [checks[c] EXCEPT !.awaiting = TRUE] ELSE checks[c]]
    /\ UNCHANGED <<members, quarantined, baselines>>

-----------------------------------------------------------------------------
(* Context check bookkeeping.                                              *)

RecordContextCheck(a, tokens, print, t) ==
    /\ t \in DOMAIN tasks
    /\ tasks[t].req.sender = a /\ tasks[t].req.kind = "context_check"
    /\ checks' = [checks EXCEPT ![a] = [tokens |-> tokens, print |-> print,
                                        task |-> t, awaiting |-> FALSE]]
    /\ UNCHANGED <<members, tasks, messages, quarantined, baselines>>

ClearContextCheck(a) ==
    /\ checks' = [checks EXCEPT ![a] = NoCheck]
    /\ UNCHANGED <<members, tasks, messages, quarantined, baselines>>

-----------------------------------------------------------------------------
(* What happens to the database without the store's transactions.          *)

StaysLeased(row) == row    \* mutant: a lease never runs out

Expired(row) == [row EXCEPT !.status = "posted", !.by = NoSession]

\* The clock passes the lease_expires_at of a message still to be acknowledged.
LeaseExpires(m) ==
    /\ m \in Rows
    /\ messages[m].status = "leased"
    /\ messages' = [messages EXCEPT ![m] = Expired(@)]
    /\ UNCHANGED <<members, tasks, quarantined, baselines, checks>>

\* Something else edits an unacknowledged row: its payload, or its recipient.
DamageRow(m, how) ==
    /\ m \in Rows
    /\ messages[m].status # "acked" /\ messages[m].damage = "none"
    /\ Cardinality({n \in DOMAIN messages : messages[n].damage # "none"}) < MaxCorrupt
    /\ messages' = [messages EXCEPT ![m].damage = how]
    /\ UNCHANGED <<members, tasks, quarantined, baselines, checks>>

\* Any client, calling any transaction with any arguments at any time.
Next ==
    \/ \E a \in Agents, s \in Sessions :
          \/ JoinMember(a, s)
          \/ LeaveMember(a, s)
          \/ AcknowledgeReplies(a, s)
          \/ \E w \in Waiters :
                \/ BeginWait(a, s, w)
                \/ ClearWaiter(a, s, w)
                \/ ClaimMessage(a, s, w)
                \/ QuarantineMessage(a, s, w)
    \/ \E r \in Requests : EnqueueTask(r)
    \/ \E t \in DOMAIN tasks, a \in Agents :
          \/ \E topic \in Topics : ResumeContextCheck(t, a, topic)
          \/ \E o \in Outcomes, b \in Bodies : Reply(t, a, o, b)
          \/ \E k \in Samples, p \in Prints : RecordContextCheck(a, k, p, t)
          \/ \E f \in Snapshots, r \in 1..MaxRounds : RecordBaseline(t, r, f)
    \/ \E a \in Agents : ClearContextCheck(a)
    \/ \E m \in DOMAIN messages :
          \/ LeaseExpires(m)
          \/ \E how \in {"payload", "recipient"} : DamageRow(m, how)

Spec == Init /\ [][Next]_storeVars

-----------------------------------------------------------------------------
(* What the room promises.                                                 *)

\* Tasks are served strictly in the order they were sent: when one has started,
\* every earlier one is over (so at most one is active).  Four transactions
\* move tasks, and each must leave the queue so (storage.py _activate_next).
ServedInOrder ==
    \A t, u \in DOMAIN tasks :
        t < u /\ tasks[u].state # "queued" => tasks[t].state \in TerminalStates

\* The room is never idle while a task is queued: a terminal reply, a
\* quarantine or a send starts the next task in its own transaction, since no
\* other step would (storage.py _activate_next has no caller of its own).
NeverIdleWithWork ==
    InState(tasks, {"queued"}) # {} => InState(tasks, ActiveStates) # {}

\* A working task has exactly one request posted for its round, and it is still
\* deliverable: reply() never meets "task request is missing", and the advisor
\* can always be handed the work that blocks the room.
WorkIsPosted ==
    \A t \in InState(tasks, {"working"}) :
        \E m \in RequestRows(t, tasks[t].round) :
            messages[m].status # "acked" /\ RequestRows(t, tasks[t].round) = {m}

\* A task's state is the one its last reply gave it: the task ended with an
\* outcome only if that reply is stored, and it waits for checkpoint records
\* only if its current round was answered so.
StateMatchesReply ==
    \A t \in DOMAIN tasks :
        tasks[t].state \in {"done", "compact_ready", "waiting_checkpoint"} =>
            \E m \in ReplyRows(t, tasks[t].round) :
                StateAfter(messages[m].outcome) = tasks[t].state

\* The unique indexes on messages never fire: one request and one reply per
\* round, one terminal reply per task, however often clients retry.
OneReplyPerRound ==
    \A m, n \in Rows :
        /\ m # n
        /\ messages[m].task = messages[n].task
        /\ messages[m].type = messages[n].type
        => /\ messages[m].round # messages[n].round
           /\ ~(messages[m].outcome \in TerminalOutcomes
                /\ messages[n].outcome \in TerminalOutcomes)

\* A check on record counts as granted only if that very check was answered
\* COMPACT_READY: a grant for an older check, or for one that is not yet on
\* record, does not silence the sender's later checks (IsDue).
GrantedIsReplied ==
    \A a \in Agents :
        checks[a].awaiting =>
            \E m \in DOMAIN messages :
                /\ messages[m].task = checks[a].task /\ messages[m].type = "reply"
                /\ messages[m].outcome = "compact_ready"

\* While nobody damages rows, an undelivered or redeliverable request is always
\* the working task's current one: no session is handed work nobody can answer.
NoStaleRequest ==
    MaxCorrupt = 0 =>
        \A m \in Rows :
            messages[m].type = "request" /\ messages[m].status # "acked" =>
                /\ tasks[messages[m].task].state = "working"
                /\ tasks[messages[m].task].round = messages[m].round

\* A task answered CHECKPOINT_NEEDED can be continued: its sender's next wait
\* with checkpoint documents finds it and reopens it.
WaitingCanContinue ==
    \A t \in InState(tasks, {"waiting_checkpoint"}) :
        t \in WaitingChecks(tasks[t].req.sender)

\* A round is judged against the first baseline captured for it: a redelivery,
\* by whichever session, never turns later edits into the new baseline.
FirstBaselineStands ==
    [][\A b \in baselines :
          {c \in baselines' : c.task = b.task /\ c.round = b.round} = {b}]_storeVars
=============================================================================
