---------------------------- MODULE ContextCheck ----------------------------
(***************************************************************************)
(* The part of a wait that looks after the primary's context window        *)
(* (service.py, context/policy.py): before it blocks, a wait either        *)
(* resumes the check its agent has waiting for checkpoint records, or      *)
(* samples the agent's tokens and asks the peer for a new check.           *)
(*                                                                         *)
(* Every line between two transactions is a place where the other agent's  *)
(* processes, or another wait of the same session, may act: one action per *)
(* transaction, the values read so far kept in ctx.  An error goes to      *)
(* "clear", the finally clause of the wait.                                *)
(***************************************************************************)
EXTENDS RoomStore

CONSTANTS
    AgentOf,      \* the agent each process runs for
    SessionOf,    \* the session each process belongs to
    Files,        \* files of the worktree
    Contents,     \* what a file may hold
    SamplesOf,    \* the token counts each agent's adapter may read
    Threshold,    \* tokens below which no check is asked (150 000)
    Growth        \* growth within which a check is not repeated (10 000)

Procs == Waiters    \* a process is named by the waiter it registers

ASSUME ProcsAssumption ==
    /\ AgentOf \in [Procs -> Agents] /\ SessionOf \in [Procs -> Sessions]
    /\ SamplesOf \in [Agents -> SUBSET Samples]
    /\ Snapshots = [Files -> Contents]
    /\ Threshold \in Nat \ {0} /\ Growth \in Nat

\* An agent has a peer, and what a check asks can be written to the tables.
ASSUME PeerAssumption == \A a \in Agents : \E b \in Agents : b # a

ASSUME CheckAssumption ==
    /\ \A docs \in SUBSET Files : [docs -> Contents] \subseteq Prints
    /\ Agents \X Samples \X Prints \subseteq Keys
    /\ [docs: SUBSET Files, round: 1..MaxRounds] \subseteq Topics

VARIABLES
    disk,         \* contents of the worktree
    pc,           \* where each process is
    ctx           \* what its wait has read for the context check

checkVars == <<disk, pc, ctx>>

NoCtx == [docs |-> {}, tokens |-> 0, prev |-> NoCheck, print |-> NoPrint,
          task |-> 0, round |-> 0]

Ctxs == [docs: SUBSET Files, tokens: Nat, prev: CheckRows,
         print: Prints \cup {NoPrint}, task: Nat, round: Nat]

me(p) == AgentOf[p]

Peer(a) == CHOOSE b \in Agents : b # a

\* checkpoint_fingerprint: a hash of the named files, whose paths are part of it.
Fingerprint(docs) == [f \in docs |-> disk[f]]

Goto(p, label) == pc' = [pc EXCEPT ![p] = label]

Fail(p) == Goto(p, "clear") /\ UNCHANGED <<storeVars, disk, ctx>>

-----------------------------------------------------------------------------
(* evaluate_compaction: is a check due?  (Its third answer, URGENT, words   *)
(* the question and is determined by the tokens.)                          *)

IsDue(tokens, prev, print) ==
    /\ tokens >= Threshold
    /\ \/ prev = NoCheck
       \/ tokens < prev.tokens
       \/ /\ ~prev.awaiting
          /\ tokens - prev.tokens >= Growth \/ print # prev.print

-----------------------------------------------------------------------------
(* wait, once its first claim found nothing.                               *)

\* waiting_context_check, the only read that tells the two branches apart.
LookForCheck(p) ==
    /\ pc[p] = "check"
    /\ Goto(p, IF WaitingChecks(me(p)) = {} THEN "sample"
               ELSE IF ctx[p].docs # {} THEN "resume_ack" ELSE "poll")
    /\ UNCHANGED <<storeVars, disk, ctx>>

\* _maybe_request_context_check: sample the tokens, read the previous check.
SampleTokens(p) ==
    /\ pc[p] = "sample"
    /\ \E tokens \in SamplesOf[me(p)] :
          /\ ctx' = [ctx EXCEPT ![p].tokens = tokens, ![p].prev = checks[me(p)]]
          /\ Goto(p, CASE tokens = 0 -> "poll"
                       [] tokens \in 1..(checks[me(p)].tokens - 1) -> "forget"
                       [] OTHER -> "judge")
    /\ UNCHANGED <<storeVars, disk>>

\* The tokens fell: the compaction happened.
ForgetCheck(p) ==
    /\ pc[p] = "forget"
    /\ ClearContextCheck(me(p))
    /\ ctx' = [ctx EXCEPT ![p].prev = NoCheck]
    /\ Goto(p, "judge")
    /\ UNCHANGED disk

\* Fingerprint the documents, apply the policy, see that there is a peer.
JudgeCheck(p) ==
    LET print == Fingerprint(ctx[p].docs)
    IN  /\ pc[p] = "judge"
        /\ ctx' = [ctx EXCEPT ![p].print = print]
        /\ Goto(p, IF ~IsDue(ctx[p].tokens, ctx[p].prev, print) THEN "poll"
                   ELSE IF members[Peer(me(p))].status = "never" THEN "clear" ELSE "ask")
        /\ UNCHANGED <<storeVars, disk>>

CheckRequest(p) ==
    [key |-> <<me(p), ctx[p].tokens, ctx[p].print>>,
     sender |-> me(p), recipient |-> Peer(me(p)), kind |-> "context_check",
     topic |-> [docs |-> ctx[p].docs, round |-> 1],
     tokens |-> ctx[p].tokens]

\* enqueue_task: a new task, the one the key already names, or a conflict when
\* that task was asked in other words: its question was rewritten meanwhile, or
\* the next entry or the session and window of the sample, which are left out
\* here, were others.
AskForCheck(p) ==
    LET req == CheckRequest(p)
        old == WithKey(req.key)
    IN  /\ pc[p] = "ask"
        /\ \/ /\ EnqueueTask(req)
              /\ ctx' = [ctx EXCEPT ![p].task = Len(tasks) + 1]
              /\ Goto(p, "note")
              /\ UNCHANGED disk
           \/ \E t \in old :
                 /\ tasks[t].req = req
                 /\ ctx' = [ctx EXCEPT ![p].task = t]
                 /\ Goto(p, "note")
                 /\ UNCHANGED <<storeVars, disk>>
           \/ old # {} /\ Fail(p)

\* record_context_check, a transaction of its own after the request or resume.
NoteCheck(p) ==
    /\ pc[p] = "note"
    /\ RecordContextCheck(me(p), ctx[p].tokens, ctx[p].print, ctx[p].task)
    /\ Goto(p, "poll")
    /\ UNCHANGED <<disk, ctx>>

\* resume_context_check acknowledges once more before it looks for the task.
AckBeforeResume(p) ==
    /\ pc[p] = "resume_ack"
    /\ \/ /\ AcknowledgeReplies(me(p), SessionOf[p])
          /\ Goto(p, "resume_find")
          /\ UNCHANGED <<disk, ctx>>
       \/ ~IsJoinedAs(me(p), SessionOf[p]) /\ Fail(p)

FindCheck(p) ==
    LET t == Newest(WaitingChecks(me(p)))
    IN  /\ pc[p] = "resume_find"
        /\ \/ WaitingChecks(me(p)) = {} /\ Fail(p)
           \/ /\ WaitingChecks(me(p)) # {}
              /\ ctx' = [ctx EXCEPT ![p].task = t, ![p].round = tasks[t].round,
                                    ![p].tokens = tasks[t].req.tokens,
                                    ![p].print = Fingerprint(ctx[p].docs)]
              /\ Goto(p, "resume")
              /\ UNCHANGED <<storeVars, disk>>

\* The task is reopened and then, with unknown tokens, the wait fails.
ResumeCheck(p) ==
    LET t == ctx[p].task
    IN  /\ pc[p] = "resume"
        /\ \/ /\ ResumeContextCheck(t, me(p), [docs |-> ctx[p].docs,
                                               round |-> ctx[p].round + 1])
              /\ Goto(p, IF ctx[p].tokens = 0 THEN "clear" ELSE "note")
              /\ UNCHANGED <<disk, ctx>>
           \/ t \notin WaitingChecks(me(p)) /\ Fail(p)

CheckStep(p) ==
    \/ LookForCheck(p) \/ SampleTokens(p) \/ ForgetCheck(p) \/ JudgeCheck(p)
    \/ AskForCheck(p) \/ NoteCheck(p)
    \/ AckBeforeResume(p) \/ FindCheck(p) \/ ResumeCheck(p)
=============================================================================
