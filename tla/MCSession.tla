----------------------------- MODULE MCSession -----------------------------
(* Small instances of the sessions' processes for TLC.                     *)
EXTENDS Session, TLC

CONSTANTS codex, claude, p1, p2, p3, s1, s2, doc, k1, k2, advice

\* One wait-and-reply process per session, and a second one for the advisor.
MCAgents == {codex, claude}
MCAgentOf == p1 :> codex @@ [p \in Procs \ {p1} |-> claude]
MCSessionOf == p1 :> s1 @@ [p \in Procs \ {p1} |-> s2]

MCSnapshots == [Files -> Contents]
MCPrints == UNION {[docs -> Contents] : docs \in SUBSET Files}
MCKeys == SendKeys \cup (Agents \X Samples \X Prints)

\* The advisor's two processes are only compared for equality.
Twins == Permutations({p2, p3})

\* Only the primary's tokens are known.
MCSamplesOf == codex :> Samples @@ claude :> {0}
NoSamplesOf == [a \in Agents |-> {0}]

AskTopics == {[docs |-> {}, round |-> 0]}
MCTopics == AskTopics \cup [docs : SUBSET Files, round : 1..MaxRounds]
MCBodies == [text : Texts, notice : SUBSET Files, reminder : 0..MaxRounds]
=============================================================================
