------------------------------ MODULE MCBinding ------------------------------
(* Small instances of the binding registry for TLC.                        *)
EXTENDS Binding, TLC

CONSTANTS codex, claude, s1, s2, s3, p1, p2, p3

\* Two sessions of one agent, which can take a room from each other, and one
\* of the other agent.
MCAgentOf == s1 :> codex @@ s2 :> codex @@ s3 :> claude

\* A process per session.
OneEach == p1 :> s1 @@ p2 :> s2 @@ p3 :> s3
=============================================================================
