------------------------------ MODULE Subagent ------------------------------
(***************************************************************************)
(* What a dispatch may count on when it runs a sub-agent: it is told of    *)
(* the conversation's handle at most once, and not after the run ended     *)
(* with its output read to the end.  Nothing is said of threads, pipes or  *)
(* clocks.                                                                 *)
(***************************************************************************)
VARIABLES
    phase,    \* the run goes on, or ended with its output read or given up
    told      \* the handle was announced

subagentVars == <<phase, told>>

SubagentOK == phase \in {"running", "drained", "abandoned"} /\ told \in BOOLEAN

SubagentInit == phase = "running" /\ told = FALSE

Tell ==
    /\ phase # "drained" /\ ~told
    /\ told' = TRUE
    /\ UNCHANGED phase

EndRun ==
    /\ phase = "running"
    /\ phase' \in {"drained", "abandoned"}
    /\ UNCHANGED told

SubagentSpec == SubagentInit /\ [][Tell \/ EndRun]_subagentVars
=============================================================================
