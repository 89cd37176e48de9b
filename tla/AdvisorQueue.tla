---------------------------- MODULE AdvisorQueue ----------------------------
(***************************************************************************)
(* What a room promises its two sessions about the order of their work,    *)
(* with nothing said of messages, leases or rounds: one line of tasks, one *)
(* of them served at a time, each in its turn, and never an idle advisor   *)
(* with a task in line.                                                    *)
(***************************************************************************)
EXTENDS Naturals, Sequences

VARIABLE line    \* the phase of every task ever sent, in the order of sending

Phases == {"waiting", "serving", "over"}

LineOK == line \in Seq(Phases)

Start == line = <<>>

IsOver == \A t \in DOMAIN line : line[t] = "over"

\* A task joins the line; it is served at once when every other one is over.
Submit == line' = Append(line, IF IsOver THEN "serving" ELSE "waiting")

\* The task being served ends, and in the same step the next one is served.
Finish ==
    \E t \in DOMAIN line :
        /\ line[t] = "serving"
        /\ line' = [u \in DOMAIN line |->
                      CASE u = t -> "over"
                        [] u = t + 1 -> "serving"
                        [] OTHER -> line[u]]

LineNext == Submit \/ Finish

LineSpec == Start /\ [][LineNext]_line
=============================================================================
