------------------------------ MODULE RoomQueue ------------------------------
(***************************************************************************)
(* The room's tables implement the advisor queue: a task waits while it is *)
(* queued, is served while it is active (a context check keeps the advisor *)
(* through all its rounds), and is over in a terminal state.               *)
(***************************************************************************)
EXTENDS RoomStore

PhaseOf(state) ==
    CASE state = "queued" -> "waiting"
      [] state \in ActiveStates -> "serving"
      [] OTHER -> "over"

lineOfTasks == [t \in DOMAIN tasks |-> PhaseOf(tasks[t].state)]

Queue == INSTANCE AdvisorQueue WITH line <- lineOfTasks

\* Every transaction of the store is a step of the advisor queue or leaves the
\* line as it is: tasks are served one at a time, in the order they were sent.
ServesTheLine == Queue!LineSpec
=============================================================================
