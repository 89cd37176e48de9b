----------------------------- MODULE MCRoomStore -----------------------------
(* Small instances of the room's tables for TLC.                           *)
EXTENDS RoomQueue, TLC

\* Sessions, waiters and keys are only compared for equality.
Symmetry == Permutations(Agents) \cup Permutations(Keys)
=============================================================================
