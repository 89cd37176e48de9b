----------------------------- MODULE MCDispatch -----------------------------
(* Small instances of the dispatches for TLC.                              *)
EXTENDS Dispatch, TLC

\* Every process has an id of its own.
DistinctPids == [c \in Calls |-> c]

\* Processes and handles are only compared for equality.
Symmetry == Permutations(Calls) \cup Permutations(Handles)
=============================================================================
