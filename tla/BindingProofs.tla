---------------------------- MODULE BindingProofs ----------------------------
(***************************************************************************)
(* For any number of sessions, rooms and processes, and however often a    *)
(* command is killed between its transactions: as long as each session     *)
(* runs one command at a time, what a room says of its members and what    *)
(* the registry says of their bindings agree.                              *)
(*                                                                         *)
(* MemberIsBound alone is not inductive: unbind deletes the row whatever   *)
(* the room says.  The strengthening says what a running command knows of  *)
(* its session: it is bound to the room the command holds (nobody else     *)
(* changes that row), and between leave_member and delete_binding it is no *)
(* member of it.  That a member's room has its tables lets leave skip the   *)
(* room whose file is gone.                                                *)
(***************************************************************************)
EXTENDS Binding, TLAPS

HolderIsBound ==
    \A p \in Procs : pc[p] \in {"enter", "activate", "exit", "unbind"} =>
        binding[mine(p)].name = held[p] /\ held[p] \in Rooms

LeftBeforeUnbind ==
    \A p \in Procs : pc[p] = "unbind" => ~IsJoined(held[p], mine(p))

MembersHaveDatabase ==
    \A r \in Rooms, s \in Sessions : IsJoined(r, s) => r \in schemas

\* A command that opens a room holds one, until it has activated it.
HoldsARoom ==
    \A p \in Procs : pc[p] \in Opening \cup {"activate"} => held[p] \in Rooms

\* It knows the file is there once it has created it.
CreatedIsThere ==
    \A p \in Procs : door[p] = "created" => held[p] \in files

\* What makes an opened room whole, whoever runs how many commands at once.
OpenInv == BindingTypeOK /\ HoldsARoom /\ CreatedIsThere /\ OpenIsWhole

\* What needs that a session runs one command at a time.
BoundInv == MemberIsBound /\ HolderIsBound /\ LeftBeforeUnbind /\ MembersHaveDatabase

-----------------------------------------------------------------------------
USE BindingAssumption

LEMMA BindingStarts == BindingInit => OpenInv /\ BoundInv
  BY DEF BindingInit, OpenInv, BoundInv, BindingTypeOK, MemberIsBound, HolderIsBound,
         LeftBeforeUnbind, MembersHaveDatabase, IsJoined, Bindings, NoBinding,
         HoldsARoom, CreatedIsThere, OpenIsWhole, Opening

LEMMA OpenStep ==
  ASSUME OpenInv, [BindingNext]_bindingVars
  PROVE  OpenInv'
<1> USE DEF OpenInv, BindingTypeOK, Bindings, NoBinding, mine, me, Goto, End, To, disk,
            HoldsARoom, CreatedIsThere, OpenIsWhole, Opening
<1>1. ASSUME NEW p \in Procs, NEW r \in Rooms, Reserve(p, r) PROVE OpenInv'
  BY <1>1 DEF Reserve
<1>2. ASSUME NEW p \in Procs, Enter(p) PROVE OpenInv'
  BY <1>2 DEF Enter
<1>3. ASSUME NEW p \in Procs, Activate(p) PROVE OpenInv'
  BY <1>3 DEF Activate
<1>4. ASSUME NEW p \in Procs, ResolveForLeave(p) PROVE OpenInv'
  BY <1>4 DEF ResolveForLeave
<1>5. ASSUME NEW p \in Procs, ExitRoom(p) PROVE OpenInv'
  BY <1>5 DEF ExitRoom
<1>6. ASSUME NEW p \in Procs, Unbind(p) PROVE OpenInv'
  BY <1>6 DEF Unbind
<1>7. ASSUME NEW p \in Procs, Resolve(p) PROVE OpenInv'
  BY <1>7 DEF Resolve
<1>8. ASSUME NEW p \in Procs, Use(p) PROVE OpenInv'
  BY <1>8 DEF Use
<1>9. ASSUME NEW p \in Procs, Crash(p) PROVE OpenInv'
  BY <1>9 DEF Crash
<1>10. ASSUME NEW r \in Rooms, DeleteDatabase(r) PROVE OpenInv'
  BY <1>10 DEF DeleteDatabase
<1>11. ASSUME NEW p \in Procs, Probe(p) PROVE OpenInv'
  BY <1>11 DEF Probe
<1>12. ASSUME NEW p \in Procs, Verify(p) PROVE OpenInv'
  <2>1. CASE held[p] \in schemas /\ To(p, "open")
    BY <1>12, <2>1 DEF Verify
  <2>2. CASE held[p] \notin schemas /\ End(p)
    BY <1>12, <2>2 DEF Verify
  <2>3. QED
    BY <1>12, <2>1, <2>2 DEF Verify
<1>13. ASSUME NEW p \in Procs, Connect(p) PROVE OpenInv'
  BY <1>13 DEF Connect
<1>14. ASSUME NEW p \in Procs, CreateSchema(p) PROVE OpenInv'
  <2>1. CASE held[p] \notin schemas
    BY <1>14, <2>1 DEF CreateSchema
  <2>2. CASE held[p] \in schemas
    BY <1>14, <2>2 DEF CreateSchema
  <2>3. QED
    BY <2>1, <2>2
<1>15. CASE UNCHANGED bindingVars
  BY <1>15 DEF bindingVars
<1>16. QED
  BY <1>1, <1>2, <1>3, <1>4, <1>5, <1>6, <1>7, <1>8, <1>9, <1>10, <1>11, <1>12,
     <1>13, <1>14, <1>15 DEF BindingNext

LEMMA BoundStep ==
  ASSUME OneCommandPerSession, OpenInv, BoundInv, [BindingNext]_bindingVars
  PROVE  BoundInv'
<1> USE DEF OpenInv, BoundInv, BindingTypeOK, MemberIsBound, HolderIsBound,
            LeftBeforeUnbind, MembersHaveDatabase, IsJoined, OneCommandPerSession,
            Bindings, NoBinding, mine, me, Goto, End, To, disk,
            HoldsARoom, OpenIsWhole, Opening
<1>1. ASSUME NEW p \in Procs, NEW r \in Rooms, Reserve(p, r) PROVE BoundInv'
  <2>1. binding'[mine(p)].name = r
    BY <1>1 DEF Reserve
  <2>2. \A s \in Sessions \ {mine(p)} : binding'[s] = binding[s]
    BY <1>1 DEF Reserve
  <2>3. \A s \in Sessions : binding[s] # NoBinding => binding'[s].name = binding[s].name
    BY <1>1, <2>2 DEF Reserve
  <2>4. MemberIsBound' /\ MembersHaveDatabase'
    BY <1>1, <2>3 DEF Reserve
  <2>5. HolderIsBound'
    BY <1>1, <2>1, <2>2 DEF Reserve
  <2>6. LeftBeforeUnbind'
    BY <1>1 DEF Reserve
  <2>7. QED
    BY <2>4, <2>5, <2>6
<1>2. ASSUME NEW p \in Procs, Enter(p) PROVE BoundInv'
  BY <1>2 DEF Enter
<1>3. ASSUME NEW p \in Procs, Activate(p) PROVE BoundInv'
  BY <1>3 DEF Activate
<1>4. ASSUME NEW p \in Procs, ResolveForLeave(p) PROVE BoundInv'
  BY <1>4 DEF ResolveForLeave
<1>5. ASSUME NEW p \in Procs, ExitRoom(p) PROVE BoundInv'
  BY <1>5 DEF ExitRoom
<1>6. ASSUME NEW p \in Procs, Unbind(p) PROVE BoundInv'
  BY <1>6 DEF Unbind
<1>7. ASSUME NEW p \in Procs, Resolve(p) PROVE BoundInv'
  BY <1>7 DEF Resolve
<1>8. ASSUME NEW p \in Procs, Use(p) PROVE BoundInv'
  BY <1>8 DEF Use
<1>9. ASSUME NEW p \in Procs, Crash(p) PROVE BoundInv'
  BY <1>9 DEF Crash
<1>10. ASSUME NEW r \in Rooms, DeleteDatabase(r) PROVE BoundInv'
  BY <1>10 DEF DeleteDatabase
<1>11. ASSUME NEW p \in Procs, Probe(p) PROVE BoundInv'
  BY <1>11 DEF Probe
<1>12. ASSUME NEW p \in Procs, Verify(p) PROVE BoundInv'
  <2>1. CASE held[p] \in schemas /\ To(p, "open")
    BY <1>12, <2>1 DEF Verify
  <2>2. CASE held[p] \notin schemas /\ End(p)
    BY <1>12, <2>2 DEF Verify
  <2>3. QED
    BY <1>12, <2>1, <2>2 DEF Verify
<1>13. ASSUME NEW p \in Procs, Connect(p) PROVE BoundInv'
  BY <1>13 DEF Connect
<1>14. ASSUME NEW p \in Procs, CreateSchema(p) PROVE BoundInv'
  <2>1. CASE held[p] \notin schemas
    BY <1>14, <2>1 DEF CreateSchema
  <2>2. CASE held[p] \in schemas
    BY <1>14, <2>2 DEF CreateSchema
  <2>3. QED
    BY <2>1, <2>2
<1>15. CASE UNCHANGED bindingVars
  BY <1>15 DEF bindingVars
<1>16. QED
  BY <1>1, <1>2, <1>3, <1>4, <1>5, <1>6, <1>7, <1>8, <1>9, <1>10, <1>11, <1>12,
     <1>13, <1>14, <1>15 DEF BindingNext

LEMMA AlwaysOpen == BindingSpec => []OpenInv
<1>1. OpenInv /\ [BindingNext]_bindingVars => OpenInv'
  BY OpenStep
<1>2. QED
  BY BindingStarts, <1>1, PTL DEF BindingSpec

\* Registry, rooms and processes keep their types, whatever runs at once.
THEOREM BindingTypeCorrect == BindingSpec => []BindingTypeOK
<1>1. OpenInv => BindingTypeOK
  BY DEF OpenInv
<1>2. QED
  BY AlwaysOpen, <1>1, PTL

\* No command works on a database without its tables, however many first
\* commands race, are killed on the way or see the file deleted under them
\* (storage.py SQLiteStore.open).
THEOREM OpenRoomsAreWhole == BindingSpec => []OpenIsWhole
<1>1. OpenInv => OpenIsWhole
  BY DEF OpenInv
<1>2. QED
  BY AlwaysOpen, <1>1, PTL

\* Where each session runs one command at a time, a joined session is bound to
\* the room that counts it as joined, whatever was killed on the way.
THEOREM MembersAreBound ==
  ASSUME OneCommandPerSession
  PROVE  BindingSpec => []MemberIsBound
<1>1. OpenInv /\ BoundInv /\ [BindingNext]_bindingVars => BoundInv'
  BY BoundStep
<1>2. BoundInv => MemberIsBound
  BY DEF BoundInv
<1>3. QED
  BY BindingStarts, AlwaysOpen, <1>1, <1>2, PTL DEF BindingSpec

\* Hence it is joined to one room at most.
THEOREM OneRoomAtATime ==
  ASSUME OneCommandPerSession
  PROVE  BindingSpec => []OneRoomPerSession
<1>1. BindingTypeOK /\ MemberIsBound => OneRoomPerSession
  BY DEF MemberIsBound, OneRoomPerSession
<1>2. QED
  BY BindingTypeCorrect, MembersAreBound, <1>1, PTL
=============================================================================
