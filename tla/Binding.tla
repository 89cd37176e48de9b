------------------------------- MODULE Binding -------------------------------
(***************************************************************************)
(* Which room a session is in (bindings.py, cli.py main).  A command names *)
(* no room: it looks one up in the binding registry of the worktree, a     *)
(* database of its own beside the databases of the rooms.  join and leave  *)
(* therefore write two databases, one transaction each, and a process can  *)
(* be killed between any two of them.                                      *)
(*                                                                         *)
(*    join:   reserve   open   enter (join_member)   activate              *)
(*    leave:  resolve   open   exit (leave_member)   unbind                *)
(*    other:  resolve   open   use                                         *)
(*                                                                         *)
(* SQLiteStore.open is several steps of its own: it looks for the file and *)
(* then either creates it, empty, and commits the tables to it, or takes   *)
(* it for a database and reads its schema version.                         *)
(*                                                                         *)
(* A session runs for one agent (adapter_for refuses another), so the      *)
(* session stands for the registry's key.  The room's own tables are       *)
(* RoomStore's; here only the session its member row names is kept.        *)
(***************************************************************************)
EXTENDS Naturals, FiniteSets

CONSTANTS
    Sessions,     \* platform session ids
    Agents,       \* codex and claude
    Rooms,        \* explicit room names, the default one among them
    Procs,        \* processes running ai-room commands
    SessionOf,    \* the session each process belongs to
    AgentOf,      \* the agent each session runs for
    NoSession, NoRoom

ASSUME BindingAssumption ==
    /\ SessionOf \in [Procs -> Sessions] /\ AgentOf \in [Sessions -> Agents]
    /\ NoSession \notin Sessions /\ NoRoom \notin Rooms

VARIABLES
    binding,      \* the room_bindings table
    files,        \* the rooms whose database file exists
    schemas,      \* those whose tables are committed
    member,       \* per room and agent, the session that is joined
    pc,           \* the next transaction of each process
    held,         \* the room its command resolved
    door          \* how far SQLiteStore.open has come

disk == <<files, schemas>>
bindingVars == <<binding, disk, member, pc, held, door>>

NoBinding == [name |-> NoRoom, state |-> "none"]
Bindings == [name: Rooms, state: {"pending", "active"}] \cup {NoBinding}

Opening == {"enter", "exit", "use"}

BindingTypeOK ==
    /\ binding \in [Sessions -> Bindings]
    /\ files \subseteq Rooms /\ schemas \subseteq files
    /\ member \in [Rooms -> [Agents -> Sessions \cup {NoSession}]]
    /\ pc \in [Procs -> {"idle", "enter", "activate", "exit", "unbind", "use"}]
    /\ held \in [Procs -> Rooms \cup {NoRoom}]
    /\ door \in [Procs -> {"shut", "existing", "new", "created", "open"}]
    /\ \A p \in Procs : door[p] # "shut" => pc[p] \in Opening

BindingInit ==
    /\ binding = [s \in Sessions |-> NoBinding]
    /\ files = {} /\ schemas = {}
    /\ member = [r \in Rooms |-> [a \in Agents |-> NoSession]]
    /\ pc = [p \in Procs |-> "idle"]
    /\ held = [p \in Procs |-> NoRoom]
    /\ door = [p \in Procs |-> "shut"]

mine(p) == SessionOf[p]
me(p) == AgentOf[SessionOf[p]]

Goto(p, label, r) ==
    /\ pc' = [pc EXCEPT ![p] = label]
    /\ held' = [held EXCEPT ![p] = r]
    /\ door' = [door EXCEPT ![p] = "shut"]

End(p) == Goto(p, "idle", NoRoom)

IsJoined(r, s) == member[r][AgentOf[s]] = s

-----------------------------------------------------------------------------
(* SQLiteStore.open.                                                       *)

To(p, stage) == door' = [door EXCEPT ![p] = stage] /\ UNCHANGED <<pc, held>>

\* is_new = not path.exists()
Probe(p) ==
    /\ pc[p] \in Opening /\ door[p] = "shut"
    /\ To(p, IF held[p] \in files THEN "existing" ELSE "new")
    /\ UNCHANGED <<binding, disk, member>>

\* mutant: a file is taken for a database
VerifyFile(p) ==
    /\ door[p] = "existing"
    /\ files' = files \cup {held[p]}
    /\ To(p, "open")
    /\ UNCHANGED <<binding, schemas, member>>

\* connect, which creates a file that has gone meanwhile, and
\* _verify_existing_schema: without its tables ("unsupported schema version:
\* missing") the command ends, and what the registry holds stays.
Verify(p) ==
    /\ door[p] = "existing"
    /\ files' = files \cup {held[p]}
    /\ \/ held[p] \in schemas /\ To(p, "open")
       \/ held[p] \notin schemas /\ End(p)
    /\ UNCHANGED <<binding, schemas, member>>

\* connect creates an empty file.
Connect(p) ==
    /\ door[p] = "new"
    /\ files' = files \cup {held[p]}
    /\ To(p, "created")
    /\ UNCHANGED <<binding, schemas, member>>

\* The tables, in one transaction.  Of two that create them the second fails
\* (DatabaseOpenError) and changes nothing.
CreateSchema(p) ==
    /\ door[p] = "created"
    /\ \/ /\ held[p] \notin schemas
          /\ schemas' = schemas \cup {held[p]}
          /\ To(p, "open")
       \/ /\ held[p] \in schemas
          /\ End(p)
          /\ UNCHANGED schemas
    /\ UNCHANGED <<binding, files, member>>

-----------------------------------------------------------------------------
(* join.                                                                   *)

\* mutant: the reservation moves to the room asked for
ReserveAnew(p, r) ==
    /\ pc[p] = "idle"
    /\ binding' = [binding EXCEPT ![mine(p)] = [name |-> r, state |-> "pending"]]
    /\ Goto(p, "enter", r)
    /\ UNCHANGED <<disk, member>>

\* reserve_binding: a session bound elsewhere is refused (the command ends
\* and nothing changed), one bound here keeps the state it had.
Reserve(p, r) ==
    /\ pc[p] = "idle"
    /\ \/ /\ binding[mine(p)] = NoBinding
          /\ binding' = [binding EXCEPT ![mine(p)] = [name |-> r, state |-> "pending"]]
       \/ /\ binding[mine(p)].name = r
          /\ UNCHANGED binding
    /\ Goto(p, "enter", r)
    /\ UNCHANGED <<disk, member>>

\* join_member replaces whichever session of this agent was joined before.
Enter(p) ==
    /\ pc[p] = "enter" /\ door[p] = "open"
    /\ member' = [member EXCEPT ![held[p]][me(p)] = mine(p)]
    /\ Goto(p, "activate", held[p])
    /\ UNCHANGED <<binding, disk>>

\* activate_binding: refused if the reservation disappeared or names another
\* room by now; the membership stays.
Activate(p) ==
    /\ pc[p] = "activate"
    /\ binding' = IF binding[mine(p)].name = held[p]
                  THEN [binding EXCEPT ![mine(p)].state = "active"] ELSE binding
    /\ End(p)
    /\ UNCHANGED <<disk, member>>

-----------------------------------------------------------------------------
(* leave, and every other command.                                         *)

\* mutant: the registry is cleaned up before the room is left
ResolveAndUnbind(p) ==
    /\ pc[p] = "idle"
    /\ binding[mine(p)] # NoBinding
    /\ binding' = [binding EXCEPT ![mine(p)] = NoBinding]
    /\ Goto(p, "exit", binding[mine(p)].name)
    /\ UNCHANGED <<disk, member>>

\* resolve_binding_for_leave: a pending binding will do, so that a join that
\* was cut short can be undone.  A room whose file is gone is not opened.
ResolveForLeave(p) ==
    /\ pc[p] = "idle"
    /\ binding[mine(p)] # NoBinding
    /\ LET r == binding[mine(p)].name
       IN  Goto(p, IF r \in files THEN "exit" ELSE "unbind", r)
    /\ UNCHANGED <<binding, disk, member>>

\* leave_member touches the row of this very session only.
ExitRoom(p) ==
    /\ pc[p] = "exit" /\ door[p] = "open"
    /\ member' = IF IsJoined(held[p], mine(p))
                 THEN [member EXCEPT ![held[p]][me(p)] = NoSession] ELSE member
    /\ Goto(p, "unbind", held[p])
    /\ UNCHANGED <<binding, disk>>

\* mutant: the row is emptied and keeps its state
UnbindRoomOnly(p) ==
    /\ pc[p] = "unbind"
    /\ binding' = [binding EXCEPT ![mine(p)].name = NoRoom]
    /\ End(p)
    /\ UNCHANGED <<disk, member>>

\* delete_binding: whatever the registry holds for this session by now.
Unbind(p) ==
    /\ pc[p] = "unbind"
    /\ binding' = [binding EXCEPT ![mine(p)] = NoBinding]
    /\ End(p)
    /\ UNCHANGED <<disk, member>>

\* Any other command needs an active binding to a room whose file is there; the
\* room itself then tells whether the session is joined.
Resolve(p) ==
    /\ pc[p] = "idle"
    /\ binding[mine(p)].state = "active"
    /\ binding[mine(p)].name \in files
    /\ Goto(p, "use", binding[mine(p)].name)
    /\ UNCHANGED <<binding, disk, member>>

Use(p) ==
    /\ pc[p] = "use" /\ door[p] = "open"
    /\ End(p)
    /\ UNCHANGED <<binding, disk, member>>

-----------------------------------------------------------------------------

Crash(p) ==
    /\ pc[p] # "idle"
    /\ End(p)
    /\ UNCHANGED <<binding, disk, member>>

\* Someone deletes the database of a room, which Windows lets him while no
\* command has it open.
DeleteDatabase(r) ==
    /\ \A p \in Procs : held[p] = r => door[p] \notin {"created", "open"}
    /\ files' = files \ {r} /\ schemas' = schemas \ {r}
    /\ member' = [member EXCEPT ![r] = [a \in Agents |-> NoSession]]
    /\ UNCHANGED <<binding, pc, held, door>>

BindingNext ==
    \/ \E p \in Procs :
          \/ \E r \in Rooms : Reserve(p, r)
          \/ Probe(p) \/ Verify(p) \/ Connect(p) \/ CreateSchema(p)
          \/ Enter(p) \/ Activate(p)
          \/ ResolveForLeave(p) \/ ExitRoom(p) \/ Unbind(p)
          \/ Resolve(p) \/ Use(p)
          \/ Crash(p)
    \/ \E r \in Rooms : DeleteDatabase(r)

BindingSpec == BindingInit /\ [][BindingNext]_bindingVars

-----------------------------------------------------------------------------
(* What the registry promises.                                             *)

\* Each session runs one command at a time.
OneCommandPerSession == \A p, q \in Procs : SessionOf[p] = SessionOf[q] => p = q

\* A session that a room counts as joined is bound to that room, wherever a
\* join or a leave was killed: it can always use the room or leave it.
MemberIsBound ==
    \A r \in Rooms, s \in Sessions : IsJoined(r, s) => binding[s].name = r

\* A session is joined to one room at most: join refuses a second one until the
\* first is left (bindings.py: "this session is already bound to a different
\* room; leave it before joining another room").  It takes one command at
\* a time: a leave that overlaps a join of the same session deletes its binding.
OneRoomPerSession ==
    \A s \in Sessions, q, r \in Rooms : IsJoined(q, s) /\ IsJoined(r, s) => q = r

\* A command that got a room open has its tables, whoever creates, deletes or
\* opens the database at the same time.
OpenIsWhole == \A p \in Procs : door[p] = "open" => held[p] \in schemas

\* What a session is told when its join was cut short, "repeat the same ai-room
\* join command" (cli.py:560), would help it: a file of its room is a database,
\* or a running command will make it one.
JoinCanBeRepeated ==
    \A s \in Sessions : binding[s].state = "pending" =>
        \/ binding[s].name \in files => binding[s].name \in schemas
        \/ \E p \in Procs : held[p] = binding[s].name /\ door[p] = "created"
=============================================================================
