SPECIFICATION Spec
CONSTANTS
    Agents = {codex, claude}
    Sessions = {s1}
    Waiters = {w1}
    Keys = {k1, k2}
    Topics = {topic}
    Kinds = {"context_check"}
    Bodies = {advice}
    Snapshots = {}
    Samples = {16}
    Prints = {}
    NoSession = NoSession
    NoWaiter = NoWaiter
    NoPrint = NoPrint
    NoBody = NoBody
    MaxTasks = 2
    MaxRounds = 2
    MaxCorrupt = 1
SYMMETRY Symmetry
INVARIANTS
    TypeOK
    NeverIdleWithWork
    WorkIsPosted
    StateMatchesReply
    OneReplyPerRound
PROPERTY
    ServesTheLine
