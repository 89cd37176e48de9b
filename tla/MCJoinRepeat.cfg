SPECIFICATION BindingSpec
CONSTANTS
    codex = codex
    claude = claude
    s1 = s1
    s2 = s2
    s3 = s3
    p1 = p1
    p2 = p2
    p3 = p3
    Sessions = {s1, s2, s3}
    Agents = {codex, claude}
    Rooms = {"default", "other"}
    Procs = {p1, p2, p3}
    SessionOf <- OneEach
    AgentOf <- MCAgentOf
    NoSession = NoSession
    NoRoom = NoRoom
INVARIANTS
    JoinCanBeRepeated
