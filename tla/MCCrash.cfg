SPECIFICATION SessionSpec
CONSTANTS
    codex = codex
    claude = claude
    p1 = p1
    p2 = p2
    p3 = p3
    s1 = s1
    s2 = s2
    doc = doc
    k1 = k1
    k2 = k2
    advice = advice
    Agents <- MCAgents
    Sessions = {s1, s2}
    Waiters = {p1, p2}
    AgentOf <- MCAgentOf
    SessionOf <- MCSessionOf
    Keys <- MCKeys
    Topics <- MCTopics
    Kinds = {"context_check"}
    Bodies <- MCBodies
    Snapshots <- MCSnapshots
    Samples = {0, 1, 16}
    Prints <- MCPrints
    Files = {doc}
    Contents = {"old", "new"}
    SamplesOf <- MCSamplesOf
    Threshold = 15
    Growth = 1
    SendKeys = {}
    SendTopics <- AskTopics
    Texts = {advice}
    Verdicts = {"compact_ready"}
    Checkpoints = {}
    NoSession = NoSession
    NoWaiter = NoWaiter
    NoPrint = NoPrint
    NoBody = NoBody
    MaxTasks = 1
    MaxRounds = 1
    MaxCorrupt = 1
    MaxCrashes = 2
INVARIANTS
    SessionTypeOK
    ShownIsAnswerable
    GrantedIsReplied
PROPERTY
    FirstBaselineStands
