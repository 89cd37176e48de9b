SPECIFICATION SessionSpec
CONSTANTS
    codex = codex
    claude = claude
    p1 = p1
    p2 = p2
    p3 = p3
    s1 = s1
    s2 = s2
    doc = doc
    k1 = k1
    k2 = k2
    advice = advice
    Agents <- MCAgents
    Sessions = {s1, s2}
    Waiters = {p1, p2}
    AgentOf <- MCAgentOf
    SessionOf <- MCSessionOf
    Keys <- MCKeys
    Topics <- MCTopics
    Kinds = {"context_check"}
    Bodies <- MCBodies
    Snapshots <- MCSnapshots
    Samples = {0, 16}
    Prints <- MCPrints
    Files = {doc}
    Contents = {"old"}
    SamplesOf <- MCSamplesOf
    Threshold = 15
    Growth = 2
    SendKeys = {}
    SendTopics <- AskTopics
    Texts = {advice}
    Verdicts = {"checkpoint_needed"}
    Checkpoints = {doc}
    NoSession = NoSession
    NoWaiter = NoWaiter
    NoPrint = NoPrint
    NoBody = NoBody
    MaxTasks = 1
    MaxRounds = 2
    MaxCorrupt = 0
    MaxCrashes = 0
INVARIANT
    AnsweredWasDelivered
