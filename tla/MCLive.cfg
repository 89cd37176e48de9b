SPECIFICATION FairSessionSpec
CONSTANTS
    codex = codex
    claude = claude
    p1 = p1
    p2 = p2
    p3 = p3
    s1 = s1
    s2 = s2
    doc = doc
    k1 = k1
    k2 = k2
    advice = advice
    Agents <- MCAgents
    Sessions = {s1, s2}
    Waiters = {p1, p2}
    AgentOf <- MCAgentOf
    SessionOf <- MCSessionOf
    Keys <- MCKeys
    Topics <- MCTopics
    Kinds = {"review", "context_check"}
    Bodies <- MCBodies
    Snapshots <- MCSnapshots
    Samples = {0}
    Prints <- MCPrints
    Files = {doc}
    Contents = {"old"}
    SamplesOf <- NoSamplesOf
    Threshold = 15
    Growth = 1
    SendKeys = {k1}
    SendTopics <- AskTopics
    Texts = {advice}
    Verdicts = {"done"}
    Checkpoints = {}
    NoSession = NoSession
    NoWaiter = NoWaiter
    NoPrint = NoPrint
    NoBody = NoBody
    MaxTasks = 1
    MaxRounds = 1
    MaxCorrupt = 1
    MaxCrashes = 1
INVARIANT
    NoReplyLost
PROPERTY
    RequestsArrive
