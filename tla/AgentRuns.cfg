SPECIFICATION AgentFairSpec
CONSTANTS
    gpt = gpt
    llama = llama
    llama70 = llama70
    mini = mini
    Callers = {a1}
    Installed <- MCInstalled
    Fallbacks <- MCFallbacks
    Stem <- MCStem
    Quick = {mini}
    Configured = gpt
    CloudKey = TRUE
    Cloud = "cloud"
    Degraded = "degraded"
    NoText = "none"
    Actions = {"search", "read", "summarize"}
    DeepDives = {"read", "summarize"}
    Reasoning = {"summarize"}
    MaxDeepDives = 1
    HardSteps = 3
    Requested = {1, 3}
    MaxRuns = 2
    MaxCached = 1
INVARIANTS
    AgentTypeOK
    OutageIsNoBrief
    NoActionTwice
    DeepDivesCapped
    CallsBounded
    CacheHoldsAnswers
    NoModelTriedAgain
PROPERTIES
    EveryRunEnds
