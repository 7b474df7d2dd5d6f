SPECIFICATION AgentSpec
CONSTANTS
    gpt = gpt
    llama = llama
    llama70 = llama70
    mini = mini
    Callers = {a1}
    Installed <- MCInstalled
    Fallbacks <- MCFallbacks
    Stem <- MCStem
    Quick = {mini}
    Configured = gpt
    CloudKey = FALSE
    Cloud = "cloud"
    Degraded = "degraded"
    NoText = "none"
    MaxCached = 1
    Actions = {"search"}
    DeepDives = {}
    Reasoning = {}
    MaxDeepDives = 2
    HardSteps = 2
    Requested = {2}
    MaxRuns = 1
INVARIANTS
    OutageIsNotCompleted
