SPECIFICATION AgentSpec
CONSTANTS
    Process = {p1, p2}
    Stage = {"revision", "final"}
    Visibility = {public, connections}
    Text = {x}
    Cut = Cut
    None = None
    MaxFaults = 1
    MaxSteps = 1
    MaxCalls = 2
    MaxSaves = 2
    OneAtATime = FALSE
INVARIANTS
    OncePerVersion
CHECK_DEADLOCK FALSE
