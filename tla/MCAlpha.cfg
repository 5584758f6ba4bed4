SPECIFICATION FairAgentSpec
CONSTANTS
    Process = {p1, p2}
    Stage = {"revision", "final"}
    Visibility = {public, connections}
    Text = {x, y}
    Cut = Cut
    None = None
    MaxFaults = 1
    MaxSteps = 2
    MaxCalls = 2
    MaxSaves = 2
    OneAtATime = TRUE
INVARIANTS
    PublishedIsFinal
    SavedKept
    PublishedAsApproved
    OncePerVersion
PROPERTIES
    PostsKept
    RunsEnd
CHECK_DEADLOCK FALSE
