CONSTANTS
    u1 = u1
    u2 = u2
    d1 = d1
    r1 = r1
    r2 = r2
    run1 = run1
    run2 = run2
    textA = textA
    textB = textB
    User <- TwoUsers
    Document = {d1}
    RunId = {run1, run2}
    Content = {textA}
    CommentId = {}
    EventType <- WorkflowEvent
    Detail <- WorkflowDetail
    Role = {"executor", "critic", "orchestrator"}
    NoUser = NoUser
    NoRun = NoRun
    NoVersion = NoVersion
    Number <- MCNumber
    Runner <- TwoRunners
    Context <- SharedContexts
    NoContext = NoContext
    Feedback = {f1}
    NoFeedback = NoFeedback
    NoDraft = NoDraft
    MaxRevisions = 0
    SeedOwner <- SeedOwnerU1
    SeedAccess <- SharedAccess
    SeedVersions <- SharedSeedVersions
    EditorContent = {textA}
    AsksApproval = {FALSE}
    SavesFact = {FALSE}
    MaxVersions = 2
    MaxFaults = 0
    MaxCrashes = 0
    MaxGrants = 1
SPECIFICATION Spec
INVARIANTS
    ReviewNamesHandedVersion
    OneWriterPerRun
PROPERTIES
    TerminalIsFinal
SYMMETRY RunnerSymmetry
CHECK_DEADLOCK FALSE
