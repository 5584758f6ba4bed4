CONSTANTS
    u1 = u1
    u2 = u2
    d1 = d1
    r1 = r1
    r2 = r2
    run1 = run1
    run2 = run2
    textA = textA
    textB = textB
    User <- SoleUser
    Document = {d1}
    RunId = {run1}
    Content = {textA}
    CommentId = {}
    EventType <- WorkflowEvent
    Detail <- WorkflowDetail
    Role = {"executor", "critic", "orchestrator"}
    NoUser = NoUser
    NoRun = NoRun
    NoVersion = NoVersion
    Number <- MCNumber
    Runner = {r1}
    Context <- SoleContext
    NoContext = NoContext
    Feedback = {f1}
    NoFeedback = NoFeedback
    NoDraft = NoDraft
    MaxRevisions = 0
    SeedOwner <- SeedOwnerU1
    SeedAccess <- SoleAccess
    SeedVersions <- NoSeedVersions
    EditorContent = {textA}
    AsksApproval = {FALSE}
    SavesFact = {FALSE}
    MaxVersions = 1
    MaxFaults = 1
    MaxCrashes = 0
    MaxGrants = 0
SPECIFICATION Spec
INVARIANTS
    EndedLogIsContiguous
CHECK_DEADLOCK FALSE
