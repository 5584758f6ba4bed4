CONSTANTS
    u1 = u1
    u2 = u2
    d1 = d1
    r1 = r1
    r2 = r2
    run1 = run1
    run2 = run2
    textA = textA
    textB = textB
    User <- SoleUser
    Document = {d1}
    RunId = {run1}
    Content = {textA, textB}
    CommentId = {}
    EventType <- WorkflowEvent
    Detail <- WorkflowDetail
    Role = {"executor", "critic", "orchestrator"}
    NoUser = NoUser
    NoRun = NoRun
    NoVersion = NoVersion
    Number <- MCNumber
    Runner = {r1}
    Context <- SoleContext
    NoContext = NoContext
    Feedback = {f1, f2}
    NoFeedback = NoFeedback
    NoDraft = NoDraft
    MaxRevisions = 2
    SeedOwner <- SeedOwnerU1
    SeedAccess <- SoleAccess
    SeedVersions <- NoSeedVersions
    EditorContent = {textA}
    AsksApproval = {TRUE, FALSE}
    SavesFact = {TRUE, FALSE}
    MaxVersions = 1
    MaxFaults = 1
    MaxCrashes = 1
    MaxGrants = 0
SPECIFICATION FairSpec
INVARIANTS
    TypeOK
    CompletionIsApproved
    TerminalMatchesLog
    RevisionBudget
    ConsecutiveDraftsDiffer
    MemoryDecisionHonoured
    ResultIsPersisted
PROPERTIES
    LifeSpec
    RunReturns
    RunEnds
CHECK_DEADLOCK FALSE
