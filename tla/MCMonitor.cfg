SPECIFICATION MonitorSpec
CONSTANTS
    u1 = u1
    d1 = d1
    r1 = r1
    run1 = run1
    textA = textA
    textB = textB
    demo = demo
    cli = cli
    User = {u1}
    Document = {d1}
    RunId = {run1}
    Content = {textA, textB}
    CommentId = {}
    EventType <- WorkflowEvent
    Detail <- WorkflowDetail
    Role = {"executor", "critic", "orchestrator"}
    NoUser = NoUser
    NoRun = NoRun
    NoVersion = NoVersion
    Number <- MCNumber
    Runner = {r1}
    Context <- SoleContext
    NoContext = NoContext
    Feedback = {f1}
    NoFeedback = NoFeedback
    NoDraft = NoDraft
    MaxRevisions = 1
    SeedOwner <- SoleOwner
    SeedAccess <- SoleAccess
    SeedVersions <- FirstVersion
    EditorContent = {textA}
    AsksApproval = {FALSE}
    SavesFact = {FALSE}
    MaxVersions = 2
    MaxFaults = 1
    MaxCrashes = 1
    MaxGrants = 0
    Subject = run1
    Demo = demo
    Cli = {cli}
    Cited <- NothingOrSecond
    NoFile = NoFile
    Cut = Cut
INVARIANTS
    MonitorTypeOK
    BundleIsFinalRecord
    CompletionIsEvident
    EndedRunIsBundled
    ReportRestsOnRecord
    ExitTellsOutcome
PROPERTY FirstReportStands
CHECK_DEADLOCK FALSE
