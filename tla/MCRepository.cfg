CONSTANTS
    u1 = u1
    u2 = u2
    d1 = d1
    d2 = d2
    User <- MCUser
    Document <- MCDocument
    RunId = {run1}
    Content = {text}
    CommentId = {c1}
    EventType = {"run_started"}
    Detail = {"none"}
    Role = {"executor", "critic"}
    NoUser = NoUser
    NoRun = NoRun
    NoVersion = NoVersion
    Number <- MCNumber
SPECIFICATION BoundedSpec
SYMMETRY MCSymmetry
INVARIANTS
    VersionsContiguous
    OneOwner
    RecordsStayInScope
PROPERTY HistoryImmutable
CHECK_DEADLOCK FALSE
