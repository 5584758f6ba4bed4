SPECIFICATION RoleSpec
CONSTANTS
    Unknown = Unknown
    None = None
    MaxSteps = 2
    MaxCalls = 2
    MaxRounds = 2
INVARIANTS
    ExecutorGrounded
    CriticRetrievesToo
    RequestsAnswered
    ErrorEndsRole
CHECK_DEADLOCK FALSE
