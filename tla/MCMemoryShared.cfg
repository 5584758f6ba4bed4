SPECIFICATION MemorySpec
CONSTANTS
    p1 = p1
    p2 = p2
    u1 = u1
    u2 = u2
    u3 = u3
    Process = {p1, p2}
    Person = {u1, u2}
    FactId = {f1, f2}
    Text = {x}
    Serves <- Shared
    NoPerson = NoPerson
    NoFact = NoFact
    MaxFaults = 1
    MaxCrashes = 1
PROPERTY AppendOnly
CHECK_DEADLOCK FALSE
