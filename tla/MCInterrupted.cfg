SPECIFICATION MigrationSpec
CONSTANTS
    p1 = p1
    p2 = p2
    started = started
    reviewed = reviewed
    Process = {p1}
    Event = {started, reviewed}
    Since <- FirstAndLast
    Absent = Absent
    MaxInterruptions = 1
INVARIANT InitializationRepeats
CHECK_DEADLOCK FALSE
