SPECIFICATION Spec
CONSTANTS
    p1 = p1
    p2 = p2
    d1 = d1
    r1 = r1
    x1 = x1
    e1 = e1
    a1 = a1
    a2 = a2
    Providers <- AllProviders
    Processes <- TwoProcesses
    Dates <- OneDate
    Reports <- OneReport
    Executions <- OneExecution
    Entries <- OneEntry
    Amounts <- TwoAmounts
    SessionTime = 2
    MaxClock = 2
    MaxAttempts = 3
SYMMETRY Symmetry
INVARIANTS
    NothingLost
    NoFalseAlarm
    SessionHonest
PROPERTIES
    NeverGoesBack
    ArchiveStands
\* The bounds on attempts and time stop the model.
CHECK_DEADLOCK FALSE
