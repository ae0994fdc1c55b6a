\* Each reader alone: two collectors over two logins of Best Invest, three
\* policies of Clal of which any may change meanwhile, four executions of
\* Hapoalim on three pages, and the inputs of MCPortals for the parsers.  A reader stops when its run is over.
CONSTANTS
    service = service
    command = command
    p1 = p1
    p2 = p2
    g1 = g1
    Collectors = {service, command}
    MaxSessions = 2
    MaxCollections = 2
    MaxPolicies = 2
    Missing = Missing
    Inventories <- SomeInventories
    Histories <- SomeHistories
    Observed = 21
    Pensions = {p1, p2}
    Gemels = {g1}
    MaxChanges = 2
    MaxRows = 4
    MaxPages = 3
SPECIFICATION ReadersSpec
INVARIANTS
    ReportsAreTrue
    ProfileIsLeased
    SmsIsTheLastResort
PROPERTIES
    EndsWell
CHECK_DEADLOCK FALSE
