SPECIFICATION Spec
CONSTANTS
    hapoalim = hapoalim
    CompanyOrder <- OneCompany
    ConfigStart <- NoConfigStart
    Server = server
    Processes = {server, cli}
    Fingerprints = {fp1, fp2}
    NoFingerprint = none
    MaxLoginAttemptsPerDay = 2
    DayLength = 2
    OverlapHours = 1
    LookbackHours = 2
    StaleHours = 2
    RunHours = 1
    ManualBounds = {1}
    ExclusiveRuns = TRUE
    MaxClock = 4
SYMMETRY FingerprintSymmetry
INVARIANTS
    LoginCap
    HealthyMeansFreshData
    OnlyNarrowedRunsLeaveGaps
PROPERTIES
    RejectedCredentialsNotRetried
