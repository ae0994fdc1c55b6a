SPECIFICATION FairSpec
CONSTANTS
    hapoalim = hapoalim
    CompanyOrder <- OneCompany
    ConfigStart <- NoConfigStart
    Server = server
    Processes = {server, cli}
    Fingerprints = {fp1, fp2}
    NoFingerprint = none
    MaxLoginAttemptsPerDay = 1
    DayLength = 2
    OverlapHours = 1
    LookbackHours = 4
    StaleHours = 2
    RunHours = 1
    ManualBounds = {}
    ExclusiveRuns = TRUE
    MaxClock = 1
PROPERTIES
    ChangedCredentialsUnpark
