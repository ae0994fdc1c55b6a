SPECIFICATION Spec
CONSTANTS
    r1 = r1
    Requests <- OneRequest
    Automatic = TRUE
    SmsLimit = 1
    RetryDelay = 1
    Window = 2
    ChallengeTime = 1
    Day = 2
    MaxClock = 3
    MaxCauses = 2
    MaxBoots = 2
INVARIANTS
    SmsAllowance
    NeverInItsOwnWay
    LeaseHasItsCollection
PROPERTIES
    SettledOnce
    EverythingEnds
    ImplementsRecovery
\* The service may be shut down for good.
CHECK_DEADLOCK FALSE
