SPECIFICATION FairSpec
CONSTANTS
    clal = clal
    bestInvest = bestInvest
    m1 = m1
    m2 = m2
    Clients <- TwoLogins
    Msgs <- TwoMessages
    ProviderOf <- Owner
    LeaseTime = 1
    Skew = 1
    SeenTime = 1
    ConsumedTime = 3
    Capacity = 2
    Lookups = 1
    MaxClock = 2
    MaxLeases = 2
    MaxFaults = 1
INVARIANTS
    CodeAnsweredOnce
    AnswersAreClear
    ReservationKept
    SleepersMissNothing
PROPERTIES
    ReadEnds
