SPECIFICATION Spec
CONSTANTS
    before = before
    first = first
    instalment = instalment
    second = second
    a1 = a1
    a2 = a2
    Occurrences <- Card
    Amount <- Amounts
    BuyDay <- BuyDays
    ChargeDay <- ChargeDates
    Instalments <- Posts
    Holds <- Posts
    Archives <- TwoArchives
    ArchiveOf <- Same
    Dated <- SecondIsDated
    StartDay = 1
    OverlapDays = 2
    SettleDays = 2
    PartialDays = 2
    MaxLate = 1
    MaxDay = 6
INVARIANTS
    PaidInFull
PROPERTIES
    ImplementsStatement
    NoNewTwin
\* The calendar ends.
CHECK_DEADLOCK FALSE
