SPECIFICATION Spec
CONSTANTS
    Txns <- ThreeTxns
    Holds <- OneHold
    Kind <- TwinsAndFuel
    PurchaseDay <- SameDay
    ChargeDay <- BillDays
    ChargeMode = TRUE
    IncludePending = TRUE
    OverlapDays = 1
    Rewind = 1
    MaxDay = 3
INVARIANTS
    StoredOnce
    VanishedPendingHidden
PROPERTIES
    NothingMissed
