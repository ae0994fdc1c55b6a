SPECIFICATION Spec
CONSTANTS
    Txns <- ThreeTxns
    Holds <- OneHold
    Kind <- AllAlike
    PurchaseDay <- OneDay
    ChargeDay <- BillDays
    ChargeMode = FALSE
    IncludePending = TRUE
    OverlapDays = 1
    Rewind = 1
    MaxDay = 3
INVARIANT StoredOnce
