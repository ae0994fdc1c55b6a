SPECIFICATION Spec
CONSTANTS
    MaxClaims = 2
    ClaimTtl = 2
    SweepEvery = 1
    MaxMints = 3
    MaxClock = 4
INVARIANTS
    ClaimBudget
    HandedSecretsWork
    ExpiredSecretsSwept
PROPERTIES
    OpenClaimStaysOpen
