SPECIFICATION Spec
CONSTANTS
    bankA = bankA
    treasury = treasury
    operations = operations
    c1 = c1
    c2 = c2
    c3 = c3
    Registry = Registry
    RL = RL
    TA = TA
    Zero = Zero
    PolicyAdmin = bankA
    DemoIssuer = bankA
    People = {bankA, treasury, operations}
    Coins = {c1, c2, c3}
    Config <- Configs
    Offered <- Anyhow
    MaxStarts = 7
    MaxCrashes = 1
    MaxElsewhere = 1
    MaxIssued = 2
CHECK_DEADLOCK FALSE
INVARIANTS
    TypeOK
    RegisteredCanMint
    CapHolds
    OwnPolicies
    AlwaysAdministered
    UndisturbedDemoIsUsable
PROPERTIES FinishedIsVerified
