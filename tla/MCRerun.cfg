SPECIFICATION Spec
CONSTANTS
    bankA = bankA
    treasury = treasury
    operations = operations
    c1 = c1
    c2 = c2
    c3 = c3
    Registry = Registry
    RL = RL
    TA = TA
    Zero = Zero
    PolicyAdmin = bankA
    DemoIssuer = bankA
    People = {bankA, treasury}
    Coins = {c1}
    Config <- Configs
    Offered <- DemoOnly
    MaxStarts = 1
    MaxCrashes = 1
    MaxElsewhere = 0
    MaxIssued = 0
CHECK_DEADLOCK FALSE
INVARIANT RerunIsSafe
