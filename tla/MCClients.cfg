SPECIFICATION FairClients
CONSTANTS
    Word = 8
    Quarter = 1
    MaxPosts = 1
    Surplus = {0, 1}
    Request <- MCRequest
    WebRequest <- MCWebRequest
    Last <- MCLast
    Limits <- MCLimits
    FoundPorts <- MCFoundPorts
    PortEnv <- MCPortEnv
INVARIANTS
    ClientsTypeOK
    OnlyOwnWalletDebited
    UndisturbedDemoSucceeds
    NoMintThroughBankB
    BackingConfirmed
    NothingLeftRunning
    StatePageConsistent
    PagesExplainBalances
PROPERTIES
    IsolationProven
    DriverReturns
CHECK_DEADLOCK FALSE
