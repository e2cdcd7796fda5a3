SPECIFICATION ClientsSpec
CONSTANTS
    Word = 8
    Quarter = 1
    MaxPosts = 1
    Surplus = {0, 1}
    Request <- MCRequest
    WebRequest <- MCWebRequest
    Last <- MCLast
    Limits <- MCLimits
    FoundPorts <- MCFoundPorts
    PortEnv <- MCPortEnv
INVARIANT MintIsDecoded
CHECK_DEADLOCK FALSE
