SPECIFICATION Spec
CONSTANTS
    bankA = bankA
    bankB = bankB
    merchant = merchant
    Zero = Zero
    RL = RL
    SC = SC
    TA = TA
    Wrapped = Wrapped
    Backed = Backed
    Single = Single
    Store = Store
    Unset = Unset
    Account = {bankA, bankB, Zero, RL, SC, TA, Wrapped, Backed, Single, Store}
    Users = {bankA, bankB}
    MaxPolicyId = 4
    Amounts = {1}
    MaxCirculation = 2
    Recipients = {bankA, bankB}
    Approvals <- HandlerApprovals
    Supplies = {}
    RoleChanges = {}
    MemberChanges <- HandlerMemberChanges
    PolicyChoices = {}
    InitRole <- HandlerRole
    InitPolicies <- OpenPolicies
    InitTransferPolicyId <- SharedPolicyId
    InitMintPolicyId <- MintPolicyIds
    InitMaxSupply <- HandlerMaxSupply
    AbsoluteMax = 3
    Registrations <- AnyHandler
    Minters = {}
    Limits = {2}
    InitHandler <- ReserveBySingle
    InitTxnLimit <- BothLimits
    InitMinterAllowance <- OneMint
INVARIANTS TypeOK SupplyIsSumOfBalances
PROPERTIES FrozenUnlessBurnedWhole ShortfallOnlyByUnbackedMintOrSeizure
