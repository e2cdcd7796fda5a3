SPECIFICATION Spec
CONSTANTS
    bankA = bankA
    bankB = bankB
    merchant = merchant
    Zero = Zero
    RL = RL
    SC = SC
    TA = TA
    Wrapped = Wrapped
    Backed = Backed
    Single = Single
    Store = Store
    Unset = Unset
    Account = {bankA, bankB, Zero, RL, SC, TA, Wrapped, Backed, Single, Store}
    Users = {bankA, bankB}
    MaxPolicyId = 5
    Amounts = {1}
    MaxCirculation = 1
    Recipients = {bankA, bankB}
    Approvals = {}
    Supplies = {1, 2}
    RoleChanges <- GovernanceRoleChanges
    MemberChanges = {}
    PolicyChoices = {5, 7}
    InitRole <- GovernanceRole
    InitPolicies <- ControlPolicies
    InitTransferPolicyId <- SharedPolicyId
    InitMintPolicyId <- MintPolicyIds
    InitMaxSupply <- MaxSupplyOf2
    AbsoluteMax = 3
    Registrations = {}
    Minters = {bankA}
    Limits = {1}
    InitHandler <- DemoHandler
    InitTxnLimit <- TxnLimits
    InitMinterAllowance <- OneMint
INVARIANTS ReserveSupplyCapped AlwaysAnAdmin
PROPERTIES ReservePauseFreezesCirculation
