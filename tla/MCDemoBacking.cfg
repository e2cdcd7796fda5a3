SPECIFICATION Spec
CONSTANTS
    bankA = bankA
    bankB = bankB
    merchant = merchant
    Zero = Zero
    RL = RL
    SC = SC
    TA = TA
    Wrapped = Wrapped
    Backed = Backed
    Single = Single
    Store = Store
    Unset = Unset
    Account = {bankA, bankB, merchant, Zero, RL, SC, TA, Wrapped, Backed, Single, Store}
    Users = {bankA, bankB, merchant}
    MaxPolicyId = 4
    Amounts = {1}
    MaxCirculation = 4
    Recipients = {bankA, bankB, merchant, SC}
    Approvals <- DemoApprovals
    Supplies = {2}
    RoleChanges = {}
    MemberChanges <- DemoMemberChanges
    PolicyChoices = {}
    InitRole <- DemoRole
    InitPolicies <- DemoPolicies
    InitTransferPolicyId <- SharedPolicyId
    InitMintPolicyId <- MintPolicyIds
    InitMaxSupply <- MaxSupplyOf2
    AbsoluteMax = 3
    Registrations <- DemoRegistrations
    Minters = {bankA}
    Limits = {0, 2}
    InitHandler <- DemoHandler
    InitTxnLimit <- TxnLimits
    InitMinterAllowance <- DemoAllowance
INVARIANT ReserveSupplyEqualsCirculation
