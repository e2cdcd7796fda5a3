SPECIFICATION RegistrySpec
CONSTANTS
    Account = {a, b}
    Users = {a, b}
    MaxPolicyId = 4
SYMMETRY Interchangeable
INVARIANT ListedAnywhereDecides
