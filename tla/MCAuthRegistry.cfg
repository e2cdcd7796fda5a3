SPECIFICATION RegistrySpec
CONSTANTS
    Account = {a, b}
    Users = {a, b}
    MaxPolicyId = 4
SYMMETRY Interchangeable
INVARIANTS RegistryTypeOK ParentsDescend NearestListingDecides
PROPERTY DecisionsAreLocal
