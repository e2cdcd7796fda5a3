SPECIFICATION Spec
CONSTANTS
    bankA = bankA
    bankB = bankB
    keyA = keyA
    keyB = keyB
    routerA = routerA
    routerB = routerB
    mint1 = mint1
    mint2 = mint2
    onboard = onboard
    pay = pay
    Bank = {bankA, bankB}
    Issuer = {bankA}
    Key = {keyA, keyB}
    KeyOf <- Keys
    Router = {routerA}
    RouterKeys <- Provisioned
    Request = {mint1, mint2, onboard}
    BankOf <- ServedByA
    Op <- Asked
    Args <- Bodies
    Impatient = {mint1, onboard}
    MayReplace = FALSE
    MaxRestarts = 0
INVARIANTS TypeOK ResultsAreOwn NoNonceGap
