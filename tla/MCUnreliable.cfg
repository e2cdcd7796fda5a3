SPECIFICATION FairSpec
CONSTANTS
    bankA = bankA
    bankB = bankB
    keyA = keyA
    keyB = keyB
    routerA = routerA
    routerB = routerB
    mint1 = mint1
    mint2 = mint2
    onboard = onboard
    pay = pay
    Bank = {bankA, bankB}
    Issuer = {bankA}
    Key = {keyA, keyB}
    KeyOf <- Keys
    Router = {routerA, routerB}
    RouterKeys <- Provisioned
    Request = {pay, mint2, onboard}
    BankOf <- ServedByBoth
    Op <- Asked
    Args <- Bodies
    Impatient = {pay, onboard}
    MayReplace = TRUE
    MaxRestarts = 1
INVARIANTS RefusedLeavesNothing TransferListingFirst SignedByOwnBank
PROPERTIES LateOnlyIfUnsure AnsweredOrReplaced ImplementsSubmission
