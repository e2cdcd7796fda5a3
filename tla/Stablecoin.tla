----------------------------- MODULE Stablecoin -----------------------------
(***************************************************************************)
(* The two tokens of the template: the ReserveLedger RL and the deposit    *)
(* token SC (StablecoinTemplateV3), with their common base. Each action is *)
(* one successful transaction signed by a user; the calls a contract makes *)
(* inside it are folded into the action, whose guard is every require on   *)
(* the way and whose effect is the net effect. A reverted transaction is a *)
(* stuttering step.                                                        *)
(***************************************************************************)
EXTENDS AuthRegistry

CONSTANTS
    Zero,           \* address(0): the from of a mint and the to of a burn
    RL, SC,         \* the ReserveLedger and the StablecoinTemplateV3 proxy
    TA,             \* the TokenAuthority proxy
    Amounts,        \* bound: amounts a transaction may carry
    MaxCirculation, \* bound: wrapping stops here; in the code it has no cap
    Recipients,     \* bound: the addresses tokens are sent or minted to
    Approvals,      \* bound: the <<token, owner, spender>> that are approved
    Supplies,       \* bound: values setMaxSupply is called with
    RoleChanges,    \* bound: the <<contract, role, account>> an admin may touch
    MemberChanges,  \* bound: the <<policy, account>> a policy admin may touch
    PolicyChoices,  \* bound: ids set as a token's transfer or mint policy
    InitRole, InitPolicies, InitTransferPolicyId, InitMintPolicyId, InitMaxSupply

Token == {RL, SC}
Contract == {RL, SC, TA}

Role == {"ADMIN", "MINTER", "PAUSER", "UNPAUSER", "BLOCKED_ADDRESS_BURNER",
         "BURNER", "UNWRAPPER", "BRIDGE_ECOSYSTEM_CONTRACT",
         "MINT_RATE_LIMIT_SETTER", "TOKEN_AUTHORITY_HANDLER_SETTER"}

ASSUME TokenAssumption ==
    /\ {Zero, RL, SC, TA} \subseteq Account \ Users
    /\ RL # SC /\ RL # TA /\ SC # TA /\ Zero \notin Contract
    /\ Amounts \subseteq Nat /\ Supplies \subseteq Nat /\ PolicyChoices \subseteq Nat
    /\ MaxCirculation \in Nat
    /\ Recipients \subseteq Account
    /\ Approvals \subseteq Token \X Users \X Account
    /\ RoleChanges \subseteq Contract \X Role \X Account
    /\ MemberChanges \subseteq PolicyIds \X Account

ASSUME DeploymentAssumption ==
    /\ InitRole \in [Contract -> [Role -> SUBSET Account]]
    /\ \A t \in Token : InitRole[t]["ADMIN"] # {} /\ IsFiniteSet(InitRole[t]["ADMIN"])
    /\ InitPolicies \in [PolicyIds -> Policy]
    /\ InitTransferPolicyId \in [Token -> Nat]
    /\ InitMintPolicyId \in [Token -> Nat]
    /\ InitMaxSupply \in [Token -> Nat]

VARIABLES
    balance,                \* balance[t][a]: ERC20 balances
    supply,                 \* supply[t]: totalSupply
    allowance,              \* allowance[t][owner][spender], for owners that sign
    maxSupply,              \* _maxSupply
    paused,                 \* Pausable
    transferPolicyId,       \* _transferPolicyId
    mintRecipientPolicyId,  \* _mintRecipientPolicyId
    role,                   \* role[c][r]: AccessControl members, TA's included
    migrated                \* SC's _migrationToWrappedCompleted

ledgerVars == <<balance, supply, allowance>>
configVars == <<maxSupply, paused, transferPolicyId, mintRecipientPolicyId, role, migrated>>
tokenVars == <<ledgerVars, configVars, registryVars>>

LedgerTypeOK ==
    /\ balance \in [Token -> [Account -> Nat]]
    /\ supply \in [Token -> Int]
    /\ allowance \in [Token -> [Users -> [Account -> Nat]]]

ConfigTypeOK ==
    /\ maxSupply \in [Token -> Nat]
    /\ paused \in [Token -> BOOLEAN]
    /\ transferPolicyId \in [Token -> Nat]
    /\ mintRecipientPolicyId \in [Token -> Nat]
    /\ role \in [Contract -> [Role -> SUBSET Account]]
    /\ migrated \in BOOLEAN

\* The state a deployment script leaves behind: the policies exist and nothing is
\* issued yet (the instance creates no further policy). Approvals by the contracts
\* are left out: TokenAuthority and the handlers approve exactly what the same
\* transaction then spends.
InitTokens ==
    /\ policies = InitPolicies
    /\ nextPolicyId = MaxPolicyId + 1
    /\ balance = [t \in Token |-> [a \in Account |-> 0]]
    /\ supply = [t \in Token |-> 0]
    /\ allowance = [t \in Token |-> [o \in Users |-> [s \in Account |-> 0]]]
    /\ maxSupply = InitMaxSupply
    /\ paused = [t \in Token |-> FALSE]
    /\ transferPolicyId = InitTransferPolicyId
    /\ mintRecipientPolicyId = InitMintPolicyId
    /\ role = InitRole
    /\ migrated = FALSE

-----------------------------------------------------------------------------
(* What every movement of tokens checks, and its effect on one ledger.      *)

hasRole(c, r, account) == account \in role[c][r]

isBlocked(t, account) ==
    exists(transferPolicyId[t]) /\ ~isAuthorized(transferPolicyId[t], account)

isMintRecipient(t, account) == isAuthorized(mintRecipientPolicyId[t], account)

\* The modifiers of _update; for a mint `from` is Zero, for a burn `to` is.
MayMove(t, from, to) ==
    /\ ~paused[t]
    /\ isAuthorized(transferPolicyId[t], to)
    /\ isAuthorized(transferPolicyId[t], from)

Credited(bal, to, amount) == [bal EXCEPT ![to] = @ + amount]
Debited(bal, from, amount) == [bal EXCEPT ![from] = @ - amount]
MovedByCachedBalances(bal, from, to, amount) ==
    [bal EXCEPT ![from] = bal[from] - amount, ![to] = bal[to] + amount]
Moved(bal, from, to, amount) == Credited(Debited(bal, from, amount), to, amount)

Spent(t, owner, spender, amount) ==
    [allowance EXCEPT ![t][owner][spender] = @ - amount]

\* What wrap asks besides the caller's reserve tokens and their approval to SC.
\* It does not look at SC's maxSupply.
WrapChecks(sender, to, amount) ==
    /\ amount > 0
    /\ supply[SC] + amount <= MaxCirculation
    /\ to # Zero
    /\ isMintRecipient(SC, to)
    /\ MayMove(RL, sender, SC)
    /\ MayMove(SC, Zero, to)

UnwrapChecks(sender, amount) ==
    /\ hasRole(SC, "MINTER", sender)
    /\ MayMove(SC, sender, Zero)
    /\ balance[RL][SC] >= amount
    /\ MayMove(RL, SC, sender)

\* Once the migration is complete SC is minted and burned by wrapping only.
NeverClosed(t) == TRUE
OpenToMinters(t) == t = SC => ~migrated

MintChecks(t, sender, to, amount) ==
    /\ hasRole(t, "MINTER", sender)
    /\ OpenToMinters(t)
    /\ supply[t] + amount <= maxSupply[t]
    /\ isMintRecipient(t, to)
    /\ to # Zero
    /\ MayMove(t, Zero, to)

BurnChecks(t, sender) ==
    /\ hasRole(t, "MINTER", sender)
    /\ OpenToMinters(t)
    /\ MayMove(t, sender, Zero)

-----------------------------------------------------------------------------
(* ERC20 as inherited from OpenZeppelin, through the overridden _update.    *)

Transfer(sender, t, to, amount) ==
    /\ to # Zero
    /\ MayMove(t, sender, to)
    /\ balance[t][sender] >= amount
    /\ balance' = [balance EXCEPT ![t] = Moved(@, sender, to, amount)]
    /\ UNCHANGED <<supply, allowance, configVars, registryVars>>

Approve(sender, t, spender, amount) ==
    /\ spender # Zero
    /\ allowance' = [allowance EXCEPT ![t][sender][spender] = amount]
    /\ UNCHANGED <<balance, supply, configVars, registryVars>>

TransferFrom(sender, t, from, to, amount) ==
    /\ to # Zero
    /\ allowance[t][from][sender] >= amount
    /\ MayMove(t, from, to)
    /\ balance[t][from] >= amount
    /\ allowance' = Spent(t, from, sender, amount)
    /\ balance' = [balance EXCEPT ![t] = Moved(@, from, to, amount)]
    /\ UNCHANGED <<supply, configVars, registryVars>>

-----------------------------------------------------------------------------
(* Minting and burning a token directly: ReserveLedger.mint and burn, and   *)
(* StablecoinTemplateV3.mint and burn, which the migration closes.          *)

Mint(sender, t, to, amount) ==
    /\ MintChecks(t, sender, to, amount)
    /\ balance' = [balance EXCEPT ![t] = Credited(@, to, amount)]
    /\ supply' = [supply EXCEPT ![t] = @ + amount]
    /\ UNCHANGED <<allowance, configVars, registryVars>>

Burn(sender, t, amount) ==
    /\ BurnChecks(t, sender)
    /\ balance[t][sender] >= amount
    /\ balance' = [balance EXCEPT ![t] = Debited(@, sender, amount)]
    /\ supply' = [supply EXCEPT ![t] = @ - amount]
    /\ UNCHANGED <<allowance, configVars, registryVars>>

\* ReserveLedger.burnFromBlockedAddress: RL's temporary unblock lets the burn of
\* a blocked account through, though not past the pause.
ReserveBurnFromBlocked(sender, account) ==
    /\ hasRole(RL, "BLOCKED_ADDRESS_BURNER", sender)
    /\ isBlocked(RL, account)
    /\ balance[RL][account] > 0
    /\ ~paused[RL]
    /\ balance' = [balance EXCEPT ![RL] = Debited(@, account, balance[RL][account])]
    /\ supply' = [supply EXCEPT ![RL] = @ - balance[RL][account]]
    /\ UNCHANGED <<allowance, configVars, registryVars>>

-----------------------------------------------------------------------------
(* StablecoinTemplateV3: reserve tokens in, deposit tokens out, and back.   *)

Wrap(sender, to, amount) ==
    /\ WrapChecks(sender, to, amount)
    /\ allowance[RL][sender][SC] >= amount
    /\ balance[RL][sender] >= amount
    /\ allowance' = Spent(RL, sender, SC, amount)
    /\ balance' = [balance EXCEPT ![RL] = Moved(@, sender, SC, amount),
                                  ![SC] = Credited(@, to, amount)]
    /\ supply' = [supply EXCEPT ![SC] = @ + amount]
    /\ UNCHANGED <<configVars, registryVars>>

Unwrap(sender, amount) ==
    /\ UnwrapChecks(sender, amount)
    /\ balance[SC][sender] >= amount
    /\ balance' = [balance EXCEPT ![RL] = Moved(@, SC, sender, amount),
                                  ![SC] = Debited(@, sender, amount)]
    /\ supply' = [supply EXCEPT ![SC] = @ - amount]
    /\ UNCHANGED <<allowance, configVars, registryVars>>

\* The reserve tokens of the burned balance go to the caller. SC's temporary
\* unblock is SC's own transient storage: the transfer on RL is checked as usual.
SeizureUnchecked(sender) == TRUE
SeizurePayable(sender) == MayMove(RL, SC, sender)

BurnFromBlocked(sender, account) ==
    /\ hasRole(SC, "BLOCKED_ADDRESS_BURNER", sender)
    /\ isBlocked(SC, account)
    /\ balance[SC][account] > 0
    /\ ~paused[SC]
    /\ balance[RL][SC] >= balance[SC][account]
    /\ SeizurePayable(sender)
    /\ balance' = [balance EXCEPT ![RL] = Moved(@, SC, sender, balance[SC][account]),
                                  ![SC] = Debited(@, account, balance[SC][account])]
    /\ supply' = [supply EXCEPT ![SC] = @ - balance[SC][account]]
    /\ UNCHANGED <<allowance, configVars, registryVars>>

MigrationReconciled == balance[RL][SC] = supply[SC]

CompleteMigrationToWrapped(sender) ==
    /\ hasRole(SC, "ADMIN", sender)
    /\ MigrationReconciled
    /\ migrated' = TRUE
    /\ UNCHANGED <<ledgerVars, maxSupply, paused, transferPolicyId,
                   mintRecipientPolicyId, role, registryVars>>

-----------------------------------------------------------------------------
(* Administration of a token.                                               *)

Pause(sender, t) ==
    /\ hasRole(t, "PAUSER", sender)
    /\ ~paused[t]
    /\ paused' = [paused EXCEPT ![t] = TRUE]
    /\ UNCHANGED <<ledgerVars, maxSupply, transferPolicyId, mintRecipientPolicyId,
                   role, migrated, registryVars>>

Unpause(sender, t) ==
    /\ hasRole(t, "UNPAUSER", sender)
    /\ paused[t]
    /\ paused' = [paused EXCEPT ![t] = FALSE]
    /\ UNCHANGED <<ledgerVars, maxSupply, transferPolicyId, mintRecipientPolicyId,
                   role, migrated, registryVars>>

\* Neither setter asks whether the policy exists.
SetTransferPolicyId(sender, t, id) ==
    /\ hasRole(t, "ADMIN", sender)
    /\ transferPolicyId' = [transferPolicyId EXCEPT ![t] = id]
    /\ UNCHANGED <<ledgerVars, maxSupply, paused, mintRecipientPolicyId, role,
                   migrated, registryVars>>

SetMintRecipientPolicyId(sender, t, id) ==
    /\ hasRole(t, "ADMIN", sender)
    /\ mintRecipientPolicyId' = [mintRecipientPolicyId EXCEPT ![t] = id]
    /\ UNCHANGED <<ledgerVars, maxSupply, paused, transferPolicyId, role,
                   migrated, registryVars>>

AnyCap(t, amount) == TRUE
CapAboveSupply(t, amount) == amount >= supply[t]

SetMaxSupply(sender, t, amount) ==
    /\ hasRole(t, "ADMIN", sender)
    /\ CapAboveSupply(t, amount)
    /\ maxSupply' = [maxSupply EXCEPT ![t] = amount]
    /\ UNCHANGED <<ledgerVars, paused, transferPolicyId, mintRecipientPolicyId,
                   role, migrated, registryVars>>

\* grantRole; the tokens' _grantRole override refuses address(0).
GrantRole(sender, c, r, account) ==
    /\ hasRole(c, "ADMIN", sender)
    /\ c \in Token => account # Zero
    /\ role' = [role EXCEPT ![c][r] = @ \cup {account}]
    /\ UNCHANGED <<ledgerVars, maxSupply, paused, transferPolicyId,
                   mintRecipientPolicyId, migrated, registryVars>>

\* The tokens' _revokeRole override keeps the last admin; TokenAuthority has none.
LastAdminUnguarded(c, r) == TRUE
LastAdminStays(c, r) == c \in Token /\ r = "ADMIN" => Cardinality(role[c]["ADMIN"]) > 1

\* revokeRole by an admin, or renounceRole by the account itself.
RevokeRole(sender, c, r, account) ==
    /\ hasRole(c, "ADMIN", sender) \/ sender = account
    /\ LastAdminStays(c, r)
    /\ role' = [role EXCEPT ![c][r] = @ \ {account}]
    /\ UNCHANGED <<ledgerVars, maxSupply, paused, transferPolicyId,
                   mintRecipientPolicyId, migrated, registryVars>>

\* A policy admin edits the registry both tokens consult.
SetMember(sender, id, account, value) ==
    /\ setMember(sender, id, account, value)
    /\ UNCHANGED <<ledgerVars, configVars>>

-----------------------------------------------------------------------------
\* What a holder does, what an operator that issues or redeems does, and what
\* moves no token.
HolderStep(sender) ==
    \/ \E t \in Token, to \in Recipients, amount \in Amounts : Transfer(sender, t, to, amount)
    \/ \E grant \in Approvals, amount \in Amounts \cup {0} :
           grant[2] = sender /\ Approve(sender, grant[1], grant[3], amount)
    \/ \E t \in Token, from \in Users, to \in Recipients, amount \in Amounts :
           TransferFrom(sender, t, from, to, amount)
    \/ \E to \in Recipients, amount \in Amounts : Wrap(sender, to, amount)

IssuerStep(sender) ==
    \/ \E t \in Token, to \in Recipients, amount \in Amounts : Mint(sender, t, to, amount)
    \/ \E t \in Token, amount \in Amounts : Burn(sender, t, amount)
    \/ \E amount \in Amounts : Unwrap(sender, amount)
    \/ \E account \in Account : ReserveBurnFromBlocked(sender, account)
    \/ \E account \in Account : BurnFromBlocked(sender, account)

AdminStep(sender) ==
    \/ CompleteMigrationToWrapped(sender)
    \/ \E t \in Token : Pause(sender, t)
    \/ \E t \in Token : Unpause(sender, t)
    \/ \E t \in Token, id \in PolicyChoices : SetTransferPolicyId(sender, t, id)
    \/ \E t \in Token, id \in PolicyChoices : SetMintRecipientPolicyId(sender, t, id)
    \/ \E t \in Token, amount \in Supplies : SetMaxSupply(sender, t, amount)
    \/ \E change \in RoleChanges : GrantRole(sender, change[1], change[2], change[3])
    \/ \E change \in RoleChanges : RevokeRole(sender, change[1], change[2], change[3])
    \/ \E change \in MemberChanges, value \in BOOLEAN :
           SetMember(sender, change[1], change[2], value)

TokenStep(sender) == HolderStep(sender) \/ IssuerStep(sender) \/ AdminStep(sender)
=============================================================================
