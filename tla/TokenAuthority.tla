--------------------------- MODULE TokenAuthority ---------------------------
(***************************************************************************)
(* The TokenAuthority, its three token handlers and the reserve store of   *)
(* the backed handler, composed with the two tokens of Stablecoin. A call  *)
(* on TokenAuthority is one transaction: TokenAuthority, the registered    *)
(* handler, ReserveLedger and the deposit token all succeed or all revert. *)
(* Spec is the on-chain system.                                            *)
(***************************************************************************)
EXTENDS Stablecoin, FiniteSetsExt

CONSTANTS
    Wrapped, Backed, Single,    \* the handlers: ReserveLedgerWrappedHandler,
                                \* ReserveLedgerBackedHandler, SingleTokenHandler
    Store,                      \* the ReserveStore the backed handler deploys for SC
    Unset,                      \* a tokenHandlers entry of address(0)
    AbsoluteMax,                \* ABSOLUTE_MAX
    Registrations,              \* bound: <<token, handler>> pairs that are set
    Minters,                    \* bound: the users that are given allowances
    Limits,                     \* bound: values the limit setters are called with
    InitHandler, InitTxnLimit, InitMinterAllowance

Handler == {Wrapped, Backed, Single}
Registered == {pair[1] : pair \in Registrations}

\* The wrapped and backed handlers serve the deposit token, the single handler
\* either token: the pairings of the scripts and tests.
ASSUME AuthorityAssumption ==
    /\ Handler \cup {Store} \subseteq Account \ Users
    /\ Store \notin Contract \cup Handler
    /\ Handler \cap Contract = {}
    /\ Zero \notin Handler \cup {Store}
    /\ Wrapped # Backed /\ Wrapped # Single /\ Backed # Single
    /\ Unset \notin Handler
    /\ AbsoluteMax \in Nat
    /\ Limits \subseteq Nat
    /\ Minters \subseteq Users
    /\ Registrations \subseteq ({SC} \X Handler) \cup {<<RL, Single>>}

ASSUME RegistrationAssumption ==
    /\ InitHandler \in [Token -> Handler \cup {Unset}]
    /\ InitHandler[RL] \in {Single, Unset}
    /\ InitTxnLimit \in [Token -> Nat]
    /\ InitMinterAllowance \in [Token -> [Users -> Nat]]

VARIABLES
    minterAllowances,   \* minterAllowances[stablecoin][minter]
    mintTxnLimits,      \* mintTxnLimits[stablecoin]
    tokenHandlers,      \* tokenHandlers[stablecoin]
    storeDeployed       \* the backed handler's reserveStores[SC] is set

authorityVars == <<minterAllowances, mintTxnLimits, tokenHandlers, storeDeployed>>
vars == <<tokenVars, authorityVars>>

AuthorityTypeOK ==
    /\ minterAllowances \in [Token -> [Users -> Nat]]
    /\ mintTxnLimits \in [Token -> Nat]
    /\ tokenHandlers \in [Token -> Handler \cup {Unset}]
    /\ tokenHandlers[RL] \in {Single, Unset}
    /\ storeDeployed \in BOOLEAN

TypeOK == RegistryTypeOK /\ LedgerTypeOK /\ ConfigTypeOK /\ AuthorityTypeOK

Init ==
    /\ InitTokens
    /\ minterAllowances = InitMinterAllowance
    /\ mintTxnLimits = InitTxnLimit
    /\ tokenHandlers = InitHandler
    /\ storeDeployed = FALSE

-----------------------------------------------------------------------------
(* The handlers' mint, called by TokenAuthority._mint.                      *)

\* Mint RL to the handler, wrap it: the reserve ends up in the SC contract.
WrappedReserveUnwrapped(bal, amount) == Credited(bal, Wrapped, amount)
WrappedReserve(bal, amount) == Credited(bal, SC, amount)

WrappedMint(c, to, amount) ==
    /\ tokenHandlers[c] = Wrapped
    /\ MintChecks(RL, Wrapped, Wrapped, amount)
    /\ WrapChecks(Wrapped, to, amount)
    /\ balance' = [balance EXCEPT ![RL] = WrappedReserve(@, amount),
                                  ![SC] = Credited(@, to, amount)]
    /\ supply' = [supply EXCEPT ![RL] = @ + amount, ![SC] = @ + amount]
    /\ UNCHANGED storeDeployed

\* Mint RL to the handler, move it to the store, mint SC without wrapping.
BackedReserveForgotten(bal, amount) == Credited(bal, Backed, amount)
BackedReserve(bal, amount) == Credited(bal, Store, amount)

BackedMint(c, to, amount) ==
    /\ tokenHandlers[c] = Backed
    /\ MintChecks(RL, Backed, Backed, amount)
    /\ MayMove(RL, Backed, Store)
    /\ MintChecks(SC, Backed, to, amount)
    /\ balance' = [balance EXCEPT ![RL] = BackedReserve(@, amount),
                                  ![SC] = Credited(@, to, amount)]
    /\ supply' = [supply EXCEPT ![RL] = @ + amount, ![SC] = @ + amount]
    /\ storeDeployed' = TRUE

SingleMint(c, to, amount) ==
    /\ tokenHandlers[c] = Single
    /\ MintChecks(c, Single, to, amount)
    /\ balance' = [balance EXCEPT ![c] = Credited(@, to, amount)]
    /\ supply' = [supply EXCEPT ![c] = @ + amount]
    /\ UNCHANGED storeDeployed

\* TokenAuthority._mint.
HandlerMint(c, to, amount) ==
    /\ amount <= AbsoluteMax
    /\ WrappedMint(c, to, amount) \/ BackedMint(c, to, amount) \/ SingleMint(c, to, amount)
    /\ UNCHANGED <<allowance, configVars, registryVars, mintTxnLimits, tokenHandlers>>

AllowanceKept(c, minter, amount) == minterAllowances
AllowanceSpent(c, minter, amount) ==
    [minterAllowances EXCEPT ![c][minter] = @ - amount]

AuthorityMint(sender, c, to, amount) ==
    /\ amount > 0
    /\ minterAllowances[c][sender] >= amount
    /\ mintTxnLimits[c] >= amount
    /\ minterAllowances' = AllowanceSpent(c, sender, amount)
    /\ HandlerMint(c, to, amount)

MintBridgeEcosystem(sender, c, to, amount) ==
    /\ hasRole(TA, "BRIDGE_ECOSYSTEM_CONTRACT", sender)
    /\ HandlerMint(c, to, amount)
    /\ UNCHANGED minterAllowances

-----------------------------------------------------------------------------
(* burn, unwrap and wrap: TokenAuthority pulls the caller's tokens, then    *)
(* the handler pulls them from TokenAuthority.                              *)

PulledUncovered(t, sender, via, amount) ==
    /\ balance[t][sender] >= amount
    /\ MayMove(t, sender, TA)
    /\ MayMove(t, TA, via)
    /\ allowance' = Spent(t, sender, TA, amount)

Pulled(t, sender, via, amount) ==
    /\ allowance[t][sender][TA] >= amount
    /\ balance[t][sender] >= amount
    /\ MayMove(t, sender, TA)
    /\ MayMove(t, TA, via)
    /\ allowance' = Spent(t, sender, TA, amount)

WrappedBurn(c, sender, amount) ==
    /\ tokenHandlers[c] = Wrapped
    /\ Pulled(SC, sender, Wrapped, amount)
    /\ UnwrapChecks(Wrapped, amount)
    /\ BurnChecks(RL, Wrapped)
    /\ balance' = [balance EXCEPT ![RL] = Debited(@, SC, amount),
                                  ![SC] = Debited(@, sender, amount)]
    /\ supply' = [supply EXCEPT ![RL] = @ - amount, ![SC] = @ - amount]

BackedBurn(c, sender, amount) ==
    /\ tokenHandlers[c] = Backed
    /\ storeDeployed
    /\ Pulled(SC, sender, Backed, amount)
    /\ BurnChecks(SC, Backed)
    /\ balance[RL][Store] >= amount
    /\ MayMove(RL, Store, Backed)
    /\ BurnChecks(RL, Backed)
    /\ balance' = [balance EXCEPT ![RL] = Debited(@, Store, amount),
                                  ![SC] = Debited(@, sender, amount)]
    /\ supply' = [supply EXCEPT ![RL] = @ - amount, ![SC] = @ - amount]

SingleBurn(c, sender, amount) ==
    /\ tokenHandlers[c] = Single
    /\ Pulled(c, sender, Single, amount)
    /\ BurnChecks(c, Single)
    /\ balance' = [balance EXCEPT ![c] = Debited(@, sender, amount)]
    /\ supply' = [supply EXCEPT ![c] = @ - amount]

AuthorityBurn(sender, c, amount) ==
    /\ hasRole(TA, "BURNER", sender)
    /\ WrappedBurn(c, sender, amount) \/ BackedBurn(c, sender, amount) \/ SingleBurn(c, sender, amount)
    /\ UNCHANGED <<configVars, registryVars, authorityVars>>

WrappedUnwrap(c, sender, amount) ==
    /\ tokenHandlers[c] = Wrapped
    /\ Pulled(SC, sender, Wrapped, amount)
    /\ UnwrapChecks(Wrapped, amount)
    /\ MayMove(RL, Wrapped, sender)
    /\ balance' = [balance EXCEPT ![RL] = Moved(@, SC, sender, amount),
                                  ![SC] = Debited(@, sender, amount)]

BackedUnwrap(c, sender, amount) ==
    /\ tokenHandlers[c] = Backed
    /\ storeDeployed
    /\ Pulled(SC, sender, Backed, amount)
    /\ BurnChecks(SC, Backed)
    /\ balance[RL][Store] >= amount
    /\ MayMove(RL, Store, sender)
    /\ balance' = [balance EXCEPT ![RL] = Moved(@, Store, sender, amount),
                                  ![SC] = Debited(@, sender, amount)]

\* SingleTokenHandler.unwrap always reverts.
AuthorityUnwrap(sender, c, amount) ==
    /\ hasRole(TA, "UNWRAPPER", sender)
    /\ WrappedUnwrap(c, sender, amount) \/ BackedUnwrap(c, sender, amount)
    /\ supply' = [supply EXCEPT ![SC] = @ - amount]
    /\ UNCHANGED <<configVars, registryVars, authorityVars>>

WrappedWrap(c, sender, to, amount) ==
    /\ tokenHandlers[c] = Wrapped
    /\ Pulled(RL, sender, Wrapped, amount)
    /\ WrapChecks(Wrapped, to, amount)
    /\ balance' = [balance EXCEPT ![RL] = Moved(@, sender, SC, amount),
                                  ![SC] = Credited(@, to, amount)]
    /\ UNCHANGED storeDeployed

BackedWrap(c, sender, to, amount) ==
    /\ tokenHandlers[c] = Backed
    /\ Pulled(RL, sender, Store, amount)
    /\ MintChecks(SC, Backed, to, amount)
    /\ balance' = [balance EXCEPT ![RL] = Moved(@, sender, Store, amount),
                                  ![SC] = Credited(@, to, amount)]
    /\ storeDeployed' = TRUE

\* SingleTokenHandler.wrap always reverts. No role is asked for.
AuthorityWrap(sender, c, to, amount) ==
    /\ to # Zero
    /\ amount > 0
    /\ WrappedWrap(c, sender, to, amount) \/ BackedWrap(c, sender, to, amount)
    /\ supply' = [supply EXCEPT ![SC] = @ + amount]
    /\ UNCHANGED <<configVars, registryVars, minterAllowances, mintTxnLimits, tokenHandlers>>

-----------------------------------------------------------------------------
(* Limits and registration.                                                 *)

SetTxnMintLimit(sender, c, limit) ==
    /\ hasRole(TA, "MINT_RATE_LIMIT_SETTER", sender)
    /\ limit < AbsoluteMax
    /\ mintTxnLimits' = [mintTxnLimits EXCEPT ![c] = limit]
    /\ UNCHANGED <<tokenVars, minterAllowances, tokenHandlers, storeDeployed>>

SetMinterAllowance(sender, c, minter, limit) ==
    /\ hasRole(TA, "MINT_RATE_LIMIT_SETTER", sender)
    /\ limit < AbsoluteMax
    /\ minterAllowances' = [minterAllowances EXCEPT ![c][minter] = limit]
    /\ UNCHANGED <<tokenVars, mintTxnLimits, tokenHandlers, storeDeployed>>

SetTokenHandler(sender, c, handler) ==
    /\ hasRole(TA, "TOKEN_AUTHORITY_HANDLER_SETTER", sender)
    /\ tokenHandlers' = [tokenHandlers EXCEPT ![c] = handler]
    /\ UNCHANGED <<tokenVars, minterAllowances, mintTxnLimits, storeDeployed>>

RegisterStablecoin(sender, c, handler, limit) ==
    /\ hasRole(TA, "TOKEN_AUTHORITY_HANDLER_SETTER", sender)
    /\ tokenHandlers[c] = Unset
    /\ limit < AbsoluteMax
    /\ tokenHandlers' = [tokenHandlers EXCEPT ![c] = handler]
    /\ mintTxnLimits' = [mintTxnLimits EXCEPT ![c] = limit]
    /\ UNCHANGED <<tokenVars, minterAllowances, storeDeployed>>

\* The minters' allowances outlive the registration.
UnregisterStablecoin(sender, c) ==
    /\ hasRole(TA, "TOKEN_AUTHORITY_HANDLER_SETTER", sender)
    /\ tokenHandlers[c] # Unset
    /\ tokenHandlers' = [tokenHandlers EXCEPT ![c] = Unset]
    /\ mintTxnLimits' = [mintTxnLimits EXCEPT ![c] = 0]
    /\ UNCHANGED <<tokenVars, minterAllowances, storeDeployed>>

-----------------------------------------------------------------------------
\* The calls of TokenAuthority that move tokens, and the ones that do not.
AuthorityStep(sender) ==
    \/ \E c \in Token, to \in Recipients, amount \in Amounts :
           \/ AuthorityMint(sender, c, to, amount)
           \/ MintBridgeEcosystem(sender, c, to, amount)
           \/ AuthorityWrap(sender, c, to, amount)
    \/ \E c \in Token, amount \in Amounts :
           AuthorityBurn(sender, c, amount) \/ AuthorityUnwrap(sender, c, amount)

SetterStep(sender) ==
    \/ \E c \in Registered, limit \in Limits : SetTxnMintLimit(sender, c, limit)
    \/ \E c \in Registered, minter \in Minters, limit \in Limits :
           SetMinterAllowance(sender, c, minter, limit)
    \/ \E pair \in Registrations : SetTokenHandler(sender, pair[1], pair[2])
    \/ \E pair \in Registrations, limit \in Limits :
           RegisterStablecoin(sender, pair[1], pair[2], limit)
    \/ \E c \in Token : UnregisterStablecoin(sender, c)

Next == \E sender \in Users :
    \/ TokenStep(sender) /\ UNCHANGED authorityVars
    \/ AuthorityStep(sender)
    \/ SetterStep(sender)

Spec == Init /\ [][Next]_vars

-----------------------------------------------------------------------------
(* Properties.                                                              *)

\* The reserve tokens held against the deposit token, by the SC contract itself
\* (wrapped) and by the backed handler's store, and what is missing from them.
Reserve == balance[RL][SC] + balance[RL][Store]
Shortfall == supply[SC] - Reserve

\* SC issued while it may still be minted without wrapping, and no reserve moved.
IssuedAlone ==
    /\ ~migrated
    /\ supply'[SC] > supply[SC]
    /\ balance'[RL] = balance[RL]

\* StablecoinTemplateV3.mint leaves TokenAuthority alone.
DirectMint ==
    /\ IssuedAlone
    /\ \E minter \in Users : hasRole(SC, "MINTER", minter)
    /\ UNCHANGED authorityVars

SingleHandlerMint ==
    /\ IssuedAlone
    /\ tokenHandlers[SC] = Single
    /\ hasRole(SC, "MINTER", Single)

ReserveSeized ==
    /\ \E holder \in {SC, Store} : isBlocked(RL, holder)
    /\ supply'[RL] < supply[RL]
    /\ supply'[SC] = supply[SC]

ShortfallStep ==
    Shortfall' > Shortfall => DirectMint \/ SingleHandlerMint \/ ReserveSeized

\* Whatever the handlers, roles and policies in force, a transaction makes the
\* backing of the deposit token worse in three ways only. Before
\* completeMigrationToWrapped has closed StablecoinTemplateV3.mint, a minter calls it
\* directly, or TokenAuthority's mint reaches it through SingleTokenHandler, which
\* mints no reserve; and ReserveLedger.burnFromBlockedAddress burns the reserve of a
\* blocked holder. Mints and wraps through the wrapped and the backed handler, burns
\* and unwraps through any handler, in any order and under any change of handler
\* between them, and SC.burnFromBlockedAddress never do.
ShortfallOnlyByUnbackedMintOrSeizure == [][ShortfallStep]_vars

TotalOf(bal) == MapThenSumSet(LAMBDA a : bal[a], Account)

\* The total of a token's balances is its supply: no mint, burn, wrap, unwrap or
\* transfer, to oneself too, credits what it does not debit or issue.
SupplyIsSumOfBalances == \A t \in Token : supply[t] = TotalOf(balance[t])

BurnedWhole(t, a) == balance'[t][a] = 0 /\ supply'[t] = supply[t] - balance[t][a]

FrozenStep ==
    \A t \in Token, a \in Account : balance'[t][a] # balance[t][a] =>
        ~paused[t] /\ (isAuthorized(transferPolicyId[t], a) \/ BurnedWhole(t, a))

\* A paused token moves for nobody, and the balance of an account blocked on a
\* token changes in one way only: burnFromBlockedAddress burns all of it. It
\* covers what a call on the other token or on TokenAuthority does inside.
FrozenUnlessBurnedWhole == [][FrozenStep]_vars

PauseStep == migrated /\ paused[RL] => supply'[SC] = supply[SC]

\* Pausing the ReserveLedger freezes the circulation of a migrated deposit token:
\* wrap, unwrap and burnFromBlockedAddress all need a transfer on RL.
ReservePauseFreezesCirculation == [][PauseStep]_vars

\* The reserve is never issued past its cap, and the cap never set below what is
\* issued (ReserveLedger.mint, setMaxSupply).
ReserveSupplyCapped == supply[RL] <= maxSupply[RL]

\* Each token keeps an admin through every order of grantRole, revokeRole and
\* renounceRole by several admins (the _revokeRole override).
AlwaysAnAdmin == \A t \in Token : role[t]["ADMIN"] # {}

\* No user holds a role when the system starts, and no admin grants it to one.
NobodyGets(c, r) == \A u \in Users : u \notin InitRole[c][r] /\ <<c, r, u>> \notin RoleChanges

\* A deployment like the demo's: SC is only ever served by the wrapped handler, its
\* minters are contracts, and nobody can seize reserve tokens.
WrappedDeployment ==
    /\ InitHandler[SC] \in {Wrapped, Unset}
    /\ \A pair \in Registrations : pair[1] = SC => pair[2] = Wrapped
    /\ NobodyGets(SC, "MINTER")
    /\ NobodyGets(RL, "BLOCKED_ADDRESS_BURNER")

\* In a deployment with the wrapped handler alone, the SC contract holds a reserve
\* token for every deposit token in circulation.
CirculationBacked == WrappedDeployment => supply[SC] <= balance[RL][SC]

\* A deployment like the demo's: RL is not registered, its minters are contracts,
\* and no bridge mints through TokenAuthority.
IssuedByAllowance ==
    /\ InitHandler[RL] = Unset
    /\ RL \notin Registered
    /\ NobodyGets(RL, "MINTER")
    /\ NobodyGets(TA, "BRIDGE_ECOSYSTEM_CONTRACT")

IssuanceStep ==
    supply'[RL] > supply[RL] =>
        \E minter \in Users :
            minterAllowances[SC][minter] - minterAllowances'[SC][minter]
                = supply'[RL] - supply[RL]

\* In a deployment without a bridge whose reserve is minted by contracts alone,
\* every reserve token issued is taken off the allowance of the minter that called
\* TokenAuthority.mint, exactly.
IssuanceConsumesAllowance == [][IssuedByAllowance => IssuanceStep]_vars

\* README.md, lines 159-160: "Backed 1:1. The issuer's `ReserveLedger` supply
\* always equals the circulating deposit-token supply."
ReserveSupplyEqualsCirculation == supply[RL] = supply[SC]
=============================================================================
