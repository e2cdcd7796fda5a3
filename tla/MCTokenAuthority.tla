-------------------------- MODULE MCTokenAuthority --------------------------
(***************************************************************************)
(* Instances of the on-chain system: the deployment of DeployDemo.s.sol,   *)
(* and one with every handler, role and operation in play.                 *)
(***************************************************************************)
EXTENDS TokenAuthority, TLC

CONSTANTS bankA, bankB, merchant

NoRoles == [r \in Role |-> {}]
SharedPolicyId == [t \in Token |-> 2]
MintPolicyIds == [t \in Token |-> IF t = RL THEN 3 ELSE 4]
WhitelistOf(accounts) ==
    [admin |-> bankA, policyType |-> "WHITELIST", parent |-> NoPolicy, member |-> accounts]
MaxSupplyOf2 == [t \in Token |-> 2]
TxnLimits == [t \in Token |-> IF t = SC THEN 2 ELSE 0]

\* DeployAll._configure and _handover with Bank A in every part, then the
\* whitelisting of DeployDemo.deploy.
DemoRole ==
    (RL :> [NoRoles EXCEPT !["ADMIN"] = {bankA}, !["MINTER"] = {TA, Wrapped}]) @@
    (SC :> [NoRoles EXCEPT !["ADMIN"] = {bankA}, !["MINTER"] = {TA, Wrapped},
                           !["PAUSER"] = {bankA}, !["UNPAUSER"] = {bankA},
                           !["BLOCKED_ADDRESS_BURNER"] = {bankA}]) @@
    (TA :> [NoRoles EXCEPT !["ADMIN"] = {bankA}, !["MINT_RATE_LIMIT_SETTER"] = {bankA},
                           !["TOKEN_AUTHORITY_HANDLER_SETTER"] = {bankA}])
DemoPolicies ==
    (2 :> WhitelistOf({Zero, SC, Wrapped, TA, bankA})) @@
    (3 :> WhitelistOf({Wrapped})) @@
    (4 :> WhitelistOf({}))
DemoHandler == [t \in Token |-> IF t = SC THEN Wrapped ELSE Unset]
DemoAllowance ==
    [t \in Token |-> [u \in Users |-> IF t = SC /\ u = bankA THEN 2 ELSE 0]]
\* Counterparties are onboarded and offboarded (DepositService.Authorize).
DemoMemberChanges == {<<2, bankB>>, <<2, merchant>>, <<4, bankB>>}
DemoApprovals == {<<RL, bankA, SC>>}
DemoRegistrations == {<<SC, Wrapped>>}

\* Every operation is somebody's: Bank A holds each role of each contract and the
\* contracts that issue are minters; both policies of RL list every address.
FullRole == [c \in Contract |-> [r \in Role |->
    IF r = "MINTER" THEN {TA, Wrapped, Backed, Single, bankA} ELSE {bankA}]]
HandlerRole == [c \in Contract |-> [FullRole[c] EXCEPT !["PAUSER"] = {}]]
OpenPolicies ==
    (2 :> WhitelistOf(Account)) @@ (3 :> WhitelistOf(Account)) @@ (4 :> WhitelistOf(Users))
HandlerMaxSupply == [t \in Token |-> IF t = RL THEN 2 ELSE 1]
OneMint == [t \in Token |-> [u \in Users |-> IF u = bankA THEN 1 ELSE 0]]
ReserveBySingle == [t \in Token |-> IF t = SC THEN Wrapped ELSE Single]
BothLimits == [t \in Token |-> 2]
AnyHandler == {<<SC, Wrapped>>, <<SC, Backed>>, <<SC, Single>>}
HandlerApprovals == {<<SC, bankA, TA>>, <<RL, bankA, TA>>}
\* The reserve's own holders, and a customer, may be blocked.
HandlerMemberChanges == {<<2, SC>>, <<2, bankB>>}

\* The controls of the tokens: pausing, blocking, policies, caps, admins.
ControlPolicies == OpenPolicies @@
    (5 :> [WhitelistOf({bankB}) EXCEPT !.policyType = "BLACKLIST", !.parent = 2])
\* Bank A administers both tokens and issues them; RL can be paused.
GovernanceRole == [c \in Contract |-> [r \in Role |->
    IF r = "MINTER" THEN {Wrapped, Single, bankA}
    ELSE IF r \in {"BURNER", "UNWRAPPER", "BRIDGE_ECOSYSTEM_CONTRACT"} THEN {}
    ELSE IF r = "PAUSER" /\ c = SC THEN {} ELSE {bankA}]]
GovernanceRoleChanges == {<<RL, "ADMIN", bankA>>, <<RL, "ADMIN", bankB>>}
=============================================================================
