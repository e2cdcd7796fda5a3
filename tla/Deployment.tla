----------------------------- MODULE Deployment -----------------------------
(***************************************************************************)
(* The deployment scripts (contracts/scripts, contracts/deploy-to-besu.sh).*)
(* forge runs a script on a fork of the chain first; if every transaction  *)
(* of it succeeds there, it broadcasts them one after the other, with the  *)
(* arguments the fork gave. In between, other users of the chain go on and *)
(* the script may die. `chain` is what is deployed, `run` is the script at *)
(* work, and each broadcast transaction is a step.                         *)
(***************************************************************************)
EXTENDS Integers, Sequences, FiniteSets

CONSTANTS
    Coins,          \* the stablecoins of the instance
    Registry, RL, TA, Zero,
    PolicyAdmin,    \* TokenConfig.policyAdmin
    DemoIssuer,     \* BANK_A of DeployDemo
    People,         \* the accounts of persons and banks
    Config,         \* Config[c]: the HandoverConfig the scripts are given for c
    Offered,        \* bound: the <<script, coin, signer>> that may be started
    MaxStarts,      \* bound: how often a script is started
    MaxCrashes,     \* bound: how often one dies
    MaxElsewhere,   \* bound: policies created by other users of the registry
    MaxIssued       \* bound: reserve tokens in circulation

None == "none"
Token == {RL} \cup Coins
Proxied == Token \cup {TA}

\* The address of the n-th handler deployed for a coin: every `new` makes another.
handlerOf(c, n) == <<c, n>>
Handlers == Coins \X (1 .. MaxStarts)
Account == People \cup Proxied \cup Handlers \cup {Zero}

Role == {"ADMIN", "MINTER", "PAUSER", "UNPAUSER", "BLOCKED_ADDRESS_BURNER",
         "MINT_RATE_LIMIT_SETTER", "TOKEN_AUTHORITY_HANDLER_SETTER"}
Script == {"DeployAuthRegistry", "DeployReserveLedger", "DeployTokenAuthority",
           "DeployStablecoin", "ConfigureAndHandover", "DeployAll", "DeployDemo"}
FirstPolicyId == 2

HandoverConfig ==
    [txnMintLimit : Nat, minterAllowance : Nat, rlMaxSupply : Nat, stablecoinMaxSupply : Nat,
     minterAddress : People, pauserAddress : People, unpauserAddress : People,
     blockedAddressBurnerAddress : People,
     rlAdmin : People, stablecoinAdmin : People, tokenAuthorityAdmin : People]

ASSUME DeploymentAssumption ==
    /\ {PolicyAdmin, DemoIssuer} \subseteq People
    /\ {Registry, RL, TA, Zero} \cap (People \cup Coins) = {} /\ People \cap Coins = {}
    /\ Cardinality({Registry, RL, TA, Zero}) = 4
    /\ Handlers \cap (People \cup Proxied \cup {Registry, Zero, None}) = {}
    /\ Config \in [Coins -> HandoverConfig]
    /\ Offered \subseteq Script \X Coins \X People
    /\ {MaxStarts, MaxCrashes, MaxElsewhere, MaxIssued} \subseteq Nat

\* The coin of deploy-to-besu.sh.
DemoCoin(c) == <<"DeployDemo", c, DemoIssuer>> \in Offered

\* The constants of deploy(): Bank A administers the policies and keeps the contracts.
\* The demo's token is put on its chain by no other script.
DemoDeployment ==
    /\ PolicyAdmin = DemoIssuer
    /\ \A c \in Coins : DemoCoin(c) =>
           /\ Config[c].rlAdmin = DemoIssuer /\ Config[c].stablecoinAdmin = DemoIssuer
           /\ Config[c].tokenAuthorityAdmin = DemoIssuer
    /\ \A o \in Offered : o[1] \in {"DeployStablecoin", "DeployAll"} => ~DemoCoin(o[2])

VARIABLES
    chain,          \* the contracts, a record of the parts of them a script touches
    run,            \* the script at work or the last one: which, for what, how far
    bounds,         \* what the instance has used up of its bounds
    published,      \* deploy-to-besu.sh has ended well and the services start
    raced           \* a policy was made between a simulation and its createPolicy

vars == <<chain, run, bounds, published, raced>>

-----------------------------------------------------------------------------
(* The transactions of the scripts.                                         *)

create(what) == [op |-> "create", on |-> what]
createPolicy == [op |-> "createPolicy", on |-> Registry]
proxy(token, transferId, mintId) ==
    [op |-> "proxy", on |-> token, transferId |-> transferId, mintId |-> mintId]
grantRole(on, role, who) == [op |-> "grantRole", on |-> on, role |-> role, who |-> who]
renounceRole(on, role) == [op |-> "renounceRole", on |-> on, role |-> role]
transferOwnership(on, who) == [op |-> "transferOwnership", on |-> on, who |-> who]
setMaxSupply(on, amount) == [op |-> "setMaxSupply", on |-> on, amount |-> amount]
registerStablecoin(c, h, limit) ==
    [op |-> "registerStablecoin", on |-> TA, coin |-> c, handler |-> h, limit |-> limit]
setMinterAllowance(c, minter, amount) ==
    [op |-> "setMinterAllowance", on |-> TA, coin |-> c, who |-> minter, amount |-> amount]
modifyPolicyWhitelist(id, who) ==
    [op |-> "modifyPolicyWhitelist", on |-> Registry, id |-> id, who |-> who]

\* The policy a token reads under an id, and whether there is one.
PolicyOf(ch, id) == ch.policies[id - FirstPolicyId + 1]
PolicyExists(ch, id) == id - FirstPolicyId + 1 \in DOMAIN ch.policies
NextPolicyId(ch) == FirstPolicyId + Len(ch.policies)

isAdmin(ch, by, on) == by \in ch.role[on]["ADMIN"]

CapIgnoringSupply(ch, tx) == TRUE
CapAboveSupply(ch, tx) == tx.amount >= ch.supply[tx.on]

\* The transaction, signed by the account `by`, does not revert. A contract is
\* created once at its address: CREATE2 with a fixed salt finds the address
\* taken. The last admin of a token cannot leave; of TokenAuthority it can.
Accepts(ch, by, tx) ==
    CASE tx.op = "create" -> tx.on \notin ch.code
      [] tx.op = "proxy" -> tx.on \notin ch.code /\ Registry \in ch.code
      [] tx.op = "createPolicy" -> Registry \in ch.code
      [] tx.op = "grantRole" -> tx.on \in ch.code /\ isAdmin(ch, by, tx.on)
      [] tx.op = "renounceRole" ->
             tx.role = "ADMIN" /\ tx.on \in Token => Cardinality(ch.role[tx.on]["ADMIN"]) > 1
      [] tx.op = "transferOwnership" -> ch.owner[tx.on] = by
      [] tx.op = "setMaxSupply" -> isAdmin(ch, by, tx.on) /\ CapAboveSupply(ch, tx)
      [] tx.op = "registerStablecoin" ->
             /\ by \in ch.role[TA]["TOKEN_AUTHORITY_HANDLER_SETTER"]
             /\ ch.handler[tx.coin] = None
             /\ tx.handler \in ch.code
      [] tx.op = "setMinterAllowance" -> by \in ch.role[TA]["MINT_RATE_LIMIT_SETTER"]
      [] OTHER -> \* modifyPolicyWhitelist
             PolicyExists(ch, tx.id) /\ PolicyOf(ch, tx.id).admin = by

\* A proxy is initialised in the transaction that creates it: the signer is
\* its admin and owner, and a token starts with no room under its cap.
WithAdmin(roles, by) == [roles EXCEPT !["ADMIN"] = @ \cup {by}]
Created(ch, by, contract) ==
    [ch EXCEPT !.code = @ \cup {contract},
               !.role = [t \in Proxied |-> IF t = contract THEN WithAdmin(@[t], by) ELSE @[t]]]
Initialised(ch, by, tx) ==
    [Created(ch, by, tx.on) EXCEPT !.owner[tx.on] = by,
                               !.transferPolicyId[tx.on] = tx.transferId,
                               !.mintRecipientPolicyId[tx.on] = tx.mintId]
WithPolicy(ch, admin) ==
    [ch EXCEPT !.policies = Append(@, [admin |-> admin, member |-> {}])]

Effect(ch, by, tx) ==
    CASE tx.op = "create" -> Created(ch, by, tx.on)
      [] tx.op = "proxy" -> Initialised(ch, by, tx)
      [] tx.op = "createPolicy" -> WithPolicy(ch, PolicyAdmin)
      [] tx.op = "grantRole" -> [ch EXCEPT !.role[tx.on][tx.role] = @ \cup {tx.who}]
      [] tx.op = "renounceRole" -> [ch EXCEPT !.role[tx.on][tx.role] = @ \ {by}]
      [] tx.op = "transferOwnership" -> [ch EXCEPT !.owner[tx.on] = tx.who]
      [] tx.op = "setMaxSupply" -> [ch EXCEPT !.maxSupply[tx.on] = tx.amount]
      [] tx.op = "registerStablecoin" ->
             [ch EXCEPT !.handler[tx.coin] = tx.handler, !.txnMintLimit[tx.coin] = tx.limit]
      [] tx.op = "setMinterAllowance" ->
             [ch EXCEPT !.minterAllowance[tx.coin][tx.who] = tx.amount]
      [] OTHER -> \* modifyPolicyWhitelist
             [ch EXCEPT !.policies[tx.id - FirstPolicyId + 1].member = @ \cup {tx.who}]

-----------------------------------------------------------------------------
(* The scripts. `id` is the first policy id the fork handed out.            *)

\* The implementation contracts, which hold no state, are left out.
DeployReserveLedger(id) == <<createPolicy, createPolicy, proxy(RL, id, id + 1)>>
StablecoinPoliciesSwapped(c, transferId, id) ==
    <<createPolicy, proxy(c, id, transferId)>>
DeployStablecoin(c, transferId, id) == <<createPolicy, proxy(c, transferId, id)>>

ConfigureRoles(c) ==
    <<grantRole(RL, "MINTER", TA), grantRole(c, "MINTER", TA),
      grantRole(c, "PAUSER", Config[c].pauserAddress),
      grantRole(c, "UNPAUSER", Config[c].unpauserAddress),
      grantRole(c, "BLOCKED_ADDRESS_BURNER", Config[c].blockedAddressBurnerAddress)>>

RegisterBeforeGrants(c, h, by) ==
    <<grantRole(TA, "TOKEN_AUTHORITY_HANDLER_SETTER", by),
      registerStablecoin(c, h, Config[c].txnMintLimit),
      grantRole(RL, "MINTER", h), grantRole(c, "MINTER", h)>>
RegisterStablecoin(c, h, by) ==
    <<grantRole(RL, "MINTER", h), grantRole(c, "MINTER", h),
      grantRole(TA, "TOKEN_AUTHORITY_HANDLER_SETTER", by),
      registerStablecoin(c, h, Config[c].txnMintLimit)>>

ConfigureLimits(c, by) ==
    <<grantRole(TA, "MINT_RATE_LIMIT_SETTER", by),
      setMinterAllowance(c, Config[c].minterAddress, Config[c].minterAllowance)>>

MaxSupplySwapped(c) ==
    <<setMaxSupply(RL, Config[c].stablecoinMaxSupply), setMaxSupply(c, Config[c].rlMaxSupply)>>
ConfigureMaxSupply(c) ==
    <<setMaxSupply(RL, Config[c].rlMaxSupply), setMaxSupply(c, Config[c].stablecoinMaxSupply)>>

\* The signer leaves a contract that somebody else administers from now on.
Renounce(by, on, admin, roles) ==
    IF admin = by THEN <<>>
    ELSE [i \in DOMAIN roles |-> renounceRole(on, roles[i])]

SettersTo(admin) ==
    <<grantRole(TA, "MINT_RATE_LIMIT_SETTER", admin),
      grantRole(TA, "TOKEN_AUTHORITY_HANDLER_SETTER", admin)>>
TokenAuthorityTo(admin) == <<grantRole(TA, "ADMIN", admin)>> \o SettersTo(admin)

Handover(c, by) ==
    <<grantRole(RL, "ADMIN", Config[c].rlAdmin), transferOwnership(RL, Config[c].rlAdmin),
      grantRole(c, "ADMIN", Config[c].stablecoinAdmin),
      transferOwnership(c, Config[c].stablecoinAdmin)>>
    \o TokenAuthorityTo(Config[c].tokenAuthorityAdmin)
    \o Renounce(by, TA, Config[c].tokenAuthorityAdmin,
                <<"TOKEN_AUTHORITY_HANDLER_SETTER", "MINT_RATE_LIMIT_SETTER", "ADMIN">>)
    \o Renounce(by, RL, Config[c].rlAdmin, <<"ADMIN">>)
    \o Renounce(by, c, Config[c].stablecoinAdmin, <<"ADMIN">>)

LimitsSupplyHandover(c, by) ==
    ConfigureLimits(c, by) \o ConfigureMaxSupply(c) \o Handover(c, by)

SharedMintPolicy(id) == id + 1
\* In DeployAll the stablecoin's mint policy is the third one made.
StablecoinMintPolicy(id) == id + 2

DeployAll(c, id, h, by) ==
    <<create(Registry)>> \o DeployReserveLedger(id) \o <<create(TA), create(h)>>
    \o DeployStablecoin(c, id, StablecoinMintPolicy(id))
    \o ConfigureRoles(c) \o RegisterStablecoin(c, h, by) \o LimitsSupplyHandover(c, by)

WhitelistingForTransfers(c, id, h, by) ==
    <<modifyPolicyWhitelist(id, Zero), modifyPolicyWhitelist(id, c),
      modifyPolicyWhitelist(id, h), modifyPolicyWhitelist(id, TA),
      modifyPolicyWhitelist(id, by)>>
\* deploy(): everyone the tokens pass through, then the handler as RL recipient.
Whitelisting(c, id, h, by) ==
    <<modifyPolicyWhitelist(id, Zero), modifyPolicyWhitelist(id, c),
      modifyPolicyWhitelist(id, h), modifyPolicyWhitelist(id, TA),
      modifyPolicyWhitelist(id, by), modifyPolicyWhitelist(id + 1, h)>>

Transactions(r) ==
    CASE r.script = "DeployAuthRegistry" -> <<create(Registry)>>
      [] r.script = "DeployReserveLedger" -> DeployReserveLedger(r.id)
      [] r.script = "DeployTokenAuthority" -> <<create(TA)>>
      [] r.script = "DeployStablecoin" -> DeployStablecoin(r.coin, r.transferId, r.id)
      [] r.script = "ConfigureAndHandover" ->
             ConfigureRoles(r.coin) \o <<create(r.handler)>>
             \o RegisterStablecoin(r.coin, r.handler, r.by)
             \o LimitsSupplyHandover(r.coin, r.by)
      [] r.script = "DeployAll" -> DeployAll(r.coin, r.id, r.handler, r.by)
      [] OTHER -> \* DeployDemo
             DeployAll(r.coin, r.id, r.handler, r.by) 
             \o Whitelisting(r.coin, r.id, r.handler, r.by)

\* requireDeployed.
Required(r) ==
    CASE r.script = "DeployReserveLedger" -> {Registry}
      [] r.script = "DeployTokenAuthority" -> {RL}
      [] r.script = "DeployStablecoin" -> {Registry, RL}
      [] r.script = "ConfigureAndHandover" -> {RL, TA, r.coin}
      [] OTHER -> {}

\* The run on the fork: whether every transaction succeeds on what the ones
\* before left, and what they come to.
Fork(ch, r) ==
    LET txs == Transactions(r)
        fork[i \in 0 .. Len(txs)] ==
            IF i = 0
            THEN [ok |-> TRUE, ch |-> ch]
            ELSE LET before == fork[i - 1]
                     ok == before.ok /\ Accepts(before.ch, r.by, txs[i])
                 IN  [ok |-> ok, ch |-> IF ok THEN Effect(before.ch, r.by, txs[i]) ELSE ch]
    IN  fork[Len(txs)]

\* The requires at the head of a script, then its transactions.
Simulates(ch, r) ==
    /\ Required(r) \subseteq ch.code
    /\ r.script = "DeployDemo" => r.by = DemoIssuer
    /\ Fork(ch, r).ok

-----------------------------------------------------------------------------
InitChain ==
    [code |-> {}, policies |-> <<>>,
     role |-> [t \in Proxied |-> [r \in Role |-> {}]],
     owner |-> [t \in Token |-> None],
     maxSupply |-> [t \in Token |-> 0], supply |-> [t \in Token |-> 0],
     transferPolicyId |-> [t \in Token |-> 0], mintRecipientPolicyId |-> [t \in Token |-> 0],
     handler |-> [c \in Coins |-> None], txnMintLimit |-> [c \in Coins |-> 0],
     minterAllowance |-> [c \in Coins |-> [p \in People |-> 0]]]

\* The genesis chain, which holds the CREATE2 deployer and nothing else.
Init ==
    /\ chain = InitChain
    /\ run = [status |-> "idle"]
    /\ bounds = [starts |-> 0, crashes |-> 0, elsewhere |-> 0]
    /\ published = FALSE /\ raced = FALSE

running == run.status = "running"

\* bound: a second run of 03 makes another TokenAuthority, which the instance has
\* no name for (its proxy is not at a CREATE2 address, so the run succeeds).
OneAuthority(script) == script = "DeployTokenAuthority" => TA \notin chain.code

NewRun(script, c, by) ==
    [status |-> "running", script |-> script, coin |-> c, by |-> by, at |-> 1,
     id |-> NextPolicyId(chain), transferId |-> chain.transferPolicyId[RL],
     handler |-> handlerOf(c, bounds.starts + 1)]

\* The operator starts a script, and the run on the fork goes through.
Start(script, c, by) ==
    /\ ~running
    /\ bounds.starts < MaxStarts
    /\ OneAuthority(script)
    /\ Simulates(chain, NewRun(script, c, by))
    /\ run' = NewRun(script, c, by)
    /\ bounds' = [bounds EXCEPT !.starts = @ + 1]
    /\ UNCHANGED <<chain, published, raced>>

\* The run on the fork reverts, and nothing is broadcast.
Refuse(script, c, by) ==
    /\ ~running
    /\ bounds.starts < MaxStarts
    /\ OneAuthority(script)
    /\ ~Simulates(chain, NewRun(script, c, by))
    /\ run' = [NewRun(script, c, by) EXCEPT !.status = "refused"]
    /\ UNCHANGED <<chain, bounds, published, raced>>

\* deploy-to-besu.sh finds code at the address of the deposit token.
Skip(c) ==
    /\ ~running
    /\ DemoCoin(c)
    /\ c \in chain.code
    /\ published' = TRUE
    /\ UNCHANGED <<chain, run, bounds, raced>>

NextTransaction == Transactions(run)[run.at]

Broadcast ==
    /\ running
    /\ run.at <= Len(Transactions(run))
    /\ Accepts(chain, run.by, NextTransaction)
    /\ chain' = Effect(chain, run.by, NextTransaction)
    /\ run' = [run EXCEPT !.at = @ + 1]
    /\ UNCHANGED <<bounds, published, raced>>

\* The chain has moved on since the fork: forge stops at the failed transaction.
BroadcastReverts ==
    /\ running
    /\ run.at <= Len(Transactions(run))
    /\ ~Accepts(chain, run.by, NextTransaction)
    /\ run' = [run EXCEPT !.status = "reverted"]
    /\ UNCHANGED <<chain, bounds, published, raced>>

Finish ==
    /\ running
    /\ run.at > Len(Transactions(run))
    /\ run' = [run EXCEPT !.status = "done"]
    /\ published' = (published \/ run.script = "DeployDemo")
    /\ UNCHANGED <<chain, bounds, raced>>

\* The container or the connection dies between two transactions.
Crash ==
    /\ running
    /\ bounds.crashes < MaxCrashes
    /\ run' = [run EXCEPT !.status = "crashed"]
    /\ bounds' = [bounds EXCEPT !.crashes = @ + 1]
    /\ UNCHANGED <<chain, published, raced>>

\* Anyone may create a policy in the registry; here, one of their own.
CreatePolicyElsewhere(who) ==
    /\ bounds.elsewhere < MaxElsewhere
    /\ Registry \in chain.code
    /\ chain' = WithPolicy(chain, who)
    /\ bounds' = [bounds EXCEPT !.elsewhere = @ + 1]
    /\ raced' = (raced \/ (running /\
           \E i \in run.at .. Len(Transactions(run)) : Transactions(run)[i].op = "createPolicy"))
    /\ UNCHANGED <<run, published>>

\* What TokenAuthority.mint needs of a deployment, policies and amounts apart.
Configured(ch, c) ==
    /\ ch.handler[c] # None
    /\ \A t \in {RL, c} : ch.handler[c] \in ch.role[t]["MINTER"]

AllowanceUnchecked(c) == TRUE
AllowanceLeft(c) == chain.minterAllowance[c][Config[c].minterAddress] >= 1

\* The minter of a coin in operation issues one token. Coins go into operation
\* after their own script is through.
Issue(c) ==
    /\ Configured(chain, c)
    /\ ~(running /\ run.coin = c)
    /\ chain.supply[RL] < chain.maxSupply[RL]
    /\ chain.supply[RL] < MaxIssued
    /\ chain.txnMintLimit[c] >= 1
    /\ AllowanceLeft(c)
    /\ chain' = [chain EXCEPT !.supply[RL] = @ + 1, !.supply[c] = @ + 1,
                              !.minterAllowance[c][Config[c].minterAddress] = @ - 1]
    /\ UNCHANGED <<run, bounds, published, raced>>

Next ==
    \/ \E o \in Offered : Start(o[1], o[2], o[3]) \/ Refuse(o[1], o[2], o[3])
    \/ \E c \in Coins : Skip(c) \/ Issue(c)
    \/ Broadcast
    \/ BroadcastReverts
    \/ Finish
    \/ Crash
    \/ \E who \in People \ {PolicyAdmin} : CreatePolicyElsewhere(who)

Spec == Init /\ [][Next]_vars

-----------------------------------------------------------------------------
Contract == {Registry} \cup Proxied \cup Handlers

Chain ==
    [code : SUBSET Contract,
     policies : Seq([admin : People, member : SUBSET Account]),
     role : [Proxied -> [Role -> SUBSET Account]],
     owner : [Token -> People \cup {None}],
     maxSupply : [Token -> Nat], supply : [Token -> Nat],
     transferPolicyId : [Token -> Nat], mintRecipientPolicyId : [Token -> Nat],
     handler : [Coins -> Handlers \cup {None}], txnMintLimit : [Coins -> Nat],
     minterAllowance : [Coins -> [People -> Nat]]]

Run ==
    [status : {"idle"}] \cup
    [status : {"running", "done", "reverted", "refused", "crashed"}, script : Script,
     coin : Coins, by : People, at : Nat \ {0}, id : Nat, transferId : Nat, handler : Handlers]

Transaction ==
    [op : {"create"}, on : Contract] \cup
    [op : {"createPolicy"}, on : {Registry}] \cup
    [op : {"proxy"}, on : Token, transferId : Nat, mintId : Nat] \cup
    [op : {"grantRole"}, on : Proxied, role : Role, who : Account] \cup
    [op : {"renounceRole"}, on : Proxied, role : Role] \cup
    [op : {"transferOwnership"}, on : Token, who : People] \cup
    [op : {"setMaxSupply"}, on : Token, amount : Nat] \cup
    [op : {"registerStablecoin"}, on : {TA}, coin : Coins, handler : Handlers, limit : Nat] \cup
    [op : {"setMinterAllowance"}, on : {TA}, coin : Coins, who : People, amount : Nat] \cup
    [op : {"modifyPolicyWhitelist"}, on : {Registry}, id : Nat, who : Account]

\* Supplies and allowances are natural numbers: nothing is issued that was not
\* allowed, whenever a script sets the allowance.
TypeOK ==
    /\ chain \in Chain
    /\ run \in Run
    /\ bounds \in [starts : 0 .. MaxStarts, crashes : 0 .. MaxCrashes,
                   elsewhere : 0 .. MaxElsewhere]
    /\ published \in BOOLEAN /\ raced \in BOOLEAN

\* No script loses a contract: wherever a handover stops, each deployed proxy has
\* an admin. TokenAuthority, unlike the tokens, would let its last admin leave.
AlwaysAdministered ==
    \A t \in Proxied : t \in chain.code => chain.role[t]["ADMIN"] # {}

\* The handler of a registered coin may mint on both tokens, also when the script
\* died right after registerStablecoin: a mint of the coin's can then fail for a limit,
\* an allowance or a cap that is not set yet, but not inside the handler for a role.
RegisteredCanMint ==
    \A c \in Coins : chain.handler[c] # None => Configured(chain, c)

\* The reserve ledger keeps its cap although every new coin sets it again, from a
\* fork that is older than the tokens issued since.
CapHolds == chain.supply[RL] <= chain.maxSupply[RL]

\* The ids baked into a token's initialisation are those of policies made for it:
\* administered by the policy admin, mint policies of its own, one transfer policy
\* for all. A policy made by somebody else after the simulation shifts them.
OwnPolicies ==
    ~raced =>
        \A t \in Token : t \in chain.code =>
            /\ PolicyExists(chain, chain.transferPolicyId[t])
            /\ PolicyExists(chain, chain.mintRecipientPolicyId[t])
            /\ PolicyOf(chain, chain.transferPolicyId[t]).admin = PolicyAdmin
            /\ PolicyOf(chain, chain.mintRecipientPolicyId[t]).admin = PolicyAdmin
            /\ chain.transferPolicyId[t] = chain.transferPolicyId[RL]
            /\ \A u \in Token : u \in chain.code /\ u # t =>
                   chain.mintRecipientPolicyId[t] # chain.mintRecipientPolicyId[u]

\* 06_Verify, as asked for one coin with the environment the script was given.
Renounced(on, admin, roles) ==
    admin # run.by => \A r \in roles : run.by \notin chain.role[on][r]

VerifiedReserveLedger(c) ==
    /\ chain.transferPolicyId[RL] > 1 /\ chain.mintRecipientPolicyId[RL] > 1
    /\ Config[c].rlAdmin \in chain.role[RL]["ADMIN"]
    /\ chain.owner[RL] = Config[c].rlAdmin
    /\ TA \in chain.role[RL]["MINTER"]
    /\ chain.maxSupply[RL] = Config[c].rlMaxSupply

VerifiedStablecoin(c) ==
    /\ chain.transferPolicyId[c] > 1 /\ chain.mintRecipientPolicyId[c] > 1
    /\ Config[c].stablecoinAdmin \in chain.role[c]["ADMIN"]
    /\ chain.owner[c] = Config[c].stablecoinAdmin
    /\ TA \in chain.role[c]["MINTER"]
    /\ Config[c].pauserAddress \in chain.role[c]["PAUSER"]
    /\ Config[c].unpauserAddress \in chain.role[c]["UNPAUSER"]
    /\ Config[c].blockedAddressBurnerAddress \in chain.role[c]["BLOCKED_ADDRESS_BURNER"]
    /\ chain.maxSupply[c] = Config[c].stablecoinMaxSupply

AuthorityRoles == {"ADMIN", "MINT_RATE_LIMIT_SETTER", "TOKEN_AUTHORITY_HANDLER_SETTER"}
VerifiedTokenAuthority(c) ==
    /\ \A r \in AuthorityRoles : Config[c].tokenAuthorityAdmin \in chain.role[TA][r]
    /\ chain.handler[c] # None
    /\ chain.txnMintLimit[c] = Config[c].txnMintLimit
    /\ chain.minterAllowance[c][Config[c].minterAddress] = Config[c].minterAllowance

VerifiedRenunciation(c) ==
    /\ Renounced(RL, Config[c].rlAdmin, {"ADMIN"})
    /\ Renounced(c, Config[c].stablecoinAdmin, {"ADMIN"})
    /\ Renounced(TA, Config[c].tokenAuthorityAdmin, AuthorityRoles)

Verified(c) ==
    /\ {Registry, RL, TA, c} \subseteq chain.code
    /\ VerifiedReserveLedger(c) /\ VerifiedStablecoin(c)
    /\ VerifiedTokenAuthority(c) /\ VerifiedRenunciation(c)

\* A script that configures a coin and comes to its end has done what 06_Verify
\* asks for, whatever earlier runs left behind and whoever transacts in between.
FinishedIsVerified ==
    [][(running /\ run'.status = "done"
          /\ run.script \in {"ConfigureAndHandover", "DeployAll", "DeployDemo"})
       => Verified(run.coin)]_vars

\* The demo's coin can be minted and moved through the handler as far as roles and
\* policies go; caps, limits and the allowance are FinishedIsVerified's subject.
Usable(c) ==
    /\ Configured(chain, c)
    /\ {Zero, c, chain.handler[c]} \subseteq PolicyOf(chain, chain.transferPolicyId[RL]).member
    /\ chain.handler[c] \in PolicyOf(chain, chain.mintRecipientPolicyId[RL]).member

\* deploy-to-besu.sh: the services start on a chain whose roles and policies let
\* Bank A's mints through, if no run of the script died half-way and no policy was made
\* under it.
UndisturbedDemoIsUsable ==
    published /\ bounds.crashes = 0 /\ ~raced =>
        \E c \in Coins : DemoCoin(c) /\ c \in chain.code /\ Usable(c)

\* deploy-to-besu.sh:25-28 takes code at the token's address for a deployment that
\* is complete, and calls a re-run safe.
RerunIsSafe ==
    ~raced => (published =>
        \A c \in Coins : DemoCoin(c) /\ c \in chain.code => Usable(c))
=============================================================================
