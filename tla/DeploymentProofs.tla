-------------------------- MODULE DeploymentProofs --------------------------
(***************************************************************************)
(* What the deployment scripts leave true between any two transactions,    *)
(* for any coins, configurations, signers and bounds.                      *)
(***************************************************************************)
EXTENDS Deployment, SequenceTheorems, TLAPS

-----------------------------------------------------------------------------
(* The scripts are sequences of transactions.                               *)

\* A coin's configuration names people and numbers.
LEMMA ConfigTyped ==
    ASSUME NEW c \in Coins
    PROVE  Config[c] \in HandoverConfig
BY DeploymentAssumption

\* The transactions the scripts send have the parameters of their operation: a grant,
LEMMA GrantTyped ==
    ASSUME NEW on \in Proxied, NEW role \in Role, NEW who \in Account
    PROVE  grantRole(on, role, who) \in Transaction
BY DEF grantRole, Transaction

\* a contract creation,
LEMMA CreateTyped ==
    ASSUME NEW what \in Contract
    PROVE  create(what) \in Transaction
BY DEF create, Transaction

\* a change of a whitelist,
LEMMA WhitelistTyped ==
    ASSUME NEW id \in Nat, NEW who \in Account
    PROVE  modifyPolicyWhitelist(id, who) \in Transaction
BY DEF modifyPolicyWhitelist, Transaction

\* those of 02_DeployReserveLedger,
LEMMA ReserveLedgerTyped ==
    ASSUME NEW id \in Nat
    PROVE  DeployReserveLedger(id) \in Seq(Transaction)
<1>1. createPolicy \in Transaction
  BY DEF createPolicy, Transaction
<1>2. proxy(RL, id, id + 1) \in Transaction
  BY DEF proxy, Transaction, Token
<1> QED  BY <1>1, <1>2 DEF DeployReserveLedger

\* of 04_DeployStablecoin,
LEMMA StablecoinTyped ==
    ASSUME NEW c \in Coins, NEW transferId \in Nat, NEW id \in Nat
    PROVE  DeployStablecoin(c, transferId, id) \in Seq(Transaction)
<1>1. createPolicy \in Transaction
  BY DEF createPolicy, Transaction
<1>2. proxy(c, transferId, id) \in Transaction
  BY DEF proxy, Transaction, Token
<1> QED  BY <1>1, <1>2 DEF DeployStablecoin

\* of the roles TokenAuthority needs,
LEMMA ConfigureRolesTyped ==
    ASSUME NEW c \in Coins
    PROVE  ConfigureRoles(c) \in Seq(Transaction)
<1>1. /\ grantRole(RL, "MINTER", TA) \in Transaction
      /\ grantRole(c, "MINTER", TA) \in Transaction
      /\ grantRole(c, "PAUSER", Config[c].pauserAddress) \in Transaction
      /\ grantRole(c, "UNPAUSER", Config[c].unpauserAddress) \in Transaction
      /\ grantRole(c, "BLOCKED_ADDRESS_BURNER", Config[c].blockedAddressBurnerAddress)
             \in Transaction
  BY GrantTyped, ConfigTyped DEF HandoverConfig, Proxied, Token, Account, Role
<1> QED  BY <1>1 DEF ConfigureRoles

\* of the registration of a stablecoin,
LEMMA RegisterTyped ==
    ASSUME NEW c \in Coins, NEW h \in Handlers, NEW by \in People
    PROVE  RegisterStablecoin(c, h, by) \in Seq(Transaction)
<1>1. /\ grantRole(RL, "MINTER", h) \in Transaction
      /\ grantRole(c, "MINTER", h) \in Transaction
      /\ grantRole(TA, "TOKEN_AUTHORITY_HANDLER_SETTER", by) \in Transaction
  BY GrantTyped DEF Proxied, Token, Account, Role
<1>2. registerStablecoin(c, h, Config[c].txnMintLimit) \in Transaction
  BY ConfigTyped DEF HandoverConfig, registerStablecoin, Transaction
<1> QED  BY <1>1, <1>2 DEF RegisterStablecoin

\* of the limits,
LEMMA LimitsTyped ==
    ASSUME NEW c \in Coins, NEW by \in People
    PROVE  ConfigureLimits(c, by) \in Seq(Transaction)
<1>1. grantRole(TA, "MINT_RATE_LIMIT_SETTER", by) \in Transaction
  BY GrantTyped DEF Proxied, Account, Role
<1>2. setMinterAllowance(c, Config[c].minterAddress, Config[c].minterAllowance) \in Transaction
  BY ConfigTyped DEF HandoverConfig, setMinterAllowance, Transaction
<1> QED  BY <1>1, <1>2 DEF ConfigureLimits

\* of the maximal supplies,
LEMMA MaxSupplyTyped ==
    ASSUME NEW c \in Coins
    PROVE  ConfigureMaxSupply(c) \in Seq(Transaction)
<1>1. /\ setMaxSupply(RL, Config[c].rlMaxSupply) \in Transaction
      /\ setMaxSupply(c, Config[c].stablecoinMaxSupply) \in Transaction
  BY ConfigTyped DEF HandoverConfig, setMaxSupply, Transaction, Token
<1> QED  BY <1>1 DEF ConfigureMaxSupply

\* of the renounced roles,
LEMMA RenounceTyped ==
    ASSUME NEW by, NEW on \in Proxied, NEW admin, NEW roles \in Seq(Role)
    PROVE  Renounce(by, on, admin, roles) \in Seq(Transaction)
<1>1. \A i \in DOMAIN roles : renounceRole(on, roles[i]) \in Transaction
  BY DEF renounceRole, Transaction
<1>2. [i \in DOMAIN roles |-> renounceRole(on, roles[i])] \in Seq(Transaction)
  BY <1>1
<1> QED  BY <1>2 DEF Renounce

\* of the handover of TokenAuthority,
LEMMA AuthorityToTyped ==
    ASSUME NEW admin \in People
    PROVE  TokenAuthorityTo(admin) \in Seq(Transaction)
<1>1. /\ grantRole(TA, "ADMIN", admin) \in Transaction
      /\ grantRole(TA, "MINT_RATE_LIMIT_SETTER", admin) \in Transaction
      /\ grantRole(TA, "TOKEN_AUTHORITY_HANDLER_SETTER", admin) \in Transaction
  BY GrantTyped DEF Proxied, Account, Role
<1> QED  BY <1>1 DEF TokenAuthorityTo, SettersTo

\* of the whole handover,
LEMMA HandoverTyped ==
    ASSUME NEW c \in Coins, NEW by \in People
    PROVE  Handover(c, by) \in Seq(Transaction)
<1> DEFINE tokens == <<grantRole(RL, "ADMIN", Config[c].rlAdmin),
                       transferOwnership(RL, Config[c].rlAdmin),
                       grantRole(c, "ADMIN", Config[c].stablecoinAdmin),
                       transferOwnership(c, Config[c].stablecoinAdmin)>>
           authority == TokenAuthorityTo(Config[c].tokenAuthorityAdmin)
           ofTA == Renounce(by, TA, Config[c].tokenAuthorityAdmin,
                       <<"TOKEN_AUTHORITY_HANDLER_SETTER", "MINT_RATE_LIMIT_SETTER", "ADMIN">>)
           ofRL == Renounce(by, RL, Config[c].rlAdmin, <<"ADMIN">>)
           ofCoin == Renounce(by, c, Config[c].stablecoinAdmin, <<"ADMIN">>)
<1>0. RL \in Proxied /\ TA \in Proxied /\ c \in Proxied
  BY DEF Proxied, Token
<1>1. tokens \in Seq(Transaction)
  <2>1. /\ grantRole(RL, "ADMIN", Config[c].rlAdmin) \in Transaction
        /\ grantRole(c, "ADMIN", Config[c].stablecoinAdmin) \in Transaction
    BY <1>0, GrantTyped, ConfigTyped DEF HandoverConfig, Account, Role
  <2>2. /\ transferOwnership(RL, Config[c].rlAdmin) \in Transaction
        /\ transferOwnership(c, Config[c].stablecoinAdmin) \in Transaction
    BY ConfigTyped DEF HandoverConfig, transferOwnership, Transaction, Token
  <2> QED  BY <2>1, <2>2
<1>2. authority \in Seq(Transaction)
  BY AuthorityToTyped, ConfigTyped DEF HandoverConfig
<1>3. ofTA \in Seq(Transaction)
  <2>1. <<"TOKEN_AUTHORITY_HANDLER_SETTER", "MINT_RATE_LIMIT_SETTER", "ADMIN">> \in Seq(Role)
    BY DEF Role
  <2> QED  BY <1>0, <2>1, RenounceTyped
<1>4. ofRL \in Seq(Transaction) /\ ofCoin \in Seq(Transaction)
  <2>1. <<"ADMIN">> \in Seq(Role)
    BY DEF Role
  <2> QED  BY <1>0, <2>1, RenounceTyped
<1>5. Handover(c, by) = tokens \o authority \o ofTA \o ofRL \o ofCoin
  BY DEF Handover
<1> HIDE DEF tokens, authority, ofTA, ofRL, ofCoin
<1> QED  BY <1>1, <1>2, <1>3, <1>4, <1>5

\* of the steps the drivers end with,
LEMMA EndTyped ==
    ASSUME NEW c \in Coins, NEW by \in People
    PROVE  LimitsSupplyHandover(c, by) \in Seq(Transaction)
BY LimitsTyped, MaxSupplyTyped, HandoverTyped DEF LimitsSupplyHandover

\* of DeployAll,
LEMMA DeployAllTyped ==
    ASSUME NEW c \in Coins, NEW by \in People, NEW id \in Nat, NEW h \in Handlers
    PROVE  DeployAll(c, id, h, by) \in Seq(Transaction)
<1>1. <<create(Registry)>> \in Seq(Transaction) /\ <<create(TA), create(h)>> \in Seq(Transaction)
  <2>1. /\ create(Registry) \in Transaction /\ create(TA) \in Transaction
        /\ create(h) \in Transaction
    BY CreateTyped DEF Contract, Proxied
  <2> QED  BY <2>1
<1>2. StablecoinMintPolicy(id) \in Nat
  BY DEF StablecoinMintPolicy
<1>3. DeployStablecoin(c, id, StablecoinMintPolicy(id)) \in Seq(Transaction)
  BY <1>2, StablecoinTyped
<1> QED  BY <1>1, <1>3, ReserveLedgerTyped, ConfigureRolesTyped, RegisterTyped, EndTyped
         DEF DeployAll

\* of the demo's whitelisting,
LEMMA WhitelistingTyped ==
    ASSUME NEW c \in Coins, NEW by \in People, NEW id \in Nat, NEW h \in Handlers
    PROVE  Whitelisting(c, id, h, by) \in Seq(Transaction)
<1>1. \A who \in {Zero, c, h, TA, by} : modifyPolicyWhitelist(id, who) \in Transaction
  BY WhitelistTyped DEF Account, Proxied, Token
<1>2. modifyPolicyWhitelist(id + 1, h) \in Transaction
  BY WhitelistTyped DEF Account
<1> QED  BY <1>1, <1>2 DEF Whitelisting

\* A run that is at work.
Working == [status : {"running", "done", "reverted", "refused", "crashed"}, script : Script,
            coin : Coins, by : People, at : Nat \ {0}, id : Nat, transferId : Nat,
            handler : Handlers]

\* and so those of every script.
LEMMA TransactionsTyped ==
    ASSUME NEW r \in Working
    PROVE  Transactions(r) \in Seq(Transaction)
<1>0. /\ r.coin \in Coins /\ r.by \in People /\ r.id \in Nat /\ r.transferId \in Nat
      /\ r.handler \in Handlers /\ r.script \in Script
  BY DEF Working
<1>1. CASE r.script = "DeployAuthRegistry"
  <2>1. create(Registry) \in Transaction
    BY CreateTyped DEF Contract
  <2> QED  BY <1>1, <2>1 DEF Transactions
<1>2. CASE r.script = "DeployReserveLedger"
  BY <1>0, <1>2, ReserveLedgerTyped DEF Transactions
<1>3. CASE r.script = "DeployTokenAuthority"
  <2>1. create(TA) \in Transaction
    BY CreateTyped DEF Contract, Proxied
  <2> QED  BY <1>3, <2>1 DEF Transactions
<1>4. CASE r.script = "DeployStablecoin"
  BY <1>0, <1>4, StablecoinTyped DEF Transactions
<1>5. CASE r.script = "ConfigureAndHandover"
  <2>1. <<create(r.handler)>> \in Seq(Transaction)
    <3>1. create(r.handler) \in Transaction
      BY <1>0, CreateTyped DEF Contract
    <3> QED  BY <3>1
  <2>2. /\ ConfigureRoles(r.coin) \in Seq(Transaction)
        /\ RegisterStablecoin(r.coin, r.handler, r.by) \in Seq(Transaction)
        /\ LimitsSupplyHandover(r.coin, r.by) \in Seq(Transaction)
    BY <1>0, ConfigureRolesTyped, RegisterTyped, EndTyped
  <2>3. Transactions(r) = ConfigureRoles(r.coin) \o <<create(r.handler)>>
             \o RegisterStablecoin(r.coin, r.handler, r.by)
             \o LimitsSupplyHandover(r.coin, r.by)
    BY <1>5 DEF Transactions
  <2> QED  BY <2>1, <2>2, <2>3
<1>6. CASE r.script = "DeployAll"
  BY <1>0, <1>6, DeployAllTyped DEF Transactions
<1>7. CASE r.script = "DeployDemo"
  <2>1. Transactions(r) = DeployAll(r.coin, r.id, r.handler, r.by)
             \o Whitelisting(r.coin, r.id, r.handler, r.by)
    BY <1>7 DEF Transactions
  <2> QED  BY <1>0, <2>1, DeployAllTyped, WhitelistingTyped
<1> QED  BY <1>0, <1>1, <1>2, <1>3, <1>4, <1>5, <1>6, <1>7 DEF Script

-----------------------------------------------------------------------------
(* What a transaction does to the chain.                                    *)

\* The operation tells which parameters a transaction has.
LEMMA Parameters ==
    ASSUME NEW tx \in Transaction
    PROVE  /\ tx.op \in {"create", "createPolicy", "proxy", "grantRole", "renounceRole",
                         "transferOwnership", "setMaxSupply", "registerStablecoin",
                         "setMinterAllowance", "modifyPolicyWhitelist"}
           /\ tx.op = "create" => tx.on \in Contract
           /\ tx.op = "proxy" => tx.on \in Token /\ tx.transferId \in Nat /\ tx.mintId \in Nat
           /\ tx.op = "grantRole" =>
                  tx.on \in Proxied /\ tx.role \in Role /\ tx.who \in Account
           /\ tx.op = "renounceRole" => tx.on \in Proxied /\ tx.role \in Role
           /\ tx.op = "transferOwnership" => tx.on \in Token /\ tx.who \in People
           /\ tx.op = "setMaxSupply" => tx.on \in Token /\ tx.amount \in Nat
           /\ tx.op = "registerStablecoin" =>
                  tx.coin \in Coins /\ tx.handler \in Handlers /\ tx.limit \in Nat
           /\ tx.op = "setMinterAllowance" =>
                  tx.coin \in Coins /\ tx.who \in People /\ tx.amount \in Nat
           /\ tx.op = "modifyPolicyWhitelist" => tx.id \in Nat /\ tx.who \in Account
BY DEF Transaction

\* A creation changes no token's supply.
LEMMA CreatedTyped ==
    ASSUME NEW ch \in Chain, NEW by \in People, NEW contract \in Contract
    PROVE  /\ Created(ch, by, contract) \in Chain
           /\ Created(ch, by, contract).supply = ch.supply
           /\ Created(ch, by, contract).maxSupply = ch.maxSupply
<1> DEFINE roles == [t \in Proxied |->
                       IF t = contract THEN WithAdmin(ch.role[t], by) ELSE ch.role[t]]
           codes == ch.code \cup {contract}
<1>1. roles \in [Proxied -> [Role -> SUBSET Account]]
  <2>1. ASSUME NEW t \in Proxied
        PROVE  WithAdmin(ch.role[t], by) \in [Role -> SUBSET Account]
    BY DEF Chain, Role, Account, WithAdmin
  <2> QED  BY <2>1 DEF Chain
<1>2. codes \in SUBSET Contract
  BY DEF Chain
<1>3. Created(ch, by, contract) = [ch EXCEPT !.code = codes, !.role = roles]
  BY DEF Created, Chain
<1> HIDE DEF roles, codes
<1> QED  BY <1>1, <1>2, <1>3 DEF Chain

\* An accepted transaction changes no supply, and keeps it below its maximum.
LEMMA EffectTyped ==
    ASSUME NEW ch \in Chain, NEW by \in People, NEW tx \in Transaction, Accepts(ch, by, tx)
    PROVE  /\ Effect(ch, by, tx) \in Chain
           /\ Effect(ch, by, tx).supply = ch.supply
           /\ ch.supply[RL] <= ch.maxSupply[RL] =>
                  ch.supply[RL] <= Effect(ch, by, tx).maxSupply[RL]
<1>1. CASE tx.op = "create"
  BY <1>1, Parameters, CreatedTyped DEF Effect
<1>2. CASE tx.op = "proxy"
  <2>1. tx.on \in Contract /\ tx.on \in Token /\ tx.transferId \in Nat /\ tx.mintId \in Nat
    BY <1>2, Parameters DEF Contract, Proxied
  <2>2. PICK before \in Chain : before = Created(ch, by, tx.on)
    BY <2>1, CreatedTyped
  <2>3. before.supply = ch.supply /\ before.maxSupply = ch.maxSupply
    BY <2>1, <2>2, CreatedTyped
  <2> DEFINE owners == [before.owner EXCEPT ![tx.on] = by]
             transferIds == [before.transferPolicyId EXCEPT ![tx.on] = tx.transferId]
             mintIds == [before.mintRecipientPolicyId EXCEPT ![tx.on] = tx.mintId]
  <2>4. Effect(ch, by, tx) =
            [before EXCEPT !.owner = owners, !.transferPolicyId = transferIds,
                           !.mintRecipientPolicyId = mintIds]
    BY <1>2, <2>2 DEF Effect, Initialised, Chain
  <2>5. /\ owners \in [Token -> People \cup {None}]
        /\ transferIds \in [Token -> Nat] /\ mintIds \in [Token -> Nat]
    BY <2>1 DEF Chain
  <2> HIDE DEF owners, transferIds, mintIds
  <2> QED  BY <2>3, <2>4, <2>5 DEF Chain
<1>3. CASE tx.op = "createPolicy"
  <2>1. Effect(ch, by, tx) = [ch EXCEPT !.policies =
                                Append(ch.policies, [admin |-> PolicyAdmin, member |-> {}])]
    BY <1>3 DEF Effect, WithPolicy, Chain
  <2>2. Append(ch.policies, [admin |-> PolicyAdmin, member |-> {}])
            \in Seq([admin : People, member : SUBSET Account])
    BY DeploymentAssumption DEF Chain
  <2> QED  BY <2>1, <2>2 DEF Chain
<1>4. CASE tx.op = "grantRole"
  <2> DEFINE roles == [ch.role EXCEPT ![tx.on][tx.role] = @ \cup {tx.who}]
  <2>1. roles \in [Proxied -> [Role -> SUBSET Account]]
    <3>1. /\ tx.on \in Proxied /\ tx.role \in Role
          /\ ch.role[tx.on][tx.role] \cup {tx.who} \in SUBSET Account
      BY <1>4, Parameters DEF Chain
    <3> QED  BY <3>1 DEF Chain
  <2>2. Effect(ch, by, tx) = [ch EXCEPT !.role = roles]
    BY <1>4 DEF Effect, Chain
  <2> HIDE DEF roles
  <2> QED  BY <2>1, <2>2 DEF Chain
<1>5. CASE tx.op = "renounceRole"
  <2> DEFINE roles == [ch.role EXCEPT ![tx.on][tx.role] = @ \ {by}]
  <2>1. roles \in [Proxied -> [Role -> SUBSET Account]]
    <3>1. /\ tx.on \in Proxied /\ tx.role \in Role
          /\ ch.role[tx.on][tx.role] \ {by} \in SUBSET Account
      BY <1>5, Parameters DEF Chain
    <3> QED  BY <3>1 DEF Chain
  <2>2. Effect(ch, by, tx) = [ch EXCEPT !.role = roles]
    BY <1>5 DEF Effect, Chain
  <2> HIDE DEF roles
  <2> QED  BY <2>1, <2>2 DEF Chain
<1>6. CASE tx.op = "transferOwnership"
  BY <1>6, Parameters DEF Effect, Chain
<1>7. CASE tx.op = "setMaxSupply"
  <2>1. tx.on \in Token /\ tx.amount \in Nat
    BY <1>7, Parameters
  <2>2. tx.amount >= ch.supply[tx.on]
    BY <1>7 DEF Accepts, CapAboveSupply
  <2> DEFINE caps == [ch.maxSupply EXCEPT ![tx.on] = tx.amount]
  <2>3. Effect(ch, by, tx) = [ch EXCEPT !.maxSupply = caps]
    BY <1>7 DEF Effect, Chain
  <2>4. RL \in Token
    BY DEF Token
  <2>5. caps \in [Token -> Nat]
    BY <2>1 DEF Chain
  <2>6. ch.supply[RL] <= ch.maxSupply[RL] => ch.supply[RL] <= caps[RL]
    BY <2>1, <2>2, <2>4 DEF Chain
  <2> HIDE DEF caps
  <2> QED  BY <2>3, <2>5, <2>6 DEF Chain
<1>8. CASE tx.op = "registerStablecoin"
  BY <1>8, Parameters DEF Effect, Chain
<1>9. CASE tx.op = "setMinterAllowance"
  BY <1>9, Parameters DEF Effect, Chain
<1>10. CASE tx.op = "modifyPolicyWhitelist"
  <2> DEFINE i == tx.id - FirstPolicyId + 1
             listed == [ch.policies[i] EXCEPT !.member = @ \cup {tx.who}]
             lists == [ch.policies EXCEPT ![i] = listed]
  <2>1. tx.who \in Account /\ i \in DOMAIN ch.policies
    BY <1>10, Parameters DEF Accepts, PolicyExists
  <2>2. Effect(ch, by, tx) = [ch EXCEPT !.policies = lists]
    BY <1>10 DEF Effect, Chain
  <2> HIDE DEF i
  <2>3. listed \in [admin : People, member : SUBSET Account]
    <3> DEFINE S == [admin : People, member : SUBSET Account]
    <3>1. ch.policies \in Seq(S)
      BY DEF Chain
    <3> HIDE DEF S
    <3>2. i \in 1 .. Len(ch.policies)
      BY <2>1, <3>1, LenProperties
    <3>3. ch.policies[i] \in S
      BY <3>1, <3>2, ElementOfSeq
    <3> QED  BY <2>1, <3>3 DEF S
  <2> HIDE DEF listed
  <2>4. lists \in Seq([admin : People, member : SUBSET Account])
    BY <2>1, <2>3 DEF Chain
  <2> HIDE DEF lists
  <2> QED  BY <2>2, <2>4 DEF Chain
<1> QED  BY <1>1, <1>2, <1>3, <1>4, <1>5, <1>6, <1>7, <1>8, <1>9, <1>10, Parameters

-----------------------------------------------------------------------------
(* The types and the cap of the reserve ledger.                             *)

IInv == TypeOK /\ CapHolds

\* The invariant holds on an empty chain.
LEMMA InitIInv == Init => IInv
<1> SUFFICES ASSUME Init PROVE IInv
  OBVIOUS
<1>1. chain \in Chain
  BY DEF Init, InitChain, Chain
<1>2. run \in Run
  BY DEF Init, Run
<1>3. bounds \in [starts : 0 .. MaxStarts, crashes : 0 .. MaxCrashes,
                  elsewhere : 0 .. MaxElsewhere]
  BY DeploymentAssumption DEF Init
<1>4. CapHolds
  BY DEF Init, InitChain, CapHolds, Token
<1> QED  BY <1>1, <1>2, <1>3, <1>4 DEF Init, IInv, TypeOK

\* A script starts with parameters of its own.
LEMMA NewRunTyped ==
    ASSUME TypeOK, bounds.starts < MaxStarts,
           NEW script \in Script, NEW c \in Coins, NEW by \in People
    PROVE  NewRun(script, c, by) \in Working
<1>1. NextPolicyId(chain) \in Nat
  BY DEF TypeOK, Chain, NextPolicyId, FirstPolicyId
<1>2. chain.transferPolicyId[RL] \in Nat
  BY DEF TypeOK, Chain, Token
<1>3. handlerOf(c, bounds.starts + 1) \in Handlers
  BY DeploymentAssumption DEF TypeOK, handlerOf, Handlers
<1> QED  BY <1>1, <1>2, <1>3 DEF NewRun, Working

\* And has them while it runs.
LEMMA RunningTyped ==
    ASSUME TypeOK, running
    PROVE  run \in Working
BY DEF TypeOK, Run, Working, running

\* Every step of every script keeps the invariant.
LEMMA NextIInv == IInv /\ [Next]_vars => IInv'
<1> SUFFICES ASSUME IInv, [Next]_vars PROVE IInv'
  OBVIOUS
<1> USE DEF IInv
<1>0. Working \subseteq Run
  BY DEF Working, Run
<1>1. ASSUME NEW o \in Offered, Start(o[1], o[2], o[3]) PROVE IInv'
  <2>1. o[1] \in Script /\ o[2] \in Coins /\ o[3] \in People
    BY DeploymentAssumption
  <2>2. run' \in Run
    BY <1>0, <1>1, <2>1, NewRunTyped DEF Start
  <2>3. bounds' \in [starts : 0 .. MaxStarts, crashes : 0 .. MaxCrashes,
                     elsewhere : 0 .. MaxElsewhere]
    BY <1>1, DeploymentAssumption DEF Start, TypeOK
  <2> QED  BY <1>1, <2>2, <2>3 DEF Start, TypeOK, CapHolds
<1>2. ASSUME NEW o \in Offered, Refuse(o[1], o[2], o[3]) PROVE IInv'
  <2>1. o[1] \in Script /\ o[2] \in Coins /\ o[3] \in People
    BY DeploymentAssumption
  <2>2. NewRun(o[1], o[2], o[3]) \in Working
    BY <1>2, <2>1, NewRunTyped DEF Refuse
  <2>3. run' \in Run
    BY <1>0, <1>2, <2>2 DEF Refuse, Working
  <2> QED  BY <1>2, <2>3 DEF Refuse, TypeOK, CapHolds
<1>3. ASSUME NEW c \in Coins, Skip(c) PROVE IInv'
  BY <1>3 DEF Skip, TypeOK, CapHolds
<1>4. ASSUME NEW c \in Coins, Issue(c) PROVE IInv'
  <2>1. /\ RL \in Token /\ c \in Token /\ RL # c
        /\ Config[c].minterAddress \in People
    BY DeploymentAssumption, ConfigTyped DEF Token, HandoverConfig
  <2> DEFINE minter == Config[c].minterAddress
             supply == [chain.supply EXCEPT ![RL] = @ + 1, ![c] = @ + 1]
             allowances == [chain.minterAllowance EXCEPT ![c][minter] = @ - 1]
  <2>2. supply \in [Token -> Nat] /\ supply[RL] <= chain.maxSupply[RL]
    <3>1. /\ chain.supply \in [Token -> Nat] /\ chain.maxSupply \in [Token -> Nat]
          /\ chain.supply[RL] < chain.maxSupply[RL]
      BY <1>4 DEF Issue, TypeOK, Chain
    <3> QED  BY <2>1, <3>1
  <2>3. allowances \in [Coins -> [People -> Nat]]
    BY <1>4, <2>1 DEF Issue, AllowanceLeft, TypeOK, Chain
  <2>4. chain' = [chain EXCEPT !.supply = supply, !.minterAllowance = allowances]
    BY <1>4 DEF Issue, TypeOK, Chain
  <2> HIDE DEF supply, allowances
  <2>5. chain' \in Chain /\ CapHolds'
    BY <2>2, <2>3, <2>4 DEF TypeOK, Chain, CapHolds
  <2> QED  BY <1>4, <2>5 DEF Issue, TypeOK
<1>5. CASE Broadcast
  <2>1. run \in Working
    BY <1>5, RunningTyped DEF Broadcast
  <2>2. NextTransaction \in Transaction
    BY <1>5, <2>1, TransactionsTyped DEF Broadcast, NextTransaction, Working
  <2>3. run.by \in People
    BY <2>1 DEF Working
  <2>4. chain' \in Chain /\ CapHolds'
    BY <1>5, <2>2, <2>3, EffectTyped DEF Broadcast, TypeOK, CapHolds
  <2>5. run' \in Run
    BY <1>0, <1>5, <2>1 DEF Broadcast, Working
  <2> QED  BY <1>5, <2>4, <2>5 DEF Broadcast, TypeOK
<1>6. CASE BroadcastReverts
  <2>1. run' \in Run
    BY <1>0, <1>6, RunningTyped DEF BroadcastReverts, Working
  <2> QED  BY <1>6, <2>1 DEF BroadcastReverts, TypeOK, CapHolds
<1>7. CASE Finish
  <2>1. run' \in Run
    BY <1>0, <1>7, RunningTyped DEF Finish, Working
  <2> QED  BY <1>7, <2>1 DEF Finish, TypeOK, CapHolds
<1>8. CASE Crash
  <2>1. run' \in Run
    BY <1>0, <1>8, RunningTyped DEF Crash, Working
  <2>2. bounds' \in [starts : 0 .. MaxStarts, crashes : 0 .. MaxCrashes,
                     elsewhere : 0 .. MaxElsewhere]
    BY <1>8, DeploymentAssumption DEF Crash, TypeOK
  <2> QED  BY <1>8, <2>1, <2>2 DEF Crash, TypeOK, CapHolds
<1>9. ASSUME NEW who \in People \ {PolicyAdmin}, CreatePolicyElsewhere(who) PROVE IInv'
  <2>1. Append(chain.policies, [admin |-> who, member |-> {}])
            \in Seq([admin : People, member : SUBSET Account])
    BY DEF TypeOK, Chain
  <2>2. chain' \in Chain /\ CapHolds'
    BY <1>9, <2>1 DEF CreatePolicyElsewhere, WithPolicy, TypeOK, Chain, CapHolds
  <2>3. bounds' \in [starts : 0 .. MaxStarts, crashes : 0 .. MaxCrashes,
                     elsewhere : 0 .. MaxElsewhere]
    BY <1>9, DeploymentAssumption DEF CreatePolicyElsewhere, TypeOK
  <2>4. raced' \in BOOLEAN
    BY <1>9 DEF CreatePolicyElsewhere, TypeOK
  <2> QED  BY <1>9, <2>2, <2>3, <2>4 DEF CreatePolicyElsewhere, TypeOK
<1>10. CASE UNCHANGED vars
  BY <1>10 DEF vars, TypeOK, CapHolds
<1> QED  BY <1>1, <1>2, <1>3, <1>4, <1>5, <1>6, <1>7, <1>8, <1>9, <1>10 DEF Next

\* So it always holds.
LEMMA Inductive == Spec => []IInv
BY InitIInv, NextIInv, PTL DEF Spec

\* The scripts only ever send transactions with the parameters their operation
\* has, and allowances and supplies stay natural numbers.
THEOREM TypeCorrect == Spec => []TypeOK
<1>1. IInv => TypeOK
  BY DEF IInv
<1> QED  BY <1>1, Inductive, PTL

\* No configuration of a new coin puts the reserve ledger's cap below what is in
\* circulation, however much was issued between the script's fork and its
\* transaction.
THEOREM CapIsKept == Spec => []CapHolds
<1>1. IInv => CapHolds
  BY DEF IInv
<1> QED  BY <1>1, Inductive, PTL
=============================================================================
