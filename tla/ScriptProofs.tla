---------------------------- MODULE ScriptProofs ----------------------------
(***************************************************************************)
(* What the deployment scripts keep and what they achieve, for every set of *)
(* coins, every configuration and every number of starts, crashes and       *)
(* policies made by others. The argument has five parts:                    *)
(*  - what a transaction does to each field of the chain (EffectFields);    *)
(*  - the shape of a script (TransactionsShape): each target is set to one  *)
(*    value, grants come before what needs them, and the signer leaves last *)
(*    and only what somebody else administers;                              *)
(*  - hence a transaction that went through stays done while the script     *)
(*    runs (DoneByEffect, DoneStays);                                       *)
(*  - ScriptInv, the inductive invariant: what the script at work has done, *)
(*    what it was based on, and where its policies and proxies are;         *)
(*  - DemoInv, for the demo: its signer keeps its roles, so every           *)
(*    transaction after the token's proxy goes through.                     *)
(***************************************************************************)
EXTENDS DeploymentProofs, FiniteSetTheorems

-----------------------------------------------------------------------------
(* A transaction's effect, one field of the chain at a time.                *)

CodeChange(ch, by, tx, e) ==
    e.code = IF tx.op \in {"create", "proxy"} THEN ch.code \cup {tx.on} ELSE ch.code
RoleChange(ch, by, tx, e) ==
    \A t \in Proxied, r \in Role :
        e.role[t][r] = IF tx.op \in {"create", "proxy"} /\ t = tx.on /\ r = "ADMIN"
                       THEN ch.role[t][r] \cup {by}
                       ELSE IF tx.op = "grantRole" /\ t = tx.on /\ r = tx.role
                       THEN ch.role[t][r] \cup {tx.who}
                       ELSE IF tx.op = "renounceRole" /\ t = tx.on /\ r = tx.role
                       THEN ch.role[t][r] \ {by}
                       ELSE ch.role[t][r]
TokenChange(ch, by, tx, e) ==
    \A t \in Token :
        /\ e.owner[t] = IF tx.op = "proxy" /\ t = tx.on THEN by
                        ELSE IF tx.op = "transferOwnership" /\ t = tx.on THEN tx.who
                        ELSE ch.owner[t]
        /\ e.maxSupply[t] = IF tx.op = "setMaxSupply" /\ t = tx.on THEN tx.amount
                            ELSE ch.maxSupply[t]
        /\ e.transferPolicyId[t] = IF tx.op = "proxy" /\ t = tx.on THEN tx.transferId
                                   ELSE ch.transferPolicyId[t]
        /\ e.mintRecipientPolicyId[t] = IF tx.op = "proxy" /\ t = tx.on THEN tx.mintId
                                        ELSE ch.mintRecipientPolicyId[t]
CoinChange(ch, by, tx, e) ==
    \A c \in Coins :
        /\ e.handler[c] = IF tx.op = "registerStablecoin" /\ c = tx.coin
                          THEN tx.handler ELSE ch.handler[c]
        /\ e.txnMintLimit[c] = IF tx.op = "registerStablecoin" /\ c = tx.coin
                               THEN tx.limit ELSE ch.txnMintLimit[c]
        /\ \A p \in People :
               e.minterAllowance[c][p] =
                   IF tx.op = "setMinterAllowance" /\ c = tx.coin /\ p = tx.who
                   THEN tx.amount ELSE ch.minterAllowance[c][p]
PolicyChange(ch, by, tx, e) ==
    e.policies = IF tx.op = "createPolicy"
                 THEN Append(ch.policies, [admin |-> PolicyAdmin, member |-> {}])
                 ELSE IF tx.op = "modifyPolicyWhitelist"
                 THEN [ch.policies EXCEPT ![tx.id - FirstPolicyId + 1].member = @ \cup {tx.who}]
                 ELSE ch.policies

\* Effect, one field at a time.
LEMMA EffectFields ==
    ASSUME NEW ch \in Chain, NEW by \in People, NEW tx \in Transaction, Accepts(ch, by, tx)
    PROVE  /\ CodeChange(ch, by, tx, Effect(ch, by, tx))
           /\ RoleChange(ch, by, tx, Effect(ch, by, tx))
           /\ TokenChange(ch, by, tx, Effect(ch, by, tx))
           /\ CoinChange(ch, by, tx, Effect(ch, by, tx))
           /\ PolicyChange(ch, by, tx, Effect(ch, by, tx))
<1> DEFINE e == Effect(ch, by, tx)
<1> USE DEF CodeChange, RoleChange, TokenChange, CoinChange, PolicyChange
<1>1. CASE tx.op = "create"
  <2> DEFINE roles == [t \in Proxied |->
                         IF t = tx.on THEN WithAdmin(ch.role[t], by) ELSE ch.role[t]]
  <2>1. e = [ch EXCEPT !.code = ch.code \cup {tx.on}, !.role = roles]
    BY <1>1 DEF Effect, Created, Chain
  <2>2. \A t \in Proxied, r \in Role :
            roles[t][r] = IF t = tx.on /\ r = "ADMIN" THEN ch.role[t][r] \cup {by} ELSE ch.role[t][r]
    BY DEF WithAdmin, Chain
  <2> HIDE DEF roles, e
  <2>3. /\ e.code = ch.code \cup {tx.on} /\ e.role = roles
        /\ e.owner = ch.owner /\ e.transferPolicyId = ch.transferPolicyId
        /\ e.mintRecipientPolicyId = ch.mintRecipientPolicyId
        /\ e.maxSupply = ch.maxSupply /\ e.handler = ch.handler
        /\ e.txnMintLimit = ch.txnMintLimit /\ e.minterAllowance = ch.minterAllowance
        /\ e.policies = ch.policies
    BY <2>1 DEF Chain
  <2> QED  BY <1>1, <2>2, <2>3 DEF e
<1>2. CASE tx.op = "proxy"
  <2>0. tx.on \in Token /\ tx.on \in Proxied
    BY <1>2, Parameters DEF Proxied
  <2> DEFINE roles == [t \in Proxied |->
                         IF t = tx.on THEN WithAdmin(ch.role[t], by) ELSE ch.role[t]]
             owners == [ch.owner EXCEPT ![tx.on] = by]
             transferIds == [ch.transferPolicyId EXCEPT ![tx.on] = tx.transferId]
             mintIds == [ch.mintRecipientPolicyId EXCEPT ![tx.on] = tx.mintId]
  <2>1. e = [ch EXCEPT !.code = ch.code \cup {tx.on}, !.role = roles, !.owner = owners,
                       !.transferPolicyId = transferIds, !.mintRecipientPolicyId = mintIds]
    BY <1>2 DEF Effect, Initialised, Created, Chain
  <2>2. \A t \in Proxied, r \in Role :
            roles[t][r] = IF t = tx.on /\ r = "ADMIN" THEN ch.role[t][r] \cup {by} ELSE ch.role[t][r]
    BY DEF WithAdmin, Chain
  <2>3. \A t \in Token : /\ owners[t] = IF t = tx.on THEN by ELSE ch.owner[t]
                         /\ transferIds[t] = IF t = tx.on THEN tx.transferId
                                             ELSE ch.transferPolicyId[t]
                         /\ mintIds[t] = IF t = tx.on THEN tx.mintId
                                         ELSE ch.mintRecipientPolicyId[t]
    BY <2>0 DEF Chain
  <2> HIDE DEF roles, owners, transferIds, mintIds, e
  <2>4. /\ e.code = ch.code \cup {tx.on} /\ e.role = roles /\ e.owner = owners
        /\ e.transferPolicyId = transferIds /\ e.mintRecipientPolicyId = mintIds
        /\ e.maxSupply = ch.maxSupply /\ e.handler = ch.handler
        /\ e.txnMintLimit = ch.txnMintLimit /\ e.minterAllowance = ch.minterAllowance
        /\ e.policies = ch.policies
    BY <2>1 DEF Chain
  <2> QED  BY <1>2, <2>2, <2>3, <2>4 DEF e
<1>3. CASE tx.op = "createPolicy"
  <2>1. e = [ch EXCEPT !.policies = Append(ch.policies, [admin |-> PolicyAdmin, member |-> {}])]
    BY <1>3 DEF Effect, WithPolicy, Chain
  <2> HIDE DEF e
  <2> QED  BY <1>3, <2>1 DEF Chain, e
<1>4. CASE tx.op = "grantRole"
  <2>0. tx.on \in Proxied /\ tx.role \in Role
    BY <1>4, Parameters
  <2> DEFINE roles == [ch.role EXCEPT ![tx.on][tx.role] = @ \cup {tx.who}]
  <2>1. e = [ch EXCEPT !.role = roles]
    BY <1>4 DEF Effect, Chain
  <2>2. \A t \in Proxied, r \in Role :
            roles[t][r] = IF t = tx.on /\ r = tx.role THEN ch.role[t][r] \cup {tx.who}
                          ELSE ch.role[t][r]
    BY <2>0 DEF Chain
  <2> HIDE DEF roles, e
  <2>3. /\ e.code = ch.code /\ e.role = roles
        /\ e.owner = ch.owner /\ e.transferPolicyId = ch.transferPolicyId
        /\ e.mintRecipientPolicyId = ch.mintRecipientPolicyId
        /\ e.maxSupply = ch.maxSupply /\ e.handler = ch.handler
        /\ e.txnMintLimit = ch.txnMintLimit /\ e.minterAllowance = ch.minterAllowance
        /\ e.policies = ch.policies
    BY <2>1 DEF Chain
  <2> QED  BY <1>4, <2>2, <2>3 DEF e
<1>5. CASE tx.op = "renounceRole"
  <2>0. tx.on \in Proxied /\ tx.role \in Role
    BY <1>5, Parameters
  <2> DEFINE roles == [ch.role EXCEPT ![tx.on][tx.role] = @ \ {by}]
  <2>1. e = [ch EXCEPT !.role = roles]
    BY <1>5 DEF Effect, Chain
  <2>2. \A t \in Proxied, r \in Role :
            roles[t][r] = IF t = tx.on /\ r = tx.role THEN ch.role[t][r] \ {by}
                          ELSE ch.role[t][r]
    BY <2>0 DEF Chain
  <2> HIDE DEF roles, e
  <2>3. /\ e.code = ch.code /\ e.role = roles
        /\ e.owner = ch.owner /\ e.transferPolicyId = ch.transferPolicyId
        /\ e.mintRecipientPolicyId = ch.mintRecipientPolicyId
        /\ e.maxSupply = ch.maxSupply /\ e.handler = ch.handler
        /\ e.txnMintLimit = ch.txnMintLimit /\ e.minterAllowance = ch.minterAllowance
        /\ e.policies = ch.policies
    BY <2>1 DEF Chain
  <2> QED  BY <1>5, <2>2, <2>3 DEF e
<1>6. CASE tx.op = "transferOwnership"
  <2>1. e = [ch EXCEPT !.owner = [ch.owner EXCEPT ![tx.on] = tx.who]]
    BY <1>6 DEF Effect, Chain
  <2> HIDE DEF e
  <2> QED  BY <1>6, <2>1, Parameters DEF Chain, e
<1>7. CASE tx.op = "setMaxSupply"
  <2>1. e = [ch EXCEPT !.maxSupply = [ch.maxSupply EXCEPT ![tx.on] = tx.amount]]
    BY <1>7 DEF Effect, Chain
  <2> HIDE DEF e
  <2> QED  BY <1>7, <2>1, Parameters DEF Chain, e
<1>8. CASE tx.op = "registerStablecoin"
  <2>1. e = [ch EXCEPT !.handler = [ch.handler EXCEPT ![tx.coin] = tx.handler],
                       !.txnMintLimit = [ch.txnMintLimit EXCEPT ![tx.coin] = tx.limit]]
    BY <1>8 DEF Effect, Chain
  <2> HIDE DEF e
  <2> QED  BY <1>8, <2>1, Parameters DEF Chain, e
<1>9. CASE tx.op = "setMinterAllowance"
  <2> DEFINE allowances == [ch.minterAllowance EXCEPT ![tx.coin][tx.who] = tx.amount]
  <2>1. e = [ch EXCEPT !.minterAllowance = allowances]
    BY <1>9 DEF Effect, Chain
  <2>2. \A c \in Coins, p \in People :
            allowances[c][p] = IF c = tx.coin /\ p = tx.who THEN tx.amount
                               ELSE ch.minterAllowance[c][p]
    BY <1>9, Parameters DEF Chain
  <2> HIDE DEF allowances, e
  <2> QED  BY <1>9, <2>1, <2>2 DEF Chain, e
<1>10. CASE tx.op = "modifyPolicyWhitelist"
  <2>1. e = [ch EXCEPT !.policies = [ch.policies EXCEPT ![tx.id - FirstPolicyId + 1].member =
                                        @ \cup {tx.who}]]
    BY <1>10 DEF Effect, Chain
  <2> HIDE DEF e
  <2> QED  BY <1>10, <2>1 DEF Chain, e
<1> QED  BY <1>1, <1>2, <1>3, <1>4, <1>5, <1>6, <1>7, <1>8, <1>9, <1>10, Parameters

-----------------------------------------------------------------------------
(* The order of a script's transactions.                                    *)

\* Nobody gets a role that the signer has renounced before, and no proxy is
\* initialised again after its ownership was transferred.
MayFollow(a, b) ==
    /\ a.op = "renounceRole" => b.op \in {"renounceRole", "modifyPolicyWhitelist"}
    /\ a.op = "transferOwnership" => b.op # "proxy"

Ordered(s) == \A k \in DOMAIN s : \A j \in DOMAIN s : j < k => MayFollow(s[j], s[k])

\* A sequence of transactions that may follow each other in any order is ordered.
LEMMA OrderedByOps ==
    ASSUME NEW S, NEW s \in Seq(S), \A x, y \in S : MayFollow(x, y)
    PROVE  Ordered(s)
BY DEF Ordered

\* Two ordered pieces, the second of which may follow the first.
LEMMA OrderedConcat ==
    ASSUME NEW S, NEW T, NEW s \in Seq(S), NEW t \in Seq(T), Ordered(s), Ordered(t),
           \A x \in S, y \in T : MayFollow(x, y)
    PROVE  Ordered(s \o t)
<1>1. s \in Seq(S \cup T) /\ t \in Seq(S \cup T)
  OBVIOUS
<1>2. /\ Len(s) \in Nat /\ Len(t) \in Nat /\ DOMAIN s = 1 .. Len(s) /\ DOMAIN t = 1 .. Len(t)
      /\ DOMAIN (s \o t) = 1 .. (Len(s) + Len(t))
      /\ \A i \in 1 .. Len(s) : (s \o t)[i] = s[i] /\ s[i] \in S
      /\ \A i \in 1 .. (Len(s) + Len(t)) :
             ~(i <= Len(s)) => /\ i - Len(s) \in DOMAIN t /\ t[i - Len(s)] \in T
                               /\ (s \o t)[i] = t[i - Len(s)]
  BY <1>1, LenProperties, ConcatProperties
<1> DEFINE u == s \o t
<1> HIDE DEF u
<1> SUFFICES ASSUME NEW k \in DOMAIN u, NEW j \in DOMAIN u, j < k
             PROVE  MayFollow(u[j], u[k])
  BY DEF Ordered, u
<1>3. CASE k <= Len(s)
  BY <1>2, <1>3 DEF Ordered, u
<1>4. CASE ~(k <= Len(s)) /\ j <= Len(s)
  BY <1>2, <1>4 DEF u
<1>5. CASE ~(k <= Len(s)) /\ ~(j <= Len(s))
  <2>1. j - Len(s) < k - Len(s)
    BY <1>2 DEF u
  <2> QED  BY <1>2, <1>5, <2>1 DEF Ordered, u
<1> QED  BY <1>3, <1>4, <1>5

\* Every transaction of s in `effects` comes after one in `causes`.
Guarded(s, effects, causes) ==
    \A k \in DOMAIN s : s[k] \in effects => \E j \in DOMAIN s : j < k /\ s[j] \in causes

\* What guards a piece guards the pieces appended to it.
LEMMA GuardedConcat ==
    ASSUME NEW S, NEW s \in Seq(S), NEW t \in Seq(S), NEW A, NEW B,
           Guarded(s, A, B), Guarded(t, A, B) \/ \E i \in DOMAIN s : s[i] \in B
    PROVE  Guarded(s \o t, A, B)
<1>1. /\ Len(s) \in Nat /\ Len(t) \in Nat /\ DOMAIN s = 1 .. Len(s) /\ DOMAIN t = 1 .. Len(t)
      /\ DOMAIN (s \o t) = 1 .. (Len(s) + Len(t))
      /\ \A i \in 1 .. Len(s) : (s \o t)[i] = s[i]
      /\ \A i \in 1 .. Len(t) : (s \o t)[i + Len(s)] = t[i]
  BY LenProperties, ConcatProperties
<1> DEFINE u == s \o t
<1> HIDE DEF u
<1> SUFFICES ASSUME NEW k \in DOMAIN u, u[k] \in A
             PROVE  \E j \in DOMAIN u : j < k /\ u[j] \in B
  BY DEF Guarded, u
<1>2. CASE k <= Len(s)
  BY <1>1, <1>2 DEF Guarded, u
<1>3. CASE ~(k <= Len(s))
  <2>1. k - Len(s) \in DOMAIN t /\ t[k - Len(s)] = u[k]
    BY <1>1, <1>3 DEF u
  <2>2. CASE Guarded(t, A, B)
    <3>1. PICK j \in DOMAIN t : j < k - Len(s) /\ t[j] \in B
      BY <2>1, <2>2 DEF Guarded
    <3>2. j + Len(s) \in DOMAIN u /\ u[j + Len(s)] \in B /\ j + Len(s) < k
      BY <1>1, <2>1, <3>1 DEF u
    <3> QED  BY <3>2
  <2>3. CASE \E i \in DOMAIN s : s[i] \in B
    BY <1>1, <1>3, <2>3 DEF u
  <2> QED  BY <2>2, <2>3
<1> QED  BY <1>2, <1>3

\* A piece without the guarded transactions needs no guard.
LEMMA GuardedByOps ==
    ASSUME NEW S, NEW s \in Seq(S), NEW A, NEW B, S \cap A = {}
    PROVE  Guarded(s, A, B)
BY DEF Guarded


-----------------------------------------------------------------------------
(* What the transactions of a script for the coin c have in common, when     *)
(* `by` signs them and h is the handler.                                     *)

\* Who administers a contract after the handover, and the cap a token gets.
AdminOf(on, c) ==
    IF on = RL THEN Config[c].rlAdmin
    ELSE IF on = TA THEN Config[c].tokenAuthorityAdmin ELSE Config[c].stablecoinAdmin
CapOf(on, c) == IF on = RL THEN Config[c].rlMaxSupply ELSE Config[c].stablecoinMaxSupply

\* Each target is set to one value only, and the signer leaves a contract only if
\* somebody else is to administer it.
Proper(tx, c, h, by) ==
    /\ tx.op = "create" => tx.on \in {Registry, TA, h}
    /\ tx.op = "proxy" => tx.on \in {RL, c}
    /\ tx.op = "renounceRole" =>
           tx.on \in {TA, RL, c} /\ tx.role \in AuthorityRoles /\ AdminOf(tx.on, c) # by
    /\ tx.op = "transferOwnership" => tx.who = AdminOf(tx.on, c)
    /\ tx.op = "setMaxSupply" => tx.amount = CapOf(tx.on, c)
    /\ tx.op = "registerStablecoin" =>
           tx.coin = c /\ tx.handler = h /\ tx.limit = Config[c].txnMintLimit
    /\ tx.op = "setMinterAllowance" =>
           /\ tx.coin = c /\ tx.who = Config[c].minterAddress
           /\ tx.amount = Config[c].minterAllowance

Of(ops, c, h, by) == {tx \in Transaction : tx.op \in ops /\ Proper(tx, c, h, by)}

DeployOps == {"create", "createPolicy", "proxy"}
LimitOps == {"grantRole", "setMaxSupply", "setMinterAllowance"}
ConfigOps == LimitOps \cup {"registerStablecoin"}
EarlyOps == DeployOps \cup ConfigOps
HandingOps == {"grantRole", "transferOwnership"}
LeavingOps == {"grantRole", "transferOwnership", "renounceRole"}
Ops == EarlyOps \cup LeavingOps \cup {"modifyPolicyWhitelist"}

\* The pieces of fewer kinds are pieces of more kinds.
LEMMA OfMonotonic ==
    ASSUME NEW c, NEW h, NEW by, NEW A, NEW B, A \subseteq B, NEW s \in Seq(Of(A, c, h, by))
    PROVE  s \in Seq(Of(B, c, h, by)) /\ s \in Seq(Transaction)
<1>1. Of(A, c, h, by) \subseteq Of(B, c, h, by) /\ Of(A, c, h, by) \subseteq Transaction
  BY DEF Of
<1> QED  BY <1>1, SeqMonotonic

\* The contracts of a deployment are at different addresses.
LEMMA Distinct ==
    /\ RL # TA /\ RL # Registry /\ TA # Registry
    /\ RL \notin Coins /\ TA \notin Coins /\ Registry \notin Coins
    /\ TA \notin Token /\ Registry \notin Proxied
    /\ Handlers \cap Proxied = {} /\ Registry \notin Handlers
<1>1. ASSUME NEW x, NEW y, NEW z
      PROVE  Cardinality({x, y, z}) # 4
  <2>1. IsFiniteSet({x}) /\ Cardinality({x}) = 1
    BY FS_Singleton
  <2>2. IsFiniteSet({x} \cup {y}) /\ Cardinality({x} \cup {y}) \in {1, 2}
    BY <2>1, FS_AddElement
  <2>3. Cardinality({x} \cup {y} \cup {z}) \in {1, 2, 3}
    BY <2>2, FS_AddElement
  <2>4. {x, y, z} = {x} \cup {y} \cup {z}
    OBVIOUS
  <2> QED  BY <2>3, <2>4
<1>2. RL # TA
  <2>1. RL = TA => {Registry, RL, TA, Zero} = {Registry, RL, Zero}
    OBVIOUS
  <2> QED  BY <2>1, <1>1, DeploymentAssumption
<1>3. RL # Registry
  <2>1. RL = Registry => {Registry, RL, TA, Zero} = {RL, TA, Zero}
    OBVIOUS
  <2> QED  BY <2>1, <1>1, DeploymentAssumption
<1>4. TA # Registry
  <2>1. TA = Registry => {Registry, RL, TA, Zero} = {RL, TA, Zero}
    OBVIOUS
  <2> QED  BY <2>1, <1>1, DeploymentAssumption
<1> QED  BY <1>2, <1>3, <1>4, DeploymentAssumption DEF Token, Proxied

\* The pieces of the scripts.
LEMMA DeployPieces ==
    ASSUME NEW c \in Coins, NEW h \in Handlers, NEW by \in People, NEW id \in Nat,
           NEW transferId \in Nat
    PROVE  /\ <<create(Registry)>> \in Seq(Of(DeployOps, c, h, by))
           /\ <<create(TA), create(h)>> \in Seq(Of(DeployOps, c, h, by))
           /\ <<create(TA)>> \in Seq(Of(DeployOps, c, h, by))
           /\ <<create(h)>> \in Seq(Of(DeployOps, c, h, by))
           /\ DeployReserveLedger(id) \in Seq(Of(DeployOps, c, h, by))
           /\ DeployStablecoin(c, transferId, id) \in Seq(Of(DeployOps, c, h, by))
<1>1. \A x \in {Registry, TA, h} : create(x) \in Of(DeployOps, c, h, by)
  <2>1. \A x \in {Registry, TA, h} : create(x) \in Transaction
    BY CreateTyped DEF Contract, Proxied
  <2> QED  BY <2>1 DEF create, Of, DeployOps, Proper
<1>2. createPolicy \in Of(DeployOps, c, h, by)
  <2>1. createPolicy \in Transaction
    BY DEF createPolicy, Transaction
  <2> QED  BY <2>1 DEF createPolicy, Of, DeployOps, Proper
<1>3. ASSUME NEW t \in {RL, c}, NEW i \in Nat, NEW j \in Nat
      PROVE  proxy(t, i, j) \in Of(DeployOps, c, h, by)
  <2>1. proxy(t, i, j) \in Transaction
    BY DEF proxy, Transaction, Token
  <2> QED  BY <2>1 DEF proxy, Of, DeployOps, Proper
<1> DEFINE S == Of(DeployOps, c, h, by)
<1>4. proxy(RL, id, id + 1) \in S /\ proxy(c, transferId, id) \in S
  BY <1>3
<1> HIDE DEF S
<1> QED  BY <1>1, <1>2, <1>4 DEF S, DeployReserveLedger, DeployStablecoin

\* A grant is proper whoever gets it.
LEMMA GrantProper ==
    ASSUME NEW c, NEW h, NEW by, NEW on \in Proxied, NEW role \in Role, NEW who \in Account
    PROVE  grantRole(on, role, who) \in Of({"grantRole"}, c, h, by)
<1>1. grantRole(on, role, who) \in Transaction
  BY GrantTyped
<1> QED  BY <1>1 DEF grantRole, Of, Proper

\* The kinds of transactions of each part of _configure.
LEMMA ConfigurePieces ==
    ASSUME NEW c \in Coins, NEW h \in Handlers, NEW by \in People
    PROVE  /\ ConfigureRoles(c) \in Seq(Of({"grantRole"}, c, h, by))
           /\ RegisterStablecoin(c, h, by) \in Seq(Of(ConfigOps, c, h, by))
           /\ ConfigureLimits(c, by) \in Seq(Of(LimitOps, c, h, by))
           /\ ConfigureMaxSupply(c) \in Seq(Of(LimitOps, c, h, by))
<1> DEFINE G == Of({"grantRole"}, c, h, by)
           L == Of(LimitOps, c, h, by)
           E == Of(ConfigOps, c, h, by)
<1>0. G \subseteq L /\ L \subseteq E
  BY DEF Of, LimitOps, ConfigOps
<1>1. /\ grantRole(RL, "MINTER", TA) \in G
      /\ grantRole(c, "MINTER", TA) \in G
      /\ grantRole(c, "PAUSER", Config[c].pauserAddress) \in G
      /\ grantRole(c, "UNPAUSER", Config[c].unpauserAddress) \in G
      /\ grantRole(c, "BLOCKED_ADDRESS_BURNER", Config[c].blockedAddressBurnerAddress) \in G
  BY GrantProper, ConfigTyped DEF HandoverConfig, Proxied, Token, Account, Role
<1>2. /\ grantRole(RL, "MINTER", h) \in G
      /\ grantRole(c, "MINTER", h) \in G
      /\ grantRole(TA, "TOKEN_AUTHORITY_HANDLER_SETTER", by) \in G
      /\ grantRole(TA, "MINT_RATE_LIMIT_SETTER", by) \in G
  BY GrantProper DEF Proxied, Token, Account, Role
<1>3. registerStablecoin(c, h, Config[c].txnMintLimit) \in E
  <2>1. registerStablecoin(c, h, Config[c].txnMintLimit) \in Transaction
    BY ConfigTyped DEF HandoverConfig, registerStablecoin, Transaction
  <2> QED  BY <2>1 DEF registerStablecoin, Of, LimitOps, ConfigOps, Proper
<1>4. setMinterAllowance(c, Config[c].minterAddress, Config[c].minterAllowance) \in L
  <2>1. setMinterAllowance(c, Config[c].minterAddress, Config[c].minterAllowance) \in Transaction
    BY ConfigTyped DEF HandoverConfig, setMinterAllowance, Transaction
  <2> QED  BY <2>1 DEF setMinterAllowance, Of, LimitOps, ConfigOps, Proper
<1>5. setMaxSupply(RL, Config[c].rlMaxSupply) \in L /\ setMaxSupply(c, Config[c].stablecoinMaxSupply) \in L
  <2>1. /\ setMaxSupply(RL, Config[c].rlMaxSupply) \in Transaction
        /\ setMaxSupply(c, Config[c].stablecoinMaxSupply) \in Transaction
    BY ConfigTyped DEF HandoverConfig, setMaxSupply, Transaction, Token
  <2> QED  BY <2>1, Distinct DEF setMaxSupply, Of, LimitOps, ConfigOps, Proper, CapOf
<1> HIDE DEF G, L, E
<1>6. ConfigureRoles(c) \in Seq(G)
  BY <1>1 DEF ConfigureRoles
<1>7. RegisterStablecoin(c, h, by) \in Seq(E)
  BY <1>0, <1>2, <1>3 DEF RegisterStablecoin
<1>8. ConfigureLimits(c, by) \in Seq(L)
  BY <1>0, <1>2, <1>4 DEF ConfigureLimits
<1>9. ConfigureMaxSupply(c) \in Seq(L)
  BY <1>5 DEF ConfigureMaxSupply
<1> QED  BY <1>6, <1>7, <1>8, <1>9 DEF G, L, E

\* The signer only leaves a contract that gets another admin.
LEMMA RenouncePiece ==
    ASSUME NEW c \in Coins, NEW h, NEW by, NEW on \in {TA, RL, c}, NEW roles \in Seq(AuthorityRoles)
    PROVE  Renounce(by, on, AdminOf(on, c), roles) \in Seq(Of({"renounceRole"}, c, h, by))
<1> DEFINE R == Of({"renounceRole"}, c, h, by)
<1>1. ASSUME NEW role \in AuthorityRoles, AdminOf(on, c) # by
      PROVE  renounceRole(on, role) \in R
  <2>1. renounceRole(on, role) \in Transaction
    BY DEF renounceRole, Transaction, AuthorityRoles, Role, Proxied, Token
  <2> QED  BY <1>1, <2>1 DEF renounceRole, Of, Proper
<1> HIDE DEF R
<1>2. CASE AdminOf(on, c) # by
  <2>1. \A i \in DOMAIN roles : renounceRole(on, roles[i]) \in R
    BY <1>1, <1>2
  <2>2. [i \in DOMAIN roles |-> renounceRole(on, roles[i])] \in Seq(R)
    BY <2>1
  <2> QED  BY <1>2, <2>2 DEF Renounce, R
<1>3. CASE AdminOf(on, c) = by
  BY <1>3 DEF Renounce
<1> QED  BY <1>2, <1>3

\* The parts of a handover.
TokensTo(c) ==
    <<grantRole(RL, "ADMIN", Config[c].rlAdmin), transferOwnership(RL, Config[c].rlAdmin),
      grantRole(c, "ADMIN", Config[c].stablecoinAdmin),
      transferOwnership(c, Config[c].stablecoinAdmin)>>
LeaveAuthority(c, by) ==
    Renounce(by, TA, Config[c].tokenAuthorityAdmin,
             <<"TOKEN_AUTHORITY_HANDLER_SETTER", "MINT_RATE_LIMIT_SETTER", "ADMIN">>)
LeaveReserve(c, by) == Renounce(by, RL, Config[c].rlAdmin, <<"ADMIN">>)
LeaveCoin(c, by) == Renounce(by, c, Config[c].stablecoinAdmin, <<"ADMIN">>)

\* _handover: the admin roles and the ownership first, then the signer leaves.
LEMMA HandoverParts ==
    ASSUME NEW c \in Coins, NEW h, NEW by
    PROVE  /\ Handover(c, by) =
                  TokensTo(c) \o TokenAuthorityTo(Config[c].tokenAuthorityAdmin)
                  \o LeaveAuthority(c, by) \o LeaveReserve(c, by) \o LeaveCoin(c, by)
           /\ TokensTo(c) \in Seq(Of(HandingOps, c, h, by))
           /\ TokenAuthorityTo(Config[c].tokenAuthorityAdmin) \in Seq(Of({"grantRole"}, c, h, by))
           /\ LeaveAuthority(c, by) \in Seq(Of({"renounceRole"}, c, h, by))
           /\ LeaveReserve(c, by) \in Seq(Of({"renounceRole"}, c, h, by))
           /\ LeaveCoin(c, by) \in Seq(Of({"renounceRole"}, c, h, by))
<1>1. Handover(c, by) =
          TokensTo(c) \o TokenAuthorityTo(Config[c].tokenAuthorityAdmin)
          \o LeaveAuthority(c, by) \o LeaveReserve(c, by) \o LeaveCoin(c, by)
  BY DEF Handover, TokensTo, LeaveAuthority, LeaveReserve, LeaveCoin
<1>2. /\ Config[c].rlAdmin = AdminOf(RL, c) /\ Config[c].tokenAuthorityAdmin = AdminOf(TA, c)
      /\ Config[c].stablecoinAdmin = AdminOf(c, c)
  BY Distinct DEF AdminOf
<1>3. TokensTo(c) \in Seq(Of(HandingOps, c, h, by))
  <2> DEFINE H == Of(HandingOps, c, h, by)
  <2>1. /\ grantRole(RL, "ADMIN", Config[c].rlAdmin) \in H
        /\ grantRole(c, "ADMIN", Config[c].stablecoinAdmin) \in H
    <3>1. Of({"grantRole"}, c, h, by) \subseteq H
      BY DEF Of, HandingOps
    <3>2. RL \in Proxied /\ c \in Proxied /\ "ADMIN" \in Role
      BY DEF Proxied, Token, Role
    <3>3. Config[c].rlAdmin \in Account /\ Config[c].stablecoinAdmin \in Account
      BY ConfigTyped DEF HandoverConfig, Account
    <3> QED  BY <3>1, <3>2, <3>3, GrantProper
  <2>2. /\ transferOwnership(RL, Config[c].rlAdmin) \in H
        /\ transferOwnership(c, Config[c].stablecoinAdmin) \in H
    <3>1. /\ transferOwnership(RL, Config[c].rlAdmin) \in Transaction
          /\ transferOwnership(c, Config[c].stablecoinAdmin) \in Transaction
      BY ConfigTyped DEF HandoverConfig, transferOwnership, Transaction, Token
    <3> QED  BY <1>2, <3>1 DEF transferOwnership, Of, HandingOps, Proper
  <2> HIDE DEF H
  <2>3. TokensTo(c) \in Seq(H)
    BY <2>1, <2>2 DEF TokensTo
  <2> QED  BY <2>3 DEF H
<1>4. TokenAuthorityTo(Config[c].tokenAuthorityAdmin) \in Seq(Of({"grantRole"}, c, h, by))
  <2> DEFINE G == Of({"grantRole"}, c, h, by)
  <2>1. \A role \in AuthorityRoles : grantRole(TA, role, Config[c].tokenAuthorityAdmin) \in G
    BY GrantProper, ConfigTyped DEF HandoverConfig, Proxied, Account, Role, AuthorityRoles
  <2> HIDE DEF G
  <2>2. TokenAuthorityTo(Config[c].tokenAuthorityAdmin) \in Seq(G)
    BY <2>1 DEF TokenAuthorityTo, SettersTo, AuthorityRoles
  <2> QED  BY <2>2 DEF G
<1>5. LeaveAuthority(c, by) \in Seq(Of({"renounceRole"}, c, h, by))
  <2>1. <<"TOKEN_AUTHORITY_HANDLER_SETTER", "MINT_RATE_LIMIT_SETTER", "ADMIN">> \in Seq(AuthorityRoles)
    BY DEF AuthorityRoles
  <2> QED  BY <1>2, <2>1, RenouncePiece DEF LeaveAuthority
<1>6. /\ LeaveReserve(c, by) \in Seq(Of({"renounceRole"}, c, h, by))
      /\ LeaveCoin(c, by) \in Seq(Of({"renounceRole"}, c, h, by))
  <2>1. <<"ADMIN">> \in Seq(AuthorityRoles)
    BY DEF AuthorityRoles
  <2> QED  BY <1>2, <2>1, RenouncePiece DEF LeaveReserve, LeaveCoin
<1> QED  BY <1>1, <1>3, <1>4, <1>5, <1>6

\* Which kinds may follow which: deployment and configuration come first, the
\* signer's renunciations last but for the whitelisting of DeployDemo.
LEMMA OpsMayFollow ==
    ASSUME NEW c, NEW h, NEW by
    PROVE  /\ \A x \in Of(EarlyOps, c, h, by), y \in Transaction : MayFollow(x, y)
           /\ \A x, y \in Of(HandingOps, c, h, by) : MayFollow(x, y)
           /\ \A x \in Of(LeavingOps, c, h, by), y \in Of({"renounceRole"}, c, h, by) : MayFollow(x, y)
           /\ \A x \in Of(Ops, c, h, by), y \in Of({"modifyPolicyWhitelist"}, c, h, by) :
                  MayFollow(x, y)
BY DEF Of, MayFollow, EarlyOps, DeployOps, ConfigOps, LimitOps, HandingOps, LeavingOps, Ops

\* _handover is ordered, and the signer leaves TokenAuthority only once its admin
\* has been granted the role.
LEMMA HandoverShape ==
    ASSUME NEW c \in Coins, NEW h, NEW by
    PROVE  /\ Handover(c, by) \in Seq(Of(LeavingOps, c, h, by))
           /\ Ordered(Handover(c, by))
           /\ Guarded(Handover(c, by), {renounceRole(TA, "ADMIN")},
                      {grantRole(TA, "ADMIN", Config[c].tokenAuthorityAdmin)})
<1> DEFINE H == Of(HandingOps, c, h, by)
           L == Of(LeavingOps, c, h, by)
           R == Of({"renounceRole"}, c, h, by)
           authority == TokenAuthorityTo(Config[c].tokenAuthorityAdmin)
           handing == TokensTo(c) \o authority
           effect == {renounceRole(TA, "ADMIN")}
           cause == {grantRole(TA, "ADMIN", Config[c].tokenAuthorityAdmin)}
<1>1. H \subseteq L /\ R \subseteq L /\ Of({"grantRole"}, c, h, by) \subseteq H
  BY DEF Of, HandingOps, LeavingOps
<1>2. TokensTo(c) \in Seq(H) /\ authority \in Seq(H)
  BY <1>1, HandoverParts, SeqMonotonic
<1>3. /\ LeaveAuthority(c, by) \in Seq(R) /\ LeaveReserve(c, by) \in Seq(R)
      /\ LeaveCoin(c, by) \in Seq(R)
  BY HandoverParts
<1>4. Handover(c, by) = handing \o LeaveAuthority(c, by) \o LeaveReserve(c, by) \o LeaveCoin(c, by)
  BY HandoverParts
<1>5. /\ \A x, y \in H : MayFollow(x, y) 
      /\ \A x \in L, y \in R : MayFollow(x, y)
  BY OpsMayFollow
<1>6. H \cap effect = {}
  BY DEF Of, HandingOps, renounceRole
<1>7. \E i \in DOMAIN authority : authority[i] \in cause
  <2>1. Len(authority) = 3 /\ authority[1] \in cause /\ DOMAIN authority = 1 .. 3
    BY DEF TokenAuthorityTo, SettersTo
  <2> QED  BY <2>1
<1> HIDE DEF H, L, R, authority, effect, cause
<1>8. handing \in Seq(H) /\ Ordered(handing) /\ Guarded(handing, effect, cause)
  <2>1. handing \in Seq(H)
    BY <1>2
  <2> QED  BY <1>5, <1>6, <2>1, OrderedByOps, GuardedByOps
<1>9. \E i \in DOMAIN handing : handing[i] \in cause
  <2>1. PICK i \in DOMAIN authority : authority[i] \in cause
    BY <1>7
  <2>2. i + Len(TokensTo(c)) \in DOMAIN handing /\ handing[i + Len(TokensTo(c))] = authority[i]
    BY <1>2, ConcatProperties, LenProperties
  <2> QED  BY <2>1, <2>2
<1> HIDE DEF handing
<1>10. /\ handing \in Seq(L)
       /\ LeaveAuthority(c, by) \in Seq(L) /\ LeaveReserve(c, by) \in Seq(L)
       /\ LeaveCoin(c, by) \in Seq(L)
  BY <1>1, <1>3, <1>8, SeqMonotonic
<1>11. /\ Ordered(LeaveAuthority(c, by)) /\ Ordered(LeaveReserve(c, by))
       /\ Ordered(LeaveCoin(c, by))
  BY <1>1, <1>3, <1>5, OrderedByOps
<1> DEFINE one == handing \o LeaveAuthority(c, by)
           two == one \o LeaveReserve(c, by)
           three == two \o LeaveCoin(c, by)
<1>12. one \in Seq(L) /\ Ordered(one) /\ Guarded(one, effect, cause)
  BY <1>3, <1>5, <1>8, <1>9, <1>10, <1>11, OrderedConcat, GuardedConcat
<1>13. \E i \in DOMAIN one : one[i] \in cause
  <2>1. PICK i \in DOMAIN handing : handing[i] \in cause
    BY <1>9
  <2>2. i \in DOMAIN one /\ one[i] = handing[i]
    BY <1>10, ConcatProperties, LenProperties
  <2> QED  BY <2>1, <2>2
<1> HIDE DEF one
<1>14. two \in Seq(L) /\ Ordered(two) /\ Guarded(two, effect, cause)
  BY <1>3, <1>5, <1>10, <1>11, <1>12, <1>13, OrderedConcat, GuardedConcat
<1>15. \E i \in DOMAIN two : two[i] \in cause
  <2>1. PICK i \in DOMAIN one : one[i] \in cause
    BY <1>13
  <2>2. i \in DOMAIN two /\ two[i] = one[i]
    BY <1>10, <1>12, ConcatProperties, LenProperties
  <2> QED  BY <2>1, <2>2
<1> HIDE DEF two
<1>16. three \in Seq(L) /\ Ordered(three) /\ Guarded(three, effect, cause)
  BY <1>3, <1>5, <1>10, <1>11, <1>14, <1>15, OrderedConcat, GuardedConcat
<1>17. Handover(c, by) = three
  BY <1>4 DEF one, two
<1> QED  BY <1>16, <1>17 DEF L, effect, cause

\* A coin is registered after its handler was made a minter of both tokens, and the
\* signer leaves TokenAuthority after somebody else was made its admin.
Guards(s, c, h) ==
    /\ \A t \in {RL, c} : Guarded(s, {registerStablecoin(c, h, Config[c].txnMintLimit)},
                                  {grantRole(t, "MINTER", h)})
    /\ Guarded(s, {renounceRole(TA, "ADMIN")},
               {grantRole(TA, "ADMIN", Config[c].tokenAuthorityAdmin)})

Shape(s, c, h, by) == s \in Seq(Of(Ops, c, h, by)) /\ Ordered(s) /\ Guards(s, c, h)

\* Pieces in which nobody leaves have the shape.
LEMMA QuietShape ==
    ASSUME NEW c, NEW h, NEW by, NEW ops, NEW s \in Seq(Of(ops, c, h, by)),
           ops \subseteq DeployOps \cup LimitOps \/ ops = {"modifyPolicyWhitelist"}
    PROVE  Shape(s, c, h, by)
<1>1. s \in Seq(Of(Ops, c, h, by))
  <2>1. ops \subseteq Ops
    BY DEF Ops, EarlyOps, ConfigOps
  <2> QED  BY <2>1, OfMonotonic
<1>2. Ordered(s)
  <2>1. \A x, y \in Of(ops, c, h, by) : MayFollow(x, y)
    BY DEF Of, MayFollow, DeployOps, LimitOps
  <2> QED  BY <2>1, OrderedByOps
<1>3. /\ Of(ops, c, h, by) \cap {registerStablecoin(c, h, Config[c].txnMintLimit)} = {}
      /\ Of(ops, c, h, by) \cap {renounceRole(TA, "ADMIN")} = {}
  BY DEF Of, registerStablecoin, renounceRole, DeployOps, LimitOps
<1> QED  BY <1>1, <1>2, <1>3, GuardedByOps DEF Shape, Guards

\* The shape of a script put together from two pieces.
LEMMA ShapeConcat ==
    ASSUME NEW c, NEW h, NEW by, NEW s, NEW t, Shape(s, c, h, by), Shape(t, c, h, by),
           s \in Seq(Of(EarlyOps, c, h, by)) \/ t \in Seq(Of({"modifyPolicyWhitelist"}, c, h, by))
    PROVE  Shape(s \o t, c, h, by)
<1> DEFINE All == Of(Ops, c, h, by)
<1>1. s \in Seq(All) /\ t \in Seq(All) /\ Ordered(s) /\ Ordered(t)
  BY DEF Shape
<1>2. Guards(s \o t, c, h)
  <2> HIDE DEF All
  <2> QED  BY <1>1, GuardedConcat DEF Shape, Guards
<1>3. Ordered(s \o t)
  <2>1. CASE s \in Seq(Of(EarlyOps, c, h, by))
    <3>1. \A x \in Of(EarlyOps, c, h, by), y \in All : MayFollow(x, y)
      BY OpsMayFollow DEF Of
    <3> HIDE DEF All
    <3> QED  BY <1>1, <2>1, <3>1, OrderedConcat
  <2>2. CASE t \in Seq(Of({"modifyPolicyWhitelist"}, c, h, by))
    <3>1. \A x \in All, y \in Of({"modifyPolicyWhitelist"}, c, h, by) : MayFollow(x, y)
      BY OpsMayFollow
    <3> HIDE DEF All
    <3> QED  BY <1>1, <2>2, <3>1, OrderedConcat
  <2> QED  BY <2>1, <2>2
<1>4. s \o t \in Seq(All)
  BY <1>1
<1> QED  BY <1>2, <1>3, <1>4 DEF Shape

\* Registration has the shape: its grants precede it.
LEMMA RegisterShape ==
    ASSUME NEW c \in Coins, NEW h \in Handlers, NEW by \in People
    PROVE  /\ RegisterStablecoin(c, h, by) \in Seq(Of(EarlyOps, c, h, by))
           /\ Shape(RegisterStablecoin(c, h, by), c, h, by)
<1> DEFINE E == Of(EarlyOps, c, h, by)
           s == RegisterStablecoin(c, h, by)
<1>1. s \in Seq(E)
  BY ConfigurePieces, OfMonotonic DEF EarlyOps
<1>2. s \in Seq(Of(Ops, c, h, by))
  BY <1>1, OfMonotonic DEF Ops
<1>3. Ordered(s)
  <2>1. \A x, y \in E : MayFollow(x, y)
    BY OpsMayFollow DEF Of
  <2> HIDE DEF E, s
  <2> QED  BY <1>1, <2>1, OrderedByOps
<1>4. /\ Len(s) = 4 /\ DOMAIN s = 1 .. 4
      /\ s[1] = grantRole(RL, "MINTER", h) /\ s[2] = grantRole(c, "MINTER", h)
      /\ s[3] = grantRole(TA, "TOKEN_AUTHORITY_HANDLER_SETTER", by)
      /\ s[4] = registerStablecoin(c, h, Config[c].txnMintLimit)
  BY DEF RegisterStablecoin
<1>5. \A k \in 1 .. 3 : s[k].op = "grantRole"
  BY <1>4 DEF grantRole
<1> HIDE DEF s
<1>6. \A k \in DOMAIN s : k = 4 \/ (/\ s[k] # registerStablecoin(c, h, Config[c].txnMintLimit)
                                    /\ s[k] # renounceRole(TA, "ADMIN"))
  BY <1>4, <1>5 DEF registerStablecoin, renounceRole
<1>7. s[4] # renounceRole(TA, "ADMIN")
  BY <1>4 DEF registerStablecoin, renounceRole
<1>8. Guards(s, c, h)
  BY <1>4, <1>6, <1>7 DEF Guards, Guarded
<1> QED  BY <1>1, <1>2, <1>3, <1>8 DEF Shape, s

\* So has the end of each script: limits, supply and handover.
LEMMA EndShape ==
    ASSUME NEW c \in Coins, NEW h \in Handlers, NEW by \in People
    PROVE  Shape(LimitsSupplyHandover(c, by), c, h, by)
<1> DEFINE L == Of(LimitOps, c, h, by)
           s == ConfigureLimits(c, by) \o ConfigureMaxSupply(c)
<1>1. s \in Seq(L)
  <2> HIDE DEF L
  <2>1. ConfigureLimits(c, by) \in Seq(L) /\ ConfigureMaxSupply(c) \in Seq(L)
    BY ConfigurePieces DEF L
  <2> QED  BY <2>1
<1>2. Shape(s, c, h, by)
  BY <1>1, QuietShape
<1>3. s \in Seq(Of(EarlyOps, c, h, by))
  BY <1>1, OfMonotonic DEF EarlyOps, ConfigOps
<1>4. Shape(Handover(c, by), c, h, by)
  <2>1. Handover(c, by) \in Seq(Of(LeavingOps, c, h, by)) /\ Ordered(Handover(c, by))
    BY HandoverShape
  <2>2. Handover(c, by) \in Seq(Of(Ops, c, h, by))
    BY <2>1, OfMonotonic DEF Ops
  <2>3. Of(LeavingOps, c, h, by) \cap {registerStablecoin(c, h, Config[c].txnMintLimit)} = {}
    BY DEF Of, LeavingOps, registerStablecoin
  <2> QED  BY <2>1, <2>2, <2>3, HandoverShape, GuardedByOps DEF Shape, Guards
<1> HIDE DEF s
<1>5. Shape(s \o Handover(c, by), c, h, by)
  BY <1>2, <1>3, <1>4, ShapeConcat
<1> QED  BY <1>5 DEF LimitsSupplyHandover, s

\* Extending a prefix of deployments and grants.
LEMMA EarlyConcat ==
    ASSUME NEW c, NEW h, NEW by, NEW s, NEW t,
           s \in Seq(Of(EarlyOps, c, h, by)), t \in Seq(Of(EarlyOps, c, h, by)),
           Shape(s, c, h, by), Shape(t, c, h, by)
    PROVE  /\ s \o t \in Seq(Of(EarlyOps, c, h, by))
           /\ Shape(s \o t, c, h, by)
<1>1. Shape(s \o t, c, h, by)
  BY ShapeConcat
<1> DEFINE E == Of(EarlyOps, c, h, by)
<1> HIDE DEF E
<1>2. s \o t \in Seq(E)
  BY DEF E
<1> QED  BY <1>1, <1>2 DEF E

\* What the piece is made of, and that it may be followed by more.
LEMMA DeployShape ==
    ASSUME NEW c, NEW h, NEW by, NEW ops \in {DeployOps, {"grantRole"}},
           NEW s \in Seq(Of(ops, c, h, by))
    PROVE  s \in Seq(Of(EarlyOps, c, h, by)) /\ Shape(s, c, h, by)
<1>1. ops \subseteq DeployOps \cup LimitOps /\ ops \subseteq EarlyOps
  BY DEF DeployOps, EarlyOps, LimitOps, ConfigOps
<1> QED  BY <1>1, OfMonotonic, QuietShape

\* DeployAll deploys, configures and hands over.
AllDeployed(c, id, h) ==
    <<create(Registry)>> \o DeployReserveLedger(id) \o <<create(TA), create(h)>>
    \o DeployStablecoin(c, id, StablecoinMintPolicy(id))

\* The deployments of DeployAll create and initialise, and nothing else.
LEMMA AllDeployedTyped ==
    ASSUME NEW c \in Coins, NEW h \in Handlers, NEW by \in People, NEW id \in Nat
    PROVE  AllDeployed(c, id, h) \in Seq(Of(DeployOps, c, h, by))
<1> DEFINE D == Of(DeployOps, c, h, by)
<1>1. StablecoinMintPolicy(id) \in Nat
  BY DEF StablecoinMintPolicy
<1>2. /\ <<create(Registry)>> \in Seq(D) /\ <<create(TA), create(h)>> \in Seq(D)
      /\ DeployReserveLedger(id) \in Seq(D)
      /\ DeployStablecoin(c, id, StablecoinMintPolicy(id)) \in Seq(D)
  BY <1>1, DeployPieces
<1> HIDE DEF D
<1>3. AllDeployed(c, id, h) \in Seq(D)
  BY <1>2 DEF AllDeployed
<1> QED  BY <1>3 DEF D

\* DeployAll is the deployments, then _configure, then _handover.
LEMMA DeployAllParts ==
    ASSUME NEW c, NEW h, NEW by, NEW id
    PROVE  DeployAll(c, id, h, by) =
               AllDeployed(c, id, h) \o ConfigureRoles(c) \o RegisterStablecoin(c, h, by)
               \o LimitsSupplyHandover(c, by)
BY DEF DeployAll, AllDeployed

\* DeployAll has the shape.
LEMMA DeployAllShape ==
    ASSUME NEW c \in Coins, NEW h \in Handlers, NEW by \in People, NEW id \in Nat
    PROVE  Shape(DeployAll(c, id, h, by), c, h, by)
<1> DEFINE E == Of(EarlyOps, c, h, by)
           one == AllDeployed(c, id, h) \o ConfigureRoles(c)
           two == one \o RegisterStablecoin(c, h, by)
<1>1. AllDeployed(c, id, h) \in Seq(E) /\ Shape(AllDeployed(c, id, h), c, h, by)
  BY AllDeployedTyped, DeployShape
<1>2. ConfigureRoles(c) \in Seq(E) /\ Shape(ConfigureRoles(c), c, h, by)
  BY ConfigurePieces, DeployShape
<1>3. RegisterStablecoin(c, h, by) \in Seq(E) /\ Shape(RegisterStablecoin(c, h, by), c, h, by)
  BY RegisterShape
<1>4. one \in Seq(E) /\ Shape(one, c, h, by)
  BY <1>1, <1>2, EarlyConcat
<1> HIDE DEF one
<1>5. two \in Seq(E) /\ Shape(two, c, h, by)
  BY <1>3, <1>4, EarlyConcat
<1>6. DeployAll(c, id, h, by) = two \o LimitsSupplyHandover(c, by)
  BY DeployAllParts DEF one
<1> HIDE DEF two
<1> QED  BY <1>5, <1>6, EndShape, ShapeConcat

\* So has 05_Configure, which creates the handler after the first grants.
LEMMA ConfigureShape ==
    ASSUME NEW c \in Coins, NEW h \in Handlers, NEW by \in People
    PROVE  Shape(ConfigureRoles(c) \o <<create(h)>> \o RegisterStablecoin(c, h, by)
                 \o LimitsSupplyHandover(c, by), c, h, by)
<1> DEFINE E == Of(EarlyOps, c, h, by)
           one == ConfigureRoles(c) \o <<create(h)>>
           two == one \o RegisterStablecoin(c, h, by)
<1>1. ConfigureRoles(c) \in Seq(E) /\ Shape(ConfigureRoles(c), c, h, by)
  BY ConfigurePieces, DeployShape
<1>2. <<create(h)>> \in Seq(E) /\ Shape(<<create(h)>>, c, h, by)
  <2>1. <<create(h)>> \in Seq(Of(DeployOps, c, h, by))
    BY DeployPieces
  <2> QED  BY <2>1, DeployShape
<1>3. RegisterStablecoin(c, h, by) \in Seq(E) /\ Shape(RegisterStablecoin(c, h, by), c, h, by)
  BY RegisterShape
<1>4. one \in Seq(E) /\ Shape(one, c, h, by)
  BY <1>1, <1>2, EarlyConcat
<1> HIDE DEF one
<1>5. two \in Seq(E) /\ Shape(two, c, h, by)
  BY <1>3, <1>4, EarlyConcat
<1>6. ConfigureRoles(c) \o <<create(h)>> \o RegisterStablecoin(c, h, by)
                 \o LimitsSupplyHandover(c, by) = two \o LimitsSupplyHandover(c, by)
  BY DEF one
<1> HIDE DEF two
<1> QED  BY <1>5, <1>6, EndShape, ShapeConcat

\* The whitelisting of DeployDemo edits policies only.
LEMMA WhitelistingPiece ==
    ASSUME NEW c \in Coins, NEW h \in Handlers, NEW by \in People, NEW id \in Nat
    PROVE  Whitelisting(c, id, h, by) \in Seq(Of({"modifyPolicyWhitelist"}, c, h, by))
<1> DEFINE W == Of({"modifyPolicyWhitelist"}, c, h, by)
<1>1. ASSUME NEW i \in Nat, NEW who \in Account
      PROVE  modifyPolicyWhitelist(i, who) \in W
  <2>1. modifyPolicyWhitelist(i, who) \in Transaction
    BY WhitelistTyped
  <2> QED  BY <2>1 DEF Of, Proper, modifyPolicyWhitelist
<1>2. \A who \in {Zero, c, h, TA, by} : modifyPolicyWhitelist(id, who) \in W
  BY <1>1 DEF Account, Proxied, Token
<1>3. modifyPolicyWhitelist(id + 1, h) \in W
  BY <1>1 DEF Account
<1> HIDE DEF W
<1>4. Whitelisting(c, id, h, by) \in Seq(W)
  BY <1>2, <1>3 DEF Whitelisting
<1> QED  BY <1>4 DEF W

\* The transactions of every script, in their order, have the shape.
LEMMA TransactionsShape ==
    ASSUME NEW r \in Working
    PROVE  Shape(Transactions(r), r.coin, r.handler, r.by)
<1>0. /\ r.coin \in Coins /\ r.by \in People /\ r.id \in Nat /\ r.transferId \in Nat
      /\ r.handler \in Handlers /\ r.script \in Script
  BY DEF Working
<1>1. CASE r.script \in {"DeployAuthRegistry", "DeployReserveLedger", "DeployTokenAuthority",
                         "DeployStablecoin"}
  <2>1. Transactions(r) \in Seq(Of(DeployOps, r.coin, r.handler, r.by))
    BY <1>0, <1>1, DeployPieces DEF Transactions
  <2> QED  BY <2>1, DeployShape
<1>2. CASE r.script = "ConfigureAndHandover"
  <2>1. Transactions(r) = ConfigureRoles(r.coin) \o <<create(r.handler)>>
             \o RegisterStablecoin(r.coin, r.handler, r.by)
             \o LimitsSupplyHandover(r.coin, r.by)
    BY <1>2 DEF Transactions
  <2> QED  BY <1>0, <2>1, ConfigureShape
<1>3. CASE r.script = "DeployAll"
  BY <1>0, <1>3, DeployAllShape DEF Transactions
<1>4. CASE r.script = "DeployDemo"
  <2>1. Transactions(r) = DeployAll(r.coin, r.id, r.handler, r.by)
             \o Whitelisting(r.coin, r.id, r.handler, r.by)
    BY <1>4 DEF Transactions
  <2>2. Shape(DeployAll(r.coin, r.id, r.handler, r.by), r.coin, r.handler, r.by)
    BY <1>0, DeployAllShape
  <2>3. /\ Whitelisting(r.coin, r.id, r.handler, r.by)
               \in Seq(Of({"modifyPolicyWhitelist"}, r.coin, r.handler, r.by))
        /\ Shape(Whitelisting(r.coin, r.id, r.handler, r.by), r.coin, r.handler, r.by)
    BY <1>0, WhitelistingPiece, QuietShape
  <2> QED  BY <2>1, <2>2, <2>3, ShapeConcat
<1> QED  BY <1>0, <1>1, <1>2, <1>3, <1>4 DEF Script

-----------------------------------------------------------------------------
(* What a script has done stays done while it runs.                         *)

\* A grant that the signer does not take back at the end of the script.
Lasting(tx, c, by) ==
    tx.who # by \/ tx.role \notin AuthorityRoles \/ AdminOf(tx.on, c) = by

\* What a transaction that went through has brought about.
Done(ch, c, by, tx) ==
    /\ tx.op \in {"create", "proxy"} => tx.on \in ch.code
    /\ tx.op = "grantRole" /\ Lasting(tx, c, by) => tx.who \in ch.role[tx.on][tx.role]
    /\ tx.op = "renounceRole" => by \notin ch.role[tx.on][tx.role]
    /\ tx.op = "transferOwnership" => ch.owner[tx.on] = tx.who
    /\ tx.op = "setMaxSupply" => ch.maxSupply[tx.on] = tx.amount
    /\ tx.op = "registerStablecoin" =>
           ch.handler[tx.coin] # None /\ ch.handler[tx.coin] = tx.handler
           /\ ch.txnMintLimit[tx.coin] = tx.limit
    /\ tx.op = "setMinterAllowance" => ch.minterAllowance[tx.coin][tx.who] = tx.amount
    /\ tx.op = "modifyPolicyWhitelist" =>
           PolicyExists(ch, tx.id) /\ tx.who \in PolicyOf(ch, tx.id).member

Progress ==
    running => \A j \in DOMAIN Transactions(run) :
                   j < run.at => Done(chain, run.coin, run.by, Transactions(run)[j])

\* The order in which contracts come to be.
Founded ==
    /\ \A t \in Token : t \in chain.code =>
           /\ {Registry, RL} \subseteq chain.code
           /\ chain.transferPolicyId[t] > 1 /\ chain.mintRecipientPolicyId[t] > 1
    /\ TA \in chain.code => RL \in chain.code

\* What the script found when it started still holds.
Based ==
    running =>
        /\ Required(run) \subseteq chain.code
        /\ run.id > 1
        /\ run.script = "DeployStablecoin" => run.transferId = chain.transferPolicyId[RL]

AtOnceScript == {"DeployAll", "DeployDemo"}

\* How many policies a script makes, and how many before its transaction `at`.
Policies(script) ==
    IF script = "DeployReserveLedger" THEN 2
    ELSE IF script = "DeployStablecoin" THEN 1
    ELSE IF script \in AtOnceScript THEN 3 ELSE 0
Made(script, at) ==
    IF script = "DeployReserveLedger" THEN (IF at = 1 THEN 0 ELSE IF at = 2 THEN 1 ELSE 2)
    ELSE IF script = "DeployStablecoin" THEN (IF at = 1 THEN 0 ELSE 1)
    ELSE IF script \in AtOnceScript
    THEN (IF at <= 2 THEN 0 ELSE IF at = 3 THEN 1 ELSE IF at <= 7 THEN 2 ELSE 3)
    ELSE 0

\* The policies the script has made so far have the ids its fork gave them.
PoliciesMade ==
    ~raced /\ running =>
        LET m == Made(run.script, run.at)
            n == Len(chain.policies)
        IN  /\ n >= run.id - FirstPolicyId + m
            /\ m < Policies(run.script) => n = run.id - FirstPolicyId + m
            /\ \A i \in 1 .. m :
                   chain.policies[run.id - FirstPolicyId + i].admin = PolicyAdmin

\* The mint policies of the tokens there were before the script are older than it.
MintPoliciesOlder ==
    ~raced /\ running =>
        \A t \in Token : t \in chain.code =>
            \/ chain.mintRecipientPolicyId[t] < run.id
            \/ /\ t = RL /\ chain.mintRecipientPolicyId[RL] = run.id + 1
               /\ \/ run.script = "DeployReserveLedger" /\ run.at > 3
                  \/ run.script \in AtOnceScript /\ run.at > 4
            \/ /\ t = run.coin
               /\ \/ run.script = "DeployStablecoin" /\ run.at > 2
                  \/ run.script \in AtOnceScript /\ run.at > 8

ReserveMade ==
    running /\ run.script \in AtOnceScript /\ run.at > 4 =>
        /\ RL \in chain.code
        /\ chain.transferPolicyId[RL] = run.id /\ chain.mintRecipientPolicyId[RL] = run.id + 1

ScriptInv ==
    /\ IInv /\ Progress /\ Founded /\ Based
    /\ RegisteredCanMint /\ AlwaysAdministered
    /\ PoliciesMade /\ MintPoliciesOlder /\ ReserveMade /\ OwnPolicies

\* A policy on the chain has an admin and members.
LEMMA PolicyTyped ==
    ASSUME NEW ch \in Chain, NEW i \in DOMAIN ch.policies
    PROVE  ch.policies[i] \in [admin : People, member : SUBSET Account]
<1> DEFINE S == [admin : People, member : SUBSET Account]
<1>1. ch.policies \in Seq(S)
  BY DEF Chain
<1> HIDE DEF S
<1>2. ch.policies[i] \in S
  BY <1>1, LenProperties, ElementOfSeq
<1> QED  BY <1>2 DEF S

\* A transaction that is accepted is done afterwards.
LEMMA DoneByEffect ==
    ASSUME NEW c \in Coins, NEW h \in Handlers, NEW by \in People, NEW ch \in Chain,
           NEW tx \in Of(Ops, c, h, by), Accepts(ch, by, tx)
    PROVE  Done(Effect(ch, by, tx), c, by, tx)
<1>0. tx \in Transaction
  BY DEF Of
<1> DEFINE e == Effect(ch, by, tx)
<1> HIDE DEF e
<1>1. CASE tx.op \in {"create", "proxy"}
  BY <1>0, <1>1, EffectFields DEF Done, e, CodeChange
<1>2. CASE tx.op = "grantRole"
  <2>1. tx.on \in Proxied /\ tx.role \in Role
    BY <1>0, <1>2, Parameters
  <2>2. tx.who \in e.role[tx.on][tx.role]
    BY <1>0, <1>2, <2>1, EffectFields DEF e, RoleChange
  <2> QED  BY <1>2, <2>2 DEF Done, e
<1>3. CASE tx.op = "renounceRole"
  <2>1. tx.on \in Proxied /\ tx.role \in Role
    BY <1>0, <1>3, Parameters
  <2>2. by \notin e.role[tx.on][tx.role]
    BY <1>0, <1>3, <2>1, EffectFields DEF e, RoleChange
  <2> QED  BY <1>3, <2>2 DEF Done, e
<1>4. CASE tx.op \in {"transferOwnership", "setMaxSupply"}
  <2>1. tx.on \in Token
    BY <1>0, <1>4, Parameters
  <2>2. /\ tx.op = "transferOwnership" => e.owner[tx.on] = tx.who
        /\ tx.op = "setMaxSupply" => e.maxSupply[tx.on] = tx.amount
    BY <1>0, <1>4, <2>1, EffectFields DEF e, TokenChange
  <2> QED  BY <1>4, <2>2 DEF Done, e
<1>5. CASE tx.op = "registerStablecoin"
  <2>1. tx.coin \in Coins /\ tx.handler \in Handlers
    BY <1>0, <1>5, Parameters
  <2>2. e.handler[tx.coin] = tx.handler /\ e.txnMintLimit[tx.coin] = tx.limit
    BY <1>0, <1>5, <2>1, EffectFields DEF e, CoinChange
  <2>3. tx.handler # None
    BY <2>1, DeploymentAssumption
  <2> QED  BY <1>5, <2>2, <2>3 DEF Done, e
<1>6. CASE tx.op = "setMinterAllowance"
  <2>1. tx.coin \in Coins /\ tx.who \in People
    BY <1>0, <1>6, Parameters
  <2>2. e.minterAllowance[tx.coin][tx.who] = tx.amount
    BY <1>0, <1>6, <2>1, EffectFields DEF e, CoinChange
  <2> QED  BY <1>6, <2>2 DEF Done, e
<1>7. CASE tx.op = "createPolicy"
  BY <1>7 DEF Done
<1>8. CASE tx.op = "modifyPolicyWhitelist"
  <2> DEFINE i == tx.id - FirstPolicyId + 1
  <2>1. i \in DOMAIN ch.policies
    BY <1>8 DEF Accepts, PolicyExists
  <2>2. e.policies = [ch.policies EXCEPT ![i].member = @ \cup {tx.who}]
    BY <1>0, <1>8, EffectFields DEF e, PolicyChange
  <2> HIDE DEF i
  <2>3. ch.policies[i] \in [admin : People, member : SUBSET Account]
    BY <2>1, PolicyTyped
  <2>4. i \in DOMAIN e.policies /\ tx.who \in e.policies[i].member
    BY <2>1, <2>2, <2>3
  <2> QED  BY <1>8, <2>4 DEF Done, e, PolicyExists, PolicyOf, i
<1> QED  BY <1>0, <1>1, <1>2, <1>3, <1>4, <1>5, <1>6, <1>7, <1>8, Parameters

\* The policies there are keep their admins, and their members.
LEMMA PoliciesGrow ==
    ASSUME NEW by \in People, NEW ch \in Chain, NEW tx \in Transaction, Accepts(ch, by, tx)
    PROVE  \A i \in DOMAIN ch.policies :
               /\ i \in DOMAIN Effect(ch, by, tx).policies
               /\ Effect(ch, by, tx).policies[i].admin = ch.policies[i].admin
               /\ ch.policies[i].member \subseteq Effect(ch, by, tx).policies[i].member
<1> DEFINE e == Effect(ch, by, tx)
           S == [admin : People, member : SUBSET Account]
<1>0. ch.policies \in Seq(S)
  BY DEF Chain
<1> HIDE DEF e
<1>1. CASE tx.op = "createPolicy"
  <2>1. e.policies = Append(ch.policies, [admin |-> PolicyAdmin, member |-> {}])
    BY <1>1, EffectFields DEF e, PolicyChange
  <2>2. [admin |-> PolicyAdmin, member |-> {}] \in S
    BY DeploymentAssumption
  <2> HIDE DEF S
  <2> QED  BY <1>0, <2>1, <2>2, AppendProperties, LenProperties DEF e
<1>2. CASE tx.op = "modifyPolicyWhitelist"
  <2> DEFINE k == tx.id - FirstPolicyId + 1
  <2>1. e.policies = [ch.policies EXCEPT ![k].member = @ \cup {tx.who}]
    BY <1>2, EffectFields DEF e, PolicyChange
  <2> HIDE DEF k
  <2>2. \A i \in DOMAIN ch.policies : ch.policies[i] \in S
    BY PolicyTyped
  <2> QED  BY <2>1, <2>2 DEF e
<1>3. CASE tx.op \notin {"createPolicy", "modifyPolicyWhitelist"}
  BY <1>3, EffectFields DEF e, PolicyChange
<1> QED  BY <1>1, <1>2, <1>3

\* What is done stays done under any later transaction of the same script.
LEMMA DoneStays ==
    ASSUME NEW c \in Coins, NEW h \in Handlers, NEW by \in People, NEW ch \in Chain,
           NEW a \in Of(Ops, c, h, by), NEW b \in Of(Ops, c, h, by),
           Done(ch, c, by, a), MayFollow(a, b), Accepts(ch, by, b)
    PROVE  Done(Effect(ch, by, b), c, by, a)
<1>0. /\ a \in Transaction /\ b \in Transaction /\ Proper(a, c, h, by) /\ Proper(b, c, h, by)
  BY DEF Of
<1> DEFINE e == Effect(ch, by, b)
<1> HIDE DEF e
<1>r. RoleChange(ch, by, b, e)
  BY <1>0, EffectFields DEF e
<1>1. CASE a.op \in {"create", "proxy"}
  BY <1>0, <1>1, EffectFields DEF Done, e, CodeChange
<1>2. CASE a.op = "grantRole"
  <2>1. a.on \in Proxied /\ a.role \in Role
    BY <1>0, <1>2, Parameters
  <2>2. ASSUME Lasting(a, c, by) PROVE a.who \in e.role[a.on][a.role]
    <3>1. a.who \in ch.role[a.on][a.role]
      BY <1>2, <2>2 DEF Done
    <3>2. ~(b.op = "renounceRole" /\ b.on = a.on /\ b.role = a.role /\ a.who = by)
      BY <1>0, <2>2 DEF Proper, Lasting
    <3> QED  BY <1>r, <2>1, <3>1, <3>2 DEF RoleChange
  <2> QED  BY <1>2, <2>2 DEF Done, e
<1>3. CASE a.op = "renounceRole"
  <2>1. a.on \in Proxied /\ a.role \in Role
    BY <1>0, <1>3, Parameters
  <2>2. by \notin ch.role[a.on][a.role] /\ b.op \in {"renounceRole", "modifyPolicyWhitelist"}
    BY <1>3 DEF Done, MayFollow
  <2>3. by \notin e.role[a.on][a.role]
    BY <1>r, <2>1, <2>2 DEF RoleChange
  <2> QED  BY <1>3, <2>3 DEF Done, e
<1>4. CASE a.op = "transferOwnership"
  <2>1. a.on \in Token /\ ch.owner[a.on] = a.who /\ b.op # "proxy"
    BY <1>0, <1>4, Parameters DEF Done, MayFollow
  <2>2. b.op = "transferOwnership" /\ b.on = a.on => b.who = a.who
    BY <1>0, <1>4 DEF Proper
  <2>3. e.owner[a.on] = a.who
    BY <1>0, <2>1, <2>2, EffectFields DEF e, TokenChange
  <2> QED  BY <1>4, <2>3 DEF Done, e
<1>5. CASE a.op = "setMaxSupply"
  <2>1. a.on \in Token /\ ch.maxSupply[a.on] = a.amount
    BY <1>0, <1>5, Parameters DEF Done
  <2>2. b.op = "setMaxSupply" /\ b.on = a.on => b.amount = a.amount
    BY <1>0, <1>5 DEF Proper
  <2>3. e.maxSupply[a.on] = a.amount
    BY <1>0, <2>1, <2>2, EffectFields DEF e, TokenChange
  <2> QED  BY <1>5, <2>3 DEF Done, e
<1>6. CASE a.op = "registerStablecoin"
  <2>1. /\ a.coin \in Coins /\ ch.handler[a.coin] # None /\ ch.handler[a.coin] = a.handler
        /\ ch.txnMintLimit[a.coin] = a.limit
    BY <1>0, <1>6, Parameters DEF Done
  <2>2. ~(b.op = "registerStablecoin" /\ b.coin = a.coin)
    BY <2>1 DEF Accepts
  <2>3. e.handler[a.coin] = ch.handler[a.coin] /\ e.txnMintLimit[a.coin] = a.limit
    BY <1>0, <2>1, <2>2, EffectFields DEF e, CoinChange
  <2> QED  BY <1>6, <2>1, <2>3 DEF Done, e
<1>7. CASE a.op = "setMinterAllowance"
  <2>1. /\ a.coin \in Coins /\ a.who \in People
        /\ ch.minterAllowance[a.coin][a.who] = a.amount
    BY <1>0, <1>7, Parameters DEF Done
  <2>2. b.op = "setMinterAllowance" => b.amount = a.amount
    BY <1>0, <1>7 DEF Proper
  <2>3. e.minterAllowance[a.coin][a.who] = a.amount
    BY <1>0, <2>1, <2>2, EffectFields DEF e, CoinChange
  <2> QED  BY <1>7, <2>3 DEF Done, e
<1>8. CASE a.op = "createPolicy"
  BY <1>8 DEF Done
<1>9. CASE a.op = "modifyPolicyWhitelist"
  BY <1>0, <1>9, PoliciesGrow DEF Done, e, PolicyExists, PolicyOf
<1> QED  BY <1>0, <1>1, <1>2, <1>3, <1>4, <1>5, <1>6, <1>7, <1>8, <1>9, Parameters

-----------------------------------------------------------------------------
(* The deployments of a script, and where in it they are.                   *)

\* s begins with the deployments d, and contains no others.
Headed(s, d) ==
    /\ s \in Seq(Transaction) /\ Len(d) <= Len(s)
    /\ \A k \in DOMAIN s : IF k <= Len(d) THEN s[k] = d[k] ELSE s[k].op \notin DeployOps

\* A script stays headed by its deployments when others than deployments follow.
LEMMA HeadedConcat ==
    ASSUME NEW d, Len(d) \in Nat, NEW s, Headed(s, d), NEW t \in Seq(Transaction),
           \A i \in DOMAIN t : t[i].op \notin DeployOps
    PROVE  Headed(s \o t, d)
<1>1. s \in Seq(Transaction)
  BY DEF Headed
<1>2. /\ Len(s) \in Nat /\ Len(t) \in Nat /\ DOMAIN s = 1 .. Len(s) /\ DOMAIN t = 1 .. Len(t)
      /\ s \o t \in Seq(Transaction) /\ Len(s \o t) = Len(s) + Len(t)
      /\ DOMAIN (s \o t) = 1 .. (Len(s) + Len(t))
      /\ \A i \in 1 .. Len(s) : (s \o t)[i] = s[i]
      /\ \A i \in 1 .. (Len(s) + Len(t)) :
             ~(i <= Len(s)) => i - Len(s) \in DOMAIN t /\ (s \o t)[i] = t[i - Len(s)]
  BY <1>1, LenProperties, ConcatProperties
<1> DEFINE u == s \o t
<1> HIDE DEF u
<1>3. ASSUME NEW k \in DOMAIN u
      PROVE  IF k <= Len(d) THEN u[k] = d[k] ELSE u[k].op \notin DeployOps
  <2>1. CASE k <= Len(s)
    BY <1>2, <2>1 DEF Headed, u
  <2>2. CASE ~(k <= Len(s))
    BY <1>2, <2>2 DEF Headed, u
  <2> QED  BY <2>1, <2>2
<1> QED  BY <1>2, <1>3 DEF Headed, u

\* Kinds other than deployments deploy nothing.
LEMMA NoDeployment ==
    ASSUME NEW c, NEW h, NEW by, NEW ops, NEW t \in Seq(Of(ops, c, h, by)), ops \cap DeployOps = {}
    PROVE  t \in Seq(Transaction) /\ \A i \in DOMAIN t : t[i].op \notin DeployOps
<1>1. t \in Seq(Transaction)
  BY OfMonotonic
<1>2. \A i \in DOMAIN t : t[i] \in Of(ops, c, h, by)
  BY ElementOfSeq, LenProperties
<1> QED  BY <1>1, <1>2 DEF Of

\* Configuration, handover and whitelisting deploy nothing.
LEMMA EndNoDeployment ==
    ASSUME NEW c \in Coins, NEW h \in Handlers, NEW by \in People
    PROVE  /\ LimitsSupplyHandover(c, by) \in Seq(Of(Ops \ DeployOps, c, h, by))
           /\ ConfigureRoles(c) \in Seq(Of(Ops \ DeployOps, c, h, by))
           /\ RegisterStablecoin(c, h, by) \in Seq(Of(Ops \ DeployOps, c, h, by))
           /\ \A id \in Nat :
                  Whitelisting(c, id, h, by) \in Seq(Of(Ops \ DeployOps, c, h, by))
<1> DEFINE N == Of(Ops \ DeployOps, c, h, by)
<1>1. /\ LimitOps \subseteq Ops \ DeployOps /\ LeavingOps \subseteq Ops \ DeployOps
      /\ {"grantRole"} \subseteq Ops \ DeployOps /\ ConfigOps \subseteq Ops \ DeployOps
      /\ {"modifyPolicyWhitelist"} \subseteq Ops \ DeployOps
  BY DEF Ops, EarlyOps, DeployOps, LimitOps, ConfigOps, LeavingOps
<1>2. /\ ConfigureLimits(c, by) \in Seq(N) /\ ConfigureMaxSupply(c) \in Seq(N)
      /\ ConfigureRoles(c) \in Seq(N) /\ RegisterStablecoin(c, h, by) \in Seq(N)
  BY <1>1, ConfigurePieces, OfMonotonic
<1>3. Handover(c, by) \in Seq(N)
  BY <1>1, HandoverShape, OfMonotonic
<1>4. \A id \in Nat : Whitelisting(c, id, h, by) \in Seq(N)
  BY <1>1, WhitelistingPiece, OfMonotonic
<1> HIDE DEF N
<1>5. LimitsSupplyHandover(c, by) \in Seq(N)
  BY <1>2, <1>3 DEF LimitsSupplyHandover
<1> QED  BY <1>2, <1>4, <1>5 DEF N

\* The entries of a sequence with two appended.
LEMMA ConcatPair ==
    ASSUME NEW S, NEW s \in Seq(S), NEW x \in S, NEW y \in S
    PROVE  /\ s \o <<x, y>> \in Seq(S) /\ Len(s \o <<x, y>>) = Len(s) + 2
           /\ \A i \in 1 .. Len(s) : (s \o <<x, y>>)[i] = s[i]
           /\ (s \o <<x, y>>)[Len(s) + 1] = x /\ (s \o <<x, y>>)[Len(s) + 2] = y
<1> DEFINE p == <<x, y>>
<1>1. p \in Seq(S) /\ Len(p) = 2 /\ p[1] = x /\ p[2] = y
  OBVIOUS
<1> HIDE DEF p
<1>2. Len(s) \in Nat
  BY LenProperties
<1>3. /\ s \o p \in Seq(S) /\ Len(s \o p) = Len(s) + 2
      /\ \A i \in 1 .. Len(s) : (s \o p)[i] = s[i]
      /\ (s \o p)[Len(s) + 1] = p[1] /\ (s \o p)[Len(s) + 2] = p[2]
  <2>0. /\ s \o p \in Seq(S) /\ Len(s \o p) = Len(s) + Len(p)
        /\ \A i \in 1 .. Len(s) + Len(p) :
               (s \o p)[i] = IF i <= Len(s) THEN s[i] ELSE p[i - Len(s)]
    BY <1>1, ConcatProperties, Zenon
  <2>1. /\ s \o p \in Seq(S) /\ Len(s \o p) = Len(s) + 2
        /\ \A i \in 1 .. (Len(s) + 2) :
               (s \o p)[i] = IF i <= Len(s) THEN s[i] ELSE p[i - Len(s)]
    BY <1>1, <2>0
  <2>2. (s \o p)[Len(s) + 1] = p[(Len(s) + 1) - Len(s)]
    BY <1>2, <2>1
  <2>3. (s \o p)[Len(s) + 2] = p[(Len(s) + 2) - Len(s)]
    BY <1>2, <2>1
  <2>4. (Len(s) + 1) - Len(s) = 1 /\ (Len(s) + 2) - Len(s) = 2
    BY <1>2
  <2> QED  BY <1>2, <2>1, <2>2, <2>3, <2>4
<1> QED  BY <1>1, <1>3 DEF p

\* The deployments of DeployAll, one by one.
LEMMA AllDeployedIs ==
    ASSUME NEW c \in Coins, NEW h \in Handlers, NEW id \in Nat
    PROVE  LET d == AllDeployed(c, id, h)
           IN  /\ Len(d) = 8
               /\ d[1] = create(Registry) /\ d[2] = createPolicy /\ d[3] = createPolicy
               /\ d[4] = proxy(RL, id, id + 1)
               /\ d[5] = create(TA) /\ d[6] = create(h) /\ d[7] = createPolicy
               /\ d[8] = proxy(c, id, id + 2)
<1>1. ASSUME NEW a, NEW b, NEW e, NEW f, NEW g, NEW i
      PROVE  LET d == <<a>> \o <<b, b, e>> \o <<f, g>> \o <<b, i>>
             IN  /\ Len(d) = 8
                 /\ d[1] = a /\ d[2] = b /\ d[3] = b /\ d[4] = e
                 /\ d[5] = f /\ d[6] = g /\ d[7] = b /\ d[8] = i
  <2> DEFINE S == {a, b, e, f, g, i}
             one == <<a>> \o <<b, b, e>>
             two == one \o <<f, g>>
             three == two \o <<b, i>>
  <2>1. /\ <<a>> \in Seq(S) /\ <<b, b, e>> \in Seq(S) /\ <<f, g>> \in Seq(S)
        /\ <<b, i>> \in Seq(S)
    OBVIOUS
  <2> HIDE DEF S
  <2>2. /\ one \in Seq(S) /\ Len(one) = 4
        /\ one[1] = a /\ one[2] = b /\ one[3] = b /\ one[4] = e
    BY <2>1, ConcatProperties
  <2> HIDE DEF one
  <2>3. /\ two \in Seq(S) /\ Len(two) = 6
        /\ two[1] = a /\ two[2] = b /\ two[3] = b /\ two[4] = e /\ two[5] = f /\ two[6] = g
    <3>1. f \in S /\ g \in S
      BY DEF S
    <3>2. /\ two \in Seq(S) /\ Len(two) = 4 + 2 /\ \A k \in 1 .. 4 : two[k] = one[k]
          /\ two[4 + 1] = f /\ two[4 + 2] = g
      <4>0. one \in Seq(S)
        BY <2>2
      <4>1. /\ two \in Seq(S) /\ Len(two) = Len(one) + 2
            /\ \A k \in 1 .. Len(one) : two[k] = one[k]
            /\ two[Len(one) + 1] = f /\ two[Len(one) + 2] = g
        BY <4>0, <3>1, ConcatPair
      <4> QED  BY <2>2, <4>1
    <3> QED  BY <2>2, <3>2
  <2> HIDE DEF two
  <2>4. /\ Len(three) = 8
        /\ three[1] = a /\ three[2] = b /\ three[3] = b /\ three[4] = e
        /\ three[5] = f /\ three[6] = g /\ three[7] = b /\ three[8] = i
    <3>1. b \in S /\ i \in S
      BY DEF S
    <3>2. /\ Len(three) = 6 + 2 /\ \A k \in 1 .. 6 : three[k] = two[k]
          /\ three[6 + 1] = b /\ three[6 + 2] = i
      <4>0. two \in Seq(S)
        BY <2>3
      <4>1. /\ Len(three) = Len(two) + 2
            /\ \A k \in 1 .. Len(two) : three[k] = two[k]
            /\ three[Len(two) + 1] = b /\ three[Len(two) + 2] = i
        BY <4>0, <3>1, ConcatPair
      <4> HIDE DEF three
      <4> QED  BY <2>3, <4>1
    <3> HIDE DEF three
    <3> QED  BY <2>3, <3>2
  <2> QED  BY <2>4 DEF one, two
<1>2. AllDeployed(c, id, h) =
          <<create(Registry)>> \o <<createPolicy, createPolicy, proxy(RL, id, id + 1)>>
          \o <<create(TA), create(h)>> \o <<createPolicy, proxy(c, id, id + 2)>>
  BY DEF AllDeployed, DeployReserveLedger, DeployStablecoin, StablecoinMintPolicy
<1> QED  BY <1>1, <1>2

\* DeployAll and DeployDemo start with these deployments.
LEMMA AtOnceHead ==
    ASSUME NEW r \in Working, r.script \in AtOnceScript
    PROVE  Headed(Transactions(r), AllDeployed(r.coin, r.id, r.handler))
<1>0. /\ r.coin \in Coins /\ r.by \in People /\ r.id \in Nat /\ r.handler \in Handlers
  BY DEF Working
<1> DEFINE d == AllDeployed(r.coin, r.id, r.handler)
           N == Of(Ops \ DeployOps, r.coin, r.handler, r.by)
           one == d \o ConfigureRoles(r.coin)
           two == one \o RegisterStablecoin(r.coin, r.handler, r.by)
           three == two \o LimitsSupplyHandover(r.coin, r.by)
           four == three \o Whitelisting(r.coin, r.id, r.handler, r.by)
<1>1. d \in Seq(Transaction) /\ Len(d) \in Nat
  BY <1>0, AllDeployedTyped, OfMonotonic, LenProperties
<1>2. /\ LimitsSupplyHandover(r.coin, r.by) \in Seq(N)
      /\ ConfigureRoles(r.coin) \in Seq(N)
      /\ RegisterStablecoin(r.coin, r.handler, r.by) \in Seq(N)
      /\ Whitelisting(r.coin, r.id, r.handler, r.by) \in Seq(N)
  BY <1>0, EndNoDeployment
<1>3. \A t \in Seq(N) : t \in Seq(Transaction) /\ \A i \in DOMAIN t : t[i].op \notin DeployOps
  BY NoDeployment
<1>4. DeployAll(r.coin, r.id, r.handler, r.by) = three
  BY DeployAllParts
<1>5. Transactions(r) = IF r.script = "DeployAll" THEN three ELSE four
  BY <1>4 DEF Transactions, AtOnceScript
<1> HIDE DEF d, N
<1>6. Headed(d, d)
  BY <1>1, LenProperties DEF Headed
<1>7. Headed(one, d)
  BY <1>1, <1>2, <1>3, <1>6, HeadedConcat
<1> HIDE DEF one
<1>8. Headed(two, d)
  BY <1>1, <1>2, <1>3, <1>7, HeadedConcat
<1> HIDE DEF two
<1>9. Headed(three, d)
  BY <1>1, <1>2, <1>3, <1>8, HeadedConcat
<1> HIDE DEF three
<1>10. Headed(four, d)
  BY <1>1, <1>2, <1>3, <1>9, HeadedConcat
<1> QED  BY <1>5, <1>9, <1>10 DEF d

\* Where a script at once has its deployments.
LEMMA AtOncePositions ==
    ASSUME NEW r \in Working, r.script \in AtOnceScript
    PROVE  LET txs == Transactions(r)
           IN  /\ 1 .. 8 \subseteq DOMAIN txs
               /\ txs[1] = create(Registry) /\ txs[2] = createPolicy /\ txs[3] = createPolicy
               /\ txs[4] = proxy(RL, r.id, r.id + 1)
               /\ txs[5] = create(TA) /\ txs[6] = create(r.handler) /\ txs[7] = createPolicy
               /\ txs[8] = proxy(r.coin, r.id, r.id + 2)
               /\ \A k \in DOMAIN txs : k > 8 => txs[k].op \notin DeployOps
<1>0. /\ r.coin \in Coins /\ r.by \in People /\ r.id \in Nat /\ r.handler \in Handlers
  BY DEF Working
<1> DEFINE d == AllDeployed(r.coin, r.id, r.handler)
           txs == Transactions(r)
<1>1. /\ Len(d) = 8
      /\ d[1] = create(Registry) /\ d[2] = createPolicy /\ d[3] = createPolicy
      /\ d[4] = proxy(RL, r.id, r.id + 1)
      /\ d[5] = create(TA) /\ d[6] = create(r.handler) /\ d[7] = createPolicy
      /\ d[8] = proxy(r.coin, r.id, r.id + 2)
  BY <1>0, AllDeployedIs
<1>2. Headed(txs, d)
  BY AtOnceHead
<1> HIDE DEF d, txs
<1>3. Len(txs) \in Nat /\ DOMAIN txs = 1 .. Len(txs)
  BY <1>2, LenProperties DEF Headed
<1> QED  BY <1>1, <1>2, <1>3 DEF Headed, txs

\* ConfigureAndHandover deploys a handler, and nothing else.
LEMMA ConfigureDeploysHandler ==
    ASSUME NEW r \in Working, r.script = "ConfigureAndHandover", NEW k \in DOMAIN Transactions(r)
    PROVE  Transactions(r)[k].op \in DeployOps => Transactions(r)[k] = create(r.handler)
<1>0. /\ r.coin \in Coins /\ r.by \in People /\ r.handler \in Handlers
  BY DEF Working
<1> DEFINE N == Of(Ops \ DeployOps, r.coin, r.handler, r.by)
           X == N \cup {create(r.handler)}
<1>1. N \subseteq X /\ create(r.handler) \in X
  OBVIOUS
<1>2. /\ LimitsSupplyHandover(r.coin, r.by) \in Seq(N)
      /\ ConfigureRoles(r.coin) \in Seq(N)
      /\ RegisterStablecoin(r.coin, r.handler, r.by) \in Seq(N)
  BY <1>0, EndNoDeployment
<1>3. \A x \in X : x.op \in DeployOps => x = create(r.handler)
  BY DEF Of
<1>4. Transactions(r) = ConfigureRoles(r.coin) \o <<create(r.handler)>>
             \o RegisterStablecoin(r.coin, r.handler, r.by)
             \o LimitsSupplyHandover(r.coin, r.by)
  BY DEF Transactions
<1> HIDE DEF N, X
<1>5. /\ LimitsSupplyHandover(r.coin, r.by) \in Seq(X)
      /\ ConfigureRoles(r.coin) \in Seq(X)
      /\ RegisterStablecoin(r.coin, r.handler, r.by) \in Seq(X)
      /\ <<create(r.handler)>> \in Seq(X)
  BY <1>1, <1>2, SeqMonotonic
<1>6. Transactions(r) \in Seq(X)
  BY <1>4, <1>5
<1>7. Transactions(r)[k] \in X
  BY <1>6, LenProperties, ElementOfSeq
<1> QED  BY <1>3, <1>7

\* The proxies are at these places, with these policy ids.
ProxyAt(r, k, tx) ==
    \/ r.script = "DeployReserveLedger" /\ k = 3 /\ tx = proxy(RL, r.id, r.id + 1)
    \/ r.script = "DeployStablecoin" /\ k = 2 /\ tx = proxy(r.coin, r.transferId, r.id)
    \/ r.script \in AtOnceScript /\ k = 4 /\ tx = proxy(RL, r.id, r.id + 1)
    \/ r.script \in AtOnceScript /\ k = 8 /\ tx = proxy(r.coin, r.id, r.id + 2)

DeploysAt(r, k, tx) ==
    /\ tx.op = "proxy" => ProxyAt(r, k, tx)
    /\ tx.op = "create" /\ tx.on = TA =>
           r.script = "DeployTokenAuthority" \/ (r.script \in AtOnceScript /\ k = 5)
    /\ tx.op = "createPolicy" => Made(r.script, k) < Policies(r.script)
    /\ Made(r.script, k + 1) =
           IF tx.op = "createPolicy" THEN Made(r.script, k) + 1 ELSE Made(r.script, k)

\* Where in its script a policy or a proxy is made, and which one.
LEMMA Deployments ==
    ASSUME NEW r \in Working, NEW k \in DOMAIN Transactions(r)
    PROVE  DeploysAt(r, k, Transactions(r)[k])
<1>0. /\ r.coin \in Coins /\ r.by \in People /\ r.id \in Nat /\ r.transferId \in Nat
      /\ r.handler \in Handlers /\ r.script \in Script
  BY DEF Working
<1>k. k \in Nat \ {0} /\ k \in 1 .. Len(Transactions(r))
  BY TransactionsTyped, LenProperties
<1> DEFINE tx == Transactions(r)[k]
<1>1. CASE r.script = "DeployAuthRegistry"
  <2>1. Transactions(r) = <<create(Registry)>>
    BY <1>1 DEF Transactions
  <2>2. k = 1 /\ tx = create(Registry)
    BY <1>k, <2>1
  <2> QED  BY <1>1, <2>2, Distinct DEF DeploysAt, Made, AtOnceScript, create
<1>2. CASE r.script = "DeployReserveLedger"
  <2>1. Transactions(r) = <<createPolicy, createPolicy, proxy(RL, r.id, r.id + 1)>>
    BY <1>2 DEF Transactions, DeployReserveLedger
  <2>2. \/ k = 1 /\ tx = createPolicy
        \/ k = 2 /\ tx = createPolicy
        \/ k = 3 /\ tx = proxy(RL, r.id, r.id + 1)
    BY <1>k, <2>1
  <2>3. createPolicy.op = "createPolicy" /\ proxy(RL, r.id, r.id + 1).op = "proxy"
    BY DEF createPolicy, proxy
  <2> QED  BY <1>2, <2>2, <2>3 DEF DeploysAt, ProxyAt, Made, Policies
<1>3. CASE r.script = "DeployTokenAuthority"
  <2>1. Transactions(r) = <<create(TA)>>
    BY <1>3 DEF Transactions
  <2>2. k = 1 /\ tx = create(TA)
    BY <1>k, <2>1
  <2> QED  BY <1>3, <2>2 DEF DeploysAt, Made, AtOnceScript, create
<1>4. CASE r.script = "DeployStablecoin"
  <2>1. Transactions(r) = <<createPolicy, proxy(r.coin, r.transferId, r.id)>>
    BY <1>4 DEF Transactions, DeployStablecoin
  <2>2. \/ k = 1 /\ tx = createPolicy
        \/ k = 2 /\ tx = proxy(r.coin, r.transferId, r.id)
    BY <1>k, <2>1
  <2>3. createPolicy.op = "createPolicy" /\ proxy(r.coin, r.transferId, r.id).op = "proxy"
    BY DEF createPolicy, proxy
  <2> QED  BY <1>4, <2>2, <2>3 DEF DeploysAt, ProxyAt, Made, Policies
<1>5. CASE r.script = "ConfigureAndHandover"
  <2>1. tx.op \in DeployOps => tx = create(r.handler)
    BY <1>5, ConfigureDeploysHandler
  <2>2. create(r.handler).op = "create" /\ create(r.handler).on = r.handler
    BY DEF create
  <2>3. r.handler # TA
    BY <1>0, Distinct DEF Proxied
  <2> HIDE DEF tx
  <2>4. tx.op \notin {"proxy", "createPolicy"} /\ ~(tx.op = "create" /\ tx.on = TA)
    BY <2>1, <2>2, <2>3 DEF DeployOps
  <2> QED  BY <1>5, <2>4 DEF DeploysAt, Made, AtOnceScript, tx
<1>6. CASE r.script \in AtOnceScript
  <2>1. \/ k = 1 /\ tx = create(Registry)
        \/ k \in {2, 3, 7} /\ tx = createPolicy
        \/ k = 4 /\ tx = proxy(RL, r.id, r.id + 1)
        \/ k = 5 /\ tx = create(TA)
        \/ k = 6 /\ tx = create(r.handler)
        \/ k = 8 /\ tx = proxy(r.coin, r.id, r.id + 2)
        \/ k > 8 /\ tx.op \notin DeployOps
    BY <1>6, <1>k, AtOncePositions
  <2>2. /\ createPolicy.op = "createPolicy" /\ proxy(RL, r.id, r.id + 1).op = "proxy"
        /\ proxy(r.coin, r.id, r.id + 2).op = "proxy"
        /\ \A x : create(x).op = "create" /\ create(x).on = x
    BY DEF createPolicy, proxy, create
  <2>3. Registry # TA /\ r.handler # TA
    BY <1>0, Distinct DEF Proxied
  <2>4. r.script \notin {"DeployReserveLedger", "DeployStablecoin", "DeployTokenAuthority"}
    BY <1>6 DEF AtOnceScript
  <2> HIDE DEF tx
  <2> QED  BY <1>k, <1>6, <2>1, <2>2, <2>3, <2>4 DEF DeploysAt, ProxyAt, Made, Policies, DeployOps, tx
<1> QED  BY <1>0, <1>1, <1>2, <1>3, <1>4, <1>5, <1>6 DEF Script, AtOnceScript

\* A script that has not made all its policies has one ahead of it.
LEMMA PolicyAhead ==
    ASSUME NEW r \in Working, Made(r.script, r.at) < Policies(r.script)
    PROVE  \E i \in r.at .. Len(Transactions(r)) : Transactions(r)[i].op = "createPolicy"
<1>0. r.at \in Nat \ {0}
  BY DEF Working
<1>o. createPolicy.op = "createPolicy"
  BY DEF createPolicy
<1>1. CASE r.script = "DeployReserveLedger"
  <2>1. Transactions(r) = <<createPolicy, createPolicy, proxy(RL, r.id, r.id + 1)>>
    BY <1>1 DEF Transactions, DeployReserveLedger
  <2>2. r.at <= 2
    BY <1>0, <1>1 DEF Made, Policies
  <2>3. Transactions(r)[2] = createPolicy /\ Len(Transactions(r)) = 3
    BY <2>1
  <2> QED  BY <1>0, <1>o, <2>2, <2>3
<1>2. CASE r.script = "DeployStablecoin"
  <2>1. Transactions(r) = <<createPolicy, proxy(r.coin, r.transferId, r.id)>>
    BY <1>2 DEF Transactions, DeployStablecoin
  <2>2. r.at <= 1
    BY <1>0, <1>2 DEF Made, Policies
  <2>3. Transactions(r)[1] = createPolicy /\ Len(Transactions(r)) = 2
    BY <2>1
  <2> QED  BY <1>0, <1>o, <2>2, <2>3
<1>3. CASE r.script \in AtOnceScript
  <2>1. r.at <= 7
    BY <1>0, <1>3 DEF Made, Policies, AtOnceScript
  <2>2. 7 \in DOMAIN Transactions(r) /\ Transactions(r)[7] = createPolicy
    BY <1>3, AtOncePositions
  <2>3. 7 \in 1 .. Len(Transactions(r)) /\ Len(Transactions(r)) \in Nat
    BY <2>2, TransactionsTyped, LenProperties
  <2> QED  BY <1>0, <1>o, <2>1, <2>2, <2>3
<1>4. CASE r.script \notin AtOnceScript \cup {"DeployReserveLedger", "DeployStablecoin"}
  BY <1>4 DEF Made, Policies
<1> QED  BY <1>1, <1>2, <1>3, <1>4

-----------------------------------------------------------------------------
(* A broadcast transaction keeps the invariant.                             *)

\* The transactions of a run depend on what was fixed when it started.
LEMMA SameTransactions ==
    ASSUME NEW r, NEW q, r.script = q.script, r.coin = q.coin, r.by = q.by, r.id = q.id,
           r.transferId = q.transferId, r.handler = q.handler
    PROVE  Transactions(r) = Transactions(q) /\ Required(r) = Required(q)
BY DEF Transactions, Required

\* What one transaction of a running script does to each field of the chain.
LEMMA BroadcastFacts ==
    ASSUME TypeOK, Broadcast
    PROVE  /\ run \in Working /\ run.at \in DOMAIN Transactions(run)
           /\ chain \in Chain /\ chain' \in Chain /\ run.by \in People
           /\ NextTransaction \in Of(Ops, run.coin, run.handler, run.by)
           /\ NextTransaction \in Transaction
           /\ NextTransaction = Transactions(run)[run.at]
           /\ Accepts(chain, run.by, NextTransaction)
           /\ chain' = Effect(chain, run.by, NextTransaction)
           /\ CodeChange(chain, run.by, NextTransaction, chain')
           /\ RoleChange(chain, run.by, NextTransaction, chain')
           /\ TokenChange(chain, run.by, NextTransaction, chain')
           /\ CoinChange(chain, run.by, NextTransaction, chain')
           /\ PolicyChange(chain, run.by, NextTransaction, chain')
           /\ running' /\ running /\ raced' = raced
           /\ run'.at = run.at + 1 /\ run'.script = run.script /\ run'.coin = run.coin
           /\ run'.by = run.by /\ run'.id = run.id /\ run'.transferId = run.transferId
           /\ run'.handler = run.handler
           /\ Transactions(run') = Transactions(run) /\ Required(run') = Required(run)
<1>1. run \in Working
  BY RunningTyped DEF Broadcast
<1>2. /\ run.at \in DOMAIN Transactions(run) /\ Transactions(run) \in Seq(Transaction)
      /\ run.by \in People
  BY <1>1, TransactionsTyped, LenProperties DEF Broadcast, Working
<1>3. NextTransaction \in Of(Ops, run.coin, run.handler, run.by)
  <2>1. Transactions(run) \in Seq(Of(Ops, run.coin, run.handler, run.by))
    BY <1>1, TransactionsShape DEF Shape
  <2> QED  BY <1>2, <2>1, LenProperties, ElementOfSeq DEF NextTransaction
<1>4. NextTransaction \in Transaction
  BY <1>3 DEF Of
<1>5. /\ Accepts(chain, run.by, NextTransaction) /\ chain \in Chain
      /\ chain' = Effect(chain, run.by, NextTransaction)
  BY DEF Broadcast, TypeOK
<1>6. chain' \in Chain
  BY <1>2, <1>4, <1>5, EffectTyped
<1>7. /\ run'.at = run.at + 1 /\ run'.script = run.script /\ run'.coin = run.coin
      /\ run'.by = run.by /\ run'.id = run.id /\ run'.transferId = run.transferId
      /\ run'.handler = run.handler /\ run'.status = run.status
  BY <1>1 DEF Broadcast, Working
<1>8. Transactions(run') = Transactions(run) /\ Required(run') = Required(run)
  BY <1>7, SameTransactions
<1>9. running /\ running' /\ raced' = raced
  BY <1>7 DEF Broadcast, running
<1> HIDE DEF NextTransaction
<1>10. /\ CodeChange(chain, run.by, NextTransaction, chain')
       /\ RoleChange(chain, run.by, NextTransaction, chain')
       /\ TokenChange(chain, run.by, NextTransaction, chain')
       /\ CoinChange(chain, run.by, NextTransaction, chain')
       /\ PolicyChange(chain, run.by, NextTransaction, chain')
  BY <1>2, <1>4, <1>5, EffectFields
<1> QED  BY <1>1, <1>2, <1>3, <1>4, <1>5, <1>6, <1>7, <1>8, <1>9, <1>10 DEF NextTransaction

\* A transaction of a script adds itself to what the script has done.
LEMMA BroadcastProgress ==
    ASSUME ScriptInv, Broadcast
    PROVE  Progress'
<1> DEFINE txs == Transactions(run)
           tx == NextTransaction
<1>0. TypeOK
  BY DEF ScriptInv, IInv
<1>1. /\ run \in Working /\ run.at \in DOMAIN txs /\ chain \in Chain /\ running
      /\ tx \in Of(Ops, run.coin, run.handler, run.by) /\ tx = txs[run.at]
      /\ Accepts(chain, run.by, tx) /\ chain' = Effect(chain, run.by, tx)
      /\ run'.at = run.at + 1 /\ run'.coin = run.coin /\ run'.by = run.by
      /\ Transactions(run') = txs
  BY <1>0, BroadcastFacts
<1>2. /\ run.coin \in Coins /\ run.handler \in Handlers /\ run.by \in People /\ run.at \in Nat
      /\ DOMAIN txs \subseteq Nat
  BY <1>1, TransactionsTyped, LenProperties DEF Working
<1>3. /\ txs \in Seq(Of(Ops, run.coin, run.handler, run.by)) /\ Ordered(txs)
  BY <1>1, TransactionsShape DEF Shape
<1> HIDE DEF txs, tx
<1>4. SUFFICES ASSUME NEW j \in DOMAIN txs, j < run.at + 1
               PROVE  Done(chain', run.coin, run.by, txs[j])
  BY <1>1 DEF Progress
<1>5. CASE j = run.at
  BY <1>1, <1>2, <1>5, DoneByEffect
<1>6. CASE j < run.at
  <2>1. Done(chain, run.coin, run.by, txs[j])
    BY <1>1, <1>6 DEF ScriptInv, Progress, txs
  <2>2. MayFollow(txs[j], tx)
    BY <1>1, <1>3, <1>6 DEF Ordered
  <2>3. txs[j] \in Of(Ops, run.coin, run.handler, run.by)
    BY <1>3, LenProperties, ElementOfSeq
  <2> QED  BY <1>1, <1>2, <2>1, <2>2, <2>3, DoneStays
<1> QED  BY <1>2, <1>4, <1>5, <1>6

\* Nothing is ever undeployed, and a token's ids are those its proxy was given.
LEMMA BroadcastFounded ==
    ASSUME ScriptInv, Broadcast
    PROVE  Founded' /\ Based'
<1> DEFINE tx == NextTransaction
<1>0. TypeOK /\ Founded /\ Based /\ Progress
  BY DEF ScriptInv, IInv
<1>1. /\ run \in Working /\ run.at \in DOMAIN Transactions(run) /\ running
      /\ tx \in Of(Ops, run.coin, run.handler, run.by) /\ tx = Transactions(run)[run.at]
      /\ tx \in Transaction
      /\ Accepts(chain, run.by, tx)
      /\ CodeChange(chain, run.by, tx, chain') /\ TokenChange(chain, run.by, tx, chain')
      /\ run'.id = run.id /\ run'.script = run.script /\ run'.transferId = run.transferId
      /\ Required(run') = Required(run)
  BY <1>0, BroadcastFacts
<1>2. /\ run.coin \in Coins /\ run.handler \in Handlers /\ run.id \in Nat /\ run.at \in Nat
      /\ RL \in Token /\ run.coin \in Token
  BY <1>1 DEF Working, Token
<1>3. DeploysAt(run, run.at, tx)
  BY <1>1, Deployments
<1> HIDE DEF tx
<1>4. chain.code \subseteq chain'.code
  BY <1>1 DEF CodeChange
<1>5. tx.op = "proxy" => /\ Registry \in chain.code /\ tx.on \notin chain.code
                         /\ tx.on \in Token
                         /\ tx.transferId > 1 /\ tx.mintId > 1
                         /\ tx.on = RL \/ RL \in chain.code
  <2>1. SUFFICES ASSUME tx.op = "proxy"
                 PROVE  /\ Registry \in chain.code /\ tx.on \notin chain.code
                        /\ tx.on \in Token
                        /\ tx.transferId > 1 /\ tx.mintId > 1
                        /\ tx.on = RL \/ RL \in chain.code
    OBVIOUS
  <2>2. Registry \in chain.code /\ tx.on \notin chain.code /\ tx.on \in Token
    BY <1>1, <2>1, Parameters DEF Accepts
  <2>3. ProxyAt(run, run.at, tx)
    BY <1>3, <2>1 DEF DeploysAt
  <2>4. run.id > 1
    BY <1>0, <1>1 DEF Based
  <2>5. CASE tx = proxy(RL, run.id, run.id + 1)
    BY <1>2, <2>2, <2>4, <2>5 DEF proxy
  <2>6. CASE run.script = "DeployStablecoin" /\ tx = proxy(run.coin, run.transferId, run.id)
    <3>1. RL \in chain.code /\ run.transferId = chain.transferPolicyId[RL]
      BY <1>0, <1>1, <2>6 DEF Based, Required
    <3>2. run.transferId > 1
      BY <1>0, <1>2, <3>1 DEF Founded
    <3> QED  BY <2>2, <2>4, <2>6, <3>1, <3>2 DEF proxy
  <2>7. CASE /\ run.script \in AtOnceScript /\ run.at = 8
             /\ tx = proxy(run.coin, run.id, run.id + 2)
    <3>1. Done(chain, run.coin, run.by, proxy(RL, run.id, run.id + 1))
      BY <1>0, <1>1, <2>7, AtOncePositions DEF Progress
    <3>2. RL \in chain.code
      BY <3>1 DEF Done, proxy
    <3> QED  BY <1>2, <2>2, <2>4, <2>7, <3>2 DEF proxy
  <2> QED  BY <2>3, <2>5, <2>6, <2>7 DEF ProxyAt
<1>6. ASSUME NEW t \in Token, t \in chain'.code
      PROVE  t \in chain.code \/ (tx.op = "proxy" /\ t = tx.on)
  <2>1. t \notin {Registry, TA, run.handler}
    BY <1>2, Distinct DEF Proxied
  <2>2. tx.op = "create" => tx.on \in {Registry, TA, run.handler}
    BY <1>1 DEF Of, Proper
  <2> QED  BY <1>1, <1>6, <2>1, <2>2 DEF CodeChange
<1>7. ASSUME NEW t \in Token, t \in chain'.code
      PROVE  /\ {Registry, RL} \subseteq chain'.code
             /\ chain'.transferPolicyId[t] > 1 /\ chain'.mintRecipientPolicyId[t] > 1
  <2>1. CASE t \in chain.code
    <3>1. ~(tx.op = "proxy" /\ t = tx.on)
      BY <1>5, <2>1
    <3>2. /\ chain'.transferPolicyId[t] = chain.transferPolicyId[t]
          /\ chain'.mintRecipientPolicyId[t] = chain.mintRecipientPolicyId[t]
      BY <1>1, <3>1 DEF TokenChange
    <3> QED  BY <1>0, <1>4, <2>1, <3>2 DEF Founded
  <2>2. CASE tx.op = "proxy" /\ t = tx.on
    <3>1. chain'.transferPolicyId[t] > 1 /\ chain'.mintRecipientPolicyId[t] > 1
      BY <1>1, <1>5, <2>2 DEF TokenChange
    <3>2. t \in chain'.code
      BY <1>7
    <3> QED  BY <1>4, <1>5, <2>2, <3>1, <3>2
  <2> QED  BY <1>6, <1>7, <2>1, <2>2
<1>8. TA \in chain'.code => RL \in chain'.code
  <2>1. SUFFICES ASSUME TA \in chain'.code, TA \notin chain.code
                 PROVE  RL \in chain'.code
    BY <1>0, <1>4 DEF Founded
  <2>2. tx.op = "create" /\ tx.on = TA
    BY <1>1, <1>5, <2>1, Distinct DEF CodeChange
  <2>3. run.script = "DeployTokenAuthority" \/ (run.script \in AtOnceScript /\ run.at = 5)
    BY <1>3, <2>2 DEF DeploysAt
  <2>4. CASE run.script = "DeployTokenAuthority"
    BY <1>0, <1>1, <1>4, <2>4 DEF Based, Required
  <2>5. CASE run.script \in AtOnceScript /\ run.at = 5
    <3>1. Done(chain, run.coin, run.by, proxy(RL, run.id, run.id + 1))
      BY <1>0, <1>1, <2>5, AtOncePositions DEF Progress
    <3> QED  BY <1>4, <3>1 DEF Done, proxy
  <2> QED  BY <2>3, <2>4, <2>5
<1>9. Founded'
  BY <1>7, <1>8 DEF Founded
<1>10. Based'
  <2>1. run.script = "DeployStablecoin" => chain'.transferPolicyId[RL] = chain.transferPolicyId[RL]
    <3>1. run.script = "DeployStablecoin" => RL \in chain.code
      BY <1>0, <1>1 DEF Based, Required
    <3> QED  BY <1>1, <1>2, <1>5, <3>1 DEF TokenChange
  <2> QED  BY <1>0, <1>1, <1>4, <2>1 DEF Based
<1> QED  BY <1>9, <1>10

\* The last admin of a token is refused, and TokenAuthority has got another one.
LEMMA BroadcastAdministered ==
    ASSUME ScriptInv, Broadcast
    PROVE  AlwaysAdministered'
<1> DEFINE tx == NextTransaction
           txs == Transactions(run)
<1>0. TypeOK /\ AlwaysAdministered /\ Progress
  BY DEF ScriptInv, IInv
<1>1. /\ run \in Working /\ run.at \in DOMAIN txs /\ running
      /\ tx \in Of(Ops, run.coin, run.handler, run.by) /\ tx = txs[run.at]
      /\ tx \in Transaction /\ chain \in Chain
      /\ Accepts(chain, run.by, tx)
      /\ CodeChange(chain, run.by, tx, chain') /\ RoleChange(chain, run.by, tx, chain')
  BY <1>0, BroadcastFacts
<1>2. run.coin \in Coins /\ run.at \in Nat /\ DOMAIN txs \subseteq Nat
  BY <1>1, TransactionsTyped, LenProperties DEF Working
<1>3. Guarded(txs, {renounceRole(TA, "ADMIN")},
              {grantRole(TA, "ADMIN", Config[run.coin].tokenAuthorityAdmin)})
  BY <1>1, TransactionsShape DEF Shape, Guards
<1> HIDE DEF tx, txs
<1>4. SUFFICES ASSUME NEW t \in Proxied, t \in chain'.code
               PROVE  chain'.role[t]["ADMIN"] # {}
  BY DEF AlwaysAdministered
<1>5. "ADMIN" \in Role
  BY DEF Role
<1>6. CASE tx.op \in {"create", "proxy"} /\ t = tx.on
  BY <1>1, <1>5, <1>6 DEF RoleChange
<1>7. CASE ~(tx.op \in {"create", "proxy"} /\ t = tx.on)
  <2>1. t \in chain.code /\ chain.role[t]["ADMIN"] # {}
    BY <1>0, <1>1, <1>4, <1>7 DEF CodeChange, AlwaysAdministered
  <2>2. CASE ~(tx.op = "renounceRole" /\ tx.on = t /\ tx.role = "ADMIN")
    BY <1>1, <1>5, <1>7, <2>1, <2>2 DEF RoleChange
  <2>3. CASE tx.op = "renounceRole" /\ tx.on = t /\ tx.role = "ADMIN"
    <3>1. chain'.role[t]["ADMIN"] = chain.role[t]["ADMIN"] \ {run.by}
      BY <1>1, <1>5, <2>3 DEF RoleChange
    <3>2. CASE t \in Token
      <4>1. Cardinality(chain.role[t]["ADMIN"]) > 1
        BY <1>1, <2>3, <3>2 DEF Accepts
      <4>2. chain.role[t]["ADMIN"] # {run.by} /\ chain.role[t]["ADMIN"] # {}
        <5> DEFINE A == chain.role[t]["ADMIN"]
        <5> HIDE DEF A
        <5>1. A = {run.by} => Cardinality(A) = 1
          BY FS_Singleton
        <5>2. A = {} => Cardinality(A) = 0
          BY FS_EmptySet
        <5>3. Cardinality(A) > 1
          BY <4>1 DEF A
        <5> QED  BY <5>1, <5>2, <5>3 DEF A
      <4> QED  BY <3>1, <4>2
    <3>3. CASE t = TA
      <4>1. tx = renounceRole(TA, "ADMIN")
        BY <1>1, <2>3, <3>3 DEF Transaction, renounceRole
      <4>2. PICK j \in DOMAIN txs : /\ j < run.at
                                    /\ txs[j] = grantRole(TA, "ADMIN", Config[run.coin].tokenAuthorityAdmin)
        BY <1>1, <1>3, <4>1 DEF Guarded
      <4>3. Config[run.coin].tokenAuthorityAdmin # run.by
        BY <1>1, <2>3, <3>3, Distinct DEF Of, Proper, AdminOf
      <4>4. Done(chain, run.coin, run.by, txs[j])
        BY <1>0, <1>1, <4>2 DEF Progress, txs
      <4>5. Config[run.coin].tokenAuthorityAdmin \in chain.role[TA]["ADMIN"]
        BY <4>2, <4>3, <4>4 DEF Done, Lasting, grantRole
      <4> QED  BY <3>1, <3>3, <4>3, <4>5
    <3> QED  BY <3>2, <3>3 DEF Proxied
  <2> QED  BY <2>2, <2>3
<1> QED  BY <1>6, <1>7

\* A coin is registered only with a handler that may mint both tokens, and no
\* later transaction takes that from it.
LEMMA BroadcastRegistered ==
    ASSUME ScriptInv, Broadcast
    PROVE  RegisteredCanMint'
<1> DEFINE tx == NextTransaction
           txs == Transactions(run)
<1>0. TypeOK /\ RegisteredCanMint /\ Progress
  BY DEF ScriptInv, IInv
<1>1. /\ run \in Working /\ run.at \in DOMAIN txs /\ running
      /\ tx \in Of(Ops, run.coin, run.handler, run.by) /\ tx = txs[run.at]
      /\ tx \in Transaction /\ chain \in Chain
      /\ RoleChange(chain, run.by, tx, chain') /\ CoinChange(chain, run.by, tx, chain')
  BY <1>0, BroadcastFacts
<1>2. run.coin \in Coins /\ run.at \in Nat /\ DOMAIN txs \subseteq Nat
  BY <1>1, TransactionsTyped, LenProperties DEF Working
<1>3. \A t \in {RL, run.coin} :
          Guarded(txs, {registerStablecoin(run.coin, run.handler, Config[run.coin].txnMintLimit)},
                  {grantRole(t, "MINTER", run.handler)})
  BY <1>1, TransactionsShape DEF Shape, Guards
<1> HIDE DEF tx, txs
<1>4. \A t \in Proxied : chain.role[t]["MINTER"] \subseteq chain'.role[t]["MINTER"]
  <2>1. tx.op = "renounceRole" => tx.role # "MINTER"
    BY <1>1 DEF Of, Proper, AuthorityRoles
  <2>2. "MINTER" \in Role
    BY DEF Role
  <2> QED  BY <1>1, <2>1, <2>2 DEF RoleChange
<1>5. SUFFICES ASSUME NEW c \in Coins, chain'.handler[c] # None
               PROVE  \A t \in {RL, c} : chain'.handler[c] \in chain'.role[t]["MINTER"]
  BY DEF RegisteredCanMint, Configured
<1>6. RL \in Proxied /\ c \in Proxied
  BY DEF Proxied, Token
<1>7. CASE tx.op = "registerStablecoin" /\ tx.coin = c
  <2>1. /\ c = run.coin /\ tx.handler = run.handler /\ tx.limit = Config[c].txnMintLimit
    BY <1>1, <1>7 DEF Of, Proper
  <2>2. tx = registerStablecoin(run.coin, run.handler, Config[run.coin].txnMintLimit)
    BY <1>1, <1>7, <2>1 DEF Transaction, registerStablecoin
  <2>3. chain'.handler[c] = run.handler
    BY <1>1, <1>7, <2>1 DEF CoinChange
  <2>4. ASSUME NEW t \in {RL, c}
        PROVE  run.handler \in chain.role[t]["MINTER"]
    <3>1. PICK j \in DOMAIN txs : j < run.at /\ txs[j] = grantRole(t, "MINTER", run.handler)
      BY <1>1, <1>3, <2>1, <2>2 DEF Guarded
    <3>2. Done(chain, run.coin, run.by, txs[j])
      BY <1>0, <1>1, <3>1 DEF Progress, txs
    <3> QED  BY <3>1, <3>2 DEF Done, Lasting, grantRole, AuthorityRoles
  <2> QED  BY <1>4, <1>6, <2>3, <2>4
<1>8. CASE ~(tx.op = "registerStablecoin" /\ tx.coin = c)
  <2>1. chain'.handler[c] = chain.handler[c]
    BY <1>1, <1>8 DEF CoinChange
  <2>2. \A t \in {RL, c} : chain.handler[c] \in chain.role[t]["MINTER"]
    BY <1>0, <1>5, <2>1 DEF RegisteredCanMint, Configured
  <2> QED  BY <1>4, <1>6, <2>1, <2>2
<1> QED  BY <1>7, <1>8

\* The policies a run counts on are those it has created.
LEMMA BroadcastPoliciesMade ==
    ASSUME ScriptInv, Broadcast
    PROVE  PoliciesMade'
<1> DEFINE tx == NextTransaction
           m == Made(run.script, run.at)
           m1 == Made(run.script, run.at + 1)
           base == run.id - FirstPolicyId
<1>0. TypeOK /\ PoliciesMade /\ Based
  BY DEF ScriptInv, IInv
<1>1. /\ run \in Working /\ run.at \in DOMAIN Transactions(run) /\ running
      /\ tx = Transactions(run)[run.at] /\ tx \in Transaction
      /\ chain \in Chain /\ chain' \in Chain /\ run.by \in People
      /\ Accepts(chain, run.by, tx) /\ chain' = Effect(chain, run.by, tx)
      /\ PolicyChange(chain, run.by, tx, chain')
      /\ run'.at = run.at + 1 /\ run'.script = run.script /\ run'.id = run.id
      /\ raced' = raced
  BY <1>0, BroadcastFacts
<1>2. DeploysAt(run, run.at, tx)
  BY <1>1, Deployments
<1>3. m \in 0 .. 3 /\ run.id \in Nat /\ run.id > 1 /\ base \in Nat
  BY <1>0, <1>1 DEF Made, Working, Based, FirstPolicyId
<1>4. /\ Len(chain.policies) \in Nat /\ DOMAIN chain.policies = 1 .. Len(chain.policies)
      /\ Len(chain'.policies) \in Nat /\ DOMAIN chain'.policies = 1 .. Len(chain'.policies)
  BY <1>1, LenProperties DEF Chain
<1>5. \A i \in DOMAIN chain.policies : chain'.policies[i].admin = chain.policies[i].admin
  BY <1>1, PoliciesGrow
<1> HIDE DEF tx, m, m1, base
<1>6. SUFFICES ASSUME ~raced
               PROVE  /\ Len(chain'.policies) >= base + m1
                      /\ m1 < Policies(run.script) => Len(chain'.policies) = base + m1
                      /\ \A i \in 1 .. m1 : chain'.policies[base + i].admin = PolicyAdmin
  BY <1>1 DEF PoliciesMade, base, m1
<1>7. /\ Len(chain.policies) >= base + m
      /\ m < Policies(run.script) => Len(chain.policies) = base + m
      /\ \A i \in 1 .. m : chain.policies[base + i].admin = PolicyAdmin
  BY <1>0, <1>1, <1>6 DEF PoliciesMade, m, base
<1>8. \A i \in 1 .. m : chain'.policies[base + i].admin = PolicyAdmin
  <2>1. ASSUME NEW i \in 1 .. m
        PROVE  base + i \in DOMAIN chain.policies
    BY <1>3, <1>4, <1>7
  <2> QED  BY <1>5, <1>7, <2>1
<1>9. CASE tx.op = "createPolicy"
  <2> DEFINE new == [admin |-> PolicyAdmin, member |-> {}]
             S == [admin : People, member : SUBSET Account]
  <2>1. m1 = m + 1 /\ m < Policies(run.script)
    BY <1>2, <1>9 DEF DeploysAt, m, m1
  <2>2. chain'.policies = Append(chain.policies, new)
    BY <1>1, <1>9 DEF PolicyChange
  <2>3. new \in S /\ chain.policies \in Seq(S) /\ new.admin = PolicyAdmin
    BY <1>1, DeploymentAssumption DEF Chain
  <2> HIDE DEF new, S
  <2>4. /\ Len(chain'.policies) = Len(chain.policies) + 1
        /\ chain'.policies[Len(chain.policies) + 1] = new
    BY <2>2, <2>3, AppendProperties
  <2>5. Len(chain.policies) = base + m
    BY <1>7, <2>1
  <2>6. chain'.policies[base + (m + 1)].admin = PolicyAdmin
    <3>1. base + (m + 1) = Len(chain.policies) + 1
      BY <1>3, <2>5
    <3> QED  BY <2>3, <2>4, <3>1
  <2>7. Len(chain'.policies) = base + (m + 1)
    BY <1>3, <2>4, <2>5
  <2>8. \A i \in 1 .. (m + 1) : chain'.policies[base + i].admin = PolicyAdmin
    <3>1. \A i \in 1 .. (m + 1) : i \in 1 .. m \/ i = m + 1
      BY <1>3
    <3> QED  BY <1>8, <2>6, <3>1
  <2> QED  BY <1>3, <2>1, <2>7, <2>8
<1>10. CASE tx.op # "createPolicy"
  <2>1. m1 = m
    BY <1>2, <1>10 DEF DeploysAt, m, m1
  <2>2. Len(chain'.policies) = Len(chain.policies)
    <3>1. CASE tx.op = "modifyPolicyWhitelist"
      <4>1. DOMAIN chain'.policies = DOMAIN chain.policies
        BY <1>1, <3>1 DEF PolicyChange
      <4> QED  BY <1>4, <4>1
    <3>2. CASE tx.op # "modifyPolicyWhitelist"
      BY <1>1, <1>10, <3>2 DEF PolicyChange
    <3> QED  BY <3>1, <3>2
  <2> QED  BY <1>7, <1>8, <2>1, <2>2
<1> QED  BY <1>9, <1>10

\* A token's ids change with its proxy only.
LEMMA BroadcastIds ==
    ASSUME ScriptInv, Broadcast
    PROVE  /\ \A t \in Token : t \in chain'.code =>
                  \/ /\ t \in chain.code
                     /\ chain'.transferPolicyId[t] = chain.transferPolicyId[t]
                     /\ chain'.mintRecipientPolicyId[t] = chain.mintRecipientPolicyId[t]
                  \/ /\ t \notin chain.code /\ t = NextTransaction.on
                     /\ ProxyAt(run, run.at, NextTransaction)
                     /\ chain'.transferPolicyId[t] = NextTransaction.transferId
                     /\ chain'.mintRecipientPolicyId[t] = NextTransaction.mintId
           /\ chain.code \subseteq chain'.code
           /\ ProxyAt(run, run.at, NextTransaction) =>
                  /\ NextTransaction.on \in Token /\ NextTransaction.on \notin chain.code
                  /\ NextTransaction.on \in chain'.code
<1> DEFINE tx == NextTransaction
<1>0. TypeOK
  BY DEF ScriptInv, IInv
<1>1. /\ run \in Working /\ run.at \in DOMAIN Transactions(run)
      /\ tx \in Of(Ops, run.coin, run.handler, run.by) /\ tx = Transactions(run)[run.at]
      /\ tx \in Transaction /\ Accepts(chain, run.by, tx)
      /\ CodeChange(chain, run.by, tx, chain') /\ TokenChange(chain, run.by, tx, chain')
  BY <1>0, BroadcastFacts
<1>2. run.handler \in Handlers
  BY <1>1 DEF Working
<1>3. tx.op = "proxy" => ProxyAt(run, run.at, tx)
  BY <1>1, Deployments DEF DeploysAt
<1>4. ProxyAt(run, run.at, tx) => tx.op = "proxy"
  BY DEF ProxyAt, proxy
<1> HIDE DEF tx
<1>5. tx.op = "proxy" => tx.on \in Token /\ tx.on \notin chain.code
  BY <1>1, Parameters DEF Accepts
<1>6. chain.code \subseteq chain'.code
  BY <1>1 DEF CodeChange
<1>7. ASSUME NEW t \in Token, t \in chain'.code
      PROVE  t \in chain.code \/ (tx.op = "proxy" /\ t = tx.on)
  <2>1. t \notin {Registry, TA, run.handler}
    BY <1>2, Distinct DEF Proxied
  <2>2. tx.op = "create" => tx.on \in {Registry, TA, run.handler}
    BY <1>1 DEF Of, Proper
  <2> QED  BY <1>1, <1>7, <2>1, <2>2 DEF CodeChange
<1>8. tx.op = "proxy" => tx.on \in chain'.code
  BY <1>1 DEF CodeChange
<1>9. ASSUME NEW t \in Token, t \in chain'.code
      PROVE  \/ /\ t \in chain.code
                /\ chain'.transferPolicyId[t] = chain.transferPolicyId[t]
                /\ chain'.mintRecipientPolicyId[t] = chain.mintRecipientPolicyId[t]
             \/ /\ t \notin chain.code /\ t = tx.on
                /\ ProxyAt(run, run.at, tx)
                /\ chain'.transferPolicyId[t] = tx.transferId
                /\ chain'.mintRecipientPolicyId[t] = tx.mintId
  BY <1>1, <1>3, <1>5, <1>7, <1>9 DEF TokenChange
<1> QED  BY <1>4, <1>5, <1>6, <1>8, <1>9 DEF tx

\* The proxy of RL is there once the run is past its initialisation.
LEMMA BroadcastReserveMade ==
    ASSUME ScriptInv, Broadcast
    PROVE  ReserveMade'
<1> DEFINE tx == NextTransaction
<1>0. TypeOK /\ ReserveMade
  BY DEF ScriptInv, IInv
<1>1. /\ run \in Working /\ running /\ tx = Transactions(run)[run.at]
      /\ run'.at = run.at + 1 /\ run'.script = run.script /\ run'.id = run.id
  BY <1>0, BroadcastFacts
<1>2. run.at \in Nat /\ run.id \in Nat /\ RL \in Token
  BY <1>1 DEF Working, Token
<1>3. SUFFICES ASSUME run.script \in AtOnceScript, run.at + 1 > 4
               PROVE  /\ RL \in chain'.code /\ chain'.transferPolicyId[RL] = run.id
                      /\ chain'.mintRecipientPolicyId[RL] = run.id + 1
  BY <1>1 DEF ReserveMade
<1>4. CASE run.at = 4
  <2>1. tx = proxy(RL, run.id, run.id + 1)
    BY <1>1, <1>3, <1>4, AtOncePositions
  <2>2. ProxyAt(run, run.at, tx)
    BY <1>3, <1>4, <2>1 DEF ProxyAt
  <2>3. tx.on = RL /\ tx.transferId = run.id /\ tx.mintId = run.id + 1
    BY <2>1 DEF proxy
  <2> QED  BY <1>2, <2>2, <2>3, BroadcastIds
<1>5. CASE run.at > 4
  <2>1. /\ RL \in chain.code /\ chain.transferPolicyId[RL] = run.id
        /\ chain.mintRecipientPolicyId[RL] = run.id + 1
    BY <1>0, <1>1, <1>3, <1>5 DEF ReserveMade
  <2> QED  BY <1>2, <2>1, BroadcastIds
<1> QED  BY <1>2, <1>3, <1>4, <1>5

\* The mint policies of the tokens were made before those the run makes next.
LEMMA BroadcastMintPolicies ==
    ASSUME ScriptInv, Broadcast
    PROVE  MintPoliciesOlder'
<1> DEFINE tx == NextTransaction
<1>0. TypeOK /\ MintPoliciesOlder
  BY DEF ScriptInv, IInv
<1>1. /\ run \in Working /\ running
      /\ run'.at = run.at + 1 /\ run'.script = run.script /\ run'.id = run.id
      /\ run'.coin = run.coin /\ raced' = raced
  BY <1>0, BroadcastFacts
<1>2. run.at \in Nat /\ run.id \in Nat /\ RL \in Token
  BY <1>1 DEF Working, Token
<1> HIDE DEF tx
<1>3. SUFFICES ASSUME ~raced, NEW t \in Token, t \in chain'.code
               PROVE  \/ chain'.mintRecipientPolicyId[t] < run.id
                      \/ /\ t = RL /\ chain'.mintRecipientPolicyId[RL] = run.id + 1
                         /\ \/ run.script = "DeployReserveLedger" /\ run.at + 1 > 3
                            \/ run.script \in AtOnceScript /\ run.at + 1 > 4
                      \/ /\ t = run.coin
                         /\ \/ run.script = "DeployStablecoin" /\ run.at + 1 > 2
                            \/ run.script \in AtOnceScript /\ run.at + 1 > 8
  BY <1>1 DEF MintPoliciesOlder
<1>4. CASE t \in chain.code /\ chain'.mintRecipientPolicyId[t] = chain.mintRecipientPolicyId[t]
  BY <1>0, <1>1, <1>2, <1>3, <1>4 DEF MintPoliciesOlder
<1>5. CASE /\ t = tx.on /\ ProxyAt(run, run.at, tx)
           /\ chain'.mintRecipientPolicyId[t] = tx.mintId
  <2>1. CASE /\ tx = proxy(RL, run.id, run.id + 1)
             /\ \/ run.script = "DeployReserveLedger" /\ run.at = 3
                \/ run.script \in AtOnceScript /\ run.at = 4
    <3>1. t = RL /\ chain'.mintRecipientPolicyId[RL] = run.id + 1
      BY <1>5, <2>1 DEF proxy
    <3> QED  BY <2>1, <3>1
  <2>2. CASE /\ tx.on = run.coin
             /\ \/ run.script = "DeployStablecoin" /\ run.at = 2
                \/ run.script \in AtOnceScript /\ run.at = 8
    BY <1>5, <2>2
  <2>3. /\ proxy(run.coin, run.transferId, run.id).on = run.coin
        /\ proxy(run.coin, run.id, run.id + 2).on = run.coin
    BY DEF proxy
  <2> QED  BY <1>5, <2>1, <2>2, <2>3 DEF ProxyAt
<1> QED  BY <1>3, <1>4, <1>5, BroadcastIds DEF tx

\* The ids of a new proxy are those of policies of the policy admin, the mint
\* policy being nobody else's.
LEMMA NewProxyOwn ==
    ASSUME ScriptInv, Broadcast, ~raced, ProxyAt(run, run.at, NextTransaction)
    PROVE  LET tx == NextTransaction
           IN  /\ \A id \in {tx.transferId, tx.mintId} :
                      PolicyExists(chain, id) /\ PolicyOf(chain, id).admin = PolicyAdmin
               /\ tx.on = RL \/ (RL \in chain.code /\ tx.transferId = chain.transferPolicyId[RL])
               /\ \A u \in Token : u \in chain.code => chain.mintRecipientPolicyId[u] # tx.mintId
<1> DEFINE tx == NextTransaction
           base == run.id - FirstPolicyId
           m == Made(run.script, run.at)
<1>0. /\ TypeOK /\ Founded /\ Based /\ PoliciesMade /\ MintPoliciesOlder /\ ReserveMade
      /\ OwnPolicies
  BY DEF ScriptInv, IInv
<1>1. /\ run \in Working /\ running /\ chain \in Chain
      /\ tx.on \in Token /\ tx.on \notin chain.code
  BY <1>0, BroadcastFacts, BroadcastIds
<1>2. /\ run.at \in Nat /\ run.id \in Nat /\ run.id > 1 /\ run.coin \in Coins
      /\ RL \in Token /\ base \in Nat /\ run.coin # RL
  BY <1>0, <1>1, Distinct DEF Working, Token, Based, FirstPolicyId
<1>3. /\ Len(chain.policies) \in Nat /\ DOMAIN chain.policies = 1 .. Len(chain.policies)
  BY <1>1, LenProperties DEF Chain
<1>4. m \in 0 .. 3 /\ Len(chain.policies) >= base + m
      /\ \A i \in 1 .. m : chain.policies[base + i].admin = PolicyAdmin
  BY <1>0, <1>1 DEF PoliciesMade, Made
<1>5. ASSUME NEW i \in 1 .. m
      PROVE  /\ PolicyExists(chain, run.id + (i - 1))
             /\ PolicyOf(chain, run.id + (i - 1)).admin = PolicyAdmin
  <2>1. (run.id + (i - 1)) - FirstPolicyId + 1 = base + i
    BY <1>2, <1>4 DEF FirstPolicyId
  <2>2. base + i \in DOMAIN chain.policies
    BY <1>2, <1>3, <1>4
  <2> QED  BY <1>4, <2>1, <2>2 DEF PolicyExists, PolicyOf
<1>6. ASSUME NEW u \in Token, u \in chain.code
      PROVE  \/ chain.mintRecipientPolicyId[u] < run.id
             \/ /\ u = RL /\ chain.mintRecipientPolicyId[u] = run.id + 1
                /\ run.script \in AtOnceScript /\ run.at > 4
             \/ run.script = "DeployReserveLedger"
             \/ run.script = "DeployStablecoin" /\ run.at > 2
             \/ run.script \in AtOnceScript /\ run.at > 8
  BY <1>0, <1>1, <1>6 DEF MintPoliciesOlder
<1>7. \A u \in Token : chain.mintRecipientPolicyId[u] \in Nat
  BY <1>1 DEF Chain
<1> HIDE DEF base
<1>8. CASE /\ tx = proxy(RL, run.id, run.id + 1)
           /\ \/ run.script = "DeployReserveLedger" /\ run.at = 3
              \/ run.script \in AtOnceScript /\ run.at = 4
  <2>1. tx.on = RL /\ tx.transferId = run.id /\ tx.mintId = run.id + 1
    BY <1>8 DEF proxy
  <2>2. m = 2
    BY <1>8 DEF Made, AtOnceScript
  <2>3. /\ PolicyExists(chain, run.id) /\ PolicyOf(chain, run.id).admin = PolicyAdmin
        /\ PolicyExists(chain, run.id + 1) /\ PolicyOf(chain, run.id + 1).admin = PolicyAdmin
    <3>1. 1 \in 1 .. m /\ 2 \in 1 .. m /\ run.id + (1 - 1) = run.id /\ run.id + (2 - 1) = run.id + 1
      BY <1>2, <2>2
    <3> HIDE DEF m
    <3> QED  BY <1>5, <3>1
  <2>4. \A u \in Token : u \notin chain.code
    BY <1>0, <1>1, <2>1 DEF Founded
  <2> QED  BY <2>1, <2>3, <2>4
<1>9. CASE /\ tx = proxy(run.coin, run.transferId, run.id)
           /\ run.script = "DeployStablecoin" /\ run.at = 2
  <2>1. tx.on = run.coin /\ tx.transferId = run.transferId /\ tx.mintId = run.id
    BY <1>9 DEF proxy
  <2>2. m = 1
    BY <1>9 DEF Made, AtOnceScript
  <2>3. PolicyExists(chain, run.id) /\ PolicyOf(chain, run.id).admin = PolicyAdmin
    <3>1. 1 \in 1 .. m /\ run.id + (1 - 1) = run.id
      BY <1>2, <2>2
    <3> HIDE DEF m
    <3> QED  BY <1>5, <3>1
  <2>4. RL \in chain.code /\ run.transferId = chain.transferPolicyId[RL]
    BY <1>0, <1>1, <1>9 DEF Based, Required
  <2>5. /\ PolicyExists(chain, run.transferId)
        /\ PolicyOf(chain, run.transferId).admin = PolicyAdmin
    BY <1>0, <1>2, <2>4 DEF OwnPolicies
  <2>6. \A u \in Token : u \in chain.code => chain.mintRecipientPolicyId[u] < run.id
    BY <1>6, <1>9 DEF AtOnceScript
  <2> QED  BY <1>2, <1>7, <2>1, <2>3, <2>4, <2>5, <2>6
<1>10. CASE /\ tx = proxy(run.coin, run.id, run.id + 2)
            /\ run.script \in AtOnceScript /\ run.at = 8
  <2>1. tx.on = run.coin /\ tx.transferId = run.id /\ tx.mintId = run.id + 2
    BY <1>10 DEF proxy
  <2>2. m = 3
    BY <1>10 DEF Made, AtOnceScript
  <2>3. /\ PolicyExists(chain, run.id) /\ PolicyOf(chain, run.id).admin = PolicyAdmin
        /\ PolicyExists(chain, run.id + 2) /\ PolicyOf(chain, run.id + 2).admin = PolicyAdmin
    <3>1. 1 \in 1 .. m /\ 3 \in 1 .. m /\ run.id + (1 - 1) = run.id /\ run.id + (3 - 1) = run.id + 2
      BY <1>2, <2>2
    <3> HIDE DEF m
    <3> QED  BY <1>5, <3>1
  <2>4. RL \in chain.code /\ run.id = chain.transferPolicyId[RL]
    BY <1>0, <1>1, <1>10 DEF ReserveMade
  <2>5. \A u \in Token : u \in chain.code => chain.mintRecipientPolicyId[u] # run.id + 2
    <3>1. \A u \in Token : u \in chain.code =>
              chain.mintRecipientPolicyId[u] < run.id \/ chain.mintRecipientPolicyId[u] = run.id + 1
      BY <1>6, <1>10 DEF AtOnceScript
    <3> QED  BY <1>2, <1>7, <3>1
  <2> QED  BY <2>1, <2>3, <2>4, <2>5
<1> QED  BY <1>8, <1>9, <1>10 DEF ProxyAt

\* A new proxy gets the transfer policy of RL and a mint policy of its own.
LEMMA BroadcastOwnPolicies ==
    ASSUME ScriptInv, Broadcast
    PROVE  OwnPolicies'
<1> DEFINE tx == NextTransaction
<1>0. TypeOK /\ Founded /\ OwnPolicies
  BY DEF ScriptInv, IInv
<1>1. /\ chain \in Chain /\ chain' \in Chain /\ run.by \in People /\ tx \in Transaction
      /\ Accepts(chain, run.by, tx) /\ chain' = Effect(chain, run.by, tx) /\ raced' = raced
  BY <1>0, BroadcastFacts
<1>2. ASSUME NEW id, PolicyExists(chain, id), PolicyOf(chain, id).admin = PolicyAdmin
      PROVE  PolicyExists(chain', id) /\ PolicyOf(chain', id).admin = PolicyAdmin
  BY <1>1, <1>2, PoliciesGrow DEF PolicyExists, PolicyOf
<1>3. RL \in Token
  BY DEF Token
<1> HIDE DEF tx
<1>4. SUFFICES ASSUME ~raced, NEW t \in Token, t \in chain'.code
               PROVE  /\ PolicyExists(chain', chain'.transferPolicyId[t])
                      /\ PolicyExists(chain', chain'.mintRecipientPolicyId[t])
                      /\ PolicyOf(chain', chain'.transferPolicyId[t]).admin = PolicyAdmin
                      /\ PolicyOf(chain', chain'.mintRecipientPolicyId[t]).admin = PolicyAdmin
                      /\ chain'.transferPolicyId[t] = chain'.transferPolicyId[RL]
                      /\ \A u \in Token : u \in chain'.code /\ u # t =>
                             chain'.mintRecipientPolicyId[t] # chain'.mintRecipientPolicyId[u]
  BY <1>1 DEF OwnPolicies
<1>5. \A u \in Token : u \in chain'.code =>
          \/ /\ u \in chain.code
             /\ chain'.transferPolicyId[u] = chain.transferPolicyId[u]
             /\ chain'.mintRecipientPolicyId[u] = chain.mintRecipientPolicyId[u]
          \/ /\ u \notin chain.code /\ u = tx.on /\ ProxyAt(run, run.at, tx)
             /\ chain'.transferPolicyId[u] = tx.transferId
             /\ chain'.mintRecipientPolicyId[u] = tx.mintId
  BY BroadcastIds DEF tx
<1>6. ProxyAt(run, run.at, tx) =>
          /\ \A id \in {tx.transferId, tx.mintId} :
                 PolicyExists(chain, id) /\ PolicyOf(chain, id).admin = PolicyAdmin
          /\ tx.on = RL \/ (RL \in chain.code /\ tx.transferId = chain.transferPolicyId[RL])
          /\ \A u \in Token : u \in chain.code => chain.mintRecipientPolicyId[u] # tx.mintId
  BY <1>4, NewProxyOwn DEF tx
<1>7. RL \in chain.code => chain'.transferPolicyId[RL] = chain.transferPolicyId[RL]
  BY <1>3, <1>5, BroadcastIds
<1>8. CASE t \in chain.code
  <2>1. /\ chain'.transferPolicyId[t] = chain.transferPolicyId[t]
        /\ chain'.mintRecipientPolicyId[t] = chain.mintRecipientPolicyId[t]
    BY <1>4, <1>5, <1>8
  <2>2. /\ PolicyExists(chain, chain.transferPolicyId[t])
        /\ PolicyExists(chain, chain.mintRecipientPolicyId[t])
        /\ PolicyOf(chain, chain.transferPolicyId[t]).admin = PolicyAdmin
        /\ PolicyOf(chain, chain.mintRecipientPolicyId[t]).admin = PolicyAdmin
        /\ chain.transferPolicyId[t] = chain.transferPolicyId[RL]
        /\ \A u \in Token : u \in chain.code /\ u # t =>
               chain.mintRecipientPolicyId[t] # chain.mintRecipientPolicyId[u]
    BY <1>0, <1>4, <1>8 DEF OwnPolicies
  <2>3. RL \in chain.code
    BY <1>0, <1>8 DEF Founded
  <2>4. ASSUME NEW u \in Token, u \in chain'.code, u # t
        PROVE  chain'.mintRecipientPolicyId[t] # chain'.mintRecipientPolicyId[u]
    BY <1>5, <1>6, <1>8, <2>1, <2>2, <2>4
  <2> QED  BY <1>2, <1>7, <2>1, <2>2, <2>3, <2>4
<1>9. CASE t \notin chain.code
  <2>1. /\ t = tx.on /\ ProxyAt(run, run.at, tx)
        /\ chain'.transferPolicyId[t] = tx.transferId
        /\ chain'.mintRecipientPolicyId[t] = tx.mintId
    BY <1>4, <1>5, <1>9
  <2>2. /\ PolicyExists(chain', tx.transferId) /\ PolicyOf(chain', tx.transferId).admin = PolicyAdmin
        /\ PolicyExists(chain', tx.mintId) /\ PolicyOf(chain', tx.mintId).admin = PolicyAdmin
    BY <1>2, <1>6, <2>1
  <2>3. chain'.transferPolicyId[t] = chain'.transferPolicyId[RL]
    BY <1>6, <1>7, <2>1
  <2>4. ASSUME NEW u \in Token, u \in chain'.code, u # t
        PROVE  chain'.mintRecipientPolicyId[t] # chain'.mintRecipientPolicyId[u]
    BY <1>5, <1>6, <2>1, <2>4
  <2> QED  BY <2>1, <2>2, <2>3, <2>4
<1> QED  BY <1>8, <1>9

-----------------------------------------------------------------------------
(* The other steps.                                                         *)

\* An empty chain and no script.
LEMMA InitScriptInv == Init => ScriptInv
<1> SUFFICES ASSUME Init PROVE ScriptInv
  OBVIOUS
<1>1. chain.code = {} /\ ~running /\ \A c \in Coins : chain.handler[c] = None
  BY DEF Init, InitChain, running
<1>2. IInv
  BY InitIInv
<1>3. Progress /\ Based /\ PoliciesMade /\ MintPoliciesOlder /\ ReserveMade
  BY <1>1 DEF Progress, Based, PoliciesMade, MintPoliciesOlder, ReserveMade
<1>4. Founded /\ AlwaysAdministered /\ OwnPolicies
  BY <1>1 DEF Founded, AlwaysAdministered, OwnPolicies
<1>5. RegisteredCanMint
  BY <1>1 DEF RegisteredCanMint
<1> QED  BY <1>2, <1>3, <1>4, <1>5 DEF ScriptInv

\* No script is at work, and the contracts are as they were.
LEMMA IdleKeeps ==
    ASSUME ScriptInv, UNCHANGED <<chain, raced>>, ~running'
    PROVE  /\ Progress' /\ Based' /\ PoliciesMade' /\ MintPoliciesOlder' /\ ReserveMade'
           /\ Founded' /\ AlwaysAdministered' /\ RegisteredCanMint' /\ OwnPolicies'
<1>1. Progress' /\ Based' /\ PoliciesMade' /\ MintPoliciesOlder' /\ ReserveMade'
  BY DEF Progress, Based, PoliciesMade, MintPoliciesOlder, ReserveMade
<1>2. Founded' /\ AlwaysAdministered'
  BY DEF ScriptInv, Founded, AlwaysAdministered
<1>3. RegisteredCanMint'
  BY DEF ScriptInv, RegisteredCanMint, Configured
<1>4. OwnPolicies'
  BY DEF ScriptInv, OwnPolicies
<1> QED  BY <1>1, <1>2, <1>3, <1>4

\* A step that changes none of the chain, the run and the races keeps the invariant.
LEMMA SameKeeps ==
    ASSUME ScriptInv, UNCHANGED <<chain, run, raced>>
    PROVE  /\ Progress' /\ Based' /\ PoliciesMade' /\ MintPoliciesOlder' /\ ReserveMade'
           /\ Founded' /\ AlwaysAdministered' /\ RegisteredCanMint' /\ OwnPolicies'
<1>1. Progress' /\ Based'
  BY DEF ScriptInv, Progress, Based, running
<1>2. PoliciesMade' /\ MintPoliciesOlder' /\ ReserveMade'
  BY DEF ScriptInv, PoliciesMade, MintPoliciesOlder, ReserveMade, running
<1>3. Founded' /\ AlwaysAdministered'
  BY DEF ScriptInv, Founded, AlwaysAdministered
<1>4. RegisteredCanMint'
  BY DEF ScriptInv, RegisteredCanMint, Configured
<1>5. OwnPolicies'
  BY DEF ScriptInv, OwnPolicies
<1> QED  BY <1>1, <1>2, <1>3, <1>4, <1>5

\* A script starts from the chain it was simulated on.
LEMMA StartKeeps ==
    ASSUME ScriptInv, NEW script \in Script, NEW c \in Coins, NEW by \in People,
           Start(script, c, by)
    PROVE  /\ Progress' /\ Based' /\ PoliciesMade' /\ MintPoliciesOlder' /\ ReserveMade'
           /\ Founded' /\ AlwaysAdministered' /\ RegisteredCanMint' /\ OwnPolicies'
<1>0. TypeOK /\ OwnPolicies /\ chain \in Chain
  BY DEF ScriptInv, IInv, TypeOK
<1>1. /\ run' = NewRun(script, c, by) /\ chain' = chain /\ raced' = raced
      /\ Required(NewRun(script, c, by)) \subseteq chain.code
  BY DEF Start, Simulates
<1>2. /\ run'.at = 1 /\ run'.script = script /\ run'.coin = c
      /\ run'.id = FirstPolicyId + Len(chain.policies)
      /\ run'.transferId = chain.transferPolicyId[RL]
  BY <1>1 DEF NewRun, NextPolicyId
<1>3. /\ Len(chain.policies) \in Nat /\ DOMAIN chain.policies = 1 .. Len(chain.policies)
  BY <1>0, LenProperties DEF Chain
<1>4. Progress'
  <2>1. run' \in Working
    BY <1>0, <1>1, NewRunTyped DEF Start
  <2>2. \A j \in DOMAIN Transactions(run') : ~(j < run'.at)
    BY <1>2, <2>1, TransactionsTyped, LenProperties
  <2> QED  BY <2>2 DEF Progress
<1>5. Based'
  BY <1>1, <1>2, <1>3 DEF Based, FirstPolicyId
<1>6. PoliciesMade'
  <2>1. Made(script, 1) = 0
    BY DEF Made
  <2>2. run'.id - FirstPolicyId = Len(chain.policies)
    BY <1>2, <1>3 DEF FirstPolicyId
  <2> QED  BY <1>1, <1>2, <1>3, <2>1, <2>2 DEF PoliciesMade
<1>7. MintPoliciesOlder'
  <2>1. ASSUME NEW t \in Token, t \in chain.code, ~raced
        PROVE  chain.mintRecipientPolicyId[t] < run'.id
    <3>1. /\ chain.mintRecipientPolicyId[t] - FirstPolicyId + 1 \in DOMAIN chain.policies
          /\ chain.mintRecipientPolicyId[t] \in Nat
      BY <1>0, <2>1 DEF OwnPolicies, PolicyExists, Chain
    <3> QED  BY <1>2, <1>3, <3>1 DEF FirstPolicyId
  <2> QED  BY <1>1, <2>1 DEF MintPoliciesOlder
<1>8. ReserveMade'
  BY <1>2 DEF ReserveMade
<1>9. Founded' /\ AlwaysAdministered'
  BY <1>1 DEF ScriptInv, Founded, AlwaysAdministered
<1>10. RegisteredCanMint'
  BY <1>1 DEF ScriptInv, RegisteredCanMint, Configured
<1>11. OwnPolicies'
  BY <1>1 DEF ScriptInv, OwnPolicies
<1> QED  BY <1>4, <1>5, <1>6, <1>7, <1>8, <1>9, <1>10, <1>11

\* Issuing changes supplies and an allowance of a coin that no script configures.
LEMMA IssueKeeps ==
    ASSUME ScriptInv, NEW c \in Coins, Issue(c)
    PROVE  /\ Progress' /\ Based' /\ PoliciesMade' /\ MintPoliciesOlder' /\ ReserveMade'
           /\ Founded' /\ AlwaysAdministered' /\ RegisteredCanMint' /\ OwnPolicies'
<1>0. TypeOK /\ chain \in Chain /\ UNCHANGED <<run, raced>>
  BY DEF ScriptInv, IInv, TypeOK, Issue
<1>1. /\ chain'.code = chain.code /\ chain'.role = chain.role /\ chain'.owner = chain.owner
      /\ chain'.maxSupply = chain.maxSupply /\ chain'.policies = chain.policies
      /\ chain'.transferPolicyId = chain.transferPolicyId
      /\ chain'.mintRecipientPolicyId = chain.mintRecipientPolicyId
      /\ chain'.handler = chain.handler /\ chain'.txnMintLimit = chain.txnMintLimit
      /\ \A d \in Coins : d # c => chain'.minterAllowance[d] = chain.minterAllowance[d]
  BY <1>0 DEF Issue, Chain
<1>2. Progress'
  <2> SUFFICES ASSUME running, NEW j \in DOMAIN Transactions(run), j < run.at
               PROVE  Done(chain', run.coin, run.by, Transactions(run)[j])
    BY <1>0 DEF Progress, running
  <2>1. run \in Working /\ run.coin # c
    BY <1>0, RunningTyped DEF Issue
  <2> DEFINE tx == Transactions(run)[j]
  <2>2. Done(chain, run.coin, run.by, tx)
    BY DEF ScriptInv, Progress
  <2>3. tx \in Of(Ops, run.coin, run.handler, run.by)
    <3>1. Transactions(run) \in Seq(Of(Ops, run.coin, run.handler, run.by))
      BY <2>1, TransactionsShape DEF Shape
    <3> QED  BY <3>1, LenProperties, ElementOfSeq
  <2>4. run.coin \in Coins
    BY <2>1 DEF Working
  <2> HIDE DEF tx
  <2>5. tx.op = "setMinterAllowance" => tx.coin = run.coin
    BY <2>3 DEF Of, Proper
  <2>6. tx.op = "setMinterAllowance" => chain'.minterAllowance[tx.coin] = chain.minterAllowance[tx.coin]
    BY <1>1, <2>1, <2>4, <2>5
  <2>7. Done(chain', run.coin, run.by, tx)
    BY <1>1, <2>2, <2>6 DEF Done, PolicyExists, PolicyOf
  <2> QED  BY <2>7 DEF tx
<1>3. Based' /\ MintPoliciesOlder' /\ ReserveMade'
  BY <1>0, <1>1 DEF ScriptInv, Based, MintPoliciesOlder, ReserveMade, running
<1>4. PoliciesMade'
  BY <1>0, <1>1 DEF ScriptInv, PoliciesMade, running
<1>5. Founded' /\ AlwaysAdministered'
  BY <1>1 DEF ScriptInv, Founded, AlwaysAdministered
<1>6. RegisteredCanMint'
  BY <1>1 DEF ScriptInv, RegisteredCanMint, Configured
<1>7. OwnPolicies'
  BY <1>0, <1>1 DEF ScriptInv, OwnPolicies, PolicyExists, PolicyOf
<1> QED  BY <1>2, <1>3, <1>4, <1>5, <1>6, <1>7

\* Another's policy comes after those there are, and does not shift one to come
\* unless the run is raced.
LEMMA ElsewhereKeeps ==
    ASSUME ScriptInv, NEW who \in People \ {PolicyAdmin}, CreatePolicyElsewhere(who)
    PROVE  /\ Progress' /\ Based' /\ PoliciesMade' /\ MintPoliciesOlder' /\ ReserveMade'
           /\ Founded' /\ AlwaysAdministered' /\ RegisteredCanMint' /\ OwnPolicies'
<1> DEFINE new == [admin |-> who, member |-> {}]
           S == [admin : People, member : SUBSET Account]
<1>0. /\ TypeOK /\ chain \in Chain /\ run' = run
      /\ raced' = (raced \/ (running /\
             \E i \in run.at .. Len(Transactions(run)) : Transactions(run)[i].op = "createPolicy"))
  BY DEF ScriptInv, IInv, TypeOK, CreatePolicyElsewhere
<1>1. /\ chain'.code = chain.code /\ chain'.role = chain.role /\ chain'.owner = chain.owner
      /\ chain'.maxSupply = chain.maxSupply
      /\ chain'.transferPolicyId = chain.transferPolicyId
      /\ chain'.mintRecipientPolicyId = chain.mintRecipientPolicyId
      /\ chain'.handler = chain.handler /\ chain'.txnMintLimit = chain.txnMintLimit
      /\ chain'.minterAllowance = chain.minterAllowance
      /\ chain'.policies = Append(chain.policies, new)
  BY <1>0 DEF CreatePolicyElsewhere, WithPolicy, Chain
<1>2. new \in S /\ chain.policies \in Seq(S)
  BY <1>0 DEF Chain
<1> HIDE DEF new, S
<1>3. /\ Len(chain.policies) \in Nat /\ DOMAIN chain.policies = 1 .. Len(chain.policies)
      /\ Len(chain'.policies) = Len(chain.policies) + 1
      /\ DOMAIN chain'.policies = 1 .. (Len(chain.policies) + 1)
      /\ \A i \in DOMAIN chain.policies :
             i \in DOMAIN chain'.policies /\ chain'.policies[i] = chain.policies[i]
  BY <1>1, <1>2, AppendProperties, LenProperties
<1>4. \A id : PolicyExists(chain, id) =>
          PolicyExists(chain', id) /\ PolicyOf(chain', id) = PolicyOf(chain, id)
  BY <1>3 DEF PolicyExists, PolicyOf
<1>5. Progress'
  <2> SUFFICES ASSUME running, NEW j \in DOMAIN Transactions(run), j < run.at
               PROVE  Done(chain', run.coin, run.by, Transactions(run)[j])
    BY <1>0 DEF Progress, running
  <2> DEFINE tx == Transactions(run)[j]
  <2>1. Done(chain, run.coin, run.by, tx)
    BY DEF ScriptInv, Progress
  <2> HIDE DEF tx
  <2>2. Done(chain', run.coin, run.by, tx)
    BY <1>1, <1>4, <2>1 DEF Done
  <2> QED  BY <2>2 DEF tx
<1>6. Based' /\ ReserveMade'
  BY <1>0, <1>1 DEF ScriptInv, Based, ReserveMade, running
<1>7. MintPoliciesOlder'
  <2>1. ~raced' => ~raced
    BY <1>0
  <2> QED  BY <1>0, <1>1, <2>1 DEF ScriptInv, MintPoliciesOlder, running
<1>8. PoliciesMade'
  <2> SUFFICES ASSUME ~raced', running'
               PROVE  LET m == Made(run.script, run.at)
                          n == Len(chain'.policies)
                      IN  /\ n >= run.id - FirstPolicyId + m
                          /\ m < Policies(run.script) => n = run.id - FirstPolicyId + m
                          /\ \A i \in 1 .. m :
                                 chain'.policies[run.id - FirstPolicyId + i].admin = PolicyAdmin
    BY <1>0 DEF PoliciesMade
  <2> DEFINE m == Made(run.script, run.at)
             base == run.id - FirstPolicyId
  <2>1. ~raced /\ running
    BY <1>0 DEF running
  <2>2. run \in Working
    BY <1>0, <2>1, RunningTyped
  <2>3. ~(m < Policies(run.script))
    BY <1>0, <2>1, <2>2, PolicyAhead
  <2>4. /\ Len(chain.policies) >= base + m
        /\ \A i \in 1 .. m : chain.policies[base + i].admin = PolicyAdmin
    BY <2>1 DEF ScriptInv, PoliciesMade
  <2>5. m \in 0 .. 3 /\ base \in Nat
    BY <2>1, <2>2 DEF ScriptInv, Based, Made, Working, FirstPolicyId
  <2> HIDE DEF m, base
  <2>6. ASSUME NEW i \in 1 .. m
        PROVE  chain'.policies[base + i].admin = PolicyAdmin
    <3>1. base + i \in DOMAIN chain.policies
      BY <1>3, <2>4, <2>5
    <3> QED  BY <1>3, <2>4, <3>1
  <2>7. Len(chain'.policies) >= base + m
    BY <1>3, <2>4, <2>5
  <2> QED  BY <2>3, <2>6, <2>7 DEF m, base
<1>9. Founded' /\ AlwaysAdministered'
  BY <1>1 DEF ScriptInv, Founded, AlwaysAdministered
<1>10. RegisteredCanMint'
  BY <1>1 DEF ScriptInv, RegisteredCanMint, Configured
<1>11. OwnPolicies'
  <2>1. ~raced' => ~raced
    BY <1>0
  <2> QED  BY <1>1, <1>4, <2>1 DEF ScriptInv, OwnPolicies
<1> QED  BY <1>5, <1>6, <1>7, <1>8, <1>9, <1>10, <1>11

\* Every step keeps the invariant.
LEMMA NextScriptInv == ScriptInv /\ [Next]_vars => ScriptInv'
<1> SUFFICES ASSUME ScriptInv, [Next]_vars PROVE ScriptInv'
  OBVIOUS
<1> DEFINE Rest == /\ Progress /\ Based /\ PoliciesMade /\ MintPoliciesOlder /\ ReserveMade
                   /\ Founded /\ AlwaysAdministered /\ RegisteredCanMint /\ OwnPolicies
<1>0. IInv'
  BY NextIInv DEF ScriptInv
<1>t. TypeOK
  BY DEF ScriptInv, IInv
<1>1. ASSUME NEW o \in Offered, Start(o[1], o[2], o[3]) PROVE Rest'
  <2>1. o[1] \in Script /\ o[2] \in Coins /\ o[3] \in People
    BY DeploymentAssumption
  <2> QED  BY <1>1, <2>1, StartKeeps
<1>2. ASSUME NEW o \in Offered, Refuse(o[1], o[2], o[3]) PROVE Rest'
  <2>1. UNCHANGED <<chain, raced>> /\ ~running'
    BY <1>2 DEF Refuse, NewRun, running
  <2> QED  BY <2>1, IdleKeeps
<1>3. ASSUME NEW c \in Coins, Skip(c) PROVE Rest'
  BY <1>3, SameKeeps DEF Skip
<1>4. ASSUME NEW c \in Coins, Issue(c) PROVE Rest'
  BY <1>4, IssueKeeps
<1>5. ASSUME Broadcast PROVE Rest'
  BY <1>5, BroadcastProgress, BroadcastFounded, BroadcastAdministered, BroadcastRegistered,
     BroadcastPoliciesMade, BroadcastReserveMade, BroadcastMintPolicies, BroadcastOwnPolicies
<1>6. ASSUME BroadcastReverts \/ Finish \/ Crash PROVE Rest'
  <2>1. run \in Working
    BY <1>t, <1>6, RunningTyped DEF BroadcastReverts, Finish, Crash
  <2>2. UNCHANGED <<chain, raced>> /\ ~running'
    BY <1>6, <2>1 DEF BroadcastReverts, Finish, Crash, running, Working
  <2> QED  BY <2>2, IdleKeeps
<1>7. ASSUME NEW who \in People \ {PolicyAdmin}, CreatePolicyElsewhere(who) PROVE Rest'
  BY <1>7, ElsewhereKeeps
<1>8. ASSUME UNCHANGED vars PROVE Rest'
  BY <1>8, SameKeeps DEF vars
<1> HIDE DEF Rest
<1>9. Rest'
  BY <1>1, <1>2, <1>3, <1>4, <1>5, <1>6, <1>7, <1>8 DEF Next
<1> QED  BY <1>0, <1>9 DEF ScriptInv, Rest

\* The invariant holds throughout.
LEMMA ScriptInductive == Spec => []ScriptInv
BY InitScriptInv, NextScriptInv, PTL DEF Spec

-----------------------------------------------------------------------------
(* What a script that configures a coin has done when it is through.        *)

\* Every transaction of p is one of s.
Within(p, s) == \A j \in DOMAIN p : \E k \in DOMAIN s : s[k] = p[j]

\* The parts of a script's parts are parts of it.
LEMMA WithinConcat ==
    ASSUME NEW s \in Seq(Transaction), NEW t \in Seq(Transaction)
    PROVE  /\ s \o t \in Seq(Transaction)
           /\ Within(s, s \o t) /\ Within(t, s \o t)
           /\ \A p : Within(p, s) \/ Within(p, t) => Within(p, s \o t)
<1>1. /\ Len(s) \in Nat /\ Len(t) \in Nat /\ DOMAIN s = 1 .. Len(s) /\ DOMAIN t = 1 .. Len(t)
      /\ s \o t \in Seq(Transaction) /\ DOMAIN (s \o t) = 1 .. (Len(s) + Len(t))
      /\ \A i \in 1 .. Len(s) : (s \o t)[i] = s[i]
      /\ \A i \in 1 .. (Len(s) + Len(t)) : i > Len(s) => (s \o t)[i] = t[i - Len(s)]
  BY LenProperties, ConcatProperties
<1> DEFINE u == s \o t
<1> HIDE DEF u
<1>2. ASSUME NEW k \in DOMAIN s PROVE k \in DOMAIN u /\ u[k] = s[k]
  BY <1>1 DEF u
<1>3. ASSUME NEW k \in DOMAIN t PROVE \E i \in DOMAIN u : u[i] = t[k]
  <2>1. Len(s) + k \in DOMAIN u /\ Len(s) + k > Len(s) /\ (Len(s) + k) - Len(s) = k
    BY <1>1 DEF u
  <2>2. u[Len(s) + k] = t[(Len(s) + k) - Len(s)]
    BY <1>1, <2>1 DEF u
  <2> QED  BY <2>1, <2>2
<1>4. Within(s, u)
  BY <1>2 DEF Within
<1>5. Within(t, u)
  BY <1>3 DEF Within
<1>6. ASSUME NEW p, Within(p, s) \/ Within(p, t) PROVE Within(p, u)
  <2> SUFFICES ASSUME NEW j \in DOMAIN p PROVE \E i \in DOMAIN u : u[i] = p[j]
    BY DEF Within
  <2>1. CASE Within(p, s)
    <3>1. PICK k \in DOMAIN s : s[k] = p[j]
      BY <2>1 DEF Within
    <3> QED  BY <1>2, <3>1
  <2>2. CASE Within(p, t)
    <3>1. PICK k \in DOMAIN t : t[k] = p[j]
      BY <2>2 DEF Within
    <3> QED  BY <1>3, <3>1
  <2> QED  BY <1>6, <2>1, <2>2
<1> QED  BY <1>1, <1>4, <1>5, <1>6 DEF u

\* s has the parts by which a script configures c and hands over.
Configures(s, c, h, by) ==
    /\ Within(ConfigureRoles(c), s) /\ Within(RegisterStablecoin(c, h, by), s)
    /\ Within(ConfigureLimits(c, by), s) /\ Within(ConfigureMaxSupply(c), s)
    /\ Within(TokensTo(c), s) /\ Within(TokenAuthorityTo(Config[c].tokenAuthorityAdmin), s)
    /\ Within(LeaveAuthority(c, by), s) /\ Within(LeaveReserve(c, by), s)
    /\ Within(LeaveCoin(c, by), s)

Ends(s, c, by) ==
    /\ Within(ConfigureLimits(c, by), s) /\ Within(ConfigureMaxSupply(c), s)
    /\ Within(TokensTo(c), s) /\ Within(TokenAuthorityTo(Config[c].tokenAuthorityAdmin), s)
    /\ Within(LeaveAuthority(c, by), s) /\ Within(LeaveReserve(c, by), s)
    /\ Within(LeaveCoin(c, by), s)

\* The end of a script sets the limits and the cap and hands over.
LEMMA EndParts ==
    ASSUME NEW c \in Coins, NEW h \in Handlers, NEW by \in People
    PROVE  LimitsSupplyHandover(c, by) \in Seq(Transaction) /\ Ends(LimitsSupplyHandover(c, by), c, by)
<1> DEFINE a1 == TokensTo(c)
           a2 == TokenAuthorityTo(Config[c].tokenAuthorityAdmin)
           a3 == LeaveAuthority(c, by)
           a4 == LeaveReserve(c, by)
           a5 == LeaveCoin(c, by)
           b1 == ConfigureLimits(c, by)
           b2 == ConfigureMaxSupply(c)
           h2 == a1 \o a2
           h3 == h2 \o a3
           h4 == h3 \o a4
           h5 == h4 \o a5
           l2 == b1 \o b2
<1>1. /\ a1 \in Seq(Transaction) /\ a2 \in Seq(Transaction) /\ a3 \in Seq(Transaction)
      /\ a4 \in Seq(Transaction) /\ a5 \in Seq(Transaction)
  <2>1. /\ a1 \in Seq(Of(HandingOps, c, h, by)) /\ a2 \in Seq(Of({"grantRole"}, c, h, by))
        /\ a3 \in Seq(Of({"renounceRole"}, c, h, by))
        /\ a4 \in Seq(Of({"renounceRole"}, c, h, by))
        /\ a5 \in Seq(Of({"renounceRole"}, c, h, by))
    BY HandoverParts
  <2> HIDE DEF a1, a2, a3, a4, a5
  <2> QED  BY <2>1, OfMonotonic
<1>2. b1 \in Seq(Transaction) /\ b2 \in Seq(Transaction)
  BY ConfigurePieces, OfMonotonic
<1>3. LimitsSupplyHandover(c, by) = l2 \o h5
  BY HandoverParts DEF LimitsSupplyHandover
<1> HIDE DEF a1, a2, a3, a4, a5, b1, b2
<1>4. h2 \in Seq(Transaction) /\ Within(a1, h2) /\ Within(a2, h2)
  BY <1>1, WithinConcat
<1> HIDE DEF h2
<1>5. h3 \in Seq(Transaction) /\ Within(a1, h3) /\ Within(a2, h3) /\ Within(a3, h3)
  BY <1>1, <1>4, WithinConcat
<1> HIDE DEF h3
<1>6. /\ h4 \in Seq(Transaction) /\ Within(a1, h4) /\ Within(a2, h4) /\ Within(a3, h4)
      /\ Within(a4, h4)
  BY <1>1, <1>5, WithinConcat
<1> HIDE DEF h4
<1>7. /\ h5 \in Seq(Transaction) /\ Within(a1, h5) /\ Within(a2, h5) /\ Within(a3, h5)
      /\ Within(a4, h5) /\ Within(a5, h5)
  BY <1>1, <1>6, WithinConcat
<1> HIDE DEF h5
<1>8. l2 \in Seq(Transaction) /\ Within(b1, l2) /\ Within(b2, l2)
  BY <1>2, WithinConcat
<1> HIDE DEF l2
<1>9. /\ l2 \o h5 \in Seq(Transaction)
      /\ \A p : Within(p, l2) \/ Within(p, h5) => Within(p, l2 \o h5)
  BY <1>7, <1>8, WithinConcat
<1> DEFINE all == l2 \o h5
<1> HIDE DEF all
<1>10. /\ Within(a1, all) /\ Within(a2, all) /\ Within(a3, all) /\ Within(a4, all)
       /\ Within(a5, all) /\ Within(b1, all) /\ Within(b2, all)
  BY <1>7, <1>8, <1>9 DEF all
<1>11. LimitsSupplyHandover(c, by) = all
  BY <1>3 DEF all
<1> QED  BY <1>9, <1>10, <1>11 DEF Ends, a1, a2, a3, a4, a5, b1, b2, all

\* It still does with something before it.
LEMMA EndsConcat ==
    ASSUME NEW c, NEW by, NEW s \in Seq(Transaction), NEW t \in Seq(Transaction), Ends(t, c, by)
    PROVE  Ends(s \o t, c, by)
<1> DEFINE u == s \o t
<1>1. \A p : Within(p, t) => Within(p, u)
  BY WithinConcat
<1> HIDE DEF u
<1>2. Ends(u, c, by)
  BY <1>1 DEF Ends
<1> QED  BY <1>2 DEF u

ConfiguringScript == AtOnceScript \cup {"ConfigureAndHandover"}

\* A script that configures a coin has every transaction 06_Verify looks at.
LEMMA ScriptConfigures ==
    ASSUME NEW r \in Working, r.script \in ConfiguringScript
    PROVE  Configures(Transactions(r), r.coin, r.handler, r.by)
<1>0. /\ r.coin \in Coins /\ r.by \in People /\ r.id \in Nat /\ r.handler \in Handlers
  BY DEF Working
<1> DEFINE d == AllDeployed(r.coin, r.id, r.handler)
           x == <<create(r.handler)>>
           cr == ConfigureRoles(r.coin)
           rs == RegisterStablecoin(r.coin, r.handler, r.by)
           lh == LimitsSupplyHandover(r.coin, r.by)
           w == Whitelisting(r.coin, r.id, r.handler, r.by)
           Has(s) == Within(cr, s) /\ Within(rs, s) /\ Ends(s, r.coin, r.by)
<1>1. /\ d \in Seq(Transaction) /\ x \in Seq(Transaction) /\ cr \in Seq(Transaction)
      /\ rs \in Seq(Transaction) /\ w \in Seq(Transaction)
  <2>1. d \in Seq(Transaction) /\ x \in Seq(Transaction)
    <3>1. /\ d \in Seq(Of(DeployOps, r.coin, r.handler, r.by))
          /\ x \in Seq(Of(DeployOps, r.coin, r.handler, r.by))
      BY <1>0, AllDeployedTyped, DeployPieces
    <3> HIDE DEF d, x
    <3> QED  BY <3>1, OfMonotonic
  <2>2. cr \in Seq(Transaction) /\ rs \in Seq(Transaction)
    BY <1>0, ConfigurePieces, OfMonotonic
  <2>3. w \in Seq(Transaction)
    BY <1>0, WhitelistingPiece, OfMonotonic
  <2> QED  BY <2>1, <2>2, <2>3
<1>2. lh \in Seq(Transaction) /\ Ends(lh, r.coin, r.by)
  BY <1>0, EndParts
<1>3. Transactions(r) = CASE r.script = "ConfigureAndHandover" -> cr \o x \o rs \o lh
                          [] r.script = "DeployAll" -> d \o cr \o rs \o lh
                          [] r.script = "DeployDemo" -> d \o cr \o rs \o lh \o w
  BY DeployAllParts DEF Transactions, ConfiguringScript, AtOnceScript
<1> HIDE DEF d, x, cr, rs, lh, w
<1>4. ASSUME NEW s \in Seq(Transaction), Within(cr, s)
      PROVE  s \o rs \o lh \in Seq(Transaction) /\ Has(s \o rs \o lh)
  <2> DEFINE u == s \o rs
  <2>1. u \in Seq(Transaction) /\ Within(cr, u) /\ Within(rs, u)
    BY <1>1, <1>4, WithinConcat
  <2> HIDE DEF u
  <2>2. u \o lh \in Seq(Transaction) /\ Within(cr, u \o lh) /\ Within(rs, u \o lh)
    BY <1>2, <2>1, WithinConcat
  <2>3. Ends(u \o lh, r.coin, r.by)
    BY <1>2, <2>1, EndsConcat
  <2> QED  BY <2>2, <2>3 DEF u
<1>5. ASSUME NEW s \in Seq(Transaction), Has(s) PROVE Has(s \o w)
  <2> DEFINE u == s \o w
  <2>1. \A p : Within(p, s) => Within(p, u)
    BY <1>1, WithinConcat
  <2> HIDE DEF u
  <2>2. Has(u)
    BY <1>5, <2>1 DEF Ends
  <2> QED  BY <2>2 DEF u
<1>6. /\ cr \o x \in Seq(Transaction) /\ Within(cr, cr \o x)
      /\ d \o cr \in Seq(Transaction) /\ Within(cr, d \o cr)
  BY <1>1, WithinConcat
<1>7. /\ Has(cr \o x \o rs \o lh) /\ Has(d \o cr \o rs \o lh)
      /\ d \o cr \o rs \o lh \in Seq(Transaction)
  <2> HIDE DEF Has
  <2> QED  BY <1>4, <1>6
<1>8. Has(d \o cr \o rs \o lh \o w)
  <2> HIDE DEF Has
  <2> QED  BY <1>5, <1>7
<1>9. Has(Transactions(r))
  <2> HIDE DEF Has
  <2> QED  BY <1>3, <1>7, <1>8 DEF ConfiguringScript, AtOnceScript
<1> QED  BY <1>9 DEF Configures, Ends, cr, rs

\* The transactions by which a script configures c have all taken effect.
LEMMA ConfiguredCoin ==
    ASSUME NEW c \in Coins, NEW h \in Handlers, NEW by \in People, NEW ch, NEW s,
           Configures(s, c, h, by), \A k \in DOMAIN s : Done(ch, c, by, s[k])
    PROVE  /\ Config[c].rlAdmin \in ch.role[RL]["ADMIN"]
           /\ ch.owner[RL] = Config[c].rlAdmin
           /\ TA \in ch.role[RL]["MINTER"]
           /\ ch.maxSupply[RL] = Config[c].rlMaxSupply
           /\ Config[c].stablecoinAdmin \in ch.role[c]["ADMIN"]
           /\ ch.owner[c] = Config[c].stablecoinAdmin
           /\ TA \in ch.role[c]["MINTER"]
           /\ Config[c].pauserAddress \in ch.role[c]["PAUSER"]
           /\ Config[c].unpauserAddress \in ch.role[c]["UNPAUSER"]
           /\ Config[c].blockedAddressBurnerAddress \in ch.role[c]["BLOCKED_ADDRESS_BURNER"]
           /\ ch.maxSupply[c] = Config[c].stablecoinMaxSupply
           /\ \A r \in AuthorityRoles : Config[c].tokenAuthorityAdmin \in ch.role[TA][r]
           /\ ch.handler[c] = h /\ ch.handler[c] # None
           /\ ch.txnMintLimit[c] = Config[c].txnMintLimit
           /\ ch.minterAllowance[c][Config[c].minterAddress] = Config[c].minterAllowance
<1>0. ASSUME NEW p, Within(p, s), NEW j \in DOMAIN p PROVE Done(ch, c, by, p[j])
  BY <1>0 DEF Within
<1>g. ASSUME NEW on, NEW role, NEW who, Done(ch, c, by, grantRole(on, role, who)),
             role \notin AuthorityRoles \/ who = AdminOf(on, c)
      PROVE  who \in ch.role[on][role]
  <2> DEFINE g == grantRole(on, role, who)
  <2>1. g.op = "grantRole" /\ g.on = on /\ g.role = role /\ g.who = who
    BY DEF grantRole
  <2> HIDE DEF g
  <2>2. Lasting(g, c, by)
    BY <1>g, <2>1 DEF Lasting
  <2> QED  BY <1>g, <2>1, <2>2 DEF Done, g
<1>o. ASSUME NEW on, NEW who, Done(ch, c, by, transferOwnership(on, who))
      PROVE  ch.owner[on] = who
  BY <1>o DEF Done, transferOwnership
<1>m. ASSUME NEW on, NEW amount, Done(ch, c, by, setMaxSupply(on, amount))
      PROVE  ch.maxSupply[on] = amount
  BY <1>m DEF Done, setMaxSupply
<1>1. /\ Config[c].rlAdmin = AdminOf(RL, c) /\ Config[c].tokenAuthorityAdmin = AdminOf(TA, c)
      /\ Config[c].stablecoinAdmin = AdminOf(c, c)
  BY Distinct DEF AdminOf
<1>2. /\ "MINTER" \notin AuthorityRoles /\ "PAUSER" \notin AuthorityRoles
      /\ "UNPAUSER" \notin AuthorityRoles /\ "BLOCKED_ADDRESS_BURNER" \notin AuthorityRoles
  BY DEF AuthorityRoles
<1>3. /\ TA \in ch.role[RL]["MINTER"] /\ TA \in ch.role[c]["MINTER"]
      /\ Config[c].pauserAddress \in ch.role[c]["PAUSER"]
      /\ Config[c].unpauserAddress \in ch.role[c]["UNPAUSER"]
      /\ Config[c].blockedAddressBurnerAddress \in ch.role[c]["BLOCKED_ADDRESS_BURNER"]
  <2> DEFINE p == ConfigureRoles(c)
  <2>1. /\ DOMAIN p = 1 .. 5
        /\ p[1] = grantRole(RL, "MINTER", TA) /\ p[2] = grantRole(c, "MINTER", TA)
        /\ p[3] = grantRole(c, "PAUSER", Config[c].pauserAddress)
        /\ p[4] = grantRole(c, "UNPAUSER", Config[c].unpauserAddress)
        /\ p[5] = grantRole(c, "BLOCKED_ADDRESS_BURNER", Config[c].blockedAddressBurnerAddress)
    BY DEF ConfigureRoles
  <2>2. Within(p, s)
    BY DEF Configures
  <2> HIDE DEF p
  <2>3. /\ Done(ch, c, by, p[1]) /\ Done(ch, c, by, p[2]) /\ Done(ch, c, by, p[3])
        /\ Done(ch, c, by, p[4]) /\ Done(ch, c, by, p[5])
    BY <1>0, <2>1, <2>2
  <2> QED  BY <1>2, <1>g, <2>1, <2>3
<1>4. /\ Config[c].rlAdmin \in ch.role[RL]["ADMIN"] /\ ch.owner[RL] = Config[c].rlAdmin
      /\ Config[c].stablecoinAdmin \in ch.role[c]["ADMIN"]
      /\ ch.owner[c] = Config[c].stablecoinAdmin
  <2> DEFINE p == TokensTo(c)
  <2>1. /\ DOMAIN p = 1 .. 4
        /\ p[1] = grantRole(RL, "ADMIN", Config[c].rlAdmin)
        /\ p[2] = transferOwnership(RL, Config[c].rlAdmin)
        /\ p[3] = grantRole(c, "ADMIN", Config[c].stablecoinAdmin)
        /\ p[4] = transferOwnership(c, Config[c].stablecoinAdmin)
    BY DEF TokensTo
  <2>2. Within(p, s)
    BY DEF Configures
  <2> HIDE DEF p
  <2>3. /\ Done(ch, c, by, p[1]) /\ Done(ch, c, by, p[2]) /\ Done(ch, c, by, p[3])
        /\ Done(ch, c, by, p[4])
    BY <1>0, <2>1, <2>2
  <2> QED  BY <1>1, <1>g, <1>o, <2>1, <2>3
<1>5. \A r \in AuthorityRoles : Config[c].tokenAuthorityAdmin \in ch.role[TA][r]
  <2> DEFINE p == TokenAuthorityTo(Config[c].tokenAuthorityAdmin)
             a == Config[c].tokenAuthorityAdmin
  <2>1. /\ DOMAIN p = 1 .. 3
        /\ p[1] = grantRole(TA, "ADMIN", a) /\ p[2] = grantRole(TA, "MINT_RATE_LIMIT_SETTER", a)
        /\ p[3] = grantRole(TA, "TOKEN_AUTHORITY_HANDLER_SETTER", a)
    BY DEF TokenAuthorityTo, SettersTo
  <2>2. Within(p, s)
    BY DEF Configures
  <2> HIDE DEF p
  <2>3. Done(ch, c, by, p[1]) /\ Done(ch, c, by, p[2]) /\ Done(ch, c, by, p[3])
    BY <1>0, <2>1, <2>2
  <2> QED  BY <1>1, <1>g, <2>1, <2>3 DEF AuthorityRoles
<1>6. /\ ch.maxSupply[RL] = Config[c].rlMaxSupply
      /\ ch.maxSupply[c] = Config[c].stablecoinMaxSupply
  <2> DEFINE p == ConfigureMaxSupply(c)
  <2>1. /\ DOMAIN p = 1 .. 2 /\ p[1] = setMaxSupply(RL, Config[c].rlMaxSupply)
        /\ p[2] = setMaxSupply(c, Config[c].stablecoinMaxSupply)
    BY DEF ConfigureMaxSupply
  <2>2. Within(p, s)
    BY DEF Configures
  <2> HIDE DEF p
  <2>3. Done(ch, c, by, p[1]) /\ Done(ch, c, by, p[2])
    BY <1>0, <2>1, <2>2
  <2> QED  BY <1>m, <2>1, <2>3
<1>7. ch.minterAllowance[c][Config[c].minterAddress] = Config[c].minterAllowance
  <2> DEFINE p == ConfigureLimits(c, by)
  <2>1. /\ DOMAIN p = 1 .. 2
        /\ p[2] = setMinterAllowance(c, Config[c].minterAddress, Config[c].minterAllowance)
    BY DEF ConfigureLimits
  <2>2. Within(p, s)
    BY DEF Configures
  <2> HIDE DEF p
  <2>3. Done(ch, c, by, p[2])
    BY <1>0, <2>1, <2>2
  <2> QED  BY <2>1, <2>3 DEF Done, setMinterAllowance
<1>8. /\ ch.handler[c] = h /\ ch.handler[c] # None
      /\ ch.txnMintLimit[c] = Config[c].txnMintLimit
  <2> DEFINE p == RegisterStablecoin(c, h, by)
  <2>1. DOMAIN p = 1 .. 4 /\ p[4] = registerStablecoin(c, h, Config[c].txnMintLimit)
    BY DEF RegisterStablecoin
  <2>2. Within(p, s)
    BY DEF Configures
  <2> HIDE DEF p
  <2>3. Done(ch, c, by, p[4])
    BY <1>0, <2>1, <2>2
  <2> QED  BY <2>1, <2>3 DEF Done, registerStablecoin
<1> QED  BY <1>3, <1>4, <1>5, <1>6, <1>7, <1>8

\* The signer has left what others administer.
LEMMA SignerLeft ==
    ASSUME NEW c \in Coins, NEW h \in Handlers, NEW by \in People, NEW ch, NEW s,
           Configures(s, c, h, by), \A k \in DOMAIN s : Done(ch, c, by, s[k])
    PROVE  /\ Config[c].rlAdmin # by => by \notin ch.role[RL]["ADMIN"]
           /\ Config[c].stablecoinAdmin # by => by \notin ch.role[c]["ADMIN"]
           /\ Config[c].tokenAuthorityAdmin # by =>
                  \A r \in AuthorityRoles : by \notin ch.role[TA][r]
<1>0. ASSUME NEW p, Within(p, s), NEW j \in DOMAIN p PROVE Done(ch, c, by, p[j])
  BY <1>0 DEF Within
<1>1. ASSUME NEW on, NEW admin, NEW roles, admin # by, Within(Renounce(by, on, admin, roles), s),
             NEW j \in DOMAIN roles
      PROVE  by \notin ch.role[on][roles[j]]
  <2> DEFINE p == Renounce(by, on, admin, roles)
  <2>1. j \in DOMAIN p /\ p[j] = renounceRole(on, roles[j])
    BY <1>1 DEF Renounce
  <2> HIDE DEF p
  <2>2. Done(ch, c, by, renounceRole(on, roles[j]))
    BY <1>0, <1>1, <2>1 DEF p
  <2> QED  BY <2>2 DEF Done, renounceRole
<1>2. /\ Within(Renounce(by, RL, Config[c].rlAdmin, <<"ADMIN">>), s)
      /\ Within(Renounce(by, c, Config[c].stablecoinAdmin, <<"ADMIN">>), s)
      /\ Within(Renounce(by, TA, Config[c].tokenAuthorityAdmin,
             <<"TOKEN_AUTHORITY_HANDLER_SETTER", "MINT_RATE_LIMIT_SETTER", "ADMIN">>), s)
  BY DEF Configures, LeaveReserve, LeaveCoin, LeaveAuthority
<1>3. /\ Config[c].rlAdmin # by => by \notin ch.role[RL]["ADMIN"]
      /\ Config[c].stablecoinAdmin # by => by \notin ch.role[c]["ADMIN"]
  <2> DEFINE q == <<"ADMIN">>
  <2>1. 1 \in DOMAIN q /\ q[1] = "ADMIN"
    OBVIOUS
  <2>2. /\ Within(Renounce(by, RL, Config[c].rlAdmin, q), s)
        /\ Within(Renounce(by, c, Config[c].stablecoinAdmin, q), s)
    BY <1>2
  <2> HIDE DEF q
  <2> QED  BY <1>1, <2>1, <2>2
<1>4. ASSUME Config[c].tokenAuthorityAdmin # by, NEW r \in AuthorityRoles
      PROVE  by \notin ch.role[TA][r]
  <2> DEFINE q == <<"TOKEN_AUTHORITY_HANDLER_SETTER", "MINT_RATE_LIMIT_SETTER", "ADMIN">>
  <2>1. \E j \in DOMAIN q : q[j] = r
    <3>1. /\ 1 \in DOMAIN q /\ 2 \in DOMAIN q /\ 3 \in DOMAIN q
          /\ q[1] = "TOKEN_AUTHORITY_HANDLER_SETTER" /\ q[2] = "MINT_RATE_LIMIT_SETTER"
          /\ q[3] = "ADMIN"
      OBVIOUS
    <3> HIDE DEF q
    <3> QED  BY <3>1 DEF AuthorityRoles
  <2>2. Within(Renounce(by, TA, Config[c].tokenAuthorityAdmin, q), s)
    BY <1>2
  <2> HIDE DEF q
  <2> QED  BY <1>1, <1>4, <2>1, <2>2
<1> QED  BY <1>3, <1>4

\* When a script finishes, each of its transactions is done.
LEMMA AllDone ==
    ASSUME ScriptInv, Finish
    PROVE  /\ run \in Working /\ running
           /\ \A k \in DOMAIN Transactions(run) :
                  Done(chain, run.coin, run.by, Transactions(run)[k])
<1>1. TypeOK /\ Progress
  BY DEF ScriptInv, IInv
<1>2. run \in Working /\ running /\ run.at > Len(Transactions(run))
  BY <1>1, RunningTyped DEF Finish
<1>3. /\ DOMAIN Transactions(run) = 1 .. Len(Transactions(run))
      /\ Len(Transactions(run)) \in Nat /\ run.at \in Nat
  BY <1>2, TransactionsTyped, LenProperties DEF Working
<1> QED  BY <1>1, <1>2, <1>3 DEF Progress

\* When a script that configures a coin finishes, 06_Verify passes.
LEMMA FinishVerified ==
    ASSUME ScriptInv, Finish, run.script \in ConfiguringScript
    PROVE  Verified(run.coin)
<1> DEFINE c == run.coin
           txs == Transactions(run)
<1>1. /\ run \in Working /\ running
      /\ \A k \in DOMAIN txs : Done(chain, c, run.by, txs[k])
  BY AllDone
<1>2. c \in Coins /\ run.handler \in Handlers /\ run.by \in People
  BY <1>1 DEF Working
<1>3. Configures(txs, c, run.handler, run.by)
  BY <1>1, ScriptConfigures
<1>4. {RL, TA, c} \subseteq chain.code
  <2>1. CASE run.script = "ConfigureAndHandover"
    BY <1>1, <2>1 DEF ScriptInv, Based, Required
  <2>2. CASE run.script \in AtOnceScript
    <3>1. /\ 1 .. 8 \subseteq DOMAIN txs /\ txs[4] = proxy(RL, run.id, run.id + 1)
          /\ txs[5] = create(TA) /\ txs[8] = proxy(c, run.id, run.id + 2)
      BY <1>1, <2>2, AtOncePositions
    <3>2. Done(chain, c, run.by, txs[4]) /\ Done(chain, c, run.by, txs[5])
          /\ Done(chain, c, run.by, txs[8])
      <4> HIDE DEF txs, c
      <4>1. 4 \in DOMAIN txs /\ 5 \in DOMAIN txs /\ 8 \in DOMAIN txs
        BY <3>1
      <4> QED  BY <1>1, <4>1
    <3> HIDE DEF txs
    <3> QED  BY <3>1, <3>2 DEF Done, proxy, create
  <2> QED  BY <2>1, <2>2 DEF ConfiguringScript
<1>5. RL \in Token /\ c \in Token
  BY <1>2 DEF Token
<1>6. /\ Registry \in chain.code
      /\ chain.transferPolicyId[RL] > 1 /\ chain.mintRecipientPolicyId[RL] > 1
      /\ chain.transferPolicyId[c] > 1 /\ chain.mintRecipientPolicyId[c] > 1
  BY <1>4, <1>5 DEF ScriptInv, Founded
<1> HIDE DEF c, txs
<1>7. VerifiedReserveLedger(c) /\ VerifiedStablecoin(c)
  BY <1>1, <1>2, <1>3, <1>6, ConfiguredCoin DEF VerifiedReserveLedger, VerifiedStablecoin
<1>8. VerifiedTokenAuthority(c)
  BY <1>1, <1>2, <1>3, ConfiguredCoin DEF VerifiedTokenAuthority
<1>9. VerifiedRenunciation(c)
  BY <1>1, <1>2, <1>3, SignerLeft DEF VerifiedRenunciation, Renounced
<1>10. Verified(c)
  BY <1>4, <1>6, <1>7, <1>8, <1>9 DEF Verified
<1> QED  BY <1>10 DEF c

-----------------------------------------------------------------------------
(* The demo that nobody disturbs. DeployDemo.s.sol makes Bank A the admin of *)
(* everything, so the signer keeps its roles and each transaction after the  *)
(* token's proxy is accepted: the run that made the token comes to its end.  *)

demoRunning == running /\ run.script = "DeployDemo"

\* A script at work is one that was offered, DeployDemo with its own signer.
AsOffered ==
    running => /\ <<run.script, run.coin, run.by>> \in Offered
               /\ run.script = "DeployDemo" => run.by = DemoIssuer

\* Nobody has a role on a contract that is not there.
RolesFounded ==
    \A t \in Proxied : t \notin chain.code => \A r \in Role : chain.role[t][r] = {}

\* Tokens are issued for registered coins only.
IssuedIfRegistered ==
    /\ \A c \in Coins : chain.handler[c] = None => chain.supply[c] = 0
    /\ (\A c \in Coins : chain.handler[c] = None) => chain.supply[RL] = 0

\* Bank A administers and owns what its script has made.
SignerAdministers ==
    demoRunning =>
        /\ run.at > 4 => run.by \in chain.role[RL]["ADMIN"] /\ chain.owner[RL] = run.by
        /\ run.at > 5 => run.by \in chain.role[TA]["ADMIN"]
        /\ run.at > 8 => run.by \in chain.role[run.coin]["ADMIN"] /\ chain.owner[run.coin] = run.by

\* On the demo's new reserve, nothing is issued before its script is through.
NothingIssued ==
    demoRunning =>
        /\ run.at > 4 => /\ chain.supply[RL] = 0
                         /\ \A c \in Coins : c # run.coin => chain.handler[c] = None
        /\ run.at > 8 => chain.supply[run.coin] = 0
        /\ run.at > 8 /\ chain.handler[run.coin] # None =>
               \E j \in DOMAIN Transactions(run) :
                   j < run.at /\ Transactions(run)[j].op = "registerStablecoin"

\* The demo's token is usable, or the script that made it is still at work.
UsableOrAtWork ==
    bounds.crashes = 0 /\ ~raced =>
        \A c \in Coins : DemoCoin(c) /\ c \in chain.code =>
            Usable(c) \/ (demoRunning /\ run.coin = c /\ run.at > 8)

DemoInv ==
    /\ AsOffered /\ RolesFounded /\ IssuedIfRegistered
    /\ SignerAdministers /\ NothingIssued /\ UsableOrAtWork /\ UndisturbedDemoIsUsable

-----------------------------------------------------------------------------
(* The transactions of DeployDemo.                                          *)

\* What they are about; the signer, who keeps everything, renounces nothing.
DemoTransaction(c, by, id) ==
    {tx \in Transaction :
        /\ tx.op # "renounceRole"
        /\ tx.op = "grantRole" => tx.on \in {RL, TA, c}
        /\ tx.op = "transferOwnership" => tx.on \in {RL, c} /\ tx.who = by
        /\ tx.op = "setMaxSupply" => tx.on \in {RL, c}
        /\ tx.op = "modifyPolicyWhitelist" => tx.id \in {id, id + 1}}

Kind(op) == {tx \in Transaction : tx.op = op}

\* The signer grants itself the setters' roles before it uses them.
DemoShape(s, c, by, id) ==
    /\ s \in Seq(DemoTransaction(c, by, id)) /\ s \in Seq(Transaction)
    /\ Guarded(s, Kind("registerStablecoin"), {grantRole(TA, "TOKEN_AUTHORITY_HANDLER_SETTER", by)})
    /\ Guarded(s, Kind("setMinterAllowance"), {grantRole(TA, "MINT_RATE_LIMIT_SETTER", by)})

\* One registration at most, and none at all.
RegistersOnce(s) ==
    \A j, k \in DOMAIN s :
        s[j].op = "registerStablecoin" /\ s[k].op = "registerStablecoin" => j = k
RegistersNothing(s) == \A k \in DOMAIN s : s[k].op # "registerStablecoin"

\* Pieces of the shape make a script of the shape.
LEMMA DemoShapeConcat ==
    ASSUME NEW c, NEW by, NEW id, NEW s, NEW t, DemoShape(s, c, by, id), DemoShape(t, c, by, id)
    PROVE  DemoShape(s \o t, c, by, id)
<1> DEFINE D == DemoTransaction(c, by, id)
<1>1. s \in Seq(D) /\ t \in Seq(D) /\ s \in Seq(Transaction) /\ t \in Seq(Transaction)
  BY DEF DemoShape
<1>2. /\ Guarded(s \o t, Kind("registerStablecoin"),
                 {grantRole(TA, "TOKEN_AUTHORITY_HANDLER_SETTER", by)})
      /\ Guarded(s \o t, Kind("setMinterAllowance"),
                 {grantRole(TA, "MINT_RATE_LIMIT_SETTER", by)})
  BY <1>1, GuardedConcat DEF DemoShape
<1> HIDE DEF D
<1>3. s \o t \in Seq(D) /\ s \o t \in Seq(Transaction)
  BY <1>1
<1> QED  BY <1>2, <1>3 DEF DemoShape, D

\* Of two pieces, at most one registers.
LEMMA RegistersConcat ==
    ASSUME NEW s \in Seq(Transaction), NEW t \in Seq(Transaction)
    PROVE  /\ RegistersNothing(s) /\ RegistersNothing(t) => RegistersNothing(s \o t)
           /\ RegistersNothing(s) /\ RegistersOnce(t) => RegistersOnce(s \o t)
           /\ RegistersOnce(s) /\ RegistersNothing(t) => RegistersOnce(s \o t)
<1>1. /\ Len(s) \in Nat /\ Len(t) \in Nat /\ DOMAIN s = 1 .. Len(s) /\ DOMAIN t = 1 .. Len(t)
      /\ DOMAIN (s \o t) = 1 .. (Len(s) + Len(t))
      /\ \A i \in 1 .. Len(s) : (s \o t)[i] = s[i]
      /\ \A i \in 1 .. (Len(s) + Len(t)) :
             ~(i <= Len(s)) => i - Len(s) \in DOMAIN t /\ (s \o t)[i] = t[i - Len(s)]
  BY LenProperties, ConcatProperties
<1> DEFINE u == s \o t
<1> HIDE DEF u
<1>2. RegistersNothing(s) /\ RegistersNothing(t) => RegistersNothing(u)
  BY <1>1 DEF RegistersNothing, u
<1>3. ASSUME RegistersNothing(s), RegistersOnce(t) PROVE RegistersOnce(u)
  <2> SUFFICES ASSUME NEW j \in DOMAIN u, NEW k \in DOMAIN u,
                      u[j].op = "registerStablecoin", u[k].op = "registerStablecoin"
               PROVE  j = k
    BY DEF RegistersOnce
  <2>1. ~(j <= Len(s)) /\ ~(k <= Len(s))
    BY <1>1, <1>3 DEF RegistersNothing, u
  <2>2. /\ j - Len(s) \in DOMAIN t /\ t[j - Len(s)].op = "registerStablecoin"
        /\ k - Len(s) \in DOMAIN t /\ t[k - Len(s)].op = "registerStablecoin"
    BY <1>1, <2>1 DEF u
  <2>3. j - Len(s) = k - Len(s)
    BY <1>3, <2>2 DEF RegistersOnce
  <2> QED  BY <1>1, <2>3 DEF u
<1>4. ASSUME RegistersOnce(s), RegistersNothing(t) PROVE RegistersOnce(u)
  <2> SUFFICES ASSUME NEW j \in DOMAIN u, NEW k \in DOMAIN u,
                      u[j].op = "registerStablecoin", u[k].op = "registerStablecoin"
               PROVE  j = k
    BY DEF RegistersOnce
  <2>1. j <= Len(s) /\ k <= Len(s)
    BY <1>1, <1>4 DEF RegistersNothing, u
  <2>2. /\ j \in DOMAIN s /\ s[j].op = "registerStablecoin"
        /\ k \in DOMAIN s /\ s[k].op = "registerStablecoin"
    BY <1>1, <2>1 DEF u
  <2> QED  BY <1>4, <2>2 DEF RegistersOnce
<1> QED  BY <1>2, <1>3, <1>4 DEF u

\* Pieces without registrations and allowances.
LEMMA PlainPiece ==
    ASSUME NEW c, NEW h, NEW by, NEW id, NEW ops, NEW s \in Seq(Of(ops, c, h, by)),
           s \in Seq(DemoTransaction(c, by, id)),
           ops \cap {"registerStablecoin", "setMinterAllowance"} = {}
    PROVE  DemoShape(s, c, by, id) /\ RegistersNothing(s)
<1>1. s \in Seq(Transaction)
  BY OfMonotonic
<1>2. \A op \in {"registerStablecoin", "setMinterAllowance"} : Of(ops, c, h, by) \cap Kind(op) = {}
  BY DEF Of, Kind
<1>3. /\ Guarded(s, Kind("registerStablecoin"), {grantRole(TA, "TOKEN_AUTHORITY_HANDLER_SETTER", by)})
      /\ Guarded(s, Kind("setMinterAllowance"), {grantRole(TA, "MINT_RATE_LIMIT_SETTER", by)})
  BY <1>2, GuardedByOps
<1>4. \A k \in DOMAIN s : s[k] \in Of(ops, c, h, by)
  BY ElementOfSeq, LenProperties
<1>5. RegistersNothing(s)
  BY <1>4 DEF RegistersNothing, Of
<1> QED  BY <1>1, <1>3, <1>5 DEF DemoShape

\* A grant on one of the demo's contracts.
LEMMA DemoGrant ==
    ASSUME NEW c \in Coins, NEW by, NEW id, NEW on \in {RL, TA, c}, NEW role \in Role,
           NEW who \in Account
    PROVE  grantRole(on, role, who) \in DemoTransaction(c, by, id)
<1>1. on \in Proxied
  BY DEF Proxied, Token
<1>2. grantRole(on, role, who) \in Transaction
  BY <1>1, GrantTyped
<1> QED  BY <1>2 DEF grantRole, DemoTransaction

\* The deployments, the first grants and the whitelisting.
LEMMA DemoPlainParts ==
    ASSUME NEW c \in Coins, NEW h \in Handlers, NEW by \in People, NEW id \in Nat
    PROVE  \A s \in {AllDeployed(c, id, h), ConfigureRoles(c), Whitelisting(c, id, h, by)} :
               DemoShape(s, c, by, id) /\ RegistersNothing(s)
<1> DEFINE D == DemoTransaction(c, by, id)
<1>1. DemoShape(AllDeployed(c, id, h), c, by, id) /\ RegistersNothing(AllDeployed(c, id, h))
  <2>1. AllDeployed(c, id, h) \in Seq(Of(DeployOps, c, h, by))
    BY AllDeployedTyped
  <2>2. Of(DeployOps, c, h, by) \subseteq D
    BY DEF Of, DeployOps, DemoTransaction
  <2>3. AllDeployed(c, id, h) \in Seq(D)
    BY <2>1, <2>2, SeqMonotonic
  <2> QED  BY <2>1, <2>3, PlainPiece DEF DeployOps
<1>2. DemoShape(ConfigureRoles(c), c, by, id) /\ RegistersNothing(ConfigureRoles(c))
  <2>1. ConfigureRoles(c) \in Seq(Of({"grantRole"}, c, h, by))
    BY ConfigurePieces
  <2>2. /\ TA \in Account /\ Config[c].pauserAddress \in Account
        /\ Config[c].unpauserAddress \in Account /\ Config[c].blockedAddressBurnerAddress \in Account
    BY ConfigTyped DEF HandoverConfig, Account, Proxied
  <2>3. {"MINTER", "PAUSER", "UNPAUSER", "BLOCKED_ADDRESS_BURNER"} \subseteq Role
    BY DEF Role
  <2>4. /\ grantRole(RL, "MINTER", TA) \in D /\ grantRole(c, "MINTER", TA) \in D
        /\ grantRole(c, "PAUSER", Config[c].pauserAddress) \in D
        /\ grantRole(c, "UNPAUSER", Config[c].unpauserAddress) \in D
        /\ grantRole(c, "BLOCKED_ADDRESS_BURNER", Config[c].blockedAddressBurnerAddress) \in D
    BY <2>2, <2>3, DemoGrant
  <2> HIDE DEF D
  <2>5. ConfigureRoles(c) \in Seq(D)
    BY <2>4 DEF ConfigureRoles
  <2> QED  BY <2>1, <2>5, PlainPiece DEF D
<1>3. /\ DemoShape(Whitelisting(c, id, h, by), c, by, id)
      /\ RegistersNothing(Whitelisting(c, id, h, by))
  <2>1. Whitelisting(c, id, h, by) \in Seq(Of({"modifyPolicyWhitelist"}, c, h, by))
    BY WhitelistingPiece
  <2>2. ASSUME NEW i \in {id, id + 1}, NEW who \in {Zero, c, h, TA, by}
        PROVE  modifyPolicyWhitelist(i, who) \in D
    <3>1. i \in Nat /\ who \in Account
      BY DEF Account, Proxied, Token
    <3>2. modifyPolicyWhitelist(i, who) \in Transaction
      BY <3>1, WhitelistTyped
    <3> QED  BY <3>2 DEF modifyPolicyWhitelist, DemoTransaction
  <2> HIDE DEF D
  <2>3. Whitelisting(c, id, h, by) \in Seq(D)
    BY <2>2 DEF Whitelisting
  <2> QED  BY <2>1, <2>3, PlainPiece DEF D
<1> QED  BY <1>1, <1>2, <1>3

\* The registration, after the signer was made a setter of handlers.
LEMMA DemoRegistration ==
    ASSUME NEW c \in Coins, NEW h \in Handlers, NEW by \in People, NEW id
    PROVE  /\ DemoShape(RegisterStablecoin(c, h, by), c, by, id)
           /\ RegistersOnce(RegisterStablecoin(c, h, by))
<1> DEFINE D == DemoTransaction(c, by, id)
           s == RegisterStablecoin(c, h, by)
<1>1. s \in Seq(Transaction)
  BY ConfigurePieces, OfMonotonic
<1>2. /\ Len(s) = 4 /\ DOMAIN s = 1 .. 4
      /\ s[1] = grantRole(RL, "MINTER", h) /\ s[2] = grantRole(c, "MINTER", h)
      /\ s[3] = grantRole(TA, "TOKEN_AUTHORITY_HANDLER_SETTER", by)
      /\ s[4] = registerStablecoin(c, h, Config[c].txnMintLimit)
  BY DEF RegisterStablecoin
<1>3. /\ \A k \in 1 .. 3 : s[k].op = "grantRole"
      /\ s[4].op = "registerStablecoin"
  BY <1>2 DEF grantRole, registerStablecoin
<1>4. s \in Seq(D)
  <2>1. by \in Account /\ h \in Account /\ {"MINTER", "TOKEN_AUTHORITY_HANDLER_SETTER"} \subseteq Role
    BY DEF Account, Role
  <2>2. s[1] \in D /\ s[2] \in D /\ s[3] \in D
    BY <1>2, <2>1, DemoGrant
  <2>3. s[4] \in Transaction
    <3> HIDE DEF s
    <3>1. \A k \in DOMAIN s : s[k] \in Transaction
      BY <1>1, ElementOfSeq, LenProperties
    <3> QED  BY <1>2, <3>1
  <2>4. s[4] \in D
    BY <1>3, <2>3 DEF DemoTransaction
  <2>5. s = <<s[1], s[2], s[3], s[4]>>
    BY <1>2 DEF RegisterStablecoin
  <2> DEFINE w == s[1]
             x == s[2]
             y == s[3]
             z == s[4]
  <2> HIDE DEF s, D, w, x, y, z
  <2>6. <<w, x, y, z>> \in Seq(D)
    BY <2>2, <2>4 DEF w, x, y, z
  <2> QED  BY <2>5, <2>6 DEF w, x, y, z
<1> HIDE DEF s
<1>5. RegistersOnce(s)
  BY <1>2, <1>3 DEF RegistersOnce
<1>6. Guarded(s, Kind("registerStablecoin"), {grantRole(TA, "TOKEN_AUTHORITY_HANDLER_SETTER", by)})
  BY <1>2, <1>3 DEF Guarded, Kind
<1>7. Guarded(s, Kind("setMinterAllowance"), {grantRole(TA, "MINT_RATE_LIMIT_SETTER", by)})
  BY <1>2, <1>3 DEF Guarded, Kind
<1> QED  BY <1>1, <1>4, <1>5, <1>6, <1>7 DEF DemoShape, s, D

\* The limits, after the signer was made their setter, and the caps.
LEMMA DemoLimits ==
    ASSUME NEW c \in Coins, NEW h \in Handlers, NEW by \in People, NEW id
    PROVE  /\ DemoShape(ConfigureLimits(c, by), c, by, id)
           /\ RegistersNothing(ConfigureLimits(c, by))
           /\ DemoShape(ConfigureMaxSupply(c), c, by, id)
           /\ RegistersNothing(ConfigureMaxSupply(c))
<1> DEFINE D == DemoTransaction(c, by, id)
           s == ConfigureLimits(c, by)
           t == ConfigureMaxSupply(c)
<1>1. s \in Seq(Transaction) /\ t \in Seq(Transaction)
  BY ConfigurePieces, OfMonotonic
<1>2. /\ Len(s) = 2 /\ DOMAIN s = 1 .. 2 /\ s = <<s[1], s[2]>>
      /\ s[1] = grantRole(TA, "MINT_RATE_LIMIT_SETTER", by)
      /\ s[2] = setMinterAllowance(c, Config[c].minterAddress, Config[c].minterAllowance)
  BY DEF ConfigureLimits
<1>3. /\ Len(t) = 2 /\ DOMAIN t = 1 .. 2 /\ t = <<t[1], t[2]>>
      /\ t[1] = setMaxSupply(RL, Config[c].rlMaxSupply)
      /\ t[2] = setMaxSupply(c, Config[c].stablecoinMaxSupply)
  BY DEF ConfigureMaxSupply
<1>4. /\ s[1].op = "grantRole" /\ s[2].op = "setMinterAllowance"
      /\ t[1].op = "setMaxSupply" /\ t[2].op = "setMaxSupply"
      /\ t[1].on = RL /\ t[2].on = c
  BY <1>2, <1>3 DEF grantRole, setMinterAllowance, setMaxSupply
<1> HIDE DEF s, t
<1>5. s[1] \in Transaction /\ s[2] \in Transaction /\ t[1] \in Transaction /\ t[2] \in Transaction
  <2>1. /\ \A k \in DOMAIN s : s[k] \in Transaction
        /\ \A k \in DOMAIN t : t[k] \in Transaction
    BY <1>1, ElementOfSeq, LenProperties
  <2> QED  BY <1>2, <1>3, <2>1
<1>6. s \in Seq(D) /\ t \in Seq(D)
  <2>1. s[1] \in D
    BY <1>2, DemoGrant DEF Account, Role
  <2>2. s[2] \in D /\ t[1] \in D /\ t[2] \in D
    BY <1>4, <1>5 DEF DemoTransaction
  <2> DEFINE w == s[1]
             x == s[2]
             y == t[1]
             z == t[2]
  <2> HIDE DEF D, w, x, y, z
  <2>3. <<w, x>> \in Seq(D) /\ <<y, z>> \in Seq(D)
    BY <2>1, <2>2 DEF w, x, y, z
  <2> QED  BY <1>2, <1>3, <2>3 DEF w, x, y, z
<1>7. RegistersNothing(s) /\ RegistersNothing(t)
  BY <1>2, <1>3, <1>4 DEF RegistersNothing
<1>8. /\ Guarded(s, Kind("registerStablecoin"), {grantRole(TA, "TOKEN_AUTHORITY_HANDLER_SETTER", by)})
      /\ Guarded(t, Kind("registerStablecoin"), {grantRole(TA, "TOKEN_AUTHORITY_HANDLER_SETTER", by)})
      /\ Guarded(t, Kind("setMinterAllowance"), {grantRole(TA, "MINT_RATE_LIMIT_SETTER", by)})
  BY <1>2, <1>3, <1>4 DEF Guarded, Kind
<1>9. Guarded(s, Kind("setMinterAllowance"), {grantRole(TA, "MINT_RATE_LIMIT_SETTER", by)})
  BY <1>2, <1>4 DEF Guarded, Kind
<1> QED  BY <1>1, <1>6, <1>7, <1>8, <1>9 DEF DemoShape, s, t, D

\* The handover of an admin to itself: grants and transfers, nothing renounced.
LEMMA DemoHandover ==
    ASSUME NEW c \in Coins, NEW h \in Handlers, NEW by \in People, NEW id,
           Config[c].rlAdmin = by, Config[c].stablecoinAdmin = by,
           Config[c].tokenAuthorityAdmin = by
    PROVE  DemoShape(Handover(c, by), c, by, id) /\ RegistersNothing(Handover(c, by))
<1> DEFINE D == DemoTransaction(c, by, id)
           H == Of(HandingOps, c, h, by)
           tokens == TokensTo(c)
           authority == TokenAuthorityTo(by)
<1>1. /\ LeaveAuthority(c, by) = <<>> /\ LeaveReserve(c, by) = <<>> /\ LeaveCoin(c, by) = <<>>
  BY DEF LeaveAuthority, LeaveReserve, LeaveCoin, Renounce
<1>2. Of({"grantRole"}, c, h, by) \subseteq H
  BY DEF Of, HandingOps
<1>3. tokens \in Seq(H) /\ authority \in Seq(H)
  BY <1>2, HandoverParts, SeqMonotonic
<1>4. by \in Account /\ AuthorityRoles \subseteq Role
  BY DEF Account, AuthorityRoles, Role
<1>5. tokens \in Seq(D)
  <2>1. grantRole(RL, "ADMIN", by) \in D /\ grantRole(c, "ADMIN", by) \in D
    BY <1>4, DemoGrant DEF AuthorityRoles
  <2>2. ASSUME NEW on \in {RL, c} PROVE transferOwnership(on, by) \in D
    <3>1. transferOwnership(on, by) \in Transaction
      BY DEF transferOwnership, Transaction, Token
    <3> QED  BY <3>1 DEF transferOwnership, DemoTransaction
  <2> HIDE DEF D
  <2> QED  BY <2>1, <2>2 DEF TokensTo
<1>6. authority \in Seq(D)
  <2>1. \A role \in AuthorityRoles : grantRole(TA, role, by) \in D
    BY <1>4, DemoGrant
  <2> HIDE DEF D
  <2> QED  BY <2>1 DEF TokenAuthorityTo, SettersTo, AuthorityRoles
<1>7. Handover(c, by) = tokens \o authority
  <2>1. Handover(c, by) = tokens \o authority \o <<>> \o <<>> \o <<>>
    BY <1>1, HandoverParts
  <2> HIDE DEF H, tokens, authority
  <2>2. tokens \o authority \in Seq(H)
    BY <1>3
  <2> QED  BY <2>1, <2>2, ConcatEmptySeq
<1>8. /\ DemoShape(tokens, c, by, id) /\ RegistersNothing(tokens)
      /\ DemoShape(authority, c, by, id) /\ RegistersNothing(authority)
  BY <1>3, <1>5, <1>6, PlainPiece DEF HandingOps
<1> HIDE DEF tokens, authority
<1>9. tokens \in Seq(Transaction) /\ authority \in Seq(Transaction)
  BY <1>8 DEF DemoShape
<1> QED  BY <1>7, <1>8, <1>9, DemoShapeConcat, RegistersConcat

\* DeployDemo has the shape and ends with the whitelisting.
LEMMA DemoTransactions ==
    ASSUME NEW r \in Working, r.script = "DeployDemo",
           Config[r.coin].rlAdmin = r.by, Config[r.coin].stablecoinAdmin = r.by,
           Config[r.coin].tokenAuthorityAdmin = r.by
    PROVE  /\ DemoShape(Transactions(r), r.coin, r.by, r.id) /\ RegistersOnce(Transactions(r))
           /\ Within(Whitelisting(r.coin, r.id, r.handler, r.by), Transactions(r))
<1>0. /\ r.coin \in Coins /\ r.by \in People /\ r.id \in Nat /\ r.handler \in Handlers
  BY DEF Working
<1> DEFINE Fits(s) == DemoShape(s, r.coin, r.by, r.id)
           d == AllDeployed(r.coin, r.id, r.handler)
           cr == ConfigureRoles(r.coin)
           rs == RegisterStablecoin(r.coin, r.handler, r.by)
           cl == ConfigureLimits(r.coin, r.by)
           ms == ConfigureMaxSupply(r.coin)
           ho == Handover(r.coin, r.by)
           w == Whitelisting(r.coin, r.id, r.handler, r.by)
<1>1. /\ Fits(d) /\ Fits(cr) /\ Fits(w)
      /\ RegistersNothing(d) /\ RegistersNothing(cr) /\ RegistersNothing(w)
  BY <1>0, DemoPlainParts
<1>2. Fits(rs) /\ RegistersOnce(rs)
  BY <1>0, DemoRegistration
<1>3. Fits(cl) /\ Fits(ms) /\ RegistersNothing(cl) /\ RegistersNothing(ms)
  BY <1>0, DemoLimits
<1>4. Fits(ho) /\ RegistersNothing(ho)
  BY <1>0, DemoHandover
<1>5. Transactions(r) = d \o cr \o rs \o (cl \o ms \o ho) \o w
  BY DeployAllParts DEF Transactions, LimitsSupplyHandover
<1> HIDE DEF d, cr, rs, cl, ms, ho, w
<1>6. \A s, t : Fits(s) /\ Fits(t) => Fits(s \o t)
  BY DemoShapeConcat
<1>7. \A s : Fits(s) => s \in Seq(Transaction)
  BY DEF DemoShape
<1> HIDE DEF Fits
<1>8. \A s, t : Fits(s) /\ Fits(t) =>
          /\ RegistersNothing(s) /\ RegistersNothing(t) => RegistersNothing(s \o t)
          /\ RegistersNothing(s) /\ RegistersOnce(t) => RegistersOnce(s \o t)
          /\ RegistersOnce(s) /\ RegistersNothing(t) => RegistersOnce(s \o t)
  BY <1>7, RegistersConcat
<1> DEFINE one == d \o cr
           two == one \o rs
           end == cl \o ms \o ho
           three == two \o end
           four == three \o w
<1>9. Fits(one) /\ RegistersNothing(one)
  BY <1>1, <1>6, <1>8
<1> HIDE DEF one
<1>10. Fits(two) /\ RegistersOnce(two)
  BY <1>2, <1>6, <1>8, <1>9
<1> HIDE DEF two
<1>11. Fits(end) /\ RegistersNothing(end)
  <2>1. Fits(cl \o ms) /\ RegistersNothing(cl \o ms)
    BY <1>3, <1>6, <1>8
  <2> QED  BY <1>4, <1>6, <1>8, <2>1
<1> HIDE DEF end
<1>12. Fits(three) /\ RegistersOnce(three)
  BY <1>6, <1>8, <1>10, <1>11
<1> HIDE DEF three
<1>13. Fits(four) /\ RegistersOnce(four)
  BY <1>1, <1>6, <1>8, <1>12
<1>14. Within(w, four)
  BY <1>1, <1>7, <1>12, WithinConcat
<1>15. Transactions(r) = four
  BY <1>5 DEF one, two, three, end
<1> QED  BY <1>13, <1>14, <1>15 DEF Fits, w

\* The demo's run, for a coin that Bank A keeps.
LEMMA DemoRun ==
    ASSUME DemoDeployment, TypeOK, AsOffered, demoRunning
    PROVE  /\ run \in Working /\ running /\ DemoCoin(run.coin)
           /\ run.coin \in Coins /\ run.by \in People /\ run.id \in Nat
           /\ run.handler \in Handlers /\ run.at \in Nat
           /\ run.by = DemoIssuer /\ run.by = PolicyAdmin
           /\ \A on : AdminOf(on, run.coin) = run.by
           /\ DemoShape(Transactions(run), run.coin, run.by, run.id)
           /\ RegistersOnce(Transactions(run))
           /\ Within(Whitelisting(run.coin, run.id, run.handler, run.by), Transactions(run))
           /\ DOMAIN Transactions(run) = 1 .. Len(Transactions(run))
           /\ Len(Transactions(run)) \in Nat
<1>1. run \in Working /\ running /\ run.script = "DeployDemo"
  BY RunningTyped DEF demoRunning
<1>2. /\ run.coin \in Coins /\ run.by \in People /\ run.id \in Nat /\ run.at \in Nat
      /\ run.handler \in Handlers
  BY <1>1 DEF Working
<1>3. run.by = DemoIssuer /\ DemoCoin(run.coin)
  BY <1>1 DEF AsOffered, DemoCoin
<1>4. /\ Config[run.coin].rlAdmin = run.by /\ Config[run.coin].stablecoinAdmin = run.by
      /\ Config[run.coin].tokenAuthorityAdmin = run.by /\ run.by = PolicyAdmin
  BY <1>2, <1>3 DEF DemoDeployment
<1>5. /\ DemoShape(Transactions(run), run.coin, run.by, run.id)
      /\ RegistersOnce(Transactions(run))
      /\ Within(Whitelisting(run.coin, run.id, run.handler, run.by), Transactions(run))
  BY <1>1, <1>4, DemoTransactions
<1>6. /\ DOMAIN Transactions(run) = 1 .. Len(Transactions(run))
      /\ Len(Transactions(run)) \in Nat
  BY <1>5, LenProperties DEF DemoShape
<1>7. \A on : AdminOf(on, run.coin) = run.by
  BY <1>4 DEF AdminOf
<1> QED  BY <1>1, <1>2, <1>3, <1>4, <1>5, <1>6, <1>7

\* The contracts the demo has made by its transaction 9.
LEMMA DemoContracts ==
    ASSUME ScriptInv, run \in Working, demoRunning, run.at > 8
    PROVE  {RL, TA, run.coin, run.handler} \subseteq chain.code
<1> DEFINE txs == Transactions(run)
<1>1. /\ 1 .. 8 \subseteq DOMAIN txs
      /\ txs[4] = proxy(RL, run.id, run.id + 1) /\ txs[5] = create(TA)
      /\ txs[6] = create(run.handler) /\ txs[8] = proxy(run.coin, run.id, run.id + 2)
  BY AtOncePositions DEF demoRunning, AtOnceScript
<1>2. run.at \in Nat
  BY DEF Working
<1> HIDE DEF txs
<1>3. \A j \in {4, 5, 6, 8} : j \in DOMAIN txs /\ j < run.at
  BY <1>1, <1>2
<1>4. \A j \in {4, 5, 6, 8} : Done(chain, run.coin, run.by, txs[j])
  BY <1>3 DEF ScriptInv, Progress, demoRunning, txs
<1>5. \A j \in {4, 5, 6, 8} : txs[j].op \in {"create", "proxy"}
  BY <1>1 DEF create, proxy
<1>6. txs[4].on = RL /\ txs[5].on = TA /\ txs[6].on = run.handler /\ txs[8].on = run.coin
  BY <1>1 DEF create, proxy
<1> QED  BY <1>4, <1>5, <1>6 DEF Done

\* A setter's role that the demo's script gave its signer is still there.
LEMMA DemoSetter ==
    ASSUME DemoDeployment, ScriptInv, AsOffered, demoRunning,
           NEW role \in Role, NEW op, run.at \in DOMAIN Transactions(run),
           Guarded(Transactions(run), Kind(op), {grantRole(TA, role, run.by)}),
           Transactions(run)[run.at] \in Kind(op)
    PROVE  run.by \in chain.role[TA][role]
<1> DEFINE txs == Transactions(run)
<1>1. PICK j \in DOMAIN txs : j < run.at /\ txs[j] = grantRole(TA, role, run.by)
  BY DEF Guarded
<1>2. Done(chain, run.coin, run.by, txs[j])
  BY <1>1 DEF ScriptInv, Progress, demoRunning
<1>3. AdminOf(TA, run.coin) = run.by
  BY DemoRun DEF ScriptInv, IInv
<1> HIDE DEF txs
<1> QED  BY <1>1, <1>2, <1>3 DEF Done, Lasting, grantRole

\* After the token's proxy, every transaction of the demo is accepted: the signer has
\* the roles it needs, nothing was issued, and the policies are those it made.
LEMMA DemoAccepted ==
    ASSUME DemoDeployment, ScriptInv, DemoInv, demoRunning, ~raced,
           run.at \in DOMAIN Transactions(run), run.at > 8
    PROVE  Accepts(chain, run.by, NextTransaction)
<1> DEFINE txs == Transactions(run)
           tx == NextTransaction
<1>0. /\ TypeOK /\ chain \in Chain /\ AsOffered /\ SignerAdministers /\ NothingIssued
      /\ PoliciesMade /\ Based
  BY DEF ScriptInv, IInv, TypeOK, DemoInv
<1>1. /\ run \in Working /\ running /\ run.coin \in Coins /\ run.by \in People
      /\ run.id \in Nat /\ run.handler \in Handlers /\ run.at \in Nat /\ run.by = PolicyAdmin
      /\ DemoShape(txs, run.coin, run.by, run.id) /\ RegistersOnce(txs)
  BY <1>0, DemoRun
<1>2. tx \in DemoTransaction(run.coin, run.by, run.id) /\ tx = txs[run.at]
  <2>1. txs \in Seq(DemoTransaction(run.coin, run.by, run.id))
    BY <1>1 DEF DemoShape
  <2> QED  BY <2>1, ElementOfSeq, LenProperties DEF NextTransaction
<1>3. tx \in Transaction /\ tx \in Of(Ops, run.coin, run.handler, run.by)
  <2>1. txs \in Seq(Of(Ops, run.coin, run.handler, run.by))
    BY <1>1, TransactionsShape DEF Shape
  <2>2. tx \in Of(Ops, run.coin, run.handler, run.by)
    BY <1>2, <2>1, ElementOfSeq, LenProperties
  <2> QED  BY <2>2 DEF Of
<1>4. tx.op \notin DeployOps
  BY <1>1, <1>2, AtOncePositions DEF demoRunning, AtOnceScript
<1>5. {RL, TA, run.coin, run.handler} \subseteq chain.code
  BY <1>1, DemoContracts
<1>6. /\ \A on \in {RL, TA, run.coin} : run.by \in chain.role[on]["ADMIN"]
      /\ \A on \in {RL, run.coin} : chain.owner[on] = run.by
  BY <1>0, <1>1 DEF SignerAdministers
<1>7. \A on \in {RL, run.coin} : chain.supply[on] = 0
  BY <1>0, <1>1 DEF NothingIssued
<1> HIDE DEF tx, txs
<1>8. CASE tx.op = "grantRole"
  <2>1. tx.on \in {RL, TA, run.coin}
    BY <1>2, <1>8 DEF DemoTransaction
  <2> QED  BY <1>5, <1>6, <1>8, <2>1 DEF Accepts, isAdmin, tx
<1>9. CASE tx.op = "transferOwnership"
  <2>1. tx.on \in {RL, run.coin}
    BY <1>2, <1>9 DEF DemoTransaction
  <2> QED  BY <1>6, <1>9, <2>1 DEF Accepts, tx
<1>10. CASE tx.op = "setMaxSupply"
  <2>1. tx.on \in {RL, run.coin} /\ tx.amount \in Nat
    BY <1>2, <1>3, <1>10, Parameters DEF DemoTransaction
  <2>2. tx.amount >= chain.supply[tx.on]
    BY <1>7, <2>1
  <2> QED  BY <1>6, <1>10, <2>1, <2>2 DEF Accepts, isAdmin, CapAboveSupply, tx
<1>11. CASE tx.op = "registerStablecoin"
  <2>1. run.by \in chain.role[TA]["TOKEN_AUTHORITY_HANDLER_SETTER"]
    <3>1. txs[run.at] \in Kind("registerStablecoin")
      BY <1>2, <1>3, <1>11 DEF Kind
    <3>2. "TOKEN_AUTHORITY_HANDLER_SETTER" \in Role
      BY DEF Role
    <3> QED  BY <1>0, <1>1, <3>1, <3>2, DemoSetter DEF DemoShape, txs
  <2>2. tx.coin = run.coin /\ tx.handler = run.handler
    BY <1>3, <1>11 DEF Of, Proper
  <2>3. chain.handler[run.coin] = None
    <3>1. SUFFICES ASSUME chain.handler[run.coin] # None PROVE FALSE
      OBVIOUS
    <3>2. PICK j \in DOMAIN txs : j < run.at /\ txs[j].op = "registerStablecoin"
      BY <1>0, <3>1 DEF NothingIssued, txs
    <3>3. j = run.at
      BY <1>1, <1>2, <1>11, <3>2 DEF RegistersOnce, txs
    <3> QED  BY <1>1, <3>2, <3>3
  <2> QED  BY <1>5, <1>11, <2>1, <2>2, <2>3 DEF Accepts, tx
<1>12. CASE tx.op = "setMinterAllowance"
  <2>1. txs[run.at] \in Kind("setMinterAllowance")
    BY <1>2, <1>3, <1>12 DEF Kind
  <2>2. "MINT_RATE_LIMIT_SETTER" \in Role
    BY DEF Role
  <2>3. run.by \in chain.role[TA]["MINT_RATE_LIMIT_SETTER"]
    BY <1>0, <1>1, <2>1, <2>2, DemoSetter DEF DemoShape, txs
  <2> QED  BY <1>12, <2>3 DEF Accepts, tx
<1>13. CASE tx.op = "modifyPolicyWhitelist"
  <2>1. tx.id \in {run.id, run.id + 1}
    BY <1>2, <1>13 DEF DemoTransaction
  <2>2. Made(run.script, run.at) = 3
    BY <1>1 DEF Made, demoRunning, AtOnceScript
  <2>3. run.id > 1
    BY <1>0, <1>1 DEF Based
  <2>4. /\ Len(chain.policies) >= run.id - FirstPolicyId + 3
        /\ \A i \in 1 .. 3 : chain.policies[run.id - FirstPolicyId + i].admin = PolicyAdmin
    BY <1>0, <1>1, <2>2 DEF PoliciesMade
  <2>5. Len(chain.policies) \in Nat /\ DOMAIN chain.policies = 1 .. Len(chain.policies)
    BY <1>0, LenProperties DEF Chain
  <2>6. PICK i \in 1 .. 2 : tx.id = run.id + i - 1
    <3>1. tx.id = run.id + 1 - 1 \/ tx.id = run.id + 2 - 1
      BY <1>1, <2>1
    <3> QED  BY <3>1
  <2>7. tx.id - FirstPolicyId + 1 = run.id - FirstPolicyId + i /\ i \in 1 .. 3
    BY <1>1, <2>6 DEF FirstPolicyId
  <2>8. run.id - FirstPolicyId + i \in DOMAIN chain.policies
    BY <1>1, <2>3, <2>4, <2>5, <2>7 DEF FirstPolicyId
  <2>9. PolicyExists(chain, tx.id) /\ PolicyOf(chain, tx.id).admin = run.by
    BY <1>1, <2>4, <2>7, <2>8 DEF PolicyExists, PolicyOf
  <2> QED  BY <1>13, <2>9 DEF Accepts, tx
<1>14. tx.op # "renounceRole"
  BY <1>2 DEF DemoTransaction
<1> QED  BY <1>3, <1>4, <1>8, <1>9, <1>10, <1>11, <1>12, <1>13, <1>14, Parameters DEF DeployOps, tx

-----------------------------------------------------------------------------
(* A usable demo stays usable, and every step keeps the invariant.           *)

\* No transaction of any script takes from a token what makes it usable.
LEMMA BroadcastKeepsUsable ==
    ASSUME ScriptInv, Broadcast, ~raced, NEW c \in Coins, c \in chain.code, Usable(c)
    PROVE  c \in chain'.code /\ Usable(c)'
<1> DEFINE tx == NextTransaction
<1>0. TypeOK /\ OwnPolicies /\ Founded
  BY DEF ScriptInv, IInv
<1>1. /\ tx \in Transaction /\ chain \in Chain /\ run.by \in People
      /\ Accepts(chain, run.by, tx) /\ chain' = Effect(chain, run.by, tx)
      /\ CodeChange(chain, run.by, tx, chain') /\ TokenChange(chain, run.by, tx, chain')
      /\ CoinChange(chain, run.by, tx, chain')
  BY <1>0, BroadcastFacts
<1> HIDE DEF tx
<1>2. RL \in Token /\ c \in Token
  BY DEF Token
<1>3. RL \in chain.code
  BY <1>0, <1>2 DEF Founded
<1>4. c \in chain'.code
  BY <1>1 DEF CodeChange
<1>5. chain'.handler[c] = chain.handler[c] /\ chain.handler[c] # None
  <2>1. chain.handler[c] # None
    BY DEF Usable, Configured
  <2>2. ~(tx.op = "registerStablecoin" /\ tx.coin = c)
    BY <1>1, <2>1 DEF Accepts
  <2> QED  BY <1>1, <2>1, <2>2 DEF CoinChange
<1>6. /\ chain'.transferPolicyId[RL] = chain.transferPolicyId[RL]
      /\ chain'.mintRecipientPolicyId[RL] = chain.mintRecipientPolicyId[RL]
  <2>1. ~(tx.op = "proxy" /\ tx.on = RL)
    BY <1>1, <1>3 DEF Accepts
  <2> QED  BY <1>1, <1>2, <2>1 DEF TokenChange
<1>7. ASSUME NEW id \in {chain.transferPolicyId[RL], chain.mintRecipientPolicyId[RL]}
      PROVE  PolicyOf(chain, id).member \subseteq PolicyOf(chain', id).member
  <2>1. PolicyExists(chain, id)
    BY <1>0, <1>2, <1>3, <1>7 DEF OwnPolicies
  <2> QED  BY <1>1, <2>1, PoliciesGrow DEF PolicyExists, PolicyOf
<1>8. Configured(chain', c)
  BY <1>5, BroadcastRegistered DEF RegisteredCanMint
<1>9. Usable(c)'
  <2>1. /\ {Zero, c, chain.handler[c]} \subseteq PolicyOf(chain, chain.transferPolicyId[RL]).member
        /\ chain.handler[c] \in PolicyOf(chain, chain.mintRecipientPolicyId[RL]).member
    BY DEF Usable
  <2>2. /\ {Zero, c, chain.handler[c]} \subseteq PolicyOf(chain', chain.transferPolicyId[RL]).member
        /\ chain.handler[c] \in PolicyOf(chain', chain.mintRecipientPolicyId[RL]).member
    BY <1>7, <2>1
  <2> QED  BY <1>5, <1>6, <1>8, <2>2 DEF Usable
<1> QED  BY <1>4, <1>9

\* Nor does a policy made by somebody else.
LEMMA ElsewhereKeepsUsable ==
    ASSUME ScriptInv, NEW who \in People \ {PolicyAdmin}, CreatePolicyElsewhere(who), ~raced,
           NEW c \in Coins, c \in chain.code, Usable(c)
    PROVE  c \in chain'.code /\ Usable(c)'
<1> DEFINE new == [admin |-> who, member |-> {}]
           S == [admin : People, member : SUBSET Account]
<1>0. TypeOK /\ chain \in Chain /\ OwnPolicies /\ Founded
  BY DEF ScriptInv, IInv, TypeOK
<1>1. /\ chain'.code = chain.code /\ chain'.role = chain.role /\ chain'.handler = chain.handler
      /\ chain'.transferPolicyId = chain.transferPolicyId
      /\ chain'.mintRecipientPolicyId = chain.mintRecipientPolicyId
      /\ chain'.policies = Append(chain.policies, new)
  BY <1>0 DEF CreatePolicyElsewhere, WithPolicy, Chain
<1>2. new \in S /\ chain.policies \in Seq(S)
  BY <1>0 DEF Chain
<1> HIDE DEF new, S
<1>3. \A i \in DOMAIN chain.policies : chain'.policies[i] = chain.policies[i]
  BY <1>1, <1>2, AppendProperties, LenProperties
<1>4. RL \in Token /\ RL \in chain.code
  BY <1>0 DEF Founded, Token
<1>5. ASSUME NEW id \in {chain.transferPolicyId[RL], chain.mintRecipientPolicyId[RL]}
      PROVE  PolicyOf(chain', id) = PolicyOf(chain, id)
  <2>1. PolicyExists(chain, id)
    BY <1>0, <1>4, <1>5 DEF OwnPolicies
  <2> QED  BY <1>3, <2>1 DEF PolicyExists, PolicyOf
<1>6. Configured(chain', c)
  BY <1>1 DEF Usable, Configured
<1> QED  BY <1>1, <1>5, <1>6 DEF Usable

\* Nor does issuing.
LEMMA IssueKeepsUsable ==
    ASSUME ScriptInv, NEW d \in Coins, Issue(d), NEW c \in Coins, c \in chain.code, Usable(c)
    PROVE  c \in chain'.code /\ Usable(c)'
<1>0. chain \in Chain
  BY DEF ScriptInv, IInv, TypeOK
<1>1. /\ chain'.code = chain.code /\ chain'.role = chain.role /\ chain'.policies = chain.policies
      /\ chain'.transferPolicyId = chain.transferPolicyId
      /\ chain'.mintRecipientPolicyId = chain.mintRecipientPolicyId
      /\ chain'.handler = chain.handler
  BY <1>0 DEF Issue, Chain
<1> QED  BY <1>1 DEF Usable, Configured, PolicyOf

\* A demo that comes to its end leaves its token usable.
LEMMA DemoFinishes ==
    ASSUME DemoDeployment, ScriptInv, AsOffered, Finish, run.script = "DeployDemo"
    PROVE  /\ run.coin \in Coins /\ DemoCoin(run.coin) /\ run.coin \in chain.code
           /\ Usable(run.coin)
<1> DEFINE txs == Transactions(run)
           c == run.coin
           h == run.handler
           w == Whitelisting(c, run.id, h, run.by)
<1>0. TypeOK /\ demoRunning /\ run.at > Len(txs)
  BY DEF ScriptInv, IInv, Finish, demoRunning
<1>1. /\ run \in Working /\ c \in Coins /\ DemoCoin(c) /\ run.at \in Nat /\ Len(txs) \in Nat
      /\ DOMAIN txs = 1 .. Len(txs) /\ Within(w, txs) /\ run.by \in People /\ h \in Handlers
  BY <1>0, DemoRun
<1>2. \A k \in DOMAIN txs : Done(chain, c, run.by, txs[k])
  BY AllDone
<1>3. run.at > 8
  <2>1. 8 \in DOMAIN txs
    BY <1>1, AtOncePositions DEF demoRunning, AtOnceScript
  <2> HIDE DEF txs
  <2> QED  BY <1>0, <1>1, <2>1
<1>4. c \in chain.code
  BY <1>0, <1>1, <1>3, DemoContracts
<1>5. chain.transferPolicyId[RL] = run.id /\ chain.mintRecipientPolicyId[RL] = run.id + 1
  BY <1>0, <1>1, <1>3 DEF ScriptInv, ReserveMade, demoRunning, AtOnceScript
<1>6. chain.handler[c] = h /\ chain.handler[c] # None
  <2> DEFINE p == RegisterStablecoin(c, h, run.by)
             q == registerStablecoin(c, h, Config[c].txnMintLimit)
  <2>1. Within(p, txs)
    BY <1>1, ScriptConfigures DEF demoRunning, Configures, ConfiguringScript, AtOnceScript
  <2>2. 4 \in DOMAIN p /\ p[4] = q
    BY DEF RegisterStablecoin
  <2> HIDE DEF p, q, txs, c, h
  <2>3. PICK k \in DOMAIN txs : txs[k] = q
    BY <2>1, <2>2 DEF Within
  <2>4. Done(chain, c, run.by, q)
    BY <1>2, <2>3
  <2> QED  BY <2>4 DEF Done, q, registerStablecoin
<1>7. Configured(chain, c)
  BY <1>1, <1>6 DEF ScriptInv, RegisteredCanMint
<1>8. ASSUME NEW j \in DOMAIN w, NEW id, NEW who, w[j] = modifyPolicyWhitelist(id, who)
      PROVE  who \in PolicyOf(chain, id).member
  <2> HIDE DEF w, txs, c
  <2>1. PICK k \in DOMAIN txs : txs[k] = modifyPolicyWhitelist(id, who)
    BY <1>1, <1>8 DEF Within
  <2>2. Done(chain, c, run.by, modifyPolicyWhitelist(id, who))
    BY <1>2, <2>1
  <2> QED  BY <2>2 DEF Done, modifyPolicyWhitelist
<1>9. /\ 1 \in DOMAIN w /\ w[1] = modifyPolicyWhitelist(run.id, Zero)
      /\ 2 \in DOMAIN w /\ w[2] = modifyPolicyWhitelist(run.id, c)
      /\ 3 \in DOMAIN w /\ w[3] = modifyPolicyWhitelist(run.id, h)
      /\ 6 \in DOMAIN w /\ w[6] = modifyPolicyWhitelist(run.id + 1, h)
  BY DEF Whitelisting
<1> HIDE DEF w, txs, c, h
<1>10. /\ {Zero, c, h} \subseteq PolicyOf(chain, run.id).member
       /\ h \in PolicyOf(chain, run.id + 1).member
  BY <1>8, <1>9
<1>11. Usable(c)
  BY <1>5, <1>6, <1>7, <1>10 DEF Usable
<1> QED  BY <1>1, <1>4, <1>11 DEF c

\* A role is given on a contract that is there, and nothing is issued by a script.
LEMMA BroadcastFounds ==
    ASSUME ScriptInv, DemoInv, Broadcast
    PROVE  RolesFounded' /\ IssuedIfRegistered'
<1> DEFINE tx == NextTransaction
<1>0. TypeOK /\ RolesFounded /\ IssuedIfRegistered
  BY DEF ScriptInv, IInv, DemoInv
<1>1. /\ tx \in Transaction /\ chain \in Chain /\ run.by \in People
      /\ Accepts(chain, run.by, tx) /\ chain' = Effect(chain, run.by, tx)
      /\ CodeChange(chain, run.by, tx, chain') /\ RoleChange(chain, run.by, tx, chain')
      /\ CoinChange(chain, run.by, tx, chain')
  BY <1>0, BroadcastFacts
<1> HIDE DEF tx
<1>2. RolesFounded'
  <2> SUFFICES ASSUME NEW t \in Proxied, t \notin chain'.code, NEW r \in Role
               PROVE  chain'.role[t][r] = {}
    BY DEF RolesFounded
  <2>1. t \notin chain.code /\ ~(tx.op \in {"create", "proxy"} /\ t = tx.on)
    BY <1>1 DEF CodeChange
  <2>2. ~(tx.op = "grantRole" /\ t = tx.on)
    BY <1>1, <2>1 DEF Accepts
  <2>3. chain.role[t][r] = {}
    BY <1>0, <2>1 DEF RolesFounded
  <2> QED  BY <1>1, <2>1, <2>2, <2>3 DEF RoleChange
<1>3. chain'.supply = chain.supply
  BY <1>1, EffectTyped
<1>4. \A c \in Coins : chain'.handler[c] = None => chain.handler[c] = None
  <2>1. \A c \in Coins : tx.op = "registerStablecoin" /\ tx.coin = c => chain.handler[c] = None
    BY <1>1 DEF Accepts
  <2> QED  BY <1>1, <2>1 DEF CoinChange
<1> QED  BY <1>0, <1>2, <1>3, <1>4 DEF IssuedIfRegistered

\* A coin whose proxy is not there is not registered, nor is any before the reserve's.
LEMMA NotRegistered ==
    ASSUME ScriptInv, RolesFounded, NEW c \in Coins,
           c \notin chain.code \/ RL \notin chain.code
    PROVE  chain.handler[c] = None
<1>1. RL \in Proxied /\ c \in Proxied /\ "MINTER" \in Role
  BY DEF Proxied, Token, Role
<1>2. chain.role[RL]["MINTER"] = {} \/ chain.role[c]["MINTER"] = {}
  BY <1>1 DEF RolesFounded
<1>3. RegisteredCanMint
  BY DEF ScriptInv
<1> QED  BY <1>2, <1>3 DEF RegisteredCanMint, Configured

\* The signer of the demo stays the admin and the owner of what it has made.
LEMMA BroadcastSigner ==
    ASSUME DemoDeployment, ScriptInv, DemoInv, Broadcast
    PROVE  SignerAdministers'
<1> DEFINE tx == NextTransaction
           txs == Transactions(run)
<1>0. TypeOK /\ AsOffered /\ SignerAdministers
  BY DEF ScriptInv, IInv, DemoInv
<1>1. /\ run.at \in DOMAIN txs /\ tx = txs[run.at] /\ running
      /\ tx \in Transaction /\ chain \in Chain
      /\ RoleChange(chain, run.by, tx, chain') /\ TokenChange(chain, run.by, tx, chain')
      /\ run'.at = run.at + 1 /\ run'.script = run.script /\ run'.coin = run.coin
      /\ run'.by = run.by
  BY <1>0, BroadcastFacts
<1>2. SUFFICES ASSUME demoRunning
               PROVE  /\ run.at + 1 > 4 => /\ run.by \in chain'.role[RL]["ADMIN"]
                                           /\ chain'.owner[RL] = run.by
                      /\ run.at + 1 > 5 => run.by \in chain'.role[TA]["ADMIN"]
                      /\ run.at + 1 > 8 => /\ run.by \in chain'.role[run.coin]["ADMIN"]
                                           /\ chain'.owner[run.coin] = run.by
  BY <1>1 DEF SignerAdministers, demoRunning
<1>3. /\ run \in Working /\ run.coin \in Coins /\ run.by \in People /\ run.at \in Nat
      /\ DemoShape(txs, run.coin, run.by, run.id)
  BY <1>0, <1>2, DemoRun
<1>4. /\ txs[4] = proxy(RL, run.id, run.id + 1) /\ txs[5] = create(TA)
      /\ txs[8] = proxy(run.coin, run.id, run.id + 2)
  BY <1>2, <1>3, AtOncePositions DEF demoRunning, AtOnceScript
<1>5. tx \in DemoTransaction(run.coin, run.by, run.id)
  <2>1. txs \in Seq(DemoTransaction(run.coin, run.by, run.id))
    BY <1>3 DEF DemoShape
  <2> QED  BY <1>1, <2>1, ElementOfSeq, LenProperties
<1>6. /\ run.at = 4 => tx.op = "proxy" /\ tx.on = RL
      /\ run.at = 5 => tx.op = "create" /\ tx.on = TA
      /\ run.at = 8 => tx.op = "proxy" /\ tx.on = run.coin
  BY <1>1, <1>4 DEF proxy, create
<1>7. /\ RL \in Proxied /\ TA \in Proxied /\ run.coin \in Proxied /\ "ADMIN" \in Role
      /\ RL \in Token /\ run.coin \in Token
  BY <1>3 DEF Proxied, Token, Role
<1> HIDE DEF tx, txs
<1>8. ASSUME NEW t \in Proxied
      PROVE  /\ run.by \in chain.role[t]["ADMIN"] => run.by \in chain'.role[t]["ADMIN"]
             /\ tx.op \in {"create", "proxy"} /\ tx.on = t => run.by \in chain'.role[t]["ADMIN"]
  <2>1. tx.op # "renounceRole"
    BY <1>5 DEF DemoTransaction
  <2> QED  BY <1>1, <1>7, <2>1 DEF RoleChange
<1>9. ASSUME NEW t \in Token
      PROVE  /\ chain.owner[t] = run.by => chain'.owner[t] = run.by
             /\ tx.op = "proxy" /\ tx.on = t => chain'.owner[t] = run.by
  <2>1. tx.op = "transferOwnership" => tx.who = run.by
    BY <1>5 DEF DemoTransaction
  <2> QED  BY <1>1, <2>1 DEF TokenChange
<1>10. /\ run.at + 1 > 4 => run.at = 4 \/ run.at > 4
       /\ run.at + 1 > 5 => run.at = 5 \/ run.at > 5
       /\ run.at + 1 > 8 => run.at = 8 \/ run.at > 8
  BY <1>3
<1>11. /\ run.at > 4 => run.by \in chain.role[RL]["ADMIN"] /\ chain.owner[RL] = run.by
       /\ run.at > 5 => run.by \in chain.role[TA]["ADMIN"]
       /\ run.at > 8 => run.by \in chain.role[run.coin]["ADMIN"] /\ chain.owner[run.coin] = run.by
  BY <1>0, <1>2 DEF SignerAdministers
<1>12. run.at + 1 > 4 => run.by \in chain'.role[RL]["ADMIN"] /\ chain'.owner[RL] = run.by
  BY <1>6, <1>7, <1>8, <1>9, <1>10, <1>11
<1>13. run.at + 1 > 5 => run.by \in chain'.role[TA]["ADMIN"]
  BY <1>6, <1>7, <1>8, <1>10, <1>11
<1>14. run.at + 1 > 8 =>
           run.by \in chain'.role[run.coin]["ADMIN"] /\ chain'.owner[run.coin] = run.by
  BY <1>6, <1>7, <1>8, <1>9, <1>10, <1>11
<1> QED  BY <1>12, <1>13, <1>14

\* The demo registers its own coin only, and once.
LEMMA BroadcastNothingIssued ==
    ASSUME DemoDeployment, ScriptInv, DemoInv, Broadcast
    PROVE  NothingIssued'
<1> DEFINE tx == NextTransaction
           txs == Transactions(run)
<1>0. TypeOK /\ AsOffered /\ RolesFounded /\ IssuedIfRegistered /\ NothingIssued
  BY DEF ScriptInv, IInv, DemoInv
<1>1. /\ run.at \in DOMAIN txs /\ tx = txs[run.at] /\ running /\ run.by \in People
      /\ tx \in Transaction /\ tx \in Of(Ops, run.coin, run.handler, run.by) /\ chain \in Chain
      /\ Accepts(chain, run.by, tx) /\ chain' = Effect(chain, run.by, tx)
      /\ CoinChange(chain, run.by, tx, chain')
      /\ run'.at = run.at + 1 /\ run'.script = run.script /\ run'.coin = run.coin
      /\ Transactions(run') = txs
  BY <1>0, BroadcastFacts
<1>2. SUFFICES ASSUME demoRunning
               PROVE  /\ run.at + 1 > 4 =>
                             /\ chain'.supply[RL] = 0
                             /\ \A c \in Coins : c # run.coin => chain'.handler[c] = None
                      /\ run.at + 1 > 8 => chain'.supply[run.coin] = 0
                      /\ run.at + 1 > 8 /\ chain'.handler[run.coin] # None =>
                             \E j \in DOMAIN txs :
                                 j < run.at + 1 /\ txs[j].op = "registerStablecoin"
  BY <1>1 DEF NothingIssued, demoRunning
<1>3. /\ run \in Working /\ run.coin \in Coins /\ run.at \in Nat
      /\ DOMAIN txs = 1 .. Len(txs) /\ Len(txs) \in Nat
  BY <1>0, <1>2, DemoRun
<1>4. txs[4] = proxy(RL, run.id, run.id + 1) /\ txs[8] = proxy(run.coin, run.id, run.id + 2)
  BY <1>2, <1>3, AtOncePositions DEF demoRunning, AtOnceScript
<1>5. /\ run.at = 4 => tx.op = "proxy" /\ tx.on = RL
      /\ run.at = 8 => tx.op = "proxy" /\ tx.on = run.coin
  BY <1>1, <1>4 DEF proxy
<1> HIDE DEF tx, txs
<1>6. chain'.supply = chain.supply
  BY <1>1, EffectTyped
<1>7. \A c \in Coins : chain'.handler[c] # chain.handler[c] =>
          c = run.coin /\ tx.op = "registerStablecoin"
  <2>1. tx.op = "registerStablecoin" => tx.coin = run.coin
    BY <1>1 DEF Of, Proper
  <2> QED  BY <1>1, <2>1 DEF CoinChange
<1>8. run.at + 1 > 4 => /\ chain.supply[RL] = 0
                        /\ \A c \in Coins : c # run.coin => chain.handler[c] = None
  <2>1. CASE run.at = 4
    <3>1. RL \notin chain.code
      BY <1>1, <1>5, <2>1 DEF Accepts
    <3>2. \A c \in Coins : chain.handler[c] = None
      BY <1>0, <3>1, NotRegistered
    <3> QED  BY <1>0, <3>2 DEF IssuedIfRegistered
  <2>2. CASE run.at > 4
    BY <1>0, <1>2, <2>2 DEF NothingIssued
  <2> QED  BY <1>3, <2>1, <2>2
<1>9. /\ run.at + 1 > 8 => chain.supply[run.coin] = 0
      /\ run.at + 1 > 8 /\ chain.handler[run.coin] # None =>
             \E j \in DOMAIN txs : j < run.at /\ txs[j].op = "registerStablecoin"
  <2>1. CASE run.at = 8
    <3>1. run.coin \notin chain.code
      BY <1>1, <1>5, <2>1 DEF Accepts
    <3>2. chain.handler[run.coin] = None
      BY <1>0, <1>3, <3>1, NotRegistered
    <3> QED  BY <1>0, <1>3, <3>2 DEF IssuedIfRegistered
  <2>2. CASE run.at > 8
    BY <1>0, <1>2, <2>2 DEF NothingIssued, txs
  <2> QED  BY <1>3, <2>1, <2>2
<1>10. ASSUME run.at + 1 > 8, chain'.handler[run.coin] # None
       PROVE  \E j \in DOMAIN txs : j < run.at + 1 /\ txs[j].op = "registerStablecoin"
  <2>1. CASE chain'.handler[run.coin] # chain.handler[run.coin]
    <3>1. tx.op = "registerStablecoin"
      BY <1>3, <1>7, <2>1
    <3>2. run.at \in DOMAIN txs /\ txs[run.at].op = "registerStablecoin" /\ run.at < run.at + 1
      BY <1>1, <1>3, <3>1
    <3> QED  BY <3>2
  <2>2. CASE chain'.handler[run.coin] = chain.handler[run.coin]
    <3>1. PICK j \in DOMAIN txs : j < run.at /\ txs[j].op = "registerStablecoin"
      BY <1>9, <1>10, <2>2
    <3>2. j < run.at + 1
      BY <1>3, <3>1
    <3> QED  BY <3>1, <3>2
  <2> QED  BY <2>1, <2>2
<1>11. run.at + 1 > 4 => /\ chain'.supply[RL] = 0
                         /\ \A c \in Coins : c # run.coin => chain'.handler[c] = None
  BY <1>6, <1>7, <1>8
<1>12. run.at + 1 > 8 => chain'.supply[run.coin] = 0
  BY <1>6, <1>9
<1> QED  BY <1>10, <1>11, <1>12

\* The demo's token is made by the demo's script.
LEMMA BroadcastUsable ==
    ASSUME DemoDeployment, ScriptInv, DemoInv, Broadcast
    PROVE  UsableOrAtWork' /\ UndisturbedDemoIsUsable'
<1> DEFINE tx == NextTransaction
           txs == Transactions(run)
<1>0. /\ TypeOK /\ AsOffered /\ UsableOrAtWork /\ UndisturbedDemoIsUsable
      /\ bounds' = bounds /\ published' = published
  BY DEF ScriptInv, IInv, DemoInv, Broadcast
<1>1. /\ run \in Working /\ run.at \in DOMAIN txs /\ tx = txs[run.at] /\ running /\ running'
      /\ tx \in Transaction /\ CodeChange(chain, run.by, tx, chain') /\ raced' = raced
      /\ run'.at = run.at + 1 /\ run'.script = run.script /\ run'.coin = run.coin
  BY <1>0, BroadcastFacts
<1>2. run.at \in Nat /\ run.coin \in Coins /\ run.script \in Script
  BY <1>1 DEF Working
<1>3. DeploysAt(run, run.at, tx)
  BY <1>1, Deployments
<1> HIDE DEF tx, txs
<1>4. UsableOrAtWork'
  <2> SUFFICES ASSUME bounds.crashes = 0, ~raced, NEW c \in Coins, DemoCoin(c), c \in chain'.code
               PROVE  Usable(c)' \/ (demoRunning' /\ run'.coin = c /\ run'.at > 8)
    BY <1>0, <1>1 DEF UsableOrAtWork
  <2>1. CASE c \in chain.code /\ Usable(c)
    BY <2>1, BroadcastKeepsUsable
  <2>2. CASE demoRunning /\ run.coin = c /\ run.at > 8
    BY <1>1, <1>2, <2>2 DEF demoRunning
  <2>3. CASE c \notin chain.code
    <3>1. tx.op \in {"create", "proxy"} /\ tx.on = c
      BY <1>1, <2>3 DEF CodeChange
    <3>2. c \in Token /\ c \notin {Registry, TA, RL} /\ c \notin Handlers
      BY Distinct DEF Token, Proxied
    <3>3. tx.op = "proxy"
      <4>1. tx \in Of(Ops, run.coin, run.handler, run.by)
        BY <1>0, BroadcastFacts DEF tx
      <4>2. run.handler \in Handlers
        BY <1>1 DEF Working
      <4> QED  BY <3>1, <3>2, <4>1, <4>2 DEF Of, Proper
    <3>4. \/ run.script = "DeployStablecoin" /\ run.coin = c
          \/ run.script \in AtOnceScript /\ run.coin = c /\ run.at = 8
      <4>1. ProxyAt(run, run.at, tx)
        BY <1>3, <3>3 DEF DeploysAt
      <4> QED  BY <3>1, <3>2, <4>1 DEF ProxyAt, proxy
    <3>5. run.script \notin {"DeployStablecoin", "DeployAll"}
      <4>1. <<run.script, run.coin, run.by>> \in Offered
        BY <1>0, <1>1 DEF AsOffered
      <4>2. DemoCoin(run.coin)
        BY <3>4
      <4>3. \A o \in Offered : o[1] \in {"DeployStablecoin", "DeployAll"} => ~DemoCoin(o[2])
        BY DEF DemoDeployment
      <4> HIDE DEF DemoCoin
      <4> QED  BY <4>1, <4>2, <4>3
    <3> QED  BY <1>1, <1>2, <3>4, <3>5 DEF demoRunning, AtOnceScript
  <2> QED  BY <1>0, <2>1, <2>2, <2>3 DEF UsableOrAtWork
<1>5. UndisturbedDemoIsUsable'
  <2> SUFFICES ASSUME published, bounds.crashes = 0, ~raced
               PROVE  \E c \in Coins : DemoCoin(c) /\ c \in chain'.code /\ Usable(c)'
    BY <1>0, <1>1 DEF UndisturbedDemoIsUsable, DemoCoin
  <2>1. PICK c \in Coins : DemoCoin(c) /\ c \in chain.code /\ Usable(c)
    BY <1>0 DEF UndisturbedDemoIsUsable, DemoCoin
  <2> QED  BY <2>1, BroadcastKeepsUsable
<1> QED  BY <1>4, <1>5

\* An empty chain and no script.
LEMMA InitDemoInv == Init => DemoInv
<1> SUFFICES ASSUME Init PROVE DemoInv
  OBVIOUS
<1>1. chain.code = {} /\ ~running /\ published = FALSE
  BY DEF Init, InitChain, running
<1>2. AsOffered /\ SignerAdministers /\ NothingIssued /\ UsableOrAtWork /\ UndisturbedDemoIsUsable
  BY <1>1 DEF AsOffered, SignerAdministers, NothingIssued, UsableOrAtWork,
              UndisturbedDemoIsUsable, demoRunning
<1>3. RolesFounded
  BY DEF Init, InitChain, RolesFounded
<1>4. \A t \in Token : chain.supply[t] = 0
  BY DEF Init, InitChain
<1>5. IssuedIfRegistered
  BY <1>4 DEF IssuedIfRegistered, Token
<1> QED  BY <1>2, <1>3, <1>5 DEF DemoInv

\* No script is at work and the contracts are as they were: the demo's tokens must be
\* usable by now, one of them when the services are started.
LEMMA DemoAtRest ==
    ASSUME DemoInv, UNCHANGED <<chain, raced>>, ~running',
           bounds'.crashes = 0 /\ ~raced =>
               /\ \A c \in Coins : DemoCoin(c) /\ c \in chain.code => Usable(c)
               /\ published' => \E c \in Coins : DemoCoin(c) /\ c \in chain.code
    PROVE  DemoInv'
<1>1. AsOffered' /\ SignerAdministers' /\ NothingIssued'
  BY DEF AsOffered, SignerAdministers, NothingIssued, demoRunning
<1>2. RolesFounded' /\ IssuedIfRegistered'
  BY DEF DemoInv, RolesFounded, IssuedIfRegistered
<1>3. \A c \in Coins : Usable(c) => Usable(c)'
  BY DEF Usable
<1>4. UsableOrAtWork'
  BY <1>3 DEF UsableOrAtWork
<1>5. UndisturbedDemoIsUsable'
  BY <1>3 DEF UndisturbedDemoIsUsable, DemoCoin
<1> QED  BY <1>1, <1>2, <1>4, <1>5 DEF DemoInv

\* While no script runs, the demo's tokens are usable, one of them if it was published.
LEMMA DemoResting ==
    ASSUME DemoInv, bounds.crashes = 0, ~raced,
           ~(demoRunning /\ run.at > 8)
    PROVE  /\ \A c \in Coins : DemoCoin(c) /\ c \in chain.code => Usable(c)
           /\ published => \E c \in Coins : DemoCoin(c) /\ c \in chain.code
BY DEF DemoInv, UsableOrAtWork, UndisturbedDemoIsUsable, DemoCoin

\* A script that is refused, skipped, stopped by a transaction or done leaves the demo
\* usable; one that died is a crash, of which nothing is said.
LEMMA StopKeepsDemo ==
    ASSUME DemoDeployment, ScriptInv, DemoInv,
           \/ \E o \in Offered : Refuse(o[1], o[2], o[3])
           \/ \E c \in Coins : Skip(c)
           \/ BroadcastReverts
           \/ Finish
           \/ Crash
    PROVE  DemoInv'
<1>0. TypeOK /\ AsOffered
  BY DEF ScriptInv, IInv, DemoInv
<1>1. ASSUME NEW o \in Offered, Refuse(o[1], o[2], o[3]) PROVE DemoInv'
  <2>1. UNCHANGED <<chain, raced, bounds, published>> /\ ~running' /\ ~running
    BY <1>1 DEF Refuse, NewRun, running
  <2> QED  BY <2>1, DemoAtRest, DemoResting DEF demoRunning
<1>2. ASSUME NEW c \in Coins, Skip(c) PROVE DemoInv'
  <2>1. UNCHANGED <<chain, raced, bounds>> /\ ~running' /\ ~running
    BY <1>2 DEF Skip, running
  <2>2. DemoCoin(c) /\ c \in chain.code
    BY <1>2 DEF Skip, DemoCoin
  <2> QED  BY <2>1, <2>2, DemoAtRest, DemoResting DEF demoRunning
<1>3. ASSUME BroadcastReverts PROVE DemoInv'
  <2>1. run \in Working
    BY <1>0, <1>3, RunningTyped DEF BroadcastReverts
  <2>2. UNCHANGED <<chain, raced, bounds, published>> /\ ~running'
    BY <1>3, <2>1 DEF BroadcastReverts, running, Working
  <2>3. ~raced => ~(demoRunning /\ run.at > 8)
    <3> SUFFICES ASSUME ~raced, demoRunning, run.at > 8 PROVE FALSE
      OBVIOUS
    <3>1. /\ DOMAIN Transactions(run) = 1 .. Len(Transactions(run))
          /\ Len(Transactions(run)) \in Nat /\ run.at \in Nat
      BY <1>0, DemoRun
    <3>2. run.at <= Len(Transactions(run)) /\ ~Accepts(chain, run.by, NextTransaction)
      BY <1>3 DEF BroadcastReverts
    <3>3. run.at \in DOMAIN Transactions(run)
      BY <3>1, <3>2
    <3> QED  BY <3>2, <3>3, DemoAccepted
  <2> QED  BY <2>2, <2>3, DemoAtRest, DemoResting
<1>4. ASSUME Finish PROVE DemoInv'
  <2>1. run \in Working
    BY <1>0, <1>4, RunningTyped DEF Finish
  <2>2. /\ UNCHANGED <<chain, raced, bounds>> /\ ~running'
        /\ published' = (published \/ run.script = "DeployDemo")
    BY <1>4, <2>1 DEF Finish, running, Working
  <2>3. run.script = "DeployDemo" =>
            run.coin \in Coins /\ DemoCoin(run.coin) /\ run.coin \in chain.code /\ Usable(run.coin)
    BY <1>0, <1>4, DemoFinishes
  <2>4. ASSUME bounds.crashes = 0, ~raced
        PROVE  /\ \A c \in Coins : DemoCoin(c) /\ c \in chain.code => Usable(c)
               /\ published' => \E c \in Coins : DemoCoin(c) /\ c \in chain.code
    <3>1. \A c \in Coins : DemoCoin(c) /\ c \in chain.code => Usable(c)
      BY <2>3, <2>4 DEF DemoInv, UsableOrAtWork, demoRunning
    <3>2. published => \E c \in Coins : DemoCoin(c) /\ c \in chain.code
      BY <2>4 DEF DemoInv, UndisturbedDemoIsUsable, DemoCoin
    <3> QED  BY <2>2, <2>3, <3>1, <3>2
  <2> QED  BY <2>2, <2>4, DemoAtRest
<1>5. ASSUME Crash PROVE DemoInv'
  <2>1. run \in Working /\ bounds.crashes \in Nat
    BY <1>0, <1>5, RunningTyped, Parameters DEF Crash, TypeOK
  <2>2. UNCHANGED <<chain, raced>> /\ ~running' /\ bounds'.crashes = bounds.crashes + 1
    BY <1>0, <1>5, <2>1 DEF Crash, running, Working, TypeOK
  <2> QED  BY <2>1, <2>2, DemoAtRest
<1> QED  BY <1>1, <1>2, <1>3, <1>4, <1>5

\* A script starts with no transaction sent.
LEMMA StartKeepsDemo ==
    ASSUME DemoInv, TypeOK, NEW o \in Offered, Start(o[1], o[2], o[3])
    PROVE  DemoInv'
<1>1. /\ UNCHANGED <<chain, raced, published>> /\ bounds'.crashes = bounds.crashes
      /\ ~running /\ run' = NewRun(o[1], o[2], o[3])
      /\ Simulates(chain, NewRun(o[1], o[2], o[3]))
  BY DEF Start, TypeOK
<1>2. run'.at = 1 /\ run'.script = o[1] /\ run'.coin = o[2] /\ run'.by = o[3]
  BY <1>1 DEF NewRun
<1>3. AsOffered'
  <2>1. o = <<o[1], o[2], o[3]>>
    BY DeploymentAssumption
  <2>2. o[1] = "DeployDemo" => o[3] = DemoIssuer
    BY <1>1 DEF Simulates, NewRun
  <2> QED  BY <1>2, <2>1, <2>2 DEF AsOffered
<1>4. SignerAdministers' /\ NothingIssued'
  BY <1>2 DEF SignerAdministers, NothingIssued
<1>5. RolesFounded' /\ IssuedIfRegistered'
  BY <1>1 DEF DemoInv, RolesFounded, IssuedIfRegistered
<1>6. \A c \in Coins : Usable(c) => Usable(c)'
  BY <1>1 DEF Usable
<1>7. UsableOrAtWork'
  BY <1>1, <1>6 DEF DemoInv, UsableOrAtWork, demoRunning
<1>8. UndisturbedDemoIsUsable'
  BY <1>1, <1>6 DEF DemoInv, UndisturbedDemoIsUsable
<1> QED  BY <1>3, <1>4, <1>5, <1>7, <1>8 DEF DemoInv

\* What the invariant says of a token survives while the run is the same, if usable
\* tokens stay usable and no contract is made.
LEMMA SameRunKeepsUsable ==
    ASSUME DemoInv, run' = run, bounds'.crashes = bounds.crashes, published' = published,
           chain'.code = chain.code, ~raced' => ~raced,
           ~raced' => \A c \in Coins : c \in chain.code /\ Usable(c) => Usable(c)'
    PROVE  UsableOrAtWork' /\ UndisturbedDemoIsUsable'
<1>1. UsableOrAtWork'
  BY DEF DemoInv, UsableOrAtWork, demoRunning, running
<1>2. UndisturbedDemoIsUsable'
  BY DEF DemoInv, UndisturbedDemoIsUsable
<1> QED  BY <1>1, <1>2

\* Only coins in operation are issued, and while the demo runs on its new reserve there
\* is none.
LEMMA IssueKeepsDemo ==
    ASSUME DemoDeployment, ScriptInv, DemoInv, NEW d \in Coins, Issue(d)
    PROVE  DemoInv'
<1>0. TypeOK /\ chain \in Chain /\ UNCHANGED <<run, bounds, published, raced>> /\ AsOffered
  BY DEF ScriptInv, IInv, TypeOK, Issue, DemoInv
<1>1. /\ chain'.code = chain.code /\ chain'.role = chain.role /\ chain'.owner = chain.owner
      /\ chain'.handler = chain.handler
      /\ \A t \in Token : t \notin {RL, d} => chain'.supply[t] = chain.supply[t]
      /\ chain.handler[d] # None /\ ~(running /\ run.coin = d)
  BY <1>0 DEF Issue, Configured, Chain
<1>2. AsOffered' /\ SignerAdministers' /\ RolesFounded'
  <2>1. AsOffered'
    BY <1>0 DEF AsOffered, running
  <2>2. SignerAdministers'
    BY <1>0, <1>1 DEF DemoInv, SignerAdministers, demoRunning, running
  <2>3. RolesFounded'
    BY <1>1 DEF DemoInv, RolesFounded
  <2> QED  BY <2>1, <2>2, <2>3
<1>3. \A c \in Coins : c \in Token /\ c # RL
  BY DeploymentAssumption DEF Token
<1>4. IssuedIfRegistered'
  BY <1>1, <1>3 DEF DemoInv, IssuedIfRegistered
<1>5. NothingIssued'
  <2>1. ~(demoRunning /\ run.at > 4)
    BY <1>1 DEF DemoInv, NothingIssued, demoRunning
  <2>2. demoRunning' => run'.at <= 4 /\ run'.at \in Nat
    <3> SUFFICES ASSUME demoRunning PROVE run.at <= 4 /\ run.at \in Nat
      BY <1>0 DEF demoRunning, running
    <3>1. run.at \in Nat
      BY <1>0, DemoRun
    <3> QED  BY <2>1, <3>1
  <2> QED  BY <2>2 DEF NothingIssued
<1>6. UsableOrAtWork' /\ UndisturbedDemoIsUsable'
  <2>1. \A c \in Coins : c \in chain.code /\ Usable(c) => Usable(c)'
    BY IssueKeepsUsable
  <2> QED  BY <1>0, <1>1, <2>1, SameRunKeepsUsable
<1> QED  BY <1>2, <1>4, <1>5, <1>6 DEF DemoInv

\* A policy made by somebody else changes no role, no supply and no registration.
LEMMA ElsewhereKeepsDemo ==
    ASSUME ScriptInv, DemoInv, NEW who \in People \ {PolicyAdmin}, CreatePolicyElsewhere(who)
    PROVE  DemoInv'
<1>0. /\ TypeOK /\ chain \in Chain /\ UNCHANGED <<run, published>>
      /\ bounds'.crashes = bounds.crashes /\ (~raced' => ~raced)
  BY DEF ScriptInv, IInv, TypeOK, CreatePolicyElsewhere
<1>1. /\ chain'.code = chain.code /\ chain'.role = chain.role /\ chain'.owner = chain.owner
      /\ chain'.handler = chain.handler /\ chain'.supply = chain.supply
  BY <1>0 DEF CreatePolicyElsewhere, WithPolicy, Chain
<1>2. AsOffered'
  BY <1>0 DEF DemoInv, AsOffered, running
<1>3. SignerAdministers'
  BY <1>0, <1>1 DEF DemoInv, SignerAdministers, demoRunning, running
<1>4. NothingIssued'
  BY <1>0, <1>1 DEF DemoInv, NothingIssued, demoRunning, running
<1>5. RolesFounded' /\ IssuedIfRegistered'
  BY <1>1 DEF DemoInv, RolesFounded, IssuedIfRegistered
<1>6. UsableOrAtWork' /\ UndisturbedDemoIsUsable'
  <2>1. ~raced' => \A c \in Coins : c \in chain.code /\ Usable(c) => Usable(c)'
    BY <1>0, ElsewhereKeepsUsable
  <2> QED  BY <1>0, <1>1, <2>1, SameRunKeepsUsable
<1> QED  BY <1>2, <1>3, <1>4, <1>5, <1>6 DEF DemoInv

\* Every step keeps the demo's invariant.
LEMMA NextDemoInv ==
    ASSUME DemoDeployment, ScriptInv, DemoInv, [Next]_vars
    PROVE  DemoInv'
<1>0. TypeOK
  BY DEF ScriptInv, IInv
<1>1. ASSUME NEW o \in Offered, Start(o[1], o[2], o[3]) PROVE DemoInv'
  BY <1>0, <1>1, StartKeepsDemo
<1>2. ASSUME NEW o \in Offered, Refuse(o[1], o[2], o[3]) PROVE DemoInv'
  BY <1>2, StopKeepsDemo
<1>3. ASSUME NEW c \in Coins, Skip(c) PROVE DemoInv'
  BY <1>3, StopKeepsDemo
<1>4. ASSUME NEW c \in Coins, Issue(c) PROVE DemoInv'
  BY <1>4, IssueKeepsDemo
<1>5. ASSUME Broadcast PROVE DemoInv'
  <2>1. AsOffered'
    BY <1>0, <1>5, BroadcastFacts DEF DemoInv, AsOffered
  <2> QED  BY <1>5, <2>1, BroadcastFounds, BroadcastSigner, BroadcastNothingIssued,
              BroadcastUsable DEF DemoInv
<1>6. ASSUME BroadcastReverts \/ Finish \/ Crash PROVE DemoInv'
  BY <1>6, StopKeepsDemo
<1>7. ASSUME NEW who \in People \ {PolicyAdmin}, CreatePolicyElsewhere(who) PROVE DemoInv'
  BY <1>7, ElsewhereKeepsDemo
<1>8. ASSUME UNCHANGED vars PROVE DemoInv'
  <2>1. UNCHANGED <<chain, run, bounds, published, raced>>
    BY <1>8 DEF vars
  <2>2. AsOffered' /\ SignerAdministers' /\ NothingIssued'
    BY <2>1 DEF DemoInv, AsOffered, SignerAdministers, NothingIssued, demoRunning, running
  <2>3. RolesFounded' /\ IssuedIfRegistered'
    BY <2>1 DEF DemoInv, RolesFounded, IssuedIfRegistered
  <2>4. UsableOrAtWork' /\ UndisturbedDemoIsUsable'
    BY <2>1, SameRunKeepsUsable DEF Usable
  <2> QED  BY <2>2, <2>3, <2>4 DEF DemoInv
<1> QED  BY <1>1, <1>2, <1>3, <1>4, <1>5, <1>6, <1>7, <1>8 DEF Next

-----------------------------------------------------------------------------
(* The theorems.                                                            *)

\* Wherever a script stops, every deployed proxy has an admin
\* (contracts/scripts/05_ConfigureAndHandover, the grants before the renounces).
THEOREM Administered == Spec => []AlwaysAdministered
<1>1. ScriptInv => AlwaysAdministered
  BY DEF ScriptInv
<1> QED  BY <1>1, ScriptInductive, PTL

\* A registered coin's handler may mint on both tokens
\* (05_ConfigureAndHandover grants MINTER before registerStablecoin).
THEOREM RegisteredMints == Spec => []RegisteredCanMint
<1>1. ScriptInv => RegisteredCanMint
  BY DEF ScriptInv
<1> QED  BY <1>1, ScriptInductive, PTL

\* Unless a policy was made between the simulation of a script and its createPolicy,
\* a token's policies are those made for it (02_DeployReserveLedger, 04_DeployStablecoin).
THEOREM PoliciesAreOwn == Spec => []OwnPolicies
<1>1. ScriptInv => OwnPolicies
  BY DEF ScriptInv
<1> QED  BY <1>1, ScriptInductive, PTL

\* A configuring script that ends well has brought about all that 06_Verify asks
\* for, whatever earlier runs left behind.
THEOREM FinishVerifies == Spec => FinishedIsVerified
<1>1. ASSUME ScriptInv, [Next]_vars, running, run'.status = "done",
             run.script \in {"ConfigureAndHandover", "DeployAll", "DeployDemo"}
      PROVE  Verified(run.coin)
  <2>1. run \in Working
    BY <1>1, RunningTyped DEF ScriptInv, IInv
  <2>2. run.status = "running"
    BY <1>1 DEF running
  <2>3. Finish
    <3>1. ASSUME run' = run PROVE FALSE
      BY <1>1, <2>2, <3>1
    <3>2. ASSUME ~Finish PROVE FALSE
      <4>1. ~Broadcast
        BY <1>1, <2>1, <2>2 DEF Broadcast, Working
      <4>2. ~BroadcastReverts /\ ~Crash
        BY <1>1, <2>1, <2>2 DEF BroadcastReverts, Crash, Working
      <4> QED  BY <1>1, <2>2, <3>1, <3>2, <4>1, <4>2
               DEF Next, Start, Refuse, Skip, Issue, CreatePolicyElsewhere, running, vars
    <3> QED  BY <3>2
  <2> QED  BY <1>1, <2>3, FinishVerified DEF ConfiguringScript, AtOnceScript
<1> QED  BY <1>1, ScriptInductive, PTL DEF Spec, FinishedIsVerified

\* Where the demo is deployed as DeployDemo.s.sol does it, the services that
\* deploy-to-besu.sh starts find a token that Bank A can mint and move, also after a
\* second run, unless a run crashed or a policy was made under it: nothing that anybody
\* else does makes the script stop once the token's address has code.
THEOREM DemoUsable ==
    ASSUME DemoDeployment
    PROVE  Spec => []UndisturbedDemoIsUsable
<1>1. Init => DemoInv
  BY InitDemoInv
<1>2. ScriptInv /\ DemoInv /\ [Next]_vars => DemoInv'
  BY NextDemoInv
<1>3. DemoInv => UndisturbedDemoIsUsable
  BY DEF DemoInv
<1> QED  BY <1>1, <1>2, <1>3, ScriptInductive, PTL DEF Spec
=============================================================================
