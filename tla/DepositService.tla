--------------------------- MODULE DepositService ---------------------------
(***************************************************************************)
(* The deposit services of the banks, their signing routers and the node   *)
(* they share. A service answers each HTTP request in a goroutine of its   *)
(* own and keeps no lock, so the steps of its requests interleave: every   *)
(* call to the node or to the router is a step, and what was read before   *)
(* it may be stale after it. The contracts are abstracted to the status of *)
(* a mined transaction; TokenAuthority models them.                        *)
(***************************************************************************)
EXTENDS Naturals, Sequences, FiniteSets

CONSTANTS
    Bank, Issuer,       \* the banks, and those with the issuer role
    Key, KeyOf,         \* KeyIDs, and the KeyID of each bank; a key stands for
                        \* the address it controls, too
    Router, RouterKeys, \* the signing routers, and ROUTER_KEYS of each
    Request,            \* bound: the requests clients make
    BankOf, Op, Args,   \* the service a request goes to, its operation, its body
    Impatient,          \* the requests whose client, or service, may go away
    MayReplace,         \* the node lets a transaction replace a pending one
    MaxRestarts         \* bound: how often the node loses its pool

Operation == {"mint", "transfer", "authorize"}
Tag == {"mint", "transfer", "authorize:transfer", "authorize:mint-recipient"}
Gas == {"estimated", "default"}
Status == {"success", "reverted"}

ASSUME ServiceAssumption ==
    /\ Issuer \subseteq Bank
    /\ KeyOf \in [Bank -> Key]
    /\ RouterKeys \in [Router -> (SUBSET Key) \ {{}}]
    /\ BankOf \in [Request -> Bank]
    /\ Op \in [Request -> Operation]
    /\ DOMAIN Args = Request
    /\ Impatient \subseteq Request
    /\ MayReplace \in BOOLEAN
    /\ MaxRestarts \in Nat

\* The transactions of a request, in the order they are sent.
StepsSwapped(r) ==
    IF Op[r] = "authorize" THEN <<"authorize:mint-recipient", "authorize:transfer">>
    ELSE <<Op[r]>>
Steps(r) ==
    IF Op[r] = "authorize" THEN <<"authorize:transfer", "authorize:mint-recipient">>
    ELSE <<Op[r]>>

VARIABLES
    routerOf,       \* routerOf[b]: the router SigningRouterURL points to
    pc,             \* pc[r]: where the goroutine of the request is
    step,           \* step[r]: the transaction of Steps(r) it is at
    nonce,          \* nonce[r]: the nonce it read
    gas,            \* gas[r]: the gas limit it chose
    signer,         \* signer[r]: the key that signed, if any
    results,        \* results[r]: the statuses in the body of the answer
    outcome,        \* outcome[r]: how the request ended; "unsure" when nobody knows
                    \* what became of its transaction
    pool,           \* the node's pending transactions
    accountNonce,   \* accountNonce[k]: the transactions of k mined so far
    receipts,       \* the mined transactions, with their status
    restarts        \* how often the node lost its pool

serviceVars == <<pc, step, nonce, gas, signer, results, outcome>>
nodeVars == <<pool, accountNonce, receipts, restarts>>
vars == <<routerOf, serviceVars, nodeVars>>

Unsigned == {}

Transaction == [from : Key, nonce : Nat, tag : Tag, args : {Args[r] : r \in Request},
                gas : Gas, by : Request \X {1, 2}]

TypeOK ==
    /\ routerOf \in [Bank -> Router]
    /\ pc \in [Request -> {"idle", "nonce", "build", "sign", "send", "wait", "done"}]
    /\ step \in [Request -> {1, 2}]
    /\ nonce \in [Request -> Nat]
    /\ gas \in [Request -> Gas]
    /\ signer \in [Request -> {Unsigned} \cup {{k} : k \in Key}]
    /\ results \in [Request -> Seq(Status)]
    /\ outcome \in [Request -> {"none", "answered", "refused", "unsure"}]
    /\ pool \subseteq Transaction
    /\ accountNonce \in [Key -> Nat]
    /\ receipts \subseteq [tx : Transaction, status : Status]
    /\ restarts \in 0 .. MaxRestarts

\* SigningRouterURL is taken from the environment: any router may be named.
Init ==
    /\ routerOf \in [Bank -> Router]
    /\ pc = [r \in Request |-> "idle"]
    /\ step = [r \in Request |-> 1]
    /\ nonce = [r \in Request |-> 0]
    /\ gas = [r \in Request |-> "default"]
    /\ signer = [r \in Request |-> Unsigned]
    /\ results = [r \in Request |-> <<>>]
    /\ outcome = [r \in Request |-> "none"]
    /\ pool = {}
    /\ accountNonce = [k \in Key |-> 0]
    /\ receipts = {}
    /\ restarts = 0

-----------------------------------------------------------------------------
(* The node (Besu), as far as the service sees it.                          *)

\* The hash of a transaction: everything in it but who sent it.
Hash(t) == <<t.from, t.nonce, t.tag, t.args, t.gas>>

Queued(k) == {t.nonce : t \in {p \in pool : p.from = k}}

\* eth_getTransactionCount(k, "pending"): past the mined transactions and the
\* pending ones that follow them without a gap.
Pending(k) ==
    CHOOSE n \in accountNonce[k] .. (accountNonce[k] + Cardinality(Queued(k))) :
        /\ n \notin Queued(k)
        /\ \A m \in accountNonce[k] .. (n - 1) : m \in Queued(k)

Conflicts(t) == {p \in pool : p.from = t.from /\ p.nonce = t.nonce}

\* eth_sendRawTransaction refuses a nonce already mined and a transaction it
\* knows, and may refuse to replace a pending one.
NodeTakes(t) ==
    /\ t.nonce >= accountNonce[t.from]
    /\ \A p \in Conflicts(t) : MayReplace /\ Hash(p) # Hash(t)
NodeRefuses(t) == t.nonce < accountNonce[t.from] \/ Conflicts(t) # {}

PoolWith(t) == (pool \ Conflicts(t)) \cup {t}

\* A block includes the next transaction of an account.
Mine(k) ==
    \E t \in pool, status \in Status :
        /\ t.from = k
        /\ t.nonce = accountNonce[k]
        /\ pool' = pool \ {t}
        /\ accountNonce' = [accountNonce EXCEPT ![k] = @ + 1]
        /\ receipts' = receipts \cup {[tx |-> t, status |-> status]}
        /\ UNCHANGED <<routerOf, serviceVars, restarts>>

\* The pool is kept in memory.
NodeRestart ==
    /\ restarts < MaxRestarts
    /\ restarts' = restarts + 1
    /\ pool' = {}
    /\ UNCHANGED <<routerOf, serviceVars, accountNonce, receipts>>

-----------------------------------------------------------------------------
(* The signing router.                                                      *)

\* The key a request for keyId is signed with: no other, and none if the router
\* was not provisioned with it.
SignedWithAnyKey(router, keyId) == {CHOOSE k \in RouterKeys[router] : TRUE}
SignedWith(router, keyId) == RouterKeys[router] \cap {keyId}

-----------------------------------------------------------------------------
(* One request of a deposit service.                                        *)

MayRequest(r) == Op[r] \in {"mint", "authorize"} => BankOf[r] \in Issuer

\* An error is answered without the results of earlier transactions.
End(r, how) ==
    /\ pc' = [pc EXCEPT ![r] = "done"]
    /\ outcome' = [outcome EXCEPT ![r] = how]
    /\ results' = [results EXCEPT ![r] = <<>>]

\* The handler and requireRole. (A malformed body is answered 400 here.)
Receive(r) ==
    /\ pc[r] = "idle"
    /\ \/ /\ MayRequest(r)
          /\ pc' = [pc EXCEPT ![r] = "nonce"]
          /\ UNCHANGED <<outcome, results>>
       \/ /\ ~MayRequest(r)
          /\ End(r, "refused")
    /\ UNCHANGED <<routerOf, step, nonce, gas, signer, nodeVars>>

\* PendingNonceAt: nothing is reserved for the request.
NonceCounted(r) ==
    accountNonce[KeyOf[BankOf[r]]]
        + Cardinality({q \in Request : pc[q] \in {"build", "sign", "send", "wait"}})
NonceOfLast(r) == Pending(KeyOf[BankOf[r]]) - 1
NonceFor(r) == Pending(KeyOf[BankOf[r]])

ReadNonce(r) ==
    /\ pc[r] = "nonce"
    /\ nonce' = [nonce EXCEPT ![r] = NonceFor(r)]
    /\ pc' = [pc EXCEPT ![r] = "build"]
    /\ UNCHANGED <<routerOf, step, gas, signer, results, outcome, nodeVars>>

\* HeaderByNumber and EstimateGas: a failed estimate is replaced by a default.
Build(r) ==
    /\ pc[r] = "build"
    /\ \E g \in Gas : gas' = [gas EXCEPT ![r] = g]
    /\ pc' = [pc EXCEPT ![r] = "sign"]
    /\ UNCHANGED <<routerOf, step, nonce, signer, results, outcome, nodeVars>>

Sign(r) ==
    /\ pc[r] = "sign"
    /\ LET signed == SignedWith(routerOf[BankOf[r]], KeyOf[BankOf[r]])
       IN  /\ signer' = [signer EXCEPT ![r] = signed]
           /\ \/ /\ signed # Unsigned
                 /\ pc' = [pc EXCEPT ![r] = "send"]
                 /\ UNCHANGED <<outcome, results>>
              \/ /\ signed = Unsigned
                 /\ End(r, "refused")
    /\ UNCHANGED <<routerOf, step, nonce, gas, nodeVars>>

\* The signed transaction; its sender is recovered from the signature.
Tx(r) == [from |-> CHOOSE k \in signer[r] : TRUE, nonce |-> nonce[r],
          tag |-> Steps(r)[step[r]], args |-> Args[r], gas |-> gas[r],
          by |-> <<r, step[r]>>]

Broadcast(r) ==
    /\ pc[r] = "send"
    /\ NodeTakes(Tx(r))
    /\ pool' = PoolWith(Tx(r))
    /\ pc' = [pc EXCEPT ![r] = "wait"]
    /\ UNCHANGED <<routerOf, step, nonce, gas, signer, results, outcome,
                   accountNonce, receipts, restarts>>

BroadcastErrorIgnored(r) ==
    /\ pc[r] = "send"
    /\ NodeRefuses(Tx(r))
    /\ pc' = [pc EXCEPT ![r] = "wait"]
    /\ UNCHANGED <<routerOf, step, nonce, gas, signer, results, outcome, nodeVars>>

BroadcastRefused(r) ==
    /\ pc[r] = "send"
    /\ NodeRefuses(Tx(r))
    /\ End(r, "refused")
    /\ UNCHANGED <<routerOf, step, nonce, gas, signer, nodeVars>>

\* WaitMined polls for the receipt of the hash. A reverted transaction is no
\* error: authorize goes on to its second transaction, and 200 is answered.
FoundPending(r) == {[tx |-> t, status |-> "success"] : t \in {p \in pool : Hash(p) = Hash(Tx(r))}}
Found(r) == {rc \in receipts : Hash(rc.tx) = Hash(Tx(r))}

MoreSteps(r) == step[r] < Len(Steps(r))

WaitMined(r) ==
    /\ pc[r] = "wait"
    /\ \E rc \in Found(r) :
           results' = [results EXCEPT ![r] = Append(@, rc.status)]
    /\ \/ /\ MoreSteps(r)
          /\ step' = [step EXCEPT ![r] = @ + 1]
          /\ pc' = [pc EXCEPT ![r] = "nonce"]
          /\ UNCHANGED outcome
       \/ /\ ~MoreSteps(r)
          /\ pc' = [pc EXCEPT ![r] = "done"]
          /\ outcome' = [outcome EXCEPT ![r] = "answered"]
          /\ UNCHANGED step
    /\ UNCHANGED <<routerOf, nonce, gas, signer, nodeVars>>

\* The node or the router cannot be reached, or fails. WaitMined polls on.
PollingFailsToo == {"nonce", "build", "sign", "send", "wait"}
MayFailAt == {"nonce", "build", "sign", "send"}

CallFails(r) ==
    /\ pc[r] \in MayFailAt
    /\ End(r, "refused")
    /\ UNCHANGED <<routerOf, step, nonce, gas, signer, nodeVars>>

\* The node takes the transaction and its answer is lost: the client is told of an
\* error (400), as if the transaction had been refused.
AnswerLost(r) ==
    /\ pc[r] = "send"
    /\ NodeTakes(Tx(r))
    /\ pool' = PoolWith(Tx(r))
    /\ End(r, "unsure")
    /\ UNCHANGED <<routerOf, step, nonce, gas, signer, accountNonce, receipts, restarts>>

\* The client closes the connection (the web UI after 30 seconds, a person
\* earlier), which cancels r.Context(), or the service dies. The transaction
\* stays where it is; a broadcast under way may or may not have got through.
Abandon(r) ==
    /\ r \in Impatient
    /\ pc[r] \in {"nonce", "build", "sign", "send", "wait"}
    /\ End(r, "unsure")
    /\ \/ UNCHANGED pool
       \/ pc[r] = "send" /\ NodeTakes(Tx(r)) /\ pool' = PoolWith(Tx(r))
    /\ UNCHANGED <<routerOf, step, nonce, gas, signer, accountNonce, receipts, restarts>>

RequestStep(r) ==
    \/ Receive(r) \/ ReadNonce(r) \/ Build(r) \/ Sign(r)
    \/ Broadcast(r) \/ BroadcastRefused(r) \/ WaitMined(r)

\* Every request is over, or polls for a receipt: the clients have gone home.
Quiescent ==
    /\ \A r \in Request : pc[r] \in {"wait", "done"}
    /\ UNCHANGED vars

Next ==
    \/ \E r \in Request : RequestStep(r) \/ CallFails(r) \/ AnswerLost(r) \/ Abandon(r)
    \/ \E k \in Key : Mine(k)
    \/ NodeRestart
    \/ Quiescent

Spec == Init /\ [][Next]_vars

\* A goroutine runs on when its call returns, and the validator keeps producing
\* blocks. Nothing makes a client give up or a call fail.
FairSpec ==
    /\ Spec
    /\ \A r \in Request : WF_vars(RequestStep(r))
    /\ \A k \in Key : WF_vars(Mine(k))

-----------------------------------------------------------------------------
(* Properties.                                                              *)

\* As long as the node keeps its pool and the first of two transactions with one
\* nonce, a status in an answer is that of the request's own transaction: two
\* requests, be they word for word the same, never both report one transaction.
ResultsAreOwn ==
    ~MayReplace /\ restarts = 0 =>
        \A r \in Request : \A i \in 1 .. Len(results[r]) :
            \E rc \in receipts : rc.tx.by = <<r, i>> /\ rc.status = results[r][i]

\* A request refused by the service, the router or the node, or by a call that did
\* not get through, left nothing of the refused transaction behind, so it may be
\* repeated; only an earlier transaction of it is on the chain.
RefusedLeavesNothing ==
    \A r \in Request : outcome[r] = "refused" =>
        \A t \in pool \cup {rc.tx : rc \in receipts} : t.by # <<r, step[r]>>

\* A transaction mined after its request has ended is one whose client gave up, or
\* whose broadcast went unanswered: no other answer, good or bad, is overtaken by a
\* late effect.
LateOnlyIfUnsure ==
    [][\A rc \in receipts' \ receipts : outcome[rc.tx.by[1]] \in {"none", "unsure"}]_vars

\* An account is listed as a mint recipient only after the transfer policy has been
\* asked to list it: nothing can be minted into a wallet that authorize has not
\* been through (DepositService.Authorize waits between its two transactions).
TransferListingFirst ==
    \A rc \in receipts : rc.tx.tag = "authorize:mint-recipient" =>
        \E first \in receipts :
            /\ first.tx.tag = "authorize:transfer" /\ first.tx.args = rc.tx.args
            /\ first.tx.from = rc.tx.from /\ first.tx.nonce < rc.tx.nonce

\* Whatever routers the services are pointed at, the transactions of a bank's
\* service are signed with that bank's key, and a holder mints nothing.
SignedByOwnBank ==
    \A t \in pool \cup {rc.tx : rc \in receipts} :
        /\ t.from = KeyOf[BankOf[t.by[1]]]
        /\ t.tag # "transfer" => BankOf[t.by[1]] \in Issuer

\* While the node keeps its pool no nonce is skipped, however stale the nonce a
\* request read: nothing waits behind a hole.
NoNonceGap ==
    restarts = 0 =>
        \A k \in Key : Queued(k) = accountNonce[k] .. (Pending(k) - 1)

\* The transaction of a waiting request has lost its nonce to another one.
Replaced(r) ==
    /\ pc[r] = "wait"
    /\ \E t \in pool \cup {rc.tx : rc \in receipts} :
           t.from = Tx(r).from /\ t.nonce = nonce[r] /\ Hash(t) # Hash(Tx(r))

\* A request is answered in the end, unless a concurrent request of the same bank
\* that read the same nonce has replaced its transaction, or the node has lost its
\* pool: then WaitMined polls for a hash that may never be mined.
AnsweredOrReplaced ==
    \A r \in Request : pc[r] = "nonce" ~> (outcome[r] # "none" \/ Replaced(r) \/ restarts > 0)

\* How a request looks to its client.
Outcome == [r \in Request |->
    IF pc[r] = "idle" THEN "idle" ELSE IF outcome[r] = "none" THEN "open" ELSE outcome[r]]
Submitted == INSTANCE Submission WITH
    Last <- [r \in Request |-> Len(Steps(r))],
    outcome <- Outcome,
    ran <- {<<rc.tx.by, rc.status>> : rc \in receipts},
    told <- [r \in Request |-> IF outcome[r] = "answered" THEN results[r] ELSE <<>>],
    sure <- ~MayReplace /\ restarts = 0

\* The services implement Submission: however requests interleave, calls fail and
\* answers get lost, each transaction of a request is mined at most once, the second
\* after the first was seen, none after an answer that says it was refused, and an
\* answer reports the request's own transactions as long as the node has kept them.
ImplementsSubmission == Submitted!Spec
=============================================================================
