----------------------- MODULE DepositServiceProofs -------------------------
(***************************************************************************)
(* Proofs about the deposit services, for any banks, keys, routers and     *)
(* requests, whether or not the node replaces transactions and however     *)
(* often it loses its pool. First, nothing is used of how a nonce is       *)
(* chosen, so the results hold of any way to choose it. Then how it is     *)
(* chosen: the pending nonce is defined for every finite pool, and while   *)
(* the node keeps its pool, a nonce read long ago still leaves no hole     *)
(* when it is used.                                                        *)
(***************************************************************************)
EXTENDS DepositService, FiniteSetTheorems, WellFoundedInduction, TLAPS

-----------------------------------------------------------------------------
(* The inductive invariant.                                                 *)

Own(r) == KeyOf[BankOf[r]]

\* The part of TypeOK the argument needs.
Shape ==
    /\ pc \in [Request -> {"idle", "nonce", "build", "sign", "send", "wait", "done"}]
    /\ step \in [Request -> {1, 2}]
    /\ DOMAIN nonce = Request /\ DOMAIN gas = Request
    /\ DOMAIN signer = Request
    /\ outcome \in [Request -> {"none", "answered", "refused", "unsure"}]
    /\ accountNonce \in [Key -> Nat]

\* An account is on its way onto the transfer policy: the first transaction of an
\* authorize with these arguments is on the chain.
ListedFirst(key, args) ==
    \E rc \in receipts :
        rc.tx.tag = "authorize:transfer" /\ rc.tx.args = args /\ rc.tx.from = key

\* A running request has passed requireRole and has no outcome; what it has
\* signed is signed with its bank's key; at its second transaction the first is on
\* the chain.
RequestInv(r) ==
    /\ pc[r] # "done" => outcome[r] = "none"
    /\ pc[r] \notin {"idle", "done"} => MayRequest(r)
    /\ pc[r] \in {"send", "wait"} => signer[r] = {Own(r)}
    /\ step[r] = 2 => Op[r] = "authorize" /\ ListedFirst(Own(r), Args[r])

\* A transaction is of the service that sent it.
SentInv(t) ==
    /\ t.by \in Request \X {1, 2}
    /\ t.from = Own(t.by[1])
    /\ t.tag # "transfer" => BankOf[t.by[1]] \in Issuer

\* A pending transaction is the current one of a request that waits for it or has
\* ended unsure, and has a nonce that is not on the chain.
PooledInv(t) ==
    /\ SentInv(t)
    /\ t.by[2] = step[t.by[1]]
    /\ \/ pc[t.by[1]] = "wait" /\ t.nonce = nonce[t.by[1]]
       \/ outcome[t.by[1]] = "unsure"
    /\ \A rc \in receipts : rc.tx.from = t.from => rc.tx.nonce # t.nonce
    /\ t.tag = "authorize:mint-recipient" => ListedFirst(t.from, t.args)

\* A mined transaction of a request's current step was waited for.
MinedInv(rc) ==
    /\ SentInv(rc.tx)
    /\ rc.tx.nonce \in Nat /\ rc.tx.nonce < accountNonce[rc.tx.from]
    /\ rc.tx.by[2] <= step[rc.tx.by[1]]
    /\ rc.tx.by[2] = step[rc.tx.by[1]] =>
           pc[rc.tx.by[1]] = "wait" \/ outcome[rc.tx.by[1]] \in {"answered", "unsure"}

PoolInv ==
    /\ \A t \in pool : PooledInv(t)
    /\ \A s, t \in pool : s.from = t.from /\ s.nonce = t.nonce => s = t

IInv ==
    /\ Shape
    /\ \A r \in Request : RequestInv(r)
    /\ PoolInv
    /\ \A rc \in receipts : MinedInv(rc)
    /\ TransferListingFirst

-----------------------------------------------------------------------------
\* Init establishes the invariant.
LEMMA InitHolds ==
    Init => IInv
<1> SUFFICES ASSUME Init PROVE IInv
  OBVIOUS
<1>1. Shape
  BY DEF Init, Shape
<1>2. \A r \in Request : RequestInv(r)
  BY DEF Init, RequestInv
<1>3. PoolInv /\ (\A rc \in receipts : MinedInv(rc)) /\ TransferListingFirst
  BY DEF Init, PoolInv, TransferListingFirst
<1> QED
  BY <1>1, <1>2, <1>3 DEF IInv

\* What a request signs and sends.
LEMMA TxFacts ==
    ASSUME Shape, NEW r \in Request, RequestInv(r), pc[r] \in {"send", "wait"}
    PROVE  /\ SentInv(Tx(r))
           /\ Tx(r).from = Own(r) /\ Tx(r).by = <<r, step[r]>> /\ Tx(r).nonce = nonce[r]
           /\ Tx(r).args = Args[r]
           /\ Tx(r).tag = "authorize:mint-recipient" => step[r] = 2
           /\ MoreSteps(r) => step[r] = 1 /\ Op[r] = "authorize" /\ Tx(r).tag = "authorize:transfer"
<1>1. Tx(r).from = Own(r)
  BY DEF Tx, RequestInv
<1>2. /\ Tx(r).by = <<r, step[r]>> /\ Tx(r).nonce = nonce[r]
      /\ Tx(r).args = Args[r] /\ Tx(r).tag = Steps(r)[step[r]]
      /\ step[r] \in {1, 2}
  BY DEF Tx, Shape
<1>3. CASE Op[r] = "authorize"
  <2>1. /\ Steps(r) = <<"authorize:transfer", "authorize:mint-recipient">>
        /\ BankOf[r] \in Issuer
    BY <1>3 DEF Steps, RequestInv, MayRequest
  <2>2. Len(Steps(r)) = 2 /\ Steps(r)[1] = "authorize:transfer"
    BY <2>1
  <2> QED
    BY <1>1, <1>2, <1>3, <2>1, <2>2 DEF SentInv, MoreSteps
<1>4. CASE Op[r] # "authorize"
  <2>1. step[r] = 1 /\ Steps(r) = <<Op[r]>>
    BY <1>2, <1>4 DEF RequestInv, Steps
  <2>2. Len(Steps(r)) = 1 /\ Steps(r)[1] = Op[r] /\ Op[r] \in {"mint", "transfer"}
    BY <1>4, <2>1, ServiceAssumption DEF Operation
  <2>3. Op[r] = "mint" => BankOf[r] \in Issuer
    BY DEF RequestInv, MayRequest
  <2> QED
    BY <1>1, <1>2, <2>1, <2>2, <2>3 DEF SentInv, MoreSteps
<1> QED
  BY <1>3, <1>4

-----------------------------------------------------------------------------
(* Steps of one request that leave the node alone.                          *)

\* A request moves on, or ends, without touching the node: what has been sent is
\* none of its current step, unless it ends unsure.
LEMMA LocalStep ==
    ASSUME IInv, NEW r \in Request, UNCHANGED <<pool, accountNonce, receipts>>,
           Shape', RequestInv(r)',
           \A q \in Request \ {r} :
               /\ pc'[q] = pc[q] /\ step'[q] = step[q] /\ nonce'[q] = nonce[q]
               /\ signer'[q] = signer[q] /\ outcome'[q] = outcome[q],
           step'[r] = step[r],
           pc[r] # "done",
           pc[r] # "wait" \/ outcome'[r] = "unsure"
    PROVE  IInv'
<1>1. ASSUME NEW q \in Request PROVE RequestInv(q)'
  <2>1. CASE q = r
    BY <2>1
  <2>2. CASE q # r
    <3>1. RequestInv(q)
      BY DEF IInv
    <3> QED
      BY <2>2, <3>1 DEF RequestInv, ListedFirst, MayRequest, Own
  <2> QED
    BY <2>1, <2>2
<1>2. ASSUME NEW t \in pool PROVE PooledInv(t)'
  <2>1. PooledInv(t) /\ t.by[1] \in Request /\ RequestInv(r)
    BY DEF IInv, PoolInv, PooledInv, SentInv
  <2>2. step'[t.by[1]] = step[t.by[1]]
    BY <2>1
  <2>3. \/ pc'[t.by[1]] = "wait" /\ t.nonce = nonce'[t.by[1]]
        \/ outcome'[t.by[1]] = "unsure"
    BY <2>1 DEF PooledInv, RequestInv
  <2> QED
    BY <2>1, <2>2, <2>3 DEF PooledInv, SentInv, ListedFirst, Own
<1>3. ASSUME NEW rc \in receipts PROVE MinedInv(rc)'
  <2>1. MinedInv(rc) /\ rc.tx.by[1] \in Request /\ RequestInv(r)
    BY DEF IInv, MinedInv, SentInv
  <2>2. step'[rc.tx.by[1]] = step[rc.tx.by[1]]
    BY <2>1
  <2>3. rc.tx.by[2] = step[rc.tx.by[1]] =>
           pc'[rc.tx.by[1]] = "wait" \/ outcome'[rc.tx.by[1]] \in {"answered", "unsure"}
    BY <2>1 DEF MinedInv, RequestInv
  <2> QED
    BY <2>1, <2>2, <2>3 DEF MinedInv, SentInv, Own
<1>4. PoolInv' /\ TransferListingFirst'
  BY <1>2 DEF PoolInv, IInv, TransferListingFirst
<1> QED
  BY <1>1, <1>3, <1>4 DEF IInv

\* The steps before the broadcast, and the ways to end without an answer.
LEMMA QuietSteps ==
    ASSUME IInv, NEW r \in Request,
           \/ Receive(r) \/ ReadNonce(r) \/ Build(r) \/ Sign(r)
           \/ BroadcastRefused(r) \/ CallFails(r)
           \/ Abandon(r) /\ UNCHANGED pool
    PROVE  IInv' /\ UNCHANGED receipts
<1>1. Shape /\ RequestInv(r)
  BY DEF IInv
<1>2. CASE Receive(r)
  <2>1. /\ Shape' /\ RequestInv(r)'
    BY <1>1, <1>2 DEF Receive, End, Shape, RequestInv, ListedFirst, MayRequest, Own, nodeVars
  <2> QED
    BY <1>2, <2>1, LocalStep DEF Receive, End, Shape, nodeVars, IInv
<1>3. CASE ReadNonce(r)
  <2>1. /\ Shape' /\ RequestInv(r)'
    BY <1>1, <1>3 DEF ReadNonce, Shape, RequestInv, ListedFirst, MayRequest, Own, nodeVars
  <2> QED
    BY <1>1, <1>3, <2>1, LocalStep DEF ReadNonce, Shape, nodeVars
<1>4. CASE Build(r)
  <2>1. /\ Shape' /\ RequestInv(r)'
    BY <1>1, <1>4 DEF Build, Shape, RequestInv, ListedFirst, MayRequest, Own, nodeVars
  <2> QED
    BY <1>1, <1>4, <2>1, LocalStep DEF Build, Shape, nodeVars
<1>5. CASE Sign(r)
  <2>1. SignedWith(routerOf[BankOf[r]], KeyOf[BankOf[r]]) \in {Unsigned, {Own(r)}}
    BY DEF SignedWith, Unsigned, Own
  <2>2. /\ Shape' /\ RequestInv(r)'
    BY <1>1, <1>5, <2>1 DEF Sign, End, Shape, RequestInv, ListedFirst, MayRequest, Own, nodeVars
  <2> QED
    BY <1>1, <1>5, <2>2, LocalStep DEF Sign, End, Shape, nodeVars
<1>6. CASE BroadcastRefused(r) \/ CallFails(r)
  <2>1. /\ pc[r] \in {"nonce", "build", "sign", "send"}
        /\ End(r, "refused")
        /\ UNCHANGED <<step, nonce, gas, signer, pool, accountNonce, receipts>>
    BY <1>6 DEF BroadcastRefused, CallFails, MayFailAt, nodeVars
  <2>2. /\ Shape' /\ RequestInv(r)'
    BY <1>1, <2>1 DEF End, Shape, RequestInv, ListedFirst, MayRequest, Own
  <2> QED
    BY <1>1, <2>1, <2>2, LocalStep DEF End, Shape
<1>7. CASE Abandon(r) /\ UNCHANGED pool
  <2>1. /\ pc[r] \in {"nonce", "build", "sign", "send", "wait"}
        /\ End(r, "unsure")
        /\ UNCHANGED <<step, nonce, gas, signer, pool, accountNonce, receipts>>
    BY <1>7 DEF Abandon
  <2>2. /\ Shape' /\ RequestInv(r)'
    BY <1>1, <2>1 DEF End, Shape, RequestInv, ListedFirst, MayRequest, Own
  <2> QED
    BY <1>1, <2>1, <2>2, LocalStep DEF End, Shape
<1> QED
  BY <1>2, <1>3, <1>4, <1>5, <1>6, <1>7

-----------------------------------------------------------------------------
(* Steps that touch the node.                                               *)

\* A transaction reaches the pool, and its request waits for it or is gone.
LEMMA DeliverStep ==
    ASSUME IInv, NEW r \in Request, pc[r] = "send", NodeTakes(Tx(r)),
           pool' = PoolWith(Tx(r)),
           UNCHANGED <<step, nonce, gas, signer, accountNonce, receipts>>,
           \/ pc' = [pc EXCEPT ![r] = "wait"] /\ outcome' = outcome
           \/ End(r, "unsure")
    PROVE  IInv'
<1>1. Shape /\ RequestInv(r)
  BY DEF IInv
<1>2. /\ SentInv(Tx(r))
      /\ Tx(r).from = Own(r) /\ Tx(r).by = <<r, step[r]>> /\ Tx(r).nonce = nonce[r]
      /\ Tx(r).args = Args[r]
      /\ Tx(r).tag = "authorize:mint-recipient" => step[r] = 2
  BY <1>1, TxFacts
<1>3. Shape'
  BY <1>1 DEF Shape, End
<1>4. ASSUME NEW q \in Request PROVE RequestInv(q)'
  <2>1. RequestInv(q)
    BY DEF IInv
  <2>2. pc'[q] = (IF q = r THEN pc'[r] ELSE pc[q]) /\ outcome'[q] = (IF q = r THEN outcome'[r] ELSE outcome[q])
    BY <1>1 DEF Shape, End
  <2>3. \/ pc'[r] = "wait" /\ outcome'[r] = outcome[r]
        \/ pc'[r] = "done"
    BY <1>1 DEF Shape, End
  <2> QED
    BY <1>1, <2>1, <2>2, <2>3 DEF RequestInv, ListedFirst, MayRequest, Own
<1>5. ASSUME NEW t \in pool PROVE PooledInv(t)'
  <2>1. PooledInv(t) /\ t.by[1] \in Request
    BY DEF IInv, PoolInv, PooledInv, SentInv
  <2>2. t.by[1] = r => FALSE
    BY <1>1, <2>1 DEF PooledInv, RequestInv
  <2>3. pc'[t.by[1]] = pc[t.by[1]] /\ outcome'[t.by[1]] = outcome[t.by[1]]
    BY <1>1, <2>1, <2>2 DEF Shape, End
  <2> QED
    BY <2>1, <2>3 DEF PooledInv, SentInv, ListedFirst, Own
<1> PICK t : t = Tx(r)
  OBVIOUS
<1>6. PooledInv(t)'
  <2>1. SentInv(t) /\ t.by[1] = r /\ t.by[2] = step[r]
    BY <1>2
  <2>2. ASSUME NEW rc \in receipts, rc.tx.from = t.from PROVE rc.tx.nonce # t.nonce
    <3>1. /\ t.nonce >= accountNonce[t.from]
          /\ rc.tx.nonce \in Nat /\ rc.tx.nonce < accountNonce[t.from]
      BY <2>2 DEF NodeTakes, IInv, MinedInv
    <3>2. accountNonce[t.from] \in Nat
      BY <1>1, <1>2, ServiceAssumption DEF Shape, Own
    <3> QED
      BY <3>1, <3>2
  <2>3. t.tag = "authorize:mint-recipient" => ListedFirst(t.from, t.args)
    BY <1>1, <1>2 DEF RequestInv
  <2>4. \/ pc'[r] = "wait" /\ t.nonce = nonce[r]
        \/ outcome'[r] = "unsure"
    BY <1>1, <1>2 DEF Shape, End
  <2> QED
    BY <2>1, <2>2, <2>3, <2>4 DEF PooledInv, SentInv, ListedFirst, Own
<1>7. PoolInv'
  <2>1. pool' = (pool \ Conflicts(t)) \cup {t}
    BY DEF PoolWith
  <2>2. \A p \in pool' : PooledInv(p)'
    BY <1>5, <1>6, <2>1
  <2>3. \A p \in pool' : p # t => p \in pool /\ ~(p.from = t.from /\ p.nonce = t.nonce)
    BY <2>1 DEF Conflicts
  <2>4. \A p, q \in pool' : p.from = q.from /\ p.nonce = q.nonce => p = q
    BY <2>3 DEF IInv, PoolInv
  <2> QED
    BY <2>2, <2>4 DEF PoolInv
<1>8. ASSUME NEW rc \in receipts PROVE MinedInv(rc)'
  <2>1. MinedInv(rc) /\ rc.tx.by[1] \in Request
    BY DEF IInv, MinedInv, SentInv
  <2>2. rc.tx.by[1] = r => rc.tx.by[2] # step[r]
    BY <1>1, <2>1 DEF MinedInv, RequestInv
  <2>3. rc.tx.by[1] # r => pc'[rc.tx.by[1]] = pc[rc.tx.by[1]] /\ outcome'[rc.tx.by[1]] = outcome[rc.tx.by[1]]
    BY <1>1, <2>1 DEF Shape, End
  <2> QED
    BY <2>1, <2>2, <2>3 DEF MinedInv, SentInv, Own
<1>9. TransferListingFirst'
  BY DEF IInv, TransferListingFirst
<1> QED
  BY <1>3, <1>4, <1>7, <1>8, <1>9 DEF IInv

\* A receipt is found: none of the request's transactions is pending any more, so
\* it may go on to the next one or be answered.
LEMMA WaitMinedStep ==
    ASSUME IInv, NEW r \in Request, WaitMined(r)
    PROVE  IInv' /\ UNCHANGED receipts
<1>1. /\ Shape /\ RequestInv(r) /\ pc[r] = "wait" /\ outcome[r] = "none"
      /\ UNCHANGED <<nonce, gas, signer, pool, accountNonce, receipts>>
  BY DEF IInv, WaitMined, nodeVars, RequestInv
<1>2. /\ Tx(r).from = Own(r) /\ Tx(r).nonce = nonce[r] /\ Tx(r).args = Args[r]
      /\ MoreSteps(r) => step[r] = 1 /\ Op[r] = "authorize" /\ Tx(r).tag = "authorize:transfer"
  BY <1>1, TxFacts
<1>3. PICK rc \in receipts : Hash(rc.tx) = Hash(Tx(r))
  BY DEF WaitMined, Found
<1>4. /\ rc.tx.from = Own(r) /\ rc.tx.nonce = nonce[r] /\ rc.tx.args = Args[r]
      /\ rc.tx.tag = Tx(r).tag
  BY <1>2, <1>3 DEF Hash
<1>5. \/ /\ MoreSteps(r) /\ step' = [step EXCEPT ![r] = step[r] + 1]
         /\ pc' = [pc EXCEPT ![r] = "nonce"] /\ outcome' = outcome
      \/ /\ step' = step /\ pc' = [pc EXCEPT ![r] = "done"]
         /\ outcome' = [outcome EXCEPT ![r] = "answered"]
  BY DEF WaitMined
<1>6. Shape' /\ \A q \in Request \ {r} : pc'[q] = pc[q] /\ step'[q] = step[q] /\ outcome'[q] = outcome[q]
  BY <1>1, <1>2, <1>5 DEF Shape
<1>7. /\ RequestInv(r)'
      /\ step'[r] # step[r] => step'[r] = 2 /\ step[r] = 1
      /\ step'[r] = step[r] => outcome'[r] = "answered"
  <2>1. MoreSteps(r) => ListedFirst(Own(r), Args[r])
    BY <1>2, <1>4 DEF ListedFirst
  <2>2. CASE MoreSteps(r) /\ step' = [step EXCEPT ![r] = step[r] + 1]
             /\ pc' = [pc EXCEPT ![r] = "nonce"] /\ outcome' = outcome
    <3>1. step'[r] = 2 /\ step[r] = 1 /\ pc'[r] = "nonce" /\ outcome'[r] = "none"
      BY <1>1, <1>2, <2>2 DEF Shape
    <3> QED
      BY <1>1, <1>2, <2>1, <2>2, <3>1 DEF RequestInv, ListedFirst, MayRequest, Own
  <2>3. CASE step' = step /\ pc' = [pc EXCEPT ![r] = "done"]
             /\ outcome' = [outcome EXCEPT ![r] = "answered"]
    <3>1. step'[r] = step[r] /\ pc'[r] = "done" /\ outcome'[r] = "answered"
      BY <1>1, <2>3 DEF Shape
    <3> QED
      BY <1>1, <3>1 DEF RequestInv, ListedFirst, MayRequest, Own
  <2> QED
    BY <1>5, <2>2, <2>3
<1>8. ASSUME NEW q \in Request PROVE RequestInv(q)'
  <2>1. RequestInv(q)
    BY DEF IInv
  <2> QED
    BY <1>1, <1>6, <1>7, <2>1 DEF RequestInv, ListedFirst, MayRequest, Own
<1>9. ASSUME NEW t \in pool PROVE PooledInv(t)'
  <2>1. PooledInv(t) /\ t.by[1] \in Request
    BY DEF IInv, PoolInv, PooledInv, SentInv
  <2>2. t.by[1] # r
    <3> SUFFICES ASSUME t.by[1] = r PROVE FALSE
      OBVIOUS
    <3>1. t.nonce = nonce[r] /\ t.from = Own(r)
      BY <1>1, <2>1 DEF PooledInv, SentInv
    <3> QED
      BY <1>4, <2>1, <3>1 DEF PooledInv
  <2> QED
    BY <1>1, <1>6, <2>1, <2>2 DEF PooledInv, SentInv, ListedFirst, Own
<1>10. ASSUME NEW m \in receipts PROVE MinedInv(m)'
  <2>1. MinedInv(m) /\ m.tx.by[1] \in Request /\ m.tx.by[2] \in {1, 2}
    BY DEF IInv, MinedInv, SentInv
  <2>2. CASE m.tx.by[1] # r
    BY <1>1, <1>6, <2>1, <2>2 DEF MinedInv, SentInv, Own
  <2>3. CASE m.tx.by[1] = r
    <3>1. step[r] \in {1, 2} /\ m.tx.by[2] <= step[r]
      BY <1>1, <2>1, <2>3 DEF Shape, MinedInv
    <3>2. m.tx.by[2] <= step'[r] /\ (m.tx.by[2] = step'[r] => outcome'[r] = "answered")
      BY <1>7, <2>1, <3>1
    <3> QED
      BY <1>1, <2>1, <2>3, <3>2 DEF MinedInv, SentInv, Own
  <2> QED
    BY <2>2, <2>3
<1>11. PoolInv' /\ TransferListingFirst'
  BY <1>1, <1>9 DEF PoolInv, IInv, TransferListingFirst
<1> QED
  BY <1>1, <1>6, <1>8, <1>10, <1>11 DEF IInv

\* A transaction is mined: it is the only one with its nonce, and its request is
\* waiting for it or ended unsure.
LEMMA MineStep ==
    ASSUME IInv, NEW k \in Key, Mine(k)
    PROVE  /\ IInv'
           /\ \A rc \in receipts' \ receipts : outcome[rc.tx.by[1]] \in {"none", "unsure"}
<1>1. PICK t \in pool, status \in Status :
         /\ t.from = k /\ t.nonce = accountNonce[k]
         /\ pool' = pool \ {t}
         /\ accountNonce' = [accountNonce EXCEPT ![k] = accountNonce[k] + 1]
         /\ receipts' = receipts \cup {[tx |-> t, status |-> status]}
         /\ UNCHANGED <<routerOf, serviceVars, restarts>>
  BY DEF Mine
<1>2. UNCHANGED <<pc, step, nonce, gas, signer, outcome>>
  BY <1>1 DEF serviceVars
<1>3. /\ Shape /\ PooledInv(t) /\ t.by[1] \in Request /\ t.by[2] \in {1, 2}
      /\ RequestInv(t.by[1]) /\ accountNonce[k] \in Nat
  BY DEF IInv, PoolInv, PooledInv, SentInv, Shape
<1>4. Shape'
  BY <1>1, <1>2, <1>3 DEF Shape
<1>5. accountNonce'[k] = accountNonce[k] + 1 /\ \A j \in Key \ {k} : accountNonce'[j] = accountNonce[j]
  BY <1>1, <1>3 DEF Shape
<1>6. \A r \in Request : RequestInv(r)'
  BY <1>1, <1>2 DEF IInv, RequestInv, ListedFirst, MayRequest, Own
<1>7. ASSUME NEW p \in pool, p # t PROVE PooledInv(p)'
  <2>1. PooledInv(p) /\ ~(p.from = t.from /\ p.nonce = t.nonce)
    BY <1>7 DEF IInv, PoolInv
  <2> QED
    BY <1>1, <1>2, <2>1 DEF PooledInv, SentInv, ListedFirst, Own
<1>8. PoolInv'
  BY <1>1, <1>7 DEF IInv, PoolInv
<1>9. ASSUME NEW rc \in receipts PROVE MinedInv(rc)'
  <2>1. MinedInv(rc) /\ rc.tx.from \in Key
    BY ServiceAssumption DEF IInv, MinedInv, SentInv, Own
  <2>2. rc.tx.nonce < accountNonce'[rc.tx.from]
    BY <1>3, <1>5, <2>1 DEF MinedInv, Shape
  <2> QED
    BY <1>2, <2>1, <2>2 DEF MinedInv, SentInv, Own
<1> DEFINE new == [tx |-> t, status |-> status]
<1>10. new.tx = t /\ new \in receipts' /\ receipts' = receipts \cup {new}
  BY <1>1
<1> HIDE DEF new
<1>11. MinedInv(new)'
  <2>1. SentInv(t) /\ t.by[2] = step[t.by[1]]
        /\ (pc[t.by[1]] = "wait" \/ outcome[t.by[1]] = "unsure")
    BY <1>3 DEF PooledInv
  <2>2. t.nonce \in Nat /\ t.nonce < accountNonce'[t.from] /\ t.by[2] <= step'[t.by[1]]
    BY <1>1, <1>2, <1>3, <1>5, <2>1
  <2>3. /\ new' = new
    BY DEF new
  <2> QED
    BY <1>2, <1>10, <2>1, <2>2, <2>3 DEF MinedInv, SentInv, Own
<1>12. TransferListingFirst'
  <2> SUFFICES ASSUME NEW rc \in receipts', rc.tx.tag = "authorize:mint-recipient"
               PROVE  \E first \in receipts' :
                         /\ first.tx.tag = "authorize:transfer" /\ first.tx.args = rc.tx.args
                         /\ first.tx.from = rc.tx.from /\ first.tx.nonce < rc.tx.nonce
    BY DEF TransferListingFirst
  <2>1. CASE rc \in receipts
    BY <1>1, <2>1 DEF IInv, TransferListingFirst
  <2>2. CASE rc = new
    <3>1. PICK first \in receipts :
             /\ first.tx.tag = "authorize:transfer" /\ first.tx.args = t.args
             /\ first.tx.from = t.from
      BY <1>3, <1>10, <2>2 DEF PooledInv, ListedFirst
    <3>2. first.tx.nonce < t.nonce
      BY <1>1, <3>1 DEF IInv, MinedInv
    <3> QED
      BY <1>1, <1>10, <2>2, <3>1, <3>2
  <2> QED
    BY <1>10, <2>1, <2>2
<1>13. outcome[new.tx.by[1]] \in {"none", "unsure"}
  BY <1>3, <1>10 DEF PooledInv, RequestInv
<1> QED
  BY <1>4, <1>6, <1>8, <1>9, <1>10, <1>11, <1>12, <1>13 DEF IInv

-----------------------------------------------------------------------------
\* Every step keeps the invariant, and what is mined late ended unsure.
LEMMA NextKeeps ==
    ASSUME IInv, [Next]_vars
    PROVE  /\ IInv'
           /\ \A rc \in receipts' \ receipts : outcome[rc.tx.by[1]] \in {"none", "unsure"}
<1> DEFINE Good == /\ IInv'
                   /\ \A rc \in receipts' \ receipts : outcome[rc.tx.by[1]] \in {"none", "unsure"}
<1>1. ASSUME NEW r \in Request,
             \/ Receive(r) \/ ReadNonce(r) \/ Build(r) \/ Sign(r)
             \/ BroadcastRefused(r) \/ CallFails(r)
             \/ Abandon(r) /\ UNCHANGED pool
      PROVE  Good
  BY <1>1, QuietSteps
<1>2. ASSUME NEW r \in Request,
             \/ Broadcast(r) \/ AnswerLost(r)
             \/ Abandon(r) /\ pc[r] = "send" /\ NodeTakes(Tx(r)) /\ pool' = PoolWith(Tx(r))
      PROVE  Good
  <2>1. /\ pc[r] = "send" /\ NodeTakes(Tx(r)) /\ pool' = PoolWith(Tx(r))
        /\ UNCHANGED <<step, nonce, gas, signer, accountNonce, receipts>>
        /\ \/ pc' = [pc EXCEPT ![r] = "wait"] /\ outcome' = outcome
           \/ End(r, "unsure")
    BY <1>2 DEF Broadcast, AnswerLost, Abandon
  <2> QED
    BY <2>1, DeliverStep
<1>3. ASSUME NEW r \in Request, WaitMined(r) PROVE Good
  BY <1>3, WaitMinedStep
<1>4. ASSUME NEW k \in Key, Mine(k) PROVE Good
  BY <1>4, MineStep
<1>5. ASSUME NodeRestart PROVE Good
  <2>1. /\ pool' = {} /\ UNCHANGED <<pc, step, nonce, gas, signer, outcome, accountNonce, receipts>>
    BY <1>5 DEF NodeRestart, serviceVars
  <2> QED
    BY <2>1 DEF IInv, Shape, RequestInv, ListedFirst, MayRequest, Own, PoolInv, MinedInv,
                SentInv, TransferListingFirst
<1>6. ASSUME UNCHANGED vars PROVE Good
  <2>1. UNCHANGED <<pc, step, nonce, gas, signer, outcome, pool, accountNonce, receipts>>
    BY <1>6 DEF vars, serviceVars, nodeVars
  <2> QED
    BY <2>1 DEF IInv, Shape, RequestInv, ListedFirst, MayRequest, Own, PoolInv, PooledInv,
                MinedInv, SentInv, TransferListingFirst
<1>7. ASSUME NEW r \in Request, Abandon(r)
      PROVE  \/ UNCHANGED pool
             \/ pc[r] = "send" /\ NodeTakes(Tx(r)) /\ pool' = PoolWith(Tx(r))
  BY <1>7 DEF Abandon
<1> HIDE DEF Good
<1>8. ASSUME NEW r \in Request, RequestStep(r) \/ CallFails(r) \/ AnswerLost(r) \/ Abandon(r)
      PROVE  Good
  <2>1. CASE Abandon(r)
    BY <1>1, <1>2, <1>7, <2>1
  <2>2. CASE Broadcast(r) \/ AnswerLost(r)
    BY <1>2, <2>2
  <2>3. CASE WaitMined(r)
    BY <1>3, <2>3
  <2>4. CASE \/ Receive(r) \/ ReadNonce(r) \/ Build(r) \/ Sign(r)
             \/ BroadcastRefused(r) \/ CallFails(r)
    BY <1>1, <2>4
  <2> QED
    BY <1>8, <2>1, <2>2, <2>3, <2>4 DEF RequestStep
<1>9. \/ \E r \in Request : RequestStep(r) \/ CallFails(r) \/ AnswerLost(r) \/ Abandon(r)
      \/ \E k \in Key : Mine(k)
      \/ NodeRestart
      \/ UNCHANGED vars
  BY DEF Next, Quiescent
<1>10. Good
  BY <1>4, <1>5, <1>6, <1>8, <1>9
<1> QED
  BY <1>10 DEF Good

\* The invariant holds throughout.
LEMMA Inductive ==
    Spec => []IInv
<1>1. IInv /\ [Next]_vars => IInv'
  BY NextKeeps
<1> QED
  BY InitHolds, <1>1, PTL DEF Spec

\* Whatever routers the services are pointed at, a bank's transactions are signed
\* with its own key, and only an issuer's service mints or authorizes.
THEOREM KeyIsolation ==
    Spec => []SignedByOwnBank
<1>1. IInv => SignedByOwnBank
  BY DEF IInv, PoolInv, PooledInv, MinedInv, SentInv, SignedByOwnBank, Own
<1> QED
  BY <1>1, Inductive, PTL

\* A refused request has left nothing of the refused transaction behind.
THEOREM RefusalIsClean ==
    Spec => []RefusedLeavesNothing
<1>1. IInv => RefusedLeavesNothing
  <2> SUFFICES ASSUME IInv, NEW r \in Request, outcome[r] = "refused",
                      NEW t \in pool \cup {rc.tx : rc \in receipts}, t.by = <<r, step[r]>>
               PROVE  FALSE
    BY DEF RefusedLeavesNothing
  <2>1. RequestInv(r) /\ t.by[1] = r /\ t.by[2] = step[r] /\ pc[r] # "wait"
    BY DEF IInv, RequestInv
  <2>2. CASE t \in pool
    BY <2>1, <2>2 DEF IInv, PoolInv, PooledInv
  <2>3. CASE t \in {rc.tx : rc \in receipts}
    BY <2>1, <2>3 DEF IInv, MinedInv
  <2> QED
    BY <2>2, <2>3
<1> QED
  BY <1>1, Inductive, PTL

\* A mint-recipient listing on the chain has its transfer listing before it.
THEOREM ListingOrder ==
    Spec => []TransferListingFirst
<1>1. IInv => TransferListingFirst
  BY DEF IInv
<1> QED
  BY <1>1, Inductive, PTL

\* A transaction mined after its request has ended is one that ended unsure.
THEOREM NoLateEffect ==
    Spec => LateOnlyIfUnsure
<1>1. IInv /\ [Next]_vars =>
        [\A rc \in receipts' \ receipts : outcome[rc.tx.by[1]] \in {"none", "unsure"}]_vars
  BY NextKeeps
<1> QED
  BY <1>1, Inductive, PTL DEF Spec, LateOnlyIfUnsure

-----------------------------------------------------------------------------
(* The pending nonce.                                                       *)

\* A finite set of naturals leaves out a least number from a on, at most as far away
\* as the set is large.
LEMMA LeastMissing ==
    ASSUME NEW S, IsFiniteSet(S), NEW a \in Nat
    PROVE  \E n \in a .. (a + Cardinality(S)) :
               /\ n \notin S
               /\ \A m \in a .. (n - 1) : m \in S
<1> DEFINE c == Cardinality(S)
           T == {n \in a .. (a + c) : n \notin S}
<1>1. c \in Nat
  BY FS_CardinalityType
<1>2. T # {}
  <2> SUFFICES ASSUME T = {} PROVE FALSE
    OBVIOUS
  <2>1. a .. (a + c) \subseteq S
    OBVIOUS
  <2>2. Cardinality(a .. (a + c)) <= c
    BY <2>1, FS_Subset
  <2>3. Cardinality(a .. (a + c)) = c + 1
    <3> HIDE DEF c
    <3>1. a + c \in Int /\ ~(a > a + c) /\ (a + c) - a + 1 = c + 1
      BY <1>1
    <3> QED
      BY <3>1, FS_Interval
  <2> HIDE DEF c
  <2> QED
    BY <1>1, <2>2, <2>3
<1> HIDE DEF c
<1>3. T \subseteq Nat
  BY <1>1
<1>4. PICK x \in T : \A y \in T : ~(<<y, x>> \in OpToRel(<, Nat))
  BY <1>2, <1>3, WFMin, NatLessThanWellFounded
<1>5. \A y \in T : ~(y < x)
  BY <1>3, <1>4 DEF OpToRel
<1>6. \A m \in a .. (x - 1) : m \in S
  BY <1>1, <1>5
<1> QED
  BY <1>6 DEF c

\* A key has finitely many transactions in the pool.
LEMMA QueuedFinite ==
    ASSUME IsFiniteSet(pool), NEW k \in Key
    PROVE  IsFiniteSet(Queued(k))
<1> DEFINE P == {p \in pool : p.from = k}
           f == [t \in P |-> t.nonce]
<1>1. IsFiniteSet(P)
  BY FS_Subset
<1>2. f \in Surjection(P, Queued(k))
  BY DEF Queued, Surjection
<1> QED
  BY <1>1, <1>2, FS_Surjection

\* eth_getTransactionCount(k, "pending") is the first nonce that is free.
LEMMA PendingNonce ==
    ASSUME IsFiniteSet(pool), NEW k \in Key, accountNonce[k] \in Nat
    PROVE  /\ Pending(k) \in Nat /\ Pending(k) >= accountNonce[k]
           /\ Pending(k) \notin Queued(k)
           /\ \A m \in accountNonce[k] .. (Pending(k) - 1) : m \in Queued(k)
<1>1. IsFiniteSet(Queued(k))
  BY QueuedFinite
<1>2. Cardinality(Queued(k)) \in Nat
  BY <1>1, FS_CardinalityType
<1>3. \E n \in accountNonce[k] .. (accountNonce[k] + Cardinality(Queued(k))) :
        /\ n \notin Queued(k)
        /\ \A m \in accountNonce[k] .. (n - 1) : m \in Queued(k)
  BY <1>1, LeastMissing
<1>4. /\ Pending(k) \in accountNonce[k] .. (accountNonce[k] + Cardinality(Queued(k)))
      /\ Pending(k) \notin Queued(k)
      /\ \A m \in accountNonce[k] .. (Pending(k) - 1) : m \in Queued(k)
  BY <1>3 DEF Pending
<1> QED
  BY <1>2, <1>4

-----------------------------------------------------------------------------
(* Types.                                                                   *)

Typed == TypeOK /\ IsFiniteSet(pool)

\* A signed transaction is well-formed.
LEMMA TxTyped ==
    ASSUME IInv, TypeOK, NEW r \in Request, pc[r] = "send"
    PROVE  Tx(r) \in Transaction /\ Tx(r).from = Own(r) /\ Tx(r).nonce = nonce[r]
<1>1. Shape /\ RequestInv(r)
  BY DEF IInv
<1>2. /\ Tx(r).from = Own(r) /\ Tx(r).nonce = nonce[r]
      /\ Tx(r) = [from |-> Own(r), nonce |-> nonce[r], tag |-> Steps(r)[step[r]],
                  args |-> Args[r], gas |-> gas[r], by |-> <<r, step[r]>>]
  BY <1>1, TxFacts DEF Tx
<1>3. Own(r) \in Key
  BY ServiceAssumption DEF Own
<1>4. nonce[r] \in Nat /\ gas[r] \in Gas /\ step[r] \in {1, 2}
  BY DEF TypeOK
<1>5. Steps(r)[step[r]] \in Tag
  <2>1. CASE Op[r] = "authorize"
    BY <1>4, <2>1 DEF Steps, Tag
  <2>2. CASE Op[r] # "authorize"
    <3>1. step[r] = 1 /\ Op[r] \in {"mint", "transfer"}
      BY <1>1, <1>4, <2>2, ServiceAssumption DEF RequestInv, Operation
    <3> QED
      BY <2>2, <3>1 DEF Steps, Tag
  <2> QED
    BY <2>1, <2>2
<1> QED
  BY <1>2, <1>3, <1>4, <1>5 DEF Transaction

\* A transaction is put into the pool, in the place of those with its nonce.
LEMMA PoolTyped ==
    ASSUME IInv, Typed, NEW r \in Request, pc[r] = "send", pool' = PoolWith(Tx(r))
    PROVE  pool' \subseteq Transaction /\ IsFiniteSet(pool')
<1>1. pool \ Conflicts(Tx(r)) \subseteq pool /\ IsFiniteSet(pool)
  BY DEF Typed
<1>2. IsFiniteSet(pool \ Conflicts(Tx(r)))
  BY <1>1, FS_Subset
<1>3. IsFiniteSet((pool \ Conflicts(Tx(r))) \cup {Tx(r)})
  BY <1>2, FS_AddElement
<1> QED
  BY <1>1, <1>3, TxTyped DEF PoolWith, Typed, TypeOK

\* However a request ends, its state is typed.
LEMMA EndTyped ==
    ASSUME TypeOK, NEW r \in Request, NEW how \in {"answered", "refused", "unsure"}, End(r, how)
    PROVE  /\ pc' \in [Request -> {"idle", "nonce", "build", "sign", "send", "wait", "done"}]
           /\ outcome' \in [Request -> {"none", "answered", "refused", "unsure"}]
           /\ results' \in [Request -> Seq(Status)]
<1>1. <<>> \in Seq(Status)
  OBVIOUS
<1> QED
  BY <1>1 DEF End, TypeOK

\* Every step keeps the types.
LEMMA TypedNext ==
    ASSUME IInv, Typed, [Next]_vars
    PROVE  Typed'
<1> USE DEF Typed
<1>1. ASSUME NEW r \in Request, Receive(r) PROVE Typed'
  <2>1. CASE End(r, "refused")
    BY <1>1, <2>1, EndTyped DEF Receive, TypeOK, nodeVars
  <2> QED
    BY <1>1, <2>1 DEF Receive, TypeOK, nodeVars
<1>2. ASSUME NEW r \in Request, ReadNonce(r) PROVE Typed'
  <2>1. Own(r) \in Key /\ accountNonce[Own(r)] \in Nat
    BY ServiceAssumption DEF Own, TypeOK
  <2>2. NonceFor(r) \in Nat
    BY <2>1, PendingNonce DEF NonceFor, Own
  <2> QED
    BY <1>2, <2>2 DEF ReadNonce, TypeOK, nodeVars
<1>3. ASSUME NEW r \in Request, Build(r) PROVE Typed'
  BY <1>3 DEF Build, TypeOK, nodeVars
<1>4. ASSUME NEW r \in Request, Sign(r) PROVE Typed'
  <2>1. SignedWith(routerOf[BankOf[r]], KeyOf[BankOf[r]]) \in {Unsigned} \cup {{k} : k \in Key}
    BY ServiceAssumption DEF SignedWith, Unsigned
  <2>2. signer' \in [Request -> {Unsigned} \cup {{k} : k \in Key}]
    BY <1>4, <2>1 DEF Sign, TypeOK
  <2>3. CASE End(r, "refused")
    BY <1>4, <2>2, <2>3, EndTyped DEF Sign, TypeOK, nodeVars
  <2>4. CASE pc' = [pc EXCEPT ![r] = "send"] /\ UNCHANGED <<outcome, results>>
    BY <1>4, <2>2, <2>4 DEF Sign, TypeOK, nodeVars
  <2> QED
    BY <1>4, <2>3, <2>4 DEF Sign
<1>5. ASSUME NEW r \in Request, Broadcast(r) PROVE Typed'
  BY <1>5, PoolTyped DEF Broadcast, TypeOK
<1>6. ASSUME NEW r \in Request, BroadcastRefused(r) \/ CallFails(r) PROVE Typed'
  BY <1>6, EndTyped DEF BroadcastRefused, CallFails, TypeOK, nodeVars
<1>7. ASSUME NEW r \in Request, WaitMined(r) PROVE Typed'
  <2>1. PICK rc \in Found(r) : results' = [results EXCEPT ![r] = Append(@, rc.status)]
    BY <1>7 DEF WaitMined
  <2>2. rc.status \in Status
    BY <2>1 DEF Found, TypeOK
  <2>3. results' \in [Request -> Seq(Status)]
    <3>1. results[r] \in Seq(Status)
      BY DEF TypeOK
    <3>2. Append(results[r], rc.status) \in Seq(Status)
      BY <2>2, <3>1
    <3> QED
      BY <2>1, <3>2 DEF TypeOK
  <2>4. MoreSteps(r) => step[r] + 1 \in {1, 2}
    <3> DEFINE l == Len(Steps(r))
    <3>1. l \in {1, 2}
      BY DEF Steps
    <3>2. step[r] \in {1, 2} /\ (MoreSteps(r) => step[r] < l)
      BY DEF TypeOK, MoreSteps
    <3> HIDE DEF l, Typed
    <3> SUFFICES ASSUME step[r] < l PROVE step[r] = 1
      BY <3>2
    <3> QED
      BY <3>1, <3>2
  <2> QED
    BY <1>7, <2>3, <2>4 DEF WaitMined, TypeOK, nodeVars
<1>8. ASSUME NEW r \in Request, AnswerLost(r) PROVE Typed'
  BY <1>8, EndTyped, PoolTyped DEF AnswerLost, TypeOK
<1>9. ASSUME NEW r \in Request, Abandon(r) PROVE Typed'
  <2>1. pool' \subseteq Transaction /\ IsFiniteSet(pool')
    BY <1>9, PoolTyped DEF Abandon, TypeOK
  <2> QED
    BY <1>9, <2>1, EndTyped DEF Abandon, TypeOK
<1>10. ASSUME NEW k \in Key, Mine(k) PROVE Typed'
  <2>1. PICK t \in pool, status \in Status :
           /\ pool' = pool \ {t}
           /\ accountNonce' = [accountNonce EXCEPT ![k] = @ + 1]
           /\ receipts' = receipts \cup {[tx |-> t, status |-> status]}
    BY <1>10 DEF Mine
  <2>2. IsFiniteSet(pool')
    BY <2>1, FS_RemoveElement
  <2>3. t \in Transaction /\ accountNonce' \in [Key -> Nat]
    BY <2>1 DEF TypeOK
  <2> QED
    BY <1>10, <2>1, <2>2, <2>3 DEF Mine, TypeOK, serviceVars
<1>11. ASSUME NodeRestart PROVE Typed'
  <2>1. restarts' \in 0 .. MaxRestarts
    BY <1>11, ServiceAssumption DEF NodeRestart, TypeOK
  <2> QED
    BY <1>11, <2>1, FS_EmptySet DEF NodeRestart, TypeOK, serviceVars
<1>12. ASSUME UNCHANGED vars PROVE Typed'
  BY <1>12 DEF vars, serviceVars, nodeVars, TypeOK
<1> QED
  BY <1>1, <1>2, <1>3, <1>4, <1>5, <1>6, <1>7, <1>8, <1>9, <1>10, <1>11, <1>12
  DEF Next, RequestStep, Quiescent

\* The types hold at the start.
LEMMA TypedInit ==
    Init => Typed
<1> SUFFICES ASSUME Init PROVE Typed
  OBVIOUS
<1>1. results \in [Request -> Seq(Status)] /\ restarts \in 0 .. MaxRestarts
  BY ServiceAssumption DEF Init
<1>2. IsFiniteSet(pool)
  BY FS_EmptySet DEF Init
<1> QED
  BY <1>1, <1>2 DEF Init, Typed, TypeOK, Gas

\* Nonces are numbers, transactions are well-formed, the pool is finite: the pending
\* nonce is always there to be read, whatever holes a lost pool has left.
THEOREM ServiceTypes ==
    Spec => []TypeOK
<1>1. Init => Typed
  BY TypedInit
<1>2. IInv /\ Typed /\ [Next]_vars => Typed'
  BY TypedNext
<1>3. Typed => TypeOK
  BY DEF Typed
<1> QED
  BY <1>1, <1>2, <1>3, Inductive, PTL DEF Spec
-----------------------------------------------------------------------------
(* No holes.                                                                *)

\* The pending transactions of an account follow the mined ones.
Contiguous(k) ==
    \E n \in Nat : n >= accountNonce[k] /\ Queued(k) = accountNonce[k] .. (n - 1)

\* What a request has read as the next nonce may have been used since, but what is
\* below it has been used.
UsedBelow(r) ==
    \A m \in accountNonce[Own(r)] .. (nonce[r] - 1) : m \in Queued(Own(r))

NonceInv ==
    restarts = 0 =>
        /\ \A k \in Key : Contiguous(k)
        /\ \A r \in Request : pc[r] \in {"build", "sign", "send"} => UsedBelow(r)

\* Where nothing is put into the pool or taken from it, it remains to see who has read
\* a nonce.
LEMMA NonceLocal ==
    ASSUME TypeOK, NonceInv, UNCHANGED <<pool, accountNonce, restarts>>, NEW r \in Request,
           \A q \in Request \ {r} : pc'[q] = pc[q] /\ nonce'[q] = nonce[q],
           \/ pc'[r] \notin {"build", "sign", "send"}
           \/ pc[r] \in {"build", "sign", "send"} /\ nonce'[r] = nonce[r]
           \/ nonce'[r] = Pending(Own(r)) /\ IsFiniteSet(pool)
    PROVE  NonceInv'
<1> SUFFICES ASSUME restarts = 0 PROVE NonceInv'
  BY DEF NonceInv
<1>1. \A k \in Key : Queued(k)' = Queued(k) /\ Contiguous(k)' = Contiguous(k)
  BY DEF Queued, Contiguous
<1>2. \A q \in Request : Own(q) \in Key /\ accountNonce[Own(q)] \in Nat
  BY ServiceAssumption DEF Own, TypeOK
<1>3. ASSUME NEW q \in Request, pc'[q] \in {"build", "sign", "send"} PROVE UsedBelow(q)'
  <2>1. CASE nonce'[q] = nonce[q] /\ pc[q] \in {"build", "sign", "send"}
    BY <1>1, <1>2, <1>3, <2>1 DEF NonceInv, UsedBelow, Own
  <2>2. CASE q = r /\ nonce'[r] = Pending(Own(r)) /\ IsFiniteSet(pool)
    <3>1. \A m \in accountNonce[Own(r)] .. (Pending(Own(r)) - 1) : m \in Queued(Own(r))
      BY <1>2, <2>2, PendingNonce
    <3> QED
      BY <1>1, <1>2, <2>2, <3>1 DEF UsedBelow, Own
  <2> QED
    BY <1>3, <2>1, <2>2
<1> QED
  BY <1>1, <1>3 DEF NonceInv

\* A transaction the node takes replaces another one or is the next.
LEMMA NonceDeliver ==
    ASSUME IInv, TypeOK, NonceInv, UNCHANGED <<accountNonce, restarts, nonce>>, NEW r \in Request,
           pc[r] = "send", NodeTakes(Tx(r)), pool' = PoolWith(Tx(r)),
           \A q \in Request \ {r} : pc'[q] = pc[q],
           pc'[r] \notin {"build", "sign", "send"}
    PROVE  NonceInv'
<1> SUFFICES ASSUME restarts = 0 PROVE NonceInv'
  BY DEF NonceInv
<1>1. Tx(r).from = Own(r) /\ Tx(r).nonce = nonce[r] /\ Own(r) \in Key
  BY TxTyped, ServiceAssumption DEF Own
<1>2. nonce[r] \in Nat /\ accountNonce[Own(r)] \in Nat /\ nonce[r] >= accountNonce[Own(r)]
  BY <1>1 DEF NodeTakes, TypeOK
<1>3. \A k \in Key : Queued(k)' = IF k = Own(r) THEN Queued(k) \cup {nonce[r]} ELSE Queued(k)
  <2> SUFFICES ASSUME NEW k \in Key
               PROVE  Queued(k)' = IF k = Own(r) THEN Queued(k) \cup {nonce[r]} ELSE Queued(k)
    OBVIOUS
  <2>1. pool' = (pool \ {p \in pool : p.from = Own(r) /\ p.nonce = nonce[r]}) \cup {Tx(r)}
    BY <1>1 DEF PoolWith, Conflicts
  <2> QED
    BY <1>1, <2>1 DEF Queued
<1>4. Contiguous(Own(r))'
  <2>1. PICK n \in Nat : n >= accountNonce[Own(r)] /\ Queued(Own(r)) = accountNonce[Own(r)] .. (n - 1)
    BY <1>1 DEF NonceInv, Contiguous
  <2>2. nonce[r] <= n
    <3> SUFFICES ASSUME n < nonce[r] PROVE FALSE
      BY <1>2
    <3>1. n \in accountNonce[Own(r)] .. (nonce[r] - 1)
      BY <1>2, <2>1
    <3>2. n \in Queued(Own(r))
      BY <3>1 DEF NonceInv, UsedBelow
    <3> QED
      BY <2>1, <3>2
  <2>3. Queued(Own(r))' = Queued(Own(r)) \cup {nonce[r]}
    BY <1>1, <1>3
  <2>4. \E m \in Nat : m >= accountNonce[Own(r)] /\ Queued(Own(r))' = accountNonce[Own(r)] .. (m - 1)
    <3>1. CASE nonce[r] < n
      BY <1>2, <2>1, <2>3, <3>1
    <3>2. CASE nonce[r] = n
      <4>1. Queued(Own(r))' = accountNonce[Own(r)] .. ((n + 1) - 1)
        BY <1>2, <2>1, <2>3, <3>2
      <4> QED
        BY <1>2, <2>1, <4>1
    <3> QED
      BY <1>2, <2>1, <2>2, <3>1, <3>2
  <2> QED
    BY <2>4 DEF Contiguous, Own
<1>5. ASSUME NEW k \in Key PROVE Contiguous(k)'
  <2>1. CASE k # Own(r)
    BY <1>3, <2>1 DEF NonceInv, Contiguous
  <2> QED
    BY <1>4, <2>1
<1>6. ASSUME NEW q \in Request, pc'[q] \in {"build", "sign", "send"} PROVE UsedBelow(q)'
  <2>1. q # r /\ UsedBelow(q) /\ Own(q) \in Key
    BY <1>6, ServiceAssumption DEF NonceInv, Own
  <2>2. Queued(Own(q)) \subseteq Queued(Own(q))'
    BY <1>3, <2>1
  <2> QED
    BY <2>1, <2>2 DEF UsedBelow, Own
<1> QED
  BY <1>5, <1>6 DEF NonceInv

\* The first pending transaction of an account is mined.
LEMMA NonceMine ==
    ASSUME IInv, TypeOK, NonceInv, NEW k \in Key, Mine(k)
    PROVE  NonceInv'
<1> SUFFICES ASSUME restarts = 0 PROVE NonceInv'
  BY DEF NonceInv, Mine
<1>1. PICK t \in pool : /\ t.from = k /\ t.nonce = accountNonce[k]
                        /\ pool' = pool \ {t}
                        /\ accountNonce' = [accountNonce EXCEPT ![k] = @ + 1]
                        /\ UNCHANGED <<pc, nonce, restarts>>
  BY DEF Mine, serviceVars
<1>2. /\ accountNonce[k] \in Nat /\ accountNonce'[k] = accountNonce[k] + 1
      /\ \A j \in Key \ {k} : accountNonce'[j] = accountNonce[j]
  BY <1>1 DEF TypeOK
<1>3. \A s \in pool : s.from = k /\ s.nonce = accountNonce[k] => s = t
  BY <1>1 DEF IInv, PoolInv
<1>4. \A j \in Key : Queued(j)' = IF j = k THEN Queued(k) \ {accountNonce[k]} ELSE Queued(j)
  BY <1>1, <1>3 DEF Queued
<1>5. ASSUME NEW j \in Key PROVE Contiguous(j)'
  <2>1. CASE j # k
    BY <1>2, <1>4, <2>1 DEF NonceInv, Contiguous
  <2>2. CASE j = k
    <3>1. PICK n \in Nat : n >= accountNonce[k] /\ Queued(k) = accountNonce[k] .. (n - 1)
      BY DEF NonceInv, Contiguous
    <3>2. accountNonce[k] \in Queued(k)
      BY <1>1 DEF Queued
    <3>3. n >= accountNonce[k] + 1
      BY <1>2, <3>1, <3>2
    <3>4. (accountNonce[k] .. (n - 1)) \ {accountNonce[k]} = (accountNonce[k] + 1) .. (n - 1)
      BY <1>2
    <3>5. Queued(k)' = accountNonce'[k] .. (n - 1)
      BY <1>2, <1>4, <3>1, <3>4
    <3> QED
      BY <1>2, <2>2, <3>3, <3>5 DEF Contiguous
  <2> QED
    BY <2>1, <2>2
<1>6. ASSUME NEW q \in Request, pc'[q] \in {"build", "sign", "send"} PROVE UsedBelow(q)'
  <2>1. UsedBelow(q) /\ Own(q) \in Key /\ nonce[q] \in Nat
    BY <1>1, <1>6, ServiceAssumption DEF NonceInv, Own, TypeOK
  <2>2. \A m \in accountNonce'[Own(q)] .. (nonce[q] - 1) : m \in Queued(Own(q))'
    BY <1>2, <1>4, <2>1 DEF UsedBelow
  <2> QED
    BY <1>1, <2>2 DEF UsedBelow, Own
<1> QED
  BY <1>5, <1>6 DEF NonceInv

\* Every step keeps the nonces apart.
LEMMA NonceNext ==
    ASSUME IInv, Typed, NonceInv, [Next]_vars
    PROVE  NonceInv'
<1>1. TypeOK /\ IsFiniteSet(pool)
  BY DEF Typed
<1> DEFINE Live == {"build", "sign", "send"}
<1>2. ASSUME NEW r \in Request,
             \/ Receive(r) \/ ReadNonce(r) \/ Build(r) \/ Sign(r) \/ BroadcastRefused(r)
             \/ WaitMined(r) \/ CallFails(r)
             \/ Abandon(r) /\ UNCHANGED pool
      PROVE  NonceInv'
  <2>1. UNCHANGED <<pool, accountNonce, restarts>>
    BY <1>2 DEF Receive, ReadNonce, Build, Sign, BroadcastRefused, WaitMined, CallFails, Abandon,
                nodeVars
  <2>2. \A q \in Request \ {r} : pc'[q] = pc[q] /\ nonce'[q] = nonce[q]
    BY <1>1, <1>2 DEF Receive, ReadNonce, Build, Sign, BroadcastRefused, WaitMined, CallFails,
                      Abandon, End, TypeOK
  <2>3. \/ pc'[r] \notin Live
        \/ pc[r] \in Live /\ nonce'[r] = nonce[r]
        \/ nonce'[r] = Pending(Own(r))
    <3>1. CASE ReadNonce(r)
      BY <1>1, <3>1 DEF ReadNonce, NonceFor, Own, TypeOK
    <3>2. CASE Build(r) \/ Sign(r)
      BY <1>1, <3>2 DEF Build, Sign
    <3>3. CASE \/ Receive(r) \/ BroadcastRefused(r) \/ WaitMined(r) \/ CallFails(r) \/ Abandon(r)
      BY <1>1, <3>3 DEF Receive, BroadcastRefused, WaitMined, CallFails, Abandon, End, TypeOK
    <3> QED
      BY <1>2, <3>1, <3>2, <3>3
  <2> QED
    BY <1>1, <2>1, <2>2, <2>3, NonceLocal
<1>3. ASSUME NEW r \in Request,
             \/ Broadcast(r) \/ AnswerLost(r)
             \/ Abandon(r) /\ pc[r] = "send" /\ NodeTakes(Tx(r)) /\ pool' = PoolWith(Tx(r))
      PROVE  NonceInv'
  <2>1. /\ pc[r] = "send" /\ NodeTakes(Tx(r)) /\ pool' = PoolWith(Tx(r))
        /\ UNCHANGED <<accountNonce, restarts, nonce>>
    BY <1>3 DEF Broadcast, AnswerLost, Abandon
  <2>2. (\A q \in Request \ {r} : pc'[q] = pc[q]) /\ pc'[r] \notin Live
    BY <1>1, <1>3 DEF Broadcast, AnswerLost, Abandon, End, TypeOK
  <2> QED
    BY <1>1, <2>1, <2>2, NonceDeliver
<1>4. ASSUME NEW k \in Key, Mine(k) PROVE NonceInv'
  BY <1>1, <1>4, NonceMine
<1>5. ASSUME NodeRestart PROVE NonceInv'
  <2>1. restarts' # 0
    BY <1>1, <1>5, ServiceAssumption DEF NodeRestart, TypeOK
  <2> QED
    BY <2>1 DEF NonceInv
<1>6. ASSUME UNCHANGED vars PROVE NonceInv'
  BY <1>6 DEF vars, serviceVars, nodeVars, NonceInv, Contiguous, UsedBelow, Queued, Own
<1>7. ASSUME NEW r \in Request, Abandon(r)
      PROVE  \/ UNCHANGED pool
             \/ pc[r] = "send" /\ NodeTakes(Tx(r)) /\ pool' = PoolWith(Tx(r))
  BY <1>7 DEF Abandon
<1>8. ASSUME NEW r \in Request, RequestStep(r) \/ CallFails(r) \/ AnswerLost(r) \/ Abandon(r)
      PROVE  NonceInv'
  <2>1. CASE Abandon(r)
    BY <1>2, <1>3, <1>7, <2>1
  <2>2. CASE Broadcast(r) \/ AnswerLost(r)
    BY <1>3, <2>2
  <2>3. CASE Receive(r) \/ ReadNonce(r) \/ Build(r) \/ Sign(r)
    BY <1>2, <2>3
  <2>4. CASE BroadcastRefused(r) \/ WaitMined(r) \/ CallFails(r)
    BY <1>2, <2>4
  <2> QED
    BY <1>8, <2>1, <2>2, <2>3, <2>4 DEF RequestStep
<1> QED
  BY <1>4, <1>5, <1>6, <1>8 DEF Next, Quiescent

\* However many requests of a bank share a stale nonce, while the node keeps its pool
\* no transaction waits behind a nonce that nobody uses.
THEOREM NoHoles ==
    Spec => []NoNonceGap
<1>1. Init => Typed /\ NonceInv
  <2>1. ASSUME Init PROVE \A k \in Key : Contiguous(k)
    <3> SUFFICES ASSUME NEW k \in Key PROVE Contiguous(k)
      OBVIOUS
    <3>1. accountNonce[k] = 0 /\ Queued(k) = {}
      BY <2>1 DEF Init, Queued
    <3>2. 0 .. (0 - 1) = {}
      OBVIOUS
    <3> QED
      BY <3>1, <3>2 DEF Contiguous
  <2>2. Init => Typed
    BY TypedInit
  <2> QED
    BY <2>1, <2>2 DEF Init, NonceInv
<1>2. (IInv /\ Typed /\ NonceInv) /\ [Next]_vars => Typed' /\ NonceInv'
  BY TypedNext, NonceNext
<1>3. Typed /\ NonceInv => NoNonceGap
  <2> SUFFICES ASSUME Typed, NonceInv, restarts = 0, NEW k \in Key
               PROVE  Queued(k) = accountNonce[k] .. (Pending(k) - 1)
    BY DEF NoNonceGap
  <2>1. accountNonce[k] \in Nat /\ IsFiniteSet(pool)
    BY DEF Typed, TypeOK
  <2>2. PICK n \in Nat : n >= accountNonce[k] /\ Queued(k) = accountNonce[k] .. (n - 1)
    BY DEF NonceInv, Contiguous
  <2>3. /\ Pending(k) \in Nat /\ Pending(k) >= accountNonce[k] /\ Pending(k) \notin Queued(k)
        /\ \A m \in accountNonce[k] .. (Pending(k) - 1) : m \in Queued(k)
    BY <2>1, PendingNonce
  <2>4. ~(Pending(k) < n)
    BY <2>1, <2>2, <2>3
  <2>5. ~(n < Pending(k))
    <3> SUFFICES ASSUME n < Pending(k) PROVE FALSE
      OBVIOUS
    <3>1. n \in Queued(k)
      BY <2>1, <2>2, <2>3
    <3> QED
      BY <2>2, <3>1
  <2>6. Pending(k) = n
    BY <2>2, <2>3, <2>4, <2>5
  <2> QED
    BY <2>2, <2>6
<1> QED
  BY <1>1, <1>2, <1>3, Inductive, PTL DEF Spec
=============================================================================
