------------------------------ MODULE Explorer ------------------------------
(***************************************************************************)
(* The block explorer of the web UI: how a transaction that a deposit      *)
(* service packed, and the events the contracts emitted for it, look on    *)
(* its pages. A signature stands for its hash: the selector of a function, *)
(* the first topic of an event.                                            *)
(***************************************************************************)
EXTENDS Interbank, FiniteSets, FiniteSetsExt

-----------------------------------------------------------------------------
(* What is on the chain: calldata (chainx) and events (the contracts).      *)

MintSignature == <<"mint", <<"address", "address", "uint256">>>>
TransferSignature == <<"transfer", <<"address", "uint256">>>>
AuthorizeSignature == <<"modifyPolicyWhitelist", <<"uint64", "address", "bool">>>>

Call(to, selector, args) == [to |-> to, selector |-> selector, args |-> args]

Transaction(b) ==
    LET r == b.tx[1]
    IN  CASE r.op = "mint" ->
                Call(Deployment.tokenAuthority, MintSignature,
                     <<Deployment.depositToken, r.to, Packed(r.amount)>>)
          [] r.op = "transfer" ->
                Call(Deployment.depositToken, TransferSignature, <<r.to, Packed(r.amount)>>)
          [] r.op = "authorize" ->
                Call(Deployment.authRegistry, AuthorizeSignature,
                     <<AuthorizedPolicy[b.tx[2]], r.to, TRUE>>)

\* A log: the contract, the topics (the signature, then the indexed arguments), and
\* the other arguments, in order.
Log(contract, name, types, indexed, data) ==
    [address |-> contract, topics |-> <<<<name, types>>>> \o indexed, data |-> data]

Zero == "0x0000"
Moved(token, from, to, amount) ==
    Log(token, "Transfer", <<"address", "address", "uint256">>, <<from, to>>, <<amount>>)

Emitted(b) ==
    LET r == b.tx[1]
        amount == Packed(r.amount)
        D == Deployment
    IN  IF b.status = "reverted" THEN <<>> ELSE
        CASE r.op = "authorize" ->
                <<Log(D.authRegistry, "PolicyMembershipChanged", <<"uint64", "address", "bool">>,
                      <<AuthorizedPolicy[b.tx[2]], r.to>>, <<TRUE>>)>>
          [] r.op = "transfer" -> <<Moved(D.depositToken, via[r].address, r.to, amount)>>
          [] r.op = "mint" ->
                <<Moved(D.reserveLedger, Zero, D.tokenHandler, amount),
                  Log(D.reserveLedger, "Minted", <<"uint256", "address", "address">>,
                      <<D.tokenHandler, D.tokenHandler>>, <<amount>>),
                  Log(D.reserveLedger, "Approval", <<"address", "address", "uint256">>,
                      <<D.tokenHandler, D.depositToken>>, <<amount>>),
                  Moved(D.reserveLedger, D.tokenHandler, D.depositToken, amount),
                  Moved(D.depositToken, Zero, r.to, amount),
                  Log(D.depositToken, "Wrapped", <<"uint256", "address", "address">>,
                      <<r.to, D.tokenHandler>>, <<amount>>),
                  Log(D.tokenHandler, "Minted", <<"address", "address", "uint256">>,
                      <<D.depositToken, r.to>>, <<amount>>),
                  Log(D.tokenAuthority, "Mint", <<"address", "address", "address", "uint256">>,
                      <<via[r].address, D.depositToken, r.to>>, <<amount>>)>>

-----------------------------------------------------------------------------
(* What the explorer knows.                                                 *)

In(name, type) == [name |-> name, type |-> type, indexed |-> FALSE]
Ix(name, type) == [name |-> name, type |-> type, indexed |-> TRUE]
Shape(name, inputs) == [name |-> name, inputs |-> inputs]
SignatureOf(shape) == <<shape.name, [i \in DOMAIN shape.inputs |-> shape.inputs[i].type]>>

\* decoderABI
Functions ==
    {Shape("mint", <<In("stablecoin", "address"), In("to", "address"), In("amount", "uint256")>>),
     Shape("burn", <<In("stablecoin", "address"), In("amount", "uint256")>>),
     Shape("transfer", <<In("to", "address"), In("amount", "uint256")>>),
     Shape("modifyPolicyWhitelist",
           <<In("policyId", "uint64"), In("account", "address"), In("allowed", "bool")>>)}
Events ==
    {Shape("Transfer", <<Ix("from", "address"), Ix("to", "address"), In("value", "uint256")>>),
     Shape("Approval", <<Ix("owner", "address"), Ix("spender", "address"), In("value", "uint256")>>),
     Shape("Mint", <<Ix("stablecoin", "address"), Ix("to", "address"), In("amount", "uint256")>>),
     Shape("Burn", <<Ix("stablecoin", "address"), In("amount", "uint256")>>),
     Shape("PolicyMembershipChanged",
           <<Ix("policyId", "uint64"), Ix("account", "address"), In("value", "bool")>>)}

Selectors ==
    {<<MintSignature, "mint">>, <<<<"burn", <<"address", "uint256">>>>, "burn">>,
     <<TransferSignature, "transfer">>, <<AuthorizeSignature, "authorize">>}

\* A selector that is not known is shown as it is: here, by its name.
MethodName(selector) ==
    IF \E s \in Selectors : s[1] = selector
    THEN (CHOOSE s \in Selectors : s[1] = selector)[2]
    ELSE selector[1]

Label(a) ==
    CASE a = BankA.address -> "Bank A"
      [] a = BankB.address -> "Bank B"
      [] a = Merchant -> "Merchant"
      [] a = Deployment.depositToken -> "DepositToken"
      [] a = Deployment.tokenAuthority -> "TokenAuthority"
      [] a = Deployment.reserveLedger -> "ReserveLedger"
      [] a = Deployment.authRegistry -> "AuthRegistry"
      [] a = Deployment.tokenHandler -> "TokenHandler"
      [] OTHER -> a

Param(input, value) ==
    [name |-> input.name, value |-> value,
     label |-> IF input.type = "address" THEN Label(value) ELSE ""]

DecodeInput(tx) ==
    LET known == {f \in Functions : SignatureOf(f) = tx.selector}
    IN  IF known = {} THEN <<>>
        ELSE LET f == CHOOSE f \in known : TRUE
             IN  [i \in DOMAIN f.inputs |-> Param(f.inputs[i], tx.args[i])]

\* The indexed arguments are taken from the topics after the first, the others from
\* the data, each kind in its order.
Before(ev, i, indexed) == Cardinality({j \in 1 .. i - 1 : ev.inputs[j].indexed = indexed})
ArgumentFromLast(ev, log, i) ==
    IF ev.inputs[i].indexed THEN log.topics[Len(log.topics) - Before(ev, i, TRUE)]
    ELSE log.data[1 + Before(ev, i, FALSE)]
Argument(ev, log, i) ==
    IF ev.inputs[i].indexed THEN log.topics[2 + Before(ev, i, TRUE)]
    ELSE log.data[1 + Before(ev, i, FALSE)]

DecodeLog(log) ==
    LET known == {ev \in Events : SignatureOf(ev) = log.topics[1]}
    IN  IF known = {} THEN [contract |-> Label(log.address), event |-> "Unknown", params |-> <<>>]
        ELSE LET ev == CHOOSE ev \in known : TRUE
             IN  [contract |-> Label(log.address), event |-> ev.name,
                  params |-> [i \in DOMAIN ev.inputs |->
                                  Param(ev.inputs[i], Argument(ev, log, i))]]

-----------------------------------------------------------------------------
(* The pages. A mined block does not change, so a page is what it would be  *)
(* if it were read at once; a receipt that cannot be read says "pending".   *)

Row(b, status) ==
    [hash |-> b.tx, from |-> Label(via[b.tx[1]].address), to |-> Label(Transaction(b).to),
     method |-> MethodName(Transaction(b).selector), status |-> status]

\* The latest of n blocks, up to 50 and 12 if it is not said, down to the first that
\* cannot be read.
PageLength(n) == IF n \in 1 .. 50 THEN n ELSE 12
BlockRows(n, unread) ==
    UNION {{Row(blocks[k], status) : status \in {"pending", blocks[k].status}} : k \in
        {k \in 2 .. Len(blocks) : k > Len(blocks) - PageLength(n) /\ \A u \in unread : u < k}}

TxPage(b) ==
    [row |-> Row(b, b.status), decoded |-> DecodeInput(Transaction(b)),
     logs |-> [i \in DOMAIN Emitted(b) |-> DecodeLog(Emitted(b)[i])]]

-----------------------------------------------------------------------------
(* Properties.                                                              *)

\* The amounts that the events on a page move to a wallet, or from it.
Sum(page, field, a) ==
    MapThenSumSet(LAMBDA i : page.logs[i].params[3].value,
        {i \in DOMAIN page.logs :
            /\ page.logs[i].contract = "DepositToken" /\ page.logs[i].event = "Transfer"
            /\ page.logs[i].params[field].label = Label(a)})

\* The pages explain the chain: a transaction is listed with the operation that was
\* posted, all but transfers with Bank A for their sender; it is shown with its
\* recipient and its outcome, and the Transfer events decoded for it account for every
\* change of a balance. (The tables of chainx, of the explorer and of the contracts are written
\* by hand, each on its own.)
PagesExplainBalances ==
    /\ \A row \in BlockRows(0, {}) :
           /\ row.method = row.hash[1].op
           /\ row.method # "transfer" => row.from = "Bank A"
    /\ LET page == TxPage(Tip)
       IN  Len(blocks) > 1 =>
               /\ page.row.status = Tip.status
               /\ \E p \in DOMAIN page.decoded : page.decoded[p].label = Label(Tip.tx[1].to)
               /\ \A a \in Account :
                      Tip.balance[a] - blocks[Len(blocks) - 1].balance[a]
                          = Sum(page, 2, a) - Sum(page, 1, a)

\* Every mint is shown with the authority's Mint event ("decodeLogs decodes receipt
\* events (Transfer, Mint, PolicyMembershipChanged, ...)").
MintIsDecoded ==
    Len(blocks) > 1 /\ Tip.status = "success" /\ Tip.tx[1].op = "mint" =>
        \E i \in DOMAIN TxPage(Tip).logs : TxPage(Tip).logs[i].event = "Mint"
=============================================================================
