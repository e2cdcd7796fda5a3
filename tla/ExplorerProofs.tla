--------------------------- MODULE ExplorerProofs ---------------------------
(***************************************************************************)
(* Proofs about the explorer's pages, for any requests, limits and chain:  *)
(* what the tables decode of each kind of transaction, what the sums over  *)
(* a page amount to, and that a block changes the balances by just that.   *)
(***************************************************************************)
EXTENDS ClientsProofs, Explorer, FiniteSetTheorems, SequenceTheorems

-----------------------------------------------------------------------------
(* The sums on a page.                                                      *)

\* The entries of a page that Sum adds up.
Entries(p, field, a) ==
    {i \in DOMAIN p.logs :
        /\ p.logs[i].contract = "DepositToken" /\ p.logs[i].event = "Transfer"
        /\ p.logs[i].params[field].label = Label(a)}

\* A sum without entries,
LEMMA SumOfNothing ==
    ASSUME NEW p, NEW field, NEW a, Entries(p, field, a) = {}
    PROVE  Sum(p, field, a) = 0
<1> DEFINE S == Entries(p, field, a)
           v(i) == p.logs[i].params[3].value
           Body(f) == [s \in SUBSET S |-> IF s = {} THEN 0
                         ELSE LET x == CHOOSE y \in s : TRUE IN v(x) + f[s \ {x}]]
           F == CHOOSE f : f = Body(f)
           W == [s \in SUBSET S |-> 0]
<1>1. Sum(p, field, a) = F[S]
  BY DEF Sum, MapThenSumSet, MapThenFoldSet, Entries
<1>2. W = Body(W)
  OBVIOUS
<1>3. F = Body(F)
  BY <1>2
<1>4. {} \in SUBSET S /\ S = {}
  OBVIOUS
<1> HIDE DEF F, S, v
<1>5. Body(F)[{}] = 0
  BY <1>4
<1> QED
  BY <1>1, <1>3, <1>4, <1>5

\* and one with a single entry.
LEMMA SumOfOne ==
    ASSUME NEW p, NEW field, NEW a, NEW n, Entries(p, field, a) = {n},
           p.logs[n].params[3].value \in Int
    PROVE  Sum(p, field, a) = p.logs[n].params[3].value
<1> DEFINE S == Entries(p, field, a)
           v(i) == p.logs[i].params[3].value
           Body(f) == [s \in SUBSET S |-> IF s = {} THEN 0
                         ELSE LET x == CHOOSE y \in s : TRUE IN v(x) + f[s \ {x}]]
           F == CHOOSE f : f = Body(f)
           W == [s \in SUBSET S |-> IF s = {} THEN 0 ELSE v(n)]
<1>1. Sum(p, field, a) = F[S]
  BY DEF Sum, MapThenSumSet, MapThenFoldSet, Entries
<1>2. S = {n} /\ v(n) \in Int
  OBVIOUS
<1> HIDE DEF S, v
<1>3. /\ \A s \in SUBSET S : s = {} \/ s = S
      /\ {} \in SUBSET S /\ S \in SUBSET S /\ S # {}
      /\ (CHOOSE y \in S : TRUE) = n /\ S \ {n} = {}
  BY <1>2
<1>4. W = Body(W)
  <2>1. ASSUME NEW s \in SUBSET S PROVE W[s] = Body(W)[s]
    BY <1>2, <1>3
  <2> QED
    BY <2>1
<1>5. F = Body(F)
  BY <1>4
<1> HIDE DEF F
<1>6. F[{}] = 0
  <2>1. Body(F)[{}] = 0
    BY <1>3
  <2> QED
    BY <1>5, <2>1
<1>7. F[S] = v(n) + F[{}]
  <2>1. Body(F)[S] = v(n) + F[{}]
    BY <1>3
  <2> QED
    BY <1>5, <2>1
<1> QED
  BY <1>1, <1>2, <1>6, <1>7 DEF v

-----------------------------------------------------------------------------
(* Labels and events.                                                       *)

\* The labels of the wallets and of the contracts differ.
LEMMA LabelFacts ==
    /\ \A a \in Account : Label(a) # "0x0000" /\ \A b \in Account : Label(a) = Label(b) => a = b
    /\ Label(Deployment.depositToken) = "DepositToken" /\ Label(Zero) = "0x0000"
    /\ Label(BankA.address) = "Bank A"
    /\ \A c \in {Deployment.tokenAuthority, Deployment.reserveLedger, Deployment.authRegistry,
                 Deployment.tokenHandler} : Label(c) # "DepositToken"
<1>1. BankA.address = "0xf39F" /\ BankB.address = "0x7099" /\ Merchant = "0x3C44"
  BY DEF BankA, BankB, Merchant
<1>2. /\ Deployment.depositToken = "0xA4AD" /\ Deployment.tokenAuthority = "0x8A79"
      /\ Deployment.reserveLedger = "0xC165" /\ Deployment.authRegistry = "0xCd56"
      /\ Deployment.tokenHandler = "0x6101"
  BY DEF Deployment
<1>3. Account = {"0xf39F", "0x7099", "0x3C44"}
  BY <1>1 DEF Account
<1>4. /\ Label("0xf39F") = "Bank A" /\ Label("0x7099") = "Bank B" /\ Label("0x3C44") = "Merchant"
  BY <1>1, <1>2 DEF Label
<1>5. /\ Label("0xA4AD") = "DepositToken" /\ Label("0x8A79") = "TokenAuthority"
      /\ Label("0xC165") = "ReserveLedger" /\ Label("0xCd56") = "AuthRegistry"
      /\ Label("0x6101") = "TokenHandler" /\ Label("0x0000") = "0x0000"
  BY <1>1, <1>2 DEF Label
<1> QED
  BY <1>1, <1>2, <1>3, <1>4, <1>5 DEF Zero

\* An argument is shown with its value, an address with its label.
LEMMA ParamFacts ==
    ASSUME NEW input, NEW value
    PROVE  /\ Param(input, value).value = value
           /\ input.type = "address" => Param(input, value).label = Label(value)
BY DEF Param

\* The topics of a log: its signature, then the indexed arguments.
LEMMA TopicsAre ==
    ASSUME NEW contract, NEW name, NEW types, NEW indexed, NEW data, NEW S, indexed \in Seq(S)
    PROVE  LET log == Log(contract, name, types, indexed, data)
           IN  /\ log.address = contract /\ log.data = data
               /\ log.topics[1] = <<name, types>>
               /\ \A i \in 1 .. Len(indexed) : log.topics[i + 1] = indexed[i]
<1> DEFINE first == <<<<name, types>>>>
           log == Log(contract, name, types, indexed, data)
<1>1. log.address = contract /\ log.data = data /\ log.topics = first \o indexed
  BY DEF Log
<1>2. first \in Seq({<<name, types>>}) /\ Len(first) = 1 /\ first[1] = <<name, types>>
  OBVIOUS
<1>3. Len(indexed) \in Nat
  OBVIOUS
<1> DEFINE T == S \cup {<<name, types>>}
<1>0. first \in Seq(T) /\ indexed \in Seq(T)
  OBVIOUS
<1> HIDE DEF first, T
<1>4. \A i \in 1 .. Len(first) + Len(indexed) :
          (first \o indexed)[i] = IF i <= Len(first) THEN first[i] ELSE indexed[i - Len(first)]
  BY <1>0, ConcatProperties
<1>5. (first \o indexed)[1] = <<name, types>>
  <2>1. 1 \in 1 .. Len(first) + Len(indexed) /\ 1 <= Len(first)
    BY <1>2, <1>3
  <2> QED
    BY <1>2, <1>4, <2>1
<1>6. ASSUME NEW i \in 1 .. Len(indexed) PROVE (first \o indexed)[i + 1] = indexed[i]
  <2>1. /\ i + 1 \in 1 .. Len(first) + Len(indexed) /\ ~(i + 1 <= Len(first))
        /\ i + 1 - Len(first) = i
    BY <1>2, <1>3
  <2> QED
    BY <1>4, <2>1
<1> QED
  BY <1>1, <1>5, <1>6

\* An event is shown with the contract that emitted it, by its own name or as unknown.
LEMMA EventNames ==
    ASSUME NEW log, NEW name, NEW types, log.topics[1] = <<name, types>>
    PROVE  DecodeLog(log).contract = Label(log.address) /\ DecodeLog(log).event \in {"Unknown", name}
<1> DEFINE known == {ev \in Events : SignatureOf(ev) = log.topics[1]}
           ev == CHOOSE ev \in known : TRUE
<1>1. CASE known = {}
  BY <1>1 DEF DecodeLog
<1>2. CASE known # {}
  <2>1. ev \in known
    BY <1>2
  <2>2. SignatureOf(ev) = <<name, types>>
    BY <2>1
  <2> HIDE DEF ev
  <2>3. ev.name = name
    BY <2>2 DEF SignatureOf
  <2> QED
    BY <1>2, <2>3 DEF DecodeLog, ev
<1> QED
  BY <1>1, <1>2

\* A Transfer event is decoded with its three arguments.
LEMMA TransferDecoded ==
    ASSUME NEW token, NEW from, NEW to, NEW amount
    PROVE  LET seen == DecodeLog(Moved(token, from, to, amount))
           IN  /\ seen.contract = Label(token) /\ seen.event = "Transfer"
               /\ seen.params[1].label = Label(from) /\ seen.params[2].label = Label(to)
               /\ seen.params[3].value = amount
<1> DEFINE log == Moved(token, from, to, amount)
           types == <<"address", "address", "uint256">>
           inputs == <<Ix("from", "address"), Ix("to", "address"), In("value", "uint256")>>
           shape == Shape("Transfer", inputs)
           known == {ev \in Events : SignatureOf(ev) = log.topics[1]}
<1>1. /\ log.address = token /\ log.data = <<amount>> /\ log.topics[1] = <<"Transfer", types>>
      /\ log.topics[2] = from /\ log.topics[3] = to
  <2> DEFINE indexed == <<from, to>>
  <2>1. indexed \in Seq({from, to}) /\ Len(indexed) = 2 /\ indexed[1] = from /\ indexed[2] = to
    OBVIOUS
  <2>2. log = Log(token, "Transfer", types, indexed, <<amount>>)
    BY DEF Moved
  <2> HIDE DEF indexed, log
  <2>3. /\ log.address = token /\ log.data = <<amount>> /\ log.topics[1] = <<"Transfer", types>>
        /\ \A i \in 1 .. 2 : log.topics[i + 1] = indexed[i]
    BY <2>1, <2>2, TopicsAre
  <2>4. 1 \in 1 .. 2 /\ 2 \in 1 .. 2 /\ 1 + 1 = 2 /\ 2 + 1 = 3
    OBVIOUS
  <2> QED
    BY <2>1, <2>3, <2>4
<1>2. /\ inputs[1].name = "from" /\ inputs[1].type = "address" /\ inputs[1].indexed = TRUE
      /\ inputs[2].name = "to" /\ inputs[2].type = "address" /\ inputs[2].indexed = TRUE
      /\ inputs[3].name = "value" /\ inputs[3].type = "uint256" /\ inputs[3].indexed = FALSE
      /\ DOMAIN inputs = {1, 2, 3}
  BY DEF In, Ix
<1>3. shape.name = "Transfer" /\ shape.inputs = inputs
  BY DEF Shape
<1>4. SignatureOf(shape) = <<"Transfer", types>>
  <2>1. [i \in DOMAIN inputs |-> inputs[i].type] = types
    BY <1>2
  <2> QED
    BY <1>3, <2>1 DEF SignatureOf
<1>5. known = {shape}
  <2>1. shape \in Events
    BY DEF Events
  <2>2. \A ev \in Events : ev.name = "Transfer" => ev = shape
    BY DEF Events, Shape
  <2>3. \A ev \in known : ev.name = "Transfer"
    BY <1>1 DEF SignatureOf
  <2> QED
    BY <1>1, <1>4, <2>1, <2>2, <2>3
<1>6. Before(shape, 1, TRUE) = 0 /\ Before(shape, 2, TRUE) = 1 /\ Before(shape, 3, FALSE) = 0
  <2>1. {j \in 1 .. 1 - 1 : shape.inputs[j].indexed = TRUE} = {}
    OBVIOUS
  <2>2. {j \in 1 .. 2 - 1 : shape.inputs[j].indexed = TRUE} = {1}
    BY <1>2, <1>3
  <2>3. {j \in 1 .. 3 - 1 : shape.inputs[j].indexed = FALSE} = {}
    <3>1. \A j \in 1 .. 3 - 1 : j = 1 \/ j = 2
      OBVIOUS
    <3> QED
      BY <1>2, <1>3, <3>1
  <2>4. Cardinality({}) = 0 /\ Cardinality({1}) = 1
    BY FS_EmptySet, FS_Singleton
  <2> QED
    BY <2>1, <2>2, <2>3, <2>4 DEF Before
<1> HIDE DEF log, shape, inputs, types, known
<1>7. /\ Argument(shape, log, 1) = from /\ Argument(shape, log, 2) = to
      /\ Argument(shape, log, 3) = amount
  <2>1. 2 + 0 = 2 /\ 2 + 1 = 3 /\ 1 + 0 = 1 /\ <<amount>>[1] = amount
    OBVIOUS
  <2>2. shape.inputs[1].indexed /\ shape.inputs[2].indexed /\ ~shape.inputs[3].indexed
    BY <1>2, <1>3
  <2>3. Argument(shape, log, 1) = log.topics[2 + 0]
    BY <1>6, <2>2 DEF Argument
  <2>4. Argument(shape, log, 2) = log.topics[2 + 1]
    BY <1>6, <2>2 DEF Argument
  <2>5. Argument(shape, log, 3) = log.data[1 + 0]
    BY <1>6, <2>2 DEF Argument
  <2> QED
    BY <1>1, <2>1, <2>3, <2>4, <2>5
<1> DEFINE params == [i \in DOMAIN shape.inputs |-> Param(shape.inputs[i], Argument(shape, log, i))]
<1>8. DecodeLog(log) = [contract |-> Label(log.address), event |-> shape.name, params |-> params]
  BY <1>5 DEF DecodeLog, known
<1>9. /\ params[1] = Param(inputs[1], from) /\ params[2] = Param(inputs[2], to)
      /\ params[3] = Param(inputs[3], amount)
  BY <1>2, <1>3, <1>7
<1>10. /\ params[1].label = Label(from) /\ params[2].label = Label(to) /\ params[3].value = amount
  <2> HIDE DEF params
  <2>1. Param(inputs[1], from).label = Label(from)
    BY <1>2, ParamFacts
  <2>2. Param(inputs[2], to).label = Label(to)
    BY <1>2, ParamFacts
  <2>3. Param(inputs[3], amount).value = amount
    BY ParamFacts
  <2> QED
    BY <1>9, <2>1, <2>2, <2>3
<1> HIDE DEF params
<1> QED
  BY <1>1, <1>3, <1>8, <1>10 DEF log

\* What a page shows of a log that is no transfer of the deposit token.
LEMMA OtherEvents ==
    ASSUME NEW contract, NEW name, NEW types, NEW indexed, NEW data, NEW S, indexed \in Seq(S),
           name # "Unknown", name # "Transfer" \/ Label(contract) # "DepositToken"
    PROVE  LET seen == DecodeLog(Log(contract, name, types, indexed, data))
           IN  seen.contract # "DepositToken" \/ seen.event # "Transfer"
<1> DEFINE log == Log(contract, name, types, indexed, data)
<1>1. log.topics[1] = <<name, types>> /\ log.address = contract
  BY TopicsAre
<1> HIDE DEF log
<1>2. DecodeLog(log).contract = Label(contract) /\ DecodeLog(log).event \in {"Unknown", name}
  BY <1>1, EventNames
<1> QED
  BY <1>2 DEF log

-----------------------------------------------------------------------------
(* The pages of a transaction.                                              *)

\* The logs of a page.
LEMMA LogsOf ==
    ASSUME NEW b
    PROVE  /\ TxPage(b).logs = [i \in DOMAIN Emitted(b) |-> DecodeLog(Emitted(b)[i])]
           /\ TxPage(b).row = Row(b, b.status) /\ TxPage(b).decoded = DecodeInput(Transaction(b))
BY DEF TxPage

\* A page of a reverted transaction, or of an onboarding, moves nothing.
LEMMA NothingMoved ==
    ASSUME NEW b, b.status = "reverted" \/ b.tx[1].op = "authorize", NEW a, NEW field
    PROVE  Sum(TxPage(b), field, a) = 0
<1>1. CASE b.status = "reverted"
  <2>1. Emitted(b) = <<>>
    BY <1>1 DEF Emitted
  <2>2. DOMAIN Emitted(b) = {}
    BY <2>1
  <2>3. DOMAIN TxPage(b).logs = {}
    BY <2>2, LogsOf
  <2> QED
    BY <2>3, SumOfNothing DEF Entries
<1>2. CASE b.status # "reverted" /\ b.tx[1].op = "authorize"
  <2> DEFINE indexed == <<AuthorizedPolicy[b.tx[2]], b.tx[1].to>>
             log == Log(Deployment.authRegistry, "PolicyMembershipChanged",
                        <<"uint64", "address", "bool">>, indexed, <<TRUE>>)
  <2>1. Emitted(b) = <<log>>
    BY <1>2 DEF Emitted
  <2>2. indexed \in Seq({AuthorizedPolicy[b.tx[2]], b.tx[1].to})
    OBVIOUS
  <2> HIDE DEF indexed
  <2>3. DecodeLog(log).contract # "DepositToken" \/ DecodeLog(log).event # "Transfer"
    BY <2>2, OtherEvents
  <2> HIDE DEF log
  <2>4. TxPage(b).logs = [i \in {1} |-> DecodeLog(log)]
    BY <2>1, LogsOf
  <2>5. Entries(TxPage(b), field, a) = {}
    BY <2>3, <2>4 DEF Entries
  <2> QED
    BY <2>5, SumOfNothing
<1> QED
  BY <1>1, <1>2

\* A page of a transfer moves its amount from the payer to the recipient.
LEMMA TransferMoved ==
    ASSUME NEW b, b.status = "success", b.tx[1].op = "transfer", NEW a \in Account,
           via[b.tx[1]].address \in Account, b.tx[1].to \in Account, Packed(b.tx[1].amount) \in Nat
    PROVE  /\ Sum(TxPage(b), 1, a) =
                  IF a = via[b.tx[1]].address THEN Packed(b.tx[1].amount) ELSE 0
           /\ Sum(TxPage(b), 2, a) = IF a = b.tx[1].to THEN Packed(b.tx[1].amount) ELSE 0
<1> DEFINE r == b.tx[1]
           amount == Packed(r.amount)
           from == via[r].address
           log == Moved(Deployment.depositToken, from, r.to, amount)
           seen == DecodeLog(log)
<1>1. Emitted(b) = <<log>>
  BY DEF Emitted
<1>2. /\ seen.contract = "DepositToken" /\ seen.event = "Transfer"
      /\ seen.params[1].label = Label(from) /\ seen.params[2].label = Label(r.to)
      /\ seen.params[3].value = amount
  <2>1. /\ seen.contract = Label(Deployment.depositToken) /\ seen.event = "Transfer"
        /\ seen.params[1].label = Label(from) /\ seen.params[2].label = Label(r.to)
        /\ seen.params[3].value = amount
    BY TransferDecoded
  <2> QED
    BY <2>1, LabelFacts
<1> HIDE DEF log
<1>3. TxPage(b).logs = [i \in {1} |-> seen]
  BY <1>1, LogsOf
<1> HIDE DEF seen
<1>4. /\ \A x \in {1, 2} : Entries(TxPage(b), x, a) =
             {i \in {1} : seen.params[x].label = Label(a)}
      /\ TxPage(b).logs[1] = seen
  BY <1>2, <1>3 DEF Entries
<1>5. /\ Label(from) = Label(a) <=> from = a
      /\ Label(r.to) = Label(a) <=> r.to = a
  BY LabelFacts
<1>6. Entries(TxPage(b), 1, a) = IF a = from THEN {1} ELSE {}
  BY <1>2, <1>4, <1>5
<1>7. Entries(TxPage(b), 2, a) = IF a = r.to THEN {1} ELSE {}
  BY <1>2, <1>4, <1>5
<1>8. TxPage(b).logs[1].params[3].value = amount /\ amount \in Int
  BY <1>2, <1>4
<1>9. Sum(TxPage(b), 1, a) = IF a = from THEN amount ELSE 0
  <2>1. CASE a = from
    <3>1. Entries(TxPage(b), 1, a) = {1} /\ TxPage(b).logs[1].params[3].value \in Int
      BY <1>6, <1>8, <2>1
    <3>2. Sum(TxPage(b), 1, a) = TxPage(b).logs[1].params[3].value
      BY <3>1, SumOfOne
    <3> QED
      BY <1>8, <2>1, <3>2
  <2>2. CASE a # from
    BY <1>6, <2>2, SumOfNothing
  <2> QED
    BY <2>1, <2>2
<1>10. Sum(TxPage(b), 2, a) = IF a = r.to THEN amount ELSE 0
  <2>1. CASE a = r.to
    <3>1. Sum(TxPage(b), 2, a) = TxPage(b).logs[1].params[3].value
      BY <1>7, <1>8, <2>1, SumOfOne
    <3> QED
      BY <1>8, <2>1, <3>1
  <2>2. CASE a # r.to
    BY <1>7, <2>2, SumOfNothing
  <2> QED
    BY <2>1, <2>2
<1> QED
  BY <1>9, <1>10

\* A page of a mint moves its amount to the recipient, and from no wallet.
LEMMA MintMoved ==
    ASSUME NEW b, b.status = "success", b.tx[1].op = "mint", NEW a \in Account,
           b.tx[1].to \in Account, Packed(b.tx[1].amount) \in Nat
    PROVE  /\ Sum(TxPage(b), 1, a) = 0
           /\ Sum(TxPage(b), 2, a) = IF a = b.tx[1].to THEN Packed(b.tx[1].amount) ELSE 0
<1> DEFINE r == b.tx[1]
           amount == Packed(r.amount)
           D == Deployment
           log1 == Moved(D.reserveLedger, Zero, D.tokenHandler, amount)
           log2 == Log(D.reserveLedger, "Minted", <<"uint256", "address", "address">>,
                       <<D.tokenHandler, D.tokenHandler>>, <<amount>>)
           log3 == Log(D.reserveLedger, "Approval", <<"address", "address", "uint256">>,
                       <<D.tokenHandler, D.depositToken>>, <<amount>>)
           log4 == Moved(D.reserveLedger, D.tokenHandler, D.depositToken, amount)
           log5 == Moved(D.depositToken, Zero, r.to, amount)
           log6 == Log(D.depositToken, "Wrapped", <<"uint256", "address", "address">>,
                       <<r.to, D.tokenHandler>>, <<amount>>)
           log7 == Log(D.tokenHandler, "Minted", <<"address", "address", "uint256">>,
                       <<D.depositToken, r.to>>, <<amount>>)
           log8 == Log(D.tokenAuthority, "Mint", <<"address", "address", "address", "uint256">>,
                       <<via[r].address, D.depositToken, r.to>>, <<amount>>)
           Irrelevant(log) ==
               DecodeLog(log).contract # "DepositToken" \/ DecodeLog(log).event # "Transfer"
           seen == DecodeLog(log5)
<1>1. Emitted(b) = <<log1, log2, log3, log4, log5, log6, log7, log8>>
  BY DEF Emitted
<1>2. /\ Label(D.reserveLedger) # "DepositToken" /\ Label(D.tokenHandler) # "DepositToken"
      /\ Label(D.tokenAuthority) # "DepositToken"
  BY LabelFacts
<1>3. Irrelevant(log1) /\ Irrelevant(log4)
  BY <1>2, TransferDecoded
<1>4. ASSUME NEW contract, NEW name, NEW types, NEW x, NEW y, name # "Unknown", name # "Transfer"
      PROVE  Irrelevant(Log(contract, name, types, <<x, y>>, <<amount>>))
  <2>1. <<x, y>> \in Seq({x, y})
    OBVIOUS
  <2> QED
    BY <1>4, <2>1, OtherEvents
<1>5. Irrelevant(log2) /\ Irrelevant(log3) /\ Irrelevant(log6) /\ Irrelevant(log7)
  BY <1>4
<1>6. Irrelevant(log8)
  <2> DEFINE indexed == <<via[r].address, D.depositToken, r.to>>
  <2>1. indexed \in Seq({via[r].address, D.depositToken, r.to})
    OBVIOUS
  <2> HIDE DEF indexed
  <2>2. Irrelevant(Log(D.tokenAuthority, "Mint", <<"address", "address", "address", "uint256">>,
                       indexed, <<amount>>))
    BY <2>1, OtherEvents
  <2> QED
    BY <2>2 DEF indexed
<1>7. /\ seen.contract = "DepositToken" /\ seen.event = "Transfer"
      /\ seen.params[1].label = "0x0000" /\ seen.params[2].label = Label(r.to)
      /\ seen.params[3].value = amount
  <2>1. /\ seen.contract = Label(D.depositToken) /\ seen.event = "Transfer"
        /\ seen.params[1].label = Label(Zero) /\ seen.params[2].label = Label(r.to)
        /\ seen.params[3].value = amount
    BY TransferDecoded
  <2> QED
    BY <2>1, LabelFacts
<1> HIDE DEF log1, log2, log3, log4, log5, log6, log7, log8
<1> DEFINE logs == TxPage(b).logs
<1>8. /\ DOMAIN logs = 1 .. 8
      /\ logs[1] = DecodeLog(log1) /\ logs[2] = DecodeLog(log2) /\ logs[3] = DecodeLog(log3)
      /\ logs[4] = DecodeLog(log4) /\ logs[5] = seen /\ logs[6] = DecodeLog(log6)
      /\ logs[7] = DecodeLog(log7) /\ logs[8] = DecodeLog(log8)
  <2> DEFINE emitted == <<log1, log2, log3, log4, log5, log6, log7, log8>>
  <2>1. logs = [i \in DOMAIN emitted |-> DecodeLog(emitted[i])]
    BY <1>1, LogsOf
  <2> HIDE DEF logs
  <2>2. DOMAIN emitted = 1 .. 8
    OBVIOUS
  <2> QED
    BY <2>1, <2>2
<1> HIDE DEF logs, seen
<1>9. ASSUME NEW i \in 1 .. 8, i # 5
      PROVE  logs[i].contract # "DepositToken" \/ logs[i].event # "Transfer"
  <2>1. i \in {1, 2, 3, 4, 6, 7, 8}
    BY <1>9
  <2> QED
    BY <1>3, <1>5, <1>6, <1>8, <2>1
<1>10. \A x \in {1, 2} : Entries(TxPage(b), x, a) = {i \in {5} : seen.params[x].label = Label(a)}
  BY <1>7, <1>8, <1>9 DEF Entries, logs
<1>11. "0x0000" # Label(a) /\ (Label(r.to) = Label(a) <=> r.to = a)
  BY LabelFacts
<1>12. Entries(TxPage(b), 1, a) = {}
  BY <1>7, <1>10, <1>11
<1>13. Entries(TxPage(b), 2, a) = IF a = r.to THEN {5} ELSE {}
  BY <1>7, <1>10, <1>11
<1>14. TxPage(b).logs[5].params[3].value = amount /\ amount \in Int
  BY <1>7, <1>8 DEF logs
<1>15. Sum(TxPage(b), 1, a) = 0
  BY <1>12, SumOfNothing
<1>16. Sum(TxPage(b), 2, a) = IF a = r.to THEN amount ELSE 0
  BY <1>13, <1>14, SumOfOne, SumOfNothing
<1> QED
  BY <1>15, <1>16

-----------------------------------------------------------------------------
(* The tables of functions.                                                 *)

\* What is sent for each operation.
LEMMA SentFor ==
    ASSUME NEW b
    PROVE  LET r == b.tx[1]
               t == Transaction(b)
           IN  /\ r.op = "mint" =>
                      /\ t.selector = MintSignature
                      /\ t.args = <<Deployment.depositToken, r.to, Packed(r.amount)>>
               /\ r.op = "transfer" =>
                      t.selector = TransferSignature /\ t.args = <<r.to, Packed(r.amount)>>
               /\ r.op = "authorize" =>
                      /\ t.selector = AuthorizeSignature
                      /\ t.args = <<AuthorizedPolicy[b.tx[2]], r.to, TRUE>>
<1> DEFINE r == b.tx[1]
<1>1. CASE r.op = "mint"
  BY <1>1 DEF Transaction, Call
<1>2. CASE r.op = "transfer"
  BY <1>2 DEF Transaction, Call
<1>3. CASE r.op = "authorize"
  BY <1>3 DEF Transaction, Call
<1> QED
  BY <1>1, <1>2, <1>3

\* The method shown is the operation that was posted.
LEMMA MethodShown ==
    ASSUME NEW b, b.tx[1].op \in {"mint", "transfer", "authorize"}
    PROVE  MethodName(Transaction(b).selector) = b.tx[1].op
<1> DEFINE burn == <<"burn", <<"address", "uint256">>>>
           sent == Transaction(b).selector
<1>1. /\ MintSignature # TransferSignature /\ MintSignature # AuthorizeSignature
      /\ TransferSignature # AuthorizeSignature
      /\ burn # MintSignature /\ burn # TransferSignature /\ burn # AuthorizeSignature
  <2>1. /\ MintSignature[1] = "mint" /\ TransferSignature[1] = "transfer"
        /\ AuthorizeSignature[1] = "modifyPolicyWhitelist" /\ burn[1] = "burn"
    BY DEF MintSignature, TransferSignature, AuthorizeSignature
  <2> QED
    BY <2>1
<1>2. Selectors = {<<MintSignature, "mint">>, <<burn, "burn">>, <<TransferSignature, "transfer">>,
                   <<AuthorizeSignature, "authorize">>}
  BY DEF Selectors
<1> HIDE DEF burn, sent
<1>3. ASSUME NEW sig, NEW name, <<sig, name>> \in Selectors, sent = sig,
             \A s \in Selectors : s[1] = sig => s = <<sig, name>>
      PROVE  MethodName(sent) = name
  <2>1. \E s \in Selectors : s[1] = sent
    BY <1>3
  <2>2. (CHOOSE s \in Selectors : s[1] = sent) = <<sig, name>>
    BY <1>3, <2>1
  <2>3. MethodName(sent) = (CHOOSE s \in Selectors : s[1] = sent)[2]
    BY <2>1 DEF MethodName
  <2>4. <<sig, name>>[2] = name
    OBVIOUS
  <2> QED
    BY <2>2, <2>3, <2>4
<1>4. /\ \A s \in Selectors : s[1] = MintSignature => s = <<MintSignature, "mint">>
      /\ \A s \in Selectors : s[1] = TransferSignature => s = <<TransferSignature, "transfer">>
      /\ \A s \in Selectors : s[1] = AuthorizeSignature => s = <<AuthorizeSignature, "authorize">>
  BY <1>1, <1>2
<1>5. CASE b.tx[1].op = "mint"
  <2>1. sent = MintSignature
    BY <1>5, SentFor DEF sent
  <2> QED
    BY <1>2, <1>3, <1>4, <1>5, <2>1 DEF sent
<1>6. CASE b.tx[1].op = "transfer"
  <2>1. sent = TransferSignature
    BY <1>6, SentFor DEF sent
  <2> QED
    BY <1>2, <1>3, <1>4, <1>6, <2>1 DEF sent
<1>7. CASE b.tx[1].op = "authorize"
  <2>1. sent = AuthorizeSignature
    BY <1>7, SentFor DEF sent
  <2> QED
    BY <1>2, <1>3, <1>4, <1>7, <2>1 DEF sent
<1> QED
  BY <1>5, <1>6, <1>7

\* A call is decoded by the one function with its signature.
LEMMA InputDecoded ==
    ASSUME NEW call, NEW f \in Functions, SignatureOf(f) = call.selector, NEW i \in DOMAIN f.inputs
    PROVE  /\ i \in DOMAIN DecodeInput(call)
           /\ DecodeInput(call)[i] = Param(f.inputs[i], call.args[i])
<1> DEFINE known == {g \in Functions : SignatureOf(g) = call.selector}
<1>1. \A g \in Functions : g.name = f.name => g = f
  BY DEF Functions, Shape
<1>2. \A g \in known : g.name = f.name
  BY DEF SignatureOf
<1>3. known = {f}
  BY <1>1, <1>2
<1>4. (CHOOSE g \in known : TRUE) = f /\ known # {}
  BY <1>3
<1>5. DecodeInput(call) = [j \in DOMAIN f.inputs |-> Param(f.inputs[j], call.args[j])]
  BY <1>4 DEF DecodeInput
<1> QED
  BY <1>5

\* The page shows the recipient.
LEMMA RecipientShown ==
    ASSUME NEW b, b.tx[1].op \in {"mint", "transfer", "authorize"}
    PROVE  \E i \in DOMAIN DecodeInput(Transaction(b)) :
               DecodeInput(Transaction(b))[i].label = Label(b.tx[1].to)
<1> DEFINE r == b.tx[1]
           t == Transaction(b)
<1>1. ASSUME NEW f \in Functions, SignatureOf(f) = t.selector, NEW i \in DOMAIN f.inputs,
             f.inputs[i].type = "address", t.args[i] = r.to
      PROVE  \E j \in DOMAIN DecodeInput(t) : DecodeInput(t)[j].label = Label(r.to)
  <2>1. i \in DOMAIN DecodeInput(t) /\ DecodeInput(t)[i] = Param(f.inputs[i], r.to)
    BY <1>1, InputDecoded
  <2>2. Param(f.inputs[i], r.to).label = Label(r.to)
    BY <1>1, ParamFacts
  <2> QED
    BY <2>1, <2>2
<1> HIDE DEF t
<1>2. CASE r.op = "mint"
  <2> DEFINE inputs == <<In("stablecoin", "address"), In("to", "address"), In("amount", "uint256")>>
             f == Shape("mint", inputs)
  <2>1. f \in Functions /\ f.name = "mint" /\ f.inputs = inputs
    BY DEF Functions, Shape
  <2>2. /\ DOMAIN inputs = {1, 2, 3}
        /\ inputs[1].type = "address" /\ inputs[2].type = "address" /\ inputs[3].type = "uint256"
    BY DEF In
  <2> HIDE DEF f, inputs
  <2>3. SignatureOf(f) = MintSignature
    <3>1. [j \in DOMAIN inputs |-> inputs[j].type] = <<"address", "address", "uint256">>
      BY <2>2
    <3> QED
      BY <2>1, <3>1 DEF SignatureOf, MintSignature
  <2>4. t.selector = MintSignature /\ t.args[2] = r.to
    <3>1. t.selector = MintSignature /\ t.args = <<Deployment.depositToken, r.to, Packed(r.amount)>>
      BY <1>2, SentFor DEF t
    <3> QED
      BY <3>1
  <2> QED
    BY <1>1, <2>1, <2>2, <2>3, <2>4 DEF t
<1>3. CASE r.op = "transfer"
  <2> DEFINE inputs == <<In("to", "address"), In("amount", "uint256")>>
             f == Shape("transfer", inputs)
  <2>1. f \in Functions /\ f.name = "transfer" /\ f.inputs = inputs
    BY DEF Functions, Shape
  <2>2. DOMAIN inputs = {1, 2} /\ inputs[1].type = "address" /\ inputs[2].type = "uint256"
    BY DEF In
  <2> HIDE DEF f, inputs
  <2>3. SignatureOf(f) = TransferSignature
    <3>1. [j \in DOMAIN inputs |-> inputs[j].type] = <<"address", "uint256">>
      BY <2>2
    <3> QED
      BY <2>1, <3>1 DEF SignatureOf, TransferSignature
  <2>4. t.selector = TransferSignature /\ t.args[1] = r.to
    <3>1. t.selector = TransferSignature /\ t.args = <<r.to, Packed(r.amount)>>
      BY <1>3, SentFor DEF t
    <3> QED
      BY <3>1
  <2> QED
    BY <1>1, <2>1, <2>2, <2>3, <2>4 DEF t
<1>4. CASE r.op = "authorize"
  <2> DEFINE inputs == <<In("policyId", "uint64"), In("account", "address"), In("allowed", "bool")>>
             f == Shape("modifyPolicyWhitelist", inputs)
  <2>1. f \in Functions /\ f.name = "modifyPolicyWhitelist" /\ f.inputs = inputs
    BY DEF Functions, Shape
  <2>2. /\ DOMAIN inputs = {1, 2, 3}
        /\ inputs[1].type = "uint64" /\ inputs[2].type = "address" /\ inputs[3].type = "bool"
    BY DEF In
  <2> HIDE DEF f, inputs
  <2>3. SignatureOf(f) = AuthorizeSignature
    <3>1. [j \in DOMAIN inputs |-> inputs[j].type] = <<"uint64", "address", "bool">>
      BY <2>2
    <3> QED
      BY <2>1, <3>1 DEF SignatureOf, AuthorizeSignature
  <2>4. t.selector = AuthorizeSignature /\ t.args[2] = r.to
    <3>1. t.selector = AuthorizeSignature /\ t.args = <<AuthorizedPolicy[b.tx[2]], r.to, TRUE>>
      BY <1>4, SentFor DEF t
    <3> QED
      BY <3>1
  <2> QED
    BY <1>1, <2>1, <2>2, <2>3, <2>4 DEF t
<1> QED
  BY <1>2, <1>3, <1>4

-----------------------------------------------------------------------------
(* The chain behind the pages.                                              *)

\* What a block's transaction moved to a wallet, and from it.
Gained(b, a) ==
    LET r == b.tx[1]
    IN  IF b.status = "success" /\ r.op \in {"mint", "transfer"} /\ a = r.to
        THEN Packed(r.amount) ELSE 0

Spent(b, a) ==
    LET r == b.tx[1]
    IN  IF b.status = "success" /\ r.op = "transfer" /\ a = via[r].address
        THEN Packed(r.amount) ELSE 0

\* The last block changed the balances by what its transaction moved; and only Bank A's
\* service takes a mint or an onboarding.
Explained ==
    /\ \A r \in Request : r.op # "transfer" => via[r] = BankA
    /\ Len(blocks) > 1 =>
           \A a \in Account :
               Tip.balance[a] = blocks[Len(blocks) - 1].balance[a] + Gained(Tip, a) - Spent(Tip, a)

\* A new block explains itself.
LEMMA BlockExplained ==
    ASSUME Tip \in BlockSet, NEW r \in Request, via[r] \in Banks, step[r] \in {1, 2}, NEW a \in Account
    PROVE  Block(r).balance[a] = Tip.balance[a] + Gained(Block(r), a) - Spent(Block(r), a)
<1> DEFINE b == Block(r)
           amount == Packed(r.amount)
           from == via[r].address
<1>1. b.tx[1] = r
  BY BlockFacts
<1>2. amount \in Nat /\ Tip.balance[a] \in Nat /\ r.op \in {"mint", "transfer", "authorize"}
  BY RequestFacts DEF BlockSet
<1>3. CASE ~Accepts(Tip, r)
  <2>1. b.status = "reverted" /\ b.balance = Tip.balance
    BY <1>3, BlockParts
  <2> HIDE DEF b
  <2>2. Gained(b, a) = 0 /\ Spent(b, a) = 0
    BY <2>1 DEF Gained, Spent
  <2> QED
    BY <1>2, <2>1, <2>2 DEF b
<1>4. CASE Accepts(Tip, r)
  <2>1. b.status = "success" /\ b.balance = Effect(Tip, r).balance
    BY <1>4, BlockParts
  <2> HIDE DEF b, amount
  <2>2. /\ Gained(b, a) = IF r.op \in {"mint", "transfer"} /\ a = r.to THEN amount ELSE 0
        /\ Spent(b, a) = IF r.op = "transfer" /\ a = from THEN amount ELSE 0
    BY <1>1, <2>1 DEF Gained, Spent, amount
  <2> DEFINE new == Effect(Tip, r).balance[a]
             old == Tip.balance[a]
  <2>3. /\ r.op = "authorize" => new = old
        /\ r.op = "mint" => new = IF a = r.to THEN old + amount ELSE old
        /\ r.op = "transfer" =>
               new = IF from = r.to THEN old
                     ELSE IF a = r.to THEN old + amount
                     ELSE IF a = from THEN old - amount
                     ELSE old
    BY <1>4, EffectParts DEF amount
  <2> HIDE DEF new, old
  <2>4. old \in Nat /\ amount \in Nat
    BY <1>2 DEF old, amount
  <2>5. new = old + Gained(b, a) - Spent(b, a)
    <3>1. CASE r.op = "authorize"
      BY <2>2, <2>3, <2>4, <3>1
    <3>2. CASE r.op = "mint"
      BY <2>2, <2>3, <2>4, <3>2
    <3>3. CASE r.op = "transfer"
      BY <2>2, <2>3, <2>4, <3>3
    <3> QED
      BY <1>2, <3>1, <3>2, <3>3
  <2> QED
    BY <2>1, <2>5 DEF new, old, b
<1> QED
  BY <1>3, <1>4

\* There is nothing to explain at the start.
LEMMA ExplainedStart ==
    ASSUME ClientsInit
    PROVE  Explained
<1>1. Len(blocks) = 1 /\ \A r \in Request : via[r] = BankA
  BY DEF ClientsInit, InterbankInit
<1> QED
  BY <1>1 DEF Explained

\* Every step of every client keeps the tip explained.
LEMMA ExplainedNext ==
    ASSUME CoreInv, Explained, [ClientsNext]_clientsVars
    PROVE  Explained'
<1>1. WorldShape /\ Tip \in BlockSet /\ blocks \in Seq(BlockSet) /\ Len(blocks) \in Nat /\ Len(blocks) >= 1
  BY DEF CoreInv, LedgerInv, Tip
<1>2. \A r \in Request : r.op # "transfer" => via'[r] = BankA
  <2>1. CASE WorldKept \/ \E r \in Request : Mined(r)
    BY <2>1 DEF WorldKept, Mined, Explained
  <2>2. ASSUME NEW r \in Request, RequestMoves(r), NEW q \in Request, q.op # "transfer"
        PROVE  via'[q] = BankA
    <3>1. CASE via' = via
      BY <2>2, <3>1 DEF Explained
    <3>2. CASE via' # via
      <4>1. PICK b \in Banks : via' = [via EXCEPT ![r] = b] /\ RoleAllows(b, r.op)
        BY <2>2, <3>2 DEF RequestMoves
      <4>2. r.op # "transfer" => b = BankA
        <5>1. r.op \in {"mint", "transfer", "authorize"}
          BY RequestFacts
        <5>2. BankB.role = "holder" /\ (b = BankA \/ b = BankB)
          BY DEF BankB, Banks
        <5> QED
          BY <4>1, <5>1, <5>2 DEF RoleAllows
      <4> QED
        BY <1>1, <2>2, <4>1, <4>2 DEF Explained, WorldShape
    <3> QED
      BY <3>1, <3>2
  <2> QED
    BY <2>1, <2>2, WorldMoves DEF CoreInv
<1>3. CASE UNCHANGED <<blocks, ran>> /\ Tip' = Tip
  <2> SUFFICES ASSUME Len(blocks) > 1, NEW a \in Account
               PROVE  Tip.balance[a] = blocks[Len(blocks) - 1].balance[a]
                                           + Gained(Tip, a) - Spent(Tip, a)'
    BY <1>2, <1>3 DEF Explained, Gained
  <2>1. Tip.tx[1] \in Request /\ outcome[Tip.tx[1]] # "idle"
    BY <1>1 DEF CoreInv, LedgerInv, BlockInv, Tip
  <2>2. via'[Tip.tx[1]] = via[Tip.tx[1]]
    BY <2>1, ChainGrows DEF CoreInv
  <2>3. Spent(Tip, a)' = Spent(Tip, a)
    BY <1>3, <2>2 DEF Spent
  <2> QED
    BY <2>3 DEF Explained
<1>4. ASSUME NEW r \in Request, Mined(r), Tip' = Block(r)
      PROVE  Explained'
  <2>1. Block(r) \in BlockSet
    BY <1>1, BlockFacts DEF WorldShape
  <2>2. blocks' = Append(blocks, Block(r)) /\ via' = via
    BY <1>4 DEF Mined
  <2>3. Len(blocks') = Len(blocks) + 1 /\ blocks'[Len(blocks)] = Tip
    BY <1>1, <2>1, <2>2 DEF Tip
  <2>4. Len(blocks') - 1 = Len(blocks)
    BY <1>1, <2>3
  <2> SUFFICES ASSUME NEW a \in Account
               PROVE  Block(r).balance[a] = Tip.balance[a] + Gained(Block(r), a) - Spent(Tip, a)'
    BY <1>2, <1>4, <2>3, <2>4 DEF Explained, Gained
  <2>5. Spent(Tip, a)' = Spent(Block(r), a)
    BY <1>4, <2>2 DEF Spent
  <2>6. Block(r).balance[a] = Tip.balance[a] + Gained(Block(r), a) - Spent(Block(r), a)
    BY <1>1, BlockExplained DEF WorldShape
  <2> QED
    BY <2>5, <2>6
<1> QED
  BY <1>3, <1>4, NewTip

\* The pages explain the chain: the tables of the services, of the contracts and of the
\* explorer fit together for any request.
THEOREM PagesExplain ==
    ClientsSpec => []PagesExplainBalances
<1>1. ClientsInit => Explained
  BY ExplainedStart
<1>2. CoreInv /\ Explained /\ [ClientsNext]_clientsVars => Explained'
  BY ExplainedNext
<1>3. CoreInv /\ Explained => PagesExplainBalances
  <2> SUFFICES ASSUME CoreInv, Explained PROVE PagesExplainBalances
    OBVIOUS
  <2>1. ASSUME NEW k \in 2 .. Len(blocks)
        PROVE  /\ blocks[k].tx[1] \in Request /\ blocks[k].tx[1].op \in {"mint", "transfer", "authorize"}
               /\ blocks[k].tx[1].to \in Account /\ Packed(blocks[k].tx[1].amount) \in Nat
    <3>1. blocks[k].tx[1] \in Request
      BY DEF CoreInv, LedgerInv, BlockInv
    <3> QED
      BY <3>1, RequestFacts
  <2>2. ASSUME NEW row \in BlockRows(0, {})
        PROVE  row.method = row.hash[1].op /\ (row.method # "transfer" => row.from = "Bank A")
    <3>1. PICK k \in 2 .. Len(blocks) :
              \E status \in {"pending", blocks[k].status} : row = Row(blocks[k], status)
      BY <2>2 DEF BlockRows
    <3> DEFINE b == blocks[k]
    <3>2. /\ row.hash = b.tx /\ row.from = Label(via[b.tx[1]].address)
          /\ row.method = MethodName(Transaction(b).selector)
      BY <3>1 DEF Row
    <3>3. row.method = b.tx[1].op
      BY <2>1, <3>2, MethodShown
    <3>4. b.tx[1].op # "transfer" => via[b.tx[1]] = BankA
      BY <2>1 DEF Explained
    <3> QED
      BY <3>2, <3>3, <3>4, LabelFacts
  <2>3. ASSUME Len(blocks) > 1
        PROVE  /\ TxPage(Tip).row.status = Tip.status
               /\ \E p \in DOMAIN TxPage(Tip).decoded :
                      TxPage(Tip).decoded[p].label = Label(Tip.tx[1].to)
    <3>1. Len(blocks) \in Nat
      BY DEF CoreInv, LedgerInv
    <3>2. Tip.tx[1].op \in {"mint", "transfer", "authorize"}
      BY <2>1, <2>3, <3>1 DEF Tip
    <3>3. TxPage(Tip).row.status = Tip.status
      <4>1. TxPage(Tip).row = Row(Tip, Tip.status)
        BY LogsOf
      <4> QED
        BY <4>1 DEF Row
    <3>4. TxPage(Tip).decoded = DecodeInput(Transaction(Tip))
      BY LogsOf
    <3>5. \E i \in DOMAIN DecodeInput(Transaction(Tip)) :
              DecodeInput(Transaction(Tip))[i].label = Label(Tip.tx[1].to)
      BY <3>2, RecipientShown
    <3> QED
      BY <3>3, <3>4, <3>5
  <2>4. ASSUME Len(blocks) > 1, NEW a \in Account
        PROVE  Tip.balance[a] - blocks[Len(blocks) - 1].balance[a]
                   = Sum(TxPage(Tip), 2, a) - Sum(TxPage(Tip), 1, a)
    <3>1. Len(blocks) \in Nat /\ blocks \in Seq(BlockSet)
      BY DEF CoreInv, LedgerInv
    <3> DEFINE r == Tip.tx[1]
               amount == Packed(r.amount)
               gained == Gained(Tip, a)
               spent == Spent(Tip, a)
               now == Tip.balance[a]
               then == blocks[Len(blocks) - 1].balance[a]
    <3>2. /\ r \in Request /\ r.op \in {"mint", "transfer", "authorize"}
          /\ r.to \in Account /\ amount \in Nat
      BY <2>1, <2>4, <3>1 DEF Tip
    <3>3. now = then + gained - spent
      BY <2>4 DEF Explained
    <3>4. now \in Nat /\ then \in Nat /\ Tip.status \in {"success", "reverted"}
      <4>1. Len(blocks) \in 1 .. Len(blocks) /\ Len(blocks) - 1 \in 1 .. Len(blocks)
        BY <2>4, <3>1
      <4>2. Tip \in BlockSet /\ blocks[Len(blocks) - 1] \in BlockSet
        BY <3>1, <4>1, ElementType DEF Tip
      <4> QED
        BY <4>2 DEF BlockSet, Status
    <3>5. via[r].address \in Account
      <4>1. via[r] \in Banks
        BY <3>2 DEF CoreInv, WorldShape
      <4> QED
        BY <4>1, AddressFacts
    <3>6. gained \in Nat /\ spent \in Nat
      BY <3>2 DEF Gained, Spent
    <3>7. Sum(TxPage(Tip), 2, a) = gained /\ Sum(TxPage(Tip), 1, a) = spent
      <4>1. CASE Tip.status = "reverted" \/ r.op = "authorize"
        <5>1. gained = 0 /\ spent = 0
          BY <4>1 DEF Gained, Spent
        <5> QED
          BY <4>1, <5>1, NothingMoved
      <4>2. CASE Tip.status = "success" /\ r.op = "transfer"
        <5>1. /\ gained = IF a = r.to THEN amount ELSE 0
              /\ spent = IF a = via[r].address THEN amount ELSE 0
          BY <4>2 DEF Gained, Spent
        <5>2. /\ Sum(TxPage(Tip), 2, a) = IF a = r.to THEN amount ELSE 0
              /\ Sum(TxPage(Tip), 1, a) = IF a = via[r].address THEN amount ELSE 0
          BY <3>2, <3>5, <4>2, TransferMoved
        <5> QED
          BY <5>1, <5>2
      <4>3. CASE Tip.status = "success" /\ r.op = "mint"
        <5>1. gained = (IF a = r.to THEN amount ELSE 0) /\ spent = 0
          BY <4>3 DEF Gained, Spent
        <5>2. /\ Sum(TxPage(Tip), 2, a) = IF a = r.to THEN amount ELSE 0
              /\ Sum(TxPage(Tip), 1, a) = 0
          BY <3>2, <4>3, MintMoved
        <5> QED
          BY <5>1, <5>2
      <4> QED
        BY <3>2, <3>4, <4>1, <4>2, <4>3
    <3> HIDE DEF gained, spent, now, then
    <3>8. now - then = gained - spent
      BY <3>3, <3>4, <3>6
    <3> QED
      BY <3>7, <3>8 DEF now, then
  <2> QED
    BY <2>2, <2>3, <2>4 DEF PagesExplainBalances
<1> QED
  BY <1>1, <1>2, <1>3, CoreInductive, PTL DEF ClientsSpec

=============================================================================
