----------------------------- MODULE Interbank ------------------------------
(***************************************************************************)
(* The deposit services on the chain, as their clients meet them: a        *)
(* request is posted to whatever listens at a URL, its transactions (see   *)
(* Submission, which DepositService implements) are mined into blocks, and *)
(* the state after a block is what balance and supply calls read.          *)
(***************************************************************************)
EXTENDS Submission, Config, Sequences

CONSTANTS
    Word,           \* the numbers a uint256 can hold: 2^256 in the program
    Surplus,        \* the reserve that seizures may have left uncirculated
    Limits          \* minter allowance, per-transaction limit and reserve cap

\* A request is a record of who makes it, the port it is posted to, and its body.
ASSUME InterbankAssumption ==
    /\ Word \in Nat \ {0}
    /\ Surplus \subseteq Nat
    /\ Limits \in [allowance : Nat, transaction : Nat, reserve : Nat]
    /\ \A r \in Request :
           /\ r.url \in Port /\ r.op \in {"mint", "transfer", "authorize"}
           /\ r.to \in Account /\ r.amount \in Int
           /\ Last[r] = IF r.op = "authorize" THEN 2 ELSE 1

VARIABLES
    holder,         \* holder[p]: the program that listens on port p, if any
    via,            \* via[r]: the bank whose service took the request
    lost,           \* the requests whose transaction will never be mined
    blocks          \* the chain; empty blocks are left out, a block holds one transaction

interbankVars == <<submissionVars, holder, via, lost, blocks>>

Program == {RouterOf(keys) : keys \in SUBSET Keystore} \cup {ServiceOf(b) : b \in Banks}

Genesis(surplus) ==
    [tx |-> <<>>, status |-> "success",
     listed |-> {<<Policies.transfer, BankA.address>>},
     supply |-> 0, reserve |-> surplus, allowance |-> Limits.allowance,
     balance |-> [a \in Account |-> 0]]

InterbankInit ==
    /\ Init
    /\ sure = TRUE
    /\ via = [r \in Request |-> BankA]
    /\ lost = {}
    /\ \E surplus \in Surplus : blocks = <<Genesis(surplus)>>

Tip == blocks[Len(blocks)]

-----------------------------------------------------------------------------
(* What the contracts make of a transaction.                                *)

\* The amount a body names is any integer; Pack writes it modulo the word.
Unpacked(amount) == amount
Packed(amount) == amount % Word

AuthorizedPolicy == <<Policies.transfer, Policies.scMint>>

Accepts(ledger, r) ==
    LET amount == Packed(r.amount)
    IN  \/ r.op = "authorize"
        \/ /\ r.op = "mint"
           /\ amount \in 1 .. ledger.allowance
           /\ amount <= Limits.transaction
           /\ ledger.reserve + amount <= Limits.reserve
           /\ {<<Policies.transfer, r.to>>, <<Policies.scMint, r.to>>} \subseteq ledger.listed
        \/ /\ r.op = "transfer"
           /\ {<<Policies.transfer, via[r].address>>, <<Policies.transfer, r.to>>}
                  \subseteq ledger.listed
           /\ amount <= ledger.balance[via[r].address]

Paid(balance, from, to, amount) ==
    LET left == [balance EXCEPT ![from] = @ - amount]
    IN  [left EXCEPT ![to] = @ + amount]

Effect(ledger, r) ==
    LET amount == Packed(r.amount)
    IN  CASE r.op = "authorize" ->
                [ledger EXCEPT !.listed = @ \cup {<<AuthorizedPolicy[step[r]], r.to>>}]
          [] r.op = "mint" ->
                [ledger EXCEPT !.supply = @ + amount, !.reserve = @ + amount,
                               !.allowance = @ - amount, !.balance[r.to] = @ + amount]
          [] r.op = "transfer" ->
                [ledger EXCEPT !.balance = Paid(@, via[r].address, r.to, amount)]

Block(r) ==
    LET accepted == Accepts(Tip, r)
    IN  [IF accepted THEN Effect(Tip, r) ELSE Tip
            EXCEPT !.tx = <<r, step[r]>>, !.status = IF accepted THEN "success" ELSE "reverted"]

-----------------------------------------------------------------------------
(* A request, from its client's side and the service's.                     *)

AnyoneMay(bank, op) == TRUE
RoleAllows(bank, op) == op \in {"mint", "authorize"} => bank.role = "issuer"

\* The request reaches what listens at its URL: a deposit service of some bank, or a
\* router, which answers 404. The URL does not say which bank answers.
Post(r) ==
    /\ Ask(r)
    /\ \E program \in holder[r.url] :
           \/ /\ program.kind = "deposit"
              /\ RoleAllows(program.bank, r.op)
              /\ outcome' = [outcome EXCEPT ![r] = "open"]
              /\ via' = [via EXCEPT ![r] = program.bank]
           \/ /\ program.kind = "deposit" => ~RoleAllows(program.bank, r.op)
              /\ outcome' = [outcome EXCEPT ![r] = "refused"]
              /\ UNCHANGED via
    /\ UNCHANGED <<holder, lost, blocks>>

\* The connection is refused, or the client's context is cancelled.
PostFails(r) ==
    /\ Ask(r)
    /\ outcome' = [outcome EXCEPT ![r] = "refused"]
    /\ UNCHANGED <<holder, via, lost, blocks>>

\* The connection is closed before the answer.
GiveUpOn(r) == Lose(r) /\ UNCHANGED <<holder, via, lost, blocks>>

Mined(r) ==
    /\ r \notin lost
    /\ Execute(r)
    /\ ran' = ran \cup {<<<<r, step[r]>>, Block(r).status>>}
    /\ blocks' = Append(blocks, Block(r))
    /\ UNCHANGED <<holder, via, lost>>

\* The node drops the request's pending transaction: another request of the bank has
\* replaced it under its nonce, or it went with the pool, or it is left waiting for
\* the nonce of one that did. Nobody tells the service, whose WaitMined polls on.
Drop(r) ==
    /\ outcome[r] = "open"
    /\ ~Ran(r, step[r])
    /\ r \notin lost
    /\ lost' = lost \cup {r}
    /\ Forget
    /\ UNCHANGED <<holder, via, blocks>>

\* The service that took the request is still there to go on with it.
Served(r) == ServiceOf(via[r]) \in holder[r.url]

\* The answer is made of the receipts of the request's own transactions.
OwnReceipts(r) ==
    \A i \in 1 .. Last[r] :
        \E status \in Status : <<<<r, i>>, status>> \in ran /\ told'[r][i] = status

\* WaitMined has the receipt of the transaction the request is at.
ServiceGoesOn(r) ==
    /\ Served(r)
    /\ Ran(r, step[r])
    /\ Advance(r) \/ (Answer(r) /\ OwnReceipts(r))
    /\ UNCHANGED <<holder, via, lost, blocks>>

ServiceFails(r) ==
    /\ Served(r)
    /\ Refuse(r) \/ Lose(r)
    /\ UNCHANGED <<holder, via, lost, blocks>>

-----------------------------------------------------------------------------
(* Properties.                                                              *)

\* A wallet's balance falls only by a transfer that the service of its own bank was
\* asked for, whatever numbers the bodies name: decodeToAmount lets any integer
\* through, and what Pack makes of a negative or an oversized one moves no tokens the
\* wrong way.
OnlyOwnWalletDebited ==
    \A k \in 2 .. Len(blocks), a \in Account :
        LET r == blocks[k].tx[1]
        IN  /\ blocks[k].balance[a] >= 0
            /\ blocks[k].balance[a] < blocks[k - 1].balance[a] =>
                   r.op = "transfer" /\ via[r].address = a
=============================================================================
