# Verification of the Besu interbank deposit-token demo

TLA+ models of the demo's contracts and services, TLC runs on small instances
and TLAPS proofs for every instance. Paths below are relative to the
repository.

## 1. The system

Two banks share a Besu chain. Bank A issues a deposit token (`WFUSD`), Bank B
holds and moves it.

| Part | State it keeps | Operations | Talks to |
|---|---|---|---|
| `AuthRegistry` (`contracts/lib/auth-registry`) | policies: admin, type, parent, members; next id | create a policy, list or unlist an account; `isAuthorized` | asked by both tokens on every movement and mint |
| `ReserveLedger` RL (`contracts/src/v3`) | balances, supply, cap, pause, roles, two policy ids | mint, burn, seize a blocked balance, ERC-20, administration | held as reserve by SC or by a `ReserveStore` |
| `StablecoinTemplateV3` SC | the same, and the migration flag | wrap, unwrap, mint and burn until migrated, seize, complete the migration | moves RL inside its own transactions |
| `TokenAuthority` | minter allowances, limits, handler per token | mint, bridge mint, burn, wrap, unwrap, limits, registration | calls a handler |
| Handlers (wrapped, backed, single), `ReserveStore` | the store of each token | mint, burn, wrap, unwrap for `TokenAuthority` alone | call RL and SC |
| Deposit service (`internal/depositsvc`), one per bank | none between requests; each request runs in a goroutine | mint, authorize, transfer: nonce, gas, sign, broadcast, wait for the receipt | node (JSON-RPC), signing router (HTTP) |
| Signing router (`internal/signrouter`), one per bank | the keys it was started with | sign a hash for a key id | asked by deposit services |
| Besu node | pool, account nonces, receipts | accept, replace, mine, forget | everyone |
| Web UI server (`internal/webui`) | none | proxy to the services (30 s timeout), state page and explorer, read call by call | services, node |
| Deployment (`contracts/scripts`, `contracts/deploy-to-besu.sh`) | what is on the chain; `besu.json` | deploy, configure, hand over, verify, skip | node, through `forge` |
| Demo driver (`internal/demo`) | its child processes, the last supplies it was shown | start routers and services, wait for their ports, the scenario one request after the other, three verdicts, kill what it started | services, Bank A's router |
| Configuration, ABI helpers (`internal/config`, `internal/chainx`) | constants, the environment | banks, ports, addresses; the signatures calls are packed with | all programs |

What is hard here:

* **Concurrency off the chain.** A service takes no lock: requests of one bank
  read the same pending nonce, and everything read before a call to the node or
  the router may be stale after it.
* **Failure off the chain.** Clients time out while a transaction is pending,
  an answer of the node is lost, the node forgets its pool, authorize fails
  between its two transactions, a service is pointed at the wrong router.
* **Sequences on the chain.** Transactions are atomic, but two tokens, three
  handlers, two pauses, shared policies, a one-way migration and several admins
  make long sequences of legal calls. Handlers can be switched while their
  reserves are in different places, and one token's controls reach into the
  other's operations.
* **Deployment.** Some forty transactions, computed on a fork of the chain and
  broadcast one by one: the script may die between any two, others use the chain
  meanwhile, and it is run again on what it left.
* **The policy chain.** Decisions are inherited through parents of mixed types.
* **Clients of a moving chain.** The demo and the web UI read it call by call
  while others post; a failed read is shown as a zero, a `<nil>` or nothing. The
  demo takes whatever answers at a port for the service it started, and is
  interrupted or killed at any moment.

`PROJECT.json` lists these hazards line by line, with the properties that would
catch each going wrong.

## 2. The modules

| Module | Models | |
|---|---|---|
| `AuthRegistry` | the registry | a specification of its own, and the base of the next |
| `Stablecoin` | RL and SC with their common base | extends `AuthRegistry`: both tokens ask one registry |
| `TokenAuthority` | `TokenAuthority` and its handlers | extends `Stablecoin`: the whole on-chain system, `Spec` |
| `DepositService` | services, routers, node | `Spec` and `FairSpec` |
| `Deployment` | scripts 01 to 06, `DeployAll`, `DeployDemo` and the shell drivers | a specification of its own |
| `Submission` | the life of a request and of its transactions, as clients may rely on it | the abstract specification `DepositService` implements |
| `Config` | banks, keys, ports, addresses, environment | operators only |
| `Interbank` | requests posted to ports, their transactions on a ledger of blocks | extends `Submission` and `Config` |
| `DemoDriver` | the demo program and the processes it starts | extends `Interbank` |
| `WebUI` | the proxy and the state page | extends `Interbank` |
| `Explorer` | the explorer's decoding and its pages | operators on the blocks of `Interbank` |
| `Clients` | the demo and the console's users on one chain | composes `DemoDriver` and `WebUI`: `ClientsSpec`, `FairClients` |
| `MC…` | instances for TLC | constants only |
| `…Proofs` | theorems | extend the modules they are about |

**On chain: an action is a transaction.** A transaction signed by a user is one
action; its guard is the conjunction of every `require`, modifier and role check
on the way through all the contracts it calls, its effect is the net effect. A
transaction that reverts is a stuttering step. So `WrappedMint` contains the
checks of RL's `mint`, SC's `wrap` and of every `_update` in between
(`MintChecks`, `WrapChecks`, `MayMove`), and the intermediate balance of the
handler, which no other transaction can see, does not appear. The temporary
unblock of `burnFromBlockedAddress` is transient storage of one token: it lifts
the block check of the burn in that token (the action omits it) and not that of
the transfer on RL (`SeizurePayable` keeps it). Policies answer by *reverting*
on an unknown id, so `isBlocked` is `exists(id) /\ ~isAuthorized(id, a)`.
Contracts approve exactly what is spent in the same transaction, so only
approvals by users are state; `ReserveStore` approves its handler for ever, so
the backed handler can always draw on it.

**Off chain: an action is a call.** Each step of `buildSignBroadcast` up to
its next call is an action of the request's goroutine: `Receive` (decode,
`requireRole`), `ReadNonce` (`PendingNonceAt`), `Build` (header and gas: a
failed estimate is replaced by a default), `Sign` (`routerSign` and the
router's `handleSign`), `Broadcast` or `BroadcastRefused`
(`SendTransaction`), `WaitMined` (receipt found; the next of authorize's
transactions, or the answer). `CallFails`, `AnswerLost` and `Abandon` are the
failures. `outcome` is what the request came to: `answered`, `refused` (told of
an error and nothing was sent), or `unsure` (the client went away, the service
died, or the answer to the broadcast was lost). A client cannot tell the last
from `refused`: both are a 400. A transaction carries `by`, the request and
step it came from: a ghost that is not part of its `Hash`.

The node is external. It is modelled from what the service relies on: the
pending nonce skips what is pooled without a gap; a mined nonce and a known
transaction are refused; a pending transaction may be replaced (`MayReplace`)
or may not, which depends on how the node prices zero-fee transactions; an
account's transactions are mined in nonce order with any status; the pool is
lost in a restart. What a transaction does is abstracted to its status.

**Deployment: an action is a broadcast transaction.** A script is a function
from what it reads on the fork to a sequence of transactions (`Transactions`);
`Fork` runs it there and decides between `Start` and `Refuse`; `Broadcast` then
sends the next one with the arguments of the fork, whatever the chain has become
(`BroadcastReverts` if it fails). So a policy id, which the contract returns, is
fixed in `run.id` at the start, and `CreatePolicyElsewhere` can make it stale.
`Crash` ends a run anywhere; `Skip` is `deploy-to-besu.sh` finding the deposit
token's code; `published` says that the services get their `besu.json`. `chain`
is a record of what the scripts set: code, policies, roles, owners, caps,
handlers, limits, allowances. `Issue` is `TokenAuthority.mint` as far as a
deployment matters to it, for coins whose own script is not at work. The proxies
of the tokens are at CREATE2 addresses, so a second creation reverts;
implementation contracts hold no state and are left out; TokenAuthority's proxy
is at a CREATE address, and a second one is out of the instance (`OneAuthority`).

**Clients: an action is a call or a local decision.** The chain of models is
`DepositService` ⇒ `Submission` ⇐ `Clients`. `Submission` has five variables
(how each request stands, which of its transactions it is at, what was mined with
which status, what was answered, whether the node has kept its pool) and one
action per event a client can tell apart. `DepositService` implements it: `open`
is everything between `Receive` and the end, and what is on its chain is `ran`.
`Interbank` extends it, so that the clients are checked against what the services
promise and not against their every call, and gives a transaction its effect: a
block holds the ledger after it (`Accepts` and `Effect` are the net effect of
`TokenAuthority.mint`, `transfer` and `modifyPolicyWhitelist` on the demo
deployment; `Stablecoin` and `TokenAuthority` have the whole of it). A request is
posted to a port; `holder[port]` is the program that listens there, and `via[r]`
the bank whose service took it. Amounts are integers; `Packed` is the ABI's
encoding modulo the word. `Drop` is the node forgetting a transaction, because another
request of the bank replaced it or the pool was lost: `lost` has the requests that
poll for one, which can then neither be mined nor answered.

`DemoDriver` has the steps of `Run` as a sequence, `Script`, and an action for each
kind of step; `Send`, `StopWaiting` and the answer are separate, so that other
clients, the node and an interrupt come in between. `ChildStarts` is a process
binding its port, or never doing so; `Return` runs the deferred kill, and forgets
everything but the printed verdicts; `Interrupt` cancels the context (and may
reach the children, as Ctrl-C does), `Terminate` skips the deferred function. A
failed read is `Nil` where the service had an error, `Absent` where no answer came
(`TokenInfo` dereferences a missing `decimals`, and the connection is closed).
`WebUI`'s `ReadNext` is one call of the state page. `Explorer` is pure: a
signature stands for its hash, `Emitted` is what the contracts emit, `Functions`,
`Events`, `Selectors` what the web UI knows.

Definitions beside the ones they change, such as `ParentUnchecked` beside
`ParentFound`, state a plausible mistake in that line; nothing uses them, they
are what the properties are tried against.

## 3. The runs

| Run | Instance | Shows |
|---|---|---|
| `auth_registry` | 2 accounts, 3 policies of either type under any parents | ids and policies agree; every chain descends (`isAuthorized` ends and never meets an unknown policy); the recursive decision is the reference one (`NearestListingDecides`); an edit flips decisions on one account under policies that inherit the edit, and no other (`DecisionsAreLocal`) |
| `inheritance` | the same | **violation**: the glosses in `AuthRegistry.sol:17` and `:19` say that a grant (a block) anywhere up the chain is sufficient (disqualifying); in a chain of mixed types a nearer listing of the other type overrides it |
| `demo_chain` | what `DeployDemo` leaves behind; on- and offboarding, seizure, pauses, migration, limits, unregistration | every deposit token has its reserve token in the SC contract; every reserve token issued was taken off the minter's allowance |
| `demo_backing` | the same | **violation**: README says the RL supply always equals the circulation; `burnFromBlockedAddress` burns SC and pays the RL out unburned |
| `handlers` | all three handlers, switched and unregistered in between, both tokens mintable, blocks and approvals | balances, allowances and limits stay natural numbers; balances add up; a blocked balance is only ever burned whole, inside nested calls too; the shortfall of the reserve grows only by a mint of SC before the migration, by a minter directly or by TokenAuthority through `SingleTokenHandler`, or by a seizure on RL of the reserve's holder |
| `governance` | two admins, caps, existing, inherited and unknown policy ids, RL paused | the cap holds and an admin stays under policies that inherit or do not exist; a paused RL freezes a migrated SC's circulation |
| `concurrent` | three requests of one bank, two of them identical, calls that fail | an answer reports the request's own transaction; no nonce is skipped |
| `unreliable` | any router for any service, replaced transactions, lost answers, clients that leave, one loss of the pool, Bank B asked to mint; fair | a refused request left nothing behind; a mint-recipient listing has its transfer listing before it; a bank's transactions carry its own signature, and a holder mints nothing; only what ended unsure has a late effect; a request ends, or its transaction was replaced, or the pool was lost; every step is one of `Submission` (`ImplementsSubmission`) |
| `deployment` | a chain started by `DeployDemo`, by `DeployAll` handing over to two admins, or by scripts 01 to 05 for two coins in any order; seven starts, one death, one policy of a stranger, two tokens issued; 05 tried by others than the admin | a registered handler has its roles at once; the reserve keeps its cap though each coin sets it again; no proxy is ever without an admin; tokens get policies made for them, unless one was made under the script; undisturbed, the demo publishes a token whose roles and policies let it be minted and moved; a script that ends has done what `06_Verify` asks |
| `rerun` | `DeployDemo` once, one death | **violation**: a death after the deposit token's creation makes the re-run, which the script calls safe, skip everything else and publish |
| `clients` | the demo's requests, one by a console user (a mint, or a transfer of a negative amount), ports free, taken by an earlier demo, or taken by a router with both keys; `PORT` set or not; a surplus in the reserve or none; a node that may drop a transaction; fair | ports, processes and blocks agree; a wallet is debited only by its own bank, whatever integer is posted; undisturbed, the demo's transactions succeed; Bank B's URL mints nothing; the demo confirms a backing only if there is one, and isolation only if a router refused; it leaves nothing running and every port as it found it; it ends, or waits for a transaction the node dropped; the state page is true of the blocks it was read over; an explorer page accounts for every balance it changes |
| `explorer` | the same | **violation**: the explorer decodes a `Mint` event with three arguments, TokenAuthority emits one with four: a mint is listed as `Unknown` |

Notes on the statements.

* `ResultsAreOwn` is conditional: the node keeps its pool and the first of two
  transactions with one nonce. Otherwise it is false: of three requests with
  one nonce the first is replaced by the second and that, back again, by the
  third, identical to the first, and both report the one transaction.
* `ShortfallOnlyByUnbackedMintOrSeizure` speaks of a step's effect on
  `supply(SC) - reserve`, not of an absolute backing: on a chain that mints SC
  directly the absolute statement is false by design. `CirculationBacked` is the
  absolute statement, on the deployment where it holds.
* `NearestListingDecides` is what the two equations of the registry's comment
  (`AuthRegistry.sol:16` and `:18`) come to; the glosses under them are
  `ListedAnywhereDecides`, which is true of chains of one type and false of mixed
  ones. The deployment's policies have no parents, so the demo never meets the case.
* `TransferListingFirst` says *asked to list*: a reverted first transaction does
  not stop authorize.
* `FinishedIsVerified` relates a script to the check it is followed by. Verify
  asks of a policy id only that it is above 1, so it does not see a policy of a
  stranger's; that is `OwnPolicies`, which is false if one is created between
  the simulation and the broadcast (`raced`). A death before the token's creation
  is not found by `rerun`: there every further run is refused, as the registry's
  address is taken, and nothing is published.
* The script of a second coin sets RL's cap to its own value: `06_Verify` for the
  first coin may then fail, which is why the property speaks of the end of a run.
* `BackingConfirmed` needs the order of the two reads. The supply is read first;
  a mint between the reads raises the second number only, so equal numbers mean
  that there was none. The two are compared as strings: two that could not be read
  are equal, too, which is why the property speaks of numbers.
* `UndisturbedDemoSucceeds`: *undisturbed* says that only the demo's own requests
  are on the chain so far, not that nothing fails or that nobody interrupts.
* `NoMintThroughBankB` and `UndisturbedDemoSucceeds` suppose that `PORT` is not set
  in the demo's environment. The deposit services inherit it and would both listen
  there: with 8402, Bank A's service answers at Bank B's URL. The ports found in the
  instance hold services of the bank whose ports they are (`PortsAsIntended`).
* `StatePageConsistent` allows for zeros, which stand for a failed call, and for
  numbers of different blocks. It rests on the head being read last and the reserve
  after the supply.
* The deposit token's own cap binds `mint` alone. `wrap` does not look at it, so
  `ReserveSupplyCapped` is about RL.

### Bounds

Amounts are 1; supplies and limits are at most 2 and `MaxCirculation` at most 4,
so that a cap is met, an allowance runs out, and one holder has all or a part.
Two or three users suffice for a holder, a blocked holder and an issuer. The
`…Changes`, `Approvals`, `Registrations` and `Recipients` constants restrict
which settings change in an instance; each run turns on what its question needs.
Creation of policies is in the registry's runs; the token runs start with the
policies a deployment made and edit their members. Three requests are the least
for replacement of a replacement and for a stale nonce behind two others; one
loss of the pool suffices, as it empties it. `AbsoluteMax` stands for
`ABSOLUTE_MAX` (`TokenAuthority.sol:39`, 10^15): the code compares with it and
does no other arithmetic on it. In the deployment runs, `Offered` says which
scripts who may start; seven starts are the five scripts, the two of them for a
second coin; one death suffices, as the next run meets what it left; one policy
shifts every later id. On a chain that `DeployDemo` started nobody configures a second
coin, as Bank A does not take the single steps; `DemoUsable` (section 4) has no such
bound.

In the clients' runs the word is 8, so that a negative amount wraps to one the
ledger can hold; `Quarter`, the 250,000 WFUSD of the scenario, is 1, and the
limits admit the demo's mint and a second, small one; `MaxPosts` is 1, as one mint
between any two steps of the demo, or one wrapped transfer, is what its reads and
verdicts can trip over. A console user posts once the wallets are onboarded
(before, the contracts refuse), and the page is looked at after a completed demo
that did not spawn: then the services stay up and everything else is free to run.
At most one read of a page fails. `FoundPorts` and `PortEnv` list what a demo may
find. The node may drop any transaction that is
not mined, with or without another request in sight, which is more than replacement
does. What a request that is told of somebody else's receipt would be answered is
`concurrent`'s and `unreliable`'s question: here an answer has the request's own
receipts (`OwnReceipts`), so three requests of which the last repeats a replaced one
word for word under its nonce are left out. The two binaries are built together, so both are there or
neither.

Deadlock is checked in `DepositService`: `Quiescent` is the one way to stop, and
asks that each request is over or polls. It is checked on the chain, too. It
is not checked in the deployment runs, where the operator may stop and the bounds on
starts end a run, nor in the clients' runs: a demo that has ended and a user who
posts no more leave nothing to do.

### Fairness

`FairSpec` has weak fairness on each request's own steps, as a goroutine runs on
once a call returns, and on mining per account, as the validator produces a
block every period and includes what is executable. Failures, lost answers,
impatience and restarts are not fair: nothing makes them happen. No fairness
makes a replaced transaction mined, or one that waits behind a nonce the node has
lost, which is why `AnsweredOrReplaced` has its other parts. `unreliable` checks it
under `FairSpec`, whose safety part is `Spec`.

`FairClients` is weaker: of the demo's next step, the service that works for its
request, and the node, one goes on (`GoOn`), as each is a process that runs. No
interrupt, no failure, no dropped transaction, no process that comes up and no other
client is fair. The demo's waits end because `waitHealthy` counts its attempts and
because a request whose transaction the node keeps is mined and answered. Nothing ends
the wait for a dropped one: `postJSON` has no timeout and `WaitMined` no deadline, and
another request of the same bank, such as a console mint, suffices to replace it.
`DriverReturns` states that case as its exception (`AwaitsLost`).

## 4. The proofs

All for arbitrary sets of accounts, banks, requests, keys and routers (in the
clients' modules the two banks of the configuration), and arbitrary values of the
bounds, from the named assumptions of the modules.

* `AuthRegistryProofs`. `RegistryTypeCorrect` and `ChainsAreFounded`: the
  invariant is their conjunction, for a parent that exists is below the next id
  because the existing ids are exactly those below it. Then the recursion of
  `isAuthorized` for every registry (`NearestListing`, `LocalDecisions`). A function
  defined by recursion has its defining equation once some function satisfies it. For
  chains the witness is the intersection of the sets closed under parents; for
  decisions it is the reference definition, which obeys the same recursion. Two
  solutions agree because a policy of least id where they differ would have a parent
  where they do not (`LeastOf`, from the well-foundedness of the naturals), which is
  where `ChainsAreFounded` is used.
* `TokenAuthorityProofs`. The inductive invariant is `TypeOK`,
  `SupplyIsSumOfBalances`, `ReserveSupplyCapped`, that admin sets are finite (the
  last-admin check counts them) and `AlwaysAnAdmin`. `TypeCorrect`, `SupplyIsTotal`,
  `ReserveCapped` and `AdminStays` are its parts. One lemma per kind of transaction
  says which balances it may move, under which checks (`LedgerStep`); the action
  properties (`ShortfallTheorem`, `FrozenTheorem`, `PauseTheorem`) follow from it
  step by step. Type correctness is where a missing balance or allowance check would
  show: balances are natural numbers. The total of the balances is a fold over the
  accounts, which the assumption takes to be finite (addresses have 160 bits);
  `Subtotals` gives it for every subset, level by level of their size, again by the
  least counterexample, and `TotalChanges` says that changing one balance changes the
  total by as much.
  Two theorems are about the kind of deployment the demo makes, and state its
  conditions on the constants. `CirculationStaysBacked` needs `WrappedDeployment`:
  a step widens the gap between circulation and the reserve in SC only if a user may
  mint SC or seize reserve tokens, or another handler serves SC (`GapStep`), and
  `Sheltered` carries that none of this is ever so. `IssuanceTheorem` needs
  `IssuedByAllowance`, and `OnlyByAllowance` likewise. Everything else stays open:
  who pauses, blocks, lists, seizes on SC, re-registers or changes limits. Both
  conditions hold of the instance `demo_chain`, whose mutants violate the properties.
* `DepositServiceProofs`. The invariant relates the requests to what they sent:
  a pooled transaction is the current one of a request that waits for it or
  ended unsure, with a nonce that is not on the chain; no two pooled transactions
  share sender and nonce; a mined one was waited for, answered or unsure; a
  request at its second step has its first on the chain. `KeyIsolation`,
  `RefusalIsClean`, `ListingOrder` and `NoLateEffect` follow. The proof uses
  nothing of how a nonce is chosen, so none of the four depends on it.

  Its second part is about the nonces. The pending nonce is chosen as the least one
  that no pooled transaction has, which is a number only if the pool is finite; so
  finiteness is part of the invariant, and `LeastMissing` finds the number by the
  well-foundedness of the naturals. `ServiceTypes` is the type invariant it gives.
  `NoHoles` needs more: while the node has not restarted, an account's pooled nonces
  follow the mined ones without a gap, and every nonce below one that a request has
  read is used, even when others were sent since.
* `DeploymentProofs`. The inductive invariant is `TypeOK` and `CapHolds`. Each
  script is typed piece by piece as a sequence of transactions, so that the next
  transaction of a run is one of ten kinds; one lemma per kind keeps the chain in
  its type and the reserve under its cap. The latter rests on `setMaxSupply`
  looking at the supply at the time of the transaction, not of the fork, and on
  no script changing a supply. `TypeCorrect` and `CapIsKept` are the theorems.

* `ScriptProofs`. What the deployment scripts keep between any two transactions and
  what they achieve. A transaction is *done* when the chain shows its effect.
  `EffectFields` says what each kind does to each field of the chain;
  `TransactionsShape` says of every script that each target is set to one value, that
  what needs a grant comes after it, and that the signer leaves last, and only what
  somebody else administers. From the two, `DoneStays`: no later transaction of a
  script undoes an earlier one. The inductive invariant `ScriptInv` is then `TypeOK`
  and `CapHolds`, what the script at work has done (`Progress`), what it found
  (`Founded`, `Based`), and, as long as nobody raced it, which policy ids are its own
  (`PoliciesMade`, `MintPoliciesOlder`, `ReserveMade`). `Administered`,
  `RegisteredMints` and `PoliciesAreOwn` are its parts, or follow at once, for every
  crash point and for any coins, configurations and number of starts; `FinishVerifies`
  is the action property that a script which runs to its end leaves what `06_Verify`
  asks for. The assumption that a new handler's address is none of the addresses in
  use is what `CREATE` gives.

  `DemoUsable` states `UndisturbedDemoIsUsable` under `DemoDeployment`, the constants
  of `DeployDemo.s.sol` (Bank A administers everything) on a chain where no other
  script deploys the demo's token; `MCDeployment` assumes it of every instance. The
  property is not inductive: the skip of `deploy-to-besu.sh` takes the token's code for
  a whole deployment, so one needs to know that a run which has made the token cannot
  stop before its end. `DemoInv` adds that to `ScriptInv`: a demo token is usable or
  its script is still at work past transaction 8 (`UsableOrAtWork`), its signer
  administers and owns what it made (`SignerAdministers`), and nothing is issued on the
  new reserve (`NothingIssued`, from `RolesFounded` and `IssuedIfRegistered`). Then
  `DemoAccepted`: every transaction after the token's proxy is accepted, whatever
  others do, so that `BroadcastReverts` cannot happen there. What the fork simulated is
  not needed, and a usable token stays usable under every script
  (`BroadcastKeepsUsable`).

* `SubmissionProofs` extends `DepositServiceProofs`' invariant by what tells the
  transactions of different requests apart (`SentOnce`), by the transaction that a
  waiting request still has while the node keeps its pool (`Kept`), and by the
  results it has collected (`ResultsInv`). `AnswersAreOwn` is its last part. With
  it every action of the services maps to an action of `Submission` or to a
  stutter, one lemma for each, and `Implementation` follows: `Spec =>
  ImplementsSubmission`.
* `ClientsProofs`. The invariant has layers, each resting on those before:
  `PortsInv` (a port is as it was found at the start, `found`, unless a process of the
  demo holds it),
  `WorldShape` and `LedgerInv` (each block is what its transaction made of the one
  before; supply and reserve differ by the surplus; balances are natural numbers)
  for the chain; `PageInv` (a number read was that of a block in the period),
  `ToldInv` (what the driver was shown is bounded by the chain), `MintInv` (no
  service of Bank A's anywhere but on its port), `ScenarioInv` and `RanInv` (the
  chain holds what was mined) for one property each. `NothingLeft`, `OwnWallets`, `StatePage`,
  `Backing`, `Isolation`, `ClientsTypes` are unconditional, for every set of console
  requests, every set of ports found, every `PORT`, every word and surplus;
  `OnlyBankAMints` assumes `PortsAsIntended`: nobody put a service of Bank A at
  another port by hand. `DemoSucceeds` (`UndisturbedDemoSucceeds`) assumes also
  `LimitsSuffice`: the amounts fit into a word, and allowance, transaction limit and
  reserve cap admit one mint on the reserve found (as they do in `MCClients`). Its
  `ScenarioInv` follows the order of the calls across driver, services and chain: a
  request that was posted has those before it in the script answered
  (`OneAfterAnother`), an answered one has run all its transactions (`AnsweredRan`),
  an onboarding that ran is on the lists (`OnboardedListed`), the payment was taken
  by Bank B's own service (`PaidByBankB`), and on an undisturbed chain the limits
  are untouched until the mint ran, and its tokens there until the payment did
  (`Prepared`). It needs that the demo's requests are not the console's, which a
  request's `client` says. `ClientsMeetSubmission` (`ClientsSpec => Spec`) is the other
  half of the composition: the clients' model moves a request only as `Submission`
  does, which `Implementation` shows to be all that the services do.
* `ExplorerProofs`. `PagesExplain` (`PagesExplainBalances`), for any requests: what
  each kind of transaction is sent as and emits, looked up in the explorer's tables
  (`MethodShown`, `RecipientShown`, `TransferDecoded`, `OtherEvents`), leaves on its
  page at most one entry that moves deposit tokens of a wallet, so that the sums over
  a page are of no entry or of one (`NothingMoved`, `TransferMoved`, `MintMoved`;
  those are the cases where a fold can be computed without an induction). The
  invariant `Explained` says that the last block changed each balance by just that,
  and that only Bank A's service took a mint or an onboarding, which the role check
  alone ensures; the service that took a request never changes, so a page read later
  still names the right sender.

Model-checked only: liveness under fairness (`AnsweredOrReplaced`, `DriverReturns`),
which is out of the prover's reach. Every invariant and every other action property of
a passing run is stated by a theorem.

## 5. Not modelled

* `reinitialize`, UUPS upgrades, ownership and `permit` of the contracts; an
  unlimited ERC-20 approval, which is not decremented.
* Of the deployment: implementation contracts, a second TokenAuthority, the
  contents of `besu.json` (a skipped run publishes the committed copy, which has
  the addresses of TokenAuthority and the handler right only if Bank A's nonces
  were those of the committed deployment), the metadata checks of `06_Verify`.
* Of the clients: amounts for humans (`fmtWFUSD`, `humanWFUSD`), the token's name and
  symbol, block headers and gas on the explorer's pages, the demo's log lines, static
  files. Two reads whose answers decide nothing (balances before and after) change no
  state and are one step, `ShowBalances`.
* The ledger of `Interbank` has the demo deployment's contracts as they work in
  operation: no pause, block, seizure or change of a limit, which are `TokenAuthority`'s.
  That a seizure has happened shows as `Surplus`.
* The browser page and the manifests: presentation and configuration.
* Besu's consensus: one validator runs the demo chain.

## 6. Plan

Done: the registry, the on-chain system, the deposit service with the node and
the router, the deployment; the abstract specification of the services with its
refinement; their clients on a common chain. Next, in this order:

1. *Composition*: the clients over the whole on-chain system, so that offboarding,
   a pause or a seizure comes between a request and its transaction.
2. *Abstract specification*: two ledgers of wrapped tokens, implemented by the
   migrated SC; its safety part as a theorem.
