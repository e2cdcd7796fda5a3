--------------------------- MODULE ClientsProofs ----------------------------
(***************************************************************************)
(* Proofs about the clients on one chain, for any requests, limits, ports  *)
(* found, surplus and word. The invariant has a part for the ledger, one   *)
(* for the state page, one for the ports, and one for the verdicts.        *)
(***************************************************************************)
EXTENDS Clients, TLAPS

-----------------------------------------------------------------------------
(* The ledger.                                                              *)

BlockSet ==
    [tx : {<<>>} \cup (Request \X {1, 2}), status : Status,
     listed : SUBSET ({"2", "3", "4"} \X Account),
     supply : Nat, reserve : Nat, allowance : Nat, balance : [Account -> Nat]]

\* What a transaction leaves of the ledger it finds: the reserve and the supply
\* grow together, and only the sender of a transfer has less.
GrownBy(new, old, r, payer) ==
    /\ \E more \in Nat : new.supply = old.supply + more /\ new.reserve = old.reserve + more
    /\ \A a \in Account : new.balance[a] < old.balance[a] =>
           r.op = "transfer" /\ payer = a

\* What every request is, and that its packed amount is a natural number.
LEMMA RequestFacts ==
    ASSUME NEW r \in Request
    PROVE  /\ r.url \in Port /\ r.op \in {"mint", "transfer", "authorize"}
           /\ r.to \in Account /\ Packed(r.amount) \in Nat
<1>1. r.amount \in Int /\ Word \in Nat \ {0}
  BY InterbankAssumption
<1>2. Packed(r.amount) \in Nat
  BY <1>1 DEF Packed
<1> QED
  BY <1>2, InterbankAssumption

\* A bank's wallet is an account.
LEMMA AddressFacts ==
    ASSUME NEW b \in Banks
    PROVE  b.address \in Account
BY DEF Banks, BankA, BankB, Account

\* An accepted transaction adds the same to supply and reserve, and takes from its payer only.
LEMMA EffectFacts ==
    ASSUME NEW ledger \in BlockSet, NEW r \in Request, Accepts(ledger, r),
           via[r] \in Banks, step[r] \in {1, 2}
    PROVE  Effect(ledger, r) \in BlockSet /\ GrownBy(Effect(ledger, r), ledger, r, via[r].address)
<1> DEFINE amount == Packed(r.amount)
<1>1. /\ r.op \in {"mint", "transfer", "authorize"} /\ r.to \in Account /\ amount \in Nat
      /\ via[r].address \in Account
  BY RequestFacts, AddressFacts
<1> HIDE DEF amount
<1>2. CASE r.op = "authorize"
  <2>1. AuthorizedPolicy[step[r]] \in {"2", "3", "4"}
    BY DEF AuthorizedPolicy, Policies
  <2> DEFINE listed == ledger.listed \cup {<<AuthorizedPolicy[step[r]], r.to>>}
  <2>2. Effect(ledger, r) = [ledger EXCEPT !.listed = listed]
    BY <1>2 DEF Effect
  <2>3. listed \in SUBSET ({"2", "3", "4"} \X Account)
    BY <1>1, <2>1 DEF BlockSet
  <2> HIDE DEF listed
  <2>4. Effect(ledger, r) \in BlockSet
    BY <2>2, <2>3 DEF BlockSet
  <2>5. GrownBy(Effect(ledger, r), ledger, r, via[r].address)
    <3>1. /\ Effect(ledger, r).supply = ledger.supply + 0
          /\ Effect(ledger, r).reserve = ledger.reserve + 0
          /\ Effect(ledger, r).balance = ledger.balance
      BY <2>2 DEF BlockSet
    <3>2. \A a \in Account : ~(ledger.balance[a] < ledger.balance[a])
      BY DEF BlockSet
    <3> QED
      BY <3>1, <3>2 DEF GrownBy
  <2> QED
    BY <2>4, <2>5
<1>3. CASE r.op = "mint"
  <2> DEFINE supply == ledger.supply + amount
             reserve == ledger.reserve + amount
             allowance == ledger.allowance - amount
             balance == [ledger.balance EXCEPT ![r.to] = ledger.balance[r.to] + amount]
             new == [ledger EXCEPT !.supply = supply, !.reserve = reserve,
                                   !.allowance = allowance, !.balance = balance]
  <2>1. Effect(ledger, r) = new
    BY <1>3 DEF Effect, amount
  <2>2. amount \in 1 .. ledger.allowance
    BY <1>3 DEF Accepts, amount
  <2>3. /\ ledger.supply \in Nat /\ ledger.reserve \in Nat /\ ledger.allowance \in Nat
        /\ ledger.balance \in [Account -> Nat]
    BY DEF BlockSet
  <2>4. /\ supply \in Nat /\ reserve \in Nat /\ allowance \in Nat /\ balance \in [Account -> Nat]
        /\ supply = ledger.supply + amount /\ reserve = ledger.reserve + amount
        /\ \A a \in Account : ~(balance[a] < ledger.balance[a])
    BY <1>1, <2>2, <2>3
  <2> HIDE DEF supply, reserve, allowance, balance
  <2>5. new \in BlockSet
    BY <2>4 DEF BlockSet
  <2>6. /\ new.supply = supply /\ new.reserve = reserve /\ new.balance = balance
    BY DEF BlockSet
  <2>7. GrownBy(new, ledger, r, via[r].address)
    BY <1>1, <2>4, <2>6 DEF GrownBy
  <2> QED
    BY <2>1, <2>5, <2>7
<1>4. CASE r.op = "transfer"
  <2> DEFINE from == via[r].address
             paid == [ledger.balance EXCEPT ![from] = ledger.balance[from] - amount]
             both == [paid EXCEPT ![r.to] = paid[r.to] + amount]
  <2>1. Effect(ledger, r) = [ledger EXCEPT !.balance = both]
    BY <1>4 DEF Effect, Paid, amount
  <2>2. amount <= ledger.balance[from] /\ ledger.balance \in [Account -> Nat]
    BY <1>4 DEF Accepts, amount, BlockSet
  <2>3. paid \in [Account -> Nat]
    BY <1>1, <2>2
  <2>4. both \in [Account -> Nat] /\ \A a \in Account : both[a] < ledger.balance[a] => a = from
    BY <1>1, <2>2, <2>3
  <2> HIDE DEF both
  <2>5. Effect(ledger, r) \in BlockSet
    BY <2>1, <2>4 DEF BlockSet
  <2>6. GrownBy(Effect(ledger, r), ledger, r, via[r].address)
    <3>1. /\ Effect(ledger, r).supply = ledger.supply + 0
          /\ Effect(ledger, r).reserve = ledger.reserve + 0
          /\ Effect(ledger, r).balance = both
      BY <2>1 DEF BlockSet
    <3> QED
      BY <1>4, <2>4, <3>1 DEF GrownBy
  <2> QED
    BY <2>5, <2>6
<1> QED
  BY <1>1, <1>2, <1>3, <1>4

\* So does every block, that of a reverted transaction too.
LEMMA BlockFacts ==
    ASSUME Tip \in BlockSet, NEW r \in Request, via[r] \in Banks, step[r] \in {1, 2}
    PROVE  /\ Block(r) \in BlockSet /\ GrownBy(Block(r), Tip, r, via[r].address)
           /\ Block(r).tx = <<r, step[r]>>
<1> DEFINE accepted == Accepts(Tip, r)
           ledger == IF accepted THEN Effect(Tip, r) ELSE Tip
<1>1. ledger \in BlockSet /\ GrownBy(ledger, Tip, r, via[r].address)
  <2>1. GrownBy(Tip, Tip, r, via[r].address)
    BY DEF GrownBy, BlockSet
  <2> QED
    BY <2>1, EffectFacts
<1>2. Block(r) = [ledger EXCEPT !.tx = <<r, step[r]>>,
                                !.status = IF accepted THEN "success" ELSE "reverted"]
  BY DEF Block
<1> HIDE DEF accepted, ledger
<1>3. <<r, step[r]>> \in Request \X {1, 2}
  OBVIOUS
<1>4. Block(r) \in BlockSet /\ Block(r).tx = <<r, step[r]>>
  BY <1>1, <1>2, <1>3 DEF BlockSet, Status
<1>5. GrownBy(Block(r), Tip, r, via[r].address)
  BY <1>1, <1>2 DEF BlockSet, GrownBy
<1> QED
  BY <1>4, <1>5

-----------------------------------------------------------------------------
(* The script.                                                              *)

\* The demo's script, step by step.
LEMMA ScriptFacts ==
    /\ Len(Script) = 18
    /\ \A i \in 1 .. 18 :
           /\ Script[i].do = "spawn" => i = 2
           /\ Script[i].do = "read" => (i = 14 /\ Script[i].nth = 1) \/ (i = 15 /\ Script[i].nth = 2)
           /\ Script[i].do = "reconcile" => i = 16
           /\ Script[i].do = "holderMint" => i = 17
           /\ Script[i].do = "post" => Script[i].request \in DemoRequest
BY DEF Script, Doing, Healthy, Posting, DemoRequest

-----------------------------------------------------------------------------
(* The ports.                                                               *)

Holders == {Unset} \cup {{p} : p \in Program}

DriverShape ==
    /\ at \in 1 .. 19
    /\ result \in {"running", "complete", "error", "killed"}
    /\ child \in [Child -> {"none", "started", "serving", "killed"}]
    /\ portEnv \in PortEnv /\ found \in FoundPorts
    /\ Running /\ at <= 2 => \A c \in Child : child[c] = "none"
    /\ result \in {"complete", "error"} => \A c \in Child : ~Killed(c)

\* Where no process of the demo serves, a port is as it was found; where one does, the
\* port was free.
PortsAsFound ==
    /\ \A c \in Child : child[c] = "serving" /\ PortOfChild(c) # Other =>
           found[PortOfChild(c)] = {} /\ holder[PortOfChild(c)] = {Serves[c]}
    /\ \A p \in Port : (\A c \in Child : child[c] = "serving" => PortOfChild(c) # p) =>
           holder[p] = found[p]

PortsInv ==
    /\ DriverShape
    /\ holder \in [Port -> Holders]
    /\ PortsAsFound

\* The ports of the two banks.
LEMMA PortFacts ==
    /\ Port = {7401, 7402, 8401, 8402} /\ Other = 0
    /\ BankA.router = 7401 /\ BankB.router = 7402 /\ BankA.deposit = 8401 /\ BankB.deposit = 8402
    /\ BankA # BankB /\ Banks = {BankA, BankB}
<1>1. /\ BankA.router = 7401 /\ BankB.router = 7402 /\ BankA.deposit = 8401 /\ BankB.deposit = 8402
  BY DEF BankA, BankB
<1>2. Banks = {BankA, BankB} /\ Port = {7401, 7402, 8401, 8402}
  BY <1>1 DEF Banks, Port
<1> QED
  BY <1>1, <1>2 DEF Other

\* Where each process of the demo listens.
LEMMA ChildPortFacts ==
    ASSUME portEnv \in PortEnv, NEW c \in Child
    PROVE  /\ PortOfChild(c) \in Port \cup {Other}
           /\ Serves[c] \in Program
           /\ portEnv = Unset /\ Serves[c] = ServiceOf(BankA) => PortOfChild(c) = BankA.deposit
<1>1. ASSUME NEW env \in {Unset} \cup {{p} : p \in Port \cup {Other}}, NEW default \in Port
      PROVE  PortOf(env, default) \in Port \cup {Other}
  <2>1. CASE env = Unset
    BY <2>1 DEF PortOf
  <2>2. CASE env # Unset
    <3>1. \E p \in Port \cup {Other} : p \in env
      BY <2>2
    <3>2. (CHOOSE p \in Port \cup {Other} : p \in env) \in Port \cup {Other}
      BY <3>1
    <3> QED
      BY <2>2, <3>2 DEF PortOf
  <2> QED
    BY <2>1, <2>2
<1>2. portEnv \in {Unset} \cup {{p} : p \in Port \cup {Other}}
  BY DriverAssumption
<1>3. c \in {1, 2, 3, 4}
  BY DEF Child
<1>4. PortOfChild(c) \in Port \cup {Other}
  <2>1. {BankA.router} \in {Unset} \cup {{p} : p \in Port \cup {Other}}
    BY PortFacts
  <2>2. {BankB.router} \in {Unset} \cup {{p} : p \in Port \cup {Other}}
    BY PortFacts
  <2>3. /\ BankA.router \in Port /\ BankA.deposit \in Port /\ BankB.deposit \in Port
    BY PortFacts
  <2>4. CASE c = 1
    BY <1>1, <2>1, <2>3, <2>4 DEF PortOfChild
  <2>5. CASE c = 2
    BY <1>1, <2>2, <2>3, <2>5 DEF PortOfChild
  <2>6. CASE c = 3
    BY <1>1, <1>2, <2>3, <2>6 DEF PortOfChild
  <2>7. CASE c = 4
    BY <1>1, <1>2, <2>3, <2>7 DEF PortOfChild
  <2> QED
    BY <1>3, <2>4, <2>5, <2>6, <2>7
<1>5. Serves[c] \in Program
  <2>1. {BankA.keyId} \in SUBSET Keystore /\ {BankB.keyId} \in SUBSET Keystore
    BY DEF Keystore
  <2> QED
    BY <1>3, <2>1, PortFacts DEF Serves, Program
<1>6. ASSUME portEnv = Unset, Serves[c] = ServiceOf(BankA)
      PROVE  PortOfChild(c) = BankA.deposit
  <2>1. c # 1 /\ c # 2
    BY <1>6 DEF Serves, RouterOf, ServiceOf
  <2>2. c # 4
    <3>1. BankA.id # BankB.id
      BY DEF BankA, BankB
    <3> QED
      BY <1>6, <3>1 DEF Serves, ServiceOf
  <2> QED
    BY <1>3, <1>6, <2>1, <2>2 DEF PortOfChild, PortOf
<1> QED
  BY <1>4, <1>5, <1>6

\* The ports are as found at the start.
LEMMA PortsInit ==
    DriverInit => PortsInv
<1> SUFFICES ASSUME DriverInit PROVE PortsInv
  OBVIOUS
<1>1. DriverShape
  BY DEF DriverInit, DriverShape, Running
<1>2. holder \in FoundPorts /\ holder \in [Port -> Holders]
  BY DriverAssumption DEF DriverInit, Holders
<1>3. PortsAsFound
  BY DEF DriverInit, PortsAsFound
<1> QED
  BY <1>1, <1>2, <1>3 DEF PortsInv

\* The processes are killed: every port is again as it was found.
LEMMA PortsDie ==
    ASSUME PortsInv, ChildrenDie, UNCHANGED <<portEnv, found>>
    PROVE  /\ child' \in [Child -> {"none", "started", "serving", "killed"}]
           /\ \A c \in Child : ~Killed(c)' /\ (child[c] = "none" => child'[c] = "none")
           /\ holder' \in [Port -> Holders]
           /\ PortsAsFound'
<1>1. /\ child \in [Child -> {"none", "started", "serving", "killed"}]
      /\ holder \in [Port -> Holders]
  BY DEF PortsInv, DriverShape
<1>2. /\ child' = [c \in Child |-> IF Killed(c) THEN "killed" ELSE child[c]]
      /\ holder' = [p \in Port |->
             IF \E c \in Child : child[c] = "serving" /\ PortOfChild(c) = p THEN {} ELSE holder[p]]
  BY DEF ChildrenDie
<1>3. /\ child' \in [Child -> {"none", "started", "serving", "killed"}]
      /\ \A c \in Child : child'[c] \notin {"started", "serving"} /\ (child[c] = "none" => child'[c] = "none")
  BY <1>1, <1>2 DEF Killed
<1>4. holder' \in [Port -> Holders]
  BY <1>1, <1>2 DEF Holders, Unset
<1> PortsAsFound
  BY DEF PortsInv
<1>5. ASSUME NEW p \in Port PROVE holder'[p] = found[p]
  <2>1. p # Other
    BY PortFacts
  <2>2. CASE \E c \in Child : child[c] = "serving" /\ PortOfChild(c) = p
    BY <1>2, <2>1, <2>2 DEF PortsAsFound
  <2>3. CASE ~\E c \in Child : child[c] = "serving" /\ PortOfChild(c) = p
    BY <1>2, <2>3 DEF PortsAsFound
  <2> QED
    BY <2>2, <2>3
<1>6. PortsAsFound'
  BY <1>3, <1>5 DEF PortsAsFound
<1> QED
  BY <1>3, <1>4, <1>6 DEF Killed

\* A step that touches neither processes nor ports keeps them.
LEMMA PortsStay ==
    ASSUME PortsInv, UNCHANGED <<child, holder, portEnv, found>>
    PROVE  /\ child' \in [Child -> {"none", "started", "serving", "killed"}]
           /\ holder' \in [Port -> Holders]
           /\ PortsAsFound'
<1>1. \A c \in Child : PortOfChild(c)' = PortOfChild(c)
  BY DEF PortOfChild
<1> PortsAsFound
  BY DEF PortsInv
<1>2. PortsAsFound'
  BY <1>1 DEF PortsAsFound
<1> QED
  BY <1>2 DEF PortsInv, DriverShape

\* A process takes a port that nobody holds, so nobody held it at the start.
LEMMA PortsChildStarts ==
    ASSUME PortsInv, NEW c \in Child, ChildStarts(c)
    PROVE  PortsInv'
<1>1. /\ child[c] = "started" /\ child' = [child EXCEPT ![c] = "serving"]
      /\ UNCHANGED <<at, result, portEnv, found>>
      /\ DriverShape /\ holder \in [Port -> Holders]
  BY DEF PortsInv, ChildStarts, driverConfig
<1> DEFINE port == PortOfChild(c)
<1>2. /\ port = Other \/ holder[port] = {}
      /\ holder' = IF port = Other THEN holder ELSE [holder EXCEPT ![port] = {Serves[c]}]
  BY DEF ChildStarts, Taken
<1>3. /\ port \in Port \cup {Other} /\ Serves[c] \in Program
      /\ \A d \in Child : PortOfChild(d)' = PortOfChild(d) /\ PortOfChild(d) \in Port \cup {Other}
  <2>1. \A d \in Child : PortOfChild(d)' = PortOfChild(d)
    BY <1>1 DEF PortOfChild
  <2> QED
    BY <1>1, <2>1, ChildPortFacts DEF DriverShape
<1> HIDE DEF port
<1>4. holder' \in [Port -> Holders]
  BY <1>1, <1>2, <1>3 DEF Holders
<1>5. DriverShape'
  <2>1. child' \in [Child -> {"none", "started", "serving", "killed"}]
    BY <1>1 DEF DriverShape
  <2>2. ~(Running /\ at <= 2) /\ result \notin {"complete", "error"}
    BY <1>1 DEF DriverShape, Killed
  <2> QED
    BY <1>1, <2>1, <2>2 DEF DriverShape, Running
<1> PortsAsFound
  BY DEF PortsInv
<1>6. port # Other => \A d \in Child : child[d] = "serving" => PortOfChild(d) # port
  BY <1>2 DEF PortsAsFound
<1>7. port # Other => found[port] = {}
  BY <1>2, <1>3, <1>6 DEF PortsAsFound
<1>8. \A d \in Child : child'[d] = "serving" <=> (d = c \/ child[d] = "serving")
  BY <1>1 DEF DriverShape
<1>9. PortOfChild(c) = port
  BY DEF port
<1>10. ASSUME NEW d \in Child, child'[d] = "serving", PortOfChild(d) # Other
      PROVE  found[PortOfChild(d)] = {} /\ holder'[PortOfChild(d)] = {Serves[d]}
  <2>1. CASE d = c
    BY <1>1, <1>2, <1>3, <1>7, <1>9, <1>10, <2>1
  <2>2. CASE d # c
    <3>1. child[d] = "serving"
      BY <1>8, <1>10, <2>2
    <3>2. found[PortOfChild(d)] = {} /\ holder[PortOfChild(d)] = {Serves[d]}
      BY <1>10, <3>1 DEF PortsAsFound
    <3>3. port # Other => PortOfChild(d) # port
      BY <1>6, <3>1
    <3> QED
      BY <1>1, <1>2, <1>3, <1>10, <3>2, <3>3
  <2> QED
    BY <2>1, <2>2
<1>11. ASSUME NEW p \in Port, \A d \in Child : child'[d] = "serving" => PortOfChild(d) # p
       PROVE  holder'[p] = found[p]
  <2>1. p # port
    BY <1>8, <1>9, <1>11
  <2>2. holder'[p] = holder[p]
    BY <1>1, <1>2, <1>3, <2>1
  <2>3. \A d \in Child : child[d] = "serving" => PortOfChild(d) # p
    BY <1>8, <1>11
  <2> QED
    BY <2>2, <2>3 DEF PortsAsFound
<1>12. PortsAsFound'
  BY <1>1, <1>3, <1>10, <1>11 DEF PortsAsFound
<1> QED
  BY <1>4, <1>5, <1>12 DEF PortsInv

\* What the driver's steps do to its place in the script and to the processes.
LEMMA DriverMoves ==
    ASSUME at \in 1 .. 19, DriverStep \/ Interrupt \/ Terminate
    PROVE  /\ Running /\ UNCHANGED <<portEnv, found>>
           /\ \/ /\ at' \in {at, at + 1} /\ at' <= 19 /\ result' = result
                 /\ UNCHANGED <<child, holder>> \/ ChildrenDie
              \/ at = 2 /\ Spawn
              \/ result' \in {"complete", "error"} /\ at' = 1 /\ ChildrenDie
              \/ result' = "killed" /\ at' = 1 /\ UNCHANGED <<child, holder>>
<1> USE DEF Running, driverConfig
<1>1. ASSUME NEW how, Return(how)
      PROVE  UNCHANGED <<portEnv, found>> /\ result' = how /\ at' = 1 /\ ChildrenDie
  BY <1>1 DEF Return, Gone, KillDeferred
<1>2. ASSUME NEW r, Send(r) \/ StopWaiting(r)
      PROVE  UNCHANGED <<at, result, portEnv, found, child, holder>>
  BY <1>2 DEF Send, StopWaiting, Post, PostFails, GiveUpOn, driverVars
<1>3. ASSUME Step
      PROVE  UNCHANGED <<portEnv, found>> /\ at' = at + 1 /\ result' = result /\ UNCHANGED <<child, holder>>
  BY <1>3 DEF Step
<1>4. ASSUME NEW what, Does(what) PROVE Running /\ at \in 1 .. 18 /\ Script[at].do = what
  BY <1>4, ScriptFacts DEF Does
<1>5. CASE LoadDeployment
  BY <1>1, <1>3, <1>4, <1>5 DEF LoadDeployment, Proceed
<1>6. CASE Spawn
  BY <1>4, <1>6, ScriptFacts DEF Spawn
<1>7. CASE WaitHealthy
  BY <1>1, <1>3, <1>4, <1>7 DEF WaitHealthy, Proceed
<1>8. CASE GetInfo
  BY <1>1, <1>3, <1>4, <1>8 DEF GetInfo, Proceed
<1>9. CASE ShowBalances
  BY <1>3, <1>4, <1>9 DEF ShowBalances, Proceed
<1>10. CASE ReadSupply
  BY <1>3, <1>4, <1>10 DEF ReadSupply
<1>11. CASE PostAndWait
  BY <1>1, <1>2, <1>3, <1>4, <1>11 DEF PostAndWait, Proceed
<1>12. CASE Reconcile
  BY <1>3, <1>4, <1>12 DEF Reconcile
<1>13. CASE TryHolderMint
  BY <1>2, <1>3, <1>4, <1>13 DEF TryHolderMint
<1>14. CASE TryWrongKey
  BY <1>3, <1>4, <1>14 DEF TryWrongKey
<1>15. CASE Complete
  BY <1>1, <1>15 DEF Complete
<1>16. CASE Interrupt
  BY <1>16 DEF Interrupt, ChildrenStay
<1>17. CASE Terminate
  BY <1>17 DEF Terminate, Gone, ChildrenStay
<1> QED
  BY <1>5, <1>6, <1>7, <1>8, <1>9, <1>10, <1>11, <1>12, <1>13, <1>14, <1>15, <1>16, <1>17
  DEF DriverStep

\* Every step of the driver keeps them.
LEMMA PortsDriverStep ==
    ASSUME PortsInv, DriverStep \/ Interrupt \/ Terminate
    PROVE  PortsInv'
<1>1. DriverShape
  BY DEF PortsInv
<1>2. CASE ChildrenDie /\ at' \in {at, at + 1} /\ at' <= 19 /\ result' = result
  <2>1. Running /\ UNCHANGED <<portEnv, found>>
    BY <1>1, DriverMoves DEF DriverShape
  <2>2. /\ child' \in [Child -> {"none", "started", "serving", "killed"}]
        /\ \A c \in Child : ~Killed(c)' /\ (child[c] = "none" => child'[c] = "none")
        /\ holder' \in [Port -> Holders]
        /\ PortsAsFound'
    BY <1>2, <2>1, PortsDie
  <2>3. DriverShape'
    BY <1>1, <1>2, <2>1, <2>2 DEF DriverShape, Running
  <2> QED
    BY <2>2, <2>3 DEF PortsInv
<1>3. CASE UNCHANGED <<child, holder>> /\ at' \in {at, at + 1} /\ at' <= 19 /\ result' = result
  <2>1. Running /\ UNCHANGED <<portEnv, found>>
    BY <1>1, DriverMoves DEF DriverShape
  <2>2. DriverShape'
    BY <1>1, <1>3, <2>1 DEF DriverShape, Running, Killed
  <2> QED
    BY <1>3, <2>1, <2>2, PortsStay DEF PortsInv
<1>4. CASE at = 2 /\ Spawn
  <2>1. /\ result' = result /\ UNCHANGED <<portEnv, found>> /\ at' = 3 /\ Running /\ holder' = holder
        /\ child' \in [Child -> {"none", "started"}]
    <3>1. PICK built \in BOOLEAN : child' = [c \in Child |-> IF spawns /\ built THEN "started" ELSE "none"]
      BY <1>4 DEF Spawn
    <3> QED
      BY <1>4, <3>1 DEF Spawn, Does, driverConfig
  <2>2. \A c \in Child : child[c] = "none"
    BY <1>1, <1>4, <2>1 DEF DriverShape
  <2>3. DriverShape'
    BY <1>1, <2>1 DEF DriverShape, Running
  <2> PortsAsFound
    BY DEF PortsInv
  <2>4. PortsAsFound'
    BY <2>1, <2>2 DEF PortsAsFound
  <2> QED
    BY <2>1, <2>3, <2>4 DEF PortsInv
<1>5. CASE result' \in {"complete", "error"} /\ at' = 1 /\ ChildrenDie
  <2>1. UNCHANGED <<portEnv, found>>
    BY <1>1, DriverMoves DEF DriverShape
  <2>2. /\ child' \in [Child -> {"none", "started", "serving", "killed"}]
        /\ \A c \in Child : ~Killed(c)'
        /\ holder' \in [Port -> Holders]
        /\ PortsAsFound'
    BY <1>5, <2>1, PortsDie
  <2>3. DriverShape'
    BY <1>1, <1>5, <2>1, <2>2 DEF DriverShape, Running
  <2> QED
    BY <2>2, <2>3 DEF PortsInv
<1>6. CASE result' = "killed" /\ at' = 1 /\ UNCHANGED <<child, holder>>
  <2>1. UNCHANGED <<portEnv, found>>
    BY <1>1, DriverMoves DEF DriverShape
  <2>2. DriverShape'
    BY <1>1, <1>6, <2>1 DEF DriverShape, Running
  <2> QED
    BY <1>6, <2>1, <2>2, PortsStay DEF PortsInv
<1> QED
  BY <1>1, <1>2, <1>3, <1>4, <1>5, <1>6, DriverMoves DEF DriverShape

\* Every step of every client keeps them.
LEMMA PortsNext ==
    ASSUME PortsInv, [ClientsNext]_clientsVars
    PROVE  PortsInv'
<1>1. ASSUME UNCHANGED <<at, result, child, holder, portEnv, found>> PROVE PortsInv'
  <2>1. DriverShape'
    BY <1>1 DEF PortsInv, DriverShape, Running, Killed
  <2> QED
    BY <1>1, <2>1, PortsStay DEF PortsInv
<1>2. CASE UNCHANGED clientsVars
  BY <1>1, <1>2 DEF clientsVars, interbankVars, driverVars
<1>3. CASE DriverStep \/ Interrupt \/ Terminate
  BY <1>3, PortsDriverStep
<1>4. CASE \E c \in Child : ChildStarts(c)
  BY <1>4, PortsChildStarts
<1>5. CASE UNCHANGED driverVars /\ holder' = holder
  BY <1>1, <1>5 DEF driverVars
<1>6. ASSUME NEW r, ProxyPost(r) \/ ProxyTimeout(r) PROVE holder' = holder
  BY <1>6 DEF ProxyPost, ProxyTimeout, Post, PostFails, GiveUpOn
<1>7. ASSUME ReadNext \/ AnswerState PROVE holder' = holder
  BY <1>7 DEF ReadNext, AnswerState, interbankVars
<1>8. ASSUME NEW r, Mined(r) \/ Drop(r) \/ ServiceGoesOn(r) \/ ServiceFails(r) PROVE holder' = holder
  BY <1>8 DEF Mined, Drop, ServiceGoesOn, ServiceFails
<1> QED
  BY <1>2, <1>3, <1>4, <1>5, <1>6, <1>7, <1>8 DEF ClientsNext

\* The ports and the processes, as an invariant.
LEMMA PortsInductive ==
    ClientsSpec => []PortsInv
<1>1. ClientsInit => PortsInv
  BY PortsInit DEF ClientsInit
<1>2. PortsInv /\ [ClientsNext]_clientsVars => PortsInv'
  BY PortsNext
<1> QED
  BY <1>1, <1>2, PTL DEF ClientsSpec

\* However the demo ends, short of being killed, its processes are gone and the ports
\* are as it found them.
THEOREM NothingLeft ==
    ClientsSpec => []NothingLeftRunning
<1>1. PortsInv => NothingLeftRunning
  <2> SUFFICES ASSUME PortsInv, result \in {"complete", "error"}
               PROVE  (\A c \in Child : ~Killed(c)) /\ holder = found
    BY DEF NothingLeftRunning
  <2>1. \A c \in Child : ~Killed(c)
    BY DEF PortsInv, DriverShape
  <2> PortsAsFound
    BY DEF PortsInv
  <2>2. \A p \in Port : holder[p] = found[p]
    BY <2>1 DEF PortsAsFound, Killed
  <2>3. holder = found
    <3>1. holder \in [Port -> Holders] /\ found \in [Port -> Holders]
      BY DriverAssumption DEF PortsInv, DriverShape, Holders
    <3> QED
      BY <2>2, <3>1
  <2> QED
    BY <2>1, <2>3
<1> QED
  BY <1>1, PortsInductive, PTL

-----------------------------------------------------------------------------
(* What a step does to the requests and the chain.                          *)

WorldShape ==
    /\ outcome \in [Request -> {"idle", "open", "answered", "refused", "unsure"}]
    /\ step \in [Request -> {1, 2}]
    /\ via \in [Request -> Banks]
    /\ lost \subseteq Request

\* A request moves on, with nothing mined. One that is taken is taken by a service at
\* its URL, whose bank's role allows it.
RequestMoves(r) ==
    /\ \/ Ask(r) \/ Refuse(r) \/ Lose(r)
       \/ Advance(r) /\ Ran(r, step[r])
       \/ Answer(r) /\ OwnReceipts(r)
    /\ UNCHANGED <<lost, blocks>>
    /\ \/ via' = via /\ (Ask(r) => outcome'[r] = "refused")
       \/ /\ Ask(r)
          /\ \E b \in Banks :
                 /\ via' = [via EXCEPT ![r] = b]
                 /\ ServiceOf(b) \in holder[r.url] /\ RoleAllows(b, r.op)

\* The requests of the demo and of the console are requests.
LEMMA DemoRequestFacts ==
    /\ DemoRequest \subseteq Request /\ WebRequest \subseteq Request
    /\ HolderMint \in Request /\ HolderMint.op = "mint" /\ HolderMint.url = BankB.deposit
BY ClientsAssumption DEF DemoRequest, HolderMint, Demo

\* A post moves one request.
LEMMA PostMoves ==
    ASSUME PortsInv, WorldShape, NEW r \in Request, Post(r)
    PROVE  RequestMoves(r)
<1>1. Ask(r) /\ UNCHANGED <<holder, lost, blocks>>
  BY DEF Post
<1>2. PICK program \in holder[r.url] :
           \/ /\ program.kind = "deposit"
              /\ RoleAllows(program.bank, r.op)
              /\ outcome' = [outcome EXCEPT ![r] = "open"]
              /\ via' = [via EXCEPT ![r] = program.bank]
           \/ /\ outcome' = [outcome EXCEPT ![r] = "refused"]
              /\ UNCHANGED via
  BY DEF Post
<1>3. program \in Program
  <2>1. r.url \in Port
    BY RequestFacts
  <2> QED
    BY <2>1 DEF PortsInv, Holders, Unset
<1>4. CASE /\ program.kind = "deposit" /\ RoleAllows(program.bank, r.op)
           /\ via' = [via EXCEPT ![r] = program.bank]
  <2>1. \A keys : RouterOf(keys).kind = "router"
    BY DEF RouterOf
  <2>2. PICK b \in Banks : program = ServiceOf(b)
    BY <1>3, <1>4, <2>1 DEF Program
  <2>3. program.bank = b
    BY <2>2 DEF ServiceOf
  <2> QED
    BY <1>1, <1>4, <2>2, <2>3 DEF RequestMoves
<1>5. CASE outcome' = [outcome EXCEPT ![r] = "refused"] /\ UNCHANGED via
  <2>1. outcome'[r] = "refused"
    BY <1>5 DEF WorldShape
  <2> QED
    BY <1>1, <1>5, <2>1 DEF RequestMoves
<1> QED
  BY <1>2, <1>4, <1>5

\* So do a failed post and what the service does.
LEMMA OtherMoves ==
    ASSUME WorldShape, NEW r \in Request,
           PostFails(r) \/ GiveUpOn(r) \/ ServiceGoesOn(r) \/ ServiceFails(r)
    PROVE  RequestMoves(r)
<1>1. CASE PostFails(r)
  <2>1. outcome'[r] = "refused"
    BY <1>1 DEF PostFails, WorldShape
  <2> QED
    BY <1>1, <2>1 DEF PostFails, RequestMoves
<1>2. ASSUME Ask(r), Lose(r) \/ Refuse(r) \/ Advance(r) \/ Answer(r) PROVE FALSE
  BY <1>2 DEF Ask, Lose, Refuse, Advance, Answer
<1>3. CASE GiveUpOn(r)
  BY <1>2, <1>3 DEF GiveUpOn, RequestMoves
<1>4. CASE ServiceGoesOn(r)
  BY <1>2, <1>4 DEF ServiceGoesOn, RequestMoves
<1>5. CASE ServiceFails(r)
  BY <1>2, <1>5 DEF ServiceFails, RequestMoves
<1> QED
  BY <1>1, <1>3, <1>4, <1>5

\* Nothing moves and nothing is mined; the node may drop a transaction.
WorldKept ==
    /\ UNCHANGED <<outcome, step, ran, told, via, blocks>>
    /\ UNCHANGED <<sure, lost>> \/ \E r \in Request : Drop(r)

\* A step of the composition moves one request, mines one transaction or does neither.
LEMMA WorldMoves ==
    ASSUME PortsInv, WorldShape, [ClientsNext]_clientsVars
    PROVE  \/ WorldKept
           \/ \E r \in Request : RequestMoves(r) \/ Mined(r)
<1> WorldStays => WorldKept
  BY DEF WorldStays, WorldKept, submissionVars
<1>1. ASSUME NEW r \in Request, Send(r) \/ StopWaiting(r) PROVE RequestMoves(r)
  BY <1>1, PostMoves, OtherMoves DEF Send, StopWaiting
<1>2. CASE DriverStep \/ Interrupt \/ Terminate
  <2>1. CASE PostAndWait
    <3>1. Script[at].request \in Request
      <4>1. at \in 1 .. 18 /\ Script[at].do = "post"
        BY <2>1, ScriptFacts DEF PostAndWait, Does, PortsInv, DriverShape
      <4> QED
        BY <4>1, ScriptFacts, DemoRequestFacts
    <3> QED
      BY <1>1, <2>1, <3>1 DEF PostAndWait, Here
  <2>2. CASE TryHolderMint
    BY <1>1, <2>2, DemoRequestFacts DEF TryHolderMint
  <2> QED
    BY <1>2, <2>1, <2>2
    DEF DriverStep, LoadDeployment, Spawn, WaitHealthy, GetInfo, ShowBalances, ReadSupply,
        Reconcile, TryWrongKey, Complete, Interrupt, Terminate
<1>3. CASE \E c \in Child : ChildStarts(c)
  BY <1>3 DEF ChildStarts, WorldStays
<1>4. CASE \E r \in WebRequest : (MayPost /\ ProxyPost(r)) \/ ProxyTimeout(r)
  <2>1. PICK r \in Request : Post(r) \/ PostFails(r) \/ GiveUpOn(r)
    BY <1>4, DemoRequestFacts DEF ProxyPost, ProxyTimeout
  <2> QED
    BY <2>1, PostMoves, OtherMoves
<1>5. CASE ReadNext \/ AnswerState
  BY <1>5 DEF ReadNext, AnswerState, interbankVars, WorldStays
<1>6. CASE \E r \in Request : Mined(r) \/ Drop(r) \/ ServiceGoesOn(r) \/ ServiceFails(r)
  <2>1. ASSUME NEW r \in Request, Drop(r) PROVE WorldKept
    BY <2>1 DEF Drop, Forget, WorldKept
  <2> QED
    BY <1>6, <2>1, OtherMoves
<1>7. CASE UNCHANGED clientsVars
  BY <1>7 DEF clientsVars, interbankVars, WorldStays
<1> QED
  BY <1>2, <1>3, <1>4, <1>5, <1>6, <1>7 DEF ClientsNext

\* The requests keep their types.
LEMMA WorldShapeNext ==
    ASSUME PortsInv, WorldShape, [ClientsNext]_clientsVars
    PROVE  WorldShape'
<1>1. CASE WorldKept
  <2>1. lost' \subseteq Request
    BY <1>1 DEF WorldKept, WorldShape, Drop
  <2> QED
    BY <1>1, <2>1 DEF WorldKept, WorldShape
<1>2. CASE \E r \in Request : RequestMoves(r)
  <2> PICK r \in Request : RequestMoves(r)
    BY <1>2
  <2>1. via' \in [Request -> Banks]
    BY DEF RequestMoves, WorldShape
  <2>2. step' \in [Request -> {1, 2}]
    <3>1. CASE Advance(r)
      <4>1. step[r] \in {1, 2} /\ Last[r] \in {1, 2} /\ step[r] < Last[r]
        BY <3>1, SubmissionAssumption DEF Advance, WorldShape
      <4>2. step[r] = 1
        BY <4>1
      <4> QED
        BY <3>1, <4>2 DEF Advance, WorldShape
    <3>2. CASE ~Advance(r)
      BY <3>2 DEF RequestMoves, Ask, Answer, Refuse, Lose, WorldShape
    <3> QED
      BY <3>1, <3>2
  <2>3. outcome' \in [Request -> {"idle", "open", "answered", "refused", "unsure"}]
    BY DEF RequestMoves, Ask, Advance, Answer, Refuse, Lose, WorldShape
  <2>4. lost' = lost
    BY DEF RequestMoves
  <2> QED
    BY <2>1, <2>2, <2>3, <2>4 DEF WorldShape
<1>3. CASE \E r \in Request : Mined(r)
  BY <1>3 DEF Mined, Execute, WorldShape
<1> QED
  BY <1>1, <1>2, <1>3, WorldMoves

\* The ports and the requests, as an invariant.
LEMMA WorldInductive ==
    ClientsSpec => [](PortsInv /\ WorldShape)
<1>1. ClientsInit => WorldShape
  BY PortFacts DEF ClientsInit, InterbankInit, Init, WorldShape
<1>2. WorldShape /\ PortsInv /\ [ClientsNext]_clientsVars => WorldShape'
  BY WorldShapeNext
<1> QED
  BY <1>1, <1>2, PortsInductive, PTL DEF ClientsSpec

\* Whatever the clients do, the services and the node do no more than Submission
\* says, which is what DepositService implements.
THEOREM ClientsMeetSubmission ==
    ClientsSpec => Spec
<1>1. ClientsInit => Init
  BY DEF ClientsInit, InterbankInit
<1>2. PortsInv /\ WorldShape /\ [ClientsNext]_clientsVars => [Next]_submissionVars
  <2> SUFFICES ASSUME PortsInv, WorldShape, [ClientsNext]_clientsVars PROVE [Next]_submissionVars
    OBVIOUS
  <2>1. CASE WorldKept
    BY <2>1 DEF WorldKept, Drop, Next, submissionVars
  <2>2. CASE \E r \in Request : RequestMoves(r)
    BY <2>2 DEF RequestMoves, Next
  <2>3. CASE \E r \in Request : Mined(r)
    BY <2>3 DEF Mined, Next
  <2> QED
    BY <2>1, <2>2, <2>3, WorldMoves
<1> QED
  BY <1>1, <1>2, WorldInductive, PTL DEF ClientsSpec, Spec

-----------------------------------------------------------------------------
(* The ledger's invariant.                                                  *)

BlockInv(k) ==
    /\ blocks[k].reserve = blocks[k].supply + blocks[1].reserve
    /\ \A j \in 1 .. k : blocks[j].supply <= blocks[k].supply
    /\ k # 1 =>
           LET r == blocks[k].tx[1]
           IN  /\ r \in Request /\ outcome[r] # "idle"
               /\ GrownBy(blocks[k], blocks[k - 1], r, via[r].address)

LedgerInv ==
    /\ blocks \in Seq(BlockSet) /\ Len(blocks) >= 1
    /\ \A k \in 1 .. Len(blocks) : BlockInv(k)

\* The chain at the start is its first block.
LEMMA LedgerInit ==
    ClientsInit => LedgerInv
<1> SUFFICES ASSUME ClientsInit PROVE LedgerInv
  OBVIOUS
<1> PICK surplus \in Surplus : blocks = <<Genesis(surplus)>>
  BY DEF ClientsInit, InterbankInit
<1>1. surplus \in Nat /\ Limits.allowance \in Nat
  BY InterbankAssumption
<1>2. BankA.address \in Account /\ Policies.transfer = "2"
  BY AddressFacts, PortFacts DEF Policies
<1>3. Genesis(surplus) \in BlockSet
  <2>1. {<<Policies.transfer, BankA.address>>} \in SUBSET ({"2", "3", "4"} \X Account)
    BY <1>2
  <2> QED
    BY <1>1, <2>1 DEF Genesis, BlockSet, Status
<1>4. Genesis(surplus).supply = 0 /\ Genesis(surplus).reserve = surplus
  BY DEF Genesis
<1> DEFINE g == Genesis(surplus)
<1>5. g \in BlockSet /\ g.supply = 0 /\ g.reserve \in Nat
  BY <1>1, <1>3, <1>4
<1> HIDE DEF g
<1>6. blocks = <<g>>
  BY DEF g
<1>7. blocks \in Seq(BlockSet) /\ Len(blocks) = 1 /\ blocks[1] = g
  BY <1>5, <1>6
<1>8. BlockInv(1)
  BY <1>5, <1>7 DEF BlockInv, BlockSet
<1> QED
  BY <1>7, <1>8 DEF LedgerInv

\* The chain grows by the block of a mined transaction, and is not changed otherwise.
LEMMA ChainGrows ==
    ASSUME PortsInv, WorldShape, LedgerInv, [ClientsNext]_clientsVars
    PROVE  /\ Len(blocks') \in {Len(blocks), Len(blocks) + 1}
           /\ \A k \in 1 .. Len(blocks) : blocks'[k] = blocks[k]
           /\ \/ blocks' = blocks
              \/ \E r \in Request : Mined(r) /\ blocks' = Append(blocks, Block(r))
           /\ \A r \in Request : outcome[r] # "idle" => outcome'[r] # "idle" /\ via'[r] = via[r]
<1>1. CASE WorldKept
  BY <1>1 DEF WorldKept, LedgerInv
<1>2. CASE \E r \in Request : RequestMoves(r)
  <2> PICK r \in Request : RequestMoves(r)
    BY <1>2
  <2>1. UNCHANGED blocks
    BY DEF RequestMoves
  <2>2. ASSUME NEW q \in Request, outcome[q] # "idle"
        PROVE  outcome'[q] # "idle" /\ via'[q] = via[q]
    <3>1. outcome'[q] # "idle"
      BY <2>2 DEF RequestMoves, Ask, Advance, Answer, Refuse, Lose, WorldShape
    <3>2. via'[q] = via[q]
      BY <2>2 DEF RequestMoves, Ask, WorldShape
    <3> QED
      BY <3>1, <3>2
  <2> QED
    BY <2>1, <2>2 DEF LedgerInv
<1>3. CASE \E r \in Request : Mined(r)
  <2> PICK r \in Request : Mined(r)
    BY <1>3
  <2>1. blocks' = Append(blocks, Block(r)) /\ UNCHANGED <<outcome, via>>
    BY DEF Mined, Execute
  <2>2. Len(blocks') = Len(blocks) + 1 /\ \A k \in 1 .. Len(blocks) : blocks'[k] = blocks[k]
    BY <2>1 DEF LedgerInv
  <2> QED
    BY <2>1, <2>2
<1> QED
  BY <1>1, <1>2, <1>3, WorldMoves

\* Every step keeps each block well formed and backed.
LEMMA LedgerNext ==
    ASSUME PortsInv, WorldShape, LedgerInv, [ClientsNext]_clientsVars
    PROVE  LedgerInv'
<1> DEFINE n == Len(blocks)
<1>1. /\ blocks \in Seq(BlockSet) /\ n \in Nat /\ n >= 1
      /\ Tip = blocks[n] /\ Tip \in BlockSet
  BY DEF LedgerInv, Tip
<1> HIDE DEF n
<1>2. \A k \in 1 .. n : blocks'[k] = blocks[k] /\ blocks[k] \in BlockSet /\ BlockInv(k)
  BY <1>1, ChainGrows DEF LedgerInv, n
<1>3. ASSUME NEW k \in 1 .. n PROVE BlockInv(k)'
  <2>1. blocks'[1] = blocks[1] /\ \A j \in 1 .. k : blocks'[j] = blocks[j]
    BY <1>1, <1>2
  <2>2. BlockInv(k)
    BY <1>2
  <2>3. k # 1 => k - 1 \in 1 .. k
    BY <1>1
  <2>4. k # 1 => LET r == blocks[k].tx[1] IN outcome'[r] # "idle" /\ via'[r] = via[r]
    BY <2>2, ChainGrows DEF BlockInv
  <2> QED
    BY <2>1, <2>2, <2>3, <2>4 DEF BlockInv
<1>4. CASE blocks' = blocks
  BY <1>1, <1>3, <1>4 DEF LedgerInv, n
<1>5. CASE \E r \in Request : Mined(r) /\ blocks' = Append(blocks, Block(r))
  <2> PICK r \in Request : Mined(r) /\ blocks' = Append(blocks, Block(r))
    BY <1>5
  <2> DEFINE b == Block(r)
  <2>1. b \in BlockSet /\ GrownBy(b, Tip, r, via[r].address) /\ b.tx = <<r, step[r]>>
    BY <1>1, BlockFacts DEF WorldShape
  <2>2. outcome'[r] # "idle" /\ via'[r] = via[r]
    BY DEF Mined, Execute
  <2>3. blocks' = Append(blocks, b)
    OBVIOUS
  <2> HIDE DEF b
  <2> PICK m \in Nat : m = n + 1
    BY <1>1
  <2>4. blocks' \in Seq(BlockSet) /\ Len(blocks') = m /\ blocks'[m] = b
    BY <1>1, <2>1, <2>3 DEF n
  <2>5. /\ 1 \in 1 .. n /\ n \in 1 .. n /\ m - 1 = n
        /\ \A j \in 1 .. m : j \in 1 .. n \/ j = m
    BY <1>1
  <2>6. blocks'[1] = blocks[1] /\ blocks'[m - 1] = Tip /\ BlockInv(n)
    BY <1>1, <1>2, <2>5
  <2>7. /\ b.supply \in Nat /\ b.reserve \in Nat /\ Tip.supply \in Nat /\ Tip.reserve \in Nat
        /\ blocks[1].reserve \in Nat
    BY <1>1, <1>2, <2>1, <2>5 DEF BlockSet
  <2>8. PICK more \in Nat : b.supply = Tip.supply + more /\ b.reserve = Tip.reserve + more
    BY <2>1 DEF GrownBy
  <2>9. blocks'[m].reserve = blocks'[m].supply + blocks'[1].reserve
    <3>1. Tip.reserve = Tip.supply + blocks[1].reserve
      BY <1>1, <2>6 DEF BlockInv
    <3>2. b.reserve = b.supply + blocks[1].reserve
      BY <2>7, <2>8, <3>1
    <3> QED
      BY <2>4, <2>6, <3>2
  <2>10. ASSUME NEW j \in 1 .. m PROVE blocks'[j].supply <= blocks'[m].supply
    <3>1. CASE j = m
      BY <2>4, <2>7, <3>1
    <3>2. CASE j \in 1 .. n
      <4>1. blocks'[j] = blocks[j] /\ blocks[j] \in BlockSet
        BY <1>2, <3>2
      <4>2. blocks[j].supply \in Nat
        BY <4>1 DEF BlockSet
      <4>3. blocks[j].supply <= Tip.supply
        BY <1>1, <2>6, <3>2 DEF BlockInv
      <4> QED
        BY <2>4, <2>7, <2>8, <4>1, <4>2, <4>3
    <3> QED
      BY <2>5, <3>1, <3>2
  <2>11. LET q == blocks'[m].tx[1]
         IN  /\ q \in Request /\ outcome'[q] # "idle"
             /\ GrownBy(blocks'[m], blocks'[m - 1], q, via'[q].address)
    <3>1. blocks'[m].tx[1] = r
      BY <2>1, <2>4
    <3> QED
      BY <2>1, <2>2, <2>4, <2>6, <3>1
  <2>12. BlockInv(m)'
    BY <2>9, <2>10, <2>11 DEF BlockInv
  <2>13. ASSUME NEW k \in 1 .. m PROVE BlockInv(k)'
    <3>1. CASE k = m
      BY <2>12, <3>1
    <3>2. CASE k \in 1 .. n
      BY <1>3, <3>2
    <3> QED
      BY <2>5, <3>1, <3>2
  <2>14. Len(blocks') >= 1
    BY <1>1, <2>4
  <2> QED
    BY <2>4, <2>13, <2>14 DEF LedgerInv
<1> QED
  BY <1>4, <1>5, ChainGrows

CoreInv == PortsInv /\ WorldShape /\ LedgerInv

\* The invariant the theorems below start from.
LEMMA CoreInductive ==
    ClientsSpec => []CoreInv
<1>1. ClientsInit => LedgerInv
  BY LedgerInit
<1>2. LedgerInv /\ PortsInv /\ WorldShape /\ [ClientsNext]_clientsVars => LedgerInv'
  BY LedgerNext
<1> QED
  BY <1>1, <1>2, WorldInductive, PTL DEF ClientsSpec, CoreInv

\* Only a transfer through the service of its own bank takes from a wallet, whatever
\* integers the bodies name and whatever a word holds.
THEOREM OwnWallets ==
    ClientsSpec => []OnlyOwnWalletDebited
<1>1. CoreInv => OnlyOwnWalletDebited
  <2> SUFFICES ASSUME CoreInv, NEW k \in 2 .. Len(blocks), NEW a \in Account
               PROVE  LET r == blocks[k].tx[1]
                      IN  /\ blocks[k].balance[a] >= 0
                          /\ blocks[k].balance[a] < blocks[k - 1].balance[a] =>
                                 r.op = "transfer" /\ via[r].address = a
    BY DEF OnlyOwnWalletDebited
  <2>1. k \in 1 .. Len(blocks) /\ k # 1
    BY DEF CoreInv, LedgerInv
  <2>2. BlockInv(k) /\ blocks[k] \in BlockSet
    BY <2>1 DEF CoreInv, LedgerInv
  <2>3. blocks[k].balance[a] \in Nat
    BY <2>2 DEF BlockSet
  <2> QED
    BY <2>1, <2>2, <2>3 DEF BlockInv, GrownBy
<1> QED
  BY <1>1, CoreInductive, PTL

-----------------------------------------------------------------------------
(* The state page.                                                          *)

\* The last block a value on the page may be of.
Latest == IF Len(page) = 5 /\ page[5] # 0 THEN page[5] + 1 ELSE Len(blocks)

\* A number on the page is a zero, or was read at a block of the period.
ReadAt(k) == page[k] = 0 \/ \E b \in since .. Latest : page[k] = ValueAt(ReadOrder[k], b)

PageInv ==
    /\ page \in Seq(Nat) /\ Len(page) \in 0 .. 5
    /\ since \in 0 .. Len(blocks) /\ (Len(page) >= 1 => since >= 1)
    /\ Len(page) >= 1 => page[1] <= Tip.supply
    /\ Len(page) >= 2 => page[2] = 0 \/ page[1] <= page[2]
    /\ Len(page) = 5 => page[5] + 1 <= Len(blocks)
    /\ Len(page) = 5 => page[5] = 0 \/ since <= page[5] + 1
    /\ \A k \in 1 .. 4 : k <= Len(page) => ReadAt(k)

\* An element of a sequence.
LEMMA ElementType ==
    ASSUME NEW s \in Seq(Nat), NEW k \in 1 .. Len(s)
    PROVE  s[k] \in Nat
OBVIOUS

\* What the state page reads, in order.
LEMMA ReadOrderFacts ==
    /\ Len(ReadOrder) = 5 /\ DOMAIN ReadOrder = 1 .. 5
    /\ ReadOrder[1] = "supply" /\ ReadOrder[2] = "reserve" /\ ReadOrder[3] = "bankB"
    /\ ReadOrder[4] = "merchant" /\ ReadOrder[5] = "head"
    /\ Field("supply") = page[1] /\ Field("reserve") = page[2] /\ Field("bankB") = page[3]
    /\ Field("merchant") = page[4] /\ Field("head") = page[5]
<1>1. /\ Len(ReadOrder) = 5 /\ DOMAIN ReadOrder = 1 .. 5
      /\ ReadOrder[1] = "supply" /\ ReadOrder[2] = "reserve" /\ ReadOrder[3] = "bankB"
      /\ ReadOrder[4] = "merchant" /\ ReadOrder[5] = "head"
  BY DEF ReadOrder
<1>2. ASSUME NEW n \in 1 .. 5
      PROVE  (CHOOSE k \in DOMAIN ReadOrder : ReadOrder[k] = ReadOrder[n]) = n
  <2>1. \A k \in 1 .. 5 : ReadOrder[k] = ReadOrder[n] => k = n
    BY <1>1
  <2> QED
    BY <1>1, <2>1
<1>3. 1 \in 1 .. 5 /\ 2 \in 1 .. 5 /\ 3 \in 1 .. 5 /\ 4 \in 1 .. 5 /\ 5 \in 1 .. 5
  OBVIOUS
<1>4. Field("supply") = page[1]
  BY <1>1, <1>2, <1>3 DEF Field
<1>5. Field("reserve") = page[2]
  BY <1>1, <1>2, <1>3 DEF Field
<1>6. Field("bankB") = page[3]
  BY <1>1, <1>2, <1>3 DEF Field
<1>7. Field("merchant") = page[4]
  BY <1>1, <1>2, <1>3 DEF Field
<1>8. Field("head") = page[5]
  BY <1>1, <1>2, <1>3 DEF Field
<1> QED
  BY <1>1, <1>4, <1>5, <1>6, <1>7, <1>8

\* What a call returns is of the block it is answered at, which does not change.
LEMMA ValueFacts ==
    ASSUME CoreInv, NEW k \in 1 .. 5, NEW b \in 1 .. Len(blocks)
    PROVE  /\ ValueAt(ReadOrder[k], b) \in Nat
           /\ k = 1 => ValueAt(ReadOrder[k], b) = blocks[b].supply
           /\ k = 2 => ValueAt(ReadOrder[k], b) = blocks[b].reserve
           /\ k = 5 => ValueAt(ReadOrder[k], b) = b - 1
<1>1. /\ blocks[b].supply \in Nat /\ blocks[b].reserve \in Nat
      /\ blocks[b].balance \in [Account -> Nat] /\ b - 1 \in Nat
  <2>1. blocks[b] \in BlockSet /\ Len(blocks) \in Nat
    BY DEF CoreInv, LedgerInv
  <2> QED
    BY <2>1 DEF BlockSet
<1>2. BankB.address \in Account /\ Merchant \in Account
  BY DEF Account
<1>3. k \in {1, 2, 3, 4, 5}
  OBVIOUS
<1>4. CASE k = 1
  BY <1>1, <1>4, ReadOrderFacts DEF ValueAt
<1>5. CASE k = 2
  BY <1>1, <1>5, ReadOrderFacts DEF ValueAt
<1>6. CASE k = 3
  BY <1>1, <1>2, <1>6, ReadOrderFacts DEF ValueAt
<1>7. CASE k = 4
  BY <1>1, <1>2, <1>7, ReadOrderFacts DEF ValueAt
<1>8. CASE k = 5
  BY <1>1, <1>8, ReadOrderFacts DEF ValueAt
<1> QED
  BY <1>3, <1>4, <1>5, <1>6, <1>7, <1>8

\* What a block says stays as it was.
LEMMA ValuesStay ==
    ASSUME CoreInv, [ClientsNext]_clientsVars, NEW what, NEW b \in 1 .. Len(blocks)
    PROVE  ValueAt(what, b)' = ValueAt(what, b)
<1>1. blocks'[b] = blocks[b]
  BY ChainGrows DEF CoreInv
<1> QED
  BY <1>1 DEF ValueAt

\* The chain only grows, and its supply with it.
LEMMA TipGrows ==
    ASSUME CoreInv, CoreInv', [ClientsNext]_clientsVars
    PROVE  /\ Len(blocks) \in Nat /\ Len(blocks') \in Nat
           /\ Len(blocks) >= 1 /\ Len(blocks') >= Len(blocks)
           /\ Tip.supply \in Nat /\ Tip'.supply \in Nat /\ Tip.supply <= Tip'.supply
           /\ blocks[1].reserve \in Nat /\ blocks'[1] = blocks[1]
           /\ Tip.reserve = Tip.supply + blocks[1].reserve
<1>1. /\ Len(blocks) \in Nat /\ Len(blocks') \in Nat /\ Len(blocks) >= 1
      /\ Len(blocks') \in {Len(blocks), Len(blocks) + 1}
  BY ChainGrows DEF CoreInv, LedgerInv
<1> PICK n \in Nat, m \in Nat : n = Len(blocks) /\ m = Len(blocks')
  BY <1>1
<1>2. n \in 1 .. m /\ m \in 1 .. m /\ n \in 1 .. n /\ 1 \in 1 .. n
  BY <1>1
<1>3. BlockInv(m)' /\ BlockInv(n) /\ blocks[n] \in BlockSet /\ blocks'[m] \in BlockSet /\ blocks[1] \in BlockSet
  BY <1>2 DEF CoreInv, LedgerInv
<1>4. blocks'[n] = blocks[n] /\ blocks'[1] = blocks[1]
  BY <1>2, ChainGrows DEF CoreInv
<1>5. Tip = blocks[n] /\ Tip' = blocks'[m]
  BY DEF Tip
<1>6. Tip.supply <= Tip'.supply /\ Tip.reserve = Tip.supply + blocks[1].reserve
  BY <1>2, <1>3, <1>4, <1>5 DEF BlockInv
<1>7. Tip.supply \in Nat /\ Tip'.supply \in Nat /\ blocks[1].reserve \in Nat
  BY <1>3, <1>5 DEF BlockSet
<1> QED
  BY <1>1, <1>4, <1>6, <1>7

\* A page that is not read from stays true while the chain grows.
LEMMA PageStays ==
    ASSUME CoreInv, CoreInv', [ClientsNext]_clientsVars, PageInv, UNCHANGED <<page, since>>
    PROVE  PageInv'
<1>0. /\ Len(blocks) \in Nat /\ Len(blocks') \in Nat /\ Len(blocks) <= Len(blocks')
      /\ Tip.supply \in Nat /\ Tip'.supply \in Nat /\ Tip.supply <= Tip'.supply
  BY TipGrows
<1>1. \A k \in 1 .. 4 : k <= Len(page) => ReadAt(k)'
  <2> SUFFICES ASSUME NEW k \in 1 .. 4, k <= Len(page), page[k] # 0
               PROVE  \E b \in since .. Latest' : page[k] = ValueAt(ReadOrder[k], b)'
    BY DEF ReadAt, ReadOrder
  <2>1. PICK b \in since .. Latest : page[k] = ValueAt(ReadOrder[k], b)
    BY DEF PageInv, ReadAt
  <2>2. Len(page) >= 1 /\ Len(page) \in Nat /\ (Len(page) = 5 => page[5] \in Nat)
    <3>1. page \in Seq(Nat) /\ Len(page) \in Nat
      BY DEF PageInv
    <3> QED
      BY <3>1, ElementType
  <2>3. Latest <= Latest' /\ Latest <= Len(blocks) /\ Latest \in Nat /\ Latest' \in Nat
    <3>1. CASE Len(page) = 5 /\ page[5] # 0
      <4>1. Latest = page[5] + 1 /\ Latest' = page[5] + 1 /\ page[5] + 1 <= Len(blocks)
        BY <3>1 DEF Latest, PageInv
      <4> QED
        BY <2>2, <3>1, <4>1
    <3>2. CASE ~(Len(page) = 5 /\ page[5] # 0)
      <4>1. Latest = Len(blocks) /\ Latest' = Len(blocks')
        BY <3>2 DEF Latest
      <4> QED
        BY <1>0, <4>1
    <3> QED
      BY <3>1, <3>2
  <2>4. b \in 1 .. Len(blocks) /\ b \in since .. Latest'
    BY <2>1, <2>2, <2>3, TipGrows DEF PageInv
  <2> QED
    BY <2>1, <2>4, ValuesStay
<1>2. /\ since \in 0 .. Len(blocks')
      /\ Len(page) >= 1 => page[1] <= Tip'.supply
      /\ Len(page) = 5 => page[5] + 1 <= Len(blocks')
      /\ Len(page) = 5 => page[5] = 0 \/ since <= page[5] + 1
  <2>1. /\ since \in 0 .. Len(blocks') 
    BY TipGrows DEF PageInv
  <2>2. Len(page) >= 1 => page[1] <= Tip'.supply
    <3>1. Len(page) >= 1 => page[1] \in Nat /\ page[1] <= Tip.supply
      BY DEF PageInv
    <3> QED
      BY <1>0, <3>1
  <2>3. Len(page) = 5 => page[5] + 1 <= Len(blocks')
    <3>1. CASE Len(page) = 5
      <4>1. page[5] \in Nat
        <5>1. page \in Seq(Nat) /\ 5 \in 1 .. Len(page)
          BY <3>1 DEF PageInv
        <5> QED
          BY <5>1
      <4>2. page[5] + 1 <= Len(blocks)
        BY <3>1 DEF PageInv
      <4> QED
        BY <1>0, <4>1, <4>2
    <3> QED
      BY <3>1
  <2>4. Len(page) = 5 => page[5] = 0 \/ since <= page[5] + 1
    BY DEF PageInv
  <2> QED
    BY <2>1, <2>2, <2>3, <2>4
<1> QED
  BY <1>1, <1>2 DEF PageInv

\* One more value is read, of the last block, or a zero where the call failed.
LEMMA PageReads ==
    ASSUME CoreInv, PageInv, ReadNext
    PROVE  PageInv'
<1>1. /\ Len(page) \in 0 .. 4 /\ page \in Seq(Nat)
      /\ since' = IF page = <<>> THEN Len(blocks) ELSE since
      /\ UNCHANGED blocks
  BY ReadOrderFacts DEF PageInv, ReadNext, interbankVars
<1> PICK n \in 0 .. 4, h \in Nat : n = Len(page) /\ h = Len(blocks)
  BY <1>1 DEF CoreInv, LedgerInv
<1> DEFINE read == ValueAt(ReadOrder[n + 1], h)
<1>2. h >= 1 /\ h \in 1 .. Len(blocks) /\ n + 1 \in 1 .. 5
  BY DEF CoreInv, LedgerInv
<1>3. PICK value \in {read, 0} : page' = Append(page, value)
  BY DEF ReadNext
<1>4. /\ read \in Nat
      /\ n = 0 => read = Tip.supply
      /\ n = 1 => read = Tip.reserve
      /\ n = 4 => read = h - 1
  <2>1. Tip = blocks[h]
    BY DEF Tip
  <2>2. PICK k \in 1 .. 5 : k = n + 1
    BY <1>2
  <2>3. /\ ValueAt(ReadOrder[k], h) \in Nat
        /\ k = 1 => ValueAt(ReadOrder[k], h) = blocks[h].supply
        /\ k = 2 => ValueAt(ReadOrder[k], h) = blocks[h].reserve
        /\ k = 5 => ValueAt(ReadOrder[k], h) = h - 1
    BY <1>2, ValueFacts
  <2>4. read = ValueAt(ReadOrder[k], h)
    BY <2>2
  <2> HIDE DEF read
  <2>5. n = 0 => k = 1
    BY <2>2
  <2>6. n = 1 => k = 2
    BY <2>2
  <2>7. n = 4 => k = 5
    BY <2>2
  <2> QED
    BY <2>1, <2>3, <2>4, <2>5, <2>6, <2>7
<1>5. /\ Tip.supply \in Nat /\ blocks[1].reserve \in Nat /\ Tip.reserve = Tip.supply + blocks[1].reserve
  <2>1. BlockInv(h) /\ blocks[h] \in BlockSet /\ blocks[1] \in BlockSet /\ Tip = blocks[h]
    BY <1>2 DEF CoreInv, LedgerInv, Tip
  <2> QED
    BY <2>1 DEF BlockInv, BlockSet
<1> HIDE DEF read
<1>6. /\ page' \in Seq(Nat) /\ Len(page') = n + 1 /\ page'[n + 1] = value
      /\ \A k \in 1 .. n : page'[k] = page[k] /\ page[k] \in Nat
  BY <1>1, <1>3, <1>4
<1>7. since' \in 1 .. h /\ (n >= 1 => since' = since)
  <2>1. page = <<>> <=> n = 0
    BY <1>1
  <2> QED
    BY <1>1, <1>2, <2>1 DEF PageInv
<1>8. Tip' = Tip
  BY <1>1 DEF Tip
<1>9. page'[1] <= Tip.supply
  <2>1. CASE n = 0
    BY <1>3, <1>4, <1>5, <1>6, <2>1
  <2>2. CASE n # 0
    BY <1>6, <2>2 DEF PageInv
  <2> QED
    BY <2>1, <2>2
<1>10. n + 1 >= 2 => page'[2] = 0 \/ page'[1] <= page'[2]
  <2>1. CASE n = 0
    BY <2>1
  <2>2. CASE n = 1
    <3>1. page'[1] = page[1] /\ page[1] \in Nat /\ page[1] <= Tip.supply
      BY <1>6, <2>2 DEF PageInv
    <3>2. page'[2] = value
      BY <1>6, <2>2
    <3> QED
      BY <1>3, <1>4, <1>5, <2>2, <3>1, <3>2
  <2>3. CASE n >= 2
    BY <1>6, <2>3 DEF PageInv
  <2> QED
    BY <2>1, <2>2, <2>3
<1>11. n + 1 = 5 => page'[5] + 1 <= h
  BY <1>2, <1>3, <1>4, <1>6
<1>12. n + 1 = 5 => page'[5] = 0 \/ since' <= page'[5] + 1
  <2>1. CASE n + 1 # 5 \/ value = 0
    BY <1>6, <2>1
  <2>2. CASE n = 4 /\ value = read
    BY <1>2, <1>4, <1>6, <1>7, <2>2
  <2> QED
    BY <1>3, <2>1, <2>2
<1>13. Latest' = h
  <2>1. CASE n = 4 /\ page'[5] # 0
    BY <1>3, <1>4, <1>6, <2>1, <1>2 DEF Latest
  <2>2. CASE ~(n = 4 /\ page'[5] # 0)
    BY <1>1, <1>6, <2>2 DEF Latest
  <2> QED
    BY <2>1, <2>2
<1>14. ASSUME NEW k \in 1 .. 4, k <= n + 1 PROVE ReadAt(k)'
  <2>1. \A b : ValueAt(ReadOrder[k], b)' = ValueAt(ReadOrder[k], b)
    BY <1>1 DEF ValueAt, ReadOrder
  <2>2. CASE k = n + 1
    <3>1. h \in since' .. Latest'
      BY <1>2, <1>7, <1>13
    <3> QED
      BY <1>3, <1>6, <2>1, <2>2, <3>1 DEF ReadAt, read, ReadOrder
  <2>3. CASE k <= n
    <3>1. page'[k] = page[k] /\ ReadAt(k) /\ since' = since
      BY <1>6, <1>7, <2>3 DEF PageInv
    <3>2. Latest = h
      BY DEF Latest
    <3> QED
      BY <1>13, <2>1, <3>1, <3>2 DEF ReadAt, ReadOrder
  <2> QED
    BY <1>14, <2>2, <2>3
<1>15. since' \in 0 .. h /\ since' >= 1 /\ n + 1 \in 0 .. 5
  BY <1>7
<1> QED
  BY <1>1, <1>6, <1>8, <1>9, <1>10, <1>11, <1>14, <1>15, <1>12 DEF PageInv

\* Every step keeps the page's numbers true.
LEMMA PageNext ==
    ASSUME CoreInv, CoreInv', PageInv, [ClientsNext]_clientsVars
    PROVE  PageInv'
<1>1. CASE UNCHANGED webVars
  BY <1>1, PageStays DEF webVars
<1>2. CASE ReadNext
  BY <1>2, PageReads
<1>3. CASE AnswerState
  <2>1. page' = <<>> /\ since' = 0 /\ blocks' = blocks
    BY <1>3 DEF AnswerState, interbankVars
  <2>2. Len(<<>>) = 0 /\ <<>> \in Seq(Nat) /\ Len(blocks) \in Nat
    BY DEF CoreInv, LedgerInv
  <2> QED
    BY <2>1, <2>2 DEF PageInv
<1>4. ASSUME NEW r \in Request, ProxyPost(r) \/ ProxyTimeout(r) PROVE UNCHANGED webVars
  BY <1>4 DEF ProxyPost, ProxyTimeout
<1> QED
  BY <1>1, <1>2, <1>3, <1>4, DemoRequestFacts DEF ClientsNext, clientsVars

\* The page, as an invariant.
LEMMA PageInductive ==
    ClientsSpec => [](CoreInv /\ PageInv)
<1>1. ClientsInit => PageInv
  <2> SUFFICES ASSUME ClientsInit PROVE PageInv
    OBVIOUS
  <2>1. page = <<>> /\ since = 0
    BY DEF ClientsInit, WebInit
  <2>2. Len(<<>>) = 0 /\ <<>> \in Seq(Nat) /\ Len(blocks) \in Nat
    BY LedgerInit DEF LedgerInv
  <2> QED
    BY <2>1, <2>2 DEF PageInv
<1>2. CoreInv /\ CoreInv' /\ PageInv /\ [ClientsNext]_clientsVars => PageInv'
  BY PageNext
<1> QED
  BY <1>1, <1>2, CoreInductive, PTL DEF ClientsSpec

\* Every number on the state page was true while it was read, and none of the pages
\* shows a supply that the reserve does not cover.
THEOREM StatePage ==
    ClientsSpec => []StatePageConsistent
<1>1. CoreInv /\ PageInv => StatePageConsistent
  <2> SUFFICES ASSUME CoreInv, PageInv, Answered PROVE
          /\ page[5] # 0 =>
                 \A what \in {"supply", "reserve", "bankB", "merchant"} :
                     \E b \in since .. page[5] + 1 : Field(what) \in {0, ValueAt(what, b)}
          /\ page[2] # 0 => page[1] <= page[2]
    BY ReadOrderFacts DEF StatePageConsistent
  <2>1. Len(page) = 5 /\ page \in Seq(Nat)
    BY ReadOrderFacts DEF Answered, PageInv
  <2>2. page[2] # 0 => page[1] <= page[2]
    BY <2>1 DEF PageInv
  <2>3. ASSUME page[5] # 0, NEW what \in {"supply", "reserve", "bankB", "merchant"}
        PROVE  \E b \in since .. page[5] + 1 : Field(what) \in {0, ValueAt(what, b)}
    <3>1. PICK k \in 1 .. 4 : what = ReadOrder[k] /\ Field(what) = page[k]
      <4>1. 1 \in 1 .. 4 /\ 2 \in 1 .. 4 /\ 3 \in 1 .. 4 /\ 4 \in 1 .. 4
        OBVIOUS
      <4> QED
        BY <4>1, ReadOrderFacts
    <3>2. ReadAt(k) /\ Latest = page[5] + 1
      BY <2>1, <2>3 DEF PageInv, Latest
    <3>3. page[5] \in Nat /\ since \in Nat
      <4>1. 5 \in 1 .. Len(page) /\ Len(blocks) \in Nat
        BY <2>1 DEF CoreInv, LedgerInv
      <4>2. page[5] \in Nat
        BY <2>1, <4>1, ElementType
      <4> QED
        BY <4>1, <4>2 DEF PageInv
    <3>4. since \in since .. page[5] + 1
      <4>1. page[5] + 1 >= since
        BY <2>1, <2>3 DEF PageInv
      <4> QED
        BY <3>3, <4>1
    <3> QED
      BY <3>1, <3>2, <3>4 DEF ReadAt
  <2> QED
    BY <2>2, <2>3
<1> QED
  BY <1>1, PageInductive, PTL

-----------------------------------------------------------------------------
(* The verdicts.                                                            *)

Texts == [text : {"number", "<nil>", ""}, n : Nat]
Verdicts == {"none", "yes", "no"}
NothingShown == [supply |-> Absent, reserve |-> Absent]

\* The numbers are of one chain, read one after the other; and once they are compared
\* they are not read again.
ToldInv ==
    /\ shown \in [supply : Texts, reserve : Texts]
    /\ verdict \in [backing : Verdicts, holderMint : Verdicts, wrongKey : Verdicts]
    /\ Running /\ at <= 14 => shown.supply = Absent
    /\ Running /\ at <= 15 => shown.reserve = Absent
    /\ Running /\ verdict.backing # "none" => at >= 17
    /\ verdict.backing = "yes" => shown.supply = shown.reserve
    /\ shown.supply.text = "number" => shown.supply.n <= Tip.supply
    /\ shown.supply.text = "number" /\ shown.reserve.text = "number" =>
           shown.supply.n + blocks[1].reserve <= shown.reserve.n

\* The texts the demo may show.
LEMMA TextFacts ==
    /\ Absent \in Texts /\ Nil \in Texts /\ \A n \in Nat : Number(n) \in Texts
    /\ Absent.text # "number" /\ Nil.text # "number"
    /\ \A n \in Nat : Number(n).text = "number" /\ Number(n).n = n
    /\ \A holds : Passed(holds) \in Verdicts
BY DEF Absent, Nil, Number, Texts, Passed, Verdicts

\* What the driver's steps do to what it has shown, and to its verdicts.
LEMMA DriverTells ==
    ASSUME DriverShape, ToldInv, DriverStep \/ Interrupt \/ Terminate
    PROVE  /\ Running
           /\ \/ /\ shown' = shown /\ verdict' = verdict
                 /\ result' = result /\ at' \in {at, at + 1}
              \/ shown' = NothingShown /\ verdict' = verdict /\ result' # "running"
              \/ ReadSupply \/ Reconcile
              \/ /\ TryHolderMint /\ WorldStays
                 /\ verdict' = [verdict EXCEPT !.holderMint = Passed(Failed(HolderMint))]
                 /\ outcome[HolderMint] = "answered" \/ Failed(HolderMint)
                 /\ Step /\ shown' = shown
              \/ TryWrongKey
<1> USE DEF Running
<1>1. ASSUME NEW how \in {"complete", "error", "killed"}, Gone(how)
      PROVE  shown' = NothingShown /\ verdict' = verdict /\ result' # "running"
  BY <1>1 DEF Gone, NothingShown
<1>2. ASSUME NEW r, Send(r) \/ StopWaiting(r)
      PROVE  UNCHANGED <<at, result, shown, verdict>>
  BY <1>2 DEF Send, StopWaiting, driverVars
<1>3. ASSUME Proceed PROVE shown' = shown /\ verdict' = verdict /\ result' = result /\ at' = at + 1
  BY <1>3 DEF Step, Proceed
<1>4. ASSUME NEW what, Does(what) PROVE Running
  BY <1>4 DEF Does
<1>5. CASE LoadDeployment
  BY <1>1, <1>3, <1>4, <1>5 DEF LoadDeployment, Return
<1>6. CASE Spawn
  BY <1>4, <1>6 DEF Spawn
<1>7. CASE WaitHealthy
  BY <1>1, <1>3, <1>4, <1>7 DEF WaitHealthy, Return
<1>8. CASE GetInfo
  BY <1>1, <1>3, <1>4, <1>8 DEF GetInfo, Return
<1>9. CASE ShowBalances
  BY <1>3, <1>4, <1>9 DEF ShowBalances
<1>10. CASE ReadSupply
  BY <1>4, <1>10 DEF ReadSupply
<1>11. CASE PostAndWait
  BY <1>1, <1>2, <1>3, <1>4, <1>11 DEF PostAndWait, Return
<1>12. CASE Reconcile
  BY <1>4, <1>12 DEF Reconcile
<1>13. CASE TryHolderMint
  BY <1>2, <1>4, <1>13 DEF TryHolderMint
<1>14. CASE TryWrongKey
  BY <1>4, <1>14 DEF TryWrongKey
<1>15. CASE Complete
  BY <1>1, <1>15 DEF Complete, Return
<1>16. CASE Interrupt
  BY <1>16 DEF Interrupt
<1>17. CASE Terminate
  BY <1>1, <1>17 DEF Terminate
<1> QED
  BY <1>5, <1>6, <1>7, <1>8, <1>9, <1>10, <1>11, <1>12, <1>13, <1>14, <1>15, <1>16, <1>17
  DEF DriverStep

\* What was read stays below a supply that only grows.
LEMMA ToldStays ==
    ASSUME CoreInv, CoreInv', ToldInv, [ClientsNext]_clientsVars, shown' = shown
    PROVE  /\ shown'.supply.text = "number" => shown'.supply.n <= Tip'.supply
           /\ shown'.supply.text = "number" /\ shown'.reserve.text = "number" =>
                  shown'.supply.n + blocks'[1].reserve <= shown'.reserve.n
<1>1. /\ Tip.supply \in Nat /\ Tip'.supply \in Nat /\ Tip.supply <= Tip'.supply
      /\ blocks'[1] = blocks[1]
  BY TipGrows
<1>2. shown.supply.n \in Nat
  BY DEF ToldInv, Texts
<1>3. shown.supply.text = "number" => shown'.supply.n <= Tip'.supply
  BY <1>1, <1>2 DEF ToldInv
<1> QED
  BY <1>1, <1>3 DEF ToldInv

\* One supply is read: the deposit token's first, then the reserve's, which covers it.
LEMMA ToldReads ==
    ASSUME CoreInv, CoreInv', [ClientsNext]_clientsVars, ToldInv, ReadSupply
    PROVE  ToldInv'
<1>1. /\ Running /\ at \in {14, 15} /\ at' = at + 1 /\ result' = result
      /\ verdict' = verdict /\ UNCHANGED blocks
      /\ Here.nth = IF at = 14 THEN 1 ELSE 2
  <2>1. Does("read") /\ Step /\ UNCHANGED verdict /\ WorldStays
    BY DEF ReadSupply
  <2>2. at \in 1 .. 18 /\ Script[at].do = "read"
    BY <2>1, ScriptFacts DEF Does, CoreInv, PortsInv, DriverShape
  <2>3. (at = 14 /\ Script[at].nth = 1) \/ (at = 15 /\ Script[at].nth = 2)
    BY <2>2, ScriptFacts
  <2> QED
    BY <2>1, <2>3 DEF Does, Step, WorldStays, Here
<1>2. /\ Tip.supply \in Nat /\ Tip.reserve = Tip.supply + blocks[1].reserve
      /\ blocks[1].reserve \in Nat /\ Tip' = Tip
  BY <1>1, TipGrows DEF Tip
<1>3. Tip.reserve \in Nat
  BY <1>2
<1>4. verdict.backing = "none"
  BY <1>1 DEF ToldInv
<1>5. CASE shown' = NothingShown
  <2>1. shown'.supply = Absent /\ shown'.reserve = Absent
    BY <1>5 DEF NothingShown
  <2>2. shown' \in [supply : Texts, reserve : Texts]
    BY <1>5, TextFacts DEF NothingShown
  <2> QED
    BY <1>1, <1>4, <2>1, <2>2, TextFacts DEF ToldInv, Running
<1>6. CASE at = 14 /\ \E read \in {Nil, Number(Tip.supply)} : shown' = [shown EXCEPT !.supply = read]
  <2> PICK read \in {Nil, Number(Tip.supply)} : shown' = [shown EXCEPT !.supply = read]
    BY <1>6
  <2>1. read \in Texts /\ (read.text = "number" => read.n <= Tip.supply)
    BY <1>2, TextFacts
  <2>2. shown' \in [supply : Texts, reserve : Texts] /\ shown'.supply = read /\ shown'.reserve = Absent
    BY <1>1, <1>6, <2>1 DEF ToldInv
  <2>3. Running' /\ at' = 15
    BY <1>1, <1>6 DEF Running
  <2> QED
    BY <1>1, <1>2, <1>4, <2>1, <2>2, <2>3, TextFacts DEF ToldInv
<1>7. CASE at = 15 /\ \E read \in {Nil, Number(Tip.reserve)} : shown' = [shown EXCEPT !.reserve = read]
  <2> PICK read \in {Nil, Number(Tip.reserve)} : shown' = [shown EXCEPT !.reserve = read]
    BY <1>7
  <2>1. read \in Texts /\ (read.text = "number" => read.n = Tip.reserve)
    BY <1>3, TextFacts
  <2>2. /\ shown' \in [supply : Texts, reserve : Texts]
        /\ shown'.supply = shown.supply /\ shown'.reserve = read
    BY <2>1 DEF ToldInv
  <2>3. Running' /\ at' = 16
    BY <1>1, <1>7 DEF Running
  <2>4. shown.supply.n \in Nat /\ (shown.supply.text = "number" => shown.supply.n <= Tip.supply)
    BY DEF ToldInv, Texts
  <2>5. shown.supply.text = "number" /\ read.text = "number" =>
            shown.supply.n + blocks[1].reserve <= read.n
    BY <1>2, <2>1, <2>4
  <2> QED
    BY <1>1, <1>2, <1>4, <2>2, <2>3, <2>4, <2>5 DEF ToldInv
<1>8. \/ shown' = NothingShown
      \/ at = 14 /\ \E read \in {Nil, Number(Tip.supply)} : shown' = [shown EXCEPT !.supply = read]
      \/ at = 15 /\ \E read \in {Nil, Number(Tip.reserve)} : shown' = [shown EXCEPT !.reserve = read]
  <2>1. SupplyFirst[1] = "supply" /\ SupplyFirst[2] = "reserve"
    BY DEF SupplyFirst
  <2>2. CASE at = 14
    <3>1. Here.nth = 1
      BY <1>1, <2>2
    <3> QED
      BY <2>1, <2>2, <3>1 DEF ReadSupply, NothingShown
  <2>3. CASE at = 15
    <3>1. Here.nth = 2
      BY <1>1, <2>3
    <3> QED
      BY <2>1, <2>3, <3>1 DEF ReadSupply, NothingShown
  <2> QED
    BY <1>1, <2>2, <2>3
<1> QED
  BY <1>5, <1>6, <1>7, <1>8

\* The driver's steps keep what it tells true.
LEMMA ToldDriverStep ==
    ASSUME CoreInv, CoreInv', [ClientsNext]_clientsVars, ToldInv, DriverStep \/ Interrupt \/ Terminate
    PROVE  ToldInv'
<1>1. DriverShape /\ at \in 1 .. 19 /\ Running
  BY DriverTells DEF CoreInv, PortsInv, DriverShape
<1>2. CASE shown' = shown /\ verdict' = verdict /\ result' = result /\ at' \in {at, at + 1}
  <2>1. /\ shown'.supply.text = "number" => shown'.supply.n <= Tip'.supply
        /\ shown'.supply.text = "number" /\ shown'.reserve.text = "number" =>
               shown'.supply.n + blocks'[1].reserve <= shown'.reserve.n
    BY <1>2, ToldStays
  <2>2. /\ Running' /\ at' <= 14 => shown'.supply = Absent
        /\ Running' /\ at' <= 15 => shown'.reserve = Absent
        /\ Running' /\ verdict'.backing # "none" => at' >= 17
    BY <1>1, <1>2 DEF ToldInv
  <2> QED
    BY <1>2, <2>1, <2>2 DEF ToldInv
<1>3. CASE shown' = NothingShown /\ verdict' = verdict /\ result' # "running"
  <2>1. shown'.supply = Absent /\ shown'.reserve = Absent
    BY <1>3 DEF NothingShown
  <2>2. shown' \in [supply : Texts, reserve : Texts]
    BY <1>3, TextFacts DEF NothingShown
  <2> QED
    BY <1>3, <2>1, <2>2, TextFacts DEF ToldInv, Running
<1>4. CASE ReadSupply
  BY <1>4, ToldReads
<1>5. CASE Reconcile
  <2>1. /\ at \in 1 .. 18 /\ Script[at].do = "reconcile" /\ at' = at + 1 /\ result' = result
        /\ shown' = shown
        /\ verdict' = [verdict EXCEPT !.backing = Passed(shown.supply = shown.reserve)]
    BY <1>1, <1>5, ScriptFacts DEF Reconcile, Step, Does
  <2>2. at = 16 /\ at' = 17
    BY <2>1, ScriptFacts
  <2>3. /\ verdict'.backing = Passed(shown.supply = shown.reserve)
        /\ verdict' \in [backing : Verdicts, holderMint : Verdicts, wrongKey : Verdicts]
    BY <2>1, TextFacts DEF ToldInv
  <2>4. verdict'.backing = "yes" => shown.supply = shown.reserve
    BY <2>3 DEF Passed
  <2>5. /\ shown'.supply.text = "number" => shown'.supply.n <= Tip'.supply
        /\ shown'.supply.text = "number" /\ shown'.reserve.text = "number" =>
               shown'.supply.n + blocks'[1].reserve <= shown'.reserve.n
    BY <2>1, ToldStays
  <2> QED
    BY <2>1, <2>2, <2>3, <2>4, <2>5 DEF ToldInv
<1>6. ASSUME NEW v \in Verdicts, Step, shown' = shown,
             \/ verdict' = [verdict EXCEPT !.holderMint = v]
             \/ verdict' = [verdict EXCEPT !.wrongKey = v]
      PROVE  ToldInv'
  <2>1. at' = at + 1 /\ result' = result
    BY <1>6 DEF Step
  <2>2. /\ verdict'.backing = verdict.backing
        /\ verdict' \in [backing : Verdicts, holderMint : Verdicts, wrongKey : Verdicts]
    BY <1>6 DEF ToldInv
  <2>3. /\ shown'.supply.text = "number" => shown'.supply.n <= Tip'.supply
        /\ shown'.supply.text = "number" /\ shown'.reserve.text = "number" =>
               shown'.supply.n + blocks'[1].reserve <= shown'.reserve.n
    BY <1>6, ToldStays
  <2>4. /\ Running' /\ at' <= 14 => shown'.supply = Absent
        /\ Running' /\ at' <= 15 => shown'.reserve = Absent
        /\ Running' /\ verdict'.backing # "none" => at' >= 17
    BY <1>1, <1>6, <2>1, <2>2 DEF ToldInv
  <2> QED
    BY <1>6, <2>2, <2>3, <2>4 DEF ToldInv
<1>7. CASE /\ verdict' = [verdict EXCEPT !.holderMint = Passed(Failed(HolderMint))]
           /\ Step /\ shown' = shown
  BY <1>6, <1>7, TextFacts
<1>8. CASE TryWrongKey
  <2>1. PICK code : verdict' = [verdict EXCEPT !.wrongKey = Passed(Forbidden(code))]
    BY <1>8 DEF TryWrongKey
  <2>2. Step /\ shown' = shown
    BY <1>8 DEF TryWrongKey
  <2> QED
    BY <1>6, <2>1, <2>2, TextFacts
<1> QED
  BY <1>1, <1>2, <1>3, <1>4, <1>5, <1>7, <1>8, DriverTells

\* What the demo tells, as an invariant.
LEMMA ToldInductive ==
    ClientsSpec => [](CoreInv /\ ToldInv)
<1>1. ClientsInit => ToldInv
  <2> SUFFICES ASSUME ClientsInit PROVE ToldInv
    OBVIOUS
  <2>1. /\ shown = NothingShown
        /\ verdict = [backing |-> "none", holderMint |-> "none", wrongKey |-> "none"]
    BY DEF ClientsInit, DriverInit, NothingShown
  <2>2. shown \in [supply : Texts, reserve : Texts] /\ shown.supply = Absent /\ shown.reserve = Absent
    BY <2>1, TextFacts DEF NothingShown
  <2>3. /\ verdict \in [backing : Verdicts, holderMint : Verdicts, wrongKey : Verdicts]
        /\ verdict.backing = "none"
    BY <2>1 DEF Verdicts
  <2> QED
    BY <2>2, <2>3, TextFacts DEF ToldInv
<1>2. ASSUME CoreInv, CoreInv', ToldInv, [ClientsNext]_clientsVars
      PROVE  ToldInv'
  <2>1. CASE DriverStep \/ Interrupt \/ Terminate
    BY <1>2, <2>1, ToldDriverStep
  <2>2. ASSUME UNCHANGED <<at, result, shown, verdict>> PROVE ToldInv'
    BY <1>2, <2>2, ToldStays DEF ToldInv, Running
  <2>3. CASE UNCHANGED driverVars \/ UNCHANGED clientsVars
    BY <2>2, <2>3 DEF driverVars, clientsVars
  <2>4. CASE \E c \in Child : ChildStarts(c)
    BY <2>2, <2>4 DEF ChildStarts
  <2> QED
    BY <1>2, <2>1, <2>3, <2>4 DEF ClientsNext
<1> QED
  BY <1>1, <1>2, CoreInductive, PTL DEF ClientsSpec

\* A confirmed backing is one: equal numbers leave no room for a surplus, and without
\* one the reserve is the supply in every block.
THEOREM Backing ==
    ClientsSpec => []BackingConfirmed
<1>1. CoreInv /\ ToldInv => BackingConfirmed
  <2> SUFFICES ASSUME CoreInv, ToldInv, verdict.backing = "yes",
                      shown.supply.text = "number", shown.reserve.text = "number"
               PROVE  Tip.supply = Tip.reserve
    BY DEF BackingConfirmed
  <2>1. shown.supply.n \in Nat /\ shown.supply.n + blocks[1].reserve <= shown.supply.n
    BY DEF ToldInv, Texts
  <2>2. /\ blocks[1].reserve \in Nat /\ Tip.supply \in Nat
        /\ Tip.reserve = Tip.supply + blocks[1].reserve
    <3>1. Len(blocks) \in Nat /\ Len(blocks) \in 1 .. Len(blocks) /\ 1 \in 1 .. Len(blocks)
      BY DEF CoreInv, LedgerInv
    <3>2. Tip \in BlockSet /\ blocks[1] \in BlockSet /\ BlockInv(Len(blocks))
      BY <3>1 DEF CoreInv, LedgerInv, Tip
    <3> QED
      BY <3>2 DEF BlockInv, BlockSet, Tip
  <2>3. blocks[1].reserve = 0
    BY <2>1, <2>2
  <2> QED
    BY <2>2, <2>3
<1> QED
  BY <1>1, ToldInductive, PTL

\* Only an answer that says 403 counts as the router's refusal.
THEOREM Isolation ==
    ClientsSpec => IsolationProven
<1>1. CoreInv /\ ToldInv /\ [ClientsNext]_clientsVars =>
          [verdict'.wrongKey = "yes" /\ verdict.wrongKey # "yes" =>
              \E p \in holder[BankA.router] :
                  p.kind = "router" /\ BankB.keyId \notin p.keys]_<<driverVars, holder>>
  <2> SUFFICES ASSUME CoreInv, ToldInv, [ClientsNext]_clientsVars,
                      verdict'.wrongKey = "yes", verdict.wrongKey # "yes"
               PROVE  \E p \in holder[BankA.router] : p.kind = "router" /\ BankB.keyId \notin p.keys
    OBVIOUS
  <2>1. DriverStep \/ Interrupt \/ Terminate
    BY DEF ClientsNext, clientsVars, driverVars, ChildStarts
  <2>2. TryWrongKey
    <3>1. ASSUME NEW v, verdict' = [verdict EXCEPT !.holderMint = v] \/ verdict' = [verdict EXCEPT !.backing = v]
          PROVE  FALSE
      BY <3>1 DEF ToldInv
    <3>2. ~ReadSupply
      BY DEF ReadSupply
    <3>3. ~Reconcile
      BY <3>1 DEF Reconcile
    <3>4. DriverShape
      BY DEF CoreInv, PortsInv
    <3> QED
      BY <2>1, <3>1, <3>2, <3>3, <3>4, DriverTells
  <2>3. Script[at].do = "wrongKey" /\ at \in 1 .. 18
    BY <2>2, ScriptFacts DEF TryWrongKey, Does, CoreInv, PortsInv, DriverShape
  <2>4. Here.port = BankA.router
    BY <2>3 DEF Here, Script, Doing, Healthy, Posting
  <2>5. PICK code \in {0} \cup {SignStatus(p, BankB.keyId) : p \in holder[Here.port]} :
            verdict' = [verdict EXCEPT !.wrongKey = Passed(Forbidden(code))]
    BY <2>2 DEF TryWrongKey
  <2>6. code = 403
    <3>1. verdict'.wrongKey = Passed(Forbidden(code))
      BY <2>5 DEF ToldInv
    <3> QED
      BY <3>1 DEF Passed, Forbidden
  <2>7. PICK p \in holder[BankA.router] : SignStatus(p, BankB.keyId) = 403
    BY <2>4, <2>5, <2>6
  <2> QED
    BY <2>7 DEF SignStatus
<1> QED
  BY <1>1, ToldInductive, PTL DEF ClientsSpec, IsolationProven

-----------------------------------------------------------------------------
(* Only Bank A mints.                                                       *)

\* Nobody put a service of Bank A on another port by hand.
PortsAsIntended ==
    \A ports \in FoundPorts : \A p \in Port \ {BankA.deposit} : ServiceOf(BankA) \notin ports[p]

Issuing(r) == r.op \in {"mint", "authorize"} /\ r.url # BankA.deposit

\* No service has taken an issuer's request at another URL than Bank A's.
MintInv ==
    portEnv = Unset =>
        /\ \A r \in Request : Issuing(r) => outcome[r] \in {"idle", "refused"}
        /\ \A k \in 2 .. Len(blocks) : ~Issuing(blocks[k].tx[1])
        /\ verdict.holderMint # "no"

\* The demo's own service of Bank A has no other port to listen on, either.
LEMMA IssuerPort ==
    ASSUME PortsAsIntended, PortsInv, portEnv = Unset, NEW p \in Port, ServiceOf(BankA) \in holder[p]
    PROVE  p = BankA.deposit
<1> SUFFICES ASSUME p # BankA.deposit PROVE FALSE
  OBVIOUS
<1> PortsAsFound
  BY DEF PortsInv
<1>1. ServiceOf(BankA) \notin found[p]
  BY DEF PortsAsIntended, PortsInv, DriverShape
<1>2. CASE \A c \in Child : child[c] = "serving" => PortOfChild(c) # p
  BY <1>1, <1>2 DEF PortsAsFound
<1>3. CASE \E c \in Child : child[c] = "serving" /\ PortOfChild(c) = p
  <2> PICK c \in Child : child[c] = "serving" /\ PortOfChild(c) = p
    BY <1>3
  <2>1. p # Other
    BY PortFacts
  <2>2. holder[p] = {Serves[c]}
    BY <2>1 DEF PortsAsFound
  <2>3. Serves[c] = ServiceOf(BankA)
    BY <2>2
  <2> QED
    BY <2>3, ChildPortFacts DEF PortsInv, DriverShape
<1> QED
  BY <1>2, <1>3

\* No step lets a mint through Bank B's URL.
LEMMA MintNext ==
    ASSUME PortsAsIntended, CoreInv, ToldInv, MintInv, [ClientsNext]_clientsVars
    PROVE  MintInv'
<1>1. portEnv' = portEnv
  <2>1. CASE DriverStep \/ Interrupt \/ Terminate
    BY <2>1, DriverMoves DEF CoreInv, PortsInv, DriverShape
  <2> QED
    BY <2>1 DEF ClientsNext, clientsVars, driverVars, ChildStarts, driverConfig
<1> SUFFICES ASSUME portEnv = Unset
             PROVE  /\ \A r \in Request : Issuing(r) => outcome'[r] \in {"idle", "refused"}
                    /\ \A k \in 2 .. Len(blocks') : ~Issuing(blocks'[k].tx[1])
                    /\ verdict'.holderMint # "no"
  BY <1>1 DEF MintInv
<1>2. /\ \A r \in Request : Issuing(r) => outcome[r] \in {"idle", "refused"}
      /\ \A k \in 2 .. Len(blocks) : ~Issuing(blocks[k].tx[1])
      /\ verdict.holderMint # "no"
  BY DEF MintInv
<1>3. ASSUME NEW r \in Request, RequestMoves(r), NEW q \in Request, Issuing(q)
      PROVE  outcome'[q] \in {"idle", "refused"}
  <2>1. CASE Ask(r)
    <3>1. CASE q = r
      <4>1. SUFFICES ASSUME outcome'[r] # "refused" PROVE FALSE
        BY <3>1
      <4>2. PICK b \in Banks : ServiceOf(b) \in holder[r.url] /\ RoleAllows(b, r.op)
        BY <1>3, <2>1, <4>1 DEF RequestMoves
      <4>3. b.role = "issuer"
        BY <1>3, <3>1, <4>2 DEF Issuing, RoleAllows
      <4>4. b = BankA
        BY <4>3 DEF Banks, BankA, BankB
      <4>5. r.url = BankA.deposit
        BY <4>2, <4>4, RequestFacts, IssuerPort DEF CoreInv
      <4> QED
        BY <1>3, <3>1, <4>5 DEF Issuing
    <3>2. CASE q # r
      BY <1>2, <1>3, <2>1, <3>2 DEF Ask, CoreInv, WorldShape
    <3> QED
      BY <3>1, <3>2
  <2>2. CASE ~Ask(r)
    <3>1. outcome[r] = "open"
      BY <1>3, <2>2 DEF RequestMoves, Advance, Answer, Refuse, Lose
    <3>2. q # r
      BY <1>2, <1>3, <3>1
    <3>3. outcome'[q] = outcome[q]
      BY <1>3, <2>2, <3>2 DEF RequestMoves, Advance, Answer, Refuse, Lose, CoreInv, WorldShape
    <3> QED
      BY <1>2, <1>3, <3>3
  <2> QED
    BY <2>1, <2>2
<1>4. ASSUME NEW r \in Request, Mined(r), NEW k \in 2 .. Len(blocks')
      PROVE  ~Issuing(blocks'[k].tx[1])
  <2>1. /\ blocks' = Append(blocks, Block(r)) /\ outcome[r] \notin {"idle", "refused"}
    BY <1>4 DEF Mined, Execute
  <2>2. Tip \in BlockSet /\ blocks \in Seq(BlockSet) /\ Len(blocks) \in Nat
    BY DEF CoreInv, LedgerInv, Tip
  <2>3. Block(r).tx[1] = r
    BY <2>2, BlockFacts DEF CoreInv, WorldShape
  <2>4. ~Issuing(r)
    BY <1>2, <2>1
  <2>5. CASE k = Len(blocks) + 1
    <3>1. blocks'[k] = Block(r)
      BY <2>1, <2>2, <2>5
    <3> QED
      BY <2>3, <2>4, <3>1
  <2>6. CASE k # Len(blocks) + 1
    <3>1. k \in 2 .. Len(blocks)
      BY <1>4, <2>1, <2>2, <2>6
    <3>2. blocks'[k] = blocks[k]
      BY <2>1, <2>2, <3>1
    <3> QED
      BY <1>2, <3>1, <3>2
  <2> QED
    BY <2>5, <2>6
<1>5. (\A r \in Request : Issuing(r) => outcome'[r] \in {"idle", "refused"})
      /\ (\A k \in 2 .. Len(blocks') : ~Issuing(blocks'[k].tx[1]))
  <2>1. CASE WorldKept
    BY <1>2, <2>1 DEF WorldKept
  <2>2. CASE \E r \in Request : RequestMoves(r)
    BY <1>2, <1>3, <2>2 DEF RequestMoves
  <2>3. CASE \E r \in Request : Mined(r)
    <3>1. outcome' = outcome
      BY <2>3 DEF Mined, Execute
    <3> QED
      BY <1>2, <1>4, <2>3, <3>1
  <2> QED
    BY <2>1, <2>2, <2>3, WorldMoves DEF CoreInv
<1>6. verdict'.holderMint # "no"
  <2>1. CASE verdict' = [verdict EXCEPT !.holderMint = Passed(Failed(HolderMint))]
             /\ (outcome[HolderMint] = "answered" \/ Failed(HolderMint))
    <3>1. Issuing(HolderMint)
      BY DemoRequestFacts, PortFacts DEF Issuing
    <3>2. Failed(HolderMint)
      BY <1>2, <2>1, <3>1, DemoRequestFacts
    <3>3. verdict'.holderMint = Passed(Failed(HolderMint))
      BY <2>1 DEF ToldInv
    <3> QED
      BY <3>2, <3>3 DEF Passed
  <2>2. ASSUME NEW v, verdict' = [verdict EXCEPT !.backing = v] \/ verdict' = [verdict EXCEPT !.wrongKey = v]
        PROVE  verdict'.holderMint = verdict.holderMint
    BY <2>2 DEF ToldInv
  <2>3. CASE DriverStep \/ Interrupt \/ Terminate
    <3>1. DriverShape
      BY DEF CoreInv, PortsInv
    <3>2. CASE ReadSupply
      BY <1>2, <3>2 DEF ReadSupply
    <3>3. CASE Reconcile
      BY <1>2, <2>2, <3>3 DEF Reconcile
    <3>4. CASE TryWrongKey
      BY <1>2, <2>2, <3>4 DEF TryWrongKey
    <3> QED
      BY <1>2, <2>1, <2>3, <3>1, <3>2, <3>3, <3>4, DriverTells
  <2> QED
    BY <1>2, <2>3 DEF ClientsNext, clientsVars, driverVars, ChildStarts
<1> QED
  BY <1>5, <1>6

\* Bank B's URL mints nothing, as an invariant of the composition.
LEMMA MintInductive ==
    ASSUME PortsAsIntended
    PROVE  ClientsSpec => [](CoreInv /\ MintInv)
<1>1. ClientsInit => MintInv
  <2> SUFFICES ASSUME ClientsInit PROVE MintInv
    OBVIOUS
  <2>1. \A r \in Request : outcome[r] = "idle"
    BY DEF ClientsInit, InterbankInit, Init
  <2>2. Len(blocks) = 1
    BY DEF ClientsInit, InterbankInit
  <2>3. verdict.holderMint = "none"
    BY DEF ClientsInit, DriverInit
  <2> QED
    BY <2>1, <2>2, <2>3 DEF MintInv
<1>2. CoreInv /\ ToldInv /\ MintInv /\ [ClientsNext]_clientsVars => MintInv'
  BY MintNext
<1> QED
  BY <1>1, <1>2, ToldInductive, PTL DEF ClientsSpec

\* Bank B's URL mints nothing, and the demo never says it did, unless PORT was set or a
\* service of Bank A was put on Bank B's port by hand.
THEOREM OnlyBankAMints ==
    ASSUME PortsAsIntended
    PROVE  ClientsSpec => []NoMintThroughBankB
<1>1. CoreInv /\ MintInv => NoMintThroughBankB
  <2> SUFFICES ASSUME CoreInv, MintInv, portEnv = Unset, NEW k \in 2 .. Len(blocks),
                      blocks[k].tx[1].op = "mint"
               PROVE  blocks[k].tx[1].url = BankA.deposit
    BY DEF MintInv, NoMintThroughBankB
  <2> QED
    BY DEF MintInv, Issuing
<1> QED
  BY <1>1, MintInductive, PTL

-----------------------------------------------------------------------------
(* The scenario of the demo, undisturbed.                                   *)

\* The limits allow the demo's one mint on the reserve that was found, and its amounts
\* fit into a word.
LimitsSuffice ==
    /\ 4 * Quarter < Word
    /\ 4 * Quarter <= Limits.allowance /\ 4 * Quarter <= Limits.transaction
    /\ \A surplus \in Surplus : surplus + 4 * Quarter <= Limits.reserve

IsAnswered(r) == outcome[r] = "answered"

\* The driver posts a request once the ones before it are answered, and goes on once
\* it is answered itself.
OneAfterAnother ==
    /\ at > 9 => IsAnswered(OnboardBankB)
    /\ at > 10 => IsAnswered(OnboardMerchant)
    /\ at > 11 => IsAnswered(MintToBankB)
    /\ outcome[OnboardMerchant] # "idle" => IsAnswered(OnboardBankB)
    /\ outcome[MintToBankB] # "idle" => IsAnswered(OnboardBankB) /\ IsAnswered(OnboardMerchant)
    /\ outcome[PayMerchant] # "idle" =>
           IsAnswered(OnboardBankB) /\ IsAnswered(OnboardMerchant) /\ IsAnswered(MintToBankB)

\* What was answered has run, and each request stays within its transactions.
AnsweredRan ==
    /\ \A r \in Request : step[r] <= Last[r]
    /\ \A r \in Request : IsAnswered(r) => \A i \in 1 .. Last[r] : Ran(r, i)

\* Whoever was onboarded is listed.
OnboardedListed ==
    \A r \in Request, i \in {1, 2} :
        r.op = "authorize" /\ Ran(r, i) => <<AuthorizedPolicy[i], r.to>> \in Tip.listed

\* The requests of the demo and what they are.
LEMMA ScenarioFacts ==
    /\ OnboardBankB \in DemoRequest /\ OnboardMerchant \in DemoRequest
    /\ MintToBankB \in DemoRequest /\ PayMerchant \in DemoRequest /\ HolderMint \in DemoRequest
    /\ OnboardBankB.op = "authorize" /\ OnboardBankB.to = BankB.address
    /\ OnboardMerchant.op = "authorize" /\ OnboardMerchant.to = Merchant
    /\ MintToBankB.op = "mint" /\ MintToBankB.to = BankB.address
    /\ MintToBankB.amount = 4 * Quarter /\ MintToBankB.url = BankA.deposit
    /\ PayMerchant.op = "transfer" /\ PayMerchant.to = Merchant /\ PayMerchant.amount = Quarter
    /\ PayMerchant.url = BankB.deposit
    /\ HolderMint.op = "mint" /\ HolderMint.url = BankB.deposit
    /\ BankB.address # Merchant
<1>1. BankB.address # Merchant
  BY DEF BankB, Merchant
<1> QED
  BY <1>1 DEF DemoRequest, OnboardBankB, OnboardMerchant, MintToBankB, PayMerchant, HolderMint, Demo

\* They are different requests, all of the demo's own, with as many transactions as their kind has.
LEMMA ScenarioDistinct ==
    /\ OnboardBankB # OnboardMerchant /\ OnboardBankB # MintToBankB /\ OnboardBankB # PayMerchant
    /\ OnboardMerchant # MintToBankB /\ OnboardMerchant # PayMerchant /\ MintToBankB # PayMerchant
    /\ HolderMint # OnboardBankB /\ HolderMint # OnboardMerchant /\ HolderMint # MintToBankB
    /\ HolderMint # PayMerchant
    /\ \A r \in DemoRequest : r.op = "authorize" \/ r \in {MintToBankB, PayMerchant, HolderMint}
    /\ DemoRequest \subseteq Request /\ \A r \in DemoRequest : r \notin WebRequest
    /\ Last[MintToBankB] = 1 /\ Last[PayMerchant] = 1
    /\ Last[OnboardBankB] = 2 /\ Last[OnboardMerchant] = 2
<1>1. DemoRequest \subseteq Request /\ \A r \in DemoRequest : r \notin WebRequest
  BY ClientsAssumption
<1>2. \A r \in DemoRequest : Last[r] = IF r.op = "authorize" THEN 2 ELSE 1
  BY <1>1, InterbankAssumption
<1>3. HolderMint.url # MintToBankB.url
  BY ScenarioFacts, PortFacts
<1> QED
  BY <1>1, <1>2, <1>3, ScenarioFacts DEF DemoRequest

\* Where the demo's script posts which request.
LEMMA PostsAt ==
    ASSUME NEW i \in 1 .. 18, Script[i].do = "post"
    PROVE  \/ i = 9 /\ Script[i].request = OnboardBankB
           \/ i = 10 /\ Script[i].request = OnboardMerchant
           \/ i = 11 /\ Script[i].request = MintToBankB
           \/ i = 13 /\ Script[i].request = PayMerchant
BY DEF Script, Doing, Healthy, Posting

\* It posts the two onboardings and the mint there.
LEMMA PostsThere ==
    /\ Script[9].do = "post" /\ Script[9].request = OnboardBankB
    /\ Script[10].do = "post" /\ Script[10].request = OnboardMerchant
    /\ Script[11].do = "post" /\ Script[11].request = MintToBankB
BY DEF Script, Doing, Healthy, Posting

\* What a step does to the requests of the demo: an idle one leaves that state when
\* the driver is at its post; the driver leaves a post when it has been answered.
LEMMA DriverPosts ==
    ASSUME CoreInv, [ClientsNext]_clientsVars
    PROVE  /\ \A r \in DemoRequest : outcome[r] = "idle" /\ outcome'[r] # "idle" /\ r # HolderMint =>
                  at \in 1 .. 18 /\ Script[at].do = "post" /\ Script[at].request = r /\ at' = at
           /\ \/ at' = at \/ at' = 1
              \/ /\ at \in 1 .. 18 /\ at' = at + 1
                 /\ Script[at].do = "post" => IsAnswered(Script[at].request)
           /\ \A r \in Request : IsAnswered(r) => IsAnswered(r)'
<1> USE DEF IsAnswered
<1>1. at \in 1 .. 19 /\ WorldShape /\ DemoRequest \subseteq Request
  BY ScenarioDistinct DEF CoreInv, PortsInv, DriverShape
<1> DEFINE Quiet == \A r \in DemoRequest : outcome[r] = "idle" => outcome'[r] = "idle"
           Kept == \A r \in Request : outcome[r] = "answered" => outcome'[r] = "answered"
           Moves == \/ at' = at \/ at' = 1
                    \/ /\ at \in 1 .. 18 /\ at' = at + 1
                       /\ Script[at].do = "post" => outcome[Script[at].request] = "answered"
           Posted == \A r \in DemoRequest :
                         outcome[r] = "idle" /\ outcome'[r] # "idle" /\ r # HolderMint =>
                             at \in 1 .. 18 /\ Script[at].do = "post" /\ Script[at].request = r
                             /\ at' = at
<1>2. ASSUME WorldStays PROVE Quiet /\ Kept
  BY <1>2 DEF WorldStays, submissionVars
<1>3. ASSUME NEW r \in Request, Ask(r) \/ Lose(r) \/ Refuse(r) \/ Advance(r) \/ Answer(r)
      PROVE  Kept /\ \A q \in Request : q # r => outcome'[q] = outcome[q]
  BY <1>1, <1>3 DEF Ask, Lose, Refuse, Advance, Answer, WorldShape
<1>4. ASSUME NEW r \in Request, Lose(r) \/ Refuse(r) \/ Advance(r) \/ Answer(r) \/ Mined(r)
      PROVE  Quiet /\ Kept
  BY <1>1, <1>4 DEF Lose, Refuse, Advance, Answer, WorldShape, Mined, Execute
<1>5. ASSUME NEW r \in Request, Send(r) \/ StopWaiting(r)
      PROVE  at' = at /\ Kept /\ \A q \in Request : q # r => outcome'[q] = outcome[q]
  BY <1>3, <1>5 DEF Send, StopWaiting, Post, PostFails, GiveUpOn, driverVars
<1>6. ASSUME NEW what, Does(what) PROVE at \in 1 .. 18 /\ Script[at].do = what
  BY <1>1, <1>6, ScriptFacts DEF Does
<1>7. ASSUME NEW how, Return(how) \/ Gone(how) PROVE at' = 1
  BY <1>7 DEF Return, Gone
<1>8. ASSUME Step \/ Proceed PROVE at' = at + 1
  BY <1>8 DEF Step, Proceed
<1>9. CASE PostAndWait
  <2>1. at \in 1 .. 18 /\ Script[at].do = "post"
    BY <1>6, <1>9 DEF PostAndWait
  <2>2. Script[at].request \in Request
    BY <2>1, <1>1, ScriptFacts
  <2>3. CASE Send(Here.request) \/ StopWaiting(Here.request)
    BY <1>1, <1>5, <2>1, <2>2, <2>3 DEF Here
  <2>4. CASE /\ \/ MayGoOn(Here.request) /\ Proceed
                \/ ~MayGoOn(Here.request) /\ Failed(Here.request) /\ Return("error")
             /\ WorldStays
    BY <1>2, <1>7, <1>8, <2>1, <2>4 DEF Here, MayGoOn
  <2> QED
    BY <1>9, <2>3, <2>4 DEF PostAndWait
<1>10. CASE TryHolderMint
  <2>1. at \in 1 .. 18 /\ Script[at].do = "holderMint"
    BY <1>6, <1>10 DEF TryHolderMint
  <2>2. HolderMint \in Request
    BY DemoRequestFacts
  <2>3. CASE Send(HolderMint) \/ StopWaiting(HolderMint)
    BY <1>1, <1>5, <2>2, <2>3
  <2>4. CASE Step /\ WorldStays
    BY <1>2, <1>8, <2>1, <2>4
  <2> QED
    BY <1>10, <2>3, <2>4 DEF TryHolderMint
<1>11. CASE DriverStep /\ ~PostAndWait /\ ~TryHolderMint
  <2>1. WorldStays
    BY <1>11 DEF DriverStep, LoadDeployment, Spawn, WaitHealthy, GetInfo, ShowBalances, ReadSupply,
                 Reconcile, TryWrongKey, Complete
  <2>2. Moves
    <3>1. CASE LoadDeployment
      BY <1>6, <1>7, <1>8, <3>1 DEF LoadDeployment
    <3>2. CASE Spawn
      BY <1>6, <3>2 DEF Spawn
    <3>3. CASE WaitHealthy
      BY <1>6, <1>7, <1>8, <3>3 DEF WaitHealthy
    <3>4. CASE GetInfo
      BY <1>6, <1>7, <1>8, <3>4 DEF GetInfo
    <3>5. CASE ShowBalances
      BY <1>6, <1>8, <3>5 DEF ShowBalances
    <3>6. CASE ReadSupply
      BY <1>6, <1>8, <3>6 DEF ReadSupply
    <3>7. CASE Reconcile
      BY <1>6, <1>8, <3>7 DEF Reconcile
    <3>8. CASE TryWrongKey
      BY <1>6, <1>8, <3>8 DEF TryWrongKey
    <3>9. CASE Complete
      BY <1>7, <3>9 DEF Complete
    <3> QED
      BY <1>11, <3>1, <3>2, <3>3, <3>4, <3>5, <3>6, <3>7, <3>8, <3>9 DEF DriverStep
  <2> QED
    BY <1>2, <2>1, <2>2
<1>12. CASE Interrupt \/ Terminate
  BY <1>2, <1>7, <1>12 DEF Interrupt, Terminate
<1>13. CASE \E c \in Child : ChildStarts(c)
  BY <1>2, <1>13 DEF ChildStarts, WorldStays
<1>14. CASE \E r \in WebRequest : ((MayPost /\ ProxyPost(r)) \/ ProxyTimeout(r)) /\ UNCHANGED driverVars
  <2>1. PICK r \in WebRequest : (Ask(r) \/ Lose(r)) /\ at' = at
    BY <1>14 DEF ProxyPost, ProxyTimeout, Post, PostFails, GiveUpOn, driverVars
  <2>2. r \in Request /\ \A q \in DemoRequest : q # r
    BY DemoRequestFacts, ScenarioDistinct
  <2> QED
    BY <1>1, <1>3, <2>1, <2>2
<1>15. CASE (ReadNext \/ AnswerState) /\ UNCHANGED driverVars
  BY <1>2, <1>15 DEF ReadNext, AnswerState, interbankVars, driverVars, WorldStays
<1>16. CASE \E r \in Request :
               /\ Mined(r) \/ Drop(r) \/ ServiceGoesOn(r) \/ ServiceFails(r)
               /\ UNCHANGED <<driverVars, webVars>>
  <2>1. ASSUME NEW r \in Request, Drop(r) PROVE Quiet /\ Kept
    BY <2>1 DEF Drop, Forget
  <2> QED
    BY <1>4, <1>16, <2>1 DEF ServiceGoesOn, ServiceFails, driverVars
<1>17. CASE UNCHANGED clientsVars
  BY <1>2, <1>17 DEF clientsVars, interbankVars, driverVars, WorldStays
<1> QED
  BY <1>9, <1>10, <1>11, <1>12, <1>13, <1>14, <1>15, <1>16, <1>17 DEF ClientsNext

\* The driver keeps to the order of its script.
LEMMA OrderNext ==
    ASSUME CoreInv, OneAfterAnother, [ClientsNext]_clientsVars
    PROVE  OneAfterAnother'
<1>1. /\ at \in 1 .. 19
      /\ OnboardBankB \in Request /\ OnboardMerchant \in Request /\ MintToBankB \in Request
      /\ OnboardBankB \in DemoRequest /\ OnboardMerchant \in DemoRequest
      /\ MintToBankB \in DemoRequest /\ PayMerchant \in DemoRequest
      /\ HolderMint \notin {OnboardMerchant, MintToBankB, PayMerchant}
  BY ScenarioFacts, ScenarioDistinct DEF CoreInv, PortsInv, DriverShape
<1>2. \A r \in {OnboardBankB, OnboardMerchant, MintToBankB} : IsAnswered(r) => IsAnswered(r)'
  BY <1>1, DriverPosts
<1>3. /\ at' > 9 => IsAnswered(OnboardBankB)
      /\ at' > 10 => IsAnswered(OnboardMerchant)
      /\ at' > 11 => IsAnswered(MintToBankB)
  <2>1. CASE at' = at \/ at' = 1
    BY <1>1, <2>1 DEF OneAfterAnother
  <2>2. CASE at' = at + 1 /\ (Script[at].do = "post" => IsAnswered(Script[at].request))
    <3>1. at' > 9 => at > 9 \/ at = 9
      BY <1>1, <2>2
    <3>2. at' > 10 => at > 10 \/ at = 10
      BY <1>1, <2>2
    <3>3. at' > 11 => at > 11 \/ at = 11
      BY <1>1, <2>2
    <3> QED
      BY <2>2, <3>1, <3>2, <3>3, PostsThere DEF OneAfterAnother
  <2> QED
    BY <2>1, <2>2, DriverPosts
<1>4. ASSUME NEW r \in {OnboardMerchant, MintToBankB, PayMerchant}, outcome[r] = "idle", outcome'[r] # "idle"
      PROVE  /\ r = OnboardMerchant => at = 10
             /\ r = MintToBankB => at = 11
             /\ r = PayMerchant => at = 13
  <2>1. at \in 1 .. 18 /\ Script[at].do = "post" /\ Script[at].request = r
    BY <1>1, <1>4, DriverPosts
  <2> QED
    BY <2>1, PostsAt, ScenarioDistinct
<1>5. outcome'[OnboardMerchant] # "idle" => IsAnswered(OnboardBankB)
  BY <1>1, <1>4 DEF OneAfterAnother
<1>6. outcome'[MintToBankB] # "idle" => IsAnswered(OnboardBankB) /\ IsAnswered(OnboardMerchant)
  BY <1>1, <1>4 DEF OneAfterAnother
<1>7. outcome'[PayMerchant] # "idle" =>
          IsAnswered(OnboardBankB) /\ IsAnswered(OnboardMerchant) /\ IsAnswered(MintToBankB)
  BY <1>1, <1>4 DEF OneAfterAnother
<1> QED
  BY <1>2, <1>3, <1>5, <1>6, <1>7 DEF OneAfterAnother

\* What has run stays so.
LEMMA RanStays ==
    ASSUME CoreInv, [ClientsNext]_clientsVars
    PROVE  ran \subseteq ran'
<1>1. CASE WorldKept
  BY <1>1 DEF WorldKept
<1>2. CASE \E r \in Request : RequestMoves(r)
  BY <1>2 DEF RequestMoves, Ask, Advance, Answer, Refuse, Lose
<1>3. CASE \E r \in Request : Mined(r)
  BY <1>3 DEF Mined
<1> QED
  BY <1>1, <1>2, <1>3, WorldMoves DEF CoreInv

\* A service answers once every transaction of the request has run.
LEMMA AnsweredNext ==
    ASSUME CoreInv, AnsweredRan, [ClientsNext]_clientsVars
    PROVE  AnsweredRan'
<1>1. WorldShape /\ WorldShape' /\ ran \subseteq ran' /\ Last \in [Request -> {1, 2}]
  BY WorldShapeNext, RanStays, SubmissionAssumption DEF CoreInv
<1>2. \A r \in Request, i \in {1, 2} : Ran(r, i) => Ran(r, i)'
  BY <1>1 DEF Ran
<1>3. \A r \in Request : 1 .. Last[r] \subseteq {1, 2}
  BY <1>1
<1>4. CASE WorldKept
  BY <1>4 DEF WorldKept, AnsweredRan, IsAnswered, Ran
<1>5. CASE \E r \in Request : Mined(r)
  <2>1. UNCHANGED <<outcome, step>>
    BY <1>5 DEF Mined, Execute
  <2> QED
    BY <1>2, <1>3, <2>1 DEF AnsweredRan, IsAnswered
<1>6. ASSUME NEW r \in Request, RequestMoves(r)
      PROVE  AnsweredRan'
  <2>1. \A q \in Request : step'[q] <= Last[q]
    <3>1. CASE Advance(r)
      <4>1. step' = [step EXCEPT ![r] = step[r] + 1] /\ step[r] < Last[r]
        BY <3>1 DEF Advance
      <4>2. step[r] \in {1, 2} /\ Last[r] \in {1, 2}
        BY <1>1 DEF WorldShape
      <4>3. step[r] + 1 <= Last[r]
        BY <4>1, <4>2
      <4> QED
        BY <1>1, <4>1, <4>3 DEF AnsweredRan, WorldShape
    <3>2. CASE ~Advance(r)
      BY <1>6, <3>2 DEF RequestMoves, Ask, Answer, Refuse, Lose, AnsweredRan
    <3> QED
      BY <3>1, <3>2
  <2>2. ASSUME NEW q \in Request, outcome'[q] = "answered", NEW i \in 1 .. Last[q]
        PROVE  Ran(q, i)
    <3>1. CASE outcome[q] = "answered"
      BY <2>2, <3>1 DEF AnsweredRan, IsAnswered
    <3>2. CASE outcome[q] # "answered"
      <4>1. q = r /\ OwnReceipts(r)
        BY <1>1, <1>6, <2>2, <3>2 DEF RequestMoves, Ask, Advance, Refuse, Lose, Answer, WorldShape
      <4> QED
        BY <2>2, <4>1 DEF Ran, OwnReceipts
    <3> QED
      BY <3>1, <3>2
  <2> QED
    BY <1>2, <1>3, <2>1, <2>2 DEF AnsweredRan, IsAnswered
<1> QED
  BY <1>4, <1>5, <1>6, WorldMoves DEF CoreInv

\* What a transaction makes of the parts of the ledger the scenario depends on.
LEMMA EffectParts ==
    ASSUME NEW ledger \in BlockSet, NEW r \in Request, Accepts(ledger, r),
           via[r] \in Banks, step[r] \in {1, 2}
    PROVE  LET new == Effect(ledger, r)
               amount == Packed(r.amount)
           IN  /\ r.op = "authorize" =>
                      /\ new.listed = ledger.listed \cup {<<AuthorizedPolicy[step[r]], r.to>>}
                      /\ new.allowance = ledger.allowance /\ new.reserve = ledger.reserve
                      /\ new.balance = ledger.balance
               /\ r.op = "mint" =>
                      /\ new.listed = ledger.listed
                      /\ \A a \in Account : new.balance[a] =
                             IF a = r.to THEN ledger.balance[a] + amount ELSE ledger.balance[a]
               /\ r.op = "transfer" =>
                      /\ new.listed = ledger.listed
                      /\ new.allowance = ledger.allowance /\ new.reserve = ledger.reserve
                      /\ \A a \in Account : new.balance[a] =
                             IF via[r].address = r.to THEN ledger.balance[a]
                             ELSE IF a = r.to THEN ledger.balance[a] + amount
                             ELSE IF a = via[r].address THEN ledger.balance[a] - amount
                             ELSE ledger.balance[a]
<1> DEFINE amount == Packed(r.amount)
           new == Effect(ledger, r)
<1>1. /\ r.op \in {"mint", "transfer", "authorize"} /\ r.to \in Account /\ amount \in Nat
      /\ via[r].address \in Account /\ ledger.balance \in [Account -> Nat]
  BY RequestFacts, AddressFacts DEF BlockSet
<1> HIDE DEF amount
<1>2. CASE r.op = "authorize"
  <2>1. new = [ledger EXCEPT !.listed = ledger.listed \cup {<<AuthorizedPolicy[step[r]], r.to>>}]
    BY <1>2 DEF Effect
  <2> HIDE DEF new
  <2> QED
    BY <1>2, <2>1 DEF BlockSet, new
<1>3. CASE r.op = "mint"
  <2> DEFINE balance == [ledger.balance EXCEPT ![r.to] = ledger.balance[r.to] + amount]
  <2>1. new = [ledger EXCEPT !.supply = ledger.supply + amount, !.reserve = ledger.reserve + amount,
                             !.allowance = ledger.allowance - amount, !.balance = balance]
    BY <1>3 DEF Effect, amount
  <2>2. \A a \in Account : balance[a] =
            IF a = r.to THEN ledger.balance[a] + amount ELSE ledger.balance[a]
    BY <1>1
  <2> HIDE DEF balance, new
  <2>3. new.balance = balance /\ new.listed = ledger.listed
    BY <2>1 DEF BlockSet
  <2> QED
    BY <1>3, <2>2, <2>3 DEF new, amount
<1>4. CASE r.op = "transfer"
  <2> DEFINE from == via[r].address
             left == [ledger.balance EXCEPT ![from] = ledger.balance[from] - amount]
             both == [left EXCEPT ![r.to] = left[r.to] + amount]
  <2>1. new = [ledger EXCEPT !.balance = both]
    BY <1>4 DEF Effect, Paid, amount
  <2>2. \A a \in Account : both[a] =
            IF from = r.to THEN ledger.balance[a]
            ELSE IF a = r.to THEN ledger.balance[a] + amount
            ELSE IF a = from THEN ledger.balance[a] - amount
            ELSE ledger.balance[a]
    BY <1>1
  <2> HIDE DEF both, new
  <2>3. /\ new.balance = both /\ new.listed = ledger.listed
        /\ new.allowance = ledger.allowance /\ new.reserve = ledger.reserve
    BY <2>1 DEF BlockSet
  <2> QED
    BY <1>4, <2>2, <2>3 DEF new, amount
<1> QED
  BY <1>1, <1>2, <1>3, <1>4

\* The block of a transaction, by its parts.
LEMMA BlockParts ==
    ASSUME Tip \in BlockSet, NEW r \in Request, via[r] \in Banks, step[r] \in {1, 2}
    PROVE  /\ Accepts(Tip, r) =>
                  /\ Block(r).status = "success" /\ Block(r).listed = Effect(Tip, r).listed
                  /\ Block(r).allowance = Effect(Tip, r).allowance
                  /\ Block(r).reserve = Effect(Tip, r).reserve
                  /\ Block(r).balance = Effect(Tip, r).balance
           /\ ~Accepts(Tip, r) =>
                  /\ Block(r).status = "reverted" /\ Block(r).listed = Tip.listed
                  /\ Block(r).allowance = Tip.allowance /\ Block(r).reserve = Tip.reserve
                  /\ Block(r).balance = Tip.balance
<1> DEFINE accepted == Accepts(Tip, r)
           ledger == IF accepted THEN Effect(Tip, r) ELSE Tip
<1>1. ledger \in BlockSet
  BY EffectFacts
<1>2. Block(r) = [ledger EXCEPT !.tx = <<r, step[r]>>,
                                !.status = IF accepted THEN "success" ELSE "reverted"]
  BY DEF Block
<1>3. /\ accepted => ledger = Effect(Tip, r)
      /\ ~accepted => ledger = Tip
  OBVIOUS
<1> HIDE DEF ledger
<1>4. /\ Block(r).listed = ledger.listed /\ Block(r).allowance = ledger.allowance
      /\ Block(r).reserve = ledger.reserve /\ Block(r).balance = ledger.balance
      /\ Block(r).status = IF accepted THEN "success" ELSE "reverted"
  BY <1>1, <1>2 DEF BlockSet
<1> QED
  BY <1>3, <1>4

\* The tip after a step.
LEMMA NewTip ==
    ASSUME CoreInv, [ClientsNext]_clientsVars
    PROVE  \/ UNCHANGED <<blocks, ran>> /\ Tip' = Tip
           \/ \E r \in Request : Mined(r) /\ Tip' = Block(r)
<1>1. blocks \in Seq(BlockSet) /\ Len(blocks) \in Nat /\ Len(blocks) >= 1 /\ Tip \in BlockSet
  BY DEF CoreInv, LedgerInv, Tip
<1>2. CASE WorldKept
  BY <1>2 DEF WorldKept, Tip
<1>3. CASE \E r \in Request : RequestMoves(r)
  BY <1>3 DEF RequestMoves, Ask, Advance, Answer, Refuse, Lose, Tip
<1>4. ASSUME NEW r \in Request, Mined(r)
      PROVE  Tip' = Block(r)
  <2>1. blocks' = Append(blocks, Block(r))
    BY <1>4 DEF Mined
  <2>2. Block(r) \in BlockSet
    BY <1>1, BlockFacts DEF CoreInv, WorldShape
  <2> QED
    BY <1>1, <2>1, <2>2 DEF Tip
<1> QED
  BY <1>2, <1>3, <1>4, WorldMoves DEF CoreInv

\* Nothing takes an account off a list again.
LEMMA ListedNext ==
    ASSUME CoreInv, OnboardedListed, [ClientsNext]_clientsVars
    PROVE  OnboardedListed'
<1>1. CASE UNCHANGED <<blocks, ran>> /\ Tip' = Tip
  BY <1>1 DEF OnboardedListed, Ran
<1>2. ASSUME NEW r \in Request, Mined(r), Tip' = Block(r)
      PROVE  OnboardedListed'
  <2>1. Tip \in BlockSet /\ via[r] \in Banks /\ step[r] \in {1, 2}
    BY DEF CoreInv, LedgerInv, Tip, WorldShape
  <2>2. ran' = ran \cup {<<<<r, step[r]>>, Block(r).status>>}
    BY <1>2 DEF Mined
  <2>3. Tip.listed \subseteq Block(r).listed
    <3>1. CASE Accepts(Tip, r)
      BY <2>1, <3>1, BlockParts, EffectParts, RequestFacts
    <3>2. CASE ~Accepts(Tip, r)
      BY <2>1, <3>2, BlockParts
    <3> QED
      BY <3>1, <3>2
  <2>4. r.op = "authorize" => <<AuthorizedPolicy[step[r]], r.to>> \in Block(r).listed
    <3> SUFFICES ASSUME r.op = "authorize"
                 PROVE  <<AuthorizedPolicy[step[r]], r.to>> \in Block(r).listed
      OBVIOUS
    <3>1. Accepts(Tip, r)
      BY DEF Accepts
    <3>2. Effect(Tip, r).listed = Tip.listed \cup {<<AuthorizedPolicy[step[r]], r.to>>}
      BY <2>1, <3>1, EffectParts
    <3> QED
      BY <2>1, <3>1, <3>2, BlockParts
  <2> SUFFICES ASSUME NEW q \in Request, NEW i \in {1, 2}, q.op = "authorize", Ran(q, i)'
               PROVE  <<AuthorizedPolicy[i], q.to>> \in Block(r).listed
    BY <1>2 DEF OnboardedListed
  <2>5. CASE Ran(q, i)
    BY <2>3, <2>5 DEF OnboardedListed
  <2>6. CASE ~Ran(q, i)
    <3>1. PICK status \in Status : <<<<q, i>>, status>> \in ran'
      BY DEF Ran
    <3>2. <<<<q, i>>, status>> = <<<<r, step[r]>>, Block(r).status>>
      BY <2>2, <2>6, <3>1 DEF Ran
    <3> QED
      BY <2>4, <3>2
  <2> QED
    BY <2>5, <2>6
<1> QED
  BY <1>1, <1>2, NewTip

\* Bank B's own service took the payment to the merchant.
PaidByBankB ==
    portEnv = Unset /\ outcome[PayMerchant] \notin {"idle", "refused"} => via[PayMerchant] = BankB

\* PORT is what it was when the demo was started.
LEMMA EnvironmentStays ==
    ASSUME CoreInv, [ClientsNext]_clientsVars
    PROVE  portEnv' = portEnv
<1>1. CASE DriverStep \/ Interrupt \/ Terminate
  BY <1>1, DriverMoves DEF CoreInv, PortsInv, DriverShape
<1> QED
  BY <1>1 DEF ClientsNext, clientsVars, driverVars, ChildStarts, driverConfig

\* The request at Bank B's URL is taken by the service there, which is Bank B's.
LEMMA PayerNext ==
    ASSUME PortsAsIntended, CoreInv, PaidByBankB, [ClientsNext]_clientsVars
    PROVE  PaidByBankB'
<1> SUFFICES ASSUME portEnv = Unset, outcome'[PayMerchant] \notin {"idle", "refused"}
             PROVE  via'[PayMerchant] = BankB
  BY EnvironmentStays DEF PaidByBankB
<1>1. PayMerchant \in Request /\ PayMerchant.url = BankB.deposit /\ WorldShape
  BY ScenarioFacts, ScenarioDistinct DEF CoreInv
<1>2. CASE outcome[PayMerchant] \notin {"idle", "refused"}
  <2>1. via'[PayMerchant] = via[PayMerchant]
    BY <1>1, <1>2, ChainGrows DEF CoreInv
  <2> QED
    BY <1>2, <2>1 DEF PaidByBankB
<1>3. CASE outcome[PayMerchant] \in {"idle", "refused"}
  <2>1. PICK r \in Request : RequestMoves(r)
    <3>1. CASE WorldKept
      BY <1>3, <3>1 DEF WorldKept
    <3>2. CASE \E r \in Request : Mined(r)
      BY <1>3, <3>2 DEF Mined, Execute
    <3> QED
      BY <3>1, <3>2, WorldMoves DEF CoreInv
  <2>2. r = PayMerchant /\ Ask(r) /\ outcome'[r] # "refused"
    BY <1>1, <1>3, <2>1 DEF RequestMoves, Ask, Advance, Answer, Refuse, Lose, WorldShape
  <2>3. PICK b \in Banks : via' = [via EXCEPT ![r] = b] /\ ServiceOf(b) \in holder[r.url]
    BY <2>1, <2>2 DEF RequestMoves
  <2>4. b # BankA
    <3> SUFFICES ASSUME b = BankA PROVE FALSE
      OBVIOUS
    <3>1. r.url = BankA.deposit
      BY <2>3, RequestFacts, IssuerPort DEF CoreInv
    <3>2. BankB.deposit # BankA.deposit
      BY PortFacts
    <3> QED
      BY <1>1, <2>2, <3>1, <3>2
  <2> QED
    BY <1>1, <2>2, <2>3, <2>4, PortFacts DEF WorldShape
<1> QED
  BY <1>2, <1>3

\* No other client's transaction was mined, and PORT is not set.
Undisturbed == portEnv = Unset /\ \A j \in 2 .. Len(blocks) : blocks[j].tx[1] \in DemoRequest

\* What the scenario finds on a chain that is its own: the limits before its mint, the
\* minted tokens after it.
Prepared ==
    /\ ~Ran(MintToBankB, 1) => Tip.allowance = Limits.allowance /\ Tip.reserve \in Surplus
    /\ Ran(MintToBankB, 1) /\ ~Ran(PayMerchant, 1) => Tip.balance[BankB.address] >= 4 * Quarter

\* The inductive invariant of the scenario.
ScenarioInv ==
    /\ OneAfterAnother /\ AnsweredRan /\ OnboardedListed /\ PaidByBankB
    /\ Undisturbed => Prepared
    /\ UndisturbedDemoSucceeds

\* The amounts of the demo are packed as they are.
LEMMA AmountsFit ==
    ASSUME LimitsSuffice
    PROVE  /\ Packed(MintToBankB.amount) = 4 * Quarter /\ Packed(PayMerchant.amount) = Quarter
           /\ Quarter \in Nat /\ Quarter >= 1
<1>1. Quarter \in Nat /\ Quarter >= 1 /\ Word \in Nat /\ 4 * Quarter < Word
  BY DriverAssumption, InterbankAssumption DEF LimitsSuffice
<1>2. \A n \in Nat : n < Word => n % Word = n
  BY <1>1
<1>3. 4 * Quarter \in Nat /\ Quarter < Word
  BY <1>1
<1> QED
  BY <1>1, <1>2, <1>3, ScenarioFacts DEF Packed

\* The transactions of the demo are accepted when their turn comes.
LEMMA DemoAccepted ==
    ASSUME LimitsSuffice, CoreInv, MintInv, ScenarioInv, Undisturbed,
           NEW r \in DemoRequest, Mined(r)
    PROVE  Accepts(Tip, r) /\ r # HolderMint
<1>1. /\ outcome[r] \in {"open", "unsure"} /\ ~Ran(r, step[r]) /\ r \in Request
      /\ step[r] \in {1, 2} /\ step[r] <= Last[r] /\ WorldShape
  BY ScenarioDistinct DEF Mined, Execute, CoreInv, WorldShape, ScenarioInv, AnsweredRan
<1>2. r # HolderMint
  <2> SUFFICES ASSUME r = HolderMint PROVE FALSE
    OBVIOUS
  <2>1. BankB.deposit # BankA.deposit
    BY PortFacts
  <2>2. Issuing(r)
    BY <2>1, ScenarioFacts DEF Issuing
  <2> QED
    BY <1>1, <2>2 DEF MintInv, Undisturbed
<1>3. \A q \in Request : IsAnswered(q) => \A i \in 1 .. Last[q] : Ran(q, i)
  BY DEF ScenarioInv, AnsweredRan
<1>4. AuthorizedPolicy[1] = Policies.transfer /\ AuthorizedPolicy[2] = Policies.scMint
  BY DEF AuthorizedPolicy
<1>5. IsAnswered(OnboardBankB) =>
          {<<Policies.transfer, BankB.address>>, <<Policies.scMint, BankB.address>>} \subseteq Tip.listed
  <2>1. OnboardBankB \in Request /\ Last[OnboardBankB] = 2
    BY ScenarioFacts, ScenarioDistinct
  <2>2. IsAnswered(OnboardBankB) => Ran(OnboardBankB, 1) /\ Ran(OnboardBankB, 2)
    BY <1>3, <2>1
  <2> QED
    BY <1>4, <2>1, <2>2, ScenarioFacts DEF ScenarioInv, OnboardedListed
<1>6. IsAnswered(OnboardMerchant) => <<Policies.transfer, Merchant>> \in Tip.listed
  <2>1. OnboardMerchant \in Request /\ Last[OnboardMerchant] = 2
    BY ScenarioFacts, ScenarioDistinct
  <2>2. IsAnswered(OnboardMerchant) => Ran(OnboardMerchant, 1)
    BY <1>3, <2>1
  <2> QED
    BY <1>4, <2>1, <2>2, ScenarioFacts DEF ScenarioInv, OnboardedListed
<1>7. CASE r.op = "authorize"
  BY <1>2, <1>7 DEF Accepts
<1>8. CASE r = MintToBankB
  <2>1. step[r] = 1
    BY <1>1, <1>8, ScenarioDistinct
  <2>2. Tip.allowance = Limits.allowance /\ Tip.reserve \in Surplus
    BY <1>1, <1>8, <2>1 DEF ScenarioInv, Prepared
  <2>3. IsAnswered(OnboardBankB)
    BY <1>1, <1>8 DEF ScenarioInv, OneAfterAnother
  <2>4. 4 * Quarter \in 1 .. Tip.allowance /\ 4 * Quarter <= Limits.transaction
        /\ Tip.reserve + 4 * Quarter <= Limits.reserve
    <3>1. Tip.reserve + 4 * Quarter <= Limits.reserve
      BY <2>2 DEF LimitsSuffice
    <3>2. Limits.allowance \in Nat
      BY InterbankAssumption
    <3>3. 4 * Quarter \in 1 .. Limits.allowance
      BY <3>2, AmountsFit DEF LimitsSuffice
    <3> QED
      BY <2>2, <3>1, <3>3 DEF LimitsSuffice
  <2>5. r.op = "mint" /\ r.to = BankB.address /\ Packed(r.amount) = 4 * Quarter
    BY <1>8, ScenarioFacts, AmountsFit
  <2>6. Accepts(Tip, r)
    BY <1>5, <2>3, <2>4, <2>5 DEF Accepts
  <2> QED
    BY <1>2, <2>6
<1>9. CASE r = PayMerchant
  <2>1. step[r] = 1
    BY <1>1, <1>9, ScenarioDistinct
  <2>2. IsAnswered(OnboardBankB) /\ IsAnswered(OnboardMerchant) /\ IsAnswered(MintToBankB)
    BY <1>1, <1>9 DEF ScenarioInv, OneAfterAnother
  <2>3. MintToBankB \in Request /\ Last[MintToBankB] = 1
    BY ScenarioFacts, ScenarioDistinct
  <2>4. Ran(MintToBankB, 1)
    BY <1>3, <2>2, <2>3
  <2>5. Tip.balance[BankB.address] >= 4 * Quarter
    BY <1>1, <1>9, <2>1, <2>4 DEF ScenarioInv, Prepared
  <2>6. Tip.balance[BankB.address] \in Nat
    <3>1. BankB \in Banks
      BY PortFacts
    <3>2. BankB.address \in Account
      BY <3>1, AddressFacts
    <3>3. Tip \in BlockSet
      BY DEF CoreInv, LedgerInv, Tip
    <3> QED
      BY <3>2, <3>3 DEF BlockSet
  <2>7. Quarter <= Tip.balance[BankB.address]
    BY <2>5, <2>6, AmountsFit
  <2>8. via[r] = BankB
    BY <1>1, <1>9 DEF ScenarioInv, PaidByBankB, Undisturbed
  <2>9. r.op = "transfer" /\ r.to = Merchant /\ Packed(r.amount) = Quarter
    BY <1>9, ScenarioFacts, AmountsFit
  <2>10. Accepts(Tip, r)
    BY <1>5, <1>6, <2>2, <2>7, <2>8, <2>9 DEF Accepts
  <2> QED
    BY <1>2, <2>10
<1> QED
  BY <1>2, <1>7, <1>8, <1>9, ScenarioDistinct

\* And leave the chain prepared for the next.
LEMMA StaysPrepared ==
    ASSUME LimitsSuffice, CoreInv, MintInv, ScenarioInv, Undisturbed,
           NEW r \in DemoRequest, Mined(r), Tip' = Block(r)
    PROVE  Prepared' /\ Block(r).status = "success"
<1>1. Accepts(Tip, r) /\ r # HolderMint /\ Prepared
  BY DemoAccepted DEF ScenarioInv
<1>2. Tip \in BlockSet /\ via[r] \in Banks /\ step[r] \in {1, 2} /\ r \in Request /\ step[r] <= Last[r]
  BY ScenarioDistinct DEF CoreInv, LedgerInv, Tip, WorldShape, ScenarioInv, AnsweredRan
<1>3. /\ Block(r).status = "success"
      /\ Tip'.allowance = Effect(Tip, r).allowance /\ Tip'.reserve = Effect(Tip, r).reserve
      /\ Tip'.balance = Effect(Tip, r).balance
  BY <1>1, <1>2, BlockParts
<1>4. ran' = ran \cup {<<<<r, step[r]>>, "success">>}
  BY <1>3 DEF Mined
<1>5. \A q \in Request : \A i \in {1, 2} : Ran(q, i)' <=> Ran(q, i) \/ (q = r /\ i = step[r])
  BY <1>4 DEF Ran, Status
<1>6. MintToBankB \in Request /\ PayMerchant \in Request /\ BankB.address \in Account
  BY ScenarioFacts, ScenarioDistinct, AddressFacts, PortFacts
<1>7. CASE r.op = "authorize"
  <2>1. r # MintToBankB /\ r # PayMerchant
    BY <1>7, ScenarioFacts
  <2>2. /\ Tip'.allowance = Tip.allowance /\ Tip'.reserve = Tip.reserve /\ Tip'.balance = Tip.balance
    BY <1>1, <1>2, <1>3, <1>7, EffectParts
  <2>3. (Ran(MintToBankB, 1)' <=> Ran(MintToBankB, 1)) /\ (Ran(PayMerchant, 1)' <=> Ran(PayMerchant, 1))
    BY <1>5, <1>6, <2>1
  <2> QED
    BY <1>1, <1>3, <2>2, <2>3 DEF Prepared
<1>8. CASE r = MintToBankB
  <2>1. step[r] = 1
    BY <1>2, <1>8, ScenarioDistinct
  <2>2. Ran(MintToBankB, 1)'
    BY <1>5, <1>6, <1>8, <2>1
  <2>3. r.op = "mint" /\ r.to = BankB.address /\ Packed(r.amount) = 4 * Quarter
    BY <1>8, ScenarioFacts, AmountsFit
  <2>4. Effect(Tip, r).balance[BankB.address] = Tip.balance[BankB.address] + 4 * Quarter
    BY <1>1, <1>2, <1>6, <2>3, EffectParts
  <2>5. Tip.balance[BankB.address] \in Nat
    BY <1>2, <1>6 DEF BlockSet
  <2>6. Tip'.balance[BankB.address] >= 4 * Quarter
    BY <1>3, <2>4, <2>5, AmountsFit
  <2> QED
    BY <1>3, <2>2, <2>6 DEF Prepared
<1>9. CASE r = PayMerchant
  <2>1. step[r] = 1
    BY <1>2, <1>9, ScenarioDistinct
  <2>2. Ran(PayMerchant, 1)'
    BY <1>5, <1>6, <1>9, <2>1
  <2>3. Ran(MintToBankB, 1)' <=> Ran(MintToBankB, 1)
    BY <1>5, <1>6, <1>9, ScenarioDistinct
  <2>4. Tip'.allowance = Tip.allowance /\ Tip'.reserve = Tip.reserve
    <3>1. r.op = "transfer"
      BY <1>9, ScenarioFacts
    <3> QED
      BY <1>1, <1>2, <1>3, <3>1, EffectParts
  <2> QED
    BY <1>1, <1>3, <2>2, <2>3, <2>4 DEF Prepared
<1> QED
  BY <1>1, <1>7, <1>8, <1>9, ScenarioDistinct

\* It holds on the chain the demo finds.
LEMMA ScenarioStart ==
    ASSUME ClientsInit
    PROVE  ScenarioInv
<1>1. PICK surplus \in Surplus : blocks = <<Genesis(surplus)>>
  BY DEF ClientsInit, InterbankInit
<1>2. /\ \A r \in Request : outcome[r] = "idle" /\ step[r] = 1
      /\ ran = {} /\ at = 1
  BY DEF ClientsInit, InterbankInit, Init, DriverInit
<1>3. Len(blocks) = 1 /\ Tip = Genesis(surplus)
  BY <1>1 DEF Tip
<1>4. Tip.allowance = Limits.allowance /\ Tip.reserve \in Surplus
  BY <1>3 DEF Genesis
<1>5. \A r \in Request, i \in {1, 2} : ~Ran(r, i)
  BY <1>2 DEF Ran
<1>6. /\ OnboardMerchant \in Request /\ MintToBankB \in Request /\ PayMerchant \in Request
  BY ScenarioFacts, ScenarioDistinct
<1>7. OneAfterAnother
  BY <1>2, <1>6 DEF OneAfterAnother
<1>8. AnsweredRan
  <2>1. \A r \in Request : Last[r] \in {1, 2}
    BY SubmissionAssumption
  <2>2. ASSUME NEW r \in Request PROVE 1 <= Last[r]
    <3>1. Last[r] = 1 \/ Last[r] = 2
      BY <2>1
    <3> QED
      BY <3>1
  <2> QED
    BY <1>2, <2>2 DEF AnsweredRan, IsAnswered
<1>9. OnboardedListed
  BY <1>5 DEF OnboardedListed
<1>10. PaidByBankB
  BY <1>2, <1>6 DEF PaidByBankB
<1>11. Prepared
  BY <1>4, <1>5, <1>6 DEF Prepared
<1>12. UndisturbedDemoSucceeds
  BY <1>3 DEF UndisturbedDemoSucceeds
<1> QED
  BY <1>7, <1>8, <1>9, <1>10, <1>11, <1>12 DEF ScenarioInv

\* Every step of every client keeps it.
LEMMA ScenarioNext ==
    ASSUME PortsAsIntended, LimitsSuffice, CoreInv, MintInv, ScenarioInv, [ClientsNext]_clientsVars
    PROVE  ScenarioInv'
<1>1. OneAfterAnother' /\ AnsweredRan' /\ OnboardedListed' /\ PaidByBankB'
  BY OrderNext, AnsweredNext, ListedNext, PayerNext DEF ScenarioInv
<1>2. portEnv' = portEnv
  BY EnvironmentStays
<1>3. CASE UNCHANGED <<blocks, ran>> /\ Tip' = Tip
  <2>1. (Undisturbed' <=> Undisturbed) /\ (Prepared' <=> Prepared)
    BY <1>2, <1>3 DEF Undisturbed, Prepared, Ran
  <2>2. UndisturbedDemoSucceeds'
    BY <1>2, <1>3 DEF UndisturbedDemoSucceeds, ScenarioInv
  <2> QED
    BY <1>1, <2>1, <2>2 DEF ScenarioInv
<1>4. ASSUME NEW r \in Request, Mined(r), Tip' = Block(r)
      PROVE  ScenarioInv'
  <2>1. Tip \in BlockSet /\ blocks \in Seq(BlockSet) /\ Len(blocks) \in Nat /\ Len(blocks) >= 1
    BY DEF CoreInv, LedgerInv, Tip
  <2> DEFINE b == Block(r)
             n == Len(blocks)
  <2>2. b.tx = <<r, step[r]>> /\ b \in BlockSet
    BY <2>1, BlockFacts DEF CoreInv, WorldShape
  <2>3. blocks' = Append(blocks, b)
    BY <1>4 DEF Mined
  <2>4. b.tx[1] = r
    BY <2>2
  <2> HIDE DEF b
  <2>5. /\ Len(blocks') = n + 1 /\ blocks'[n + 1] = b
        /\ \A k \in 1 .. n : blocks'[k] = blocks[k]
    BY <2>1, <2>2, <2>3
  <2> HIDE DEF n
  <2>6. n \in Nat /\ n >= 1 /\ n = Len(blocks)
    BY <2>1 DEF n
  <2>7. ASSUME Undisturbed' PROVE Undisturbed /\ r \in DemoRequest
    <3>1. \A j \in 2 .. n + 1 : blocks'[j].tx[1] \in DemoRequest
      BY <2>5, <2>7 DEF Undisturbed
    <3>2. n + 1 \in 2 .. n + 1 /\ \A j \in 2 .. n : j \in 1 .. n /\ j \in 2 .. n + 1
      BY <2>6
    <3> QED
      BY <1>2, <2>4, <2>5, <2>6, <2>7, <3>1, <3>2 DEF Undisturbed
  <2>8. ASSUME Undisturbed' PROVE Prepared' /\ b.status = "success"
    BY <1>4, <2>7, <2>8, StaysPrepared DEF b
  <2>9. ASSUME NEW k \in 2 .. n + 1, portEnv = Unset, \A j \in 2 .. k : blocks'[j].tx[1] \in DemoRequest
        PROVE  blocks'[k].status = "success"
    <3>1. CASE k = n + 1
      BY <1>2, <2>5, <2>8, <2>9, <3>1 DEF Undisturbed
    <3>2. CASE k # n + 1
      <4>1. k \in 2 .. n /\ k \in 1 .. n /\ \A j \in 2 .. k : j \in 1 .. n
        BY <2>6, <3>2
      <4>2. \A j \in 2 .. k : blocks[j].tx[1] \in DemoRequest
        BY <2>5, <2>9, <4>1
      <4>3. blocks[k].status = "success"
        BY <2>6, <2>9, <4>1, <4>2 DEF ScenarioInv, UndisturbedDemoSucceeds
      <4> QED
        BY <2>5, <4>1, <4>3
    <3> QED
      BY <3>1, <3>2
  <2>10. UndisturbedDemoSucceeds'
    BY <1>2, <2>5, <2>9 DEF UndisturbedDemoSucceeds
  <2> QED
    BY <1>1, <2>8, <2>10 DEF ScenarioInv
<1> QED
  BY <1>3, <1>4, NewTip

\* The demo's transactions succeed in every behaviour in which no other client's
\* transaction is mined first, whatever fails or is interrupted meanwhile, where the
\* limits suffice and no service of Bank A listens at Bank B's URL.
THEOREM DemoSucceeds ==
    ASSUME PortsAsIntended, LimitsSuffice
    PROVE  ClientsSpec => []UndisturbedDemoSucceeds
<1>1. ClientsInit => ScenarioInv
  BY ScenarioStart
<1>2. CoreInv /\ MintInv /\ ScenarioInv /\ [ClientsNext]_clientsVars => ScenarioInv'
  BY ScenarioNext
<1>3. ScenarioInv => UndisturbedDemoSucceeds
  BY DEF ScenarioInv
<1> QED
  BY <1>1, <1>2, <1>3, MintInductive, PTL DEF ClientsSpec

-----------------------------------------------------------------------------
(* Types.                                                                   *)

\* The types of the abstract submission.
LEMMA SubmissionTypes ==
    Spec => []TypeOK
<1> DEFINE Typed == TypeOK /\ told = [r \in Request |-> told[r]]
<1>1. Init => Typed
  BY DEF Init, TypeOK
<1>2. ASSUME Typed, [Next]_submissionVars PROVE Typed'
  <2> USE <1>2 DEF TypeOK
  <2>1. CASE UNCHANGED submissionVars
    BY <2>1 DEF submissionVars
  <2>2. ASSUME NEW r \in Request, Ask(r) PROVE Typed'
    BY <2>2 DEF Ask
  <2>3. ASSUME NEW r \in Request, Execute(r) PROVE Typed'
    <3>1. PICK status \in Status : ran' = ran \cup {<<<<r, step[r]>>, status>>}
      BY <2>3 DEF Execute
    <3>2. <<<<r, step[r]>>, status>> \in (Request \X {1, 2}) \X Status
      OBVIOUS
    <3> QED
      BY <2>3, <3>1, <3>2 DEF Execute
  <2>4. ASSUME NEW r \in Request, Advance(r) PROVE Typed'
    <3>1. step[r] \in {1, 2} /\ Last[r] \in {1, 2} /\ step[r] < Last[r]
      BY <2>4, SubmissionAssumption DEF Advance
    <3>2. step[r] = 1
      BY <3>1
    <3> QED
      BY <2>4, <3>2 DEF Advance
  <2>5. ASSUME NEW r \in Request, Answer(r) PROVE Typed'
    BY <2>5 DEF Answer
  <2>6. ASSUME NEW r \in Request, Refuse(r) \/ Lose(r) PROVE Typed'
    BY <2>6 DEF Refuse, Lose
  <2>7. CASE Forget
    BY <2>7 DEF Forget
  <2> QED
    BY <2>1, <2>2, <2>3, <2>4, <2>5, <2>6, <2>7 DEF Next
<1> QED
  BY <1>1, <1>2, PTL DEF Spec

\* The chain holds what ran, and nothing else.
RanInv ==
    /\ ran = {<<b.tx, b.status>> : b \in {blocks[k] : k \in 2 .. Len(blocks)}}
    /\ cancelled \in BOOLEAN

\* Mining records in ran what it puts on the chain.
LEMMA RanNext ==
    ASSUME CoreInv, RanInv, [ClientsNext]_clientsVars
    PROVE  RanInv'
<1>1. cancelled' \in BOOLEAN
  <2>1. cancelled' \in {cancelled, TRUE, FALSE}
    <3>1. ASSUME NEW how, Return(how) \/ Gone(how) PROVE cancelled' = FALSE
      BY <3>1 DEF Return, Gone
    <3>2. ASSUME NEW r, Send(r) \/ StopWaiting(r) PROVE cancelled' = cancelled
      BY <3>2 DEF Send, StopWaiting, driverVars
    <3>3. CASE DriverStep
      BY <3>1, <3>2, <3>3
      DEF DriverStep, LoadDeployment, Spawn, WaitHealthy, GetInfo, ShowBalances, ReadSupply,
          PostAndWait, Reconcile, TryHolderMint, TryWrongKey, Complete, Proceed, Step
    <3>4. CASE Interrupt \/ Terminate
      BY <3>1, <3>4 DEF Interrupt, Terminate
    <3> QED
      BY <3>3, <3>4 DEF ClientsNext, clientsVars, driverVars, ChildStarts
  <2> QED
    BY <2>1 DEF RanInv
<1>2. CASE UNCHANGED <<ran, blocks>>
  BY <1>1, <1>2 DEF RanInv
<1>3. CASE \E r \in Request : Mined(r)
  <2> PICK r \in Request : Mined(r)
    BY <1>3
  <2>1. Tip \in BlockSet /\ blocks \in Seq(BlockSet) /\ Len(blocks) \in Nat /\ Len(blocks) >= 1
    BY DEF CoreInv, LedgerInv, Tip
  <2> DEFINE b == Block(r)
  <2>2. b.tx = <<r, step[r]>> /\ b \in BlockSet
    BY <2>1, BlockFacts DEF CoreInv, WorldShape
  <2>3. ran' = ran \cup {<<b.tx, b.status>>} /\ blocks' = Append(blocks, b)
    BY <2>2 DEF Mined
  <2> HIDE DEF b
  <2> PICK n \in Nat : n = Len(blocks)
    BY <2>1
  <2>4. /\ Len(blocks') = n + 1 /\ blocks'[n + 1] = b
        /\ \A k \in 2 .. n : blocks'[k] = blocks[k]
    BY <2>1, <2>2, <2>3
  <2>5. 2 .. n + 1 = (2 .. n) \cup {n + 1}
    BY <2>1
  <2>6. {blocks'[k] : k \in 2 .. Len(blocks')} = {blocks[k] : k \in 2 .. Len(blocks)} \cup {b}
    BY <2>4, <2>5
  <2> QED
    BY <1>1, <2>3, <2>6 DEF RanInv
<1>4. CASE WorldKept \/ \E r \in Request : RequestMoves(r)
  BY <1>2, <1>4 DEF WorldKept, RequestMoves, Ask, Advance, Answer, Refuse, Lose
<1> QED
  BY <1>3, <1>4, WorldMoves DEF CoreInv

\* The types of the composition; and what the demo's processes and the chain hold
\* agrees with the ports and with the requests' transactions.
THEOREM ClientsTypes ==
    ClientsSpec => []ClientsTypeOK
<1>1. ClientsInit => RanInv
  <2> SUFFICES ASSUME ClientsInit PROVE RanInv
    OBVIOUS
  <2>1. Len(blocks) = 1 /\ ran = {} /\ cancelled = FALSE
    BY DEF ClientsInit, InterbankInit, Init, DriverInit
  <2>2. 2 .. Len(blocks) = {}
    BY <2>1
  <2> QED
    BY <2>1, <2>2 DEF RanInv
<1>2. CoreInv /\ RanInv /\ [ClientsNext]_clientsVars => RanInv'
  BY RanNext
<1>3. CoreInv /\ PageInv /\ RanInv /\ TypeOK => ClientsTypeOK
  <2> SUFFICES ASSUME CoreInv, PageInv, RanInv, TypeOK PROVE ClientsTypeOK
    OBVIOUS
  <2>1. at \in 1 .. Len(Script) + 1
    BY ScriptFacts DEF CoreInv, PortsInv, DriverShape
  <2>2. \A c \in Child : child[c] = "serving" /\ PortOfChild(c) # Other =>
            holder[PortOfChild(c)] = {Serves[c]}
    BY DEF CoreInv, PortsInv, PortsAsFound
  <2>3. Len(page) \in 0 .. Len(ReadOrder) /\ since \in 0 .. Len(blocks)
    BY ReadOrderFacts DEF PageInv
  <2> QED
    BY <2>1, <2>2, <2>3
    DEF ClientsTypeOK, CoreInv, PortsInv, DriverShape, WorldShape, RanInv, Holders
<1> QED
  BY <1>1, <1>2, <1>3, PageInductive, SubmissionTypes, ClientsMeetSubmission, PTL DEF ClientsSpec

=============================================================================
