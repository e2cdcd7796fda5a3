----------------------------- MODULE DemoDriver -----------------------------
(***************************************************************************)
(* The demo program: it starts a router and a deposit service for each     *)
(* bank, waits until something answers on their ports, and drives the      *)
(* scenario over HTTP, one call at a time; then it passes its verdicts and *)
(* kills what it started. Ports may be taken already, calls may fail, the  *)
(* user may interrupt it, and other clients use the services meanwhile.    *)
(***************************************************************************)
EXTENDS Interbank, FiniteSets

CONSTANTS
    Quarter,        \* bound: the base units that stand for 250,000 WFUSD
    FoundPorts,     \* what may listen on the ports when the demo starts
    PortEnv         \* the values PORT may have in its environment

ASSUME DriverAssumption ==
    /\ Quarter \in Nat \ {0}
    /\ FoundPorts \subseteq [Port -> {Unset} \cup {{p} : p \in Program}]
    /\ PortEnv \subseteq {Unset} \cup {{p} : p \in Port \cup {Other}}

-----------------------------------------------------------------------------
(* The scenario.                                                            *)

Demo(url, op, to, amount) ==
    [client |-> "demo", url |-> url, op |-> op, to |-> to, amount |-> amount]

OnboardBankB == Demo(BankA.deposit, "authorize", BankB.address, 0)
OnboardMerchant == Demo(BankA.deposit, "authorize", Merchant, 0)
MintToBankB == Demo(BankA.deposit, "mint", BankB.address, 4 * Quarter)
PayMerchant == Demo(BankB.deposit, "transfer", Merchant, Quarter)
HolderMint == Demo(BankB.deposit, "mint", BankB.address, 1)

DemoRequest == {OnboardBankB, OnboardMerchant, MintToBankB, PayMerchant, HolderMint}

Healthy(port) == [do |-> "healthy", port |-> port]
Posting(r) == [do |-> "post", port |-> r.url, request |-> r]
Doing(what, port) == [do |-> what, port |-> port]

\* What the first two showBalances print decides nothing.
Script ==
    <<Doing("load", Other), Doing("spawn", Other),
      Healthy(BankA.router), Healthy(BankB.router), Healthy(BankA.deposit), Healthy(BankB.deposit),
      Doing("info", BankA.deposit), Doing("show", BankA.deposit),
      Posting(OnboardBankB), Posting(OnboardMerchant),
      Posting(MintToBankB), Doing("show", BankA.deposit),
      Posting(PayMerchant),
      [do |-> "read", port |-> BankA.deposit, nth |-> 1],
      [do |-> "read", port |-> BankA.deposit, nth |-> 2],
      Doing("reconcile", Other), Doing("holderMint", BankB.deposit), Doing("wrongKey", BankA.router)>>

\* The four processes: what each serves, from which binary, and on which port.
Child == 1 .. 4
Serves == <<RouterOf({BankA.keyId}), RouterOf({BankB.keyId}), ServiceOf(BankA), ServiceOf(BankB)>>

VARIABLES
    at,             \* the step of Script it is at
    result,         \* "running", or how the demo ended
    cancelled,      \* its context, by an interrupt
    spawns,         \* DEMO_SPAWN is not "false"
    deployed,       \* besu.json can be read
    portEnv,        \* PORT in its environment, which the processes inherit
    found,          \* what listened on the ports when it started
    child,          \* child[c]: the life of a process
    shown,          \* the last two supplies shown
    verdict         \* the three verdicts

driverVars == <<at, result, cancelled, spawns, deployed, portEnv, found, child, shown, verdict>>
driverConfig == <<spawns, deployed, portEnv, found>>

\* A supply as shown: a number, "<nil>" where the service could not read it, or
\* nothing at all where it did not answer.
Number(n) == [text |-> "number", n |-> n]
Nil == [text |-> "<nil>", n |-> 0]
Absent == [text |-> "", n |-> 0]

Passed(holds) == IF holds THEN "yes" ELSE "no"

DriverInit ==
    /\ at = 1
    /\ result = "running"
    /\ cancelled = FALSE
    /\ spawns \in BOOLEAN
    /\ deployed \in BOOLEAN
    /\ portEnv \in PortEnv
    /\ found \in FoundPorts
    /\ holder = found
    /\ child = [c \in Child |-> "none"]
    /\ shown = [supply |-> Absent, reserve |-> Absent]
    /\ verdict = [backing |-> "none", holderMint |-> "none", wrongKey |-> "none"]

-----------------------------------------------------------------------------
(* The processes.                                                           *)

\* The demo gives the routers a PORT, the deposit services only a BANK_ID.
PortOfChild(c) ==
    CASE c = 1 -> PortOf({BankA.router}, BankA.router)
      [] c = 2 -> PortOf({BankB.router}, BankA.router)
      [] c = 3 -> PortOf(portEnv, BankA.deposit)
      [] c = 4 -> PortOf(portEnv, BankB.deposit)

\* ListenAndServe fails on a port that is taken; "any free port" is not.
NeverTaken(p) == FALSE
Taken(p) == p # Other /\ holder[p] # {}

\* A process that finds its port taken exits, and is of no further consequence: no
\* port is given up before Run returns.
ChildStarts(c) ==
    /\ child[c] = "started"
    /\ MayStart(Serves[c])
    /\ LET p == PortOfChild(c)
       IN  /\ ~Taken(p)
           /\ holder' = IF p = Other THEN holder ELSE [holder EXCEPT ![p] = {Serves[c]}]
    /\ child' = [child EXCEPT ![c] = "serving"]
    /\ UNCHANGED <<at, result, cancelled, driverConfig, shown, verdict, submissionVars,
                   via, lost, blocks>>

Killed(c) == child[c] \in {"started", "serving"}

ChildrenStay == UNCHANGED <<child, holder>>

ChildrenDie ==
    /\ child' = [c \in Child |-> IF Killed(c) THEN "killed" ELSE child[c]]
    /\ holder' = [p \in Port |->
           IF \E c \in Child : child[c] = "serving" /\ PortOfChild(c) = p THEN {} ELSE holder[p]]

-----------------------------------------------------------------------------
(* The driver.                                                              *)

Running == result = "running"
Does(what) == Running /\ at <= Len(Script) /\ Script[at].do = what
Here == Script[at]

Step == at' = at + 1 /\ UNCHANGED <<result, cancelled, driverConfig, child, holder>>
Proceed == Step /\ UNCHANGED <<shown, verdict>>

\* The deferred function kills the processes, however Run returns.
KillWhatListens(how) ==
    /\ child' = [c \in Child |-> IF Killed(c) THEN "killed" ELSE child[c]]
    /\ holder' = [p \in Port |-> {}]
KillDeferred(how) == ChildrenDie

\* Only what was printed stays.
Gone(how) ==
    /\ result' = how
    /\ at' = 1 /\ cancelled' = FALSE
    /\ shown' = [supply |-> Absent, reserve |-> Absent]
    /\ UNCHANGED <<driverConfig, verdict>>

Return(how) == Gone(how) /\ KillDeferred(how)

\* The world outside, as a driver step that makes no request leaves it.
WorldStays == UNCHANGED <<submissionVars, via, lost, blocks>>

LoadDeployment ==
    /\ Does("load")
    /\ \/ deployed /\ Proceed
       \/ ~deployed /\ Return("error")
    /\ WorldStays

\* A binary that cannot be started is reported and passed over; the two binaries are
\* built together, so both are there or neither.
Spawn ==
    /\ Does("spawn")
    /\ at' = at + 1
    /\ \E built \in BOOLEAN :
           child' = [c \in Child |-> IF spawns /\ built THEN "started" ELSE "none"]
    /\ UNCHANGED <<result, cancelled, driverConfig, holder, shown, verdict>> /\ WorldStays

\* After 80 attempts in 16 seconds.
WaitsForever(port) == cancelled
GivesUp(port) == cancelled \/ holder[port] = {}

\* A port that answers /health will do, whoever answers.
WaitHealthy ==
    /\ Does("healthy")
    /\ \/ ~cancelled /\ holder[Here.port] # {} /\ Proceed
       \/ GivesUp(Here.port) /\ Return("error")
    /\ WorldStays

\* A deposit service gets to answer a call.
Reached == ~cancelled /\ \E p \in holder[Here.port] : p.kind = "deposit"

\* An error of the service (500) is decoded like an answer.
GetInfo ==
    /\ Does("info")
    /\ (Reached /\ Proceed) \/ Return("error")
    /\ WorldStays

ShowBalances == Does("show") /\ Proceed /\ WorldStays

\* TokenInfo reads the supply of the deposit token, then that of the reserve, in two
\* calls. A call that fails leaves "<nil>"; an answer that never comes leaves nothing.
ReserveFirst == <<"reserve", "supply">>
SupplyFirst == <<"supply", "reserve">>

ReadSupply ==
    /\ Does("read")
    /\ LET field == SupplyFirst[Here.nth]
       IN  \/ /\ Reached
              /\ Here.nth = 2 => shown[SupplyFirst[1]] # Absent
              /\ \E read \in {Nil, Number(Tip[field])} : shown' = [shown EXCEPT ![field] = read]
           \/ shown' = [supply |-> Absent, reserve |-> Absent]
    /\ Step
    /\ UNCHANGED verdict /\ WorldStays

\* The answer to a posted request is awaited without a timeout.
Send(r) ==
    /\ outcome[r] = "idle"
    /\ \/ ~cancelled /\ Post(r)
       \/ (cancelled \/ holder[r.url] = {}) /\ PostFails(r)
    /\ UNCHANGED driverVars

StopWaiting(r) ==
    /\ cancelled
    /\ GiveUpOn(r)
    /\ UNCHANGED driverVars

Failed(r) == outcome[r] \in {"refused", "unsure"}

\* Any error ends the demo; a reverted transaction is printed and passed over.
GoOnAnyway(r) == outcome[r] = "answered" \/ Failed(r)
MayGoOn(r) == outcome[r] = "answered"

PostAndWait ==
    /\ Does("post")
    /\ LET r == Here.request
       IN  \/ Send(r)
           \/ StopWaiting(r)
           \/ /\ \/ MayGoOn(r) /\ Proceed
                 \/ ~MayGoOn(r) /\ Failed(r) /\ Return("error")
              /\ WorldStays

\* The two supplies are compared as strings.
Reconcile ==
    /\ Does("reconcile")
    /\ verdict' = [verdict EXCEPT !.backing = Passed(shown.supply = shown.reserve)]
    /\ Step
    /\ UNCHANGED shown /\ WorldStays

\* Bank B must not be able to mint: any error will do.
TryHolderMint ==
    /\ Does("holderMint")
    /\ \/ Send(HolderMint)
       \/ StopWaiting(HolderMint)
       \/ /\ outcome[HolderMint] = "answered" \/ Failed(HolderMint)
          /\ verdict' = [verdict EXCEPT !.holderMint = Passed(Failed(HolderMint))]
          /\ Step
          /\ UNCHANGED shown /\ WorldStays

\* Bank A's router must not hold Bank B's key: only 403 will do.
NoSignature(code) == code # 200
Forbidden(code) == code = 403

TryWrongKey ==
    /\ Does("wrongKey")
    /\ \E code \in {0} \cup {SignStatus(p, BankB.keyId) : p \in holder[Here.port]} :
           /\ cancelled => code = 0
           /\ verdict' = [verdict EXCEPT !.wrongKey = Passed(Forbidden(code))]
    /\ Step
    /\ UNCHANGED shown /\ WorldStays

Complete ==
    /\ Running /\ at > Len(Script)
    /\ Return("complete")
    /\ WorldStays

\* SIGINT cancels the context; typed at a terminal it reaches the processes, too.
Interrupt ==
    /\ Running /\ ~cancelled
    /\ cancelled' = TRUE
    /\ ChildrenDie \/ ChildrenStay
    /\ UNCHANGED <<at, result, driverConfig, shown, verdict>> /\ WorldStays

\* SIGTERM or SIGKILL: nothing deferred is run.
Terminate ==
    /\ Running
    /\ Gone("killed")
    /\ ChildrenStay /\ WorldStays

DriverStep ==
    \/ LoadDeployment \/ Spawn \/ WaitHealthy \/ GetInfo \/ ShowBalances \/ ReadSupply \/ PostAndWait
    \/ Reconcile \/ TryHolderMint \/ TryWrongKey \/ Complete

-----------------------------------------------------------------------------
(* Properties.                                                              *)

\* The demo's transactions succeed unless another client interferes: it waits for
\* each before the next, so Bank B's wallet and the merchant are onboarded before the
\* mint is mined, and the tokens are there before they are paid out. (For limits that
\* suffice, and services on their own ports.)
UndisturbedDemoSucceeds ==
    \A k \in 2 .. Len(blocks) :
        /\ portEnv = Unset
        /\ \A j \in 2 .. k : blocks[j].tx[1] \in DemoRequest
        => blocks[k].status = "success"

\* When PORT is not set, nothing is minted through Bank B's URL, and the demo never
\* reports that Bank B could mint, whoever answers at the URL, unless a service of Bank A
\* was put there by hand: the URL does not say which bank it is.
NoMintThroughBankB ==
    portEnv = Unset =>
        /\ verdict.holderMint # "no"
        /\ \A k \in 2 .. Len(blocks) :
               LET r == blocks[k].tx[1] IN r.op = "mint" => r.url = BankA.deposit

\* The demo says that Bank A's router refused Bank B's key only when the router that
\* answered does not hold it: a call that fails is no refusal.
IsolationProven ==
    [][verdict'.wrongKey = "yes" /\ verdict.wrongKey # "yes" =>
           \E p \in holder[BankA.router] : p.kind = "router" /\ BankB.keyId \notin p.keys]_<<driverVars, holder>>

\* When the demo says that the backing equals the supply, and has read both, it is so
\* on the chain, although other clients mint between its two reads: with a surplus
\* in the reserve the second number read is the larger one whatever is minted.
BackingConfirmed ==
    /\ verdict.backing = "yes"
    /\ shown.supply.text = "number" /\ shown.reserve.text = "number"
    => Tip.supply = Tip.reserve

\* However the demo ends, short of being killed, no process of its own is left behind
\* on a port, and what it found there has not been touched.
NothingLeftRunning ==
    result \in {"complete", "error"} =>
        /\ \A c \in Child : ~Killed(c)
        /\ holder = found

\* The request the demo waits for polls for a transaction that will never be mined.
AwaitsLost == \E r \in DemoRequest : r \in lost /\ outcome[r] = "open"

\* The demo ends, whatever other clients do, as long as the services and the node go
\* on: the health check gives up, and every call is answered or fails. The exception
\* is the post of a request whose transaction the node dropped, because another
\* request of the bank replaced it or the pool was lost: postJSON has no timeout
\* (demo.go:300) and WaitMined no deadline (service.go:201), so the demo then waits
\* until it is interrupted.
DriverReturns == Running ~> (~Running \/ AwaitsLost)
=============================================================================
