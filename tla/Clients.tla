------------------------------ MODULE Clients -------------------------------
(***************************************************************************)
(* The clients of the interbank system together: the demo driver and the   *)
(* users of the web UI, who post to the same services, on one chain.       *)
(***************************************************************************)
EXTENDS DemoDriver, WebUI

CONSTANT MaxPosts       \* bound

ASSUME ClientsAssumption ==
    /\ Request = DemoRequest \cup WebRequest
    /\ DemoRequest \cap WebRequest = {}
    /\ MaxPosts \in Nat

clientsVars == <<interbankVars, driverVars, webVars>>

ClientsTypeOK ==
    /\ TypeOK
    /\ holder \in [Port -> {Unset} \cup {{p} : p \in Program}]
    /\ via \in [Request -> Banks] /\ lost \subseteq Request
    /\ at \in 1 .. Len(Script) + 1
    /\ result \in {"running", "complete", "error", "killed"}
    /\ cancelled \in BOOLEAN
    /\ child \in [Child -> {"none", "started", "serving", "killed"}]
    /\ \A c \in Child : child[c] = "serving" /\ PortOfChild(c) # Other =>
           holder[PortOfChild(c)] = {Serves[c]}
    /\ {<<b.tx, b.status>> : b \in {blocks[k] : k \in 2 .. Len(blocks)}} = ran
    /\ Len(page) \in 0 .. Len(ReadOrder) /\ since \in 0 .. Len(blocks)

ClientsInit == InterbankInit /\ DriverInit /\ WebInit

\* Bounds: the console's users post MaxPosts requests, once the wallets are onboarded
\* (before, they revert), and look at the state page once the demo is complete, where
\* the services stay up.
Posts == {r \in WebRequest : outcome[r] # "idle"}
MayPost ==
    /\ Cardinality(Posts) < MaxPosts
    /\ \A p \in {Policies.transfer, Policies.scMint}, a \in {BankB.address, Merchant} :
           <<p, a>> \in Tip.listed
PageOpens == result = "complete" /\ ~spawns

ClientsNext ==
    \/ (DriverStep \/ Interrupt \/ Terminate) /\ UNCHANGED webVars
    \/ \E c \in Child : ChildStarts(c) /\ UNCHANGED webVars
    \/ \E r \in WebRequest :
           /\ (MayPost /\ ProxyPost(r)) \/ ProxyTimeout(r)
           /\ UNCHANGED driverVars
    \/ PageOpens /\ (ReadNext \/ AnswerState) /\ UNCHANGED driverVars
    \/ \E r \in Request :
           /\ Mined(r) \/ Drop(r) \/ ServiceGoesOn(r) \/ ServiceFails(r)
           /\ UNCHANGED <<driverVars, webVars>>

ClientsSpec == ClientsInit /\ [][ClientsNext]_clientsVars

\* The demo, the services that work for it, and the node do not all stop: one of them
\* that can go on does. Nothing makes a call fail, a user interrupt, or the node drop
\* a transaction; a service whose transaction is lost has nothing to go on with.
GoOn ==
    \/ DriverStep /\ UNCHANGED webVars
    \/ \E r \in DemoRequest :
           (Mined(r) \/ ServiceGoesOn(r)) /\ UNCHANGED <<driverVars, webVars>>

FairClients == ClientsSpec /\ WF_clientsVars(GoOn)
=============================================================================
