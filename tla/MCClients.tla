----------------------------- MODULE MCClients ------------------------------
EXTENDS Clients, Explorer

Web(url, op, to, amount) ==
    [client |-> "web", url |-> url, op |-> op, to |-> to, amount |-> amount]

MCWebRequest ==
    {Web(BankA.deposit, "mint", BankB.address, 1), Web(BankB.deposit, "transfer", Merchant, -7)}

MCRequest == DemoRequest \cup MCWebRequest
MCLast == [r \in MCRequest |-> IF r.op = "authorize" THEN 2 ELSE 1]

MCLimits == [allowance |-> 6, transaction |-> 5, reserve |-> 9]

\* What an earlier demo, or a router started by hand, may have left on the ports.
Left == [p \in Port |->
    CASE p = BankA.router -> {RouterOf({BankA.keyId})}
      [] p = BankB.router -> {RouterOf({BankB.keyId})}
      [] p = BankA.deposit -> {ServiceOf(BankA)}
      [] p = BankB.deposit -> {ServiceOf(BankB)}]
Free == [p \in Port |-> {}]
MCFoundPorts ==
    {Left, Free,
     [Free EXCEPT ![BankA.deposit] = {ServiceOf(BankA)}, ![BankA.router] = {RouterOf(Keystore)}]}
MCPortEnv == {{}, {BankB.deposit}}
=============================================================================
