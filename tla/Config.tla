------------------------------- MODULE Config -------------------------------
(***************************************************************************)
(* What the programs are configured with: the banks, the keys, the ports,  *)
(* the addresses of the deployment, and how each program reads its         *)
(* environment when it starts.                                             *)
(***************************************************************************)
EXTENDS Integers

\* A URL is the port it names; an environment variable is the set of its value.
BankA == [id |-> "bank-a", role |-> "issuer", keyId |-> "key://bank-a/issuer",
          address |-> "0xf39F", router |-> 7401, deposit |-> 8401]
BankB == [id |-> "bank-b", role |-> "holder", keyId |-> "key://bank-b/holder",
          address |-> "0x7099", router |-> 7402, deposit |-> 8402]
Merchant == "0x3C44"

Banks == {BankA, BankB}
Port == {b.router : b \in Banks} \cup {b.deposit : b \in Banks}

\* contracts/deployments/besu.json: five contracts at addresses of their own.
Deployment == [authRegistry |-> "0xCd56", reserveLedger |-> "0xC165",
               tokenAuthority |-> "0x8A79", tokenHandler |-> "0x6101",
               depositToken |-> "0xA4AD"]
Policies == [transfer |-> "2", rlMint |-> "3", scMint |-> "4"]

Account == {BankA.address, BankB.address, Merchant}

-----------------------------------------------------------------------------
Unset == {}
Other == 0          \* a port nobody asks at: that of a PORT which is no number

\* PORT, or the default; what is not a number is read as 0, "any free port".
PortOf(env, default) ==
    IF env = Unset THEN default ELSE CHOOSE p \in Port \cup {Other} : p \in env

\* The keys there are.
Keystore == {BankA.keyId, BankB.keyId}

\* What a program serves once it listens. A router refuses to start without keys
\* or with a key the keystore lacks, a deposit service with an unknown bank.
RouterOf(keys) == [kind |-> "router", keys |-> keys]
ServiceOf(bank) == [kind |-> "deposit", bank |-> bank]
RouterStarts(keys) == keys # {} /\ keys \subseteq Keystore
ServiceStarts(bank) == bank \in Banks
MayStart(program) ==
    \/ program.kind = "router" /\ RouterStarts(program.keys)
    \/ program.kind = "deposit" /\ ServiceStarts(program.bank)

\* handleSign's status for a well-formed hash.
SignStatus(program, keyId) ==
    IF program.kind # "router" THEN 404
    ELSE IF keyId \notin program.keys THEN 403
    ELSE 200
=============================================================================
