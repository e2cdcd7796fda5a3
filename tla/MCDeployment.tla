---------------------------- MODULE MCDeployment ----------------------------
(***************************************************************************)
(* Instances of the deployment: a chain started by the demo, where Bank A  *)
(* keeps everything; by DeployAll, with a handover to other admins; or     *)
(* step by step, by an operator with two coins.                            *)
(***************************************************************************)
EXTENDS Deployment

CONSTANTS bankA, treasury, operations, c1, c2, c3

KeptBy(who) ==
    [txnMintLimit |-> 1, minterAllowance |-> 2, rlMaxSupply |-> 2, stablecoinMaxSupply |-> 2,
     minterAddress |-> who, pauserAddress |-> who, unpauserAddress |-> who,
     blockedAddressBurnerAddress |-> who,
     rlAdmin |-> who, stablecoinAdmin |-> who, tokenAuthorityAdmin |-> who]

\* Bank A has the demo's coin, the treasury one of its own. The third hands the two
\* ledgers to the treasury and TokenAuthority to operations, as in the first scenario
\* of DeployAllE2E, and has a lower cap for the reserve.
Configs ==
    [c \in Coins |->
        CASE c = c1 -> KeptBy(bankA)
          [] c = c2 -> KeptBy(treasury)
          [] c = c3 -> [KeptBy(treasury) EXCEPT !.minterAddress = bankA, !.rlMaxSupply = 1,
                                               !.tokenAuthorityAdmin = operations]]

Steps == {"DeployAuthRegistry", "DeployReserveLedger", "DeployTokenAuthority"}
CoinSteps == {"DeployStablecoin", "ConfigureAndHandover"}
DemoOnly == {<<"DeployDemo", c1, bankA>>}
\* The treasury takes the steps for two coins. Bank A, which hands the third over with
\* DeployAll, and operations, which gets a part of it, try to configure the second.
Anyhow ==
    DemoOnly \cup {<<"DeployAll", c3, bankA>>}
    \cup (Steps \X {c2} \X {treasury}) \cup (CoinSteps \X {c2, c3} \X {treasury})
    \cup ({"ConfigureAndHandover"} \X {c2} \X {bankA, operations})

ASSUME DemoAssumption == DemoDeployment
=============================================================================
