-------------------------- MODULE MCDepositService --------------------------
(***************************************************************************)
(* Instances of the deposit services: the two banks of config.go, each     *)
(* with a router that holds its key alone.                                 *)
(***************************************************************************)
EXTENDS DepositService

CONSTANTS bankA, bankB, keyA, keyB, routerA, routerB, mint1, mint2, onboard, pay

Keys == [b \in {bankA, bankB} |-> IF b = bankA THEN keyA ELSE keyB]
Provisioned == [s \in Router |-> IF s = routerA THEN {keyA} ELSE {keyB}]
ServedByA == [r \in Request |-> bankA]
\* Bank B, a holder, is asked to mint.
ServedByBoth == [r \in Request |-> IF r = mint2 THEN bankB ELSE bankA]
Asked == [r \in Request |->
    CASE r \in {mint1, mint2} -> "mint" [] r = onboard -> "authorize" [] r = pay -> "transfer"]
\* mint1 and mint2 are word for word the same.
Bodies == [r \in Request |-> IF r \in {mint1, mint2} THEN "to bank B" ELSE "merchant"]
=============================================================================
