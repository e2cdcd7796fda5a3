----------------------------- MODULE Submission -----------------------------
(***************************************************************************)
(* What the clients of the deposit services can rely on: the life of a     *)
(* request, from the moment a service takes it until it is answered, and   *)
(* of its transactions on the chain, which may outlive it. DepositService  *)
(* implements it; Interbank puts it on a ledger and its clients in front.  *)
(***************************************************************************)
EXTENDS Naturals

CONSTANTS
    Request,
    Last            \* Last[r]: the number of transactions of the request

ASSUME SubmissionAssumption == Last \in [Request -> {1, 2}]

Status == {"success", "reverted"}

VARIABLES
    outcome,        \* outcome[r]: how the request stands
    step,           \* step[r]: the transaction it is at
    ran,            \* the <<<<request, step>>, status>> of the transactions mined
    told,           \* told[r]: the statuses in its answer
    sure            \* the node has kept every transaction it took

submissionVars == <<outcome, step, ran, told, sure>>

TypeOK ==
    /\ outcome \in [Request -> {"idle", "open", "answered", "refused", "unsure"}]
    /\ step \in [Request -> {1, 2}]
    /\ ran \subseteq (Request \X {1, 2}) \X Status
    /\ \A r \in Request : told[r] = <<>> \/ told[r] \in [1 .. Last[r] -> Status]
    /\ sure \in BOOLEAN

Init ==
    /\ outcome = [r \in Request |-> "idle"]
    /\ step = [r \in Request |-> 1]
    /\ ran = {}
    /\ told = [r \in Request |-> <<>>]
    /\ sure \in BOOLEAN

Ran(r, i) == \E status \in Status : <<<<r, i>>, status>> \in ran

\* A service takes the request, or refuses it for its role.
Ask(r) ==
    /\ outcome[r] = "idle"
    /\ \E how \in {"open", "refused"} : outcome' = [outcome EXCEPT ![r] = how]
    /\ UNCHANGED <<step, ran, told, sure>>

\* The transaction the request is at is mined: once, and not after an answer.
Execute(r) ==
    /\ outcome[r] \in {"open", "unsure"}
    /\ ~Ran(r, step[r])
    /\ \E status \in Status : ran' = ran \cup {<<<<r, step[r]>>, status>>}
    /\ UNCHANGED <<outcome, step, told, sure>>

Advance(r) ==
    /\ outcome[r] = "open"
    /\ step[r] < Last[r]
    /\ sure => Ran(r, step[r])
    /\ step' = [step EXCEPT ![r] = @ + 1]
    /\ UNCHANGED <<outcome, ran, told, sure>>

\* The answer reports the statuses of the request's own transactions.
Answer(r) ==
    /\ outcome[r] = "open"
    /\ step[r] = Last[r]
    /\ \E statuses \in [1 .. Last[r] -> Status] :
           /\ sure => \A i \in 1 .. Last[r] : <<<<r, i>>, statuses[i]>> \in ran
           /\ told' = [told EXCEPT ![r] = statuses]
    /\ outcome' = [outcome EXCEPT ![r] = "answered"]
    /\ UNCHANGED <<step, ran, sure>>

\* An error that leaves nothing behind of the transaction the request is at.
Refuse(r) ==
    /\ outcome[r] = "open"
    /\ ~Ran(r, step[r])
    /\ outcome' = [outcome EXCEPT ![r] = "refused"]
    /\ UNCHANGED <<step, ran, told, sure>>

\* Nobody is left to be answered, or the answer to the broadcast was lost.
Lose(r) ==
    /\ outcome[r] = "open"
    /\ outcome' = [outcome EXCEPT ![r] = "unsure"]
    /\ UNCHANGED <<step, ran, told, sure>>

Forget ==
    /\ sure' = FALSE
    /\ UNCHANGED <<outcome, step, ran, told>>

Next ==
    \/ \E r \in Request :
           Ask(r) \/ Execute(r) \/ Advance(r) \/ Answer(r) \/ Refuse(r) \/ Lose(r)
    \/ Forget

Spec == Init /\ [][Next]_submissionVars
=============================================================================
