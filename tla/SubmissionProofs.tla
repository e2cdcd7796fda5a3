-------------------------- MODULE SubmissionProofs --------------------------
(***************************************************************************)
(* The deposit services implement Submission, for any banks, keys, routers *)
(* and requests: every step of theirs is a step of Submission, or none.    *)
(* The invariant of DepositServiceProofs is extended by what tells the     *)
(* transactions of different requests apart.                               *)
(***************************************************************************)
EXTENDS DepositServiceProofs

Reliable == ~MayReplace /\ restarts = 0

\* A request sends a transaction once, and an account's nonce is mined once.
SentOnce ==
    /\ \A s, t \in pool : s.by = t.by => s = t
    /\ \A t \in pool, rc \in receipts : t.by # rc.tx.by
    /\ \A a, b \in receipts : a.tx.from = b.tx.from /\ a.tx.nonce = b.tx.nonce => a = b

\* The transaction a request waits for is still there.
Kept ==
    Reliable => \A r \in Request : pc[r] = "wait" =>
        \E t \in pool \cup {rc.tx : rc \in receipts} :
            t.by = <<r, step[r]>> /\ t.from = Own(r) /\ t.nonce = nonce[r]

\* A running request has a result for each transaction it has done with.
ResultsInv ==
    /\ results \in [Request -> Seq(Status)]
    /\ \A r \in Request : pc[r] # "done" => Len(results[r]) = step[r] - 1
    /\ \A rc \in receipts : rc.status \in Status
    /\ restarts \in Nat

RInv == IInv /\ SentOnce /\ Kept /\ ResultsInv /\ ResultsAreOwn

-----------------------------------------------------------------------------
\* The refinement's invariant holds at the start.
LEMMA RInitHolds ==
    Init => RInv
<1> SUFFICES ASSUME Init PROVE RInv
  OBVIOUS
<1>1. SentOnce /\ Kept /\ ResultsInv /\ ResultsAreOwn
  BY DEF Init, SentOnce, Kept, ResultsInv, ResultsAreOwn
<1> QED
  BY <1>1, InitHolds DEF RInv

\* A request that has not sent its current transaction finds none of it at the node.
LEMMA NothingSent ==
    ASSUME IInv, NEW r \in Request, pc[r] \notin {"wait", "done"}
    PROVE  \A t \in pool \cup {rc.tx : rc \in receipts} : t.by # <<r, step[r]>>
<1>1. RequestInv(r)
  BY DEF IInv
<1>2. ASSUME NEW t \in pool, t.by = <<r, step[r]>> PROVE FALSE
  <2>1. PooledInv(t) /\ t.by[1] = r
    BY <1>2 DEF IInv, PoolInv
  <2> QED
    BY <1>1, <2>1 DEF PooledInv, RequestInv
<1>3. ASSUME NEW rc \in receipts, rc.tx.by = <<r, step[r]>> PROVE FALSE
  <2>1. MinedInv(rc) /\ rc.tx.by[1] = r /\ rc.tx.by[2] = step[r]
    BY <1>3 DEF IInv
  <2> QED
    BY <1>1, <2>1 DEF MinedInv, RequestInv
<1> QED
  BY <1>2, <1>3

\* The receipt a waiting request finds is that of its own transaction, while the node
\* keeps what it took: no other transaction can have its nonce.
LEMMA FoundIsOwn ==
    ASSUME RInv, Reliable, NEW r \in Request, pc[r] = "wait", NEW rc \in Found(r)
    PROVE  rc.tx.by = <<r, step[r]>>
<1>1. Shape /\ RequestInv(r)
  BY DEF RInv, IInv
<1>2. rc \in receipts /\ rc.tx.from = Own(r) /\ rc.tx.nonce = nonce[r]
  BY <1>1, TxFacts DEF Found, Hash
<1>3. PICK t \in pool \cup {m.tx : m \in receipts} :
          t.by = <<r, step[r]>> /\ t.from = Own(r) /\ t.nonce = nonce[r]
  BY DEF RInv, Kept
<1>4. t \notin pool
  BY <1>2, <1>3 DEF RInv, IInv, PoolInv, PooledInv
<1>5. PICK m \in receipts : m.tx = t
  BY <1>3, <1>4
<1>6. m = rc
  BY <1>2, <1>3, <1>5 DEF RInv, SentOnce
<1> QED
  BY <1>3, <1>5, <1>6

-----------------------------------------------------------------------------
\* The results of a request are kept, or dropped at its end.
LEMMA ResultsStay ==
    ASSUME RInv, NEW r \in Request, UNCHANGED <<step, receipts, restarts>>, pc[r] # "done",
           \A q \in Request \ {r} : pc'[q] = pc[q],
           \/ results' = results
           \/ results' = [results EXCEPT ![r] = <<>>] /\ pc'[r] = "done"
    PROVE  ResultsInv' /\ ResultsAreOwn'
<1>1. /\ results \in [Request -> Seq(Status)] /\ restarts \in Nat
      /\ \A q \in Request : pc[q] # "done" => Len(results[q]) = step[q] - 1
      /\ \A rc \in receipts : rc.status \in Status
  BY DEF RInv, ResultsInv
<1>2. CASE results' = results
  BY <1>1, <1>2 DEF RInv, ResultsInv, ResultsAreOwn
<1>3. CASE results' = [results EXCEPT ![r] = <<>>] /\ pc'[r] = "done"
  <2>1. <<>> \in Seq(Status) /\ Len(<<>>) = 0
    OBVIOUS
  <2>2. results'[r] = <<>> /\ \A q \in Request \ {r} : results'[q] = results[q]
    BY <1>1, <1>3
  <2>3. results' \in [Request -> Seq(Status)]
    BY <1>1, <1>3, <2>1
  <2>4. \A q \in Request : pc'[q] # "done" => Len(results'[q]) = step'[q] - 1
    BY <1>1, <1>3, <2>2
  <2>5. ASSUME NEW q \in Request, NEW i \in 1 .. Len(results'[q])
        PROVE  q # r /\ results'[q] = results[q]
    BY <2>1, <2>2
  <2>6. ResultsInv'
    BY <1>1, <2>3, <2>4 DEF ResultsInv
  <2>7. ResultsAreOwn'
    <3> SUFFICES ASSUME ~MayReplace, restarts = 0, NEW q \in Request, NEW i \in 1 .. Len(results'[q])
                 PROVE  \E m \in receipts : m.tx.by = <<q, i>> /\ m.status = results'[q][i]
      BY DEF ResultsAreOwn
    <3>1. q # r /\ results'[q] = results[q]
      BY <2>5
    <3>2. \A j \in 1 .. Len(results[q]) :
              \E m \in receipts : m.tx.by = <<q, j>> /\ m.status = results[q][j]
      BY DEF RInv, ResultsAreOwn
    <3> QED
      BY <3>1, <3>2
  <2> QED
    BY <2>6, <2>7
<1> QED
  BY <1>2, <1>3

\* A step of one request that leaves the pool alone keeps the invariant.
LEMMA RQuietStep ==
    ASSUME RInv, NEW r \in Request,
           \/ Receive(r) \/ ReadNonce(r) \/ Build(r) \/ Sign(r)
           \/ BroadcastRefused(r) \/ CallFails(r)
           \/ Abandon(r) /\ UNCHANGED pool
    PROVE  SentOnce' /\ Kept' /\ ResultsInv' /\ ResultsAreOwn'
<1>1. Shape /\ RequestInv(r)
  BY DEF RInv, IInv
<1>2. /\ UNCHANGED <<step, pool, receipts, restarts>>
      /\ pc[r] # "done" /\ pc'[r] # "wait"
      /\ \A q \in Request \ {r} : pc'[q] = pc[q] /\ nonce'[q] = nonce[q]
      /\ \/ results' = results
         \/ results' = [results EXCEPT ![r] = <<>>] /\ pc'[r] = "done"
  BY <1>1 DEF Shape, Receive, ReadNonce, Build, Sign, BroadcastRefused, CallFails, MayFailAt,
              Abandon, End, nodeVars
<1>3. SentOnce'
  BY <1>2 DEF RInv, SentOnce
<1>4. Kept'
  BY <1>2 DEF RInv, Kept, Reliable, Own
<1>5. ResultsInv' /\ ResultsAreOwn'
  BY <1>1, <1>2, ResultsStay
<1> QED
  BY <1>3, <1>4, <1>5

\* A transaction reaches the pool: the only one of its request's current step.
LEMMA RDeliverStep ==
    ASSUME RInv, NEW r \in Request, pc[r] = "send", NodeTakes(Tx(r)),
           pool' = PoolWith(Tx(r)),
           UNCHANGED <<step, nonce, gas, signer, accountNonce, receipts, restarts>>,
           \/ pc' = [pc EXCEPT ![r] = "wait"] /\ UNCHANGED results
           \/ End(r, "unsure")
    PROVE  SentOnce' /\ Kept' /\ ResultsInv' /\ ResultsAreOwn'
<1>1. Shape /\ RequestInv(r)
  BY DEF RInv, IInv
<1> PICK t : t = Tx(r)
  OBVIOUS
<1>2. t.by = <<r, step[r]>> /\ t.from = Own(r) /\ t.nonce = nonce[r]
  BY <1>1, TxFacts
<1>3. \A p \in pool \cup {rc.tx : rc \in receipts} : p.by # t.by
  BY <1>2, NothingSent DEF RInv
<1>4. pool' = (pool \ Conflicts(t)) \cup {t}
  BY DEF PoolWith
<1>5. SentOnce'
  BY <1>3, <1>4 DEF RInv, SentOnce
<1>6. /\ \A q \in Request \ {r} : pc'[q] = pc[q]
      /\ pc'[r] = "wait" \/ pc'[r] = "done"
      /\ \/ results' = results /\ pc'[r] = "wait"
         \/ results' = [results EXCEPT ![r] = <<>>] /\ pc'[r] = "done"
  BY <1>1 DEF Shape, End
<1>7. Kept'
  <2> SUFFICES ASSUME Reliable', NEW q \in Request, pc'[q] = "wait"
               PROVE  \E p \in pool' \cup {rc.tx : rc \in receipts} :
                          p.by = <<q, step[q]>> /\ p.from = Own(q) /\ p.nonce = nonce[q]
    BY DEF Kept, Own
  <2>1. Reliable /\ pool \subseteq pool'
    BY <1>4 DEF Reliable, NodeTakes
  <2>2. CASE q = r
    BY <1>2, <1>4, <2>2
  <2>3. CASE q # r
    BY <1>6, <2>1, <2>3 DEF RInv, Kept
  <2> QED
    BY <2>2, <2>3
<1>8. ResultsInv' /\ ResultsAreOwn'
  BY <1>1, <1>6, ResultsStay
<1> QED
  BY <1>5, <1>7, <1>8

\* A receipt is found, of the request's own transaction if the node is reliable.
LEMMA RWaitMinedStep ==
    ASSUME RInv, NEW r \in Request, WaitMined(r)
    PROVE  SentOnce' /\ Kept' /\ ResultsInv' /\ ResultsAreOwn'
<1>1. /\ Shape /\ RequestInv(r) /\ pc[r] = "wait" /\ step[r] \in {1, 2}
      /\ UNCHANGED <<nonce, pool, receipts, restarts>>
  BY DEF RInv, IInv, Shape, WaitMined, nodeVars
<1>2. PICK rc \in Found(r) : results' = [results EXCEPT ![r] = Append(results[r], rc.status)]
  BY DEF WaitMined
<1>3. rc \in receipts /\ rc.status \in Status
  BY DEF Found, RInv, ResultsInv
<1>4. /\ results[r] \in Seq(Status) /\ Len(results[r]) = step[r] - 1
      /\ results'[r] = Append(results[r], rc.status)
      /\ \A q \in Request \ {r} : results'[q] = results[q]
  BY <1>1, <1>2 DEF RInv, ResultsInv
<1>5. /\ results'[r] \in Seq(Status) /\ Len(results'[r]) = step[r]
      /\ results'[r][step[r]] = rc.status
      /\ \A i \in 1 .. step[r] - 1 : results'[r][i] = results[r][i]
  BY <1>1, <1>3, <1>4
<1>6. /\ \A q \in Request \ {r} : pc'[q] = pc[q] /\ step'[q] = step[q]
      /\ pc'[r] # "wait"
      /\ pc'[r] # "done" => step'[r] = step[r] + 1
  BY <1>1 DEF Shape, WaitMined
<1>7. SentOnce'
  BY <1>1 DEF RInv, SentOnce
<1>8. Kept'
  BY <1>1, <1>6 DEF RInv, Kept, Reliable, Own
<1>9. ResultsInv'
  BY <1>1, <1>2, <1>3, <1>4, <1>5, <1>6 DEF RInv, ResultsInv
<1>10. ResultsAreOwn'
  <2> SUFFICES ASSUME ~MayReplace, restarts = 0, NEW q \in Request, NEW i \in 1 .. Len(results'[q])
               PROVE  \E m \in receipts : m.tx.by = <<q, i>> /\ m.status = results'[q][i]
    BY <1>1 DEF ResultsAreOwn
  <2>1. CASE q # r \/ i # step[r]
    <3>1. i \in 1 .. Len(results[q]) /\ results'[q][i] = results[q][i]
      <4>1. CASE q = r
        BY <1>1, <1>4, <1>5, <2>1, <4>1
      <4>2. CASE q # r
        BY <1>4, <4>2
      <4> QED
        BY <4>1, <4>2
    <3> QED
      BY <3>1 DEF RInv, ResultsAreOwn
  <2>2. CASE q = r /\ i = step[r]
    <3>1. rc.tx.by = <<r, step[r]>>
      BY <1>1, FoundIsOwn DEF Reliable
    <3> QED
      BY <1>3, <1>5, <2>2, <3>1
  <2> QED
    BY <2>1, <2>2
<1> QED
  BY <1>7, <1>8, <1>9, <1>10

\* A transaction is mined: none of its request's current step was before.
LEMMA RMineStep ==
    ASSUME RInv, NEW k \in Key, Mine(k)
    PROVE  SentOnce' /\ Kept' /\ ResultsInv' /\ ResultsAreOwn'
<1>1. PICK t \in pool, status \in Status :
         /\ t.from = k /\ t.nonce = accountNonce[k]
         /\ pool' = pool \ {t}
         /\ receipts' = receipts \cup {[tx |-> t, status |-> status]}
         /\ UNCHANGED <<routerOf, serviceVars, restarts>>
  BY DEF Mine
<1>2. UNCHANGED <<pc, step, nonce, results>>
  BY <1>1 DEF serviceVars
<1> DEFINE new == [tx |-> t, status |-> status]
<1>3. new.tx = t /\ new.status = status /\ receipts' = receipts \cup {new}
  BY <1>1
<1> HIDE DEF new
<1>4. \A rc \in receipts : ~(rc.tx.from = t.from /\ rc.tx.nonce = t.nonce)
  BY DEF RInv, IInv, PoolInv, PooledInv
<1>5. SentOnce'
  <2>1. \A p \in pool' : p \in pool /\ p # t
    BY <1>1
  <2>2. \A p, s \in pool' : p.by = s.by => p = s
    BY <2>1 DEF RInv, SentOnce
  <2>3. \A p \in pool', rc \in receipts' : p.by # rc.tx.by
    BY <1>3, <2>1 DEF RInv, SentOnce
  <2>4. \A a, b \in receipts' : a.tx.from = b.tx.from /\ a.tx.nonce = b.tx.nonce => a = b
    BY <1>3, <1>4 DEF RInv, SentOnce
  <2> QED
    BY <2>2, <2>3, <2>4 DEF SentOnce
<1>6. Kept'
  <2>1. pool \cup {rc.tx : rc \in receipts} \subseteq pool' \cup {rc.tx : rc \in receipts'}
    <3> SUFFICES ASSUME NEW p \in pool \cup {rc.tx : rc \in receipts}
                 PROVE  p \in pool' \cup {rc.tx : rc \in receipts'}
      OBVIOUS
    <3>1. CASE p = t
      BY <1>3, <3>1
    <3>2. CASE p # t
      BY <1>1, <1>3, <3>2
    <3> QED
      BY <3>1, <3>2
  <2> QED
    BY <1>1, <1>2, <2>1 DEF RInv, Kept, Reliable, Own
<1>7. ResultsInv' /\ ResultsAreOwn'
  BY <1>1, <1>2, <1>3 DEF RInv, ResultsInv, ResultsAreOwn
<1> QED
  BY <1>5, <1>6, <1>7

-----------------------------------------------------------------------------
\* Every step keeps the extended invariant.
LEMMA RNextKeeps ==
    ASSUME RInv, [Next]_vars
    PROVE  RInv'
<1> DEFINE Good == SentOnce' /\ Kept' /\ ResultsInv' /\ ResultsAreOwn'
<1>1. ASSUME NEW r \in Request,
             \/ Receive(r) \/ ReadNonce(r) \/ Build(r) \/ Sign(r)
             \/ BroadcastRefused(r) \/ CallFails(r)
             \/ Abandon(r) /\ UNCHANGED pool
      PROVE  Good
  BY <1>1, RQuietStep
<1>2. ASSUME NEW r \in Request,
             \/ Broadcast(r) \/ AnswerLost(r)
             \/ Abandon(r) /\ pc[r] = "send" /\ NodeTakes(Tx(r)) /\ pool' = PoolWith(Tx(r))
      PROVE  Good
  <2>1. /\ pc[r] = "send" /\ NodeTakes(Tx(r)) /\ pool' = PoolWith(Tx(r))
        /\ UNCHANGED <<step, nonce, gas, signer, accountNonce, receipts, restarts>>
        /\ \/ pc' = [pc EXCEPT ![r] = "wait"] /\ UNCHANGED results
           \/ End(r, "unsure")
    BY <1>2 DEF Broadcast, AnswerLost, Abandon
  <2> QED
    BY <2>1, RDeliverStep
<1>3. ASSUME NEW r \in Request, WaitMined(r) PROVE Good
  BY <1>3, RWaitMinedStep
<1>4. ASSUME NEW k \in Key, Mine(k) PROVE Good
  BY <1>4, RMineStep
<1>5. ASSUME NodeRestart PROVE Good
  <2>1. /\ pool' = {} /\ restarts' \in Nat /\ restarts' # 0
        /\ UNCHANGED <<pc, step, nonce, results, receipts>>
    BY <1>5 DEF NodeRestart, serviceVars, RInv, ResultsInv
  <2> QED
    BY <2>1 DEF RInv, SentOnce, Kept, Reliable, ResultsInv, ResultsAreOwn
<1>6. ASSUME UNCHANGED vars PROVE Good
  <2>1. UNCHANGED <<pc, step, nonce, results, pool, receipts, restarts>>
    BY <1>6 DEF vars, serviceVars, nodeVars
  <2> QED
    BY <2>1 DEF RInv, SentOnce, Kept, Reliable, ResultsInv, ResultsAreOwn, Own
<1> HIDE DEF Good
<1>7. ASSUME NEW r \in Request, RequestStep(r) \/ CallFails(r) \/ AnswerLost(r) \/ Abandon(r)
      PROVE  Good
  BY <1>1, <1>2, <1>3, <1>7 DEF RequestStep, Abandon
<1>8. Good
  BY <1>4, <1>5, <1>6, <1>7 DEF Next, Quiescent
<1>9. IInv'
  BY NextKeeps DEF RInv
<1> QED
  BY <1>8, <1>9 DEF Good, RInv

\* And always.
LEMMA RInductive ==
    Spec => []RInv
<1>1. RInv /\ [Next]_vars => RInv'
  BY RNextKeeps
<1> QED
  BY RInitHolds, <1>1, PTL DEF Spec

\* While the node is reliable, an answer reports the request's own transactions.
THEOREM AnswersAreOwn ==
    Spec => []ResultsAreOwn
<1>1. RInv => ResultsAreOwn
  BY DEF RInv
<1> QED
  BY <1>1, RInductive, PTL

-----------------------------------------------------------------------------
(* The refinement.                                                          *)

Told == [r \in Request |-> IF outcome[r] = "answered" THEN results[r] ELSE <<>>]
RanSet == {<<rc.tx.by, rc.status>> : rc \in receipts}
LastStep == [r \in Request |-> Len(Steps(r))]

\* The mapping of DepositService, by name.
LEMMA InitMaps ==
    Init => Submitted!Init
<1> SUFFICES ASSUME Init PROVE Submitted!Init
  OBVIOUS
<1>1. Outcome = [r \in Request |-> "idle"]
  BY DEF Init, Outcome
<1>2. RanSet = {}
  BY DEF Init, RanSet
<1>3. Told = [r \in Request |-> <<>>]
  BY DEF Init, Told
<1>4. (~MayReplace /\ restarts = 0) \in BOOLEAN
  OBVIOUS
<1> QED
  BY <1>1, <1>2, <1>3, <1>4 DEF Init, Submitted!Init, RanSet, Told

\* What a step of one request does to what its client sees.
LEMMA OutcomeChanges ==
    ASSUME Shape, NEW r \in Request, NEW how,
           \A q \in Request \ {r} : pc'[q] = pc[q] /\ outcome'[q] = outcome[q],
           how = IF pc'[r] = "idle" THEN "idle" ELSE IF outcome'[r] = "none" THEN "open" ELSE outcome'[r]
    PROVE  Outcome' = [Outcome EXCEPT ![r] = how]
BY DEF Outcome, Shape

\* A step that neither mines nor answers anything, and ends or goes on with r.
LEMMA TellsNothing ==
    ASSUME Shape, NEW r \in Request, UNCHANGED receipts,
           \A q \in Request \ {r} : outcome'[q] = outcome[q] /\ results'[q] = results[q],
           outcome[r] # "answered", outcome'[r] # "answered"
    PROVE  UNCHANGED <<Told, RanSet>>
BY DEF Told, RanSet

\* The steps before the broadcast, but the first.
LEMMA RunningMaps ==
    ASSUME RInv, NEW r \in Request, ReadNonce(r) \/ Build(r) \/ Sign(r) \/ Broadcast(r)
    PROVE  UNCHANGED Submitted!submissionVars \/ Submitted!Refuse(r)
<1>1. Shape /\ RequestInv(r)
  BY DEF RInv, IInv
<1>2. /\ pc[r] \in {"nonce", "build", "sign", "send"} /\ outcome[r] = "none"
      /\ UNCHANGED <<step, receipts, restarts>>
      /\ \A q \in Request \ {r} : pc'[q] = pc[q] /\ outcome'[q] = outcome[q] /\ results'[q] = results[q]
      /\ \/ pc'[r] \in {"build", "sign", "send", "wait"} /\ outcome'[r] = "none"
         \/ pc'[r] = "done" /\ outcome'[r] = "refused"
  BY <1>1 DEF RInv, ResultsInv, Shape, RequestInv, ReadNonce, Build, Sign, Broadcast, End, nodeVars
<1>3. UNCHANGED <<Told, RanSet>>
  BY <1>1, <1>2, TellsNothing
<1>4. Outcome[r] = "open"
  BY <1>2 DEF Outcome
<1>5. CASE outcome'[r] = "none"
  <2>1. Outcome' = [Outcome EXCEPT ![r] = "open"]
    BY <1>1, <1>2, <1>5, OutcomeChanges
  <2>2. Outcome' = Outcome
    BY <1>4, <2>1 DEF Outcome
  <2> QED
    BY <1>2, <1>3, <2>2 DEF Submitted!submissionVars, Told, RanSet
<1>6. CASE outcome'[r] = "refused"
  <2>1. Outcome' = [Outcome EXCEPT ![r] = "refused"]
    BY <1>1, <1>2, <1>6, OutcomeChanges
  <2>2. ~Submitted!Ran(r, step[r])
    BY <1>2, NothingSent DEF RInv, Submitted!Ran
  <2> QED
    BY <1>2, <1>3, <1>4, <2>1, <2>2 DEF Submitted!Refuse, Told, RanSet
<1> QED
  BY <1>2, <1>5, <1>6

\* A request is taken, or refused for its role.
LEMMA ReceiveMaps ==
    ASSUME RInv, NEW r \in Request, Receive(r)
    PROVE  Submitted!Ask(r)
<1>1. Shape /\ RequestInv(r)
  BY DEF RInv, IInv
<1>2. /\ pc[r] = "idle" /\ outcome[r] = "none"
      /\ UNCHANGED <<step, receipts, restarts>>
      /\ \A q \in Request \ {r} : pc'[q] = pc[q] /\ outcome'[q] = outcome[q] /\ results'[q] = results[q]
      /\ \/ pc'[r] = "nonce" /\ outcome'[r] = "none"
         \/ pc'[r] = "done" /\ outcome'[r] = "refused"
  BY <1>1 DEF RInv, ResultsInv, Shape, RequestInv, Receive, End, nodeVars
<1>3. UNCHANGED <<Told, RanSet>>
  BY <1>1, <1>2, TellsNothing
<1>4. PICK how \in {"open", "refused"} : Outcome' = [Outcome EXCEPT ![r] = how]
  BY <1>1, <1>2, OutcomeChanges
<1>5. Outcome[r] = "idle"
  BY <1>2 DEF Outcome
<1> QED
  BY <1>2, <1>3, <1>4, <1>5 DEF Submitted!Ask, Told, RanSet

\* A request ends in an error.
LEMMA EndMaps ==
    ASSUME RInv, NEW r \in Request, pc[r] \notin {"idle", "done"},
           UNCHANGED <<step, receipts, restarts>>,
           End(r, "unsure") \/ (End(r, "refused") /\ pc[r] # "wait")
    PROVE  Submitted!Lose(r) \/ Submitted!Refuse(r)
<1> PICK how \in {"unsure", "refused"} : End(r, how) /\ (how = "refused" => pc[r] # "wait")
  OBVIOUS
<1>1. Shape /\ RequestInv(r)
  BY DEF RInv, IInv
<1>2. /\ outcome[r] = "none" /\ pc'[r] = "done" /\ outcome'[r] = how
      /\ \A q \in Request \ {r} : pc'[q] = pc[q] /\ outcome'[q] = outcome[q] /\ results'[q] = results[q]
  BY <1>1 DEF RInv, ResultsInv, Shape, RequestInv, End
<1>3. UNCHANGED <<Told, RanSet>>
  BY <1>1, <1>2, TellsNothing
<1>4. Outcome' = [Outcome EXCEPT ![r] = how]
  BY <1>1, <1>2, OutcomeChanges
<1>5. Outcome[r] = "open"
  BY <1>2 DEF Outcome
<1>6. CASE how = "unsure"
  BY <1>3, <1>4, <1>5, <1>6 DEF Submitted!Lose, Told, RanSet
<1>7. CASE how = "refused"
  <2>1. ~Submitted!Ran(r, step[r])
    BY <1>7, NothingSent DEF RInv, Submitted!Ran
  <2> QED
    BY <1>3, <1>4, <1>5, <1>7, <2>1 DEF Submitted!Refuse, Told, RanSet
<1> QED
  BY <1>6, <1>7

\* A receipt is found: the request goes on to its second transaction, or is answered.
LEMMA WaitMinedMaps ==
    ASSUME RInv, NEW r \in Request, WaitMined(r)
    PROVE  Submitted!Advance(r) \/ Submitted!Answer(r)
<1>1. /\ Shape /\ RequestInv(r) /\ pc[r] = "wait" /\ outcome[r] = "none"
      /\ step[r] \in {1, 2} /\ UNCHANGED <<receipts, restarts>>
  BY DEF RInv, IInv, Shape, RequestInv, WaitMined, nodeVars
<1>2. PICK rc \in Found(r) : results' = [results EXCEPT ![r] = Append(results[r], rc.status)]
  BY DEF WaitMined
<1>3. /\ results[r] \in Seq(Status) /\ Len(results[r]) = step[r] - 1
      /\ rc \in receipts /\ rc.status \in Status
      /\ results'[r] = Append(results[r], rc.status)
      /\ \A q \in Request \ {r} : results'[q] = results[q]
  BY <1>1, <1>2 DEF Found, RInv, ResultsInv
<1>4. Reliable => <<<<r, step[r]>>, rc.status>> \in RanSet
  BY <1>1, <1>3, FoundIsOwn DEF RanSet
<1>5. Outcome[r] = "open"
  BY <1>1 DEF Outcome
<1>6. Len(Steps(r)) \in {1, 2} /\ (step[r] = 2 => Len(Steps(r)) = 2)
  <2>1. CASE Op[r] = "authorize"
    BY <1>1, <2>1 DEF Steps
  <2>2. CASE Op[r] # "authorize"
    BY <1>1, <2>2 DEF Steps, RequestInv
  <2> QED
    BY <2>1, <2>2
<1>7. CASE MoreSteps(r)
  <2>1. /\ step' = [step EXCEPT ![r] = step[r] + 1]
        /\ pc' = [pc EXCEPT ![r] = "nonce"] /\ outcome' = outcome
    BY <1>7 DEF WaitMined
  <2>2. UNCHANGED <<Told, RanSet>>
    BY <1>1, <1>3, <2>1, TellsNothing
  <2>3. Outcome' = [Outcome EXCEPT ![r] = "open"]
    BY <1>1, <2>1, OutcomeChanges DEF Shape
  <2>4. Outcome' = Outcome
    BY <1>5, <2>3 DEF Outcome
  <2>5. Reliable => Submitted!Ran(r, step[r])
    BY <1>3, <1>4 DEF Submitted!Ran, Submitted!Status, Status, RanSet
  <2> QED
    BY <1>1, <1>5, <1>7, <2>1, <2>2, <2>4, <2>5
    DEF Submitted!Advance, Told, RanSet, MoreSteps, Reliable
<1>8. CASE ~MoreSteps(r)
  <2>1. /\ step' = step /\ pc' = [pc EXCEPT ![r] = "done"]
        /\ outcome' = [outcome EXCEPT ![r] = "answered"]
    BY <1>8 DEF WaitMined
  <2>2. Outcome' = [Outcome EXCEPT ![r] = "answered"]
    BY <1>1, <2>1, OutcomeChanges DEF Shape
  <2>3. RanSet' = RanSet
    BY <1>1 DEF RanSet
  <2>4. Told' = [Told EXCEPT ![r] = results'[r]]
    BY <1>1, <1>3, <2>1 DEF Told, Shape
  <2>5. step[r] = Len(Steps(r))
    <3>1. CASE step[r] = 1
      BY <1>6, <1>8, <3>1 DEF MoreSteps
    <3>2. CASE step[r] = 2
      BY <1>6, <3>2
    <3> QED
      BY <1>1, <3>1, <3>2
  <2>6. results'[r] \in [1 .. Len(Steps(r)) -> Status]
    <3>1. results'[r] \in Seq(Status) /\ Len(results'[r]) = step[r]
      BY <1>1, <1>3
    <3> QED
      BY <2>5, <3>1
  <2>7. Reliable => \A i \in 1 .. Len(Steps(r)) : <<<<r, i>>, results'[r][i]>> \in RanSet
    <3> SUFFICES ASSUME Reliable, NEW i \in 1 .. step[r]
                 PROVE  <<<<r, i>>, results'[r][i]>> \in RanSet
      BY <2>5
    <3>1. CASE i = step[r]
      <4>1. results'[r][i] = rc.status
        BY <1>3, <3>1
      <4> QED
        BY <1>4, <3>1, <4>1
    <3>2. CASE i # step[r]
      <4>1. i \in 1 .. Len(results[r]) /\ results'[r][i] = results[r][i]
        BY <1>1, <1>3, <3>2
      <4>2. PICK m \in receipts : m.tx.by = <<r, i>> /\ m.status = results[r][i]
        BY <4>1 DEF RInv, ResultsAreOwn, Reliable
      <4> QED
        BY <4>1, <4>2 DEF RanSet
    <3> QED
      BY <3>1, <3>2
  <2>8. \E statuses \in [1 .. Len(Steps(r)) -> Submitted!Status] :
           /\ Reliable => \A i \in 1 .. Len(Steps(r)) : <<<<r, i>>, statuses[i]>> \in RanSet
           /\ Told' = [Told EXCEPT ![r] = statuses]
    BY <2>4, <2>6, <2>7 DEF Submitted!Status, Status
  <2> QED
    BY <1>1, <1>5, <2>1, <2>2, <2>3, <2>5, <2>8
    DEF Submitted!Answer, Told, RanSet, Reliable
<1> QED
  BY <1>7, <1>8

\* A transaction is mined: that of a request that waits for it or ended unsure.
LEMMA MineMaps ==
    ASSUME RInv, NEW k \in Key, Mine(k)
    PROVE  \E r \in Request : Submitted!Execute(r)
<1>1. PICK t \in pool, status \in Status :
         /\ receipts' = receipts \cup {[tx |-> t, status |-> status]}
         /\ UNCHANGED <<routerOf, serviceVars, restarts>>
  BY DEF Mine
<1>2. PICK r \in Request : t.by = <<r, step[r]>> /\ (pc[r] = "wait" \/ outcome[r] = "unsure")
  <2>1. PooledInv(t)
    BY DEF RInv, IInv, PoolInv
  <2> QED
    BY <2>1 DEF PooledInv, SentInv
<1>3. RequestInv(r)
  BY DEF RInv, IInv
<1>4. Outcome[r] \in {"open", "unsure"}
  BY <1>2, <1>3 DEF Outcome, RequestInv
<1>5. ~Submitted!Ran(r, step[r])
  BY <1>2 DEF RInv, SentOnce, Submitted!Ran
<1>6. RanSet' = RanSet \cup {<<<<r, step[r]>>, status>>}
  <2> DEFINE new == [tx |-> t, status |-> status]
  <2>1. new.tx.by = <<r, step[r]>> /\ new.status = status
    BY <1>2
  <2>2. receipts' = receipts \cup {new}
    BY <1>1
  <2> HIDE DEF new
  <2> QED
    BY <2>1, <2>2 DEF RanSet
<1>7. UNCHANGED <<Outcome, step, Told>>
  BY <1>1 DEF Outcome, Told, serviceVars
<1>8. Submitted!Execute(r)
  BY <1>1, <1>4, <1>5, <1>6, <1>7 DEF Submitted!Execute, Submitted!Status, Status, RanSet, Told
<1> QED
  BY <1>8

\* Every step of the services is a step of Submission, or none.
LEMMA NextMaps ==
    ASSUME RInv, [Next]_vars
    PROVE  [Submitted!Next]_Submitted!submissionVars
<1>1. ASSUME NEW r \in Request, RequestStep(r) \/ CallFails(r) \/ AnswerLost(r) \/ Abandon(r)
      PROVE  [Submitted!Next]_Submitted!submissionVars
  <2>1. CASE Receive(r)
    BY <2>1, ReceiveMaps DEF Submitted!Next
  <2>2. CASE ReadNonce(r) \/ Build(r) \/ Sign(r) \/ Broadcast(r)
    BY <2>2, RunningMaps DEF Submitted!Next
  <2>3. CASE WaitMined(r)
    BY <2>3, WaitMinedMaps DEF Submitted!Next
  <2>4. CASE BroadcastRefused(r) \/ CallFails(r) \/ AnswerLost(r) \/ Abandon(r)
    <3>1. UNCHANGED <<step, receipts, restarts>>
      BY <2>4 DEF BroadcastRefused, CallFails, AnswerLost, Abandon, nodeVars
    <3>2. \/ pc[r] \in {"nonce", "build", "sign", "send"} /\ End(r, "refused")
          \/ pc[r] \in {"nonce", "build", "sign", "send", "wait"} /\ End(r, "unsure")
      BY <2>4 DEF BroadcastRefused, CallFails, MayFailAt, AnswerLost, Abandon
    <3>3. pc[r] \notin {"idle", "done"} /\ (End(r, "unsure") \/ (End(r, "refused") /\ pc[r] # "wait"))
      BY <3>2
    <3>4. Submitted!Lose(r) \/ Submitted!Refuse(r)
      BY <3>1, <3>3, EndMaps
    <3> QED
      BY <3>4 DEF Submitted!Next
  <2> QED
    BY <1>1, <2>1, <2>2, <2>3, <2>4 DEF RequestStep
<1>2. ASSUME NEW k \in Key, Mine(k) PROVE [Submitted!Next]_Submitted!submissionVars
  BY <1>2, MineMaps DEF Submitted!Next
<1>3. ASSUME NodeRestart PROVE [Submitted!Next]_Submitted!submissionVars
  <2>1. UNCHANGED <<Outcome, step, Told, RanSet>>
    BY <1>3 DEF NodeRestart, serviceVars, Outcome, Told, RanSet
  <2>2. (~MayReplace /\ restarts = 0)' = FALSE
    BY <1>3 DEF NodeRestart, RInv, ResultsInv
  <2> QED
    BY <2>1, <2>2 DEF Submitted!Forget, Submitted!Next, Told, RanSet
<1>4. ASSUME UNCHANGED vars PROVE [Submitted!Next]_Submitted!submissionVars
  <2>1. UNCHANGED <<Outcome, step, Told, RanSet, restarts>>
    BY <1>4 DEF vars, serviceVars, nodeVars, Outcome, Told, RanSet
  <2> QED
    BY <2>1 DEF Submitted!submissionVars, Told, RanSet
<1> QED
  BY <1>1, <1>2, <1>3, <1>4 DEF Next, Quiescent

\* The services implement Submission, for every value of the constants.
THEOREM Implementation ==
    Spec => ImplementsSubmission
<1>1. RInv /\ [Next]_vars => [Submitted!Next]_Submitted!submissionVars
  BY NextMaps
<1> QED
  BY InitMaps, RInductive, <1>1, PTL DEF Spec, ImplementsSubmission, Submitted!Spec

=============================================================================
