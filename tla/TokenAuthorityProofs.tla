------------------------ MODULE TokenAuthorityProofs ------------------------
(***************************************************************************)
(* Proofs about the on-chain system, for any accounts, amounts, roles,     *)
(* policies, handlers and limits the assumptions admit.                    *)
(*                                                                         *)
(* isAuthorized is never expanded: the results hold for every outcome of   *)
(* the policy checks.                                                      *)
(***************************************************************************)
EXTENDS TokenAuthority, AuthRegistryProofs, FiniteSetTheorems

-----------------------------------------------------------------------------
(* One ledger: what a mint, a burn and a transfer do to the balances.       *)

\* A credit adds to one balance and leaves the others.
LEMMA CreditedFacts ==
    ASSUME NEW bal \in [Account -> Nat], NEW to \in Account, NEW amount \in Nat
    PROVE  /\ Credited(bal, to, amount) \in [Account -> Nat]
           /\ \A a \in Account : Credited(bal, to, amount)[a]
                                   = IF a = to THEN bal[a] + amount ELSE bal[a]
BY DEF Credited

\* A debit of a covered amount takes from one balance, which stays natural.
LEMMA DebitedFacts ==
    ASSUME NEW bal \in [Account -> Nat], NEW from \in Account, NEW amount \in Nat,
           bal[from] >= amount
    PROVE  /\ Debited(bal, from, amount) \in [Account -> Nat]
           /\ \A a \in Account : Debited(bal, from, amount)[a]
                                   = IF a = from THEN bal[a] - amount ELSE bal[a]
BY DEF Debited

\* A transfer of a covered amount, to oneself too, debits one and credits the other.
LEMMA MovedFacts ==
    ASSUME NEW bal \in [Account -> Nat], NEW from \in Account, NEW to \in Account,
           NEW amount \in Nat, bal[from] >= amount
    PROVE  /\ Moved(bal, from, to, amount) \in [Account -> Nat]
           /\ \A a \in Account : Moved(bal, from, to, amount)[a]
                = IF from = to THEN bal[a]
                  ELSE IF a = from THEN bal[a] - amount
                  ELSE IF a = to THEN bal[a] + amount ELSE bal[a]
<1> DEFINE mid == Debited(bal, from, amount)
<1>1. /\ mid \in [Account -> Nat]
      /\ \A a \in Account : mid[a] = IF a = from THEN bal[a] - amount ELSE bal[a]
  BY DebitedFacts
<1> HIDE DEF mid
<1>2. /\ Credited(mid, to, amount) \in [Account -> Nat]
      /\ \A a \in Account : Credited(mid, to, amount)[a]
                              = IF a = to THEN mid[a] + amount ELSE mid[a]
  BY <1>1, CreditedFacts
<1>3. Moved(bal, from, to, amount) = Credited(mid, to, amount)
  BY DEF Moved, mid
<1> QED
  BY <1>1, <1>2, <1>3

-----------------------------------------------------------------------------
(* The total of the balances. Account is finite, so that the sum over its    *)
(* subsets is well defined; it is shown level by level of their size, by the *)
(* least counterexample.                                                     *)

Pick(s) == CHOOSE a \in s : TRUE
Subtotals(bal) ==
    CHOOSE sum : sum = [s \in SUBSET Account |->
                           IF s = {} THEN 0 ELSE bal[Pick(s)] + sum[s \ {Pick(s)}]]

\* TotalOf is the last of the subtotals.
LEMMA TotalIsSubtotal ==
    ASSUME NEW bal
    PROVE  TotalOf(bal) = Subtotals(bal)[Account]
BY DEF TotalOf, MapThenSumSet, MapThenFoldSet, Subtotals, Pick

\* Taking the picked account out of a set of accounts makes it smaller.
LEMMA PickFacts ==
    ASSUME NEW s \in SUBSET Account
    PROVE  /\ IsFiniteSet(s) /\ Cardinality(s) \in Nat
           /\ Cardinality(s) <= Cardinality(Account)
           /\ s # {} => /\ Pick(s) \in s /\ s \ {Pick(s)} \in SUBSET Account
                        /\ Cardinality(s \ {Pick(s)}) = Cardinality(s) - 1
                        /\ Cardinality(s) > 0
<1>1. /\ IsFiniteSet(s) /\ Cardinality(s) \in Nat /\ Cardinality(s) <= Cardinality(Account)
  BY RegistryAssumption, FS_Subset, FS_CardinalityType
<1>2. ASSUME s # {}
      PROVE  /\ Pick(s) \in s /\ s \ {Pick(s)} \in SUBSET Account
             /\ Cardinality(s \ {Pick(s)}) = Cardinality(s) - 1
             /\ Cardinality(s) > 0
  <2>1. Pick(s) \in s
    BY <1>2 DEF Pick
  <2>2. Cardinality(s \ {Pick(s)}) = Cardinality(s) - 1
    BY <1>1, <2>1, FS_RemoveElement
  <2>3. Cardinality(s) # 0
    BY <1>1, <1>2, FS_EmptySet
  <2> QED  BY <1>1, <2>1, <2>2, <2>3
<1> QED  BY <1>1, <1>2

\* A set of accounts of the least size in a collection.
LEMMA LeastSet ==
    ASSUME NEW B \in SUBSET (SUBSET Account), B # {}
    PROVE  \E s \in B : s # {} => s \ {Pick(s)} \notin B
<1> DEFINE Sizes == {Cardinality(s) : s \in B}
<1>1. Sizes \subseteq Nat
  <2>1. \A s \in B : Cardinality(s) \in Nat
    BY PickFacts
  <2> QED  BY <2>1
<1>2. Sizes # {}
  <2>1. PICK s \in B : TRUE
    OBVIOUS
  <2>2. Cardinality(s) \in Sizes
    OBVIOUS
  <2> QED  BY <2>2
<1>3. PICK n \in Sizes : \A m \in Sizes : n <= m
  BY <1>1, <1>2, LeastOf
<1>4. PICK s \in B : n = Cardinality(s)
  BY <1>3
<1>5. ASSUME s # {}, s \ {Pick(s)} \in B PROVE FALSE
  <2>1. Cardinality(s \ {Pick(s)}) = n - 1 /\ n \in Nat
    BY <1>4, <1>5, PickFacts
  <2>2. n <= Cardinality(s \ {Pick(s)})
    BY <1>3, <1>5
  <2> QED  BY <2>1, <2>2
<1> QED  BY <1>4, <1>5

\* There are such subtotals.
LEMMA SubtotalsExist ==
    ASSUME NEW bal \in [Account -> Int]
    PROVE  \E sum \in [SUBSET Account -> Int] : \A s \in SUBSET Account :
               sum[s] = IF s = {} THEN 0 ELSE bal[Pick(s)] + sum[s \ {Pick(s)}]
<1> DEFINE Level(n) == {s \in SUBSET Account : Cardinality(s) <= n}
           Sums(f, n) == \A s \in Level(n) :
                             f[s] = IF s = {} THEN 0 ELSE bal[Pick(s)] + f[s \ {Pick(s)}]
           Good(n) == \E f \in [Level(n) -> Int] : Sums(f, n)
           Bad == {n \in Nat : ~Good(n)}
<1>1. ASSUME NEW m \in Nat, \A n \in Nat : n < m => Good(n)
      PROVE  Good(m)
  <2>1. \E f : m > 0 => f \in [Level(m - 1) -> Int] /\ Sums(f, m - 1)
    <3>1. CASE m > 0
      <4>1. m - 1 \in Nat /\ m - 1 < m
        BY <3>1
      <4>2. Good(m - 1)
        BY <1>1, <4>1
      <4> HIDE DEF Level, Sums
      <4> QED  BY <4>2
    <3>2. CASE ~(m > 0)
      BY <3>2
    <3> QED  BY <3>1, <3>2
  <2>2. PICK f : m > 0 => f \in [Level(m - 1) -> Int] /\ Sums(f, m - 1)
    BY <2>1
  <2> DEFINE g == [s \in Level(m) |-> IF s = {} THEN 0 ELSE bal[Pick(s)] + f[s \ {Pick(s)}]]
  <2>3. ASSUME NEW s \in Level(m), s # {}
        PROVE  /\ m > 0 /\ s \ {Pick(s)} \in Level(m - 1) /\ s \ {Pick(s)} \in Level(m)
               /\ bal[Pick(s)] \in Int
    <3>1. /\ Pick(s) \in s /\ s \ {Pick(s)} \in SUBSET Account
          /\ Cardinality(s \ {Pick(s)}) = Cardinality(s) - 1
          /\ Cardinality(s) > 0 /\ Cardinality(s) \in Nat /\ Cardinality(s) <= m
      BY <2>3, PickFacts
    <3> QED  BY <3>1
  <2>4. g \in [Level(m) -> Int]
    <3> SUFFICES ASSUME NEW s \in Level(m)
                 PROVE  (IF s = {} THEN 0 ELSE bal[Pick(s)] + f[s \ {Pick(s)}]) \in Int
      OBVIOUS
    <3>1. CASE s = {}
      BY <3>1
    <3>2. CASE s # {}
      <4> HIDE DEF Level, Sums
      <4> QED  BY <2>2, <2>3, <3>2
    <3> QED  BY <3>1, <3>2
  <2>5. Sums(g, m)
    <3> SUFFICES ASSUME NEW s \in Level(m)
                 PROVE  g[s] = IF s = {} THEN 0 ELSE bal[Pick(s)] + g[s \ {Pick(s)}]
      OBVIOUS
    <3>1. CASE s = {}
      BY <3>1
    <3>2. CASE s # {}
      <4> DEFINE t == s \ {Pick(s)}
      <4>1. /\ m > 0 /\ t \in Level(m - 1) /\ t \in Level(m)
        BY <2>3, <3>2
      <4>2. g[s] = bal[Pick(s)] + f[t]
        BY <3>2
      <4> HIDE DEF t
      <4>3. g[t] = IF t = {} THEN 0 ELSE bal[Pick(t)] + f[t \ {Pick(t)}]
        BY <4>1
      <4>4. f[t] = IF t = {} THEN 0 ELSE bal[Pick(t)] + f[t \ {Pick(t)}]
        BY <2>2, <4>1
      <4> HIDE DEF g
      <4> QED  BY <3>2, <4>2, <4>3, <4>4 DEF t
    <3> QED  BY <3>1, <3>2
  <2> HIDE DEF g, Sums, Level
  <2> QED  BY <2>4, <2>5
<1> HIDE DEF Good
<1>2. Bad = {}
  <2>1. ASSUME Bad # {} PROVE FALSE
    <3>1. PICK m \in Bad : \A n \in Bad : m <= n
      BY <2>1, LeastOf
    <3>2. m \in Nat /\ ~Good(m) /\ \A n \in Nat : n < m => Good(n)
      BY <3>1
    <3> QED  BY <1>1, <3>2
  <2> QED  BY <2>1
<1>3. Cardinality(Account) \in Nat
  BY RegistryAssumption, FS_CardinalityType
<1>4. Good(Cardinality(Account))
  BY <1>2, <1>3
<1>5. Level(Cardinality(Account)) = SUBSET Account
  BY PickFacts
<1> QED  BY <1>4, <1>5 DEF Good

\* What the subtotals are.
LEMMA SubtotalStep ==
    ASSUME NEW bal \in [Account -> Int]
    PROVE  /\ Subtotals(bal) \in [SUBSET Account -> Int]
           /\ \A s \in SUBSET Account :
                  Subtotals(bal)[s] =
                      IF s = {} THEN 0 ELSE bal[Pick(s)] + Subtotals(bal)[s \ {Pick(s)}]
<1> DEFINE Is(sum) == sum = [s \in SUBSET Account |->
                               IF s = {} THEN 0 ELSE bal[Pick(s)] + sum[s \ {Pick(s)}]]
<1>1. \E sum : Is(sum)
  <2>1. PICK sum \in [SUBSET Account -> Int] : \A s \in SUBSET Account :
               sum[s] = IF s = {} THEN 0 ELSE bal[Pick(s)] + sum[s \ {Pick(s)}]
    BY SubtotalsExist
  <2>2. Is(sum)
    BY <2>1
  <2> QED  BY <2>2
<1>2. Is(Subtotals(bal))
  BY <1>1 DEF Subtotals
<1> DEFINE sum == Subtotals(bal)
<1>3. /\ DOMAIN sum = SUBSET Account /\ sum = [s \in SUBSET Account |-> sum[s]]
      /\ \A s \in SUBSET Account :
             sum[s] = IF s = {} THEN 0 ELSE bal[Pick(s)] + sum[s \ {Pick(s)}]
  <2> HIDE DEF sum
  <2>1. Is(sum)
    BY <1>2 DEF sum
  <2> QED  BY <2>1
<1> HIDE DEF sum
<1>4. \A s \in SUBSET Account : sum[s] \in Int
  <2> DEFINE Bad == {s \in SUBSET Account : sum[s] \notin Int}
  <2>1. ASSUME Bad # {} PROVE FALSE
    <3>1. PICK s \in Bad : s # {} => s \ {Pick(s)} \notin Bad
      <4>1. Bad \in SUBSET (SUBSET Account)
        OBVIOUS
      <4> HIDE DEF Bad
      <4> QED  BY <2>1, <4>1, LeastSet
    <3>2. CASE s = {}
      <4>1. sum[s] = 0
        BY <1>3, <3>2
      <4> QED  BY <3>1, <4>1
    <3>3. CASE s # {}
      <4>1. /\ Pick(s) \in Account /\ s \ {Pick(s)} \in SUBSET Account
        BY <3>1, <3>3, PickFacts
      <4>2. sum[s] = bal[Pick(s)] + sum[s \ {Pick(s)}]
        BY <1>3, <3>1, <3>3
      <4>3. sum[s \ {Pick(s)}] \in Int
        BY <3>1, <3>3, <4>1
      <4>4. sum[s] \in Int
        BY <4>1, <4>2, <4>3
      <4> QED  BY <3>1, <4>4
    <3> QED  BY <3>2, <3>3
  <2> QED  BY <2>1
<1> QED  BY <1>3, <1>4 DEF sum

\* Changing one balance changes the total by as much.
LEMMA TotalChanges ==
    ASSUME NEW bal \in [Account -> Int], NEW new \in [Account -> Int], NEW x \in Account,
           \A a \in Account : a # x => new[a] = bal[a]
    PROVE  TotalOf(new) = TotalOf(bal) + (new[x] - bal[x])
<1> DEFINE f == Subtotals(bal)
           g == Subtotals(new)
           delta == new[x] - bal[x]
           Good(s) == g[s] = f[s] + (IF x \in s THEN delta ELSE 0)
           Bad == {s \in SUBSET Account : ~Good(s)}
<1>1. /\ f \in [SUBSET Account -> Int] /\ g \in [SUBSET Account -> Int]
      /\ \A s \in SUBSET Account :
             /\ f[s] = IF s = {} THEN 0 ELSE bal[Pick(s)] + f[s \ {Pick(s)}]
             /\ g[s] = IF s = {} THEN 0 ELSE new[Pick(s)] + g[s \ {Pick(s)}]
  BY SubtotalStep
<1>2. delta \in Int /\ bal[x] \in Int /\ new[x] = bal[x] + delta
  OBVIOUS
<1> HIDE DEF f, g, delta
<1>3. ASSUME Bad # {} PROVE FALSE
  <2>1. PICK s \in Bad : s # {} => s \ {Pick(s)} \notin Bad
    <3>1. Bad \in SUBSET (SUBSET Account)
      OBVIOUS
    <3> HIDE DEF Bad
    <3> QED  BY <1>3, <3>1, LeastSet
  <2>3. s \in SUBSET Account /\ ~Good(s)
    BY <2>1
  <2>4. s # {}
    <3>1. {} \in SUBSET Account /\ x \notin {}
      OBVIOUS
    <3>2. f[{}] = 0 /\ g[{}] = 0
      BY <1>1, <3>1
    <3>3. Good({})
      BY <3>2
    <3> HIDE DEF Good
    <3> QED  BY <2>3, <3>3
  <2> DEFINE p == Pick(s)
             t == s \ {p}
  <2>5. p \in s /\ p \in Account /\ t \in SUBSET Account
    BY <2>3, <2>4, PickFacts
  <2>6. Good(t)
    <3> HIDE DEF Good
    <3> QED  BY <2>1, <2>4, <2>5
  <2>7. /\ f[s] = bal[p] + f[t] /\ g[s] = new[p] + g[t]
        /\ f[t] \in Int /\ g[t] \in Int /\ bal[p] \in Int /\ new[p] \in Int
        /\ f[s] \in Int /\ g[s] \in Int
    BY <1>1, <2>3, <2>4, <2>5
  <2>8. CASE p = x
    <3>1. x \in s /\ x \notin t
      BY <2>5, <2>8
    <3>2. g[t] = f[t] /\ new[p] = bal[p] + delta
      BY <1>2, <2>6, <2>7, <2>8, <3>1
    <3>3. g[s] = f[s] + delta
      BY <1>2, <2>7, <3>2
    <3> QED  BY <2>3, <3>1, <3>3
  <2>9. CASE p # x
    <3>1. (x \in s <=> x \in t) /\ new[p] = bal[p]
      BY <2>5, <2>9
    <3> HIDE DEF p, t
    <3>2. g[t] = f[t] + (IF x \in s THEN delta ELSE 0)
      BY <2>6, <3>1
    <3>3. Good(s)
      BY <1>2, <2>7, <3>1, <3>2
    <3> QED  BY <2>3, <3>3
  <2> QED  BY <2>8, <2>9
<1>4. Good(Account)
  BY <1>3
<1>5. g[Account] = f[Account] + delta
  BY <1>4
<1> QED  BY <1>5, TotalIsSubtotal DEF f, g, delta

\* The total is an integer, and zero when nobody has anything.
LEMMA TotalTyped ==
    ASSUME NEW bal \in [Account -> Int]
    PROVE  TotalOf(bal) \in Int
BY SubtotalStep, TotalIsSubtotal

\* Empty balances add up to zero.
LEMMA TotalOfNothing == TotalOf([a \in Account |-> 0]) = 0
<1> DEFINE bal == [a \in Account |-> 0]
           f == Subtotals(bal)
           Bad == {s \in SUBSET Account : f[s] # 0}
<1>1. bal \in [Account -> Int]
  OBVIOUS
<1>2. \A s \in SUBSET Account :
          f[s] = IF s = {} THEN 0 ELSE bal[Pick(s)] + f[s \ {Pick(s)}]
  BY <1>1, SubtotalStep
<1> HIDE DEF f
<1>3. ASSUME Bad # {} PROVE FALSE
  <2>1. PICK s \in Bad : s # {} => s \ {Pick(s)} \notin Bad
    <3>1. Bad \in SUBSET (SUBSET Account)
      OBVIOUS
    <3> HIDE DEF Bad
    <3> QED  BY <1>3, <3>1, LeastSet
  <2>2. CASE s = {}
    BY <1>2, <2>1, <2>2
  <2>3. CASE s # {}
    <3>1. Pick(s) \in Account /\ s \ {Pick(s)} \in SUBSET Account
      BY <2>1, <2>3, PickFacts
    <3>2. f[s \ {Pick(s)}] = 0
      BY <2>1, <2>3, <3>1
    <3>3. f[s] = bal[Pick(s)] + f[s \ {Pick(s)}]
      BY <1>2, <2>1, <2>3
    <3> QED  BY <2>1, <3>1, <3>2, <3>3
  <2> QED  BY <2>2, <2>3
<1>4. f[Account] = 0
  BY <1>3
<1> QED  BY <1>4, TotalIsSubtotal DEF f

\* A mint adds to the total, a burn takes from it, a transfer does neither.
LEMMA CreditedTotal ==
    ASSUME NEW bal \in [Account -> Nat], NEW to \in Account, NEW amount \in Nat
    PROVE  TotalOf(Credited(bal, to, amount)) = TotalOf(bal) + amount
<1> DEFINE b == Credited(bal, to, amount)
<1>1. /\ b \in [Account -> Nat]
      /\ \A a \in Account : b[a] = IF a = to THEN bal[a] + amount ELSE bal[a]
  BY CreditedFacts
<1> HIDE DEF b
<1>2. bal \in [Account -> Int] /\ b \in [Account -> Int]
  BY <1>1
<1>3. \A a \in Account : a # to => b[a] = bal[a]
  BY <1>1
<1>4. TotalOf(b) = TotalOf(bal) + (b[to] - bal[to])
  BY <1>2, <1>3, TotalChanges
<1>5. b[to] - bal[to] = amount
  BY <1>1
<1> QED  BY <1>4, <1>5 DEF b

\* A debit takes its amount from the sum.
LEMMA DebitedTotal ==
    ASSUME NEW bal \in [Account -> Nat], NEW from \in Account, NEW amount \in Nat,
           bal[from] >= amount
    PROVE  TotalOf(Debited(bal, from, amount)) = TotalOf(bal) - amount
<1> DEFINE b == Debited(bal, from, amount)
<1>1. /\ b \in [Account -> Nat]
      /\ \A a \in Account : b[a] = IF a = from THEN bal[a] - amount ELSE bal[a]
  BY DebitedFacts
<1> HIDE DEF b
<1>2. bal \in [Account -> Int] /\ b \in [Account -> Int]
  BY <1>1
<1>3. \A a \in Account : a # from => b[a] = bal[a]
  BY <1>1
<1>4. TotalOf(b) = TotalOf(bal) + (b[from] - bal[from])
  BY <1>2, <1>3, TotalChanges
<1>5. b[from] - bal[from] = 0 - amount
  BY <1>1
<1>6. TotalOf(bal) \in Int
  BY <1>2, TotalTyped
<1> QED  BY <1>4, <1>5, <1>6 DEF b

\* A transfer leaves the sum as it is.
LEMMA MovedTotal ==
    ASSUME NEW bal \in [Account -> Nat], NEW from \in Account, NEW to \in Account,
           NEW amount \in Nat, bal[from] >= amount
    PROVE  TotalOf(Moved(bal, from, to, amount)) = TotalOf(bal)
<1> DEFINE mid == Debited(bal, from, amount)
<1>1. mid \in [Account -> Nat] /\ TotalOf(mid) = TotalOf(bal) - amount
  BY DebitedFacts, DebitedTotal
<1> HIDE DEF mid
<1>2. TotalOf(Credited(mid, to, amount)) = TotalOf(mid) + amount
  BY <1>1, CreditedTotal
<1>3. bal \in [Account -> Int]
  OBVIOUS
<1>4. TotalOf(bal) \in Int
  BY <1>3, TotalTyped
<1>5. Moved(bal, from, to, amount) = Credited(mid, to, amount)
  BY DEF Moved, mid
<1> QED  BY <1>1, <1>2, <1>4, <1>5

\* Spending a covered amount of an allowance leaves a natural allowance.
LEMMA SpentFacts ==
    ASSUME LedgerTypeOK, NEW t \in Token, NEW owner \in Users, NEW spender \in Account,
           NEW amount \in Nat, allowance[t][owner][spender] >= amount
    PROVE  Spent(t, owner, spender, amount) \in [Token -> [Users -> [Account -> Nat]]]
<1>1. allowance[t][owner][spender] - amount \in Nat
  BY DEF LedgerTypeOK
<1> QED
  BY <1>1 DEF LedgerTypeOK, Spent

\* The addresses of the system, and that the contracts are not users.
LEMMA Addresses ==
    /\ {Zero, RL, SC, TA, Wrapped, Backed, Single, Store} \subseteq Account
    /\ \A u \in Users : u \in Account /\ u # SC /\ u # Store
    /\ RL \in Token /\ SC \in Token /\ RL # SC /\ SC # Store
    /\ \A t \in Token : t = RL \/ t = SC
    /\ Recipients \subseteq Account /\ Amounts \subseteq Nat
BY RegistryAssumption, TokenAssumption, AuthorityAssumption DEF Token, Contract, Handler

-----------------------------------------------------------------------------
(* Every transaction that moves tokens, one lemma each.                     *)

\* What is shown of such a step: the ledger stays well formed, the reserve stays
\* under its cap, supply and balances change by the same amount, the circulation
\* does not outgrow what SC holds unless somebody may move one side alone, and the
\* three action properties hold of it.
Balanced(t, b, s) == TotalOf(b) - TotalOf(balance[t]) = s - supply[t]

Uncovered ==
    \/ \E u \in Users : hasRole(SC, "MINTER", u) \/ hasRole(RL, "BLOCKED_ADDRESS_BURNER", u)
    \/ tokenHandlers[SC] \in {Backed, Single}

\* Who issues SC on its own: a minter, or SingleTokenHandler.
IssuesAlone ==
    \/ (\E minter \in Users : hasRole(SC, "MINTER", minter)) /\ UNCHANGED authorityVars
    \/ tokenHandlers[SC] = Single /\ hasRole(SC, "MINTER", Single)

Gap == supply[SC] - balance[RL][SC]
GapStep == Gap' > Gap => Uncovered

LedgerStep ==
    /\ LedgerTypeOK'
    /\ \A t \in Token : Balanced(t, balance'[t], supply'[t])
    /\ GapStep
    /\ supply'[RL] <= supply[RL] \/ supply'[RL] <= maxSupply[RL]
    /\ ShortfallStep
    /\ FrozenStep
    /\ PauseStep

\* A step whose new circulation is covered by new reserve widens no shortfall.
LEMMA CoveredStep ==
    ASSUME LedgerTypeOK, LedgerTypeOK',
           supply'[SC] - supply[SC] <= (balance'[RL][SC] - balance[RL][SC])
                                         + (balance'[RL][Store] - balance[RL][Store])
    PROVE  ShortfallStep
<1>1. /\ supply[SC] \in Int /\ supply'[SC] \in Int
      /\ balance[RL][SC] \in Nat /\ balance'[RL][SC] \in Nat
      /\ balance[RL][Store] \in Nat /\ balance'[RL][Store] \in Nat
  BY Addresses DEF LedgerTypeOK
<1>2. ~(Shortfall' > Shortfall)
  BY <1>1 DEF Shortfall, Reserve
<1> QED
  BY <1>2 DEF ShortfallStep

\* The entries of the two ledgers the properties look at are numbers.
LEMMA Entries ==
    ASSUME LedgerTypeOK
    PROVE  /\ supply[RL] \in Int /\ supply[SC] \in Int
           /\ \A a \in Account : balance[RL][a] \in Nat /\ balance[SC][a] \in Nat
BY Addresses DEF LedgerTypeOK

\* The total of a token's balances is a number.
LEMMA TotalIsInt ==
    ASSUME LedgerTypeOK, NEW t \in Token
    PROVE  TotalOf(balance[t]) \in Int
<1>1. balance[t] \in [Account -> Int]
  BY DEF LedgerTypeOK
<1> QED  BY <1>1, TotalTyped

\* A token whose balances and supply stay is balanced.
LEMMA StillBalanced ==
    ASSUME LedgerTypeOK, NEW t \in Token
    PROVE  Balanced(t, balance[t], supply[t])
<1>1. balance[t] \in [Account -> Int] /\ supply[t] \in Int
  BY DEF LedgerTypeOK
<1>2. TotalOf(balance[t]) \in Int
  BY <1>1, TotalTyped
<1> QED  BY <1>1, <1>2 DEF Balanced

\* A change of the balances of one token that the _update checks allow.
Cleared(t, b, s) ==
    \A a \in Account : b[a] # balance[t][a] =>
        ~paused[t] /\ (isAuthorized(transferPolicyId[t], a)
                          \/ (b[a] = 0 /\ s = supply[t] - balance[t][a]))

ReserveKept(b) == \A h \in {SC, Store} : b[h] >= balance[RL][h]

\* A transaction on one token, from its new balances b and its new supply s.
LEMMA OneTokenStep ==
    ASSUME LedgerTypeOK, NEW t \in Token, NEW b \in [Account -> Nat], NEW s \in Int,
           balance' = [balance EXCEPT ![t] = b],
           supply' = [supply EXCEPT ![t] = s],
           allowance' \in [Token -> [Users -> [Account -> Nat]]],
           Cleared(t, b, s), Balanced(t, b, s),
           t = RL => s <= supply[RL] \/ s <= maxSupply[RL],
           t = RL => ReserveKept(b) \/ (/\ \E h \in {SC, Store} : isBlocked(RL, h)
                                        /\ s < supply[RL] /\ Uncovered),
           t = SC => s = supply[SC] \/ ~migrated,
           t = SC => s <= supply[SC] \/ IssuesAlone
    PROVE  LedgerStep
<1>1. /\ LedgerTypeOK'
      /\ balance'[t] = b /\ supply'[t] = s
      /\ \A u \in Token : u # t => balance'[u] = balance[u] /\ supply'[u] = supply[u]
  BY DEF LedgerTypeOK
<1>2. /\ balance[RL][SC] \in Nat /\ balance[RL][Store] \in Nat
      /\ balance'[RL][SC] \in Nat /\ balance'[RL][Store] \in Nat
      /\ supply[SC] \in Int /\ supply[RL] \in Int /\ supply'[SC] \in Int /\ supply'[RL] \in Int
  BY <1>1, Addresses DEF LedgerTypeOK
<1>3. ShortfallStep
  <2>1. CASE t = RL
    <3>1. supply'[SC] = supply[SC] /\ balance'[RL] = b /\ supply'[RL] = s
      BY <1>1, <2>1, Addresses
    <3>2. CASE ReserveKept(b)
      <4>1. balance'[RL][SC] >= balance[RL][SC] /\ balance'[RL][Store] >= balance[RL][Store]
        BY <3>1, <3>2 DEF ReserveKept
      <4> QED
        BY <3>1, <4>1, <1>1, <1>2, CoveredStep
    <3>3. CASE ~ReserveKept(b)
      BY <2>1, <3>1, <3>3 DEF ShortfallStep, ReserveSeized
    <3> QED
      BY <3>2, <3>3
  <2>2. CASE t = SC
    <3>1. balance'[RL] = balance[RL]
      BY <1>1, <2>2, Addresses
    <3>2. CASE supply'[SC] <= supply[SC]
      BY <1>1, <1>2, <3>1, <3>2, CoveredStep
    <3>3. CASE supply'[SC] > supply[SC]
      <4>1. IssuedAlone
        BY <1>1, <1>2, <2>2, <3>1, <3>3 DEF IssuedAlone
      <4>2. IssuesAlone
        BY <1>1, <1>2, <2>2, <3>3
      <4> QED
        BY <4>1, <4>2 DEF ShortfallStep, DirectMint, SingleHandlerMint, IssuesAlone
    <3> QED
      BY <1>2, <3>2, <3>3
  <2> QED
    BY <2>1, <2>2, Addresses
<1>4. FrozenStep
  BY <1>1 DEF FrozenStep, Cleared, BurnedWhole
<1>5. PauseStep
  BY <1>1, Addresses DEF PauseStep
<1>6. supply'[RL] <= supply[RL] \/ supply'[RL] <= maxSupply[RL]
  BY <1>1, <1>2, Addresses
<1>7. \A u \in Token : Balanced(u, balance'[u], supply'[u])
  <2>1. \A u \in Token : u # t => Balanced(u, balance'[u], supply'[u])
    BY <1>1, StillBalanced
  <2> QED
    BY <1>1, <2>1
<1>8. GapStep
  <2>1. CASE t = RL
    <3>1. supply'[SC] = supply[SC] /\ balance'[RL] = b
      BY <1>1, <2>1, Addresses
    <3>2. b[SC] >= balance[RL][SC] \/ Uncovered
      BY <2>1 DEF ReserveKept
    <3> QED
      BY <1>2, <3>1, <3>2 DEF GapStep, Gap
  <2>2. CASE t = SC
    <3>1. balance'[RL] = balance[RL] /\ supply'[SC] = s
      BY <1>1, <2>2, Addresses
    <3>2. supply'[SC] <= supply[SC] \/ Uncovered
      BY <2>2, <3>1 DEF IssuesAlone, Uncovered
    <3> QED
      BY <1>2, <3>1, <3>2 DEF GapStep, Gap
  <2> QED
    BY <2>1, <2>2, Addresses
<1> QED
  BY <1>1, <1>3, <1>4, <1>5, <1>6, <1>7, <1>8 DEF LedgerStep

\* A transaction on both tokens, whose new circulation is covered.
LEMMA BothTokensStep ==
    ASSUME LedgerTypeOK, NEW b \in [Account -> Nat], NEW d \in [Account -> Nat],
           NEW r \in Int, NEW s \in Int,
           balance' = [balance EXCEPT ![RL] = b, ![SC] = d],
           supply' = [supply EXCEPT ![RL] = r, ![SC] = s],
           allowance' \in [Token -> [Users -> [Account -> Nat]]],
           Cleared(RL, b, r), Cleared(SC, d, s), Balanced(RL, b, r), Balanced(SC, d, s),
           s - supply[SC] <= b[SC] - balance[RL][SC] \/ Uncovered,
           s - supply[SC] <= (b[SC] - balance[RL][SC]) + (b[Store] - balance[RL][Store]),
           r <= supply[RL] \/ r <= maxSupply[RL],
           ~(migrated /\ paused[RL])
    PROVE  LedgerStep
<1>1. /\ LedgerTypeOK'
      /\ balance'[RL] = b /\ supply'[RL] = r
      /\ balance'[SC] = d /\ supply'[SC] = s
  BY Addresses DEF LedgerTypeOK
<1>2. ShortfallStep
  BY <1>1, CoveredStep
<1>3. FrozenStep
  BY <1>1, Addresses DEF FrozenStep, Cleared, BurnedWhole
<1>4. PauseStep
  BY DEF PauseStep
<1>5. \A u \in Token : Balanced(u, balance'[u], supply'[u])
  BY <1>1, Addresses
<1>6. GapStep
  <2>1. supply[SC] \in Int /\ balance[RL][SC] \in Nat /\ b[SC] \in Nat
    BY Addresses DEF LedgerTypeOK
  <2> QED
    BY <1>1, <2>1 DEF GapStep, Gap
<1> QED
  BY <1>1, <1>2, <1>3, <1>4, <1>5, <1>6 DEF LedgerStep

\* The token actions.
LEMMA TransferStep ==
    ASSUME LedgerTypeOK, NEW sender \in Users, NEW t \in Token, NEW to \in Recipients,
           NEW amount \in Amounts, Transfer(sender, t, to, amount)
    PROVE  LedgerStep
<1> DEFINE b == Moved(balance[t], sender, to, amount)
<1>1. /\ sender \in Account /\ to \in Account /\ amount \in Nat
      /\ balance[t] \in [Account -> Nat] /\ balance[t][sender] >= amount
      /\ supply[t] \in Int
  BY Addresses DEF LedgerTypeOK, Transfer
<1>2. /\ b \in [Account -> Nat]
      /\ \A a \in Account : b[a] = IF sender = to THEN balance[t][a]
                                   ELSE IF a = sender THEN balance[t][a] - amount
                                   ELSE IF a = to THEN balance[t][a] + amount ELSE balance[t][a]
  BY <1>1, MovedFacts
<1>3. /\ balance' = [balance EXCEPT ![t] = b]
      /\ supply' = [supply EXCEPT ![t] = supply[t]]
      /\ allowance' \in [Token -> [Users -> [Account -> Nat]]]
  BY DEF Transfer, LedgerTypeOK
<1> HIDE DEF b
<1>4. Cleared(t, b, supply[t])
  BY <1>2 DEF Cleared, Transfer, MayMove
<1>5. t = RL => ReserveKept(b)
  BY <1>1, <1>2, Addresses DEF ReserveKept
<1>6. (t = RL => supply[t] <= supply[RL]) /\ (t = SC => supply[t] <= supply[SC])
  BY <1>1
<1>7. Balanced(t, b, supply[t])
  <2>1. TotalOf(b) = TotalOf(balance[t])
    BY <1>1, MovedTotal DEF b
  <2> QED
    BY <2>1, StillBalanced DEF Balanced
<1> QED
  BY <1>1, <1>2, <1>3, <1>4, <1>5, <1>6, <1>7, OneTokenStep

\* ERC20 transferFrom, through _update.
LEMMA TransferFromStep ==
    ASSUME LedgerTypeOK, NEW sender \in Users, NEW t \in Token, NEW from \in Users,
           NEW to \in Recipients, NEW amount \in Amounts,
           TransferFrom(sender, t, from, to, amount)
    PROVE  LedgerStep
<1> DEFINE b == Moved(balance[t], from, to, amount)
<1>1. /\ sender \in Account /\ from \in Account /\ to \in Account /\ amount \in Nat
      /\ balance[t] \in [Account -> Nat] /\ balance[t][from] >= amount
      /\ supply[t] \in Int
  BY Addresses DEF LedgerTypeOK, TransferFrom
<1>2. /\ b \in [Account -> Nat]
      /\ \A a \in Account : b[a] = IF from = to THEN balance[t][a]
                                   ELSE IF a = from THEN balance[t][a] - amount
                                   ELSE IF a = to THEN balance[t][a] + amount ELSE balance[t][a]
  BY <1>1, MovedFacts
<1>3. /\ balance' = [balance EXCEPT ![t] = b]
      /\ supply' = [supply EXCEPT ![t] = supply[t]]
  BY DEF TransferFrom, LedgerTypeOK
<1>4. allowance' \in [Token -> [Users -> [Account -> Nat]]]
  BY <1>1, SpentFacts DEF TransferFrom
<1> HIDE DEF b
<1>5. Cleared(t, b, supply[t])
  BY <1>2 DEF Cleared, TransferFrom, MayMove
<1>6. t = RL => ReserveKept(b)
  BY <1>1, <1>2, Addresses DEF ReserveKept
<1>7. (t = RL => supply[t] <= supply[RL]) /\ (t = SC => supply[t] <= supply[SC])
  BY <1>1
<1>8. Balanced(t, b, supply[t])
  <2>1. TotalOf(b) = TotalOf(balance[t])
    BY <1>1, MovedTotal DEF b
  <2> QED
    BY <2>1, StillBalanced DEF Balanced
<1> QED
  BY <1>1, <1>2, <1>3, <1>4, <1>5, <1>6, <1>7, <1>8, OneTokenStep

\* approve moves nothing.
LEMMA ApproveStep ==
    ASSUME LedgerTypeOK, NEW sender \in Users, NEW grant \in Approvals,
           NEW amount \in Amounts \cup {0}, Approve(sender, grant[1], grant[3], amount)
    PROVE  LedgerStep
<1>1. grant[1] \in Token /\ grant[3] \in Account /\ amount \in Nat
  BY TokenAssumption
<1>2. LedgerTypeOK' /\ balance' = balance /\ supply' = supply
  BY <1>1 DEF LedgerTypeOK, Approve
<1>3. ShortfallStep
  BY <1>2, Entries, Addresses, CoveredStep
<1>4. \A t \in Token : Balanced(t, balance'[t], supply'[t])
  BY <1>2, StillBalanced
<1>5. GapStep
  BY <1>2, Entries, Addresses DEF GapStep, Gap
<1> QED
  BY <1>2, <1>3, <1>4, <1>5, Entries DEF LedgerStep, FrozenStep, PauseStep

\* A direct mint, by a minter or by SingleTokenHandler.
LEMMA MintEffect ==
    ASSUME LedgerTypeOK, ConfigTypeOK, NEW t \in Token, NEW minter, NEW to \in Recipients,
           NEW amount \in Amounts, MintChecks(t, minter, to, amount), t = SC => IssuesAlone,
           balance' = [balance EXCEPT ![t] = Credited(@, to, amount)],
           supply' = [supply EXCEPT ![t] = @ + amount], UNCHANGED allowance
    PROVE  LedgerStep
<1> DEFINE b == Credited(balance[t], to, amount)
<1>1. /\ to \in Account /\ amount \in Nat
      /\ balance[t] \in [Account -> Nat] /\ supply[t] \in Int /\ supply[t] + amount \in Int
  BY Addresses DEF LedgerTypeOK
<1>2. /\ b \in [Account -> Nat]
      /\ \A a \in Account : b[a] = IF a = to THEN balance[t][a] + amount ELSE balance[t][a]
  BY <1>1, CreditedFacts
<1>3. /\ balance' = [balance EXCEPT ![t] = b]
      /\ supply' = [supply EXCEPT ![t] = supply[t] + amount]
      /\ allowance' \in [Token -> [Users -> [Account -> Nat]]]
  BY DEF LedgerTypeOK
<1> HIDE DEF b
<1>4. Cleared(t, b, supply[t] + amount)
  BY <1>2 DEF Cleared, MintChecks, MayMove
<1>5. t = RL => ReserveKept(b)
  BY <1>1, <1>2, Addresses DEF ReserveKept
<1>6. supply[t] + amount <= maxSupply[t] /\ (t = SC => ~migrated)
  BY DEF MintChecks, OpenToMinters
<1>7. Balanced(t, b, supply[t] + amount)
  <2>1. TotalOf(b) = TotalOf(balance[t]) + amount
    BY <1>1, CreditedTotal DEF b
  <2> QED
    BY <1>1, <2>1, TotalIsInt DEF Balanced
<1> QED
  BY <1>1, <1>2, <1>3, <1>4, <1>5, <1>6, <1>7, OneTokenStep

\* A direct burn of a user's tokens, by the user or through SingleTokenHandler.
LEMMA BurnEffect ==
    ASSUME LedgerTypeOK, NEW t \in Token, NEW burner, NEW owner \in Users,
           NEW amount \in Amounts, BurnChecks(t, burner),
           ~paused[t], isAuthorized(transferPolicyId[t], owner),
           balance[t][owner] >= amount,
           balance' = [balance EXCEPT ![t] = Debited(@, owner, amount)],
           supply' = [supply EXCEPT ![t] = @ - amount],
           allowance' \in [Token -> [Users -> [Account -> Nat]]]
    PROVE  LedgerStep
<1> DEFINE b == Debited(balance[t], owner, amount)
<1>1. /\ owner \in Account /\ amount \in Nat
      /\ balance[t] \in [Account -> Nat] /\ supply[t] \in Int /\ supply[t] - amount \in Int
  BY Addresses DEF LedgerTypeOK
<1>2. /\ b \in [Account -> Nat]
      /\ \A a \in Account : b[a] = IF a = owner THEN balance[t][a] - amount ELSE balance[t][a]
  BY <1>1, DebitedFacts
<1>3. /\ balance' = [balance EXCEPT ![t] = b]
      /\ supply' = [supply EXCEPT ![t] = supply[t] - amount]
  BY DEF LedgerTypeOK
<1> HIDE DEF b
<1>4. Cleared(t, b, supply[t] - amount)
  BY <1>2 DEF Cleared
<1>5. t = RL => ReserveKept(b)
  BY <1>1, <1>2, Addresses DEF ReserveKept
<1>6. supply[t] - amount <= supply[t] /\ (t = SC => ~migrated)
  BY <1>1 DEF BurnChecks, OpenToMinters
<1>7. Balanced(t, b, supply[t] - amount)
  <2>1. TotalOf(b) = TotalOf(balance[t]) - amount
    BY <1>1, DebitedTotal DEF b
  <2> QED
    BY <1>1, <2>1, TotalIsInt DEF Balanced
<1> QED
  BY <1>1, <1>2, <1>3, <1>4, <1>5, <1>6, <1>7, OneTokenStep

\* ReserveLedger.burnFromBlockedAddress: the one step that may take reserve away.
LEMMA ReserveBurnFromBlockedStep ==
    ASSUME LedgerTypeOK, NEW sender \in Users, NEW account \in Account,
           ReserveBurnFromBlocked(sender, account)
    PROVE  LedgerStep
<1> DEFINE all == balance[RL][account]
           b == Debited(balance[RL], account, all)
<1>1. /\ RL \in Token /\ balance[RL] \in [Account -> Nat] /\ all \in Nat /\ all > 0
      /\ balance[RL][account] >= all
      /\ supply[RL] \in Int /\ supply[RL] - all \in Int /\ supply[RL] - all < supply[RL]
  BY Addresses DEF LedgerTypeOK, ReserveBurnFromBlocked
<1>2. /\ b \in [Account -> Nat]
      /\ \A a \in Account : b[a] = IF a = account THEN balance[RL][a] - all ELSE balance[RL][a]
  BY <1>1, DebitedFacts
<1>3. /\ balance' = [balance EXCEPT ![RL] = b]
      /\ supply' = [supply EXCEPT ![RL] = supply[RL] - all]
      /\ allowance' \in [Token -> [Users -> [Account -> Nat]]]
  BY DEF LedgerTypeOK, ReserveBurnFromBlocked
<1>4. b[account] = 0
  BY <1>1, <1>2
<1> HIDE DEF b
<1>5. Cleared(RL, b, supply[RL] - all)
  BY <1>2, <1>4 DEF Cleared, ReserveBurnFromBlocked
<1>6. ReserveKept(b) \/ \E h \in {SC, Store} : isBlocked(RL, h)
  <2>1. CASE account \in {SC, Store}
    BY <2>1 DEF ReserveBurnFromBlocked
  <2>2. CASE account \notin {SC, Store}
    BY <1>1, <1>2, <2>2, Addresses DEF ReserveKept
  <2> QED
    BY <2>1, <2>2
<1>7. supply[RL] - all <= supply[RL] /\ RL # SC
  BY <1>1, Addresses
<1>8. Balanced(RL, b, supply[RL] - all)
  <2>1. TotalOf(b) = TotalOf(balance[RL]) - all
    BY <1>1, DebitedTotal DEF b
  <2> HIDE DEF all
  <2> QED
    BY <1>1, <2>1, TotalIsInt DEF Balanced
<1>9. Uncovered
  BY DEF Uncovered, ReserveBurnFromBlocked
<1> HIDE DEF all
<1> QED
  BY <1>1, <1>2, <1>3, <1>5, <1>6, <1>7, <1>8, <1>9, OneTokenStep

-----------------------------------------------------------------------------
(* Transactions on both tokens: the reserve of a holder, SC or the store,   *)
(* moves together with the circulation.                                     *)

\* mint through the wrapped or the backed handler.
LEMMA IssueEffect ==
    ASSUME LedgerTypeOK, NEW holder \in {SC, Store}, holder = Store => Uncovered,
           NEW party \in Recipients,
           NEW amount \in Amounts,
           ~paused[RL], isAuthorized(transferPolicyId[RL], holder),
           ~paused[SC], isAuthorized(transferPolicyId[SC], party),
           supply[RL] + amount <= maxSupply[RL],
           balance' = [balance EXCEPT ![RL] = Credited(@, holder, amount),
                                 ![SC] = Credited(@, party, amount)],
           supply' = [supply EXCEPT ![RL] = @ + amount, ![SC] = @ + amount],
           allowance' \in [Token -> [Users -> [Account -> Nat]]]
    PROVE  LedgerStep
<1> DEFINE b == Credited(balance[RL], holder, amount)
           d == Credited(balance[SC], party, amount)
           r == supply[RL] + amount
           s == supply[SC] + amount
<1>1. /\ party \in Account /\ holder \in Account /\ amount \in Nat
      /\ balance[RL] \in [Account -> Nat] /\ balance[SC] \in [Account -> Nat]
      /\ supply[RL] \in Int /\ supply[SC] \in Int /\ r \in Int /\ s \in Int
  BY Addresses DEF LedgerTypeOK
<1>2. /\ b \in [Account -> Nat]
      /\ \A a \in Account : b[a] = IF a = holder THEN balance[RL][a] + amount ELSE balance[RL][a]
  BY <1>1, CreditedFacts
<1>3. /\ d \in [Account -> Nat]
      /\ \A a \in Account : d[a] = IF a = party THEN balance[SC][a] + amount ELSE balance[SC][a]
  BY <1>1, CreditedFacts
<1>4. /\ balance' = [balance EXCEPT ![RL] = b, ![SC] = d]
      /\ supply' = [supply EXCEPT ![RL] = r, ![SC] = s]
  BY Addresses DEF LedgerTypeOK
<1> HIDE DEF b, d
<1>5. Cleared(RL, b, r) /\ Cleared(SC, d, s)
  BY <1>2, <1>3 DEF Cleared
<1>6. s - supply[SC] <= (b[SC] - balance[RL][SC]) + (b[Store] - balance[RL][Store])
  <2>1. /\ SC \in Account /\ Store \in Account /\ SC # Store
        /\ balance[RL][SC] \in Nat /\ balance[RL][Store] \in Nat
    BY <1>1, Addresses
  <2>2. CASE holder = SC
    BY <1>1, <1>2, <2>1, <2>2, Addresses
  <2>3. CASE holder = Store
    BY <1>1, <1>2, <2>1, <2>3, Addresses
  <2> QED
    BY <2>2, <2>3
<1>7. r <= supply[RL] \/ r <= maxSupply[RL]
  BY <1>1
<1>8. s - supply[SC] <= b[SC] - balance[RL][SC] \/ Uncovered
  <2>1. SC \in Account /\ SC # Store /\ balance[RL][SC] \in Nat
    BY <1>1, Addresses
  <2>2. CASE holder = SC
    BY <1>1, <1>2, <2>1, <2>2, Addresses
  <2> QED
    BY <2>2
<1>9. Balanced(RL, b, r) /\ Balanced(SC, d, s)
  <2>1. TotalOf(b) = TotalOf(balance[RL]) + amount
    BY <1>1, CreditedTotal DEF b
  <2>2. TotalOf(d) = TotalOf(balance[SC]) + amount
    BY <1>1, CreditedTotal DEF d
  <2>3. TotalOf(balance[RL]) \in Int /\ TotalOf(balance[SC]) \in Int
    BY TotalIsInt, Addresses
  <2> QED
    BY <1>1, <2>1, <2>2, <2>3 DEF Balanced
<1> HIDE DEF r, s
<1> QED
  BY <1>1, <1>2, <1>3, <1>4, <1>5, <1>6, <1>7, <1>8, <1>9, BothTokensStep

\* burn through the wrapped or the backed handler.
LEMMA RedeemEffect ==
    ASSUME LedgerTypeOK, NEW holder \in {SC, Store}, holder = Store => Uncovered,
           NEW party \in Users,
           NEW amount \in Amounts,
           ~paused[RL], isAuthorized(transferPolicyId[RL], holder),
           ~paused[SC], isAuthorized(transferPolicyId[SC], party),
           balance[RL][holder] >= amount, balance[SC][party] >= amount,
           balance' = [balance EXCEPT ![RL] = Debited(@, holder, amount),
                                 ![SC] = Debited(@, party, amount)],
           supply' = [supply EXCEPT ![RL] = @ - amount, ![SC] = @ - amount],
           allowance' \in [Token -> [Users -> [Account -> Nat]]]
    PROVE  LedgerStep
<1> DEFINE b == Debited(balance[RL], holder, amount)
           d == Debited(balance[SC], party, amount)
           r == supply[RL] - amount
           s == supply[SC] - amount
<1>1. /\ party \in Account /\ holder \in Account /\ amount \in Nat
      /\ balance[RL] \in [Account -> Nat] /\ balance[SC] \in [Account -> Nat]
      /\ supply[RL] \in Int /\ supply[SC] \in Int /\ r \in Int /\ s \in Int
  BY Addresses DEF LedgerTypeOK
<1>2. /\ b \in [Account -> Nat]
      /\ \A a \in Account : b[a] = IF a = holder THEN balance[RL][a] - amount ELSE balance[RL][a]
  BY <1>1, DebitedFacts
<1>3. /\ d \in [Account -> Nat]
      /\ \A a \in Account : d[a] = IF a = party THEN balance[SC][a] - amount ELSE balance[SC][a]
  BY <1>1, DebitedFacts
<1>4. /\ balance' = [balance EXCEPT ![RL] = b, ![SC] = d]
      /\ supply' = [supply EXCEPT ![RL] = r, ![SC] = s]
  BY Addresses DEF LedgerTypeOK
<1> HIDE DEF b, d
<1>5. Cleared(RL, b, r) /\ Cleared(SC, d, s)
  BY <1>2, <1>3 DEF Cleared
<1>6. s - supply[SC] <= (b[SC] - balance[RL][SC]) + (b[Store] - balance[RL][Store])
  <2>1. /\ SC \in Account /\ Store \in Account /\ SC # Store
        /\ balance[RL][SC] \in Nat /\ balance[RL][Store] \in Nat
    BY <1>1, Addresses
  <2>2. CASE holder = SC
    BY <1>1, <1>2, <2>1, <2>2, Addresses
  <2>3. CASE holder = Store
    BY <1>1, <1>2, <2>1, <2>3, Addresses
  <2> QED
    BY <2>2, <2>3
<1>7. r <= supply[RL] \/ r <= maxSupply[RL]
  BY <1>1
<1>8. s - supply[SC] <= b[SC] - balance[RL][SC] \/ Uncovered
  <2>1. SC \in Account /\ SC # Store /\ balance[RL][SC] \in Nat
    BY <1>1, Addresses
  <2>2. CASE holder = SC
    BY <1>1, <1>2, <2>1, <2>2, Addresses
  <2> QED
    BY <2>2
<1>9. Balanced(RL, b, r) /\ Balanced(SC, d, s)
  <2>1. TotalOf(b) = TotalOf(balance[RL]) - amount
    BY <1>1, DebitedTotal DEF b
  <2>2. TotalOf(d) = TotalOf(balance[SC]) - amount
    BY <1>1, DebitedTotal DEF d
  <2>3. TotalOf(balance[RL]) \in Int /\ TotalOf(balance[SC]) \in Int
    BY TotalIsInt, Addresses
  <2> QED
    BY <1>1, <2>1, <2>2, <2>3 DEF Balanced
<1> HIDE DEF r, s
<1> QED
  BY <1>1, <1>2, <1>3, <1>4, <1>5, <1>6, <1>7, <1>8, <1>9, BothTokensStep

\* wrap, on SC itself or through TokenAuthority: party pays, to receives.
LEMMA WrapEffect ==
    ASSUME LedgerTypeOK, NEW holder \in {SC, Store}, holder = Store => Uncovered,
           NEW party \in Users, NEW to \in Recipients,
           NEW amount \in Amounts,
           ~paused[RL], isAuthorized(transferPolicyId[RL], holder),
           isAuthorized(transferPolicyId[RL], party),
           ~paused[SC], isAuthorized(transferPolicyId[SC], to),
           balance[RL][party] >= amount,
           balance' = [balance EXCEPT ![RL] = Moved(@, party, holder, amount),
                                 ![SC] = Credited(@, to, amount)],
           supply' = [supply EXCEPT ![SC] = @ + amount],
           allowance' \in [Token -> [Users -> [Account -> Nat]]]
    PROVE  LedgerStep
<1> DEFINE b == Moved(balance[RL], party, holder, amount)
           d == Credited(balance[SC], to, amount)
           r == supply[RL]
           s == supply[SC] + amount
<1>1. /\ party \in Account /\ holder \in Account /\ amount \in Nat /\ to \in Account /\ party # holder
      /\ balance[RL] \in [Account -> Nat] /\ balance[SC] \in [Account -> Nat]
      /\ supply[RL] \in Int /\ supply[SC] \in Int /\ r \in Int /\ s \in Int
  BY Addresses DEF LedgerTypeOK
<1>2. /\ b \in [Account -> Nat]
      /\ \A a \in Account : b[a] = IF a = party THEN balance[RL][a] - amount
                                   ELSE IF a = holder THEN balance[RL][a] + amount ELSE balance[RL][a]
  <2>1. /\ b \in [Account -> Nat]
        /\ \A a \in Account : b[a]
             = IF party = holder THEN balance[RL][a]
               ELSE IF a = party THEN balance[RL][a] - amount
               ELSE IF a = holder THEN balance[RL][a] + amount ELSE balance[RL][a]
    <3> DEFINE bal == balance[RL]
    <3>1. bal \in [Account -> Nat] /\ bal[party] >= amount /\ party \in Account /\ holder \in Account /\ amount \in Nat
      BY <1>1
    <3>2. b = Moved(bal, party, holder, amount)
      OBVIOUS
    <3> HIDE DEF b, bal
    <3>3. /\ b \in [Account -> Nat]
          /\ \A a \in Account : b[a]
               = IF party = holder THEN bal[a]
                 ELSE IF a = party THEN bal[a] - amount
                 ELSE IF a = holder THEN bal[a] + amount ELSE bal[a]
      BY ONLY <3>1, <3>2, MovedFacts
    <3> QED
      BY <3>3 DEF bal
  <2> HIDE DEF b
  <2> QED
    BY <1>1, <2>1
<1>3. /\ d \in [Account -> Nat]
      /\ \A a \in Account : d[a] = IF a = to THEN balance[SC][a] + amount ELSE balance[SC][a]
  BY <1>1, CreditedFacts
<1>4. /\ balance' = [balance EXCEPT ![RL] = b, ![SC] = d]
      /\ supply' = [supply EXCEPT ![RL] = r, ![SC] = s]
  BY Addresses DEF LedgerTypeOK
<1> HIDE DEF b, d
<1>5. Cleared(RL, b, r) /\ Cleared(SC, d, s)
  BY <1>2, <1>3 DEF Cleared
<1>6. s - supply[SC] <= (b[SC] - balance[RL][SC]) + (b[Store] - balance[RL][Store])
  <2>1. /\ SC \in Account /\ Store \in Account /\ SC # Store
        /\ balance[RL][SC] \in Nat /\ balance[RL][Store] \in Nat
    BY <1>1, Addresses
  <2>2. CASE holder = SC
    BY <1>1, <1>2, <2>1, <2>2, Addresses
  <2>3. CASE holder = Store
    BY <1>1, <1>2, <2>1, <2>3, Addresses
  <2> QED
    BY <2>2, <2>3
<1>7. r <= supply[RL] \/ r <= maxSupply[RL]
  BY <1>1
<1>8. s - supply[SC] <= b[SC] - balance[RL][SC] \/ Uncovered
  <2>1. SC \in Account /\ SC # Store /\ balance[RL][SC] \in Nat
    BY <1>1, Addresses
  <2>2. CASE holder = SC
    BY <1>1, <1>2, <2>1, <2>2, Addresses
  <2> QED
    BY <2>2
<1>9. Balanced(RL, b, r) /\ Balanced(SC, d, s)
  <2>1. TotalOf(b) = TotalOf(balance[RL])
    BY <1>1, MovedTotal DEF b
  <2>2. TotalOf(d) = TotalOf(balance[SC]) + amount
    BY <1>1, CreditedTotal DEF d
  <2>3. TotalOf(balance[RL]) \in Int /\ TotalOf(balance[SC]) \in Int
    BY TotalIsInt, Addresses
  <2> QED
    BY <1>1, <2>1, <2>2, <2>3 DEF Balanced
<1> HIDE DEF r, s
<1> QED
  BY <1>1, <1>2, <1>3, <1>4, <1>5, <1>6, <1>7, <1>8, <1>9, BothTokensStep

\* unwrap, on SC itself or through TokenAuthority.
LEMMA UnwrapEffect ==
    ASSUME LedgerTypeOK, NEW holder \in {SC, Store}, holder = Store => Uncovered,
           NEW party \in Users,
           NEW amount \in Amounts,
           ~paused[RL], isAuthorized(transferPolicyId[RL], holder),
           isAuthorized(transferPolicyId[RL], party),
           ~paused[SC], isAuthorized(transferPolicyId[SC], party),
           balance[RL][holder] >= amount, balance[SC][party] >= amount,
           balance' = [balance EXCEPT ![RL] = Moved(@, holder, party, amount),
                                 ![SC] = Debited(@, party, amount)],
           supply' = [supply EXCEPT ![SC] = @ - amount],
           allowance' \in [Token -> [Users -> [Account -> Nat]]]
    PROVE  LedgerStep
<1> DEFINE b == Moved(balance[RL], holder, party, amount)
           d == Debited(balance[SC], party, amount)
           r == supply[RL]
           s == supply[SC] - amount
<1>1. /\ party \in Account /\ holder \in Account /\ amount \in Nat /\ holder # party
      /\ balance[RL] \in [Account -> Nat] /\ balance[SC] \in [Account -> Nat]
      /\ supply[RL] \in Int /\ supply[SC] \in Int /\ r \in Int /\ s \in Int
  BY Addresses DEF LedgerTypeOK
<1>2. /\ b \in [Account -> Nat]
      /\ \A a \in Account : b[a] = IF a = holder THEN balance[RL][a] - amount
                                   ELSE IF a = party THEN balance[RL][a] + amount ELSE balance[RL][a]
  BY <1>1, MovedFacts
<1>3. /\ d \in [Account -> Nat]
      /\ \A a \in Account : d[a] = IF a = party THEN balance[SC][a] - amount ELSE balance[SC][a]
  BY <1>1, DebitedFacts
<1>4. /\ balance' = [balance EXCEPT ![RL] = b, ![SC] = d]
      /\ supply' = [supply EXCEPT ![RL] = r, ![SC] = s]
  BY Addresses DEF LedgerTypeOK
<1> HIDE DEF b, d
<1>5. Cleared(RL, b, r) /\ Cleared(SC, d, s)
  BY <1>2, <1>3 DEF Cleared
<1>6. s - supply[SC] <= (b[SC] - balance[RL][SC]) + (b[Store] - balance[RL][Store])
  <2>1. /\ SC \in Account /\ Store \in Account /\ SC # Store
        /\ balance[RL][SC] \in Nat /\ balance[RL][Store] \in Nat
    BY <1>1, Addresses
  <2>2. CASE holder = SC
    BY <1>1, <1>2, <2>1, <2>2, Addresses
  <2>3. CASE holder = Store
    BY <1>1, <1>2, <2>1, <2>3, Addresses
  <2> QED
    BY <2>2, <2>3
<1>7. r <= supply[RL] \/ r <= maxSupply[RL]
  BY <1>1
<1>8. s - supply[SC] <= b[SC] - balance[RL][SC] \/ Uncovered
  <2>1. SC \in Account /\ SC # Store /\ balance[RL][SC] \in Nat
    BY <1>1, Addresses
  <2>2. CASE holder = SC
    BY <1>1, <1>2, <2>1, <2>2, Addresses
  <2> QED
    BY <2>2
<1>9. Balanced(RL, b, r) /\ Balanced(SC, d, s)
  <2>1. TotalOf(b) = TotalOf(balance[RL])
    BY <1>1, MovedTotal DEF b
  <2>2. TotalOf(d) = TotalOf(balance[SC]) - amount
    BY <1>1, DebitedTotal DEF d
  <2>3. TotalOf(balance[RL]) \in Int /\ TotalOf(balance[SC]) \in Int
    BY TotalIsInt, Addresses
  <2> QED
    BY <1>1, <2>1, <2>2, <2>3 DEF Balanced
<1> HIDE DEF r, s
<1> QED
  BY <1>1, <1>2, <1>3, <1>4, <1>5, <1>6, <1>7, <1>8, <1>9, BothTokensStep

\* SC.burnFromBlockedAddress: the reserve of the burned balance goes to the caller.
LEMMA BurnFromBlockedStep ==
    ASSUME LedgerTypeOK, NEW sender \in Users, NEW account \in Account,
           BurnFromBlocked(sender, account)
    PROVE  LedgerStep
<1> DEFINE all == balance[SC][account]
           b == Moved(balance[RL], SC, sender, all)
           d == Debited(balance[SC], account, all)
           s == supply[SC] - all
<1>1. /\ sender \in Account /\ SC \in Account /\ sender # SC /\ sender # Store /\ SC # Store
      /\ balance[RL] \in [Account -> Nat] /\ balance[SC] \in [Account -> Nat]
      /\ all \in Nat /\ balance[SC][account] >= all
      /\ supply[RL] \in Int /\ supply[SC] \in Int /\ s \in Int
  BY Addresses DEF LedgerTypeOK
<1>2. /\ ~paused[SC] /\ ~paused[RL] /\ balance[RL][SC] >= all
      /\ isAuthorized(transferPolicyId[RL], SC) /\ isAuthorized(transferPolicyId[RL], sender)
  BY DEF BurnFromBlocked, SeizurePayable, MayMove
<1>3. /\ b \in [Account -> Nat]
      /\ \A a \in Account : b[a] = IF a = SC THEN balance[RL][a] - all
                                   ELSE IF a = sender THEN balance[RL][a] + all ELSE balance[RL][a]
  BY <1>1, <1>2, MovedFacts
<1>4. /\ d \in [Account -> Nat]
      /\ \A a \in Account : d[a] = IF a = account THEN balance[SC][a] - all ELSE balance[SC][a]
  BY <1>1, DebitedFacts
<1>5. /\ balance' = [balance EXCEPT ![RL] = b, ![SC] = d]
      /\ supply' = [supply EXCEPT ![RL] = supply[RL], ![SC] = s]
      /\ allowance' \in [Token -> [Users -> [Account -> Nat]]]
  BY Addresses DEF LedgerTypeOK, BurnFromBlocked
<1>6. d[account] = 0
  BY <1>1, <1>4
<1> HIDE DEF b, d
<1>7. Cleared(RL, b, supply[RL]) /\ Cleared(SC, d, s)
  BY <1>2, <1>3, <1>4, <1>6 DEF Cleared
<1>8. s - supply[SC] <= (b[SC] - balance[RL][SC]) + (b[Store] - balance[RL][Store])
  BY <1>1, <1>3, Addresses
<1>9. supply[RL] <= supply[RL]
  BY <1>1
<1>10. s - supply[SC] <= b[SC] - balance[RL][SC]
  BY <1>1, <1>3, Addresses
<1>11. Balanced(RL, b, supply[RL]) /\ Balanced(SC, d, s)
  <2>1. TotalOf(b) = TotalOf(balance[RL])
    BY <1>1, <1>2, MovedTotal DEF b
  <2>2. TotalOf(d) = TotalOf(balance[SC]) - all
    BY <1>1, DebitedTotal DEF d
  <2>3. TotalOf(balance[RL]) \in Int /\ TotalOf(balance[SC]) \in Int
    BY TotalIsInt, Addresses
  <2> HIDE DEF all
  <2> QED
    BY <1>1, <2>1, <2>2, <2>3 DEF Balanced
<1> HIDE DEF s
<1> QED
  BY <1>1, <1>2, <1>3, <1>4, <1>5, <1>7, <1>8, <1>9, <1>10, <1>11, BothTokensStep

-----------------------------------------------------------------------------
(* The steps of the specification.                                       *)

\* Calls on the tokens that move tokens.
LEMMA TokenMoves ==
    ASSUME LedgerTypeOK, ConfigTypeOK, NEW sender \in Users,
           HolderStep(sender) \/ IssuerStep(sender), UNCHANGED authorityVars
    PROVE  LedgerStep /\ UNCHANGED <<configVars, registryVars>>
<1>1. ASSUME NEW t \in Token, NEW to \in Recipients, NEW amount \in Amounts,
             Transfer(sender, t, to, amount)
      PROVE  LedgerStep /\ UNCHANGED <<configVars, registryVars>>
  BY <1>1, TransferStep DEF Transfer
<1>2. ASSUME NEW grant \in Approvals, NEW amount \in Amounts \cup {0},
             Approve(sender, grant[1], grant[3], amount)
      PROVE  LedgerStep /\ UNCHANGED <<configVars, registryVars>>
  BY <1>2, ApproveStep DEF Approve
<1>3. ASSUME NEW t \in Token, NEW from \in Users, NEW to \in Recipients,
             NEW amount \in Amounts, TransferFrom(sender, t, from, to, amount)
      PROVE  LedgerStep /\ UNCHANGED <<configVars, registryVars>>
  BY <1>3, TransferFromStep DEF TransferFrom
<1>4. ASSUME NEW to \in Recipients, NEW amount \in Amounts, Wrap(sender, to, amount)
      PROVE  LedgerStep /\ UNCHANGED <<configVars, registryVars>>
  <2>1. allowance' \in [Token -> [Users -> [Account -> Nat]]]
    BY <1>4, SpentFacts, Addresses DEF Wrap
  <2>2. /\ ~paused[RL] /\ isAuthorized(transferPolicyId[RL], SC)
        /\ isAuthorized(transferPolicyId[RL], sender)
        /\ ~paused[SC] /\ isAuthorized(transferPolicyId[SC], to)
    BY <1>4 DEF Wrap, WrapChecks, MayMove
  <2>3. LedgerStep
    BY <1>4, <2>1, <2>2, WrapEffect, Addresses DEF Wrap
  <2> QED
    BY <1>4, <2>3 DEF Wrap
<1>5. ASSUME NEW t \in Token, NEW to \in Recipients, NEW amount \in Amounts,
             Mint(sender, t, to, amount)
      PROVE  LedgerStep /\ UNCHANGED <<configVars, registryVars>>
  <2>1. t = SC => IssuesAlone
    BY <1>5 DEF Mint, MintChecks, IssuesAlone
  <2> QED
    BY <1>5, <2>1, MintEffect DEF Mint
<1>6. ASSUME NEW t \in Token, NEW amount \in Amounts, Burn(sender, t, amount)
      PROVE  LedgerStep /\ UNCHANGED <<configVars, registryVars>>
  <2>1. /\ ~paused[t] /\ isAuthorized(transferPolicyId[t], sender)
        /\ allowance' \in [Token -> [Users -> [Account -> Nat]]]
    BY <1>6 DEF Burn, BurnChecks, MayMove, LedgerTypeOK
  <2> QED
    BY <1>6, <2>1, BurnEffect DEF Burn
<1>7. ASSUME NEW amount \in Amounts, Unwrap(sender, amount)
      PROVE  LedgerStep /\ UNCHANGED <<configVars, registryVars>>
  <2>1. /\ ~paused[RL] /\ isAuthorized(transferPolicyId[RL], SC)
        /\ isAuthorized(transferPolicyId[RL], sender)
        /\ ~paused[SC] /\ isAuthorized(transferPolicyId[SC], sender)
        /\ balance[RL][SC] >= amount
        /\ allowance' \in [Token -> [Users -> [Account -> Nat]]]
    BY <1>7 DEF Unwrap, UnwrapChecks, MayMove, LedgerTypeOK
  <2>2. LedgerStep
    BY <1>7, <2>1, UnwrapEffect, Addresses DEF Unwrap
  <2> QED
    BY <1>7, <2>2 DEF Unwrap
<1>8. ASSUME NEW account \in Account, ReserveBurnFromBlocked(sender, account)
      PROVE  LedgerStep /\ UNCHANGED <<configVars, registryVars>>
  BY <1>8, ReserveBurnFromBlockedStep DEF ReserveBurnFromBlocked
<1>9. ASSUME NEW account \in Account, BurnFromBlocked(sender, account)
      PROVE  LedgerStep /\ UNCHANGED <<configVars, registryVars>>
  BY <1>9, BurnFromBlockedStep DEF BurnFromBlocked
<1> QED
  BY <1>1, <1>2, <1>3, <1>4, <1>5, <1>6, <1>7, <1>8, <1>9 DEF HolderStep, IssuerStep

\* The backed handler puts no reserve into the SC contract.
LEMMA UncoveredByHandler ==
    ASSUME AuthorityTypeOK, NEW c \in Token
    PROVE  tokenHandlers[c] = Backed => c = SC /\ Uncovered
BY Addresses, AuthorityAssumption DEF AuthorityTypeOK, Uncovered, Handler

\* TokenAuthority._mint, whichever handler is registered.
LEMMA HandlerMintMoves ==
    ASSUME LedgerTypeOK, ConfigTypeOK, AuthorityTypeOK, NEW c \in Token, NEW to \in Recipients,
           NEW amount \in Amounts, HandlerMint(c, to, amount)
    PROVE  LedgerStep /\ UNCHANGED <<configVars, registryVars>>
<1>1. allowance' \in [Token -> [Users -> [Account -> Nat]]]
  BY DEF HandlerMint, LedgerTypeOK
<1>2. CASE WrappedMint(c, to, amount)
  <2>1. /\ ~paused[RL] /\ isAuthorized(transferPolicyId[RL], SC)
        /\ ~paused[SC] /\ isAuthorized(transferPolicyId[SC], to)
        /\ supply[RL] + amount <= maxSupply[RL]
    BY <1>2 DEF WrappedMint, WrapChecks, MintChecks, MayMove
  <2> QED
    BY <1>1, <1>2, <2>1, IssueEffect, Addresses DEF WrappedReserve, WrappedMint, HandlerMint
<1>3. CASE BackedMint(c, to, amount)
  <2>1. /\ ~paused[RL] /\ isAuthorized(transferPolicyId[RL], Store)
        /\ ~paused[SC] /\ isAuthorized(transferPolicyId[SC], to)
        /\ supply[RL] + amount <= maxSupply[RL]
    BY <1>3 DEF BackedMint, MintChecks, MayMove
  <2>2. Uncovered
    BY <1>3, UncoveredByHandler DEF BackedMint
  <2> QED
    BY <1>1, <1>3, <2>1, <2>2, IssueEffect DEF BackedMint, BackedReserve, HandlerMint
<1>4. CASE SingleMint(c, to, amount)
  <2>1. c = SC => IssuesAlone
    BY <1>4 DEF SingleMint, MintChecks, IssuesAlone
  <2> QED
    BY <1>4, <2>1, MintEffect DEF SingleMint, HandlerMint
<1> QED
  BY <1>2, <1>3, <1>4 DEF HandlerMint

\* What TokenAuthority's pull of the caller's tokens checks.
LEMMA PullFacts ==
    ASSUME LedgerTypeOK, NEW t \in Token, NEW sender \in Users, NEW via,
           NEW amount \in Amounts, Pulled(t, sender, via, amount)
    PROVE  /\ ~paused[t] /\ isAuthorized(transferPolicyId[t], sender)
           /\ isAuthorized(transferPolicyId[t], via)
           /\ balance[t][sender] >= amount
           /\ allowance' \in [Token -> [Users -> [Account -> Nat]]]
BY SpentFacts, Addresses DEF Pulled, MayMove

\* mint, burn, wrap and unwrap of TokenAuthority, through any handler.
LEMMA AuthorityMoves ==
    ASSUME LedgerTypeOK, ConfigTypeOK, AuthorityTypeOK, NEW sender \in Users, AuthorityStep(sender)
    PROVE  LedgerStep /\ UNCHANGED <<configVars, registryVars>>
<1>1. ASSUME NEW c \in Token, NEW to \in Recipients, NEW amount \in Amounts,
             \/ AuthorityMint(sender, c, to, amount)
             \/ MintBridgeEcosystem(sender, c, to, amount)
      PROVE  LedgerStep /\ UNCHANGED <<configVars, registryVars>>
  BY <1>1, HandlerMintMoves DEF AuthorityMint, MintBridgeEcosystem
<1>2. ASSUME NEW c \in Token, NEW to \in Recipients, NEW amount \in Amounts,
             AuthorityWrap(sender, c, to, amount)
      PROVE  LedgerStep /\ UNCHANGED <<configVars, registryVars>>
  <2>1. CASE WrappedWrap(c, sender, to, amount)
    <3>1. /\ balance[RL][sender] >= amount
          /\ isAuthorized(transferPolicyId[RL], sender)
          /\ allowance' \in [Token -> [Users -> [Account -> Nat]]]
      BY <2>1, PullFacts, Addresses DEF WrappedWrap
    <3>2. /\ ~paused[RL] /\ isAuthorized(transferPolicyId[RL], SC)
          /\ ~paused[SC] /\ isAuthorized(transferPolicyId[SC], to)
      BY <2>1 DEF WrappedWrap, WrapChecks, MayMove
    <3> QED
      BY <1>2, <2>1, <3>1, <3>2, WrapEffect, Addresses DEF WrappedWrap, AuthorityWrap
  <2>2. CASE BackedWrap(c, sender, to, amount)
    <3>1. /\ balance[RL][sender] >= amount
          /\ ~paused[RL] /\ isAuthorized(transferPolicyId[RL], sender)
          /\ isAuthorized(transferPolicyId[RL], Store)
          /\ allowance' \in [Token -> [Users -> [Account -> Nat]]]
      BY <2>2, PullFacts, Addresses DEF BackedWrap
    <3>2. ~paused[SC] /\ isAuthorized(transferPolicyId[SC], to)
      BY <2>2 DEF BackedWrap, MintChecks, MayMove
    <3>3. Uncovered
      BY <2>2, UncoveredByHandler DEF BackedWrap
    <3> QED
      BY <1>2, <2>2, <3>1, <3>2, <3>3, WrapEffect DEF BackedWrap, AuthorityWrap
  <2> QED
    BY <1>2, <2>1, <2>2 DEF AuthorityWrap
<1>3. ASSUME NEW c \in Token, NEW amount \in Amounts, AuthorityBurn(sender, c, amount)
      PROVE  LedgerStep /\ UNCHANGED <<configVars, registryVars>>
  <2>1. CASE WrappedBurn(c, sender, amount)
    <3>1. /\ balance[SC][sender] >= amount
          /\ ~paused[SC] /\ isAuthorized(transferPolicyId[SC], sender)
          /\ allowance' \in [Token -> [Users -> [Account -> Nat]]]
      BY <2>1, PullFacts, Addresses DEF WrappedBurn
    <3>2. /\ ~paused[RL] /\ isAuthorized(transferPolicyId[RL], SC)
          /\ balance[RL][SC] >= amount
      BY <2>1 DEF WrappedBurn, UnwrapChecks, MayMove
    <3> QED
      BY <1>3, <2>1, <3>1, <3>2, RedeemEffect, Addresses DEF WrappedBurn, AuthorityBurn
  <2>2. CASE BackedBurn(c, sender, amount)
    <3>1. /\ balance[SC][sender] >= amount
          /\ ~paused[SC] /\ isAuthorized(transferPolicyId[SC], sender)
          /\ allowance' \in [Token -> [Users -> [Account -> Nat]]]
      BY <2>2, PullFacts, Addresses DEF BackedBurn
    <3>2. /\ ~paused[RL] /\ isAuthorized(transferPolicyId[RL], Store)
          /\ balance[RL][Store] >= amount
      BY <2>2 DEF BackedBurn, MayMove
    <3>3. Uncovered
      BY <2>2, UncoveredByHandler DEF BackedBurn
    <3> QED
      BY <1>3, <2>2, <3>1, <3>2, <3>3, RedeemEffect DEF BackedBurn, AuthorityBurn
  <2>3. CASE SingleBurn(c, sender, amount)
    <3>1. /\ balance[c][sender] >= amount
          /\ ~paused[c] /\ isAuthorized(transferPolicyId[c], sender)
          /\ allowance' \in [Token -> [Users -> [Account -> Nat]]]
      BY <2>3, PullFacts DEF SingleBurn
    <3> QED
      BY <1>3, <2>3, <3>1, BurnEffect DEF SingleBurn, AuthorityBurn
  <2> QED
    BY <1>3, <2>1, <2>2, <2>3 DEF AuthorityBurn
<1>4. ASSUME NEW c \in Token, NEW amount \in Amounts, AuthorityUnwrap(sender, c, amount)
      PROVE  LedgerStep /\ UNCHANGED <<configVars, registryVars>>
  <2>1. CASE WrappedUnwrap(c, sender, amount)
    <3>1. /\ balance[SC][sender] >= amount
          /\ ~paused[SC] /\ isAuthorized(transferPolicyId[SC], sender)
          /\ allowance' \in [Token -> [Users -> [Account -> Nat]]]
      BY <2>1, PullFacts, Addresses DEF WrappedUnwrap
    <3>2. /\ ~paused[RL] /\ isAuthorized(transferPolicyId[RL], SC)
          /\ isAuthorized(transferPolicyId[RL], sender)
          /\ balance[RL][SC] >= amount
      BY <2>1 DEF WrappedUnwrap, UnwrapChecks, MayMove
    <3> QED
      BY <1>4, <2>1, <3>1, <3>2, UnwrapEffect, Addresses DEF WrappedUnwrap, AuthorityUnwrap
  <2>2. CASE BackedUnwrap(c, sender, amount)
    <3>1. /\ balance[SC][sender] >= amount
          /\ ~paused[SC] /\ isAuthorized(transferPolicyId[SC], sender)
          /\ allowance' \in [Token -> [Users -> [Account -> Nat]]]
      BY <2>2, PullFacts, Addresses DEF BackedUnwrap
    <3>2. /\ ~paused[RL] /\ isAuthorized(transferPolicyId[RL], Store)
          /\ isAuthorized(transferPolicyId[RL], sender)
          /\ balance[RL][Store] >= amount
      BY <2>2 DEF BackedUnwrap, MayMove
    <3>3. Uncovered
      BY <2>2, UncoveredByHandler DEF BackedUnwrap
    <3> QED
      BY <1>4, <2>2, <3>1, <3>2, <3>3, UnwrapEffect DEF BackedUnwrap, AuthorityUnwrap
  <2> QED
    BY <1>4, <2>1, <2>2 DEF AuthorityUnwrap
<1> QED
  BY <1>1, <1>2, <1>3, <1>4 DEF AuthorityStep

\* The limits, registrations and the store after a call that moves tokens.
LEMMA AuthorityStepKeepsType ==
    ASSUME AuthorityTypeOK, NEW sender \in Users, AuthorityStep(sender)
    PROVE  AuthorityTypeOK'
<1>1. ASSUME NEW c \in Token, NEW to \in Recipients, NEW amount \in Amounts,
             HandlerMint(c, to, amount)
      PROVE  storeDeployed' \in BOOLEAN /\ UNCHANGED <<mintTxnLimits, tokenHandlers>>
  BY <1>1 DEF HandlerMint, WrappedMint, BackedMint, SingleMint, AuthorityTypeOK
<1>2. ASSUME NEW c \in Token, NEW to \in Recipients, NEW amount \in Amounts,
             AuthorityMint(sender, c, to, amount)
      PROVE  AuthorityTypeOK'
  <2>1. amount \in Nat /\ minterAllowances[c][sender] - amount \in Nat
    BY <1>2, Addresses DEF AuthorityMint, AuthorityTypeOK
  <2>2. minterAllowances' \in [Token -> [Users -> Nat]]
    BY <1>2, <2>1 DEF AuthorityMint, AllowanceSpent, AuthorityTypeOK
  <2> QED
    BY <1>1, <1>2, <2>2 DEF AuthorityMint, AuthorityTypeOK
<1>3. ASSUME NEW c \in Token, NEW to \in Recipients, NEW amount \in Amounts,
             MintBridgeEcosystem(sender, c, to, amount)
      PROVE  AuthorityTypeOK'
  BY <1>1, <1>3 DEF MintBridgeEcosystem, AuthorityTypeOK
<1>4. ASSUME NEW c \in Token, NEW to \in Recipients, NEW amount \in Amounts,
             AuthorityWrap(sender, c, to, amount)
      PROVE  AuthorityTypeOK'
  BY <1>4 DEF AuthorityWrap, WrappedWrap, BackedWrap, AuthorityTypeOK
<1>5. ASSUME NEW c \in Token, NEW amount \in Amounts,
             AuthorityBurn(sender, c, amount) \/ AuthorityUnwrap(sender, c, amount)
      PROVE  AuthorityTypeOK'
  BY <1>5 DEF AuthorityBurn, AuthorityUnwrap, authorityVars, AuthorityTypeOK
<1> QED
  BY <1>2, <1>3, <1>4, <1>5 DEF AuthorityStep

\* The setters and the registration of stablecoins.
LEMMA SetterStepKeepsType ==
    ASSUME AuthorityTypeOK, NEW sender \in Users, SetterStep(sender)
    PROVE  AuthorityTypeOK' /\ UNCHANGED tokenVars
<1>1. ASSUME NEW c \in Registered, NEW limit \in Limits, SetTxnMintLimit(sender, c, limit)
      PROVE  AuthorityTypeOK' /\ UNCHANGED tokenVars
  BY <1>1, AuthorityAssumption DEF SetTxnMintLimit, AuthorityTypeOK
<1>2. ASSUME NEW c \in Registered, NEW minter \in Minters, NEW limit \in Limits,
             SetMinterAllowance(sender, c, minter, limit)
      PROVE  AuthorityTypeOK' /\ UNCHANGED tokenVars
  BY <1>2, AuthorityAssumption DEF SetMinterAllowance, AuthorityTypeOK
<1>3. ASSUME NEW pair \in Registrations
      PROVE  /\ pair[1] \in Token /\ pair[2] \in Handler
             /\ pair[1] = RL => pair[2] = Single
  BY <1>3, AuthorityAssumption, TokenAssumption DEF Token, Handler
<1>4. ASSUME NEW pair \in Registrations, SetTokenHandler(sender, pair[1], pair[2])
      PROVE  AuthorityTypeOK' /\ UNCHANGED tokenVars
  BY <1>3, <1>4, Addresses DEF SetTokenHandler, AuthorityTypeOK
<1>5. ASSUME NEW pair \in Registrations, NEW limit \in Limits,
             RegisterStablecoin(sender, pair[1], pair[2], limit)
      PROVE  AuthorityTypeOK' /\ UNCHANGED tokenVars
  BY <1>3, <1>5, Addresses, AuthorityAssumption DEF RegisterStablecoin, AuthorityTypeOK
<1>6. ASSUME NEW c \in Token, UnregisterStablecoin(sender, c)
      PROVE  AuthorityTypeOK' /\ UNCHANGED tokenVars
  BY <1>6, Addresses DEF UnregisterStablecoin, AuthorityTypeOK
<1> QED
  BY <1>1, <1>2, <1>4, <1>5, <1>6 DEF SetterStep

\* The inductive companion of AlwaysAnAdmin: counting the admins, as _revokeRole
\* does, tells something only of a finite set.
AdminsFinite == \A t \in Token : IsFiniteSet(role[t]["ADMIN"])

\* Administration of the tokens moves nothing, and sets no cap below the supply.
LEMMA AdminStepKeeps ==
    ASSUME RegistryTypeOK, ConfigTypeOK, LedgerTypeOK, ReserveSupplyCapped,
           NEW sender \in Users, AdminStep(sender)
    PROVE  /\ RegistryTypeOK' /\ ConfigTypeOK'
           /\ UNCHANGED ledgerVars
           /\ ReserveSupplyCapped'
<1> DEFINE Kept == /\ RegistryTypeOK' /\ ConfigTypeOK'
                   /\ UNCHANGED ledgerVars
                   /\ ReserveSupplyCapped'
<1>1. CASE CompleteMigrationToWrapped(sender)
  BY <1>1 DEF CompleteMigrationToWrapped, ConfigTypeOK, RegistryTypeOK, registryVars,
              ledgerVars, ReserveSupplyCapped
<1>2. ASSUME NEW t \in Token, Pause(sender, t) \/ Unpause(sender, t)
      PROVE  Kept
  BY <1>2 DEF Pause, Unpause, ConfigTypeOK, RegistryTypeOK, registryVars,
              ledgerVars, ReserveSupplyCapped
<1>3. ASSUME NEW t \in Token, NEW id \in PolicyChoices,
             SetTransferPolicyId(sender, t, id) \/ SetMintRecipientPolicyId(sender, t, id)
      PROVE  Kept
  BY <1>3, TokenAssumption
     DEF SetTransferPolicyId, SetMintRecipientPolicyId, ConfigTypeOK, RegistryTypeOK,
         registryVars, ledgerVars, ReserveSupplyCapped
<1>4. ASSUME NEW t \in Token, NEW amount \in Supplies, SetMaxSupply(sender, t, amount)
      PROVE  Kept
  <2>1. /\ RegistryTypeOK' /\ ConfigTypeOK' /\ UNCHANGED ledgerVars
        /\ maxSupply' = [maxSupply EXCEPT ![t] = amount] /\ amount >= supply[t]
    BY <1>4, TokenAssumption DEF SetMaxSupply, CapAboveSupply, ConfigTypeOK, RegistryTypeOK,
                                 registryVars
  <2>2. ReserveSupplyCapped'
    BY <2>1, Addresses, TokenAssumption DEF ReserveSupplyCapped, ConfigTypeOK, LedgerTypeOK, ledgerVars
  <2> QED
    BY <2>1, <2>2
<1>5. ASSUME NEW change \in RoleChanges,
             \/ GrantRole(sender, change[1], change[2], change[3])
             \/ RevokeRole(sender, change[1], change[2], change[3])
      PROVE  Kept
  <2>1. change[1] \in Contract /\ change[2] \in Role /\ change[3] \in Account
    BY TokenAssumption
  <2>2. ASSUME NEW c \in Contract, NEW r \in Role, NEW members \in SUBSET Account,
               role' = [role EXCEPT ![c][r] = members]
        PROVE  role' \in [Contract -> [Role -> SUBSET Account]]
    BY <2>2 DEF ConfigTypeOK
  <2>3. ASSUME NEW c \in Contract, NEW r \in Role, NEW account \in Account
        PROVE  /\ role[c][r] \cup {account} \in SUBSET Account
               /\ role[c][r] \ {account} \in SUBSET Account
    BY DEF ConfigTypeOK
  <2>4. ASSUME NEW c \in Contract, NEW r \in Role, NEW account \in Account,
               GrantRole(sender, c, r, account) \/ RevokeRole(sender, c, r, account)
        PROVE  role' \in [Contract -> [Role -> SUBSET Account]]
    <3>1. CASE role' = [role EXCEPT ![c][r] = role[c][r] \cup {account}]
      BY <2>2, <2>3, <3>1
    <3>2. CASE role' = [role EXCEPT ![c][r] = role[c][r] \ {account}]
      BY <2>2, <2>3, <3>2
    <3> QED
      BY <2>4, <3>1, <3>2 DEF GrantRole, RevokeRole, ConfigTypeOK
  <2>5. role' \in [Contract -> [Role -> SUBSET Account]]
    BY <1>5, <2>1, <2>4
  <2> QED
    BY <1>5, <2>5 DEF GrantRole, RevokeRole, ConfigTypeOK, RegistryTypeOK, registryVars,
                      ledgerVars, ReserveSupplyCapped
<1>6. ASSUME NEW change \in MemberChanges, NEW value \in BOOLEAN,
             SetMember(sender, change[1], change[2], value)
      PROVE  Kept
  <2>1. change[1] \in PolicyIds /\ change[2] \in Account
    BY TokenAssumption
  <2>2. RegistryTypeOK'
    BY <1>6, <2>1, SetMemberKeepsType DEF SetMember
  <2> QED
    BY <1>6, <2>2 DEF SetMember, ConfigTypeOK, configVars, ledgerVars, ReserveSupplyCapped
<1> QED
  BY <1>1, <1>2, <1>3, <1>4, <1>5, <1>6 DEF AdminStep

\* grantRole, revokeRole and renounceRole leave each token an admin.
LEMMA AdminStepKeepsAdmins ==
    ASSUME ConfigTypeOK, AdminsFinite, AlwaysAnAdmin, NEW sender \in Users, AdminStep(sender)
    PROVE  AdminsFinite' /\ AlwaysAnAdmin'
<1>1. CASE UNCHANGED role
  BY <1>1 DEF AdminsFinite, AlwaysAnAdmin
<1>2. ASSUME NEW change \in RoleChanges
      PROVE  change[1] \in Contract /\ change[2] \in Role
  BY TokenAssumption
<1>3. ASSUME NEW c \in Contract, NEW r \in Role, NEW account, GrantRole(sender, c, r, account)
      PROVE  AdminsFinite' /\ AlwaysAnAdmin'
  <2>1. \A t \in Token : role'[t]["ADMIN"] \in {role[t]["ADMIN"], role[t]["ADMIN"] \cup {account}}
    BY <1>3 DEF GrantRole, ConfigTypeOK, Token, Contract, Role
  <2>2. \A t \in Token : IsFiniteSet(role[t]["ADMIN"] \cup {account})
    BY FS_AddElement DEF AdminsFinite
  <2> QED
    BY <2>1, <2>2 DEF AdminsFinite, AlwaysAnAdmin
<1>4. ASSUME NEW c \in Contract, NEW r \in Role, NEW account, RevokeRole(sender, c, r, account)
      PROVE  AdminsFinite' /\ AlwaysAnAdmin'
  <2>1. ASSUME NEW t \in Token
        PROVE  /\ IsFiniteSet(role'[t]["ADMIN"]) /\ role'[t]["ADMIN"] # {}
    <3> DEFINE admins == role[t]["ADMIN"]
    <3>1. IsFiniteSet(admins) /\ admins # {}
      BY DEF AdminsFinite, AlwaysAnAdmin
    <3>2. CASE t = c /\ r = "ADMIN"
      <4>1. role'[t]["ADMIN"] = admins \ {account} /\ Cardinality(admins) > 1
        BY <1>4, <3>2 DEF RevokeRole, LastAdminStays, ConfigTypeOK
      <4>2. IsFiniteSet(admins \ {account})
        BY <3>1, FS_RemoveElement
      <4>3. ASSUME admins \ {account} = {} PROVE FALSE
        <5>1. admins = {account}
          BY <3>1, <4>3
        <5>2. Cardinality({account}) = 1
          BY FS_Singleton
        <5> HIDE DEF admins
        <5> QED
          BY <4>1, <5>1, <5>2
      <4> QED
        BY <4>1, <4>2, <4>3
    <3>3. CASE ~(t = c /\ r = "ADMIN")
      <4>1. role'[t]["ADMIN"] = admins
        BY <1>4, <3>3 DEF RevokeRole, ConfigTypeOK, Token, Contract, Role
      <4> QED
        BY <3>1, <4>1
    <3> QED
      BY <3>2, <3>3
  <2> QED
    BY <2>1 DEF AdminsFinite, AlwaysAnAdmin
<1> QED
  BY <1>1, <1>2, <1>3, <1>4 DEF AdminStep, CompleteMigrationToWrapped, Pause, Unpause,
     SetTransferPolicyId, SetMintRecipientPolicyId, SetMaxSupply, SetMember, configVars

-----------------------------------------------------------------------------
(* The specification.                                                       *)

\* The inductive invariant. TypeOK and AlwaysAnAdmin are not inductive alone:
\* the one needs the parts of the other, and counting admins needs finiteness.
IInv ==
    /\ TypeOK
    /\ SupplyIsSumOfBalances
    /\ ReserveSupplyCapped
    /\ AdminsFinite
    /\ AlwaysAnAdmin

\* A deployment establishes the invariant.
LEMMA InitHolds ==
    Init => IInv
<1> SUFFICES ASSUME Init PROVE IInv
  OBVIOUS
<1> USE DEF Init, InitTokens
<1>1. LedgerTypeOK
  BY DEF LedgerTypeOK
<1>2. ConfigTypeOK
  BY DeploymentAssumption DEF ConfigTypeOK
<1>3. RegistryTypeOK
  <2>1. nextPolicyId \in FirstPolicyId .. (MaxPolicyId + 1)
    BY RegistryAssumption DEF FirstPolicyId
  <2>2. nextPolicyId - 1 = MaxPolicyId
    BY RegistryAssumption
  <2>3. policies \in [FirstPolicyId .. MaxPolicyId -> Policy]
    BY DeploymentAssumption DEF PolicyIds
  <2> HIDE DEF Init, InitTokens
  <2> QED
    BY <2>1, <2>2, <2>3, Zenon DEF RegistryTypeOK
<1>4. AuthorityTypeOK
  BY RegistrationAssumption DEF AuthorityTypeOK
<1>5. ReserveSupplyCapped
  BY DeploymentAssumption, Addresses DEF ReserveSupplyCapped
<1>6. AdminsFinite /\ AlwaysAnAdmin
  BY DeploymentAssumption DEF AdminsFinite, AlwaysAnAdmin
<1>7. SupplyIsSumOfBalances
  <2> SUFFICES ASSUME NEW t \in Token PROVE supply[t] = TotalOf(balance[t])
    BY DEF SupplyIsSumOfBalances
  <2>1. supply[t] = 0 /\ balance[t] = [a \in Account |-> 0]
    OBVIOUS
  <2> HIDE DEF Init, InitTokens
  <2> QED
    BY <2>1, TotalOfNothing
<1> QED
  BY <1>1, <1>2, <1>3, <1>4, <1>5, <1>6, <1>7 DEF IInv, TypeOK

\* A step that leaves every balance and supply alone.
LEMMA NothingMoves ==
    ASSUME UNCHANGED ledgerVars, LedgerTypeOK
    PROVE  ShortfallStep /\ FrozenStep /\ PauseStep /\ GapStep
<1>1. /\ Shortfall' = Shortfall /\ Shortfall \in Int
      /\ balance' = balance /\ supply' = supply
  BY Addresses DEF Shortfall, Reserve, ledgerVars, LedgerTypeOK
<1>2. ShortfallStep
  BY <1>1 DEF ShortfallStep
<1>3. FrozenStep /\ PauseStep
  BY <1>1 DEF FrozenStep, PauseStep
<1>4. GapStep
  BY <1>1, Entries, Addresses DEF GapStep, Gap
<1> QED
  BY <1>2, <1>3, <1>4

\* A step that leaves the configuration alone and obeys the cap keeps what the
\* configuration and the supply of RL say together.
LEMMA MovesKeep ==
    ASSUME IInv, LedgerStep, UNCHANGED <<configVars, registryVars>>, AuthorityTypeOK'
    PROVE  IInv'
<1>1. /\ LedgerTypeOK' /\ maxSupply' = maxSupply /\ role' = role
      /\ RegistryTypeOK' /\ ConfigTypeOK'
  BY DEF IInv, TypeOK, LedgerStep, configVars, registryVars, ConfigTypeOK, RegistryTypeOK
<1>2. ReserveSupplyCapped'
  BY <1>1, Addresses DEF IInv, TypeOK, LedgerStep, ReserveSupplyCapped, LedgerTypeOK, ConfigTypeOK
<1>3. AdminsFinite' /\ AlwaysAnAdmin'
  BY <1>1 DEF IInv, AdminsFinite, AlwaysAnAdmin
<1>4. SupplyIsSumOfBalances'
  <2> SUFFICES ASSUME NEW t \in Token PROVE supply'[t] = TotalOf(balance'[t])
    BY DEF SupplyIsSumOfBalances
  <2>1. TotalOf(balance'[t]) - TotalOf(balance[t]) = supply'[t] - supply[t]
    BY DEF LedgerStep, Balanced
  <2>2. supply[t] = TotalOf(balance[t])
    BY DEF IInv, SupplyIsSumOfBalances
  <2>3. balance'[t] \in [Account -> Int] /\ supply[t] \in Int /\ supply'[t] \in Int
    BY <1>1 DEF IInv, TypeOK, LedgerTypeOK
  <2>4. TotalOf(balance'[t]) \in Int
    BY <2>3, TotalTyped
  <2> QED
    BY <2>1, <2>2, <2>3, <2>4
<1> QED
  BY <1>1, <1>2, <1>3, <1>4 DEF IInv, TypeOK

\* Every transaction keeps the invariant and obeys the three action properties.
LEMMA NextKeeps ==
    ASSUME IInv, [Next]_vars
    PROVE  IInv' /\ ShortfallStep /\ FrozenStep /\ PauseStep /\ GapStep
<1> DEFINE Good == IInv' /\ ShortfallStep /\ FrozenStep /\ PauseStep /\ GapStep
<1>1. /\ RegistryTypeOK /\ LedgerTypeOK /\ ConfigTypeOK /\ AuthorityTypeOK
      /\ ReserveSupplyCapped /\ AdminsFinite /\ AlwaysAnAdmin /\ SupplyIsSumOfBalances
  BY DEF IInv, TypeOK
<1>2. ASSUME NEW sender \in Users, HolderStep(sender) \/ IssuerStep(sender),
             UNCHANGED authorityVars
      PROVE  Good
  <2>1. LedgerStep /\ UNCHANGED <<configVars, registryVars>>
    BY <1>1, <1>2, TokenMoves
  <2>2. AuthorityTypeOK'
    BY <1>1, <1>2 DEF AuthorityTypeOK, authorityVars
  <2>3. IInv'
    BY <2>1, <2>2, MovesKeep
  <2> QED
    BY <2>1, <2>3 DEF LedgerStep
<1>3. ASSUME NEW sender \in Users, AdminStep(sender), UNCHANGED authorityVars
      PROVE  Good
  <2>1. /\ RegistryTypeOK' /\ ConfigTypeOK' /\ UNCHANGED ledgerVars /\ ReserveSupplyCapped'
    BY <1>1, <1>3, AdminStepKeeps
  <2>2. AdminsFinite' /\ AlwaysAnAdmin'
    BY <1>1, <1>3, AdminStepKeepsAdmins
  <2>3. LedgerTypeOK' /\ AuthorityTypeOK'
    BY <1>1, <1>3, <2>1 DEF LedgerTypeOK, ledgerVars, AuthorityTypeOK, authorityVars
  <2>4. ShortfallStep /\ FrozenStep /\ PauseStep /\ GapStep
    BY <1>1, <2>1, NothingMoves
  <2>5. SupplyIsSumOfBalances'
    BY <1>1, <2>1 DEF SupplyIsSumOfBalances, ledgerVars
  <2> QED
    BY <2>1, <2>2, <2>3, <2>4, <2>5 DEF IInv, TypeOK
<1>4. ASSUME NEW sender \in Users, AuthorityStep(sender)
      PROVE  Good
  <2>1. LedgerStep /\ UNCHANGED <<configVars, registryVars>>
    BY <1>1, <1>4, AuthorityMoves
  <2>2. AuthorityTypeOK'
    BY <1>1, <1>4, AuthorityStepKeepsType
  <2>3. IInv'
    BY <2>1, <2>2, MovesKeep
  <2> QED
    BY <2>1, <2>3 DEF LedgerStep
<1>5. ASSUME UNCHANGED tokenVars, AuthorityTypeOK'
      PROVE  Good
  <2>1. UNCHANGED <<ledgerVars, configVars, registryVars>>
    BY <1>5 DEF tokenVars
  <2>2. TypeOK'
    BY <1>1, <1>5, <2>1 DEF TypeOK, ledgerVars, configVars, registryVars, LedgerTypeOK,
                            ConfigTypeOK, RegistryTypeOK
  <2>3. ReserveSupplyCapped' /\ AdminsFinite' /\ AlwaysAnAdmin'
    BY <1>1, <2>1 DEF ledgerVars, configVars, ReserveSupplyCapped, AdminsFinite, AlwaysAnAdmin
  <2>4. ShortfallStep /\ FrozenStep /\ PauseStep /\ GapStep
    BY <1>1, <2>1, NothingMoves
  <2>5. SupplyIsSumOfBalances'
    BY <1>1, <2>1 DEF SupplyIsSumOfBalances, ledgerVars
  <2> QED
    BY <2>2, <2>3, <2>4, <2>5 DEF IInv
<1>6. ASSUME NEW sender \in Users, SetterStep(sender)
      PROVE  Good
  BY <1>1, <1>5, <1>6, SetterStepKeepsType
<1>7. CASE UNCHANGED vars
  <2>1. UNCHANGED tokenVars /\ AuthorityTypeOK'
    BY <1>1, <1>7 DEF vars, authorityVars, AuthorityTypeOK
  <2> QED
    BY <1>5, <2>1
<1> QED
  BY <1>2, <1>3, <1>4, <1>6, <1>7 DEF Next, TokenStep

\* The invariant holds throughout.
LEMMA Inductive ==
    Spec => []IInv
<1>1. IInv /\ [Next]_vars => IInv'
  BY NextKeeps
<1> QED
  BY InitHolds, <1>1, PTL DEF Spec

\* Every reachable state is well formed: in particular no balance and no
\* allowance, of a holder or of a minter, is ever driven below zero.
THEOREM TypeCorrect ==
    Spec => []TypeOK
<1>1. IInv => TypeOK
  BY DEF IInv
<1> QED
  BY <1>1, Inductive, PTL

\* The ReserveLedger's supply never exceeds its maxSupply, under any use of mint,
\* of the handlers and of setMaxSupply.
THEOREM ReserveCapped ==
    Spec => []ReserveSupplyCapped
<1>1. IInv => ReserveSupplyCapped
  BY DEF IInv
<1> QED
  BY <1>1, Inductive, PTL

\* No order of grants, revocations and renunciations leaves a token without admin.
THEOREM AdminStays ==
    Spec => []AlwaysAnAdmin
<1>1. IInv => AlwaysAnAdmin
  BY DEF IInv
<1> QED
  BY <1>1, Inductive, PTL

\* The backing of the deposit token is made worse by a mint of SC before the
\* migration, direct or through SingleTokenHandler, or by a seizure on RL of the
\* reserve itself, and by nothing else.
THEOREM ShortfallTheorem ==
    Spec => ShortfallOnlyByUnbackedMintOrSeizure
<1>1. IInv /\ [Next]_vars => [ShortfallStep]_vars
  BY NextKeeps
<1> QED
  BY <1>1, Inductive, PTL DEF Spec, ShortfallOnlyByUnbackedMintOrSeizure

\* Neither a paused token nor a blocked account's balance moves, burning it whole
\* on purpose excepted.
THEOREM FrozenTheorem ==
    Spec => FrozenUnlessBurnedWhole
<1>1. IInv /\ [Next]_vars => [FrozenStep]_vars
  BY NextKeeps
<1> QED
  BY <1>1, Inductive, PTL DEF Spec, FrozenUnlessBurnedWhole

\* While RL is paused the circulation of a migrated deposit token stands still.
THEOREM PauseTheorem ==
    Spec => ReservePauseFreezesCirculation
<1>1. IInv /\ [Next]_vars => [PauseStep]_vars
  BY NextKeeps
<1> QED
  BY <1>1, Inductive, PTL DEF Spec, ReservePauseFreezesCirculation

\* The balances of a token add up to its supply, whatever is minted, burned, moved,
\* wrapped, unwrapped or seized: hence no supply is ever negative either.
THEOREM SupplyIsTotal ==
    Spec => []SupplyIsSumOfBalances
<1>1. IInv => SupplyIsSumOfBalances
  BY DEF IInv
<1> QED
  BY <1>1, Inductive, PTL
-----------------------------------------------------------------------------
(* What a deployment that is never given a role or a handler keeps lacking. *)

\* An admin changes only the role entries it is given to change.
LEMMA AdminChangesRoles ==
    ASSUME ConfigTypeOK, NEW sender \in Users, AdminStep(sender),
           NEW c \in Contract, NEW r \in Role, NEW u \in Users,
           <<c, r, u>> \notin RoleChanges, u \notin role[c][r]
    PROVE  u \notin role'[c][r]
<1>1. ASSUME NEW change \in RoleChanges,
             \/ GrantRole(sender, change[1], change[2], change[3])
             \/ RevokeRole(sender, change[1], change[2], change[3])
      PROVE  u \notin role'[c][r]
  <2>1. PICK d \in Contract, q \in Role, a \in Account : change = <<d, q, a>>
    BY TokenAssumption
  <2>2. <<d, q, a>> # <<c, r, u>>
    BY <2>1
  <2>3. \/ role' = [role EXCEPT ![d][q] = role[d][q] \cup {a}]
        \/ role' = [role EXCEPT ![d][q] = role[d][q] \ {a}]
    BY <1>1, <2>1 DEF GrantRole, RevokeRole, ConfigTypeOK
  <2>4. CASE d # c \/ q # r
    BY <2>3, <2>4 DEF ConfigTypeOK
  <2>5. CASE d = c /\ q = r
    <3>1. a # u
      BY <2>2, <2>5
    <3>2. role'[c][r] \in {role[c][r] \cup {a}, role[c][r] \ {a}}
      BY <2>3, <2>5 DEF ConfigTypeOK
    <3> QED
      BY <3>1, <3>2
  <2> QED
    BY <2>4, <2>5
<1>2. CASE UNCHANGED role
  BY <1>2
<1>3. \/ UNCHANGED role
      \/ \E change \in RoleChanges :
            \/ GrantRole(sender, change[1], change[2], change[3])
            \/ RevokeRole(sender, change[1], change[2], change[3])
  BY DEF AdminStep, CompleteMigrationToWrapped, Pause, Unpause, SetTransferPolicyId,
         SetMintRecipientPolicyId, SetMaxSupply, SetMember, configVars
<1> QED
  BY <1>1, <1>2, <1>3

\* A role no user holds and none is granted stays without users.
LEMMA NobodyStays ==
    ASSUME IInv, [Next]_vars, NEW c \in Contract, NEW r \in Role, NobodyGets(c, r),
           \A u \in Users : u \notin role[c][r]
    PROVE  \A u \in Users : u \notin role'[c][r]
<1>1. LedgerTypeOK /\ ConfigTypeOK /\ AuthorityTypeOK
  BY DEF IInv, TypeOK
<1>2. ASSUME NEW sender \in Users, AdminStep(sender)
      PROVE  \A u \in Users : u \notin role'[c][r]
  BY <1>1, <1>2, AdminChangesRoles DEF NobodyGets
<1>3. ASSUME NEW sender \in Users, HolderStep(sender) \/ IssuerStep(sender),
             UNCHANGED authorityVars
      PROVE  UNCHANGED role
  BY <1>1, <1>3, TokenMoves DEF configVars
<1>4. ASSUME NEW sender \in Users, AuthorityStep(sender)
      PROVE  UNCHANGED role
  BY <1>1, <1>4, AuthorityMoves DEF configVars
<1>5. ASSUME NEW sender \in Users, SetterStep(sender)
      PROVE  UNCHANGED role
  BY <1>1, <1>5, SetterStepKeepsType DEF tokenVars, configVars
<1>6. CASE UNCHANGED vars
  BY <1>6 DEF vars, tokenVars, configVars
<1> QED
  BY <1>2, <1>3, <1>4, <1>5, <1>6 DEF Next, TokenStep

\* A token's handler changes to one it is registered with, or to none.
LEMMA HandlersByRegistration ==
    ASSUME IInv, [Next]_vars, NEW t \in Token
    PROVE  \/ tokenHandlers'[t] \in {tokenHandlers[t], Unset}
           \/ <<t, tokenHandlers'[t]>> \in Registrations
<1>1. tokenHandlers \in [Token -> Handler \cup {Unset}]
  BY DEF IInv, TypeOK, AuthorityTypeOK
<1>2. ASSUME NEW pair \in Registrations,
             tokenHandlers' = [tokenHandlers EXCEPT ![pair[1]] = pair[2]]
      PROVE  tokenHandlers'[t] = tokenHandlers[t] \/ <<t, tokenHandlers'[t]>> \in Registrations
  <2>1. PICK d \in Token, h \in Handler : pair = <<d, h>>
    BY AuthorityAssumption, Addresses DEF Handler
  <2> QED
    BY <1>1, <1>2, <2>1
<1>3. ASSUME NEW c \in Token, tokenHandlers' = [tokenHandlers EXCEPT ![c] = Unset]
      PROVE  tokenHandlers'[t] \in {tokenHandlers[t], Unset}
  BY <1>1, <1>3
<1>4. ASSUME NEW sender \in Users, SetterStep(sender)
      PROVE  \/ tokenHandlers'[t] \in {tokenHandlers[t], Unset}
             \/ <<t, tokenHandlers'[t]>> \in Registrations
  BY <1>2, <1>3, <1>4 DEF SetterStep, SetTxnMintLimit, SetMinterAllowance, SetTokenHandler,
                          RegisterStablecoin, UnregisterStablecoin
<1>5. ASSUME NEW sender \in Users, AuthorityStep(sender)
      PROVE  UNCHANGED tokenHandlers
  BY <1>5 DEF AuthorityStep, AuthorityMint, MintBridgeEcosystem, HandlerMint, AuthorityWrap,
              AuthorityBurn, AuthorityUnwrap, authorityVars
<1> QED
  BY <1>4, <1>5 DEF Next, vars, authorityVars

-----------------------------------------------------------------------------
(* The backing of a wrapped deployment, and what its issuance consumes.     *)

\* The inductive companion of CirculationBacked: the two roles and the handlers
\* that move one side alone are nobody's, and nothing is missing so far.
Sheltered == WrappedDeployment => ~Uncovered /\ Gap <= 0

\* The deployment starts sheltered.
LEMMA InitSheltered ==
    Init => Sheltered
<1> SUFFICES ASSUME Init, WrappedDeployment PROVE ~Uncovered /\ Gap <= 0
  BY DEF Sheltered
<1>1. Gap = 0
  BY Addresses DEF Init, InitTokens, Gap
<1>2. ~Uncovered
  BY AuthorityAssumption DEF Init, InitTokens, WrappedDeployment, NobodyGets, Uncovered, hasRole,
                             Handler
<1> QED
  BY <1>1, <1>2

\* Every transaction keeps it sheltered.
LEMMA ShelterKept ==
    ASSUME IInv, Sheltered, [Next]_vars
    PROVE  Sheltered'
<1> SUFFICES ASSUME WrappedDeployment PROVE ~Uncovered' /\ Gap' <= 0
  BY DEF Sheltered
<1>1. ~Uncovered /\ Gap <= 0
  BY DEF Sheltered
<1>2. Gap' <= 0
  <2>1. GapStep /\ IInv'
    BY NextKeeps
  <2>2. Gap \in Int /\ Gap' \in Int
    BY <2>1, Addresses DEF IInv, TypeOK, LedgerTypeOK, Gap
  <2> QED
    BY <1>1, <2>1, <2>2 DEF GapStep
<1>3. SC \in Contract /\ RL \in Contract /\ SC \in Token
      /\ "MINTER" \in Role /\ "BLOCKED_ADDRESS_BURNER" \in Role
  BY DEF Contract, Token, Role
<1>4. \A u \in Users : u \notin role[SC]["MINTER"] /\ u \notin role[RL]["BLOCKED_ADDRESS_BURNER"]
  BY <1>1 DEF Uncovered, hasRole
<1>5. \A u \in Users : u \notin role'[SC]["MINTER"]
  BY <1>3, <1>4, NobodyStays DEF WrappedDeployment
<1>6. \A u \in Users : u \notin role'[RL]["BLOCKED_ADDRESS_BURNER"]
  BY <1>3, <1>4, NobodyStays DEF WrappedDeployment
<1>7. tokenHandlers'[SC] \notin {Backed, Single}
  <2>1. \/ tokenHandlers'[SC] \in {tokenHandlers[SC], Unset}
        \/ <<SC, tokenHandlers'[SC]>> \in Registrations
    BY <1>3, HandlersByRegistration
  <2>2. <<SC, tokenHandlers'[SC]>> \in Registrations => tokenHandlers'[SC] = Wrapped
    BY DEF WrappedDeployment
  <2>3. tokenHandlers[SC] \notin {Backed, Single}
    BY <1>1 DEF Uncovered
  <2> QED
    BY <2>1, <2>2, <2>3, AuthorityAssumption DEF Handler
<1> QED
  BY <1>2, <1>5, <1>6, <1>7 DEF Uncovered, hasRole

\* A deployment whose deposit token only the wrapped handler serves, whose minters
\* are contracts and whose reserve nobody can seize, has a reserve token in the SC
\* contract for every deposit token, through every pause, block, change of policy,
\* re-registration, burn and seizure on SC.
THEOREM CirculationStaysBacked ==
    Spec => []CirculationBacked
<1>1. IInv /\ Sheltered /\ [Next]_vars => Sheltered'
  BY ShelterKept
<1>2. IInv /\ Sheltered => CirculationBacked
  <2> SUFFICES ASSUME IInv, Gap <= 0 PROVE supply[SC] <= balance[RL][SC]
    BY DEF Sheltered, CirculationBacked
  <2>1. supply[SC] \in Int /\ balance[RL][SC] \in Int
    BY Addresses DEF IInv, TypeOK, LedgerTypeOK
  <2> QED
    BY <2>1 DEF Gap
<1> QED
  BY <1>1, <1>2, InitSheltered, Inductive, PTL DEF Spec

\* The inductive companion of IssuanceConsumesAllowance: no user may mint RL or act
\* as a bridge, and no handler serves RL.
OnlyByAllowance ==
    /\ \A u \in Users : ~hasRole(RL, "MINTER", u) /\ ~hasRole(TA, "BRIDGE_ECOSYSTEM_CONTRACT", u)
    /\ tokenHandlers[RL] = Unset

\* It holds initially and throughout.
LEMMA AllowanceInit ==
    Init => (IssuedByAllowance => OnlyByAllowance)
BY DEF Init, InitTokens, IssuedByAllowance, NobodyGets, OnlyByAllowance, hasRole

\* Every step keeps issuance to those with an allowance.
LEMMA AllowanceKeeps ==
    ASSUME IInv, IssuedByAllowance, OnlyByAllowance, [Next]_vars
    PROVE  OnlyByAllowance'
<1>1. /\ RL \in Contract /\ TA \in Contract /\ RL \in Token
      /\ "MINTER" \in Role /\ "BRIDGE_ECOSYSTEM_CONTRACT" \in Role
  BY DEF Contract, Token, Role
<1>2. \A u \in Users : u \notin role'[RL]["MINTER"]
  BY <1>1, NobodyStays DEF IssuedByAllowance, OnlyByAllowance, hasRole
<1>3. \A u \in Users : u \notin role'[TA]["BRIDGE_ECOSYSTEM_CONTRACT"]
  BY <1>1, NobodyStays DEF IssuedByAllowance, OnlyByAllowance, hasRole
<1>4. tokenHandlers'[RL] = Unset
  <2>1. \/ tokenHandlers'[RL] \in {tokenHandlers[RL], Unset}
        \/ <<RL, tokenHandlers'[RL]>> \in Registrations
    BY <1>1, HandlersByRegistration
  <2>2. <<RL, tokenHandlers'[RL]>> \notin Registrations
    BY DEF IssuedByAllowance, Registered
  <2> QED
    BY <2>1, <2>2 DEF OnlyByAllowance
<1> QED
  BY <1>2, <1>3, <1>4 DEF OnlyByAllowance, hasRole

\* A transaction on a token issues no reserve.
LEMMA TokensIssueNothing ==
    ASSUME IInv, OnlyByAllowance, NEW sender \in Users, TokenStep(sender)
    PROVE  ~(supply'[RL] > supply[RL])
<1>1. /\ supply \in [Token -> Int] /\ balance \in [Token -> [Account -> Nat]]
      /\ Amounts \subseteq Nat /\ RL \in Token /\ SC \in Token /\ RL # SC
  BY TokenAssumption DEF IInv, TypeOK, LedgerTypeOK, Token
<1>2. CASE HolderStep(sender)
  <2>1. \/ supply' = supply
        \/ \E to \in Recipients, amount \in Amounts : Wrap(sender, to, amount)
    BY <1>2 DEF HolderStep, Transfer, Approve, TransferFrom
  <2>2. ASSUME NEW amount \in Amounts, supply' = [supply EXCEPT ![SC] = @ + amount]
        PROVE  supply'[RL] = supply[RL]
    BY <1>1, <2>2
  <2>3. supply'[RL] = supply[RL]
    BY <2>1, <2>2 DEF Wrap
  <2> QED
    BY <1>1, <2>3
<1>3. CASE AdminStep(sender)
  <2>1. UNCHANGED ledgerVars
    BY <1>3, AdminStepKeeps DEF IInv, TypeOK
  <2> QED
    BY <1>1, <2>1 DEF ledgerVars
<1>4. ASSUME NEW t \in Token, NEW to \in Recipients, NEW amount \in Amounts,
             Mint(sender, t, to, amount)
      PROVE  ~(supply'[RL] > supply[RL])
  <2>1. t = SC
    BY <1>4 DEF Mint, MintChecks, OnlyByAllowance, Token
  <2> QED
    BY <1>1, <1>4, <2>1 DEF Mint
<1>5. ASSUME NEW t \in Token, NEW amount \in Amounts, Burn(sender, t, amount)
      PROVE  ~(supply'[RL] > supply[RL])
  BY <1>1, <1>5 DEF Burn
<1>6. ASSUME NEW amount \in Amounts, Unwrap(sender, amount)
      PROVE  ~(supply'[RL] > supply[RL])
  BY <1>1, <1>6 DEF Unwrap
<1>7. ASSUME NEW account \in Account, ReserveBurnFromBlocked(sender, account)
      PROVE  ~(supply'[RL] > supply[RL])
  <2>1. balance[RL][account] \in Nat
    BY <1>1
  <2> QED
    BY <1>1, <1>7, <2>1 DEF ReserveBurnFromBlocked
<1>8. ASSUME NEW account \in Account, BurnFromBlocked(sender, account)
      PROVE  ~(supply'[RL] > supply[RL])
  BY <1>1, <1>8 DEF BurnFromBlocked
<1> QED
  BY <1>2, <1>3, <1>4, <1>5, <1>6, <1>7, <1>8 DEF TokenStep, IssuerStep

\* A call on TokenAuthority issues what it takes off the caller's allowance for SC.
LEMMA AuthorityIssues ==
    ASSUME IInv, OnlyByAllowance, NEW sender \in Users, AuthorityStep(sender)
    PROVE  IssuanceStep
<1>1. /\ supply \in [Token -> Int] /\ minterAllowances \in [Token -> [Users -> Nat]]
      /\ Amounts \subseteq Nat /\ RL \in Token /\ SC \in Token /\ RL # SC
      /\ Unset \notin Handler
  BY TokenAssumption, AuthorityAssumption DEF IInv, TypeOK, LedgerTypeOK, AuthorityTypeOK, Token
<1>2. ASSUME NEW c \in Token, NEW to \in Recipients, NEW amount \in Amounts,
             AuthorityMint(sender, c, to, amount)
      PROVE  IssuanceStep
  <2>1. WrappedMint(c, to, amount) \/ BackedMint(c, to, amount) \/ SingleMint(c, to, amount)
    BY <1>2 DEF AuthorityMint, HandlerMint
  <2>2. c = SC
    <3>1. tokenHandlers[c] \in Handler
      BY <2>1 DEF WrappedMint, BackedMint, SingleMint, Handler
    <3> QED
      BY <1>1, <3>1 DEF OnlyByAllowance, Token
  <2>3. supply' \in {[supply EXCEPT ![RL] = @ + amount, ![SC] = @ + amount],
                     [supply EXCEPT ![SC] = @ + amount]}
    BY <2>1, <2>2 DEF WrappedMint, BackedMint, SingleMint
  <2>4. supply'[RL] \in {supply[RL] + amount, supply[RL]}
    BY <1>1, <2>3
  <2>5. minterAllowances'[SC][sender] = minterAllowances[SC][sender] - amount
    BY <1>1, <1>2, <2>2 DEF AuthorityMint, AllowanceSpent
  <2>6. minterAllowances[SC][sender] \in Nat /\ amount \in Nat /\ supply[RL] \in Int
    BY <1>1
  <2>7. supply'[RL] > supply[RL] =>
          minterAllowances[SC][sender] - minterAllowances'[SC][sender] = supply'[RL] - supply[RL]
    BY <2>4, <2>5, <2>6
  <2> QED
    BY <2>7 DEF IssuanceStep
<1>3. ASSUME NEW c \in Token, NEW to \in Recipients, NEW amount \in Amounts,
             AuthorityWrap(sender, c, to, amount)
      PROVE  ~(supply'[RL] > supply[RL])
  BY <1>1, <1>3 DEF AuthorityWrap
<1>4. ASSUME NEW c \in Token, NEW amount \in Amounts, AuthorityBurn(sender, c, amount)
      PROVE  ~(supply'[RL] > supply[RL])
  <2>1. supply' \in {[supply EXCEPT ![RL] = @ - amount, ![SC] = @ - amount],
                     [supply EXCEPT ![c] = @ - amount]}
    BY <1>4 DEF AuthorityBurn, WrappedBurn, BackedBurn, SingleBurn
  <2>2. supply'[RL] \in {supply[RL] - amount, supply[RL]}
    BY <1>1, <2>1
  <2> QED
    BY <1>1, <2>2
<1>5. ASSUME NEW c \in Token, NEW amount \in Amounts, AuthorityUnwrap(sender, c, amount)
      PROVE  ~(supply'[RL] > supply[RL])
  BY <1>1, <1>5 DEF AuthorityUnwrap
<1>6. ~(\E c \in Token, to \in Recipients, amount \in Amounts :
          MintBridgeEcosystem(sender, c, to, amount))
  BY DEF MintBridgeEcosystem, OnlyByAllowance
<1>7. ~(supply'[RL] > supply[RL]) => IssuanceStep
  BY DEF IssuanceStep
<1> QED
  BY <1>2, <1>3, <1>4, <1>5, <1>6, <1>7 DEF AuthorityStep

\* With the reserve minted by contracts alone and no bridge, what a transaction adds
\* to the supply of RL it takes off one minter's allowance: the issuance is bounded
\* by what the limit setter grants, whatever else the operators do.
THEOREM IssuanceTheorem ==
    Spec => IssuanceConsumesAllowance
<1>1. IInv /\ (IssuedByAllowance => OnlyByAllowance) /\ [Next]_vars
        => (IssuedByAllowance => OnlyByAllowance)'
  BY AllowanceKeeps
<1>2. IInv /\ (IssuedByAllowance => OnlyByAllowance) /\ [Next]_vars
        => [IssuedByAllowance => IssuanceStep]_vars
  <2> SUFFICES ASSUME IInv, OnlyByAllowance, Next PROVE IssuanceStep
    OBVIOUS
  <2>1. supply[RL] \in Int
    BY Addresses DEF IInv, TypeOK, LedgerTypeOK
  <2>2. ASSUME NEW sender \in Users, SetterStep(sender) PROVE supply' = supply
    BY <2>2, SetterStepKeepsType DEF IInv, TypeOK, tokenVars, ledgerVars
  <2>3. supply' = supply => IssuanceStep
    BY <2>1 DEF IssuanceStep
  <2>4. ~(supply'[RL] > supply[RL]) => IssuanceStep
    BY DEF IssuanceStep
  <2> QED
    BY <2>2, <2>3, <2>4, TokensIssueNothing, AuthorityIssues DEF Next
<1> QED
  BY <1>1, <1>2, AllowanceInit, Inductive, PTL DEF Spec, IssuanceConsumesAllowance

=============================================================================
