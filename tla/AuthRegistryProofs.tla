------------------------- MODULE AuthRegistryProofs -------------------------
(***************************************************************************)
(* Proofs about AuthRegistry, for any set of accounts and any number of    *)
(* policies.                                                               *)
(***************************************************************************)
EXTENDS AuthRegistry, WellFoundedInduction, TLAPS

\* _createPolicy keeps the ids an initial segment and files a well-formed policy.
LEMMA CreateKeepsType ==
    ASSUME RegistryTypeOK,
           NEW admin \in Account, NEW type \in PolicyType,
           NEW parent \in {NoPolicy} \cup PolicyIds,
           createPolicy(admin, type, parent)
    PROVE  RegistryTypeOK'
<1> DEFINE new == [admin |-> admin, policyType |-> type, parent |-> parent, member |-> {}]
<1>1. new \in Policy
  BY DEF Policy
<1>2. /\ MaxPolicyId \in Nat /\ nextPolicyId \in Int
      /\ FirstPolicyId <= nextPolicyId /\ nextPolicyId <= MaxPolicyId
      /\ nextPolicyId' = nextPolicyId + 1
  BY RegistryAssumption DEF RegistryTypeOK, createPolicy, IdAfter, FirstPolicyId
<1>3. nextPolicyId' \in FirstPolicyId .. (MaxPolicyId + 1)
  BY <1>2 DEF FirstPolicyId
<1>4. DOMAIN policies = FirstPolicyId .. (nextPolicyId - 1)
  BY DEF RegistryTypeOK
<1>5. DOMAIN policies \cup {nextPolicyId} = FirstPolicyId .. (nextPolicyId' - 1)
  BY <1>2, <1>4 DEF FirstPolicyId
<1>6. policies' = [id \in DOMAIN policies \cup {nextPolicyId} |->
                      IF id = nextPolicyId THEN new ELSE policies[id]]
  BY DEF createPolicy
<1>7. \A id \in DOMAIN policies : policies[id] \in Policy
  BY <1>4 DEF RegistryTypeOK
<1> HIDE DEF new
<1>8. policies' \in [FirstPolicyId .. (nextPolicyId' - 1) -> Policy]
  BY <1>1, <1>5, <1>6, <1>7
<1> QED
  BY <1>3, <1>8 DEF RegistryTypeOK

\* _setMember changes the membership of one existing policy and nothing else.
LEMMA SetMemberKeepsType ==
    ASSUME RegistryTypeOK,
           NEW sender \in Users, NEW policy \in PolicyIds,
           NEW account \in Account, NEW value \in BOOLEAN,
           setMember(sender, policy, account, value)
    PROVE  /\ RegistryTypeOK'
           /\ DOMAIN policies' = DOMAIN policies
           /\ \A p \in DOMAIN policies : policies'[p].parent = policies[p].parent
<1>1. \A member \in SUBSET Account : Listed(member, account, value) \in SUBSET Account
  BY DEF Listed
<1>2. policy \in DOMAIN policies /\ policies[policy] \in Policy
  BY DEF setMember, exists, RegistryTypeOK
<1> DEFINE edited == [policies[policy] EXCEPT
                         !.member = Listed(policies[policy].member, account, value)]
<1>3. policies' = [policies EXCEPT ![policy] = edited]
  BY DEF setMember
<1>4. edited \in Policy /\ edited.parent = policies[policy].parent
  BY <1>1, <1>2 DEF Policy
<1> HIDE DEF edited
<1>5. RegistryTypeOK'
  BY <1>2, <1>3, <1>4 DEF RegistryTypeOK, setMember
<1>6. DOMAIN policies' = DOMAIN policies
  BY <1>3
<1>7. \A p \in DOMAIN policies : policies'[p].parent = policies[p].parent
  BY <1>2, <1>3, <1>4 DEF RegistryTypeOK
<1> QED
  BY <1>5, <1>6, <1>7

\* The registry's state is well formed after any sequence of createPolicy,
\* modifyPolicyWhitelist and modifyPolicyBlacklist calls.
THEOREM RegistryTypeCorrect == RegistrySpec => []RegistryTypeOK
<1>1. InitRegistry => RegistryTypeOK
  <2> SUFFICES ASSUME InitRegistry PROVE RegistryTypeOK
    OBVIOUS
  <2>1. nextPolicyId \in FirstPolicyId .. (MaxPolicyId + 1)
    BY RegistryAssumption DEF InitRegistry, FirstPolicyId
  <2>2. FirstPolicyId .. (nextPolicyId - 1) = {}
    BY DEF InitRegistry, FirstPolicyId
  <2> QED
    BY <2>1, <2>2 DEF InitRegistry, RegistryTypeOK
<1>2. RegistryTypeOK /\ [RegistryNext]_registryVars => RegistryTypeOK'
  <2> SUFFICES ASSUME RegistryTypeOK, [RegistryNext]_registryVars
               PROVE  RegistryTypeOK'
    OBVIOUS
  <2>1. ASSUME NEW admin \in Account, NEW type \in PolicyType,
               NEW parent \in {NoPolicy} \cup PolicyIds,
               createPolicy(admin, type, parent)
        PROVE  RegistryTypeOK'
    BY <2>1, CreateKeepsType
  <2>2. ASSUME NEW sender \in Users, NEW policy \in PolicyIds,
               NEW account \in Account, NEW value \in BOOLEAN,
               setMember(sender, policy, account, value)
        PROVE  RegistryTypeOK'
    BY <2>2, SetMemberKeepsType
  <2>3. CASE UNCHANGED registryVars
    BY <2>3 DEF registryVars, RegistryTypeOK
  <2> QED
    BY <2>1, <2>2, <2>3 DEF RegistryNext
<1> QED
  BY <1>1, <1>2, PTL DEF RegistrySpec

\* isAuthorized always terminates without PolicyNotFound on an existing policy:
\* each parent exists and is older than its child.
THEOREM ChainsAreFounded == RegistrySpec => []ParentsDescend
<1>1. InitRegistry => ParentsDescend
  BY DEF InitRegistry, ParentsDescend
<1>2. RegistryTypeOK /\ ParentsDescend /\ [RegistryNext]_registryVars => ParentsDescend'
  <2> SUFFICES ASSUME RegistryTypeOK, ParentsDescend, [RegistryNext]_registryVars
               PROVE  ParentsDescend'
    OBVIOUS
  <2>1. ASSUME NEW admin \in Account, NEW type \in PolicyType,
               NEW parent \in {NoPolicy} \cup PolicyIds,
               createPolicy(admin, type, parent)
        PROVE  ParentsDescend'
    <3>1. DOMAIN policies = FirstPolicyId .. (nextPolicyId - 1) /\ nextPolicyId \in Int
      BY RegistryAssumption DEF RegistryTypeOK, FirstPolicyId
    <3>2. parent # NoPolicy => parent \in DOMAIN policies
      BY <2>1 DEF createPolicy, ParentFound, exists
    <3>3. /\ DOMAIN policies' = DOMAIN policies \cup {nextPolicyId}
          /\ policies'[nextPolicyId].parent = parent
          /\ \A id \in DOMAIN policies : policies'[id] = policies[id]
      BY <2>1, <3>1 DEF createPolicy
    <3> QED
      BY <3>1, <3>2, <3>3 DEF ParentsDescend, exists
  <2>2. ASSUME NEW sender \in Users, NEW policy \in PolicyIds,
               NEW account \in Account, NEW value \in BOOLEAN,
               setMember(sender, policy, account, value)
        PROVE  ParentsDescend'
    BY <2>2, SetMemberKeepsType DEF ParentsDescend, exists
  <2>3. CASE UNCHANGED registryVars
    BY <2>3 DEF registryVars, ParentsDescend, exists
  <2> QED
    BY <2>1, <2>2, <2>3 DEF RegistryNext
<1> QED
  BY <1>1, <1>2, RegistryTypeCorrect, PTL DEF RegistrySpec

-----------------------------------------------------------------------------
(* What isAuthorized decides, for every registry the contract can reach. A  *)
(* policy's chain and its decision are defined by recursion along the       *)
(* parents. That such functions exist is shown by a witness: for chains the *)
(* intersection of the sets closed under parents, for decisions the         *)
(* reference definition itself. What they have in common is then shown of a *)
(* least policy for which it fails, since a parent has a smaller id.        *)

\* A registry of which every parent exists and is older than its child.
Founded(pol) ==
    /\ DOMAIN pol \subseteq Nat \ {NoPolicy}
    /\ pol \in [DOMAIN pol -> Policy]
    /\ \A id \in DOMAIN pol :
           pol[id].parent # NoPolicy =>
               pol[id].parent \in DOMAIN pol /\ pol[id].parent < id

-----------------------------------------------------------------------------
(* Chains and the reference definition.                                     *)

\* A chain is a policy followed by its parent's chain.
LEMMA ChainStep ==
    ASSUME NEW pol, Founded(pol)
    PROVE  /\ DOMAIN ChainsOf(pol) = DOMAIN pol
           /\ \A id \in DOMAIN pol :
               ChainsOf(pol)[id] =
                   {id} \cup (IF pol[id].parent = NoPolicy THEN {}
                              ELSE ChainsOf(pol)[pol[id].parent])
<1> DEFINE D == DOMAIN pol
           Body(f) == [id \in D |-> {id} \cup
                         (IF pol[id].parent = NoPolicy THEN {} ELSE f[pol[id].parent])]
           Closed(S) == \A x \in S : pol[x].parent # NoPolicy => pol[x].parent \in S
           reach == [id \in D |-> {q \in D : \A S \in SUBSET D :
                                       id \in S /\ Closed(S) => q \in S}]
<1>1. ASSUME NEW id \in D
      PROVE  reach[id] = Body(reach)[id]
  <2>1. CASE pol[id].parent = NoPolicy
    <3>1. {id} \in SUBSET D /\ id \in {id} /\ Closed({id})
      BY <2>1
    <3>2. reach[id] \subseteq {id}
      BY <3>1
    <3>3. id \in reach[id]
      OBVIOUS
    <3> QED
      BY <2>1, <3>2, <3>3
  <2>2. CASE pol[id].parent # NoPolicy
    <3> DEFINE p == pol[id].parent
    <3>1. p \in D
      BY <2>2 DEF Founded
    <3>2. reach[p] \subseteq reach[id] /\ id \in reach[id]
      BY <2>2, <3>1
    <3>3. ASSUME NEW q \in reach[id], q # id
          PROVE  q \in reach[p]
      <4>1. SUFFICES ASSUME NEW S \in SUBSET D, p \in S, Closed(S)
                     PROVE  q \in S
        BY <3>1
      <4>2. S \cup {id} \in SUBSET D /\ Closed(S \cup {id})
        BY <4>1
      <4>3. q \in S \cup {id}
        BY <4>2
      <4> QED
        BY <3>3, <4>3
    <3>4. reach[id] = {id} \cup reach[p]
      BY <3>2, <3>3
    <3> QED
      BY <2>2, <3>4
  <2> QED
    BY <2>1, <2>2
<1>2. reach = Body(reach)
  <2>1. DOMAIN reach = D /\ DOMAIN Body(reach) = D
    OBVIOUS
  <2>2. reach = [id \in D |-> reach[id]] /\ Body(reach) = [id \in D |-> Body(reach)[id]]
    OBVIOUS
  <2> HIDE DEF reach, Body
  <2> QED
    BY <1>1, <2>2
<1>3. ChainsOf(pol) = CHOOSE f : f = Body(f)
  BY DEF ChainsOf
<1>4. ChainsOf(pol) = Body(ChainsOf(pol))
  <2> HIDE DEF Body, reach
  <2> QED
    BY <1>2, <1>3
<1> QED
  BY <1>4, Zenon

\* A nonempty set of naturals has a least member.
LEMMA LeastOf ==
    ASSUME NEW S, S \subseteq Nat, S # {}
    PROVE  \E x \in S : \A y \in S : x <= y
<1>1. PICK x \in S : \A y \in S : ~(<<y, x>> \in OpToRel(<, Nat))
  BY WFMin, NatLessThanWellFounded
<1>2. \A y \in S : ~(y < x)
  BY <1>1 DEF OpToRel
<1> QED
  BY <1>2

\* Only existing policies, none younger than the first, are on a chain.
LEMMA ChainBelow ==
    ASSUME NEW pol, Founded(pol), NEW id \in DOMAIN pol
    PROVE  /\ ChainsOf(pol)[id] \subseteq DOMAIN pol
           /\ \A q \in ChainsOf(pol)[id] : q <= id
<1> DEFINE C == ChainsOf(pol)
           Good(i) == C[i] \subseteq DOMAIN pol /\ \A q \in C[i] : q <= i
           bad == {i \in DOMAIN pol : ~Good(i)}
<1>1. SUFFICES ASSUME bad # {} PROVE FALSE
  OBVIOUS
<1>2. bad \subseteq Nat
  BY DEF Founded
<1>3. PICK x \in bad : \A y \in bad : x <= y
  BY <1>1, <1>2, LeastOf
<1>4. C[x] = {x} \cup (IF pol[x].parent = NoPolicy THEN {} ELSE C[pol[x].parent])
  BY ChainStep
<1>5. x \in DOMAIN pol /\ x \in Nat
  BY DEF Founded
<1>6. CASE pol[x].parent = NoPolicy
  <2>1. Good(x)
    BY <1>4, <1>5, <1>6
  <2> QED
    BY <2>1
<1>7. CASE pol[x].parent # NoPolicy
  <2> DEFINE p == pol[x].parent
  <2>1. p \in DOMAIN pol /\ p < x /\ p \in Nat
    BY <1>5, <1>7 DEF Founded
  <2>2. Good(p)
    <3> HIDE DEF Good, p
    <3> QED
      BY <1>3, <1>5, <2>1
  <2>3. C[x] = {x} \cup C[p]
    BY <1>4, <1>7
  <2>4. \A q \in C[p] : q \in Nat /\ q <= p
    BY <2>2 DEF Founded
  <2> HIDE DEF p, C
  <2>5. Good(x)
    BY <1>5, <2>1, <2>2, <2>3, <2>4
  <2> QED
    BY <2>5
<1> QED
  BY <1>6, <1>7

\* The largest member of a set of ids, and the smallest, are the only ones.
LEMMA NearestIs ==
    ASSUME NEW S, S \subseteq Nat, NEW x \in S, \A y \in S : y <= x
    PROVE  Nearest(S) = x
<1>1. x \in S /\ \A q \in S : q <= x
  OBVIOUS
<1>2. Nearest(S) \in S /\ x <= Nearest(S)
  BY <1>1 DEF Nearest
<1>3. Nearest(S) <= x /\ Nearest(S) \in Nat /\ x \in Nat
  BY <1>2
<1> QED
  BY <1>2, <1>3

\* The root of a chain of policies is its least.
LEMMA RootIs ==
    ASSUME NEW S, S \subseteq Nat, NEW x \in S, \A y \in S : x <= y
    PROVE  Root(S) = x
<1>1. x \in S /\ \A q \in S : x <= q
  OBVIOUS
<1>2. Root(S) \in S /\ Root(S) <= x
  BY <1>1 DEF Root
<1>3. x <= Root(S) /\ Root(S) \in Nat /\ x \in Nat
  BY <1>2
<1> QED
  BY <1>2, <1>3

\* The reference definition obeys the recursion of isAuthorized.
LEMMA ReferenceStep ==
    ASSUME NEW pol, Founded(pol), NEW id \in DOMAIN pol, NEW account
    PROVE  ReferenceDecision(pol, id, account) =
               IF account \in pol[id].member THEN pol[id].policyType = "WHITELIST"
               ELSE IF pol[id].parent # NoPolicy THEN ReferenceDecision(pol, pol[id].parent, account)
               ELSE pol[id].policyType = "BLACKLIST"
<1> DEFINE C == ChainsOf(pol)
           L(i) == Listing(pol, i, account)
<1>1. C[id] = {id} \cup (IF pol[id].parent = NoPolicy THEN {} ELSE C[pol[id].parent])
  BY ChainStep
<1>2. \A i \in DOMAIN pol : i \in Nat /\ L(i) = {p \in C[i] : account \in pol[p].member}
  BY DEF Founded, Listing
<1>3. C[id] \subseteq Nat /\ \A q \in C[id] : q <= id
  BY ChainBelow, <1>2
<1>4. CASE account \in pol[id].member
  <2>1. id \in L(id) /\ L(id) \subseteq C[id]
    BY <1>1, <1>2, <1>4
  <2>2. Nearest(L(id)) = id
    <3> HIDE DEF L, C
    <3> QED
      BY <1>3, <2>1, NearestIs
  <2> QED
    BY <1>4, <2>1, <2>2 DEF ReferenceDecision
<1>5. CASE account \notin pol[id].member /\ pol[id].parent # NoPolicy
  <2> DEFINE p == pol[id].parent
  <2>1. p \in DOMAIN pol /\ p < id
    BY <1>5 DEF Founded
  <2>2. C[id] = {id} \cup C[p]
    BY <1>1, <1>5
  <2>3. L(id) = L(p)
    BY <1>2, <1>5, <2>1, <2>2
  <2>4. Root(C[id]) = Root(C[p])
    <3>1. C[p] \subseteq DOMAIN pol /\ \A q \in C[p] : q <= p
      BY <2>1, ChainBelow
    <3>2. C[p] \subseteq Nat /\ p \in Nat /\ id \in Nat
      BY <1>2, <2>1, <3>1
    <3>3. p \in C[p]
      BY <2>1, ChainStep
    <3> HIDE DEF C, p
    <3>4. PICK r \in C[p] : \A y \in C[p] : r <= y
      BY <3>2, <3>3, LeastOf
    <3>5. r <= id
      BY <2>1, <3>1, <3>2, <3>4
    <3>6. r \in C[id] /\ \A y \in C[id] : r <= y
      BY <2>2, <3>4, <3>5
    <3> QED
      BY <1>3, <3>2, <3>4, <3>6, RootIs
  <2> QED
    BY <1>5, <2>3, <2>4 DEF ReferenceDecision
<1>6. CASE account \notin pol[id].member /\ pol[id].parent = NoPolicy
  <2>1. C[id] = {id}
    BY <1>1, <1>6
  <2>2. L(id) = {}
    BY <1>2, <1>6, <2>1
  <2>3. Root(C[id]) = id
    BY <1>2, <2>1, RootIs
  <2> QED
    BY <1>6, <2>2, <2>3 DEF ReferenceDecision
<1> QED
  BY <1>4, <1>5, <1>6

-----------------------------------------------------------------------------
(* isAuthorized against the reference definition.                           *)

\* DecisionsFor is a function that obeys its own definition.
LEMMA DecisionStep ==
    ASSUME NEW pol, Founded(pol), NEW account
    PROVE  \A id \in DOMAIN pol :
               DecisionsFor(pol, account)[id] =
                   IF account \in pol[id].member THEN pol[id].policyType = "WHITELIST"
                   ELSE IF pol[id].parent # NoPolicy THEN DecisionsFor(pol, account)[pol[id].parent]
                   ELSE pol[id].policyType = "BLACKLIST"
<1> DEFINE D == DOMAIN pol
           Body(f) == [id \in D |->
               IF account \in pol[id].member THEN pol[id].policyType = "WHITELIST"
               ELSE IF pol[id].parent # NoPolicy THEN f[pol[id].parent]
               ELSE pol[id].policyType = "BLACKLIST"]
           ref == [id \in D |-> ReferenceDecision(pol, id, account)]
<1>1. ASSUME NEW id \in D
      PROVE  ref[id] = Body(ref)[id]
  <2>1. pol[id].parent # NoPolicy => pol[id].parent \in D
    BY DEF Founded
  <2> QED
    BY <2>1, ReferenceStep
<1>2. ref = Body(ref)
  <2>1. ref = [id \in D |-> ref[id]] /\ Body(ref) = [id \in D |-> Body(ref)[id]]
    OBVIOUS
  <2> HIDE DEF ref, Body
  <2> QED
    BY <1>1, <2>1
<1>3. DecisionsFor(pol, account) = CHOOSE f : f = Body(f)
  BY DEF DecisionsFor
<1>4. DecisionsFor(pol, account) = Body(DecisionsFor(pol, account))
  <2> HIDE DEF Body, ref
  <2> QED
    BY <1>2, <1>3
<1> QED
  BY <1>4, Zenon

\* ... and the only one: a least policy for which it differs from the reference has a
\* parent for which it does not.
LEMMA DecisionIsReference ==
    ASSUME NEW pol, Founded(pol), NEW account, NEW id \in DOMAIN pol
    PROVE  DecisionsFor(pol, account)[id] = ReferenceDecision(pol, id, account)
<1> DEFINE D(i) == DecisionsFor(pol, account)[i]
           R(i) == ReferenceDecision(pol, i, account)
           bad == {i \in DOMAIN pol : D(i) # R(i)}
<1>1. SUFFICES ASSUME bad # {} PROVE FALSE
  OBVIOUS
<1>2. PICK x \in bad : \A y \in bad : x <= y
  <2>1. bad \subseteq Nat
    BY DEF Founded
  <2> HIDE DEF bad
  <2> QED
    BY <1>1, <2>1, LeastOf
<1>3. pol[x].parent # NoPolicy =>
          pol[x].parent \in DOMAIN pol /\ pol[x].parent < x /\ x \in Nat /\ pol[x].parent \in Nat
  BY DEF Founded
<1>4. pol[x].parent # NoPolicy => D(pol[x].parent) = R(pol[x].parent)
  <2> HIDE DEF D, R
  <2> QED
    BY <1>2, <1>3
<1>5. D(x) = R(x)
  BY <1>4, DecisionStep, ReferenceStep
<1> QED
  BY <1>5

\* What the invariants of the registry say of its policies.
LEMMA PoliciesFounded ==
    ASSUME NEW pol, NEW next \in Nat,
           pol \in [FirstPolicyId .. (next - 1) -> Policy],
           \A id \in DOMAIN pol :
               pol[id].parent # NoPolicy =>
                   pol[id].parent \in DOMAIN pol /\ pol[id].parent < id
    PROVE  Founded(pol)
BY DEF Founded, FirstPolicyId, NoPolicy

\* In every reachable registry, however long and mixed its chains, isAuthorized gives
\* the word of the nearest policy that lists the account, or else the root's default.
THEOREM NearestListing == RegistrySpec => []NearestListingDecides
<1>1. RegistryTypeOK /\ ParentsDescend => NearestListingDecides
  <2> SUFFICES ASSUME RegistryTypeOK, ParentsDescend
               PROVE  NearestListingDecides
    OBVIOUS
  <2>1. Founded(policies)
    BY PoliciesFounded, RegistryAssumption
       DEF RegistryTypeOK, ParentsDescend, exists, FirstPolicyId
  <2> QED
    BY <2>1, DecisionIsReference DEF NearestListingDecides, isAuthorized, exists
<1> QED
  BY <1>1, RegistryTypeCorrect, ChainsAreFounded, PTL

-----------------------------------------------------------------------------
(* What a transaction changes.                                              *)

\* Parents and types are written once, at creation.
Grown(pol, new) ==
    /\ DOMAIN pol \subseteq DOMAIN new
    /\ \A id \in DOMAIN pol :
           /\ new[id].parent = pol[id].parent
           /\ new[id].policyType = pol[id].policyType

\* Where no policy of a chain lists or unlists the account, its decision stays.
LEMMA DecisionUnchanged ==
    ASSUME NEW pol, Founded(pol), NEW new, Founded(new), Grown(pol, new),
           NEW id \in DOMAIN pol, NEW account,
           \A p \in ChainsOf(pol)[id] :
               (account \in pol[p].member) = (account \in new[p].member)
    PROVE  DecisionsFor(new, account)[id] = DecisionsFor(pol, account)[id]
<1> DEFINE C == ChainsOf(pol)
           Untouched(i) == \A p \in C[i] :
                               (account \in pol[p].member) = (account \in new[p].member)
           D(i) == DecisionsFor(pol, account)[i]
           E(i) == DecisionsFor(new, account)[i]
           bad == {i \in DOMAIN pol : Untouched(i) /\ E(i) # D(i)}
<1>1. SUFFICES ASSUME bad # {} PROVE FALSE
  OBVIOUS
<1>2. PICK x \in bad : \A y \in bad : x <= y
  <2>1. bad \subseteq Nat
    BY DEF Founded
  <2> HIDE DEF bad
  <2> QED
    BY <1>1, <2>1, LeastOf
<1>3. x \in DOMAIN pol /\ x \in DOMAIN new /\ Untouched(x) /\ E(x) # D(x)
  BY DEF Grown
<1>4. C[x] = {x} \cup (IF pol[x].parent = NoPolicy THEN {} ELSE C[pol[x].parent])
  BY <1>3, ChainStep
<1>5. (account \in pol[x].member) = (account \in new[x].member)
  BY <1>3, <1>4
<1>6. new[x].parent = pol[x].parent /\ new[x].policyType = pol[x].policyType
  BY <1>3 DEF Grown
<1>7. pol[x].parent # NoPolicy => E(pol[x].parent) = D(pol[x].parent)
  <2> DEFINE p == pol[x].parent
  <2> SUFFICES ASSUME p # NoPolicy PROVE E(p) = D(p)
    OBVIOUS
  <2>1. p \in DOMAIN pol /\ p < x /\ p \in Nat /\ x \in Nat
    BY <1>3 DEF Founded
  <2>2. Untouched(p)
    BY <1>3, <1>4
  <2>3. p \notin bad
    <3> HIDE DEF bad, p
    <3> QED
      BY <1>2, <2>1
  <2> HIDE DEF D, E, Untouched, p
  <2> QED
    BY <2>1, <2>2, <2>3
<1>8. D(x) = IF account \in pol[x].member THEN pol[x].policyType = "WHITELIST"
             ELSE IF pol[x].parent # NoPolicy THEN D(pol[x].parent)
             ELSE pol[x].policyType = "BLACKLIST"
  BY <1>3, DecisionStep
<1>9. E(x) = IF account \in new[x].member THEN new[x].policyType = "WHITELIST"
             ELSE IF new[x].parent # NoPolicy THEN E(new[x].parent)
             ELSE new[x].policyType = "BLACKLIST"
  BY <1>3, DecisionStep
<1> HIDE DEF D, E
<1> QED
  BY <1>3, <1>5, <1>6, <1>7, <1>8, <1>9

\* createPolicy adds an unlisted id, and setMember writes one flag of one policy.
LEMMA StepGrows ==
    ASSUME RegistryTypeOK, RegistryNext
    PROVE  /\ Grown(policies, policies')
           /\ \E touched \in Account : \A id \in DOMAIN policies, account \in Account :
                  account # touched =>
                      (account \in policies[id].member) = (account \in policies'[id].member)
<1>1. DOMAIN policies = FirstPolicyId .. (nextPolicyId - 1) /\ nextPolicyId \in Int
  BY DEF RegistryTypeOK, FirstPolicyId, PolicyIds
<1>2. \A id \in DOMAIN policies : policies[id] \in Policy
  BY DEF RegistryTypeOK
<1>3. CASE \E admin \in Account, type \in PolicyType, parent \in {NoPolicy} \cup PolicyIds :
               createPolicy(admin, type, parent)
  <2> PICK admin \in Account, type \in PolicyType, parent \in {NoPolicy} \cup PolicyIds :
               createPolicy(admin, type, parent)
    BY <1>3
  <2>1. DOMAIN policies' = DOMAIN policies \cup {nextPolicyId}
    BY DEF createPolicy
  <2>2. \A id \in DOMAIN policies : policies'[id] = policies[id]
    BY <1>1 DEF createPolicy, FirstPolicyId
  <2> QED
    BY <2>1, <2>2 DEF Grown
<1>4. CASE \E sender \in Users, id \in PolicyIds, account \in Account, value \in BOOLEAN :
               setMember(sender, id, account, value)
  <2> PICK sender \in Users, id \in PolicyIds, account \in Account, value \in BOOLEAN :
               setMember(sender, id, account, value)
    BY <1>4
  <2>1. policies' = [policies EXCEPT ![id].member = Listed(@, account, value)]
    BY DEF setMember
  <2>2. \A i \in DOMAIN policies : i # id => policies'[i] = policies[i]
    BY <2>1
  <2>3. id \in DOMAIN policies
    BY DEF setMember, exists
  <2>4. /\ policies'[id].parent = policies[id].parent
        /\ policies'[id].policyType = policies[id].policyType
        /\ policies'[id].member = Listed(policies[id].member, account, value)
    BY <1>2, <2>1, <2>3 DEF Policy
  <2>5. Grown(policies, policies')
    BY <2>1, <2>2, <2>4 DEF Grown
  <2>6. \A a \in Account : a # account =>
            (a \in policies[id].member) = (a \in policies'[id].member)
    BY <2>4 DEF Listed
  <2> QED
    BY <2>2, <2>5, <2>6
<1> QED
  BY <1>3, <1>4 DEF RegistryNext

\* A transaction on the registry flips decisions on one account at most, and only
\* below a policy that listed or unlisted it: createPolicy flips none.
THEOREM LocalDecisions == RegistrySpec => DecisionsAreLocal
<1> DEFINE Local ==
        \E touched \in Account : \A id \in DOMAIN policies, account \in Account :
           isAuthorized(id, account) # isAuthorized(id, account)' =>
               /\ account = touched
               /\ \E p \in ChainsOf(policies)[id] :
                      (account \in policies[p].member) # (account \in policies'[p].member)
<1>1. ASSUME RegistryTypeOK, ParentsDescend, RegistryTypeOK', ParentsDescend',
             RegistryNext
      PROVE  Local
  <2>1. Founded(policies) /\ Founded(policies')
    <3>1. Founded(policies)
      BY <1>1, PoliciesFounded, RegistryAssumption
         DEF RegistryTypeOK, ParentsDescend, exists, FirstPolicyId
    <3>2. Founded(policies')
      <4>1. nextPolicyId' \in Nat
        BY <1>1, RegistryAssumption DEF RegistryTypeOK, FirstPolicyId
      <4>2. policies' \in [FirstPolicyId .. (nextPolicyId' - 1) -> Policy]
        BY <1>1 DEF RegistryTypeOK
      <4>3. \A id \in DOMAIN policies' :
                policies'[id].parent # NoPolicy =>
                    policies'[id].parent \in DOMAIN policies' /\ policies'[id].parent < id
        BY <1>1 DEF ParentsDescend, exists
      <4> QED
        BY <4>1, <4>2, <4>3, PoliciesFounded
    <3> QED
      BY <3>1, <3>2
  <2>2. Grown(policies, policies')
    BY <1>1, StepGrows
  <2>3. PICK touched \in Account : \A id \in DOMAIN policies, account \in Account :
                  account # touched =>
                      (account \in policies[id].member) = (account \in policies'[id].member)
    BY <1>1, StepGrows
  <2>4. ASSUME NEW id \in DOMAIN policies, NEW account \in Account,
               isAuthorized(id, account) # isAuthorized(id, account)'
        PROVE  /\ account = touched
               /\ \E p \in ChainsOf(policies)[id] :
                      (account \in policies[p].member) # (account \in policies'[p].member)
    <3>1. DecisionsFor(policies', account)[id] # DecisionsFor(policies, account)[id]
      BY <2>2, <2>4 DEF isAuthorized, exists, Grown
    <3>2. PICK p \in ChainsOf(policies)[id] :
              (account \in policies[p].member) # (account \in policies'[p].member)
      BY <2>1, <2>2, <3>1, DecisionUnchanged
    <3>3. p \in DOMAIN policies
      BY <2>1, ChainBelow
    <3>4. account = touched
      BY <2>3, <3>2, <3>3
    <3> QED
      BY <3>2, <3>4
  <2> QED
    BY <2>4
<1>2. ASSUME RegistryTypeOK, ParentsDescend, RegistryTypeOK', ParentsDescend',
             [RegistryNext]_registryVars
      PROVE  [Local]_registryVars
  <2> HIDE DEF Local
  <2> QED
    BY <1>1, <1>2
<1> QED
  BY <1>2, RegistryTypeCorrect, ChainsAreFounded, PTL DEF RegistrySpec, DecisionsAreLocal

===============================================================================
