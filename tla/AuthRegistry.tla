---------------------------- MODULE AuthRegistry ----------------------------
(***************************************************************************)
(* The policy registry (contracts/lib/auth-registry/src/AuthRegistry.sol). *)
(* A policy has an admin, a type, an optional parent and a set of listed   *)
(* accounts; every token transfer and mint asks it isAuthorized(id, acct). *)
(* One action is one successful transaction; a call that reverts leaves    *)
(* the state alone and is a stuttering step.                               *)
(***************************************************************************)
EXTENDS Integers, FiniteSets

CONSTANTS
    Account,        \* the addresses of the instance
    Users,          \* the addresses that sign transactions
    MaxPolicyId     \* bound: ids 2 .. MaxPolicyId are handed out

ASSUME RegistryAssumption ==
    /\ Users \subseteq Account /\ IsFiniteSet(Account)
    /\ MaxPolicyId \in Nat \ {0}

PolicyType == {"WHITELIST", "BLACKLIST"}

\* Id 0 means "no parent"; 1 is a reserved sentinel that never exists.
NoPolicy == 0
FirstPolicyId == 2
PolicyIds == FirstPolicyId .. MaxPolicyId

VARIABLES
    policies,       \* _policies: the existing ids, each mapped to its policy
    nextPolicyId    \* _nextPolicyId

registryVars == <<policies, nextPolicyId>>

Policy == [admin : Account, policyType : PolicyType,
           parent : {NoPolicy} \cup PolicyIds, member : SUBSET Account]

exists(id) == id \in DOMAIN policies

InitRegistry ==
    /\ policies = [id \in {} |-> id]
    /\ nextPolicyId = FirstPolicyId

(***************************************************************************)
(* isAuthorized as the contract computes it, for one account and every     *)
(* policy of pol: a listed account is decided on the spot, an unlisted one *)
(* is passed to the parent, and the root falls back on its type.           *)
(***************************************************************************)
DecisionsForIgnoringBlacklistParent(pol, account) ==
    [id \in DOMAIN pol |->
        IF account \in pol[id].member THEN pol[id].policyType = "WHITELIST"
        ELSE pol[id].policyType = "BLACKLIST"]

DecisionsFor(pol, account) ==
    LET decide[id \in DOMAIN pol] ==
            IF account \in pol[id].member THEN pol[id].policyType = "WHITELIST"
            ELSE IF pol[id].parent # NoPolicy THEN decide[pol[id].parent]
            ELSE pol[id].policyType = "BLACKLIST"
    IN  decide

\* The call returns true. It reverts with PolicyNotFound on an unknown id, so
\* "returns false" is exists(id) /\ ~isAuthorized(id, account).
isAuthorized(id, account) ==
    exists(id) /\ DecisionsFor(policies, account)[id]

-----------------------------------------------------------------------------
\* A parent must exist, unless there is none.
ParentUnchecked(parent) == TRUE
ParentFound(parent) == parent # NoPolicy => exists(parent)

\* _nextPolicyId++
IdNotTaken(id) == id
IdAfter(id) == id + 1

\* Both createPolicy overloads; anyone may call them, for any admin.
createPolicy(admin, policyType, parent) ==
    /\ nextPolicyId <= MaxPolicyId
    /\ ParentFound(parent)
    /\ policies' = [id \in DOMAIN policies \cup {nextPolicyId} |->
                      IF id = nextPolicyId
                      THEN [admin |-> admin, policyType |-> policyType,
                            parent |-> parent, member |-> {}]
                      ELSE policies[id]]
    /\ nextPolicyId' = IdAfter(nextPolicyId)

ListedAlone(member, account, value) ==
    IF value THEN {account} ELSE member \ {account}

\* p.member[account] = value
Listed(member, account, value) ==
    IF value THEN member \cup {account} ELSE member \ {account}

\* _setMember, behind modifyPolicyWhitelist and modifyPolicyBlacklist alike:
\* neither looks at the policy's type.
setMember(sender, id, account, value) ==
    /\ exists(id)
    /\ sender = policies[id].admin
    /\ policies' = [policies EXCEPT ![id].member = Listed(@, account, value)]
    /\ UNCHANGED nextPolicyId

RegistryNext ==
    \/ \E admin \in Account, type \in PolicyType, parent \in {NoPolicy} \cup PolicyIds :
           createPolicy(admin, type, parent)
    \/ \E sender \in Users, id \in PolicyIds, account \in Account, value \in BOOLEAN :
           setMember(sender, id, account, value)

RegistrySpec == InitRegistry /\ [][RegistryNext]_registryVars

-----------------------------------------------------------------------------
\* The ids handed out so far are exactly the policies that exist.
RegistryTypeOK ==
    /\ nextPolicyId \in FirstPolicyId .. (MaxPolicyId + 1)
    /\ policies \in [FirstPolicyId .. (nextPolicyId - 1) -> Policy]

\* Every parent is an existing, older policy: the recursion of isAuthorized
\* descends in id, so it terminates and never meets PolicyNotFound on the way
\* up (createPolicy checks the parent's existence before it takes the new id).
ParentsDescend ==
    \A id \in DOMAIN policies :
        policies[id].parent # NoPolicy =>
            exists(policies[id].parent) /\ policies[id].parent < id

-----------------------------------------------------------------------------
\* The reference definition of a decision. Ids descend along a chain, so the
\* nearest listing policy is the largest id of the chain that lists the account.
ChainsOf(pol) ==
    LET chain[id \in DOMAIN pol] ==
            {id} \cup (IF pol[id].parent = NoPolicy THEN {} ELSE chain[pol[id].parent])
    IN  chain

Listing(pol, id, account) == {p \in ChainsOf(pol)[id] : account \in pol[p].member}
Nearest(ids) == CHOOSE p \in ids : \A q \in ids : q <= p
Root(ids) == CHOOSE p \in ids : \A q \in ids : p <= q

ReferenceDecision(pol, id, account) ==
    IF Listing(pol, id, account) # {}
    THEN pol[Nearest(Listing(pol, id, account))].policyType = "WHITELIST"
    ELSE pol[Root(ChainsOf(pol)[id])].policyType = "BLACKLIST"

\* In a chain of mixed types the nearest policy that lists the account decides,
\* and with no listing the root's default does, whatever lies between. This is what
\* the two equations in the contract's comment come to, and all they come to: the
\* gloss under each of them is ListedAnywhereDecides, which fails.
NearestListingDecides ==
    \A id \in DOMAIN policies, account \in Account :
        isAuthorized(id, account) <=> ReferenceDecision(policies, id, account)

\* The glosses of AuthRegistry.sol:17 and :19: under a WHITELIST policy "a grant
\* anywhere up the chain is sufficient", under a BLACKLIST policy "a block anywhere up
\* the chain is disqualifying". Not so in a chain of mixed types: isAuthorized stops
\* at a listing of the other type that is nearer.
ListedAnywhereDecides ==
    \A id \in DOMAIN policies, account \in Account :
        LET alike == {p \in Listing(policies, id, account) :
                          policies[p].policyType = policies[id].policyType}
        IN  alike # {} =>
                (isAuthorized(id, account) <=> policies[id].policyType = "WHITELIST")

\* A transaction changes the decisions on one account at most, and only under
\* policies whose chain runs through the policy that listed or unlisted it:
\* creating a policy, or editing one elsewhere, never flips an existing decision.
DecisionsAreLocal ==
    [][\E touched \in Account : \A id \in DOMAIN policies, account \in Account :
           isAuthorized(id, account) # isAuthorized(id, account)' =>
               /\ account = touched
               /\ \E p \in ChainsOf(policies)[id] :
                      (account \in policies[p].member) # (account \in policies'[p].member)
      ]_registryVars
=============================================================================
