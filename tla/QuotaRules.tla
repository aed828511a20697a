----------------------------- MODULE QuotaRules -----------------------------
(***************************************************************************)
(* The pure part of onboarding: which namespace a request is about, which  *)
(* quota the configuration gives it, and what that quota is once converted *)
(* to the "hard" map of a Kubernetes ResourceQuota.                        *)
(*                                                                         *)
(* onboarding/usecase/onboarding.go, onboarding/usecase/quota.go and the   *)
(* helpers of onboarding/adapter/kubernetes/namespace_service.go.          *)
(***************************************************************************)
EXTENDS Naturals, Sequences, FiniteSets

CONSTANTS
    Users, NoUser,      \* usernames of the identity provider
    Groups, NoGroup,    \* group names; NoGroup is the nil pointer of a request
    Roles,
    MemberOf,           \* groups claim of each user's token
    RolesOf,            \* roles claim of each user's token, in token order
    NamespacePrefix, GroupNamespacePrefix,
    Resources,          \* the resource names a quota may limit
    QuotaStrings,       \* the strings a configuration may hold for them
    Unset,              \* the empty string
    Quantities,         \* parsed quantities, equal when Quantity.Equal says so
    Malformed,          \* what ParseQuantity gives for a string it rejects
    ParseQuantity,
    Quotas              \* the "quotas" section of the configuration

Quota == [Resources -> QuotaStrings]

ASSUME NamesAssumption ==
    /\ Users # {} /\ NoUser \notin Users
    /\ NoGroup \notin Groups
    /\ MemberOf \in [Users -> SUBSET Groups]
    /\ RolesOf \in [Users -> Seq(Roles)]

ASSUME QuotaAssumption ==
    /\ IsFiniteSet(Resources)
    /\ Malformed \notin Quantities
    /\ Unset \in QuotaStrings
    /\ ParseQuantity \in [QuotaStrings \ {Unset} -> Quantities \cup {Malformed}]
    /\ \E configured \in SUBSET Roles :
          Quotas \in [enabled: BOOLEAN, default: Quota,
                      userEnabled: BOOLEAN, user: Quota,
                      groupEnabled: BOOLEAN, group: Quota,
                      roles: [configured -> Quota]]

-----------------------------------------------------------------------------
(* Requests.  A request names its user and, optionally, a group.           *)

Request == [user: Users, group: Groups \cup {NoGroup}]

(* The concatenation of a prefix and a name.  Pairs are equal exactly when *)
(* the strings are, as long as neither prefix is a proper prefix of the    *)
(* other (user- and projet- by default).                                   *)
getNamespace(r) ==
    IF r.group # NoGroup
      THEN <<GroupNamespacePrefix, r.group>>
      ELSE <<NamespacePrefix, r.user>>

Namespaces == {getNamespace(r) : r \in Request}

(* slices.Contains(user.Groups, *groupPtr) when a group is given.          *)
GroupAllowed(r) == r.group = NoGroup \/ r.group \in MemberOf[r.user]

-----------------------------------------------------------------------------
(* Which quota applies.                                                    *)

getGroupQuota == IF Quotas.groupEnabled THEN Quotas.group ELSE Quotas.default

(* Positions of the user's roles that the configuration gives a quota to.  *)
MatchingRoles(u) == {i \in DOMAIN RolesOf[u] : RolesOf[u][i] \in DOMAIN Quotas.roles}

FirstIndex(S) == CHOOSE i \in S : \A j \in S : i <= j

getUserQuota(u) ==
    IF MatchingRoles(u) # {}
      THEN Quotas.roles[RolesOf[u][FirstIndex(MatchingRoles(u))]]
      ELSE IF Quotas.userEnabled THEN Quotas.user ELSE Quotas.default

getQuota(r) == IF r.group # NoGroup THEN getGroupQuota ELSE getUserQuota(r.user)

-----------------------------------------------------------------------------
(* From configuration strings to a ResourceQuota.                          *)

HardLimits == UNION {[S -> Quantities] : S \in SUBSET Resources}
NoLimits == [x \in {} |-> x]

LimitedResources(q) == {x \in Resources : q[x] # Unset}

Convertible(q) == \A x \in LimitedResources(q) : ParseQuantity[q[x]] # Malformed

(* The map without its empty entries; meaningful when Convertible(q).      *)
convertQuotaToResourceMap(q) == [x \in LimitedResources(q) |-> ParseQuantity[q[x]]]

(* A bug the runs must notice: the quota is written at every login.        *)
quotasAreDifferentAlways(existing, new) == TRUE

(* Same number of entries, then every new entry looked up in the old map.  *)
quotasAreDifferent(existing, new) ==
    \/ Cardinality(DOMAIN existing) # Cardinality(DOMAIN new)
    \/ \E x \in DOMAIN new : x \notin DOMAIN existing \/ existing[x] # new[x]

(* What a request asks the cluster to enforce.                             *)
Wanted(r) == convertQuotaToResourceMap(getQuota(r))

(* A request goes on to the cluster's ResourceQuota only with quotas       *)
(* enabled, every string well formed and at least one limit left.          *)
Enforceable(r) ==
    /\ Quotas.enabled
    /\ Convertible(getQuota(r))
    /\ LimitedResources(getQuota(r)) # {}
=============================================================================
