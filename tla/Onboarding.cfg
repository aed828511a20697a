SPECIFICATION MCFairSpec
CONSTANTS
    ana = ana
    bob = bob
    team = team
    s1 = s1
    s2 = s2
    Users <- MCUsers
    NoUser = NoUser
    Groups <- MCGroups
    NoGroup = NoGroup
    Roles <- MCRoles
    MemberOf <- MCMemberOf
    RolesOf <- MCRolesOf
    NamespacePrefix = "user-"
    GroupNamespacePrefix = "projet-"
    Resources <- MCResources
    QuotaStrings <- MCQuotaStrings
    Unset = ""
    Quantities = {"Gi", "2Gi"}
    Malformed = "malformed"
    ParseQuantity <- MCParseQuantity
    Sessions <- MCSessions
    Quotas <- MCQuotas
    Annotation <- FreshAnnotations
    MaxRequests = 2
    MaxFaults = 1
    MaxCrashes = 1
    MaxAdmin = 1
    MaxDisturbances = 2
INVARIANTS
    IInv
    LabelledAfterLogin
    AttributesOfEntitledUser
PROPERTIES
    IgnoredQuotaUntouched
    OnlyWrongQuotaRewritten
    NoTraceOutsideOwnNamespace
    SuccessMeansEnforced
    ImplementsContract
    EventuallyServed
