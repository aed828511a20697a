SPECIFICATION MCSpec
CONSTANTS
    ana = ana
    bob = bob
    team = team
    s1 = s1
    s2 = s2
    Users <- MCUsers
    NoUser = NoUser
    Groups <- MCGroups
    NoGroup = NoGroup
    Roles <- MCRoles
    MemberOf <- MCMemberOf
    RolesOf <- MCRolesOf
    NamespacePrefix = "user-"
    GroupNamespacePrefix = "projet-"
    Resources <- MCResources
    QuotaStrings <- MCQuotaStrings
    Unset = ""
    Quantities = {"Gi", "2Gi"}
    Malformed = "malformed"
    ParseQuantity <- MCParseQuantity
    Sessions <- MCSessions
    Quotas <- MCNoQuotas
    Annotation <- StaticAnnotations
    MaxRequests = 2
    MaxFaults = 0
    MaxCrashes = 0
    MaxAdmin = 0
    MaxDisturbances = 0
INVARIANT AttributesOfEntitledUser
