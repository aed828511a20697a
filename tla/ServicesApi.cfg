SPECIFICATION FairSpec
CONSTANTS
    Exchanges = {"x", "y"}
    Asks <- MCAsks
    Raws <- MCRaws
    Owner <- MCOwner
    Bound = {"bound"}
    Anonymous = "anonymous"
    Wildcards <- MCWildcards
    Sources <- MCSources
    PackageLists <- MCPackageLists
    Details <- MCDetails
    Schemas <- MCSchemas
    Readable <- MCReadable
    NoAsk = NoAsk
    None = None
    Slashed = {"a/b"}
    ReleaseIds = {"jl", "lab", "events", "schemas", "catalogs"}
    Lower <- MCLower
    EnvName <- MCEnvName
    Numeral <- MCNumeral
    Split <- MCSplit
CHECK_DEADLOCK FALSE
INVARIANTS
    TypeOK
    AcceptedIsHeard
    EveryResponseIsRead
    CallsArrive
    ActsAsOwner
    OtherOriginsOnlyRead
    ListedAsConfigured
PROPERTIES
    ImplementsContract
    EveryCallReturns
