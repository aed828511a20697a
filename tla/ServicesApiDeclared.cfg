SPECIFICATION Spec
CONSTANTS
    Exchanges = {"x"}
    Asks <- MCAllowed
    Raws <- MCNoRaws
    Owner <- MCOwner
    Bound = {"bound"}
    Anonymous = "anonymous"
    Wildcards <- MCWildcards
    Sources <- MCWithOidc
    PackageLists <- MCPackageLists
    Details <- MCDetails
    Schemas <- MCSchemas
    Readable <- MCReadable
    NoAsk = NoAsk
    None = None
    Slashed = {"a/b"}
    ReleaseIds = {"jl", "lab", "events", "schemas", "catalogs"}
    Lower <- MCLower
    EnvName <- MCEnvName
    Numeral <- MCNumeral
    Split <- MCSplit
CHECK_DEADLOCK FALSE
INVARIANT
    AnsweredAsDeclared
