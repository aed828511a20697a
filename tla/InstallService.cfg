SPECIFICATION FairSpec
CONSTANTS
    alice = alice
    bob = bob
    jupyter = jupyter
    unknown = unknown
    id1 = id1
    id2 = id2
    name1 = name1
    name2 = name2
    shared = shared
    Handlers = {h1, h2}
    Users = {alice, bob}
    Packages = {jupyter, unknown}
    NoPackage = NoPackage
    Resolvable = {jupyter}
    ReleaseIds = {id1, id2}
    HelmNames = {name1, name2}
    NoName = NoName
    Namespaces = {shared}
    NoNamespace = NoNamespace
    NoSecret = NoSecret
    HttpRequests <- MCHttpRequests
    StartRequests <- MCStartRequests
    MaxRequests = 3
    MaxFaults = 1
    MaxCrashes = 1
CHECK_DEADLOCK FALSE
INVARIANTS
    ReportsInOrder
    EveryReleaseHasItsSecret
    OnlyResolvedPackages
PROPERTIES
    ImplementsInstallContract
    EventuallyReported
