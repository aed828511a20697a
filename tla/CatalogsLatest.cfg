SPECIFICATION Spec
CONSTANTS
    public = public
    restricted = restricted
    registry = registry
    jupyter = jupyter
    rstudio = rstudio
    alice = alice
    bob = bob
    team = team
    ssp = ssp
    CatalogIds = {public, restricted, registry}
    PackageNames = {jupyter, rstudio}
    Users = {alice, bob}
    Anonymous = Anonymous
    Keys = {team}
    NoKey = NoKey
    Values = {ssp}
    NoMatch = NoMatch
    BadPattern = BadPattern
    Minors <- MCMinors
    NoMinor = NoMinor
    NoVersion = NoVersion
    NoMax = NoMax
    Attributes <- MCAttributes
    Handlers = {h1}
    Configurations <- MCConfigurations
    Entries <- MCEntries
    Requests <- WithoutVersion
    Calls = {}
    Latest = Latest
    MaxRequests = 2
    MaxFaults = 1
    MaxCrashes = 1
CHECK_DEADLOCK FALSE
INVARIANTS
    NoVersionMeansLatest
