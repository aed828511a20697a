SPECIFICATION Spec
CONSTANTS
    public = public
    restricted = restricted
    registry = registry
    jupyter = jupyter
    rstudio = rstudio
    alice = alice
    bob = bob
    team = team
    ssp = ssp
    CatalogIds = {public, restricted, registry}
    PackageNames = {jupyter, rstudio}
    Users = {alice, bob}
    Anonymous = Anonymous
    Keys = {team}
    NoKey = NoKey
    Values = {ssp}
    NoMatch = NoMatch
    BadPattern = BadPattern
    Minors <- MCMinors
    NoMinor = NoMinor
    NoVersion = NoVersion
    NoMax = NoMax
    Attributes <- MCAttributes
    Handlers = {h1, h2}
    Configurations <- MCConfigurations
    Entries <- MCEntries
    Requests <- MCRequests
    Calls <- MCCalls
    Latest = Latest
    MaxRequests = 2
    MaxFaults = 1
    MaxCrashes = 1
CHECK_DEADLOCK FALSE
SYMMETRY Sym
INVARIANTS
    IInv
    AnswersAreFresh
    NeverPanics
    ListingRespectsRestrictions
    VersionsFollowMode
    ShownIsInstallable
