SPECIFICATION FairSpec
CONSTANTS
    Callers = {c1, c2}
    Names = {release}
    Data = {d1, d2}
    NoData = NoData
    Metas = {labelled}
    NoMeta = NoMeta
    Steps = 2
    MaxCalls = 4
    MaxFaults = 1
    MaxCrashes = 1
    MaxAdmin = 1
CHECK_DEADLOCK FALSE
INVARIANTS
    IInv
    UndisturbedCallSucceeds
PROPERTIES
    MetadataSurvives
    ImplementsStore
    EventuallyAnswered
