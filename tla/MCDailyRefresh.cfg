SPECIFICATION FairSpec
CONSTANTS
    Keep = 2
    CronHorizon = 1
    ManualHorizons <- TheWindow
    CascadePad = 1
    CascadeMin = 1
    ManualSlots = {"backstop"}
    MaxManual = 1
    MaxPosts = 1
    MaxPostAge = 1
    PostSlots = {"primary"}
    MaxModels = 1
    MaxFaults = 1
    None = None
INVARIANTS
    BackstopCovers
    
PROPERTIES
    FrozenHistory
    SalesNeverGoBack
    NightsKeepComing
