SPECIFICATION LifecycleSpec
CONSTANTS
    MaxRuns = 2
    Triggers = {"manual", "schedule"}
    Files = {models, predictions}
    Predictions = predictions
    Contents <- MCContents
    Absent = 0
    Clients <- MCClients
    NoClient = nobody
    Operator = operator
    NoScore = none
    Scores = {1, 3, none}
    Tolerance = 1
    Cap = 1
    MaxVersions = 2
    MaxFaults = 1
    WritersWait = FALSE
    GateEnabled = TRUE
    HistoryMax = 2
    Overlap = {}
INVARIANTS
    LifecycleTypeOK
    HealedByNextTraining
    ScoresAreMeasured
    EverySuccessAudited
PROPERTIES
    NoUngatedRegression
    ComposesPipeline
    ComposesRegistry
