SPECIFICATION LifecycleSpec
CONSTANTS
    MaxRuns = 2
    Triggers = {"manual", "schedule"}
    Files = {predictions}
    Predictions = predictions
    Contents <- MCContents
    Absent = 0
    Clients <- MCClients
    NoClient = nobody
    Operator = operator
    NoScore = none
    Scores = {1, 3, none}
    Tolerance = 1
    Cap = 2
    MaxVersions = 2
    MaxFaults = 0
    WritersWait = FALSE
    GateEnabled = TRUE
    HistoryMax = 2
    Overlap = {}
INVARIANT ColdStartMeansFirst
