SPECIFICATION FairPipelineSpec
INVARIANTS
    SingleFlight
    RecordIsOwn
    ReconcileFollowsTraining
PROPERTY RunsEnd
CONSTANTS
    MaxRuns = 4
    Triggers = {"manual"}
