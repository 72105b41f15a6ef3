SPECIFICATION RegistrySpec
CONSTANTS
    Files = {models, predictions}
    Contents = {new}
    Absent = absent
    c1 = c1
    c2 = c2
    Clients <- MCClients
    NoClient = nobody
    Scores = {1}
    Cap = 1
    MaxVersions = 3
    MaxFaults = 1
    WritersWait = TRUE
INVARIANTS
    CurrentIsRetained
    TargetIsRetained
    RetentionBound
    SettledIsLive
PROPERTIES
    ConditionalRollback
    SnapshotsImmutable
    ImplementsVersionStore
SYMMETRY Symmetry
