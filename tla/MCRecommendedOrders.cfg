SPECIFICATION FairSpec
CONSTANTS
    r1 = r1
    r2 = r2
    Routes = {r1, r2}
    Grid = grid
    Cron = cron
    Nightly = nightly
    MaxImports = 1
    MaxCalls = 2
    MaxFaults = 1
    ReplaceWaits = TRUE
    None = None
INVARIANT NoOrphanFile
INVARIANT PlannedAfterChain
PROPERTY NextAskServes
CHECK_DEADLOCK FALSE
