SPECIFICATION Spec
CONSTANTS
    i1 = i1
    i2 = i2
    c1 = c1
    c2 = c2
    c3 = c3
    Never = Never
    Items = {i1, i2}
    Journey <- MCJourney
    Inputs <- MCInputs
    MaxFaults = 1
INVARIANT LoadFollowsPriority
INVARIANT NewcomersAreServed
CHECK_DEADLOCK FALSE
