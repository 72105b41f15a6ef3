SPECIFICATION DaySpec
CONSTANTS
    Customers = {c1, c2}
    c1 = c1
    c2 = c2
    Qty = {1}
    MaxEvents = 2
    Losses <- AllLosses
INVARIANT SupervisionTypeOK
PROPERTIES VisitsNeverLost VisitsConverge HeaderConverges
