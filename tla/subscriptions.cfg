\* Two overlapping requests of a customer for a month or two, over three days: every
\* cancellation, pause and renewal against every other, with timeouts and lost connections.
SPECIFICATION FairSpec
CONSTANTS
    None = None
    MaxRows = 3
    Sessions = {s1, s2}
    Periods = {1, 2}
    Monthly = 1
    LastDay = 1
    Horizon = 3
INVARIANTS TypeOK AccountBacked NoFreeTime
PROPERTIES PaywallReturns
