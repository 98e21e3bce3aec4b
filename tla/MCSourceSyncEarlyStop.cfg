SPECIFICATION LiveSpec
CONSTANTS
    r1 = r1
    Runners = {r1}
    Connectors <- MCFolder
    NumItems = 2
    AdminAnytime = FALSE
    EarlyStops = TRUE
    FreePass = 0
    MinItems = 50
    BatchSize = 1
    MaxChanges = 1
    MaxFaults = 1
    MaxActs = 0
    MaxMoves = 0
INVARIANT NothingMissed
CHECK_DEADLOCK FALSE
