SPECIFICATION LiveSpec
CONSTANTS
    r1 = r1
    Runners = {r1}
    Connectors <- MCFolder
    NumItems = 2
    AdminAnytime = TRUE
    EarlyStops = FALSE
    FreePass = 0
    MinItems = 50
    BatchSize = 1
    MaxChanges = 1
    MaxFaults = 1
    MaxActs = 1
    MaxMoves = 0
PROPERTY OnlyCountedRemoved
CHECK_DEADLOCK FALSE
