SPECIFICATION Spec
CONSTANTS
    r1 = r1
    Runners = {r1}
    Connectors <- MCEither
    NumItems = 2
    AdminAnytime = FALSE
    EarlyStops = FALSE
    FreePass = 1
    MinItems = 50
    BatchSize = 1
    MaxChanges = 2
    MaxFaults = 1
    MaxActs = 1
    MaxMoves = 1
INVARIANTS TypeOK NothingMissed ConfirmedGoesThrough HeldIsPending
PROPERTY OnlyCountedRemoved
CHECK_DEADLOCK FALSE
