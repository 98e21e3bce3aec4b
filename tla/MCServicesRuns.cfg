SPECIFICATION ServicesSpec
CONSTANTS
    a1 = a1
    a2 = a2
    x1 = x1
    Users = {1, 2}
    Readers = {a1}
    MaxEntries = 1
    Ttl = 2
    MaxNow = 1
    MaxChanges = 2
    DoorRequests = {a1, a2}
    Networks = {x1}
    MaxFailures = 1
    Attempts = 2
    MaxDoorEvents = 1
    Programs = {a1, a2}
    Persons = {"x", "y"}
    OtherEntries = {"e"}
    TwoConnects = FALSE
    MaxRuns = 3
    MaxSetUpFaults = 1
    Deciders = {a1, a2}
    Labels = {"commercial", "local"}
    Rolling = FALSE
    MaxClientChanges = 1
    Clients = {a1, a2}
    Calls = {1, 2, 3}
    Requesters = {"p", "q"}
    MAX_IN_FLIGHT = 2
    MAX_IN_FLIGHT_EACH = 1
    CACHE_ENTRIES = 1
    MaxDocChanges = 1
    Saves = {a1, a2}
    Gaps = FALSE
    MaxGrants = 2
    MaxTokens = 2
    MaxBrowserFaults = 1
INVARIANTS ServicesTypeOK CacheIsExact DoorIsFair SetUpIsWhole OneServerRuns
PROPERTIES SourcesCatchUp ClientsAsDecided DoneAsChecked
CHECK_DEADLOCK FALSE
