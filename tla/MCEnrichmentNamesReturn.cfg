SPECIFICATION Spec
CONSTANTS
    a = a  b = b  h1 = h1  h2 = h2  ing = ing  swp = swp  d1 = d1
    NoName = NoName
    Names <- MCNames
    Sensitive <- MCSensitive
    Handlers <- MCHandlers
    Ingesters <- MCIngesters
    Sweeper = swp
    DeadIds <- MCDeadIds
    NamesComeBack = TRUE
    RetryLimit = 0
    MaxVersions = 1
    MaxChanges = 3
    MaxFaults = 1
    MaxLosses = 0
    MaxSweeps = 1
SYMMETRY Symmetry
INVARIANTS
    ProcessedMeansEnriched
CHECK_DEADLOCK FALSE
