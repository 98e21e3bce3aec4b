SPECIFICATION Spec
CONSTANTS
    a = a  b = b  h1 = h1  h2 = h2  ing = ing  swp = swp  d1 = d1
    NoName = NoName
    Names <- MCNames
    Sensitive <- MCSensitive
    Handlers <- MCHandlers
    Ingesters <- MCIngesters
    Sweeper = swp
    DeadIds <- MCDeadIds
    NamesComeBack = FALSE
    RetryLimit = 1
    MaxVersions = 2
    MaxChanges = 2
    MaxFaults = 2
    MaxLosses = 0
    MaxSweeps = 1
SYMMETRY Symmetry
INVARIANTS
    TypeOK
    ProcessedMeansEnriched
    SendsOnlyWhatTheNameAllows
    SupersededIsOver
    NothingOrphaned
PROPERTIES
    PublishesOnlyWhatItDecided
    SalvageKeepsSummaries
CHECK_DEADLOCK FALSE
