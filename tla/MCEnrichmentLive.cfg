SPECIFICATION FairSpec
CONSTANTS
    a = a  b = b  h1 = h1  h2 = h2  ing = ing  swp = swp  d1 = d1
    NoName = NoName
    Names <- MCNames
    Sensitive <- MCSensitive
    Handlers <- MCOneHandler
    Ingesters <- MCIngesters
    Sweeper = swp
    DeadIds <- MCDeadIds
    NamesComeBack = FALSE
    RetryLimit = 0
    MaxVersions = 1
    MaxChanges = 2
    MaxFaults = 3
    MaxLosses = 1
    MaxSweeps = 0
PROPERTIES
    EndsUpProcessed
CHECK_DEADLOCK FALSE
