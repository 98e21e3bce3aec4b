SPECIFICATION PartsSpec
CONSTANTS
    a1 = a1
    a2 = a2
    x1 = x1
    x2 = x2
    plain = plain
    tight = tight
    fresh = fresh
    Browsers = {a1, a2}
    Requests = {x1}
    NumSessions = 2
    NumInvites = 1
    NumLinks = 1
    NumPasskeys = 2
    NumCeremonies = 2
    MaxEvents = 1
    Provisioned = {a1}
    Local = {a2}
    ExtIds = {x1, x2}
    NumGrants = 2
    MaxNow = 1
    MaxHeldEvents = 2
    Docs = {x1, x2}
    Facet = {plain, tight, fresh}
    TightOnes = {tight}
    LooseOnes = {fresh}
    PolicedOnes = {fresh}
    ApprovedFirst = {plain, tight}
    NumItems = 2
    Reviewers = {a1, a2}
    ReviewAdmins = {a2}
    MaxTagEvents = 2
    Posts = {x1}
    Pollers = {a1, a2}
    NumMessages = 2
    NumParts = 2
    SenderListed = TRUE
    TriesMax = 1
    MaxFiles = 3
    MaxUploads = 1
    MaxMailFaults = 1
    MaxMailChanges = 1
    MaxChanges = 2
    MaxFaults = 1
    Objects = {x1}
    Values = {plain, tight}
    Writers = {a1, a2}
    MaxLevel = 2
    MaxLevelEvents = 4
INVARIANTS PartsTypeOK SignInsAreSound HoldsTheirOwn FileInOrder ArrivesOnce NeverForgotten LevelsAreExact AuditIsExact CallsAreCounted SearchIsExact DirectoryIsExact FollowsTheSource
PROPERTIES StepsAreAllowed
CHECK_DEADLOCK FALSE
