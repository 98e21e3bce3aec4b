\* One person, one client and two connections: any two operations at once.
SPECIFICATION Spec
CONSTANTS
    p1 = p1
    c1 = c1
    t1 = t1
    t2 = t2
    q1 = q1
    Nobody = Nobody
    NoClient = NoClient
    People <- MCPeople
    Clients <- MCClients
    Txs <- MCTxs
    Requests <- MCRequests
    Stops = {"locked"}
    MaxCodes = 2
    MaxGrants = 1
    MaxRotations = 1
SYMMETRY MCSymmetry
INVARIANTS
    TypeOK
    EndedMeansOver
    AnswersAreOfLiveAccess
    OrderedNeverCross
