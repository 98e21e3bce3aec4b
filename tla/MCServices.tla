---------------------------- MODULE MCServices ----------------------------
(***************************************************************************)
(* OneService, SourceSync under fairness, and further parts of the server, *)
(* each on its own small instance.  A behaviour is one part's, as in       *)
(* OneService: the slots past its last are those that a part here needs    *)
(* more.                                                                   *)
(***************************************************************************)
EXTENDS OneService

CONSTANTS
    a1, a2, x1

VARIABLES
    s11, s12, s13, s14

ServicesVars == <<OneVars, s11, s12, s13, s14>>

Syncing == INSTANCE SourceSync WITH
        NumItems <- 2, Runners <- {a1},
        Connectors <- [delta : BOOLEAN, identity : BOOLEAN],
        AdminAnytime <- FALSE, EarlyStops <- FALSE, FreePass <- 0,
        MinItems <- 50, BatchSize <- 1, MaxChanges <- 1, MaxFaults <- 1,
        MaxActs <- 1, MaxMoves <- 1, src <- s1, log <- s2, mounted <- s3,
        connector <- s4, cat <- s5, fresh <- s6, skips <- s7, skipsMet <- s8,
        row <- s9, lease <- s10, run <- s11, faults <- s12, acts <- s13,
        moves <- s14

OneDir == INSTANCE DataLock WITH
        Pids <- {1, 2}, MaxStarts <- 2, MaxEvents <- 1, path <- s1,
        proc <- s2, events <- s3

Minding == INSTANCE Supervised WITH
        MaxRuns <- 2, MaxFaults <- 1, MaxPolls <- 3, parent <- s1,
        server <- s2, sup <- s3, file <- s4, stopper <- s5, tunnel <- s6,
        access <- s7, runs <- s8, faults <- s9

Reading == INSTANCE Extraction WITH
        IndexedZones <- FALSE, Size <- 2, MaxRuns <- 2, MaxAborts <- 1,
        MaxUpgrades <- 1, file <- s1, row <- s2, step <- s3, content <- s4,
        feed <- s5, child <- s6, parent <- s7, version <- s8, events <- s9

Planning == INSTANCE PackPlan WITH
        Reorders <- FALSE, MaxEvents <- 3, tenant <- s1, stored <- s2,
        hand <- s3, events <- s4

Pacing == INSTANCE GraphCalls WITH
        Callers <- {1, 2}, Costs <- {1, 2}, Capacity <- 1, Throttles <- {2},
        maxWait <- 2, RETRIES <- 1, MAX_THROTTLES <- 1, MaxTokens <- 2,
        MaxFaults <- 2, call <- s1, queue <- s2, pace <- s3, token <- s4,
        asking <- s5, faults <- s6, bucket <- s7

Noting == INSTANCE Subscriptions WITH
        Libraries <- {1, 2}, LIFETIME <- 3, RENEW_BEFORE <- 2, MAX_WAIT <- 1,
        MIN_WAIT <- 1, RETRY <- 1, MaxIds <- 8, MaxEvents <- 1, there <- s1,
        subs <- s2, file <- s3, run <- s4, age <- s5, failed <- s6,
        events <- s7, lost <- s8

----------------------------------------------------------------------------
(* The slots past the n-th are no part's.                                   *)
Past(n) ==
    /\ Only(n)
    /\ IF n < 11 THEN s11 = Unused ELSE TRUE
    /\ IF n < 12 THEN s12 = Unused ELSE TRUE
    /\ IF n < 13 THEN s13 = Unused ELSE TRUE
    /\ IF n < 14 THEN s14 = Unused ELSE TRUE

ServicesInit ==
    \/ OneInit /\ Past(10)
    \/ part = "SourceSync" /\ Syncing!Init /\ Past(14) /\ Apart
    \/ part = "DataLock" /\ OneDir!Init /\ Past(3) /\ Apart
    \/ part = "Supervised" /\ Minding!Init /\ Past(9) /\ Apart
    \/ part = "Extraction" /\ Reading!Init /\ Past(9) /\ Apart
    \/ part = "PackPlan" /\ Planning!Init /\ Past(4) /\ Apart
    \/ part = "GraphCalls" /\ Pacing!Init /\ Past(7) /\ Apart
    \/ part = "Subscriptions" /\ Noting!Init /\ Past(8) /\ Apart

ServicesNext ==
    \/ OneNext /\ UNCHANGED <<s11, s12, s13, s14>>
    \/ part = "SourceSync" /\ Syncing!Next /\ UNCHANGED <<part, vars>>
    \/ part = "DataLock" /\ OneDir!Next
       /\ UNCHANGED <<part, s4, s5, s6, s7, s8, s9, s10, s11, s12, s13, s14, vars>>
    \/ part = "Supervised" /\ Minding!Next
       /\ UNCHANGED <<part, s10, s11, s12, s13, s14, vars>>
    \/ part = "Extraction" /\ Reading!Next
       /\ UNCHANGED <<part, s10, s11, s12, s13, s14, vars>>
    \/ part = "PackPlan" /\ Planning!Next
       /\ UNCHANGED <<part, s5, s6, s7, s8, s9, s10, s11, s12, s13, s14, vars>>
    \/ part = "GraphCalls" /\ Pacing!Next
       /\ UNCHANGED <<part, s8, s9, s10, s11, s12, s13, s14, vars>>
    \/ part = "Subscriptions" /\ Noting!Next
       /\ UNCHANGED <<part, s9, s10, s11, s12, s13, s14, vars>>

(* The schedule keeps sending the source's job, and a run goes on: Fairness. *)
Going ==
    WF_ServicesVars(/\ part = "SourceSync" /\ Syncing!runSync(a1)
                    /\ UNCHANGED <<part, vars>>)

ServicesSpec == ServicesInit /\ [][ServicesNext]_ServicesVars /\ Going

----------------------------------------------------------------------------
(* Each part's variables have their types.                                  *)
ServicesTypeOK ==
    /\ part = "PrincipalCache" => TypeOK
    /\ part = "SourceSync" => Syncing!TypeOK
    /\ part = "ScimDoor" => Door!TypeOK
    /\ part = "DataLock" => OneDir!TypeOK
    /\ part = "SetUp" => Making!TypeOK
    /\ part = "Supervised" => Minding!TypeOK
    /\ part = "ClientApproval" => Letting!TypeOK
    /\ part = "ClientLookup" => Naming!TypeOK
    /\ part = "Extraction" => Reading!TypeOK
    /\ part = "PackPlan" => Planning!TypeOK
    /\ part = "BrowserClient" => Browsing!TypeOK
    /\ part = "GraphCalls" => Pacing!TypeOK
    /\ part = "Subscriptions" => Noting!TypeOK

(* The embedded database is open in one process at a time, and none is     *)
(* kept from it by what another left (pglite.ts); a server that a service  *)
(* or a tunnel runs is stopped when asked, cleanly, leaves nothing         *)
(* running, and is entered only by what this run of it let in (service.ts, *)
(* tunnel.ts).                                                             *)
OneServerRuns ==
    /\ part = "DataLock" => OneDir!OneOpener
    /\ part = "Supervised" => Minding!RunsAsToldTo

(* Once its faults, changes and acts are over, the catalog mirrors the     *)
(* source, or waits for an admin, or says what it left out (sync.ts).      *)
SourcesCatchUp == <>[](part = "SourceSync" => Syncing!CaughtUp)

(* What is stored of a file's content was answered of it whole, checked to *)
(* its end, by one extractor once; what its source did is never its        *)
(* failure, and a run that is over leaves nothing open or running (enrich  *)
(* extract.ts, sandbox.ts); and a pack applied or removed lets nothing     *)
(* through that the admin wasn't told of, keeps every pack's tests, and    *)
(* one that no longer validates can be fixed (packs.ts); requests to Graph *)
(* keep to the budget and the pauses they share, and none waits on a token *)
(* nobody asks for (sharepoint pace.ts, graph.ts, auth.ts); and Graph's    *)
(* subscriptions are renewed in time, remembered and never piled up        *)
(* (subscriptions.ts).                                                     *)
DoneAsChecked ==
    [][ /\ part = "Extraction" => Reading!ReadsWhole
        /\ part = "PackPlan" => Planning!PlansHold
        /\ part = "GraphCalls" => Pacing!CallsKeepPace
        /\ part = "Subscriptions" => Noting!AllAreTold' ]_ServicesVars

============================================================================
