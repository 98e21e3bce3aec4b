---------------------------- MODULE OneService ----------------------------
(***************************************************************************)
(* PrincipalCache, and five parts of the server and of its clients         *)
(* modelled apart.  A behaviour is one part's: part says whose, and the    *)
(* slots from s1 on are the variables of a part that isn't PrincipalCache, *)
(* in its order; those it has no variable for stay Unused.                 *)
(***************************************************************************)
EXTENDS PrincipalCache

CONSTANTS
    DoorRequests, Networks, MaxFailures, Attempts, MaxDoorEvents,
    Programs, Persons, OtherEntries, TwoConnects, MaxRuns, MaxSetUpFaults,
    Deciders, Labels, Rolling, MaxClientChanges,
    Clients, Calls, Requesters, MAX_IN_FLIGHT, MAX_IN_FLIGHT_EACH,
    CACHE_ENTRIES, MaxDocChanges,
    Saves, Gaps, MaxGrants, MaxTokens, MaxBrowserFaults

VARIABLES
    part, s1, s2, s3, s4, s5, s6, s7, s8, s9, s10

slots   == <<s1, s2, s3, s4, s5, s6, s7, s8, s9, s10>>
OneVars == <<part, slots, vars>>

\* The requests are finitely many; there is an address, and none is a token or
\* a tenant; a failure is allowed at least, and nobody is called "team",
\* nor a command line "free".  A label is a word of its own, and nobody who
\* decides is "nobody"; the calls are finitely many, and an entry is kept at
\* least; and what bounds is a number.
ASSUME OneServiceAssumption ==
    /\ IsFiniteSet(DoorRequests)
    /\ Networks # {} /\ {"token", "tenant"} \cap Networks = {}
    /\ MaxFailures \in Nat \ {0}
    /\ "team" \notin Persons /\ "free" \notin Programs
    /\ MaxRuns \in Nat /\ MaxSetUpFaults \in Nat
    /\ {"none", "unsaid"} \cap Labels = {} /\ "nobody" \notin Deciders
    /\ MaxClientChanges \in Nat
    /\ IsFiniteSet(Calls) /\ CACHE_ENTRIES \in Nat \ {0}
    /\ MAX_IN_FLIGHT \in Nat /\ MAX_IN_FLIGHT_EACH \in Nat
    /\ MaxDocChanges \in Nat
    /\ MaxGrants \in Nat /\ MaxTokens \in Nat \ {0}
    /\ MaxBrowserFaults \in Nat

Door == INSTANCE ScimDoor WITH
        Requests <- DoorRequests, Addresses <- Networks,
        MaxEvents <- MaxDoorEvents, token <- s1, counts <- s2, recent <- s3,
        summary <- s4, request <- s5, told <- s6, events <- s7

Making == INSTANCE SetUp WITH
        People <- Persons, Entries <- OtherEntries,
        MaxFaults <- MaxSetUpFaults, db <- s1, log <- s2, lock <- s3,
        config <- s4, claude <- s5, run <- s6, runs <- s7, faults <- s8,
        cut <- s9, added <- s10

Letting == INSTANCE ClientApproval WITH
        Users <- Deciders, MaxChanges <- MaxClientChanges, row <- s1,
        config <- s2, admins <- s3, live <- s4, page <- s5, request <- s6,
        epoch <- s7, app <- s8, changes <- s9

Naming == INSTANCE ClientLookup WITH
        MaxChanges <- MaxDocChanges, doc <- s1, cache <- s2, failed <- s3,
        inFlight <- s4, perRequester <- s5, call <- s6, fetched <- s7,
        changes <- s8

Browsing == INSTANCE BrowserClient WITH
        MaxFaults <- MaxBrowserFaults, grant <- s1, kept <- s2, save <- s3,
        renewing <- s4, page <- s5, faults <- s6

----------------------------------------------------------------------------
Unused == 0

(* The slots past the n-th are no part's.                                   *)
Only(n) ==
    /\ IF n < 1 THEN s1 = Unused ELSE TRUE
    /\ IF n < 2 THEN s2 = Unused ELSE TRUE
    /\ IF n < 3 THEN s3 = Unused ELSE TRUE
    /\ IF n < 4 THEN s4 = Unused ELSE TRUE
    /\ IF n < 5 THEN s5 = Unused ELSE TRUE
    /\ IF n < 6 THEN s6 = Unused ELSE TRUE
    /\ IF n < 7 THEN s7 = Unused ELSE TRUE
    /\ IF n < 8 THEN s8 = Unused ELSE TRUE
    /\ IF n < 9 THEN s9 = Unused ELSE TRUE
    /\ IF n < 10 THEN s10 = Unused ELSE TRUE

(* Nor are PrincipalCache's variables another part's: they stay as they    *)
(* were.                                                                   *)
Apart == Init

OneInit ==
    \/ part = "PrincipalCache" /\ Init /\ Only(0)
    \/ part = "ScimDoor" /\ Door!Init /\ Only(7) /\ Apart
    \/ part = "SetUp" /\ Making!Init /\ Only(10) /\ Apart
    \/ part = "ClientApproval" /\ Letting!Init /\ Only(9) /\ Apart
    \/ part = "ClientLookup" /\ Naming!Init /\ Only(8) /\ Apart
    \/ part = "BrowserClient" /\ Browsing!Init /\ Only(6) /\ Apart

OneNext ==
    \/ part = "PrincipalCache" /\ Next
       /\ UNCHANGED <<part, s1, s2, s3, s4, s5, s6, s7, s8, s9, s10>>
    \/ part = "ScimDoor" /\ Door!Next
       /\ UNCHANGED <<part, s8, s9, s10, vars>>
    \/ part = "SetUp" /\ Making!Next
       /\ UNCHANGED <<part, vars>>
    \/ part = "ClientApproval" /\ Letting!Next
       /\ UNCHANGED <<part, s10, vars>>
    \/ part = "ClientLookup" /\ Naming!Next
       /\ UNCHANGED <<part, s9, s10, vars>>
    \/ part = "BrowserClient" /\ Browsing!Next
       /\ UNCHANGED <<part, s7, s8, s9, s10, vars>>

OneSpec == OneInit /\ [][OneNext]_OneVars

----------------------------------------------------------------------------
(* Guesses at the SCIM door never turn the tenant's own token away, fill   *)
(* the log or lose their count, and the log says of a request what it did, *)
(* whatever its token came to meanwhile (scim routes.ts, limiter.ts).      *)
DoorIsFair ==
    part = "ScimDoor" =>
        /\ Door!NeverLockedOut
        /\ Door!GuessesAreBounded
        /\ Door!EachInOneSummary
        /\ Door!WorkIsRecorded

(* Whatever fails or is cut short in init --solo, init --team and connect, *)
(* and whichever run beside one another, config.json names a tenant wholly *)
(* set up, none is left beside another's, an unfinished one can be         *)
(* finished, and connect's approval stands only with its record (solo.ts,  *)
(* team.ts, connect.ts).                                                   *)
SetUpIsWhole == part = "SetUp" => Making!SetUpIsWhole

(* A client gets what the app's last decision and the config give it,      *)
(* however its row came to stand; an admin decides of it as the form       *)
(* showed it, and a consent makes a code only of one let in by then (oauth *)
(* routes.ts, allowlist.ts, admin-api.ts); and checking a client's         *)
(* document locks nobody out and remembers only what its last fetch said   *)
(* (clients.ts); and the browser extension keeps the connection its person *)
(* made, renews it once for all its saves, and drops it only when the      *)
(* server won't have it (extension lib.ts).                                *)
ClientsAsDecided ==
    [][ /\ part = "ClientApproval" => Letting!AsDecided
        /\ part = "ClientLookup" => Naming!LookupsAreFair'
        /\ part = "BrowserClient" => Browsing!ConnectionStands ]_OneVars

============================================================================
