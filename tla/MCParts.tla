------------------------------ MODULE MCParts ------------------------------
(***************************************************************************)
(* OnePart, and further parts of the server modelled apart, each on its    *)
(* own small instance.  A behaviour is one part's, as in OnePart: the      *)
(* slots past its last are those that a part here needs more.              *)
(***************************************************************************)
EXTENDS OnePart

CONSTANTS
    a1, a2, x1, x2, plain, tight, fresh

VARIABLES
    s10, s11

PartsVars == <<OneVars, s10, s11>>

(* User names; the spellings A and a are one.                               *)
UserNames == {"a", "A", "b", "plain"}
KeyOf == [n \in UserNames |-> IF n = "A" THEN "a" ELSE n]

Chain == INSTANCE AuditChain WITH
        Writers <- {a1, a2}, PageSize <- 2, MaxEvents <- 3, MaxDamage <- 1,
        rows <- s1, truth <- s2, damaged <- s3, writer <- s4, reader <- s5

Calls == INSTANCE ModelCalls WITH
        Callers <- {a1, a2}, Concurrency <- 1, Limit <- 3, MaxRetries <- 1,
        NumDays <- 2, MaxFaults <- 1, usage <- s1, day <- s2, allowed <- s3,
        caller <- s4, active <- s5, waiting <- s6, account <- s7,
        faults <- s8

Folder == INSTANCE FolderSource WITH
        NumPaths <- 2, NumInodes <- 2, Births <- TRUE, MaxChanges <- 2,
        MaxFaults <- 1, disk <- s1, clock <- s2, state <- s3, token <- s4,
        sync <- s5, index <- s6, seen <- s7, reconcile <- s8, loose <- s9,
        clear <- s10, faults <- s11

Graph == INSTANCE GraphSource WITH
        Folders <- {1, 2}, Files <- {3, 4}, Library <- <<1, 1, 1, 2>>,
        FirstPlaces <- <<0 - 1, 1, 1, 0 - 2>>, MaxChanges <- 2,
        MaxFaults <- 1, site <- s1, clock <- s2, dir <- s3, token <- s4,
        sync <- s5, index <- s6, seen <- s7, retold <- s8, due <- s9,
        loose <- s10, faults <- s11

Srch == INSTANCE Search WITH
        Changing <- {1}, MaxChanges <- 2, files <- s1, facets <- s2,
        meta <- s3, content <- s4, caller <- s5, applying <- s6, stale <- s7,
        changes <- s8

Prov == INSTANCE Provisioning WITH
        Writers <- {a1, a2}, NumUsers <- 2, NumGroups <- 2,
        Titles <- {"t", "u"}, Names <- UserNames,
        Addresses <- {"a", "A", "b"}, OwnAddress <- "b", Key <- KeyOf,
        ExtIds <- {"x"}, MaxEvents <- 3, db <- s1, writer <- s2, log <- s3,
        events <- s4

----------------------------------------------------------------------------
(* The slots past the n-th are no part's.                                   *)
Past(n) ==
    /\ Only(n)
    /\ IF n < 10 THEN s10 = Unused ELSE TRUE
    /\ IF n < 11 THEN s11 = Unused ELSE TRUE

PartsInit ==
    \/ OneInit /\ Past(9)
    \/ part = "AuditChain" /\ Chain!Init /\ Past(5) /\ Apart
    \/ part = "ModelCalls" /\ Calls!Init /\ Past(8) /\ Apart
    \/ part = "FolderSource" /\ Folder!Init /\ Past(11) /\ Apart
    \/ part = "GraphSource" /\ Graph!Init /\ Past(11) /\ Apart
    \/ part = "Search" /\ Srch!Init /\ Past(8) /\ Apart
    \/ part = "Provisioning" /\ Prov!Init /\ Past(4) /\ Apart

PartsNext ==
    \/ OneNext /\ UNCHANGED <<s10, s11>>
    \/ part = "AuditChain" /\ Chain!Next
       /\ UNCHANGED <<part, s6, s7, s8, s9, s10, s11, vars>>
    \/ part = "ModelCalls" /\ Calls!Next
       /\ UNCHANGED <<part, s9, s10, s11, vars>>
    \/ part = "FolderSource" /\ Folder!Next /\ UNCHANGED <<part, vars>>
    \/ part = "GraphSource" /\ Graph!Next /\ UNCHANGED <<part, vars>>
    \/ part = "Search" /\ Srch!Next /\ UNCHANGED <<part, s9, s10, s11, vars>>
    \/ part = "Provisioning" /\ Prov!Next
       /\ UNCHANGED <<part, s5, s6, s7, s8, s9, s10, s11, vars>>

PartsSpec == PartsInit /\ [][PartsNext]_PartsVars

----------------------------------------------------------------------------
(* Each part's variables have their types.                                  *)
PartsTypeOK ==
    /\ part = "SignIn" => TypeOK
    /\ part = "Holdings" => Held!TypeOK
    /\ part = "TagReview" => Tags!TypeOK
    /\ part = "Arrivals" => Mail!TypeOK
    /\ part = "AuditChain" => Chain!TypeOK
    /\ part = "ModelCalls" => Calls!TypeOK
    /\ part = "FolderWatch" => Watch!TypeOK
    /\ part = "Levels" => Lev!TypeOK
    /\ part = "FolderSource" => Folder!TypeOK
    /\ part = "GraphSource" => Graph!TypeOK
    /\ part = "Search" => Srch!TypeOK
    /\ part = "Provisioning" => Prov!TypeOK

(* Whatever appends at once, the audit chain is one line and no append     *)
(* fails for another; a verification, a walk or an export of a chain that  *)
(* goes on growing says what there was, and an export shows in the log     *)
(* (audit store.ts, view.ts, export.ts).                                   *)
AuditIsExact ==
    part = "AuditChain" => Chain!NeverForks /\ Chain!ReadersAreExact

(* Whatever calls at once and however calls end, a day's tokens are what   *)
(* was spent and what is reserved, past the limit by no more than calls    *)
(* cost beyond their reservation, and a slot is held for every call that   *)
(* is out and no other (budget.ts, clients.ts).                            *)
CallsAreCounted == part = "ModelCalls" => Calls!CallsAreCounted

(* A search answers what the caller's views say and nothing else: no       *)
(* title, tag, summary or text the caller isn't shown makes a hit, moves   *)
(* one or makes the search fall back; and a listing, opening and           *)
(* explaining a file are one decision (search.ts, visibility.ts,           *)
(* 0001_rls.sql, explain.ts).                                              *)
SearchIsExact ==
    part = "Search" => Srch!SearchIsExact /\ Srch!OneDecision

(* Whatever a provider sends and retries at once, nobody current shares a  *)
(* name or an address, a list is of those its filter is true of, and the   *)
(* log tells who is an admin (scim users.ts, groups.ts).                   *)
DirectoryIsExact ==
    part = "Provisioning" => Prov!DirectoryIsWhole /\ Prov!AdminsAreTold /\ Prov!ListsAreExact

(* A sync that saw the whole folder while nothing changed leaves the       *)
(* catalog with exactly its files, and a delta names a file as the         *)
(* snapshot before it did; once Graph has nothing to tell past a saved     *)
(* cursor every item is at its path, whatever became of the folders above  *)
(* it and whichever token a killed run left (fs-connector.ts, state.ts,    *)
(* connector.ts, sharepoint state.ts).                                     *)
FollowsTheSource ==
    /\ part = "FolderSource" => Folder!FollowsTheFolder
    /\ part = "GraphSource" => Graph!FollowsTheSite

(* A reviewer who is no admin decides for one file and opens it to nobody; *)
(* nothing is recorded for someone who is no member by then, nor by a      *)
(* client whose grant has ended; a pack changes a value only from the      *)
(* level the admin was shown; and a provider's request does what it says   *)
(* or nothing, and nothing more when sent again (review-inbox.ts,          *)
(* uploads.ts, mail-in.ts, packs.ts, scim users.ts, groups.ts).            *)
StepsAreAllowed ==
    [][ /\ part = "TagReview" => Tags!StayInFile
        /\ part = "Arrivals" => Mail!WhileAllowed
        /\ part = "Levels" => Lev!AsPlanned
        /\ part = "Provisioning" => Prov!DoesAsAsked ]_PartsVars

============================================================================
