------------------------------ MODULE OnePart ------------------------------
(***************************************************************************)
(* SignIn, and five parts of the server modelled apart.  A behaviour is    *)
(* one part's: part says whose, and the slots from s1 on are the variables *)
(* of a part that isn't SignIn, in its order; those it has no variable for *)
(* stay Unused.                                                            *)
(***************************************************************************)
EXTENDS SignIn

CONSTANTS
    Provisioned, Local, ExtIds, NumGrants, MaxNow, MaxHeldEvents,
    Docs, Facet, TightOnes, LooseOnes, PolicedOnes, ApprovedFirst, NumItems,
    Reviewers, ReviewAdmins, MaxTagEvents,
    Posts, Pollers, NumMessages, NumParts, SenderListed, TriesMax, MaxFiles,
    MaxUploads, MaxMailFaults, MaxMailChanges,
    MaxChanges, MaxFaults,
    Objects, Values, Writers, MaxLevel, MaxLevelEvents

VARIABLES
    part, s1, s2, s3, s4, s5, s6, s7, s8, s9

slots   == <<s1, s2, s3, s4, s5, s6, s7, s8, s9>>
OneVars == <<part, slots, vars>>

\* There is an account and a file, "admin" is no writer of tags, and what is
\* counted or bounded is by numbers.
ASSUME OnePartAssumption ==
    /\ ExtIds # {} /\ MaxNow \in Nat
    /\ NumMessages \in Nat /\ NumParts \in Nat /\ MaxFiles \in Nat
    /\ MaxChanges \in Nat /\ MaxFaults \in Nat
    /\ Objects # {} /\ Values # {} /\ "admin" \notin Writers
    /\ MaxLevel \in Nat \ {0} /\ MaxLevelEvents \in Nat
    /\ NumItems \in Nat

Held == INSTANCE Holdings WITH
        MaxEvents <- MaxHeldEvents, db <- s1, now <- s2, signer <- s3,
        known <- s4, events <- s5

Tags == INSTANCE TagReview WITH
        Objects <- Docs, Values <- Facet, Tight <- TightOnes,
        Loose <- LooseOnes, Policed <- PolicedOnes,
        Approved <- ApprovedFirst, Admins <- ReviewAdmins,
        MaxEvents <- MaxTagEvents, db <- s1, granted <- s2, asked <- s3,
        events <- s4

Mail == INSTANCE Arrivals WITH
        Requests <- Posts, Listed <- SenderListed,
        MaxFaults <- MaxMailFaults, MaxChanges <- MaxMailChanges,
        member <- s1, granted <- s2, zone <- s3, files <- s4, box <- s5,
        upload <- s6, run <- s7, tries <- s8, bounds <- s9

Watch == INSTANCE FolderWatch WITH
        folder <- s1, view <- s2, watcher <- s3, debouncer <- s4, news <- s5,
        job <- s6, server <- s7, faults <- s8

Lev == INSTANCE Levels WITH
        MaxEvents <- MaxLevelEvents, db <- s1, txn <- s2, plan <- s3,
        owed <- s4, touched <- s5, events <- s6

----------------------------------------------------------------------------
Unused == 0

(* The slots past the n-th are no part's.                                   *)
Only(n) ==
    /\ IF n < 1 THEN s1 = Unused ELSE TRUE
    /\ IF n < 2 THEN s2 = Unused ELSE TRUE
    /\ IF n < 3 THEN s3 = Unused ELSE TRUE
    /\ IF n < 4 THEN s4 = Unused ELSE TRUE
    /\ IF n < 5 THEN s5 = Unused ELSE TRUE
    /\ IF n < 6 THEN s6 = Unused ELSE TRUE
    /\ IF n < 7 THEN s7 = Unused ELSE TRUE
    /\ IF n < 8 THEN s8 = Unused ELSE TRUE
    /\ IF n < 9 THEN s9 = Unused ELSE TRUE

(* Nor are SignIn's variables another part's: they stay as they were.      *)
Apart == Init

OneInit ==
    \/ part = "SignIn" /\ Init /\ Only(0)
    \/ part = "Holdings" /\ Held!Init /\ Only(5) /\ Apart
    \/ part = "TagReview" /\ Tags!Init /\ Only(4) /\ Apart
    \/ part = "Arrivals" /\ Mail!Init /\ Only(9) /\ Apart
    \/ part = "FolderWatch" /\ Watch!Init /\ Only(8) /\ Apart
    \/ part = "Levels" /\ Lev!Init /\ Only(6) /\ Apart

OneNext ==
    \/ part = "SignIn" /\ Next
       /\ UNCHANGED <<part, s1, s2, s3, s4, s5, s6, s7, s8, s9>>
    \/ part = "Holdings" /\ Held!Next
       /\ UNCHANGED <<part, s6, s7, s8, s9, vars>>
    \/ part = "TagReview" /\ Tags!Next
       /\ UNCHANGED <<part, s5, s6, s7, s8, s9, vars>>
    \/ part = "Arrivals" /\ Mail!Next
       /\ UNCHANGED <<part, vars>>
    \/ part = "FolderWatch" /\ Watch!Next
       /\ UNCHANGED <<part, s9, vars>>
    \/ part = "Levels" /\ Lev!Next
       /\ UNCHANGED <<part, s7, s8, s9, vars>>

OneSpec == OneInit /\ [][OneNext]_OneVars

----------------------------------------------------------------------------
(* Nothing is live for someone retired or a group that is gone, whatever   *)
(* an import remembers of them, and an account signs in only as the record *)
(* that has its id (directory.ts, grants.ts).                              *)
HoldsTheirOwn == part = "Holdings" => Held!HoldsTheirOwn

(* A file holds one value of the facet, at most one item waits for each    *)
(* value, and its home is a tag someone vouches for, whoever proposed and  *)
(* decided in what order (tagging.ts).                                     *)
FileInOrder == part = "TagReview" => Tags!FileInOrder

(* However often it is sent, read or retried, and by however many at once, *)
(* a file is one, and no message that is read is lost (uploads.ts,         *)
(* mail-in.ts, managed ingest).                                            *)
ArrivesOnce == part = "Arrivals" => Mail!ArrivesOnce

(* A change the watcher was to notice is stood for by an event, a timer, a *)
(* fire, a watcher to come or a job until a run has read it or a failure   *)
(* was told (watch.ts, jobs.ts sendSync()).                                *)
NeverForgotten == part = "FolderWatch" => Watch!NeverForgotten

(* The levels search goes by are those of the values a file carries,       *)
(* whoever tags, reviews or applies a pack at once; only while a pack's    *)
(* refresh is owed may those of its files differ (0003_object_levels.sql). *)
LevelsAreExact == part = "Levels" => Lev!LevelsAreExact

============================================================================
