--------------------------------- MODULE Levels ---------------------------------
(****************************************************************************)
(* The levels kept beside each object (object_levels, migration 0003) and     *)
(* what moves them: tags and open items written or removed, a value reviewed, *)
(* and a pack planned, applied and refreshed (core/catalog packs.ts, admin    *)
(* pack plan, pack apply, levels refresh).                                   *)
(*                                                                          *)
(* Writers run READ COMMITTED: each statement sees what is committed, and the *)
(* transaction's own writes. A pack is applied SERIALIZABLE: it sees its      *)
(* snapshot, and aborts when a row it writes or locks was changed since. The  *)
(* triggers run inside the writing transaction: they lock the values the      *)
(* objects name (FOR SHARE), then the objects' levels (FOR UPDATE), and work   *)
(* the levels out in the statement after.                                    *)
(*                                                                          *)
(* A value is its level (1 is the strictest), an object's levels the          *)
(* strictest of its values': visibility, exposure, the trusted and the        *)
(* untrusted half are each such a minimum. Facets, rules, policies and the    *)
(* tests of a pack are left out: a plan is one value and its new level.       *)
(****************************************************************************)
EXTENDS Integers, FiniteSets

CONSTANTS
    Objects, Values,
    Writers,        \* connections that tag and review
    MaxLevel,
    MaxEvents       \* transactions and plans begun

Admin == "admin"    \* the connection of the admin's pack commands
Txns == Writers \cup {Admin}
Ranks == 1..MaxLevel
Unset == MaxLevel + 1

VARIABLES
    db,         \* committed: each value's level, the tags, each object's kept level
    txn,        \* each connection's transaction
    plan,       \* the plan the admin has: a value, its level before and after
    owed,       \* "refresh" once a pack is applied, "all" when that refresh was lost
    touched,    \* the objects the last apply saw carrying the value
    events

vars == <<db, txn, plan, owed, touched, events>>

Lowest(S) == CHOOSE n \in S : \A m \in S : n <= m
NoPlan == [v |-> CHOOSE v \in Values : TRUE, before |-> Unset, after |-> Unset]

Idle == [op |-> "none", at |-> "idle", o |-> CHOOSE o \in Objects : TRUE,
         v |-> CHOOSE v \in Values : TRUE, level |-> Unset,
         objs |-> {}, shared |-> {}, got |-> [o \in Objects |-> Unset], snap |-> {}]

Init ==
    /\ db = [level |-> [v \in Values |-> MaxLevel], tags |-> {},
             kept |-> [o \in Objects |-> Unset]]
    /\ txn = [t \in Txns |-> Idle]
    /\ plan = NoPlan
    /\ owed = "none"
    /\ touched = {}
    /\ events = 0

Counted == events < MaxEvents /\ events' = events + 1

----------------------------------------------------------------------------
(* What a transaction sees: its snapshot, or what is committed now; and its   *)
(* own writes.                                                               *)
Serializable(x) == x.op = "apply"
Base(x) == IF Serializable(x) THEN CHOOSE d \in x.snap : TRUE ELSE db

TagsSeen(x) ==
    IF x.op = "tag" THEN Base(x).tags \cup {<<x.o, x.v>>}
    ELSE IF x.op = "untag" THEN Base(x).tags \ {<<x.o, x.v>>}
    ELSE Base(x).tags
LevelSeen(x) ==
    IF x.op \in {"value", "apply"} THEN [Base(x).level EXCEPT ![x.v] = x.level]
    ELSE Base(x).level

Carriers(tags, v) == {o \in Objects : <<o, v>> \in tags}
Named(tags, objs) == {v \in Values : \E o \in objs : <<o, v>> \in tags}

(* openhoard_levels: the strictest level of the values an object carries.     *)
Worked(level, tags, o) == Lowest({level[v] : v \in Named(tags, {o})} \cup {Unset})

(* Row locks: a value changed is held until the end, one named is shared.     *)
Changing(x) == IF x.op \in {"value", "apply"} /\ x.at \in {"wrote", "shared", "held"}
               THEN {x.v} ELSE {}

(* Mutant: the values are read without FOR SHARE.                             *)
ValuesFree_Never(t, vs) == TRUE
ValuesFree(t, vs) == \A u \in Txns \ {t} : Changing(txn[u]) \cap vs = {}

UnsharedBy(t, v) == \A u \in Txns \ {t} : v \notin txn[u].shared

(* Mutant: the levels are worked out without locking their rows first.        *)
LevelsFree_Never(t, objs) == TRUE
LevelsFree(t, objs) ==
    \A u \in Txns \ {t} : txn[u].at = "held" => txn[u].objs \cap objs = {}

(* A row this serializable transaction takes was not changed since it began.  *)
(* Mutant: it runs READ COMMITTED, and takes the row as it finds it.          *)
Unmoved_Any(x, v) == TRUE
Unmoved(x, v) == Serializable(x) => db.level[v] = Base(x).level[v]

----------------------------------------------------------------------------
(* READ COMMITTED writers: the tag or item written, then the trigger's three  *)
(* statements.                                                               *)

Begin(t, x) == txn' = [txn EXCEPT ![t] = x]

Tags(t) ==
    /\ Counted
    /\ t \in Writers /\ txn[t].at = "idle"
    /\ \E o \in Objects, v \in Values :
         /\ \A u \in Txns : txn[u].op \in {"tag", "untag"} => <<txn[u].o, txn[u].v>> # <<o, v>>
         /\ Begin(t, [Idle EXCEPT !.op = IF <<o, v>> \in db.tags THEN "untag" ELSE "tag",
                                  !.at = "wrote", !.o = o, !.v = v, !.objs = {o}])
    /\ UNCHANGED <<db, plan, owed, touched>>

(* A reviewer's decision on a value: an UPDATE of its row, then its trigger.  *)
Reviews(t) ==
    /\ Counted
    /\ t \in Writers /\ txn[t].at = "idle"
    /\ \E v \in Values, l \in Ranks :
         /\ l # db.level[v]
         /\ ValuesFree(t, {v}) /\ UnsharedBy(t, v)
         /\ Begin(t, [Idle EXCEPT !.op = "value", !.at = "wrote", !.v = v, !.level = l,
                                  !.objs = Carriers(db.tags, v)])
    /\ UNCHANGED <<db, plan, owed, touched>>

(* openhoard_levels_refresh(): the values first.                             *)
SharesValues(t) ==
    /\ txn[t].at = "wrote"
    /\ LET vs == Named(TagsSeen(txn[t]), txn[t].objs) IN
         /\ ValuesFree(t, vs)
         /\ \A v \in vs : Unmoved(txn[t], v)
         /\ txn' = [txn EXCEPT ![t].at = "shared", ![t].shared = vs]
    /\ UNCHANGED <<db, plan, owed, touched, events>>

(* Then the levels' rows, and the levels worked out once they are held.       *)
WorksLevels(t) ==
    /\ txn[t].at = "shared"
    /\ LevelsFree(t, txn[t].objs)
    /\ Serializable(txn[t]) =>
         \A o \in txn[t].objs : db.kept[o] = Base(txn[t]).kept[o]
    /\ LET x == txn[t] IN
       txn' = [txn EXCEPT ![t].at = "held",
                 ![t].got = [o \in Objects |-> IF o \in x.objs
                                               THEN Worked(LevelSeen(x), TagsSeen(x), o)
                                               ELSE Unset]]
    /\ UNCHANGED <<db, plan, owed, touched, events>>

(* The transaction's own rows, as committed. Another's rows are left alone.   *)
Committed(x) ==
    [level |-> IF Changing(x) = {} THEN db.level ELSE [db.level EXCEPT ![x.v] = x.level],
     tags |-> IF x.op = "tag" THEN db.tags \cup {<<x.o, x.v>>}
              ELSE IF x.op = "untag" THEN db.tags \ {<<x.o, x.v>>} ELSE db.tags,
     kept |-> [o \in Objects |-> IF o \in x.objs THEN x.got[o] ELSE db.kept[o]]]

Commits(t) ==
    /\ txn[t].at = "held"
    /\ db' = Committed(txn[t])
    /\ txn' = [txn EXCEPT ![t] = Idle]
    /\ owed' = IF txn[t].op = "apply" THEN "refresh"
               ELSE IF txn[t].op = "refresh" THEN "none" ELSE owed
    /\ touched' = IF txn[t].op = "apply" THEN Carriers(Base(txn[t]).tags, txn[t].v) ELSE touched
    /\ UNCHANGED <<plan, events>>

(* A deadlock, a serialization failure, a lost connection: nothing is kept.   *)
RollsBack(t) ==
    /\ txn[t].at # "idle"
    /\ txn' = [txn EXCEPT ![t] = Idle]
    /\ UNCHANGED <<db, plan, owed, touched, events>>

----------------------------------------------------------------------------
(* The admin: plan, apply exactly what was planned, refresh.                  *)

(* planPack(): the change shown, bound to the level the value has now.        *)
PlanPack ==
    /\ Counted
    /\ txn[Admin].at = "idle" /\ owed = "none"
    /\ \E v \in Values, l \in Ranks :
         /\ l # db.level[v]
         /\ plan' = [v |-> v, before |-> db.level[v], after |-> l]
    /\ UNCHANGED <<db, txn, owed, touched>>

(* applyPack() plans again, in its snapshot, and refuses another plan.        *)
(* Mutant: it applies the pack whatever the plan would be now.                *)
StillPlanned_Any == TRUE
StillPlanned == db.level[plan.v] = plan.before

ApplyPack ==
    /\ plan # NoPlan /\ owed = "none"
    /\ txn[Admin].at = "idle"
    /\ StillPlanned
    /\ Begin(Admin, [Idle EXCEPT !.op = "apply", !.at = "begun", !.v = plan.v,
                                 !.level = plan.after, !.snap = {db}])
    /\ UNCHANGED <<db, plan, owed, touched, events>>

(* writeVocabulary(): the row is waited for, and must be the snapshot's.      *)
WritesValue ==
    /\ txn[Admin].at = "begun"
    /\ ValuesFree(Admin, {plan.v}) /\ UnsharedBy(Admin, plan.v)
    /\ Unmoved(txn[Admin], plan.v)
    /\ txn' = [txn EXCEPT ![Admin].at = "wrote",
                          ![Admin].objs = Carriers(Base(txn[Admin]).tags, plan.v)]
    /\ UNCHANGED <<db, plan, owed, touched, events>>

(* refreshPackLevels(): the objects the apply saw, and the carriers now.      *)
(* Mutants: only the one, only the other.                                    *)
Refreshed_Seen == touched
Refreshed_Now == Carriers(db.tags, plan.v)
Refreshed == touched \cup Carriers(db.tags, plan.v)

RefreshPackLevels ==
    /\ owed = "refresh"
    /\ txn[Admin].at = "idle"
    /\ Begin(Admin, [Idle EXCEPT !.op = "refresh", !.at = "wrote", !.objs = Refreshed])
    /\ UNCHANGED <<db, plan, owed, touched, events>>

(* The process died, or its tries ran out, before the refresh committed.      *)
RefreshIsLost ==
    /\ owed = "refresh"
    /\ owed' = "all"
    /\ txn' = [txn EXCEPT ![Admin] = Idle]
    /\ UNCHANGED <<db, plan, touched, events>>

(* admin levels refresh.                                                     *)
RefreshAllLevels ==
    /\ owed = "all"
    /\ txn[Admin].at = "idle"
    /\ Begin(Admin, [Idle EXCEPT !.op = "refresh", !.at = "wrote", !.objs = Objects])
    /\ UNCHANGED <<db, plan, owed, touched, events>>

Next ==
    \/ \E t \in Writers : Tags(t) \/ Reviews(t)
    \/ \E t \in Txns : SharesValues(t) \/ WorksLevels(t) \/ Commits(t) \/ RollsBack(t)
    \/ PlanPack \/ ApplyPack \/ WritesValue
    \/ RefreshPackLevels \/ RefreshIsLost \/ RefreshAllLevels

Spec == Init /\ [][Next]_vars

----------------------------------------------------------------------------
Database == [level : [Values -> Ranks], tags : SUBSET (Objects \X Values),
             kept : [Objects -> 1..Unset]]

TypeOK ==
    /\ db \in Database
    /\ \A t \in Txns :
         /\ txn[t].op \in {"none", "tag", "untag", "value", "apply", "refresh"}
         /\ txn[t].at \in {"idle", "begun", "wrote", "shared", "held"}
         /\ txn[t].o \in Objects /\ txn[t].v \in Values /\ txn[t].level \in 1..Unset
         /\ txn[t].objs \subseteq Objects /\ txn[t].shared \subseteq Values
         /\ txn[t].got \in [Objects -> 1..Unset]
         /\ \A d \in txn[t].snap : d \in Database
    /\ plan \in [v : Values, before : 1..Unset, after : 1..Unset]
    /\ owed \in {"none", "refresh", "all"}
    /\ touched \subseteq Objects
    /\ events \in 0..MaxEvents

(* What search goes by is what the tables say: an object's kept levels are    *)
(* those of the values it carries, whoever tags, reviews or applies a pack at  *)
(* once. Only while the refresh of an applied pack is still owed may they     *)
(* differ, and then only for files the apply saw carrying the value it        *)
(* changed, or that carry it now (0003_object_levels.sql, packs.ts).          *)
LevelsAreExact ==
    \A o \in Objects :
       \/ db.kept[o] = Worked(db.level, db.tags, o)
       \/ owed # "none" /\ o \in touched \cup Carriers(db.tags, plan.v)

(* A pack changes a value only from the level the admin was shown: a review    *)
(* that moved it between the plan and the apply's commit makes the apply stop  *)
(* (packs.ts applyPack(): stale-plan, or 40001).                             *)
AsPlanned == owed = "none" /\ owed' = "refresh" => db.level[plan.v] = plan.before
AppliedAsPlanned == [][AsPlanned]_vars
=============================================================================
